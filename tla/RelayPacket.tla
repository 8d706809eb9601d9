---------------------------- MODULE RelayPacket ----------------------------
(***************************************************************************)
(* The packets of the relays (parse_packet and build_packet, the same in   *)
(* src/src/stream_relay.rs and src/src/udp_relay.rs).  Of a buffer only    *)
(* the lengths matter, and whether its magic, type and text are right: a   *)
(* frame that is not is of kind "other".                                   *)
(***************************************************************************)
EXTENDS Naturals

CONSTANTS
    HEADER_LEN,
    MAX_ID_LEN,
    MAX_FRAME_LEN

ASSUME PacketAssumption ==
    /\ HEADER_LEN \in Nat \ {0} /\ MAX_ID_LEN \in Nat \ {0}
    /\ MAX_FRAME_LEN \in Nat

\* The buffers up to one past each limit.
Frame == [kind: {"register", "send", "other"},
          from_len: 0..(MAX_ID_LEN + 1), to_len: 0..(MAX_ID_LEN + 1),
          len: 0..(MAX_FRAME_LEN + 1)]

\* Mutant: ids of any length.
parse_packet_any_id(f) ==
    /\ f.len >= HEADER_LEN + f.from_len + f.to_len
    /\ f.from_len > 0
    /\ \/ f.kind = "register" /\ f.to_len = 0
       \/ f.kind = "send" /\ f.to_len > 0

\* The buffer is a packet.
parse_packet(f) ==
    /\ f.from_len <= MAX_ID_LEN /\ f.to_len <= MAX_ID_LEN
    /\ f.len >= HEADER_LEN + f.from_len + f.to_len
    /\ f.from_len > 0
    /\ \/ f.kind = "register" /\ f.to_len = 0
       \/ f.kind = "send" /\ f.to_len > 0

\* The packet passed on, with the sender's id and no target, can be built.
build_packet(f) == f.from_len <= MAX_ID_LEN
=============================================================================
