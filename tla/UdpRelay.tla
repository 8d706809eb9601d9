----------------------------- MODULE UdpRelay ------------------------------
(***************************************************************************)
(* The UDP relay (src/src/udp_relay.rs).  Every datagram of a node tells   *)
(* where to send its packets and keeps its entry alive; a loop removes the *)
(* entries of nodes that have been silent for PEER_TTL.  Datagrams may be  *)
(* lost, repeated and delayed: any of them may arrive at any time.         *)
(***************************************************************************)
EXTENDS Naturals, Sequences

CONSTANTS
    Node,
    Addr,
    None,
    PEER_TTL, PERIOD,   \* in units of time; PERIOD is cleanup_loop's
    MaxFrames           \* bound on the frames of both relays

VARIABLES
    peers,          \* the address and the age of a node's entry, or None
    running,        \* the receive loop has not stopped
    timer,          \* the time until cleanup_loop wakes up
    sending,        \* what the receive loop and the mesh task have in
                    \* deliver_local: the frame and the copied address
    sent,           \* history: the frames sent, and where
    heard,          \* history: for how long a node has not been heard
    mesh_rx, frames, outcome    \* as in StreamRelay

own == <<peers, running, timer, sending, sent, heard>>
vars == <<own, mesh_rx, frames, outcome>>

Task == {"loop", "mesh"}

Idle == [id |-> 0, addr |-> None]

\* Long enough to be the same as forever.
Forever == PEER_TTL + PERIOD

\* Types of the table and the tasks.
TypeOK ==
    /\ peers \in [Node -> [addr: Addr, age: 0..Forever] \cup {None}]
    /\ running \in BOOLEAN
    /\ timer \in 0..PERIOD
    /\ sending \in [Task -> [id: 0..MaxFrames, addr: Addr \cup {None}]]
    /\ sent \subseteq (1..MaxFrames) \X Addr
    /\ heard \in [Node -> 0..Forever]

-----------------------------------------------------------------------------
upsert_peer(n, a) ==
    /\ peers' = [peers EXCEPT ![n] = [addr |-> a, age |-> 0]]
    /\ heard' = [heard EXCEPT ![n] = 0]

recv_register(n, a) ==
    /\ running /\ sending["loop"] = Idle
    /\ upsert_peer(n, a)
    /\ UNCHANGED <<running, timer, sending, sent, mesh_rx, frames, outcome>>

Copy(p) == IF p = None THEN None ELSE p.addr

\* A Send also registers its sender; deliver_local copies the address.
recv_send(n, a, to) ==
    /\ running /\ sending["loop"] = Idle
    /\ Len(frames) < MaxFrames
    /\ upsert_peer(n, a)
    /\ frames' = Append(frames, [to |-> to, via |-> "udp"])
    /\ sending' = [sending EXCEPT !["loop"] =
                      [id |-> Len(frames) + 1, addr |-> Copy(peers'[to])]]
    /\ UNCHANGED <<running, timer, sent, mesh_rx, outcome>>

\* recv_from failed: the loop ends, the other tasks go on.
recv_fails ==
    /\ running /\ sending["loop"] = Idle
    /\ running' = FALSE
    /\ UNCHANGED <<peers, timer, sending, sent, heard, mesh_rx, frames,
                   outcome>>

\* The address for packet k of the mesh.  One of the other transport, which
\* is not delivered, gets none.
Found(k) == IF frames[k].via = "udp" THEN Copy(peers[frames[k].to]) ELSE None

\* Mutant: the packets of the mesh are taken by the receive loop.
take_packet_running ==
    /\ running
    /\ sending["mesh"] = Idle /\ mesh_rx # <<>>
    /\ sending' = [sending EXCEPT !["mesh"] =
                      [id |-> Head(mesh_rx), addr |-> Found(Head(mesh_rx))]]
    /\ mesh_rx' = Tail(mesh_rx)
    /\ UNCHANGED <<peers, running, timer, sent, heard, frames, outcome>>

\* handle_mesh_deliveries.
take_packet ==
    /\ sending["mesh"] = Idle /\ mesh_rx # <<>>
    /\ sending' = [sending EXCEPT !["mesh"] =
                      [id |-> Head(mesh_rx), addr |-> Found(Head(mesh_rx))]]
    /\ mesh_rx' = Tail(mesh_rx)
    /\ UNCHANGED <<peers, running, timer, sent, heard, frames, outcome>>

\* deliver_local, from the copy on: there was no entry, or send_to works or
\* does not.
send_to(task) ==
    LET s == sending[task] IN
    /\ s # Idle
    /\ \E ok \in BOOLEAN :
          /\ ok => s.addr # None
          /\ sent' = IF ok THEN sent \cup {<<s.id, s.addr>>} ELSE sent
          /\ outcome' = [outcome EXCEPT ![s.id] =
                            IF ok THEN "delivered" ELSE "not delivered"]
    /\ sending' = [sending EXCEPT ![task] = Idle]
    /\ UNCHANGED <<peers, running, timer, heard, mesh_rx, frames>>

\* Mutant: an entry is kept one unit too long.
expired_late(p) == p.age > PEER_TTL

expired(p) == p.age >= PEER_TTL

\* cleanup_loop, on time.
cleanup ==
    /\ timer = 0
    /\ timer' = PERIOD
    /\ peers' = [n \in Node |->
          IF peers[n] # None /\ expired(peers[n]) THEN None ELSE peers[n]]
    /\ UNCHANGED <<running, sending, sent, heard, mesh_rx, frames, outcome>>

Older(t) == IF t = Forever THEN t ELSE t + 1

tick ==
    /\ timer > 0
    /\ timer' = timer - 1
    /\ peers' = [n \in Node |->
          IF peers[n] = None THEN None
          ELSE [peers[n] EXCEPT !.age = Older(@)]]
    /\ heard' = [n \in Node |-> Older(heard[n])]
    /\ UNCHANGED <<running, sending, sent, mesh_rx, frames, outcome>>

-----------------------------------------------------------------------------
OwnInit ==
    /\ peers = [n \in Node |-> None]
    /\ running = TRUE
    /\ timer = PERIOD
    /\ sending = [t \in Task |-> Idle]
    /\ sent = {}
    /\ heard = [n \in Node |-> Forever]

Next ==
    \/ \E n \in Node, a \in Addr :
          recv_register(n, a) \/ \E to \in Node : recv_send(n, a, to)
    \/ recv_fails
    \/ take_packet
    \/ \E t \in Task : send_to(t)
    \/ cleanup
    \/ tick

-----------------------------------------------------------------------------
(* Properties.                                                             *)

\* A node that was heard within PEER_TTL can be reached, and one that was
\* not heard for PEER_TTL and a period of the cleanup cannot: wherever the
\* cleanups fall, and also after the receive loop has stopped.
Lifetime ==
    \A n \in Node :
        /\ heard[n] < PEER_TTL => peers[n] # None
        /\ heard[n] >= PEER_TTL + PERIOD => peers[n] = None
=============================================================================
