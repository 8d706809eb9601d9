------------------------------ MODULE Overlay ------------------------------
(***************************************************************************)
(* The arithmetic of overlay prefixes: src/src/api.rs, ipv4_nets_overlap   *)
(* to allocate_node_ips.                                                   *)
(*                                                                         *)
(* A prefix "a.b.c.d/len" is a record [addr, size]: the address as an      *)
(* integer, host bits included, and the number of addresses it spans,      *)
(* 2^(32-len) or 2^(128-len).  The source's tests on len are tests on      *)
(* size: len >= 31 for IPv4 is size <= 2.                                  *)
(***************************************************************************)
EXTENDS Integers

\* Ipv4Net::network / Ipv6Net::network of the ipnet crate: host bits cleared.
net_base(c) == c.addr - (c.addr % c.size)

\* Ipv4Net::contains / Ipv6Net::contains of the ipnet crate.
net_contains(c, x) == net_base(c) <= x /\ x < net_base(c) + c.size

\* Mutated form: only one of the two containments is tested.
nets_overlap_one_way(a, b) == net_contains(a, net_base(b))

\* ipv4_nets_overlap and ipv6_nets_overlap have the same body.
nets_overlap(a, b) ==
    net_contains(a, net_base(b)) \/ net_contains(b, net_base(a))

\* max_ipv4_offset is Some only for a prefix shorter than /31 ...
has_usable_ipv4(c) == c.size > 2

\* Mutated form: the broadcast address counts as usable.
max_ipv4_offset_broadcast(c) == c.size - 1

\* ... and is then the last offset before the broadcast address.
max_ipv4_offset(c) == c.size - 2

\* Defined for prefixes with has_usable_ipv4; None in the source otherwise.
initial_ipv4_offset(c) == IF max_ipv4_offset(c) >= 10 THEN 10 ELSE 1

max_ipv6_offset(c) == c.size - 1

\* Mutated form: the start is counted down from the end.
initial_ipv6_offset_from_end(c) == max_ipv6_offset(c) - 1

initial_ipv6_offset(c) ==
    IF max_ipv6_offset(c) >= 10 THEN 10
    ELSE IF max_ipv6_offset(c) >= 1 THEN 1 ELSE 0

=============================================================================
