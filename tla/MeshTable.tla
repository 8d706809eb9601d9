----------------------------- MODULE MeshTable -----------------------------
(***************************************************************************)
(* The tables of a server of a mesh (src/src/mesh.rs): the messages it has *)
(* seen and the routes it has learned.  Both forget with time and past a   *)
(* number of entries.  A table is a sequence of entries, in the order of   *)
(* their times.                                                            *)
(***************************************************************************)
EXTENDS Naturals, Sequences, Servers

CONSTANTS
    Node,           \* the nodes that use the relays
    SEEN_TTL, MAX_SEEN_IDS,
    ROUTE_TTL, MAX_ROUTE_HINTS,
    MaxMessages,    \* bound on the messages sent
    MaxClock        \* bound on the clock

ASSUME TableAssumption ==
    /\ MAX_SEEN_IDS \in Nat \ {0} /\ MAX_ROUTE_HINTS \in Nat \ {0}
    /\ SEEN_TTL \in Nat \ {0} /\ ROUTE_TTL \in Nat
    /\ MaxMessages \in Nat /\ MaxClock \in Nat

\* MeshContext::seen_ids and MeshContext::route_hints, an entry of each.
SeenEntry == [key: 1..MaxMessages, at: 0..MaxClock]

HintEntry == [key: Node, peer: Server, at: 0..MaxClock]

\* A table without the entry of a key.
without(t, key) ==
    IF \A i \in DOMAIN t : t[i].key # key THEN t
    ELSE LET i == CHOOSE i \in DOMAIN t : t[i].key = key
         IN [j \in 1 .. Len(t) - 1 |-> IF j < i THEN t[j] ELSE t[j + 1]]

\* Mutants: a table has no limit; a full table drops its newest entry.
insert_unlimited(t, e, limit, ttl) == Append(without(t, e.key), e)

insert_oldest_first(t, e, limit, ttl) ==
    LET grown == Append(without(t, e.key), e) IN
    IF Len(grown) <= limit THEN grown ELSE SubSeq(grown, 1, limit)

\* The end of remember_message and of learn_route, at the time of the new
\* entry: past its limit a table loses what is too old, and then its oldest
\* entries.  A table is in the order of its times, so both are its first ones:
\* those before the first young entry, and those before the last limit entries.
insert(t, e, limit, ttl) ==
    LET grown == Append(without(t, e.key), e)
        n == Len(grown)
        young == CHOOSE i \in 1..n :
                    /\ e.at - grown[i].at <= ttl
                    /\ \A j \in 1 .. i - 1 : e.at - grown[j].at > ttl
        last == n - limit + 1
    IN IF n <= limit THEN grown
       ELSE SubSeq(grown, IF young < last THEN last ELSE young, n)
=============================================================================
