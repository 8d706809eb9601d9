--------------------------- MODULE MCControlPlane ---------------------------
(***************************************************************************)
(* Small instances of ControlPlane for TLC.                                *)
(***************************************************************************)
EXTENDS Dns, TLC

\* Two IPv4 prefixes of four addresses (a /30 each) and one of eight that
\* covers both, written with a host bit set.
McCidr4 == {[addr |-> 0, size |-> 4], [addr |-> 4, size |-> 4],
            [addr |-> 5, size |-> 8]}

\* IPv6 ranges of four addresses, of one inside it and of one beyond.
McCidr6 == {[addr |-> 0, size |-> 4], [addr |-> 1, size |-> 1],
            [addr |-> 4, size |-> 1]}

\* One pair of prefixes, for the runs that are not about addresses.
OneCidr4 == {[addr |-> 0, size |-> 8]}
OneCidr6 == {[addr |-> 0, size |-> 8]}

McAcl == {DefaultAcl}

\* Nodes of a certain name, which they may change, may reach no others;
\* everybody else may.
AnyNode == [any |-> TRUE, tags |-> {}, node_ids |-> {}, names |-> {}]
Named == [any |-> FALSE, tags |-> {}, node_ids |-> {}, names |-> {"a"}]
NameAcl == {DefaultAcl,
            [default_action |-> "allow",
             rules |-> <<[action |-> "allow", src |-> Named, dst |-> Named],
                         [action |-> "deny", src |-> Named, dst |-> AnyNode]>>]}

\* "A" and "a" are one name to the server.  "AA" stands for a letter that is
\* not ASCII and whose lower case is "a", as the Kelvin sign's is k: another
\* name to ensure_unique_node_name, the same to the DNS server.
McLower(name) == IF name = "A" THEN "a" ELSE name
McFold(label) == IF label \in {"A", "AA"} THEN "a" ELSE label
McEscape(label) == IF label = "AA" THEN "escaped" ELSE label
McPlain == {"a", "A", "b", "x", "lan"}
McLabel == McPlain \cup {"AA", "escaped", ""}

\* The name "b" has a dot in it.
McLabels(name) == IF name = "b" THEN <<"b", "x">> ELSE <<name>>

McDomain(n) == <<"lan">>

\* Ids, secrets and keys are only compared for equality.
IdSymmetry == Permutations(NodeId) \cup Permutations(NetworkId)
KeySymmetry == Permutations(NodeId) \cup Permutations(Key)
OneNodeSymmetry == Permutations(Key)
=============================================================================
