--------------------------------- MODULE Dns --------------------------------
(***************************************************************************)
(* The DNS server (src/src/dns.rs), over the state of ControlPlane.  It    *)
(* builds its records anew for every request, from one read of the store.  *)
(* Where two nodes have one name the iteration order of a hash map decides *)
(* which of them is found: the operators give the set of what is possible. *)
(*                                                                         *)
(* A name is the sequence of its labels, the parts between the dots.       *)
(***************************************************************************)
EXTENDS Netmap

CONSTANTS
    Label, Empty,       \* labels; the empty one
    Labels(_),          \* the labels of a node name, which may hold dots
    Domain(_),          \* dns_domain of a network, fixed when it is created
    Fold(_),            \* str::to_lowercase of a label
    Escape(_),          \* a label of a question as Name::to_ascii writes it
    Plain               \* the labels of ASCII letters, digits and hyphens

IsPlain(name) == \A l \in DOMAIN name : name[l] \in Plain

\* What "."-joining a node name and a domain gives, in a netmap and here.
dns_name(i) == Labels(nodes[i].name) \o Domain(nodes[i].network_id)

\* The question a client asks for a name, as the server reads it.
to_ascii(name) == [l \in 1..Len(name) |-> Escape(name[l])]

trim_end(name) ==
    SubSeq(name, 1, Max({0} \cup {l \in DOMAIN name : name[l] # Empty}))

\* Dots at the end do not matter, and case does not, in any script.
normalize_name(name) ==
    LET trimmed == trim_end(name) IN [l \in 1..Len(trimmed) |-> Fold(trimmed[l])]

\* name ends with a dot and the domain.
ends_with(name, domain) ==
    /\ domain # <<>> /\ Len(domain) < Len(name)
    /\ SubSeq(name, Len(name) - Len(domain) + 1, Len(name)) = domain

within(name, domain) == name = domain \/ ends_with(name, domain)

\* Letters of two cases are two letters to ensure_unique_node_name unless
\* they are ASCII: only plain labels that fold alike make one name to it.
ASSUME DnsAssumption ==
    /\ Plain \subseteq Label \ {Empty}
    /\ \A l \in Plain : Escape(l) = l
    /\ \A name \in Name : Labels(name) \in Seq(Label) \ {<<>>}
    /\ \A n \in NetworkId : Domain(n) \in Seq(Label) \ {<<>>}
    /\ \A x, y \in Name :
          /\ IsPlain(Labels(x)) /\ IsPlain(Labels(y))
          /\ normalize_name(Labels(x)) = normalize_name(Labels(y))
          => Lower(x) = Lower(y)

\* Mutated form: revoked nodes keep their names.
snapshot_revoked(name) ==
    {i \in DOMAIN nodes :
        /\ nodes[i].approved
        /\ nodes[i].network_id \in DOMAIN networks
        /\ normalize_name(dns_name(i)) = name}

\* The nodes that may be the record of a name.
snapshot(name) ==
    {i \in DOMAIN nodes :
        /\ ~nodes[i].revoked /\ nodes[i].approved
        /\ nodes[i].network_id \in DOMAIN networks
        /\ normalize_name(dns_name(i)) = name}

is_within_domains(name) ==
    \E n \in DOMAIN networks : within(name, normalize_name(Domain(n)))

\* The addresses of a record that answer a question of the given type.
answers(i, type) ==
    {<<"A", nodes[i].ipv4>> : t \in {type} \cap {"A", "ANY"}}
    \cup {<<"AAAA", nodes[i].ipv6>> : t \in {type} \cap {"AAAA", "ANY"}}

response(name, found) ==
    [code |-> IF found # {} THEN "NoError"
              ELSE IF is_within_domains(name) THEN "NXDomain" ELSE "Refused",
     answers |-> found]

\* The responses to a request of one question.
build_response(question, type) ==
    LET name == normalize_name(to_ascii(question)) IN
    IF snapshot(name) = {} THEN {response(name, {})}
    ELSE {response(name, answers(i, type)) : i \in snapshot(name)}

-----------------------------------------------------------------------------
(* Properties.                                                             *)

\* No revoked node has rotated its keys, names and domains are plain, and no
\* network's domain is that of another or lies within it.
NamesKept ==
    /\ \A i \in DOMAIN nodes :
          /\ ~(Logged("keys.revoke", i) /\ Logged("keys.rotate", i))
          /\ IsPlain(dns_name(i))
    /\ \A n, o \in DOMAIN networks :
          n # o => ~within(normalize_name(Domain(n)), normalize_name(Domain(o)))

\* The name a netmap gives of a node in service resolves to that node's
\* addresses and to nothing else, also when the name was another node's that
\* was revoked, renamed or deleted since.  Without NamesKept the record may
\* be another node's: one taken back under a name given away, one whose name
\* differs in the case of a letter that is not ASCII, or one with a dot in
\* its name, a.x in the domain lan, where this is a in x.lan.
NamesResolve ==
    NamesKept =>
        \A i \in DOMAIN nodes : effective_node_status(i) =>
            /\ build_response(dns_name(i), "A") =
                  {[code |-> "NoError", answers |-> {<<"A", nodes[i].ipv4>>}]}
            /\ build_response(dns_name(i), "AAAA") =
                  {[code |-> "NoError",
                    answers |-> {<<"AAAA", nodes[i].ipv6>>}]}
=============================================================================
