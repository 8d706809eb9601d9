---------------------------- MODULE ControlPlane ----------------------------
(***************************************************************************)
(* The state of lightscale-server and every handler that changes it        *)
(* (src/src/api.rs over StateStore::write of src/src/state.rs).            *)
(*                                                                         *)
(* StateStore::write runs a handler's closure under the store's lock, so   *)
(* a handler is one atomic action.  A request that is refused before it    *)
(* changed anything is a stuttering step.  A closure that fails after it   *)
(* changed something is rolled back by the database backend and is not     *)
(* by the file backend: see Commit and Abandon.                            *)
(*                                                                         *)
(* Most handlers read the wall clock before they wait for the lock, so     *)
(* the time they use may be up to LockWait old when the closure runs.      *)
(***************************************************************************)
EXTENDS Integers, Sequences, Overlay

CONSTANTS
    NetworkId, NodeId, TokenId,   \* UUIDs and random secrets
    Name, Lower(_),               \* node names; their ASCII lower case
    Key,                          \* public keys
    Tag,                          \* ACL tags
    Report,                       \* endpoints and routes a heartbeat carries
    NoReport,                     \* the empty lists of a node just created
    Cidr4, Cidr6,                 \* overlay prefixes that may be asked for
    Acl,                          \* policies that may be set
    Age,                          \* key ages that may be set, in seconds
    Ttl,                          \* lifetimes that may be asked for
    MaxUses,                      \* bound on the uses a token is created with
    None,                         \* Option::None
    Backend,                      \* "file" or "db"
    WIDTH,                        \* bits of an integer: 64 in the source
    LockWait,                     \* bound on the wait for the store's lock
    MaxClock, MaxRevision,        \* bounds on time and on successful writes
    MaxHistory                    \* bound on a node's key records

VARIABLES
    networks, nodes, tokens,      \* the maps of State
    audit_log,                    \* the entries logged, as a set
    revision,                     \* State::revision
    clock,                        \* wall-clock seconds
    credit                        \* history: the uses each token has left to
                                  \* give, whatever the server recorded

vars == <<networks, nodes, tokens, audit_log, revision, clock, credit>>

KeyType == {"machine", "wireguard"}

DefaultAcl == [default_action |-> "allow", rules |-> <<>>]

ASSUME BackendAssumption == Backend \in {"file", "db"}

ASSUME BoundsAssumption ==
    /\ LockWait \in Nat /\ MaxClock \in Nat /\ MaxRevision \in Nat
    /\ MaxHistory \in Nat /\ MaxUses \in Nat
    /\ Ttl \subseteq Nat /\ Age \subseteq Nat

\* Lifetimes and ages are u64; the clock is an i64.
ASSUME WidthAssumption ==
    /\ WIDTH \in Nat \ {0} /\ MaxClock < 2^(WIDTH - 1)
    /\ \A x \in Ttl \cup Age : x < 2^WIDTH

ASSUME CidrAssumption ==
    \A c \in Cidr4 \cup Cidr6 :
        c.addr \in Nat /\ c.size \in Nat /\ c.size > 0 /\ net_base(c) \in Nat

ASSUME ValueAssumption ==
    /\ None \notin Int /\ None \notin NetworkId /\ None \notin NodeId
    /\ None \notin Name /\ None \notin Key
    /\ DefaultAcl \in Acl /\ NoReport \in Report

-----------------------------------------------------------------------------
(* The records of model.rs, less the fields that are only echoed: names of *)
(* networks, owners, creation times.  A revocation time is a Boolean.      *)

KeyRecord ==
    [key_type: KeyType, public_key: Key, created_at: Nat, revoked: BOOLEAN]

NetworkState ==
    [overlay_v4: Cidr4, overlay_v6: Cidr6, requires_approval: BOOLEAN,
     acl: Acl, max_age: Age \cup {None}, next_ipv4: Nat, next_ipv6: Nat]

\* auth_secret is Some exactly when auth_expires_at is: every assignment of
\* the source sets or clears both.
NodeState ==
    [network_id: NetworkId, name: Name, machine_public_key: Key,
     wg_public_key: Key, ipv4: Nat, ipv6: Nat, tags: SUBSET Tag,
     report: Report, probe_requested_at: Nat \cup {None}, approved: BOOLEAN,
     auth_expires_at: Int \cup {None}, revoked: BOOLEAN,
     key_history: Seq(KeyRecord)]

TokenState ==
    [network_id: NetworkId, expires_at: Int, uses_left: Nat,
     tags: SUBSET Tag, revoked: BOOLEAN]

AuditAction ==
    {"network.create", "network.delete", "token.create", "token.revoke",
     "acl.update", "key_policy.update", "node.register", "node.register_url",
     "node.approve", "node.update", "keys.rotate", "keys.revoke",
     "node.delete"}

AuditEntry ==
    [action: AuditAction, network_id: NetworkId, node_id: NodeId \cup {None}]

\* Types of the state: what State and the records of model.rs declare.
TypeOK ==
    /\ DOMAIN networks \subseteq NetworkId
    /\ networks \in [DOMAIN networks -> NetworkState]
    /\ DOMAIN nodes \subseteq NodeId
    /\ nodes \in [DOMAIN nodes -> NodeState]
    /\ DOMAIN tokens \subseteq TokenId
    /\ tokens \in [DOMAIN tokens -> TokenState]
    /\ audit_log \subseteq AuditEntry
    /\ revision \in Nat
    /\ clock \in Nat
    /\ DOMAIN credit \subseteq TokenId
    /\ credit \in [DOMAIN credit -> Int]

-----------------------------------------------------------------------------
(* The store.                                                              *)

\* HashMap::insert and HashMap::remove.
Insert(f, k, v) == [x \in DOMAIN f \cup {k} |-> IF x = k THEN v ELSE f[x]]

Remove(f, k) == [x \in DOMAIN f \ {k} |-> f[x]]

\* A closure that returned Ok: the revision moves, the state is kept.
Commit ==
    /\ revision < MaxRevision
    /\ revision' = revision + 1

\* A closure that returned Err: the file backend keeps what the closure had
\* already changed, under the old revision.  The database rolls back.
Abandon ==
    /\ Backend = "file"
    /\ UNCHANGED revision

Audit(action, n, i) ==
    audit_log' = audit_log \cup
                   {[action |-> action, network_id |-> n, node_id |-> i]}

\* now_unix() taken before the wait for the lock.
Stamp == {t \in 0..clock : clock - t <= LockWait}

\* Uuid::new_v4 never repeats; the log names every network and node created.
FreshNetwork(n) ==
    n \notin DOMAIN networks /\ \A e \in audit_log : e.network_id # n

FreshNode(i) == i \notin DOMAIN nodes /\ \A e \in audit_log : e.node_id # i

FreshToken(k) == k \notin DOMAIN credit

-----------------------------------------------------------------------------
(* Networks and tokens.                                                    *)

\* The checks of create_network against the networks that exist.
overlays_free(c4, c6) ==
    \A n \in DOMAIN networks :
        /\ ~nets_overlap(c4, networks[n].overlay_v4)
        /\ ~nets_overlap(c6, networks[n].overlay_v6)

network_state(c4, c6, approval, age) ==
    [overlay_v4 |-> c4, overlay_v6 |-> c6, requires_approval |-> approval,
     acl |-> DefaultAcl, max_age |-> age,
     next_ipv4 |-> initial_ipv4_offset(c4),
     next_ipv6 |-> initial_ipv6_offset(c6)]

\* A u64 cast to an i64, also of a sum that wraps (a release build).
as_i64(x) == IF x < 2^(WIDTH - 1) THEN x ELSE x - 2^WIDTH

token_request_ok(ttl, uses) == ttl # 0 /\ uses # 0

\* build_token takes its own now_unix(), under the lock.
build_token(n, ttl, uses, tags) ==
    [network_id |-> n, expires_at |-> as_i64(clock + ttl),
     uses_left |-> uses, tags |-> tags, revoked |-> FALSE]

\* A bootstrap token that build_token refuses fails the request after the
\* network was inserted and logged.
create_network(n, c4, c6, approval, age, ttl, uses, tags) ==
    /\ FreshNetwork(n)
    /\ has_usable_ipv4(c4)
    /\ overlays_free(c4, c6)
    /\ networks' = Insert(networks, n, network_state(c4, c6, approval, age))
    /\ Audit("network.create", n, None)
    /\ \/ /\ ttl = None
          /\ Commit
          /\ UNCHANGED <<tokens, credit>>
       \/ /\ ttl # None
          /\ token_request_ok(ttl, uses)
          /\ \E k \in TokenId :
                /\ FreshToken(k)
                /\ tokens' = Insert(tokens, k, build_token(n, ttl, uses, tags))
                /\ credit' = Insert(credit, k, uses)
          /\ Commit
       \/ /\ ttl # None
          /\ ~token_request_ok(ttl, uses)
          /\ Abandon
          /\ UNCHANGED <<tokens, credit>>
    /\ UNCHANGED <<nodes, clock>>

create_token(k, n, ttl, uses, tags) ==
    /\ n \in DOMAIN networks
    /\ token_request_ok(ttl, uses)
    /\ FreshToken(k)
    /\ tokens' = Insert(tokens, k, build_token(n, ttl, uses, tags))
    /\ credit' = Insert(credit, k, uses)
    /\ Audit("token.create", n, None)
    /\ Commit
    /\ UNCHANGED <<networks, nodes, clock>>

revoke_token(k) ==
    /\ k \in DOMAIN tokens
    /\ tokens' = [tokens EXCEPT ![k].revoked = TRUE]
    /\ Audit("token.revoke", tokens[k].network_id, None)
    /\ Commit
    /\ UNCHANGED <<networks, nodes, clock, credit>>

update_acl(n, policy) ==
    /\ n \in DOMAIN networks
    /\ networks' = [networks EXCEPT ![n].acl = policy]
    /\ Audit("acl.update", n, None)
    /\ Commit
    /\ UNCHANGED <<nodes, tokens, clock, credit>>

update_key_policy(n, age) ==
    /\ n \in DOMAIN networks
    /\ networks' = [networks EXCEPT ![n].max_age = age]
    /\ Audit("key_policy.update", n, None)
    /\ Commit
    /\ UNCHANGED <<nodes, tokens, clock, credit>>

\* Mutated form: revoked nodes do not count.
connected_nodes_unrevoked(n) ==
    {i \in DOMAIN nodes : nodes[i].network_id = n /\ ~nodes[i].revoked}

\* connected_nodes of delete_network: every node record of the network.
connected_nodes(n) == {i \in DOMAIN nodes : nodes[i].network_id = n}

\* The tokens.retain of delete_network.
retain_tokens(n) ==
    [k \in {j \in DOMAIN tokens : tokens[j].network_id # n} |-> tokens[k]]

delete_network(n) ==
    /\ n \in DOMAIN networks
    /\ connected_nodes(n) = {}
    /\ tokens' = retain_tokens(n)
    /\ networks' = Remove(networks, n)
    /\ Audit("network.delete", n, None)
    /\ Commit
    /\ UNCHANGED <<nodes, clock, credit>>

-----------------------------------------------------------------------------
(* Enrolment.                                                              *)

\* Mutated form: names are compared with their case.
ensure_unique_exact_name(n, name, exclude) ==
    \A i \in DOMAIN nodes :
        \/ nodes[i].network_id # n
        \/ nodes[i].revoked
        \/ i = exclude
        \/ nodes[i].name # name

\* Revoked nodes do not hold their name; exclude is None or a node.
ensure_unique_node_name(n, name, exclude) ==
    \A i \in DOMAIN nodes :
        \/ nodes[i].network_id # n
        \/ nodes[i].revoked
        \/ i = exclude
        \/ Lower(nodes[i].name) # Lower(name)

ipv4_left(net) ==
    /\ has_usable_ipv4(net.overlay_v4)
    /\ net.next_ipv4 <= max_ipv4_offset(net.overlay_v4)

ipv6_left(net) == net.next_ipv6 <= max_ipv6_offset(net.overlay_v6)

\* Mutated form: the IPv6 offset stays.
allocate_same_ipv6(net) == [net EXCEPT !.next_ipv4 = @ + 1]

\* What allocate_node_ips leaves in the network.  The IPv4 offset moves
\* before the IPv6 range is looked at.
allocate_node_ips(net) ==
    IF ipv6_left(net)
    THEN [net EXCEPT !.next_ipv4 = @ + 1, !.next_ipv6 = @ + 1]
    ELSE [net EXCEPT !.next_ipv4 = @ + 1]

key_record(type, k, t) ==
    [key_type |-> type, public_key |-> k, created_at |-> t, revoked |-> FALSE]

\* Mutated form: a node starts approved, as an absent field is read.
node_state_approved(n, name, m, w, tags, approved, auth_expires_at, t) ==
    LET net == networks[n] IN
    [network_id |-> n, name |-> name, machine_public_key |-> m,
     wg_public_key |-> w,
     ipv4 |-> net_base(net.overlay_v4) + net.next_ipv4,
     ipv6 |-> net_base(net.overlay_v6) + net.next_ipv6,
     tags |-> tags, report |-> NoReport, probe_requested_at |-> None,
     approved |-> TRUE, auth_expires_at |-> auth_expires_at,
     revoked |-> FALSE,
     key_history |-> <<key_record("machine", m, t),
                       key_record("wireguard", w, t)>>]

\* The NodeState that register and register_url build from the network as
\* it was before the allocation.
node_state(n, name, m, w, tags, approved, auth_expires_at, t) ==
    LET net == networks[n] IN
    [network_id |-> n, name |-> name, machine_public_key |-> m,
     wg_public_key |-> w,
     ipv4 |-> net_base(net.overlay_v4) + net.next_ipv4,
     ipv6 |-> net_base(net.overlay_v6) + net.next_ipv6,
     tags |-> tags, report |-> NoReport, probe_requested_at |-> None,
     approved |-> approved, auth_expires_at |-> auth_expires_at,
     revoked |-> FALSE,
     key_history |-> <<key_record("machine", m, t),
                       key_record("wireguard", w, t)>>]

token_valid(k, t) ==
    /\ k \in DOMAIN tokens
    /\ tokens[k].expires_at > t
    /\ ~tokens[k].revoked
    /\ tokens[k].uses_left # 0

\* Mutated form: the last use is not taken.
use_token_but_last(k) ==
    IF tokens[k].uses_left <= 1
    THEN tokens
    ELSE [tokens EXCEPT ![k].uses_left = @ - 1]

\* One use is taken; the last one removes the token.
use_token(k) ==
    IF tokens[k].uses_left <= 1
    THEN Remove(tokens, k)
    ELSE [tokens EXCEPT ![k].uses_left = @ - 1]

register(i, k, name, m, w, t) ==
    /\ token_valid(k, t)
    /\ LET n == tokens[k].network_id IN
       /\ ensure_unique_node_name(n, name, None)
       /\ n \in DOMAIN networks
       /\ ipv4_left(networks[n])
       /\ networks' = [networks EXCEPT ![n] = allocate_node_ips(@)]
       /\ \/ /\ ipv6_left(networks[n])
             /\ FreshNode(i)
             /\ nodes' = Insert(nodes, i,
                    node_state(n, name, m, w, tokens[k].tags,
                               ~networks[n].requires_approval, None, t))
             /\ tokens' = use_token(k)
             /\ credit' = [credit EXCEPT ![k] = @ - 1]
             /\ Audit("node.register", n, i)
             /\ Commit
          \/ /\ ~ipv6_left(networks[n])
             /\ Abandon
             /\ UNCHANGED <<nodes, tokens, credit, audit_log>>
    /\ UNCHANGED clock

register_url(i, n, name, m, w, ttl, t) ==
    /\ ttl # 0
    /\ ensure_unique_node_name(n, name, None)
    /\ n \in DOMAIN networks
    /\ ipv4_left(networks[n])
    /\ networks' = [networks EXCEPT ![n] = allocate_node_ips(@)]
    /\ \/ /\ ipv6_left(networks[n])
          /\ FreshNode(i)
          /\ nodes' = Insert(nodes, i,
                 node_state(n, name, m, w, {}, FALSE, as_i64(t + ttl), t))
          /\ Audit("node.register_url", n, i)
          /\ Commit
       \/ /\ ~ipv6_left(networks[n])
          /\ Abandon
          /\ UNCHANGED <<nodes, audit_log>>
    /\ UNCHANGED <<tokens, credit, clock>>

set_approved(i) ==
    [nodes EXCEPT ![i].approved = TRUE, ![i].auth_expires_at = None]

\* An approved node is answered Ok whatever the secret, and the revision
\* moves.  Otherwise the secret must be the node's own and not expired.
approve_node_secret(i, t) ==
    /\ i \in DOMAIN nodes
    /\ \/ /\ nodes[i].approved
          /\ UNCHANGED <<nodes, audit_log>>
       \/ /\ ~nodes[i].approved
          /\ nodes[i].auth_expires_at # None
          /\ nodes[i].auth_expires_at > t
          /\ nodes' = set_approved(i)
          /\ Audit("node.approve", nodes[i].network_id, i)
    /\ Commit
    /\ UNCHANGED <<networks, tokens, clock, credit>>

approve_node(i) ==
    /\ i \in DOMAIN nodes
    /\ \/ /\ nodes[i].approved
          /\ UNCHANGED <<nodes, audit_log>>
       \/ /\ ~nodes[i].approved
          /\ nodes' = set_approved(i)
          /\ Audit("node.approve", nodes[i].network_id, i)
    /\ Commit
    /\ UNCHANGED <<networks, tokens, clock, credit>>

-----------------------------------------------------------------------------
(* Nodes.                                                                  *)

\* None leaves a field alone.  Only a name that differs is checked, and the
\* log gets an entry only when something changed.
update_node(i, name, tags) ==
    /\ i \in DOMAIN nodes
    /\ name # None \/ tags # None
    /\ nodes[i].network_id \in DOMAIN networks
    /\ LET next_name == IF name = None THEN nodes[i].name ELSE name
           next_tags == IF tags = None THEN nodes[i].tags ELSE tags
       IN
       /\ \/ next_name = nodes[i].name
          \/ ensure_unique_node_name(nodes[i].network_id, next_name, i)
       /\ nodes' = [nodes EXCEPT ![i].name = next_name, ![i].tags = next_tags]
       /\ IF next_name = nodes[i].name /\ next_tags = nodes[i].tags
          THEN UNCHANGED audit_log
          ELSE Audit("node.update", nodes[i].network_id, i)
    /\ Commit
    /\ UNCHANGED <<networks, tokens, clock, credit>>

\* Mutated form: the old key stays in force.
revoke_no_record(history, type, k) == history

revoke_key_record(history, type, k) ==
    [r \in DOMAIN history |->
        IF history[r].key_type = type /\ history[r].public_key = k
        THEN [history[r] EXCEPT !.revoked = TRUE]
        ELSE history[r]]

rotate_machine(node, m, t) ==
    IF m = None THEN node
    ELSE [node EXCEPT
            !.machine_public_key = m,
            !.key_history =
                Append(revoke_key_record(@, "machine", node.machine_public_key),
                       key_record("machine", m, t))]

rotate_wg(node, w, t) ==
    IF w = None THEN node
    ELSE [node EXCEPT
            !.wg_public_key = w,
            !.key_history =
                Append(revoke_key_record(@, "wireguard", node.wg_public_key),
                       key_record("wireguard", w, t))]

\* The machine key is replaced before the WireGuard key is looked at.  A
\* successful rotation also lifts a revocation.
rotate_keys(i, m, w, t) ==
    /\ i \in DOMAIN nodes
    /\ m # None \/ w # None
    /\ m # nodes[i].machine_public_key
    /\ Len(nodes[i].key_history) + 2 <= MaxHistory
    /\ \/ /\ w # nodes[i].wg_public_key
          /\ nodes' = [nodes EXCEPT ![i] =
                [rotate_wg(rotate_machine(@, m, t), w, t)
                    EXCEPT !.revoked = FALSE]]
          /\ Audit("keys.rotate", nodes[i].network_id, i)
          /\ Commit
       \/ /\ w = nodes[i].wg_public_key
          /\ m # None
          /\ nodes' = [nodes EXCEPT ![i] = rotate_machine(@, m, t)]
          /\ Abandon
          /\ UNCHANGED audit_log
    /\ UNCHANGED <<networks, tokens, clock, credit>>

revoke_current_keys(node) ==
    revoke_key_record(
        revoke_key_record(node.key_history, "machine", node.machine_public_key),
        "wireguard", node.wg_public_key)

revoke_node(i) ==
    /\ i \in DOMAIN nodes
    /\ nodes' = [nodes EXCEPT ![i].revoked = TRUE,
                              ![i].key_history = revoke_current_keys(nodes[i])]
    /\ Audit("keys.revoke", nodes[i].network_id, i)
    /\ Commit
    /\ UNCHANGED <<networks, tokens, clock, credit>>

delete_node(i) ==
    /\ i \in DOMAIN nodes
    /\ nodes' = Remove(nodes, i)
    /\ Audit("node.delete", nodes[i].network_id, i)
    /\ Commit
    /\ UNCHANGED <<networks, tokens, clock, credit>>

\* Revoked and unapproved nodes may report too; nothing is logged.
heartbeat(i, report, probe, t) ==
    /\ i \in DOMAIN nodes
    /\ nodes' = [nodes EXCEPT ![i].report = report,
                              ![i].probe_requested_at = IF probe THEN t ELSE @]
    /\ Commit
    /\ UNCHANGED <<networks, tokens, audit_log, clock, credit>>

-----------------------------------------------------------------------------

\* StateStore::read: the handlers that list, export or poll change nothing.
read_state == UNCHANGED vars

tick ==
    /\ clock < MaxClock
    /\ clock' = clock + 1
    /\ UNCHANGED <<networks, nodes, tokens, audit_log, revision, credit>>

Init ==
    /\ networks = <<>>
    /\ nodes = <<>>
    /\ tokens = <<>>
    /\ audit_log = {}
    /\ revision = 0
    /\ clock = 0
    /\ credit = <<>>

NetworkNext ==
    \E n \in NetworkId :
        \/ \E c4 \in Cidr4, c6 \in Cidr6, approval \in BOOLEAN,
              age \in Age \cup {None}, ttl \in Ttl \cup {None},
              uses \in 0..MaxUses, tags \in SUBSET Tag :
                create_network(n, c4, c6, approval, age, ttl, uses, tags)
        \/ \E k \in TokenId, ttl \in Ttl, uses \in 0..MaxUses,
              tags \in SUBSET Tag : create_token(k, n, ttl, uses, tags)
        \/ \E policy \in Acl : update_acl(n, policy)
        \/ \E age \in Age \cup {None} : update_key_policy(n, age)
        \/ delete_network(n)

EnrolNext ==
    \E i \in NodeId, t \in Stamp :
        \/ \E k \in TokenId, name \in Name, m \in Key, w \in Key :
                register(i, k, name, m, w, t)
        \/ \E n \in NetworkId, name \in Name, m \in Key, w \in Key,
              ttl \in Ttl : register_url(i, n, name, m, w, ttl, t)
        \/ approve_node_secret(i, t)

NodeNext ==
    \E i \in NodeId :
        \/ approve_node(i)
        \/ \E name \in Name \cup {None}, tags \in (SUBSET Tag) \cup {None} :
                update_node(i, name, tags)
        \/ \E m \in Key \cup {None}, w \in Key \cup {None}, t \in Stamp :
                rotate_keys(i, m, w, t)
        \/ revoke_node(i)
        \/ delete_node(i)
        \/ \E report \in Report, probe \in BOOLEAN, t \in Stamp :
                heartbeat(i, report, probe, t)

Next ==
    \/ NetworkNext
    \/ EnrolNext
    \/ NodeNext
    \/ \E k \in TokenId : revoke_token(k)
    \/ read_state
    \/ tick

Spec == Init /\ [][Next]_vars

-----------------------------------------------------------------------------
(* Properties.                                                             *)

\* The network of every node and of every token exists.  register,
\* update_node and build_netmap answer "network not found" otherwise; it is
\* delete_network that must not leave a node or a token behind.
ReferentialIntegrity ==
    /\ \A i \in DOMAIN nodes : nodes[i].network_id \in DOMAIN networks
    /\ \A k \in DOMAIN tokens : tokens[k].network_id \in DOMAIN networks

\* No two nodes, of one network or of two, hold the same overlay address,
\* whatever was deleted and whichever allocation failed half way.
AddressesUnique ==
    \A i, j \in DOMAIN nodes :
        i # j => /\ nodes[i].ipv4 # nodes[j].ipv4
                 /\ nodes[i].ipv6 # nodes[j].ipv6

\* A node's addresses lie in its network's prefixes, and the IPv4 one is
\* neither the network nor the broadcast address.
AddressesUsable ==
    \A i \in DOMAIN nodes :
        LET net == networks[nodes[i].network_id] IN
        /\ nodes[i].ipv4 > net_base(net.overlay_v4)
        /\ nodes[i].ipv4 < net_base(net.overlay_v4) + net.overlay_v4.size - 1
        /\ net_contains(net.overlay_v6, nodes[i].ipv6)

PrefixesDisjoint ==
    \A n, o \in DOMAIN networks :
        n # o =>
            /\ ~nets_overlap(networks[n].overlay_v4, networks[o].overlay_v4)
            /\ ~nets_overlap(networks[n].overlay_v6, networks[o].overlay_v6)

\* A node's addresses were handed out: they lie below its network's next
\* offsets and inside its prefixes.
Allocated(i) ==
    LET net == networks[nodes[i].network_id]
        offset4 == nodes[i].ipv4 - net_base(net.overlay_v4)
        offset6 == nodes[i].ipv6 - net_base(net.overlay_v6)
    IN  /\ 1 <= offset4 /\ offset4 < net.next_ipv4
        /\ offset4 <= max_ipv4_offset(net.overlay_v4)
        /\ 0 <= offset6 /\ offset6 < net.next_ipv6
        /\ offset6 <= max_ipv6_offset(net.overlay_v6)

\* Why addresses are unique, as an invariant each handler keeps: prefixes of
\* networks are disjoint, every address in use lies in its prefix below the
\* offset allocate_node_ips takes next, and nothing outlives its network.
AddressInv ==
    /\ ReferentialIntegrity
    /\ PrefixesDisjoint
    /\ \A n \in DOMAIN networks : networks[n].next_ipv4 >= 1
    /\ \A i \in DOMAIN nodes : Allocated(i)
    /\ AddressesUnique

\* No token enrols more nodes than the uses it was created with, although
\* register removes a used-up token and a failed register keeps it.
TokensNotOverdrawn == \A k \in DOMAIN credit : credit[k] >= 0

Live(i, type) ==
    {r \in DOMAIN nodes[i].key_history :
        /\ nodes[i].key_history[r].key_type = type
        /\ ~nodes[i].key_history[r].revoked}

CurrentKey(i, type) ==
    IF type = "machine" THEN nodes[i].machine_public_key
                        ELSE nodes[i].wg_public_key

\* A node's history has at most one record of each type that is not revoked,
\* it is of the key in use and the youngest of its type, also when a rotation
\* failed half way or went back to an old key.  A revoked node has none,
\* except that a half-way rotation leaves one with the file backend.
KeyHistoryCoherent ==
    \A i \in DOMAIN nodes, type \in KeyType :
        LET history == nodes[i].key_history IN
        /\ \A r \in Live(i, type) :
              /\ history[r].public_key = CurrentKey(i, type)
              /\ \A s \in DOMAIN history :
                    history[s].key_type = type => s <= r
        /\ nodes[i].revoked /\ Backend = "db" => Live(i, type) = {}

Logged(action, i) ==
    \E e \in audit_log : e.action = action /\ e.node_id = i

\* The audit log accounts for the nodes there are: a node was registered, a
\* revoked one has a revocation, an approved one was approved by someone
\* unless it came with a token into a network that needs no approval, and an
\* enrolled node that is gone was deleted.
AuditTrail ==
    /\ \A i \in DOMAIN nodes :
          /\ Logged("node.register", i) \/ Logged("node.register_url", i)
          /\ nodes[i].revoked => Logged("keys.revoke", i)
          /\ nodes[i].approved =>
                \/ Logged("node.approve", i)
                \/ /\ Logged("node.register", i)
                   /\ ~networks[nodes[i].network_id].requires_approval
    /\ \A e \in audit_log :
          e.node_id # None => \/ e.node_id \in DOMAIN nodes
                              \/ Logged("node.delete", e.node_id)

\* "revoke or delete nodes first" (delete_network): once all its nodes are
\* revoked, nothing of a network counts as connected any more.
RevokingFreesNetwork ==
    \A n \in DOMAIN networks :
        connected_nodes(n) # {} => \E i \in connected_nodes(n) : ~nodes[i].revoked

\* What ensure_unique_node_name is there for: nodes in service do not share
\* a name.
NamesUnique ==
    \A i, j \in DOMAIN nodes :
        \/ i = j
        \/ nodes[i].network_id # nodes[j].network_id
        \/ nodes[i].revoked \/ nodes[j].revoked
        \/ Lower(nodes[i].name) # Lower(nodes[j].name)

\* Two nodes in service come to share a name only when a rotation reinstates
\* a revoked node whose name was given away; no registration and no rename
\* does it, in any order with revocations and deletions.
NamesClashOnlyByReinstatement ==
    [][NamesUnique /\ ~NamesUnique' =>
          \E i \in DOMAIN nodes \cap DOMAIN nodes' :
              nodes[i].revoked /\ ~nodes'[i].revoked]_vars

=============================================================================
