------------------------------- MODULE Netmap -------------------------------
(***************************************************************************)
(* What the control plane tells a node about its network: build_netmap of  *)
(* src/src/api.rs and what it calls, over the state of ControlPlane.       *)
(* build_netmap reads the clock under the store's lock.                    *)
(***************************************************************************)
EXTENDS ControlPlane, FiniteSetsExt

CONSTANT PROBE_TTL_SECONDS        \* 30 in the source

ASSUME NetmapAssumption == PROBE_TTL_SECONDS \in Nat

selector_matches(i, selector) ==
    \/ selector.any
    \/ selector.tags = {} /\ selector.node_ids = {} /\ selector.names = {}
    \/ i \in selector.node_ids
    \/ nodes[i].name \in selector.names
    \/ nodes[i].tags \cap selector.tags # {}

\* The first rule that matches both ends decides.
acl_allows(policy, src, dst) ==
    LET matching == {r \in DOMAIN policy.rules :
                        /\ selector_matches(src, policy.rules[r].src)
                        /\ selector_matches(dst, policy.rules[r].dst)}
    IN  IF matching = {} THEN policy.default_action = "allow"
        ELSE policy.rules[Min(matching)].action = "allow"

\* The records current_key_created_at looks for.
current_records(node, type) ==
    {r \in DOMAIN node.key_history :
        /\ node.key_history[r].key_type = type
        /\ ~node.key_history[r].revoked
        /\ node.key_history[r].public_key =
              IF type = "machine" THEN node.machine_public_key
                                  ELSE node.wg_public_key}

current_key_created_at(node, type) ==
    LET found == current_records(node, type) IN
    IF found = {} THEN None ELSE node.key_history[Min(found)].created_at

\* Mutated form: a key of exactly the allowed age is too old.
key_rotation_required_early(i) ==
    LET max_age == networks[nodes[i].network_id].max_age IN
    /\ max_age # None
    /\ \E type \in KeyType :
          LET created_at == current_key_created_at(nodes[i], type) IN
          created_at # None /\ clock - created_at >= as_i64(max_age)

\* Mutated form: only the machine key ages.
key_rotation_required_machine(i) ==
    LET max_age == networks[nodes[i].network_id].max_age
        created_at == current_key_created_at(nodes[i], "machine")
    IN  /\ max_age # None /\ created_at # None
        /\ clock - created_at > as_i64(max_age)

key_rotation_required(i) ==
    LET max_age == networks[nodes[i].network_id].max_age IN
    /\ max_age # None
    /\ \E type \in KeyType :
          LET created_at == current_key_created_at(nodes[i], type) IN
          created_at # None /\ clock - created_at > as_i64(max_age)

\* The first component of effective_node_status: the node is in service.
effective_node_status(i) ==
    /\ nodes[i].approved
    /\ ~nodes[i].revoked
    /\ ~key_rotation_required(i)

collect_peers(i) ==
    {j \in DOMAIN nodes :
        /\ nodes[j].network_id = nodes[i].network_id
        /\ effective_node_status(j)
        /\ j # i
        /\ acl_allows(networks[nodes[i].network_id].acl, i, j)}

\* NetworkInfo, of the network of a node.
network_info(n) ==
    [overlay_v4 |-> networks[n].overlay_v4, overlay_v6 |-> networks[n].overlay_v6,
     requires_approval |-> networks[n].requires_approval,
     max_age |-> networks[n].max_age]

\* PeerInfo: what one node is told of another.
peer_info(j) ==
    [name |-> nodes[j].name, wg |-> nodes[j].wg_public_key,
     ipv4 |-> nodes[j].ipv4, ipv6 |-> nodes[j].ipv6, tags |-> nodes[j].tags,
     report |-> nodes[j].report]

\* NodeInfo: what a node is told of itself.
node_info(i) ==
    [name |-> nodes[i].name, machine |-> nodes[i].machine_public_key,
     wg |-> nodes[i].wg_public_key, ipv4 |-> nodes[i].ipv4,
     ipv6 |-> nodes[i].ipv6, tags |-> nodes[i].tags,
     report |-> nodes[i].report, approved |-> effective_node_status(i),
     key_rotation_required |-> key_rotation_required(i),
     revoked |-> nodes[i].revoked]

collect_probe_requests(peers) ==
    {j \in peers : /\ nodes[j].probe_requested_at # None
                   /\ clock - nodes[j].probe_requested_at
                        <= PROBE_TTL_SECONDS}

build_netmap(i) ==
    LET peers == IF effective_node_status(i) THEN collect_peers(i) ELSE {} IN
    [network |-> network_info(nodes[i].network_id), node |-> node_info(i),
     peers |-> [j \in peers |-> peer_info(j)],
     probe_requests |-> collect_probe_requests(peers)]

-----------------------------------------------------------------------------
(* Properties.                                                             *)

\* What netmap_longpoll relies on: a netmap that a request changed carries a
\* new revision, so a poll that waits for one is woken.
NetmapVersioned ==
    [][clock' = clock /\ revision' = revision =>
          \A i \in DOMAIN nodes \cap DOMAIN nodes' :
              build_netmap(i)' = build_netmap(i)]_vars

\* When the key in use was put in place: its type's youngest record.
KeyBorn(i, type) ==
    LET history == nodes[i].key_history IN
    history[Max({r \in DOMAIN history : history[r].key_type = type})].created_at

OverAge(i) ==
    LET max_age == networks[nodes[i].network_id].max_age IN
    /\ max_age # None
    /\ \E type \in KeyType : clock - KeyBorn(i, type) > max_age

\* A node with a key older than the network's policy allows is out of
\* service: it is told of no peers and no peer is told of it.
OverAgeKeyBlocksPeer ==
    \A i \in DOMAIN nodes : OverAge(i) => ~effective_node_status(i)

\* The same for the nodes that were never revoked, through any mixture of
\* full, partial and failed rotations and changes of the policy.
OverAgeKeyBlocksUnrevokedPeer ==
    \A i \in DOMAIN nodes :
        OverAge(i) /\ ~Logged("keys.revoke", i) => ~effective_node_status(i)

\* A node that is approved and not revoked is out of service only when a key
\* is over age, through any mixture of rotations, also half-way ones, and
\* reinstatements.  It needs a policy below 2^63: a larger one turns negative
\* and puts every node out of service.
YoungKeysServe ==
    \A i \in DOMAIN nodes :
        LET max_age == networks[nodes[i].network_id].max_age IN
        /\ nodes[i].approved /\ ~nodes[i].revoked /\ ~OverAge(i)
        /\ max_age # None => max_age < 2^(WIDTH - 1)
        => effective_node_status(i)

\* An approved node that replaces both keys is in service in the same step,
\* revoked or over age as it may have been, even when rotate_keys used a
\* time as old as the policy allows.
RotationRestoresService ==
    [][\A i \in DOMAIN nodes \cap DOMAIN nodes' :
          LET max_age == networks[nodes[i].network_id].max_age IN
          /\ nodes[i].approved
          /\ nodes'[i].machine_public_key # nodes[i].machine_public_key
          /\ nodes'[i].wg_public_key # nodes[i].wg_public_key
          /\ max_age = None \/ as_i64(max_age) >= LockWait
          => effective_node_status(i)']_vars
=============================================================================
