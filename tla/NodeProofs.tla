----------------------------- MODULE NodeProofs -----------------------------
(***************************************************************************)
(* What holds of the nodes for any number of them, any keys and names and  *)
(* both backends: no enrolment or rename gives away a name in use, a       *)
(* node's key history agrees with its keys, the audit log accounts for     *)
(* every node, and the netmaps and the names in them serve the nodes whose *)
(* keys are young enough.                                                  *)
(***************************************************************************)
EXTENDS ControlPlaneProofs, Dns, SequenceTheorems

-----------------------------------------------------------------------------
(* Names.                                                                  *)

SameName(new, old) ==
    new.network_id = old.network_id /\ new.name = old.name

\* Two nodes in service share a name.
Clash(i, j) ==
    /\ i # j /\ nodes[i].network_id = nodes[j].network_id
    /\ ~nodes[i].revoked /\ ~nodes[j].revoked
    /\ Lower(nodes[i].name) = Lower(nodes[j].name)

\* A step that takes a node back from a revocation.
Reinstates(i) ==
    i \in DOMAIN nodes \cap DOMAIN nodes' /\ nodes[i].revoked /\ ~nodes'[i].revoked

NoNewClash ==
    \A i, j \in DOMAIN nodes' : Clash(i, j)' =>
        \/ i \in DOMAIN nodes /\ j \in DOMAIN nodes /\ Clash(i, j)
        \/ Reinstates(i) \/ Reinstates(j)

\* A step that adds no node and renames none makes no clash.
LEMMA SameNamesStep ==
    ASSUME DOMAIN nodes' \subseteq DOMAIN nodes,
           \A j \in DOMAIN nodes' : SameName(nodes'[j], nodes[j])
    PROVE  NoNewClash
  BY DEF NoNewClash, Clash, Reinstates, SameName

\* register and register_url check the name of the node they insert.
LEMMA NewNameStep ==
    ASSUME NEW i \in NodeId, i \notin DOMAIN nodes, NEW node,
           nodes' = Insert(nodes, i, node),
           DOMAIN nodes \subseteq NodeId,
           ensure_unique_node_name(node.network_id, node.name, None)
    PROVE  NoNewClash
  <1>1. /\ DOMAIN nodes' = DOMAIN nodes \cup {i} /\ nodes'[i] = node
        /\ \A j \in DOMAIN nodes : nodes'[j] = nodes[j]
    BY DEF Insert
  <1>2. \A j \in DOMAIN nodes : j # None
    BY ValueAssumption
  <1> QED
    BY <1>1, <1>2 DEF NoNewClash, Clash, ensure_unique_node_name

\* update_node checks the name it gives, unless it is the node's own.
LEMMA RenameStep ==
    ASSUME TypeOK, NEW i \in NodeId, NEW name, NEW tags, update_node(i, name, tags)
    PROVE  NoNewClash
  <1>1. \A j \in DOMAIN nodes : nodes[j] \in NodeState
    BY DEF TypeOK
  <1>2. PICK x, y :
           /\ i \in DOMAIN nodes
           /\ x = nodes[i].name \/ ensure_unique_node_name(nodes[i].network_id, x, i)
           /\ nodes' = [nodes EXCEPT ![i].name = x, ![i].tags = y]
    BY Zenon DEF update_node
  <1>3. /\ DOMAIN nodes' = DOMAIN nodes
        /\ \A j \in DOMAIN nodes : j # i => nodes'[j] = nodes[j]
        /\ nodes'[i].name = x /\ nodes'[i].network_id = nodes[i].network_id
        /\ nodes'[i].revoked = nodes[i].revoked
    BY <1>1, <1>2 DEF NodeState, TypeOK
  <1>4. CASE x = nodes[i].name
    BY <1>3, <1>4, SameNamesStep DEF SameName
  <1>5. CASE ensure_unique_node_name(nodes[i].network_id, x, i)
    BY <1>3, <1>5 DEF NoNewClash, Clash, ensure_unique_node_name
  <1> QED
    BY <1>2, <1>4, <1>5

\* The other handlers on one node keep every name.
LEMMA OtherHandlersKeepNames ==
    ASSUME TypeOK, NEW i \in NodeId,
           \/ \E t \in Stamp : approve_node_secret(i, t)
           \/ approve_node(i)
           \/ \E m \in Key \cup {None}, w \in Key \cup {None}, t \in Stamp :
                rotate_keys(i, m, w, t)
           \/ revoke_node(i)
           \/ delete_node(i)
           \/ \E report \in Report, probe \in BOOLEAN, t \in Stamp :
                heartbeat(i, report, probe, t)
    PROVE  /\ DOMAIN nodes' \subseteq DOMAIN nodes
           /\ \A j \in DOMAIN nodes' : SameName(nodes'[j], nodes[j])
  <1> DEFINE Goal == /\ DOMAIN nodes' \subseteq DOMAIN nodes
                     /\ \A j \in DOMAIN nodes' : SameName(nodes'[j], nodes[j])
  <1>1. \A j \in DOMAIN nodes : nodes[j] \in NodeState
    BY DEF TypeOK
  <1>2. ASSUME approve_node(i) \/ \E t \in Stamp : approve_node_secret(i, t)
        PROVE  Goal
    <2>1. i \in DOMAIN nodes /\ (UNCHANGED nodes \/ nodes' = set_approved(i))
      BY <1>2 DEF approve_node, approve_node_secret
    <2>2. CASE UNCHANGED nodes
      BY <2>2 DEF SameName
    <2>3. CASE nodes' = set_approved(i)
      BY <1>1, <2>1, <2>3 DEF set_approved, SameName, NodeState, TypeOK
    <2> QED
      BY <2>1, <2>2, <2>3
  <1>3. ASSUME NEW m \in Key \cup {None}, NEW w \in Key \cup {None},
               NEW t \in Stamp, rotate_keys(i, m, w, t)
        PROVE  Goal
    <2> DEFINE half == rotate_machine(nodes[i], m, t)
               full == rotate_wg(half, w, t)
               node == [full EXCEPT !.revoked = FALSE]
    <2>1. i \in DOMAIN nodes /\ nodes[i] \in NodeState /\ t \in Nat
      BY <1>1, <1>3 DEF rotate_keys, Stamp, TypeOK
    <2>2. half \in NodeState /\ SameName(half, nodes[i])
      BY <2>1, RotateMachineType, Zenon DEF rotate_machine, SameName, NodeState
    <2>5. \/ nodes' = [nodes EXCEPT ![i] = node]
          \/ nodes' = [nodes EXCEPT ![i] = half]
      BY <1>3, <2>1 DEF rotate_keys
    <2> HIDE DEF half
    <2>3. full \in NodeState /\ SameName(full, half)
      BY <2>1, <2>2, RotateWgType, Zenon DEF rotate_wg, SameName, NodeState
    <2> HIDE DEF full
    <2>4. SameName(node, full)
      BY <2>3 DEF SameName, NodeState
    <2> HIDE DEF node
    <2>6. SameName(node, nodes[i])
      BY <2>2, <2>3, <2>4 DEF SameName
    <2>7. \A j \in DOMAIN nodes : SameName(nodes[j], nodes[j])
      BY DEF SameName
    <2> QED
      BY <2>1, <2>2, <2>5, <2>6, <2>7, ZenonT(30) DEF TypeOK
  <1>4. ASSUME revoke_node(i) PROVE Goal
    BY <1>1, <1>4 DEF revoke_node, SameName, NodeState, TypeOK
  <1>5. ASSUME delete_node(i) PROVE Goal
    BY <1>5 DEF delete_node, Remove, SameName
  <1>6. ASSUME NEW report, NEW probe, NEW t, heartbeat(i, report, probe, t)
        PROVE  Goal
    <2> DEFINE at == IF probe THEN t ELSE nodes[i].probe_requested_at
    <2>1. /\ i \in DOMAIN nodes
          /\ nodes' = [nodes EXCEPT ![i].report = report,
                                   ![i].probe_requested_at = at]
      BY <1>1, <1>6, Zenon DEF heartbeat, NodeState
    <2> HIDE DEF at
    <2> QED
      BY <1>1, <2>1 DEF SameName, NodeState, TypeOK
  <1> QED
    BY <1>2, <1>3, <1>4, <1>5, <1>6

LEMMA NamesStep ==
    ASSUME TypeOK, [Next]_vars
    PROVE  NoNewClash
  <1>1. CASE UNCHANGED nodes
    BY <1>1 DEF NoNewClash, Clash
  <1>2. ASSUME NEW i \in NodeId, NEW k, NEW name, NEW m, NEW w, NEW t,
               register(i, k, name, m, w, t)
        PROVE  NoNewClash
    <2> DEFINE n == tokens[k].network_id
               node == node_state(n, name, m, w, tokens[k].tags,
                                  ~networks[n].requires_approval, None, t)
    <2>1. /\ ensure_unique_node_name(n, name, None)
          /\ UNCHANGED nodes \/ (FreshNode(i) /\ nodes' = Insert(nodes, i, node))
      BY <1>2, Zenon DEF register
    <2>2. node.network_id = n /\ node.name = name
      BY DEF node_state
    <2> HIDE DEF node
    <2> QED
      BY <1>1, <2>1, <2>2, NewNameStep, Zenon DEF FreshNode, TypeOK
  <1>3. ASSUME NEW i \in NodeId, NEW n, NEW name, NEW m, NEW w, NEW ttl, NEW t,
               register_url(i, n, name, m, w, ttl, t)
        PROVE  NoNewClash
    <2> DEFINE node == node_state(n, name, m, w, {}, FALSE, as_i64(t + ttl), t)
    <2>1. /\ ensure_unique_node_name(n, name, None)
          /\ UNCHANGED nodes \/ (FreshNode(i) /\ nodes' = Insert(nodes, i, node))
      BY <1>3, Zenon DEF register_url
    <2>2. node.network_id = n /\ node.name = name
      BY Zenon DEF node_state
    <2> HIDE DEF node
    <2> QED
      BY <1>1, <2>1, <2>2, NewNameStep, Zenon DEF FreshNode, TypeOK
  <1>4. CASE EnrolNext
    BY <1>2, <1>3, <1>4, OtherHandlersKeepNames, SameNamesStep DEF EnrolNext
  <1>5. CASE NodeNext
    BY <1>5, OtherHandlersKeepNames, SameNamesStep, RenameStep, Zenon DEF NodeNext
  <1>6. CASE NetworkNext
    <2>1. UNCHANGED nodes
      BY <1>6 DEF NetworkNext, create_network, create_token, update_acl,
         update_key_policy, delete_network
    <2> QED
      BY <1>1, <2>1
  <1> QED
    BY <1>1, <1>4, <1>5, <1>6 DEF Next, revoke_token, read_state, tick, vars

\* No registration and no rename makes two nodes in service share a name:
\* that takes the rotation of a revoked node.
THEOREM NamesGivenOnce == Spec => NamesClashOnlyByReinstatement
  <1>1. TypeOK /\ [Next]_vars =>
           [NamesUnique /\ ~NamesUnique' =>
               \E i \in DOMAIN nodes \cap DOMAIN nodes' :
                   nodes[i].revoked /\ ~nodes'[i].revoked]_vars
    BY NamesStep DEF NoNewClash, Clash, Reinstates, NamesUnique
  <1> QED
    BY <1>1, TypeCorrect, PTL DEF Spec, NamesClashOnlyByReinstatement

-----------------------------------------------------------------------------
(* The key history.                                                        *)

\* Every record of this type in force is of this key and the last of its type.
Latest(h, type, k) ==
    \A r \in DOMAIN h :
        h[r].key_type = type /\ ~h[r].revoked =>
            /\ h[r].public_key = k
            /\ \A s \in DOMAIN h : h[s].key_type = type => s <= r

NoneLive(h, type) == \A r \in DOMAIN h : h[r].key_type = type => h[r].revoked

Coherent(node) ==
    /\ Latest(node.key_history, "machine", node.machine_public_key)
    /\ Latest(node.key_history, "wireguard", node.wg_public_key)

Bare(node) ==
    NoneLive(node.key_history, "machine") /\ NoneLive(node.key_history, "wireguard")

\* KeyHistoryCoherent, node by node.
KeysRight(node) == Coherent(node) /\ (node.revoked /\ Backend = "db" => Bare(node))

LEMMA KeysRightAll ==
    (\A i \in DOMAIN nodes : KeysRight(nodes[i])) => KeyHistoryCoherent
  <1> SUFFICES ASSUME \A i \in DOMAIN nodes : KeysRight(nodes[i]),
                      NEW i \in DOMAIN nodes, NEW type \in KeyType
               PROVE  LET history == nodes[i].key_history IN
                      /\ \A r \in Live(i, type) :
                            /\ history[r].public_key = CurrentKey(i, type)
                            /\ \A s \in DOMAIN history :
                                  history[s].key_type = type => s <= r
                      /\ nodes[i].revoked /\ Backend = "db" => Live(i, type) = {}
    BY DEF KeyHistoryCoherent
  <1>1. type = "machine" \/ type = "wireguard"
    BY DEF KeyType
  <1>2. Latest(nodes[i].key_history, type, CurrentKey(i, type))
    BY <1>1 DEF KeysRight, Coherent, CurrentKey
  <1>3. nodes[i].revoked /\ Backend = "db" => NoneLive(nodes[i].key_history, type)
    BY <1>1 DEF KeysRight, Bare
  <1> QED
    BY <1>2, <1>3 DEF Latest, NoneLive, Live

\* Revoking the records of the key in use leaves none of its type in force,
\* and those of other types as they were.
LEMMA RevokeLeavesNone ==
    ASSUME NEW h \in Seq(KeyRecord), NEW type, NEW k
    PROVE  LET g == revoke_key_record(h, type, k) IN
           /\ Latest(h, type, k) => NoneLive(g, type)
           /\ \A u, l : Latest(h, u, l) => Latest(g, u, l)
           /\ \A u : NoneLive(h, u) => NoneLive(g, u)
  <1> DEFINE g == revoke_key_record(h, type, k)
  <1>1. \A r \in DOMAIN h : h[r] \in KeyRecord
    OBVIOUS
  <1>2. /\ DOMAIN g = DOMAIN h
        /\ \A r \in DOMAIN h :
              /\ g[r].key_type = h[r].key_type
              /\ g[r].public_key = h[r].public_key
              /\ g[r].revoked = (h[r].revoked \/ (h[r].key_type = type
                                                    /\ h[r].public_key = k))
    BY <1>1, Zenon DEF revoke_key_record, KeyRecord
  <1> HIDE DEF g
  <1>3. Latest(h, type, k) => NoneLive(g, type)
    BY <1>2, Zenon DEF Latest, NoneLive
  <1>4. \A u, l : Latest(h, u, l) => Latest(g, u, l)
    BY <1>2, Zenon DEF Latest
  <1>5. \A u : NoneLive(h, u) => NoneLive(g, u)
    BY <1>2, Zenon DEF NoneLive
  <1> QED
    BY <1>3, <1>4, <1>5 DEF g

\* A new record where none was in force.
LEMMA AppendLatest ==
    ASSUME NEW g \in Seq(KeyRecord), NEW type \in KeyType, NEW k \in Key,
           NEW t \in Nat, NoneLive(g, type)
    PROVE  LET h == Append(g, key_record(type, k, t)) IN
           /\ Latest(h, type, k)
           /\ \A u, l : u # type /\ Latest(g, u, l) => Latest(h, u, l)
  <1> DEFINE rec == key_record(type, k, t)
             h == Append(g, rec)
  <1>1. rec.key_type = type /\ rec.public_key = k
    BY DEF key_record
  <1>2. rec \in KeyRecord
    BY KeyRecordType
  <1> HIDE DEF rec
  <1>3. /\ Len(g) \in Nat /\ DOMAIN g = 1..Len(g)
        /\ DOMAIN h = 1..(Len(g) + 1) /\ h[Len(g) + 1] = rec
        /\ \A r \in 1..Len(g) : h[r] = g[r]
    BY <1>2
  <1> HIDE DEF h
  <1>4. Latest(h, type, k)
    BY <1>1, <1>3 DEF Latest, NoneLive
  <1>5. \A u, l : u # type /\ Latest(g, u, l) => Latest(h, u, l)
    BY <1>1, <1>3 DEF Latest
  <1> QED
    BY <1>4, <1>5 DEF h, rec

\* The two halves of rotate_keys.
LEMMA RotateMachineCoherent ==
    ASSUME NEW node \in NodeState, NEW m \in Key \cup {None}, NEW t \in Nat,
           Coherent(node)
    PROVE  Coherent(rotate_machine(node, m, t))
  <1>1. CASE m = None
    BY <1>1 DEF rotate_machine
  <1>2. CASE m # None
    <2> DEFINE g == revoke_key_record(node.key_history, "machine", node.machine_public_key)
               new == rotate_machine(node, m, t)
    <2>1. node.key_history \in Seq(KeyRecord) /\ m \in Key
      BY <1>2 DEF NodeState
    <2>2. g \in Seq(KeyRecord)
      BY <2>1, RevokeType
    <2>3. NoneLive(g, "machine") /\ Latest(g, "wireguard", node.wg_public_key)
      BY <2>1, RevokeLeavesNone DEF Coherent
    <2>4. /\ new.machine_public_key = m /\ new.wg_public_key = node.wg_public_key
          /\ new.key_history = Append(g, key_record("machine", m, t))
      BY <1>2 DEF rotate_machine, NodeState
    <2> HIDE DEF g, new
    <2>5. /\ Latest(Append(g, key_record("machine", m, t)), "machine", m)
          /\ Latest(Append(g, key_record("machine", m, t)), "wireguard", node.wg_public_key)
      BY <2>1, <2>2, <2>3, AppendLatest, Zenon DEF KeyType
    <2>6. Coherent(new)
      BY <2>4, <2>5 DEF Coherent
    <2> QED
      BY <2>6 DEF new
  <1> QED
    BY <1>1, <1>2

LEMMA RotateWgCoherent ==
    ASSUME NEW node \in NodeState, NEW w \in Key \cup {None}, NEW t \in Nat,
           Coherent(node)
    PROVE  Coherent(rotate_wg(node, w, t))
  <1>1. CASE w = None
    BY <1>1 DEF rotate_wg
  <1>2. CASE w # None
    <2> DEFINE g == revoke_key_record(node.key_history, "wireguard", node.wg_public_key)
               new == rotate_wg(node, w, t)
    <2>1. node.key_history \in Seq(KeyRecord) /\ w \in Key
      BY <1>2 DEF NodeState
    <2>2. g \in Seq(KeyRecord)
      BY <2>1, RevokeType
    <2>3. NoneLive(g, "wireguard") /\ Latest(g, "machine", node.machine_public_key)
      BY <2>1, RevokeLeavesNone DEF Coherent
    <2>4. /\ new.wg_public_key = w /\ new.machine_public_key = node.machine_public_key
          /\ new.key_history = Append(g, key_record("wireguard", w, t))
      BY <1>2 DEF rotate_wg, NodeState
    <2> HIDE DEF g, new
    <2>5. /\ Latest(Append(g, key_record("wireguard", w, t)), "wireguard", w)
          /\ Latest(Append(g, key_record("wireguard", w, t)), "machine",
                    node.machine_public_key)
      BY <2>1, <2>2, <2>3, AppendLatest, Zenon DEF KeyType
    <2>6. Coherent(new)
      BY <2>4, <2>5, Zenon DEF Coherent
    <2> QED
      BY <2>6 DEF new
  <1> QED
    BY <1>1, <1>2

-----------------------------------------------------------------------------
\* A step that leaves the keys of the nodes alone, but may remove nodes.
SameKeys(new, old) ==
    /\ new.key_history = old.key_history /\ new.revoked = old.revoked
    /\ new.machine_public_key = old.machine_public_key
    /\ new.wg_public_key = old.wg_public_key

AllRight == \A i \in DOMAIN nodes : KeysRight(nodes[i])

LEMMA SameKeysStep ==
    ASSUME AllRight, DOMAIN nodes' \subseteq DOMAIN nodes,
           \A j \in DOMAIN nodes' : SameKeys(nodes'[j], nodes[j])
    PROVE  AllRight'
  BY DEF AllRight, SameKeys, KeysRight, Coherent, Bare

\* A step that replaces the keys of one node.
LEMMA OneNodeStep ==
    ASSUME AllRight, NEW i \in DOMAIN nodes, NEW node, KeysRight(node),
           nodes' = [nodes EXCEPT ![i] = node]
    PROVE  AllRight'
  <1>1. /\ DOMAIN nodes' = DOMAIN nodes
        /\ \A j \in DOMAIN nodes : nodes'[j] = IF j = i THEN node ELSE nodes[j]
    OBVIOUS
  <1> SUFFICES ASSUME NEW j \in DOMAIN nodes' PROVE KeysRight(nodes'[j])
    BY DEF AllRight
  <1>2. CASE j = i
    BY <1>1, <1>2
  <1>3. CASE j # i
    BY <1>1, <1>3 DEF AllRight
  <1> QED
    BY <1>2, <1>3

\* A node starts with one record in force for each of its keys.
LEMMA NewNodeKeys ==
    ASSUME AllRight, NEW i, NEW n, NEW name, NEW m, NEW w, NEW tags, NEW approved,
           NEW auth, NEW t,
           nodes' = Insert(nodes, i, node_state(n, name, m, w, tags, approved, auth, t))
    PROVE  AllRight'
  <1> DEFINE node == node_state(n, name, m, w, tags, approved, auth, t)
             h == <<key_record("machine", m, t), key_record("wireguard", w, t)>>
  <1>1. /\ node.key_history = h /\ ~node.revoked
        /\ node.machine_public_key = m /\ node.wg_public_key = w
    BY DEF node_state
  <1> HIDE DEF node
  <1>2. /\ DOMAIN h = 1..2 /\ h[1].key_type = "machine" /\ h[1].public_key = m
        /\ h[2].key_type = "wireguard" /\ h[2].public_key = w
    BY DEF key_record
  <1> HIDE DEF h
  <1>3. Latest(h, "machine", m) /\ Latest(h, "wireguard", w)
    BY <1>2 DEF Latest
  <1>4. KeysRight(node)
    BY <1>1, <1>3 DEF KeysRight, Coherent
  <1>5. /\ DOMAIN nodes' = DOMAIN nodes \cup {i}
        /\ \A j \in DOMAIN nodes' : nodes'[j] = IF j = i THEN node ELSE nodes[j]
    BY DEF Insert, node
  <1> SUFFICES ASSUME NEW j \in DOMAIN nodes' PROVE KeysRight(nodes'[j])
    BY DEF AllRight
  <1>6. CASE j = i
    BY <1>4, <1>5, <1>6, Zenon
  <1>7. CASE j # i
    BY <1>5, <1>7 DEF AllRight
  <1> QED
    BY <1>6, <1>7, ZenonT(30)

LEMMA RotateKeysRight ==
    ASSUME TypeOK, AllRight, NEW i \in NodeId, NEW m \in Key \cup {None},
           NEW w \in Key \cup {None}, NEW t \in Stamp, rotate_keys(i, m, w, t)
    PROVE  AllRight'
  <1> DEFINE half == rotate_machine(nodes[i], m, t)
             full == rotate_wg(half, w, t)
             node == [full EXCEPT !.revoked = FALSE]
  <1>1. i \in DOMAIN nodes /\ nodes[i] \in NodeState /\ t \in Nat
    BY DEF rotate_keys, Stamp, TypeOK
  <1>2. half \in NodeState /\ Coherent(half)
    BY <1>1, RotateMachineType, RotateMachineCoherent DEF AllRight, KeysRight
  <1>3. \/ nodes' = [nodes EXCEPT ![i] = node]
        \/ Backend = "file" /\ nodes' = [nodes EXCEPT ![i] = half]
    BY <1>1 DEF rotate_keys, Abandon
  <1> HIDE DEF half
  <1>4. full \in NodeState /\ Coherent(full)
    BY <1>1, <1>2, RotateWgType, RotateWgCoherent
  <1> HIDE DEF full
  <1>5. /\ node.key_history = full.key_history /\ ~node.revoked
        /\ node.machine_public_key = full.machine_public_key
        /\ node.wg_public_key = full.wg_public_key
    BY <1>4, Zenon DEF NodeState
  <1> HIDE DEF node
  <1>6. KeysRight(node) /\ (Backend = "file" => KeysRight(half))
    BY <1>2, <1>4, <1>5 DEF KeysRight, Coherent
  <1> QED
    BY <1>1, <1>3, <1>6, OneNodeStep, Zenon

LEMMA RevokeNodeRight ==
    ASSUME TypeOK, AllRight, NEW i \in NodeId, revoke_node(i)
    PROVE  AllRight'
  <1> DEFINE h == nodes[i].key_history
             m == nodes[i].machine_public_key
             w == nodes[i].wg_public_key
             g == revoke_key_record(h, "machine", m)
             f == revoke_key_record(g, "wireguard", w)
             node == [nodes[i] EXCEPT !.revoked = TRUE, !.key_history = f]
  <1>1. i \in DOMAIN nodes /\ nodes[i] \in NodeState
    BY DEF revoke_node, TypeOK
  <1>2. nodes' = [nodes EXCEPT ![i] = node]
    BY <1>1, Zenon DEF revoke_node, revoke_current_keys
  <1>3. h \in Seq(KeyRecord) /\ Latest(h, "machine", m) /\ Latest(h, "wireguard", w)
    BY <1>1 DEF NodeState, AllRight, KeysRight, Coherent
  <1>4. /\ node.key_history = f /\ node.machine_public_key = m
        /\ node.wg_public_key = w
    BY <1>1 DEF NodeState
  <1> HIDE DEF h, m, w, node
  <1>5. /\ g \in Seq(KeyRecord) /\ NoneLive(g, "machine")
        /\ Latest(g, "machine", m) /\ Latest(g, "wireguard", w)
    BY <1>3, RevokeType, RevokeLeavesNone, Zenon
  <1> HIDE DEF g
  <1>6. /\ NoneLive(f, "wireguard") /\ NoneLive(f, "machine")
        /\ Latest(f, "machine", m) /\ Latest(f, "wireguard", w)
    BY <1>5, RevokeLeavesNone, Zenon
  <1> HIDE DEF f
  <1>7. KeysRight(node)
    BY <1>4, <1>6, Zenon DEF KeysRight, Coherent, Bare
  <1> QED
    BY <1>1, <1>2, <1>7, OneNodeStep, Zenon

\* The other handlers on one node leave its keys alone.
LEMMA OtherHandlersKeepKeys ==
    ASSUME TypeOK, NEW i \in NodeId,
           \/ \E t \in Stamp : approve_node_secret(i, t)
           \/ approve_node(i)
           \/ \E name \in Name \cup {None}, tags \in (SUBSET Tag) \cup {None} :
                update_node(i, name, tags)
           \/ delete_node(i)
           \/ \E report \in Report, probe \in BOOLEAN, t \in Stamp :
                heartbeat(i, report, probe, t)
    PROVE  /\ DOMAIN nodes' \subseteq DOMAIN nodes
           /\ \A j \in DOMAIN nodes' : SameKeys(nodes'[j], nodes[j])
  <1> DEFINE Goal == /\ DOMAIN nodes' \subseteq DOMAIN nodes
                     /\ \A j \in DOMAIN nodes' : SameKeys(nodes'[j], nodes[j])
  <1>1. \A j \in DOMAIN nodes : nodes[j] \in NodeState
    BY DEF TypeOK
  <1>2. ASSUME approve_node(i) \/ \E t \in Stamp : approve_node_secret(i, t)
        PROVE  Goal
    <2>1. i \in DOMAIN nodes /\ (UNCHANGED nodes \/ nodes' = set_approved(i))
      BY <1>2 DEF approve_node, approve_node_secret
    <2>2. CASE UNCHANGED nodes
      BY <2>2, Zenon DEF SameKeys
    <2>3. CASE nodes' = set_approved(i)
      BY <1>1, <2>1, <2>3, ZenonT(30) DEF set_approved, SameKeys, NodeState, TypeOK
    <2> QED
      BY <2>1, <2>2, <2>3, ZenonT(30)
  <1>3. ASSUME NEW name, NEW tags, update_node(i, name, tags) PROVE Goal
    <2>1. PICK x, y : /\ i \in DOMAIN nodes
                      /\ nodes' = [nodes EXCEPT ![i].name = x, ![i].tags = y]
      BY <1>3, Zenon DEF update_node
    <2> QED
      BY <1>1, <2>1, ZenonT(30) DEF SameKeys, NodeState, TypeOK
  <1>4. ASSUME delete_node(i) PROVE Goal
    BY <1>4, Zenon DEF delete_node, Remove, SameKeys
  <1>5. ASSUME NEW report, NEW probe, NEW t, heartbeat(i, report, probe, t)
        PROVE  Goal
    <2> DEFINE at == IF probe THEN t ELSE nodes[i].probe_requested_at
    <2>1. /\ i \in DOMAIN nodes
          /\ nodes' = [nodes EXCEPT ![i].report = report,
                                   ![i].probe_requested_at = at]
      BY <1>1, <1>5, Zenon DEF heartbeat, NodeState
    <2> HIDE DEF at
    <2> QED
      BY <1>1, <2>1, ZenonT(30) DEF SameKeys, NodeState, TypeOK
  <1> QED
    BY <1>2, <1>3, <1>4, <1>5, Zenon

LEMMA KeysStep == TypeOK /\ AllRight /\ [Next]_vars => AllRight'
  <1> SUFFICES ASSUME TypeOK, AllRight, [Next]_vars PROVE AllRight'
    OBVIOUS
  <1>1. CASE UNCHANGED nodes
    BY <1>1, Zenon DEF AllRight, KeysRight, Coherent, Bare
  <1>2. ASSUME NEW i, NEW k, NEW name, NEW m, NEW w, NEW t,
               register(i, k, name, m, w, t)
        PROVE  AllRight'
    <2> DEFINE n == tokens[k].network_id
    <2>1. \/ UNCHANGED nodes
          \/ nodes' = Insert(nodes, i, node_state(n, name, m, w, tokens[k].tags,
                                ~networks[n].requires_approval, None, t))
      BY <1>2 DEF register
    <2> QED
      BY <1>1, <2>1, NewNodeKeys, Zenon
  <1>3. ASSUME NEW i, NEW n, NEW name, NEW m, NEW w, NEW ttl, NEW t,
               register_url(i, n, name, m, w, ttl, t)
        PROVE  AllRight'
    <2>1. \/ UNCHANGED nodes
          \/ nodes' = Insert(nodes, i,
                             node_state(n, name, m, w, {}, FALSE, as_i64(t + ttl), t))
      BY <1>3, ZenonT(30) DEF register_url
    <2> QED
      BY <1>1, <2>1, NewNodeKeys, Zenon
  <1>4. CASE EnrolNext
    BY <1>2, <1>3, <1>4, OtherHandlersKeepKeys, SameKeysStep, Zenon DEF EnrolNext
  <1>5. CASE NodeNext
    BY <1>5, OtherHandlersKeepKeys, SameKeysStep, RotateKeysRight, RevokeNodeRight, Zenon
    DEF NodeNext
  <1>6. CASE NetworkNext
    <2>1. UNCHANGED nodes
      BY <1>6 DEF NetworkNext, create_network, create_token, update_acl,
         update_key_policy, delete_network
    <2> QED
      BY <1>1, <2>1, Zenon
  <1> QED
    BY <1>1, <1>4, <1>5, <1>6, Zenon DEF Next, revoke_token, read_state, tick, vars

LEMMA AllKeysRight == Spec => []AllRight
  <1>1. Init => AllRight
    BY DEF Init, AllRight
  <1> QED
    BY <1>1, KeysStep, TypeCorrect, PTL DEF Spec

\* Of every node at most one key of each type is in force, the one in use and
\* the youngest, and none of a revoked node with the database, for any number
\* of rotations, revocations and half-way failures.
THEOREM KeyHistories == Spec => []KeyHistoryCoherent
  <1>1. AllRight => KeyHistoryCoherent
    BY KeysRightAll, Zenon DEF AllRight
  <1> QED
    BY <1>1, AllKeysRight, PTL

-----------------------------------------------------------------------------
(* The audit log.                                                          *)

\* What AuditTrail says of one node.
Accounted(i) ==
    /\ Logged("node.register", i) \/ Logged("node.register_url", i)
    /\ nodes[i].revoked => Logged("keys.revoke", i)
    /\ nodes[i].approved =>
          \/ Logged("node.approve", i)
          \/ /\ Logged("node.register", i)
             /\ ~networks[nodes[i].network_id].requires_approval

\* Networks that have nodes stay, and so does whether they need approval.
SameApproval ==
    \A i \in DOMAIN nodes :
        networks'[nodes[i].network_id].requires_approval
            = networks[nodes[i].network_id].requires_approval

\* What happens to a node that was there and stays.
KeptNode(j) ==
    /\ nodes'[j].network_id = nodes[j].network_id
    /\ nodes'[j].approved => nodes[j].approved \/ Logged("node.approve", j)'
    /\ nodes'[j].revoked => nodes[j].revoked \/ Logged("keys.revoke", j)'

\* A step keeps the trail when it only adds to the log, accounts for the
\* nodes it makes, approves, revokes and deletes, and logs no other node.
LEMMA TrailStep ==
    ASSUME AuditTrail, SameApproval, audit_log \subseteq audit_log',
           \A e \in audit_log' :
              \/ e \in audit_log
              \/ e.node_id = None
              \/ e.node_id \in DOMAIN nodes \cup DOMAIN nodes',
           \A j \in DOMAIN nodes \cap DOMAIN nodes' : KeptNode(j),
           \A j \in DOMAIN nodes' \ DOMAIN nodes : Accounted(j)',
           \A j \in DOMAIN nodes \ DOMAIN nodes' : Logged("node.delete", j)'
    PROVE  AuditTrail'
  <1>1. \A a, j : Logged(a, j) => Logged(a, j)'
    BY Zenon DEF Logged
  <1>2. \A j \in DOMAIN nodes : Accounted(j)
    BY DEF AuditTrail, Accounted
  <1>3. ASSUME NEW j \in DOMAIN nodes' PROVE Accounted(j)'
    <2>1. CASE j \in DOMAIN nodes
      <3>1. Accounted(j) /\ KeptNode(j)
        BY <1>2, <1>3, <2>1, Zenon
      <3>2. (Logged("node.register", j) \/ Logged("node.register_url", j))'
        BY <1>1, <3>1, Zenon DEF Accounted
      <3>3. nodes'[j].revoked => Logged("keys.revoke", j)'
        BY <1>1, <3>1, Zenon DEF Accounted, KeptNode
      <3>4. networks'[nodes'[j].network_id].requires_approval
              = networks[nodes[j].network_id].requires_approval
        BY <2>1, <3>1, Zenon DEF SameApproval, KeptNode
      <3>5. nodes'[j].approved =>
              \/ Logged("node.approve", j)'
              \/ /\ Logged("node.register", j)'
                 /\ ~networks'[nodes'[j].network_id].requires_approval
        BY <1>1, <3>1, <3>4, Zenon DEF Accounted, KeptNode
      <3> QED
        BY <3>2, <3>3, <3>5, Zenon DEF Accounted
    <2>2. CASE j \notin DOMAIN nodes
      BY <1>3, <2>2, Zenon
    <2> QED
      BY <2>1, <2>2, Zenon
  <1>4. ASSUME NEW e \in audit_log', e.node_id # None, e.node_id \notin DOMAIN nodes'
        PROVE  Logged("node.delete", e.node_id)'
    BY <1>1, <1>4 DEF AuditTrail
  <1> QED
    BY <1>3, <1>4, Zenon DEF AuditTrail, Accounted

LEMMA AuditFacts ==
    ASSUME NEW action, NEW n, NEW i, Audit(action, n, i)
    PROVE  /\ audit_log \subseteq audit_log' /\ Logged(action, i)'
           /\ \A e \in audit_log' : e \in audit_log \/ e.node_id = i
  <1> DEFINE new == [action |-> action, network_id |-> n, node_id |-> i]
  <1>1. audit_log' = audit_log \cup {new} /\ new.action = action /\ new.node_id = i
    BY Zenon DEF Audit
  <1> HIDE DEF new
  <1> QED
    BY <1>1 DEF Logged

\* Handlers on networks and tokens.
LEMMA NetworksTrail ==
    ASSUME TypeOK, ReferentialIntegrity, AuditTrail, UNCHANGED nodes, SameApproval,
           \/ UNCHANGED audit_log
           \/ \E action, n : Audit(action, n, None)
    PROVE  AuditTrail'
  <1>1. \A j \in DOMAIN nodes \cap DOMAIN nodes' : KeptNode(j)
    BY DEF KeptNode
  <1>2. /\ audit_log \subseteq audit_log'
        /\ \A e \in audit_log' : e \in audit_log \/ e.node_id = None
    BY AuditFacts, Zenon
  <1> QED
    BY <1>1, <1>2, TrailStep, Zenon

LEMMA NetworkNextTrail ==
    ASSUME TypeOK, ReferentialIntegrity, AuditTrail, NetworkNext
    PROVE  AuditTrail'
  <1>1. PICK n \in NetworkId :
        \/ \E c4 \in Cidr4, c6 \in Cidr6, approval \in BOOLEAN,
              age \in Age \cup {None}, ttl \in Ttl \cup {None},
              uses \in 0..MaxUses, tags \in SUBSET Tag :
                create_network(n, c4, c6, approval, age, ttl, uses, tags)
        \/ \E k \in TokenId, ttl \in Ttl, uses \in 0..MaxUses,
              tags \in SUBSET Tag : create_token(k, n, ttl, uses, tags)
        \/ \E policy \in Acl : update_acl(n, policy)
        \/ \E age \in Age \cup {None} : update_key_policy(n, age)
        \/ delete_network(n)
    BY DEF NetworkNext
  <1>2. \A j \in DOMAIN nodes : nodes[j].network_id \in DOMAIN networks
    BY Zenon DEF ReferentialIntegrity
  <1>3. ASSUME NEW c4, NEW c6, NEW approval, NEW age, NEW ttl, NEW uses, NEW tags,
               create_network(n, c4, c6, approval, age, ttl, uses, tags)
        PROVE  AuditTrail'
    <2>1. /\ UNCHANGED nodes /\ Audit("network.create", n, None)
          /\ n \notin DOMAIN networks
          /\ networks' = Insert(networks, n, network_state(c4, c6, approval, age))
      BY <1>3 DEF create_network, FreshNetwork
    <2>2. \A o \in DOMAIN networks : networks'[o] = networks[o]
      BY <2>1, Zenon DEF Insert
    <2> QED
      BY <1>2, <2>1, <2>2, NetworksTrail, ZenonT(30) DEF SameApproval
  <1>4. ASSUME NEW k, NEW ttl, NEW uses, NEW tags, create_token(k, n, ttl, uses, tags)
        PROVE  AuditTrail'
    BY <1>4, NetworksTrail, Zenon DEF create_token, SameApproval
  <1>5. ASSUME \/ \E policy \in Acl : update_acl(n, policy)
               \/ \E age \in Age \cup {None} : update_key_policy(n, age)
        PROVE  AuditTrail'
    <2>1. /\ UNCHANGED nodes
          /\ Audit("acl.update", n, None) \/ Audit("key_policy.update", n, None)
          /\ \A o \in DOMAIN networks :
                networks'[o].requires_approval = networks[o].requires_approval
      BY <1>5 DEF update_acl, update_key_policy, TypeOK, NetworkState
    <2> QED
      BY <1>2, <2>1, NetworksTrail, Zenon DEF SameApproval
  <1>6. ASSUME delete_network(n) PROVE AuditTrail'
    <2>1. /\ UNCHANGED nodes /\ Audit("network.delete", n, None)
          /\ \A o \in DOMAIN networks : o # n => networks'[o] = networks[o]
          /\ \A j \in DOMAIN nodes : nodes[j].network_id # n
      BY <1>6, Zenon DEF delete_network, Remove, connected_nodes
    <2> QED
      BY <1>2, <2>1, NetworksTrail, Zenon DEF SameApproval
  <1> QED
    BY <1>1, <1>3, <1>4, <1>5, <1>6, ZenonT(30)

\* Enrolment logs the node it makes, approved at most by the network's rule.
LEMMA NewNodeTrail ==
    ASSUME TypeOK, ReferentialIntegrity, AuditTrail, NEW i, FreshNode(i), NEW node,
           NEW n \in DOMAIN networks,
           networks' = [networks EXCEPT ![n] = allocate_node_ips(@)],
           nodes' = Insert(nodes, i, node), node.network_id = n, ~node.revoked,
           \/ Audit("node.register", n, i) /\ node.approved = ~networks[n].requires_approval
           \/ Audit("node.register_url", n, i) /\ ~node.approved
    PROVE  AuditTrail'
  <1>1. /\ DOMAIN nodes' = DOMAIN nodes \cup {i} /\ nodes'[i] = node
        /\ i \notin DOMAIN nodes /\ \A j \in DOMAIN nodes : nodes'[j] = nodes[j]
    BY DEF Insert, FreshNode
  <1>2. \A o \in DOMAIN networks :
           networks'[o].requires_approval = networks[o].requires_approval
    <2>1. networks[n] \in NetworkState
      BY DEF TypeOK
    <2>2. allocate_node_ips(networks[n]).requires_approval = networks[n].requires_approval
      BY <2>1 DEF allocate_node_ips, NetworkState
    <2> QED
      BY <2>2
  <1>3. SameApproval
    BY <1>2 DEF SameApproval, ReferentialIntegrity
  <1>4. /\ audit_log \subseteq audit_log'
        /\ \A e \in audit_log' : e \in audit_log \/ e.node_id = i
        /\ Logged("node.register", i)' \/ Logged("node.register_url", i)'
        /\ node.approved => Logged("node.register", i)' /\ ~networks[n].requires_approval
    BY AuditFacts, Zenon
  <1>5. networks'[n].requires_approval = networks[n].requires_approval
    BY <1>2
  <1>6. Accounted(i)'
    BY <1>1, <1>4, <1>5 DEF Accounted
  <1>7. \A j \in DOMAIN nodes \cap DOMAIN nodes' : KeptNode(j)
    BY <1>1 DEF KeptNode
  <1> QED
    BY <1>1, <1>3, <1>4, <1>6, <1>7, TrailStep, Zenon

\* An enrolment that runs out of IPv6 addresses makes no node.
LEMMA FailedEnrolTrail ==
    ASSUME TypeOK, ReferentialIntegrity, AuditTrail, NEW n \in DOMAIN networks,
           networks' = [networks EXCEPT ![n] = allocate_node_ips(@)],
           UNCHANGED <<nodes, audit_log>>
    PROVE  AuditTrail'
  <1>1. networks[n] \in NetworkState
    BY DEF TypeOK
  <1>2. allocate_node_ips(networks[n]).requires_approval = networks[n].requires_approval
    BY <1>1 DEF allocate_node_ips, NetworkState
  <1>3. SameApproval
    BY <1>2 DEF SameApproval, ReferentialIntegrity
  <1> QED
    BY <1>3, NetworksTrail

\* A handler that rewrites one node and logs it.
LEMMA OneNodeTrail ==
    ASSUME TypeOK, AuditTrail, NEW i \in DOMAIN nodes, NEW node,
           nodes' = [nodes EXCEPT ![i] = node], UNCHANGED networks,
           UNCHANGED audit_log \/ \E action, n : Audit(action, n, i),
           node.network_id = nodes[i].network_id,
           node.approved => nodes[i].approved \/ Logged("node.approve", i)',
           node.revoked => nodes[i].revoked \/ Logged("keys.revoke", i)'
    PROVE  AuditTrail'
  <1>1. /\ DOMAIN nodes' = DOMAIN nodes /\ nodes'[i] = node
        /\ \A j \in DOMAIN nodes : j # i => nodes'[j] = nodes[j]
    BY DEF TypeOK
  <1>2. /\ audit_log \subseteq audit_log'
        /\ \A e \in audit_log' : e \in audit_log \/ e.node_id = i
    BY AuditFacts
  <1>3. ASSUME NEW j \in DOMAIN nodes PROVE KeptNode(j)
    <2>1. CASE j = i
      BY <1>1, <2>1, Zenon DEF KeptNode
    <2>2. CASE j # i
      BY <1>1, <2>2, Zenon DEF KeptNode
    <2> QED
      BY <2>1, <2>2, Zenon
  <1>4. SameApproval
    BY DEF SameApproval
  <1> QED
    BY <1>1, <1>2, <1>3, <1>4, TrailStep, Zenon

LEMMA ApproveTrail ==
    ASSUME TypeOK, AuditTrail, NEW i \in NodeId,
           approve_node(i) \/ \E t \in Stamp : approve_node_secret(i, t)
    PROVE  AuditTrail'
  <1> DEFINE node == [nodes[i] EXCEPT !.approved = TRUE, !.auth_expires_at = None]
  <1>1. /\ i \in DOMAIN nodes /\ nodes[i] \in NodeState /\ UNCHANGED networks
        /\ \/ UNCHANGED <<nodes, audit_log>>
           \/ nodes' = set_approved(i) /\ Audit("node.approve", nodes[i].network_id, i)
    BY Zenon DEF approve_node, approve_node_secret, TypeOK
  <1>2. CASE UNCHANGED <<nodes, audit_log>>
    BY <1>1, <1>2 DEF AuditTrail, Logged
  <1>3. CASE nodes' = set_approved(i) /\ Audit("node.approve", nodes[i].network_id, i)
    <2>1. nodes' = [nodes EXCEPT ![i] = node]
      BY <1>1, <1>3, Zenon DEF set_approved
    <2>2. node.network_id = nodes[i].network_id /\ node.revoked = nodes[i].revoked
      BY <1>1, Zenon DEF NodeState
    <2>3. Logged("node.approve", i)'
      BY <1>3, AuditFacts
    <2> HIDE DEF node
    <2> QED
      BY <1>1, <1>3, <2>1, <2>2, <2>3, OneNodeTrail, Zenon
  <1> QED
    BY <1>1, <1>2, <1>3, Zenon

LEMMA UpdateTrail ==
    ASSUME TypeOK, AuditTrail, NEW i \in NodeId, NEW name, NEW tags,
           update_node(i, name, tags)
    PROVE  AuditTrail'
  <1>1. PICK x, y :
           /\ i \in DOMAIN nodes /\ nodes[i] \in NodeState /\ UNCHANGED networks
           /\ nodes' = [nodes EXCEPT ![i].name = x, ![i].tags = y]
           /\ UNCHANGED audit_log \/ Audit("node.update", nodes[i].network_id, i)
    BY Zenon DEF update_node, TypeOK
  <1> DEFINE node == [nodes[i] EXCEPT !.name = x, !.tags = y]
  <1>2. nodes' = [nodes EXCEPT ![i] = node]
    BY <1>1, ZenonT(30)
  <1>3. /\ node.network_id = nodes[i].network_id /\ node.revoked = nodes[i].revoked
        /\ node.approved = nodes[i].approved
    BY <1>1, Zenon DEF NodeState
  <1> HIDE DEF node
  <1> QED
    BY <1>1, <1>2, <1>3, OneNodeTrail, Zenon

LEMMA RotateTrail ==
    ASSUME TypeOK, AuditTrail, NEW i \in NodeId, NEW m \in Key \cup {None},
           NEW w \in Key \cup {None}, NEW t \in Stamp, rotate_keys(i, m, w, t)
    PROVE  AuditTrail'
  <1> DEFINE half == rotate_machine(nodes[i], m, t)
             full == rotate_wg(half, w, t)
             node == [full EXCEPT !.revoked = FALSE]
             Same(new, old) == /\ new.network_id = old.network_id
                               /\ new.approved = old.approved
  <1>1. /\ i \in DOMAIN nodes /\ nodes[i] \in NodeState /\ t \in Nat
        /\ UNCHANGED networks
    BY DEF rotate_keys, Stamp, TypeOK
  <1>2. \/ /\ nodes' = [nodes EXCEPT ![i] = node]
           /\ Audit("keys.rotate", nodes[i].network_id, i)
        \/ nodes' = [nodes EXCEPT ![i] = half] /\ UNCHANGED audit_log
    BY <1>1 DEF rotate_keys
  <1>3. half \in NodeState /\ Same(half, nodes[i]) /\ half.revoked = nodes[i].revoked
    BY <1>1, RotateMachineType, ZenonT(30) DEF rotate_machine, NodeState
  <1> HIDE DEF half
  <1>4. full \in NodeState /\ Same(full, half)
    BY <1>1, <1>3, RotateWgType, Zenon DEF rotate_wg, NodeState
  <1> HIDE DEF full
  <1>5. Same(node, full) /\ ~node.revoked
    BY <1>4 DEF NodeState
  <1> HIDE DEF node
  <1>6. CASE /\ nodes' = [nodes EXCEPT ![i] = node]
             /\ Audit("keys.rotate", nodes[i].network_id, i)
    BY <1>1, <1>3, <1>4, <1>5, <1>6, OneNodeTrail, Zenon
  <1>7. CASE nodes' = [nodes EXCEPT ![i] = half] /\ UNCHANGED audit_log
    BY <1>1, <1>3, <1>7, OneNodeTrail, Zenon
  <1> QED
    BY <1>2, <1>6, <1>7, Zenon

LEMMA RevokeTrail ==
    ASSUME TypeOK, AuditTrail, NEW i \in NodeId, revoke_node(i)
    PROVE  AuditTrail'
  <1> DEFINE node == [nodes[i] EXCEPT !.revoked = TRUE,
                                      !.key_history = revoke_current_keys(nodes[i])]
  <1>1. /\ i \in DOMAIN nodes /\ nodes[i] \in NodeState /\ UNCHANGED networks
        /\ Audit("keys.revoke", nodes[i].network_id, i)
        /\ nodes' = [nodes EXCEPT ![i] = node]
    BY Zenon DEF revoke_node, TypeOK
  <1>2. /\ node.network_id = nodes[i].network_id
        /\ node.approved = nodes[i].approved
    BY <1>1 DEF NodeState
  <1>3. Logged("keys.revoke", i)'
    BY <1>1, AuditFacts
  <1> HIDE DEF node
  <1> QED
    BY <1>1, <1>2, <1>3, OneNodeTrail, Zenon

LEMMA HeartbeatTrail ==
    ASSUME TypeOK, AuditTrail, NEW i \in NodeId, NEW report, NEW probe, NEW t,
           heartbeat(i, report, probe, t)
    PROVE  AuditTrail'
  <1> DEFINE at == IF probe THEN t ELSE nodes[i].probe_requested_at
             node == [nodes[i] EXCEPT !.report = report, !.probe_requested_at = at]
  <1>1. /\ i \in DOMAIN nodes /\ nodes[i] \in NodeState
        /\ UNCHANGED <<networks, audit_log>>
    BY DEF heartbeat, TypeOK
  <1>2. nodes' = [nodes EXCEPT ![i] = node]
    BY <1>1, ZenonT(30) DEF heartbeat, NodeState
  <1> HIDE DEF at
  <1>3. /\ node.network_id = nodes[i].network_id /\ node.revoked = nodes[i].revoked
        /\ node.approved = nodes[i].approved
    BY <1>1, Zenon DEF NodeState
  <1> HIDE DEF node
  <1> QED
    BY <1>1, <1>2, <1>3, OneNodeTrail, Zenon

LEMMA DeleteTrail ==
    ASSUME TypeOK, AuditTrail, NEW i \in NodeId, delete_node(i)
    PROVE  AuditTrail'
  <1>1. /\ i \in DOMAIN nodes /\ UNCHANGED networks
        /\ Audit("node.delete", nodes[i].network_id, i)
        /\ DOMAIN nodes' = DOMAIN nodes \ {i}
        /\ \A j \in DOMAIN nodes' : nodes'[j] = nodes[j]
    BY Zenon DEF delete_node, Remove
  <1>2. /\ audit_log \subseteq audit_log' /\ Logged("node.delete", i)'
        /\ \A e \in audit_log' : e \in audit_log \/ e.node_id = i
    BY <1>1, AuditFacts, Zenon
  <1>3. \A j \in DOMAIN nodes \cap DOMAIN nodes' : KeptNode(j)
    BY <1>1, Zenon DEF KeptNode
  <1>4. SameApproval
    BY <1>1, Zenon DEF SameApproval
  <1> QED
    BY <1>1, <1>2, <1>3, <1>4, TrailStep, Zenon

LEMMA EnrolTrail ==
    ASSUME TypeOK, ReferentialIntegrity, AuditTrail, EnrolNext
    PROVE  AuditTrail'
  <1>1. ASSUME NEW i, NEW k, NEW name, NEW m, NEW w, NEW t,
               register(i, k, name, m, w, t)
        PROVE  AuditTrail'
    <2> DEFINE n == tokens[k].network_id
               node == node_state(n, name, m, w, tokens[k].tags,
                                  ~networks[n].requires_approval, None, t)
    <2>1. /\ n \in DOMAIN networks
          /\ networks' = [networks EXCEPT ![n] = allocate_node_ips(@)]
          /\ \/ FreshNode(i) /\ nodes' = Insert(nodes, i, node)
                /\ Audit("node.register", n, i)
             \/ UNCHANGED <<nodes, audit_log>>
      BY <1>1 DEF register
    <2>2. /\ node.network_id = n /\ ~node.revoked
          /\ node.approved = ~networks[n].requires_approval
      BY Zenon DEF node_state
    <2> HIDE DEF node, n
    <2> QED
      BY <2>1, <2>2, NewNodeTrail, FailedEnrolTrail, Zenon
  <1>2. ASSUME NEW i, NEW n, NEW name, NEW m, NEW w, NEW ttl, NEW t,
               register_url(i, n, name, m, w, ttl, t)
        PROVE  AuditTrail'
    <2> DEFINE node == node_state(n, name, m, w, {}, FALSE, as_i64(t + ttl), t)
    <2>1. /\ n \in DOMAIN networks
          /\ networks' = [networks EXCEPT ![n] = allocate_node_ips(@)]
          /\ \/ FreshNode(i) /\ nodes' = Insert(nodes, i, node)
                /\ Audit("node.register_url", n, i)
             \/ UNCHANGED <<nodes, audit_log>>
      BY <1>2, Zenon DEF register_url
    <2>2. node.network_id = n /\ ~node.revoked /\ ~node.approved
      BY Zenon DEF node_state
    <2> HIDE DEF node
    <2> QED
      BY <2>1, <2>2, NewNodeTrail, FailedEnrolTrail, Zenon
  <1> QED
    BY <1>1, <1>2, ApproveTrail DEF EnrolNext

LEMMA AuditStep ==
    TypeOK /\ ReferentialIntegrity /\ AuditTrail /\ [Next]_vars => AuditTrail'
  <1> SUFFICES ASSUME TypeOK, ReferentialIntegrity, AuditTrail, [Next]_vars
               PROVE  AuditTrail'
    BY Zenon
  <1>1. CASE NodeNext
    BY <1>1, ApproveTrail, UpdateTrail, RotateTrail, RevokeTrail, DeleteTrail,
       HeartbeatTrail DEF NodeNext
  <1>2. ASSUME NEW k, revoke_token(k) PROVE AuditTrail'
    BY <1>2, NetworksTrail, ZenonT(30) DEF revoke_token, SameApproval
  <1>3. CASE read_state \/ tick \/ UNCHANGED vars
    BY <1>3, NetworksTrail DEF read_state, tick, vars, SameApproval
  <1> QED
    BY <1>1, <1>2, <1>3, NetworkNextTrail, EnrolTrail, Zenon DEF Next

\* The audit log accounts for every node that is there, and for every node
\* that is gone, however approvals, revocations, rotations and deletions are
\* ordered and whichever of them fail half way.
THEOREM AuditAccounts == Spec => []AuditTrail
  <1>1. Init => AuditTrail
    BY DEF Init, AuditTrail
  <1> QED
    BY <1>1, AuditStep, TypeCorrect, NoOrphans, PTL DEF Spec

-----------------------------------------------------------------------------
(* What a step may do to keys.                                             *)

\* The log only grows.
LEMMA LogGrows == [Next]_vars => audit_log \subseteq audit_log'
  <1> SUFFICES ASSUME [Next]_vars PROVE audit_log \subseteq audit_log'
    OBVIOUS
  <1>1. CASE NetworkNext
    BY <1>1 DEF NetworkNext, create_network, create_token, update_acl,
       update_key_policy, delete_network, Audit
  <1>2. ASSUME NEW i, NEW k, NEW name, NEW m, NEW w, NEW t,
               register(i, k, name, m, w, t)
        PROVE  audit_log \subseteq audit_log'
    BY <1>2 DEF register, Audit
  <1>3. ASSUME NEW i, NEW n, NEW name, NEW m, NEW w, NEW ttl, NEW t,
               register_url(i, n, name, m, w, ttl, t)
        PROVE  audit_log \subseteq audit_log'
    BY <1>3, Zenon DEF register_url, Audit
  <1>4. CASE EnrolNext
    BY <1>2, <1>3, <1>4, ZenonT(30) DEF EnrolNext, approve_node_secret, Audit
  <1>5. ASSUME NEW i, NEW name, NEW tags, update_node(i, name, tags)
        PROVE  audit_log \subseteq audit_log'
    BY <1>5 DEF update_node, Audit
  <1>6. ASSUME NEW i, NEW m, NEW w, NEW t, rotate_keys(i, m, w, t)
        PROVE  audit_log \subseteq audit_log'
    BY <1>6 DEF rotate_keys, Audit
  <1>7. CASE NodeNext
    BY <1>5, <1>6, <1>7, ZenonT(30) DEF NodeNext, approve_node, revoke_node, delete_node,
       heartbeat, Audit
  <1> QED
    BY <1>1, <1>4, <1>7, Zenon DEF Next, revoke_token, read_state, tick, vars, Audit

\* A record of this type and of this time is in force.
LiveSince(h, type, t) ==
    \E r \in DOMAIN h :
        h[r].key_type = type /\ ~h[r].revoked /\ h[r].created_at = t

HasLive(h, type) ==
    \E r \in DOMAIN h : h[r].key_type = type /\ ~h[r].revoked

BothLive(h) == HasLive(h, "machine") /\ HasLive(h, "wireguard")

SameCurrentKeys(new, old) ==
    /\ new.machine_public_key = old.machine_public_key
    /\ new.wg_public_key = old.wg_public_key

\* What a step does to a node that was there and stays.
KeyChange(j) ==
    \/ SameKeys(nodes'[j], nodes[j])
    \/ /\ SameCurrentKeys(nodes'[j], nodes[j]) /\ nodes'[j].revoked
       /\ Logged("keys.revoke", j)'
    \/ \E m \in Key \cup {None}, w \in Key \cup {None}, t \in Stamp :
          rotate_keys(j, m, w, t)

\* register and register_url put both keys of the new node on record.
LEMMA NewNodeLive ==
    ASSUME NEW i, NEW n, NEW name, NEW m, NEW w, NEW tags, NEW approved, NEW auth,
           NEW t,
           nodes' = Insert(nodes, i, node_state(n, name, m, w, tags, approved, auth, t))
    PROVE  /\ DOMAIN nodes' = DOMAIN nodes \cup {i} /\ BothLive(nodes'[i].key_history)
           /\ \A j \in DOMAIN nodes : j # i => SameKeys(nodes'[j], nodes[j])
  <1> DEFINE node == node_state(n, name, m, w, tags, approved, auth, t)
             h == <<key_record("machine", m, t), key_record("wireguard", w, t)>>
  <1>1. /\ DOMAIN h = 1..2 /\ h[1].key_type = "machine" /\ ~h[1].revoked
        /\ h[2].key_type = "wireguard" /\ ~h[2].revoked
    BY DEF key_record
  <1>2. node.key_history = h
    BY Zenon DEF node_state
  <1> HIDE DEF h
  <1>3. BothLive(h)
    <2>1. 1 \in 1..2 /\ 2 \in 1..2
      OBVIOUS
    <2>2. 1 \in DOMAIN h /\ 2 \in DOMAIN h
      BY <1>1, <2>1, Zenon
    <2> QED
      BY <1>1, <2>2, Zenon DEF BothLive, HasLive
  <1> HIDE DEF node
  <1>4. /\ DOMAIN nodes' = DOMAIN nodes \cup {i} /\ nodes'[i] = node
        /\ \A j \in DOMAIN nodes : j # i => nodes'[j] = nodes[j]
    BY Zenon DEF Insert, node
  <1> QED
    BY <1>2, <1>3, <1>4, Zenon DEF SameKeys

KeyChanges ==
    \A j \in DOMAIN nodes' :
        IF j \in DOMAIN nodes THEN KeyChange(j) ELSE BothLive(nodes'[j].key_history)

LEMMA StepKeyChanges == TypeOK /\ [Next]_vars => KeyChanges
  <1> SUFFICES ASSUME TypeOK, [Next]_vars PROVE KeyChanges
    BY Zenon
  <1>1. ASSUME DOMAIN nodes' \subseteq DOMAIN nodes,
               \A j \in DOMAIN nodes' : SameKeys(nodes'[j], nodes[j])
        PROVE  KeyChanges
    BY <1>1 DEF KeyChanges, KeyChange
  <1>2. CASE UNCHANGED nodes
    BY <1>1, <1>2 DEF SameKeys
  <1>3. ASSUME NEW i, FreshNode(i), NEW n, NEW name, NEW m, NEW w, NEW tags,
               NEW approved, NEW auth, NEW t,
               nodes' = Insert(nodes, i,
                               node_state(n, name, m, w, tags, approved, auth, t))
        PROVE  KeyChanges
    BY <1>3, NewNodeLive, ZenonT(30) DEF KeyChanges, KeyChange, FreshNode
  <1>4. ASSUME NEW i \in NodeId, NEW m \in Key \cup {None}, NEW w \in Key \cup {None},
               NEW t \in Stamp, rotate_keys(i, m, w, t)
        PROVE  KeyChanges
    <2>1. /\ DOMAIN nodes' = DOMAIN nodes
          /\ \A j \in DOMAIN nodes : j # i => nodes'[j] = nodes[j]
      BY <1>4, Zenon DEF rotate_keys
    <2> QED
      BY <1>4, <2>1, Zenon DEF KeyChanges, KeyChange, SameKeys
  <1>5. ASSUME NEW i \in NodeId, revoke_node(i) PROVE KeyChanges
    <2>1. /\ DOMAIN nodes' = DOMAIN nodes
          /\ \A j \in DOMAIN nodes : j # i => nodes'[j] = nodes[j]
      BY <1>5, Zenon DEF revoke_node
    <2>2. i \in DOMAIN nodes => SameCurrentKeys(nodes'[i], nodes[i]) /\ nodes'[i].revoked
      BY <1>5, Zenon DEF revoke_node, SameCurrentKeys, TypeOK, NodeState
    <2>3. Logged("keys.revoke", i)'
      BY <1>5, AuditFacts, Zenon DEF revoke_node
    <2> QED
      BY <2>1, <2>2, <2>3, Zenon DEF KeyChanges, KeyChange, SameKeys
  <1>6. CASE EnrolNext
    <2>1. PICK i \in NodeId, t \in Stamp :
             \/ \E k \in TokenId, name \in Name, m \in Key, w \in Key :
                   register(i, k, name, m, w, t)
             \/ \E n \in NetworkId, name \in Name, m \in Key, w \in Key, ttl \in Ttl :
                   register_url(i, n, name, m, w, ttl, t)
             \/ approve_node_secret(i, t)
      BY <1>6, Zenon DEF EnrolNext
    <2>2. ASSUME NEW k, NEW name, NEW m, NEW w, register(i, k, name, m, w, t)
          PROVE  KeyChanges
      BY <1>2, <1>3, <2>2 DEF register
    <2>3. ASSUME NEW n, NEW name, NEW m, NEW w, NEW ttl,
                 register_url(i, n, name, m, w, ttl, t)
          PROVE  KeyChanges
      BY <1>2, <1>3, <2>3, ZenonT(30) DEF register_url
    <2> QED
      BY <1>1, <2>1, <2>2, <2>3, OtherHandlersKeepKeys, ZenonT(30)
  <1>7. CASE NodeNext
    BY <1>1, <1>4, <1>5, <1>7, OtherHandlersKeepKeys, Zenon DEF NodeNext
  <1>8. CASE NetworkNext
    <2>1. UNCHANGED nodes
      BY <1>8 DEF NetworkNext, create_network, create_token, update_acl,
         update_key_policy, delete_network
    <2> QED
      BY <1>2, <2>1
  <1> QED
    BY <1>2, <1>6, <1>7, <1>8 DEF Next, revoke_token, read_state, tick, vars

-----------------------------------------------------------------------------
(* Keys in force.                                                          *)

\* A node whose keys were never revoked has one of each type in force: a
\* rotation, also one that fails half way, replaces what it revokes.
KeysInForce ==
    \A i \in DOMAIN nodes :
        ~Logged("keys.revoke", i) => BothLive(nodes[i].key_history)

\* Replacing the key of one type leaves the other type's record in force.
LEMMA RotatedLive ==
    ASSUME NEW h \in Seq(KeyRecord), NEW type \in KeyType, NEW old,
           NEW k \in Key, NEW t \in Nat
    PROVE  LET g == Append(revoke_key_record(h, type, old), key_record(type, k, t)) IN
           /\ HasLive(g, type) /\ LiveSince(g, type, t)
           /\ \A u : u # type /\ HasLive(h, u) => HasLive(g, u)
           /\ \A u : u # type /\ LiveSince(h, u, t) => LiveSince(g, u, t)
  <1> DEFINE f == revoke_key_record(h, type, old)
             rec == key_record(type, k, t)
             g == Append(f, rec)
  <1>1. f \in Seq(KeyRecord) /\ rec \in KeyRecord
    BY RevokeType, KeyRecordType, Zenon
  <1>2. rec.key_type = type /\ ~rec.revoked /\ rec.created_at = t
    BY DEF key_record
  <1>3. DOMAIN f = DOMAIN h /\ \A r \in DOMAIN h : h[r].key_type # type => f[r] = h[r]
    BY DEF revoke_key_record
  <1> HIDE DEF f, rec
  <1>4. /\ Len(f) \in Nat /\ DOMAIN f = 1..Len(f)
        /\ DOMAIN g = 1..(Len(f) + 1) /\ g[Len(f) + 1] = rec
        /\ \A r \in 1..Len(f) : g[r] = f[r]
    BY <1>1
  <1> HIDE DEF g
  <1>5. HasLive(g, type) /\ LiveSince(g, type, t)
    BY <1>2, <1>4 DEF HasLive, LiveSince
  <1>6. \A u : u # type => /\ HasLive(h, u) => HasLive(g, u)
                           /\ LiveSince(h, u, t) => LiveSince(g, u, t)
    BY <1>3, <1>4 DEF HasLive, LiveSince
  <1> QED
    BY <1>5, <1>6, Zenon DEF f, rec, g

LEMMA RotateMachineLive ==
    ASSUME NEW node \in NodeState, NEW m \in Key \cup {None}, NEW t \in Nat,
           BothLive(node.key_history)
    PROVE  BothLive(rotate_machine(node, m, t).key_history)
  <1>1. CASE m = None
    BY <1>1, Zenon DEF rotate_machine
  <1>2. CASE m # None
    <2> DEFINE h == node.key_history
               g == Append(revoke_key_record(h, "machine", node.machine_public_key),
                           key_record("machine", m, t))
    <2>1. h \in Seq(KeyRecord) /\ m \in Key
      BY <1>2 DEF NodeState
    <2>2. rotate_machine(node, m, t).key_history = g
      BY <1>2, Zenon DEF rotate_machine, NodeState
    <2>3. BothLive(g)
      BY <2>1, RotatedLive, Zenon DEF BothLive, KeyType
    <2> QED
      BY <2>2, <2>3, Zenon
  <1> QED
    BY <1>1, <1>2

LEMMA RotateWgLive ==
    ASSUME NEW node \in NodeState, NEW w \in Key \cup {None}, NEW t \in Nat,
           BothLive(node.key_history)
    PROVE  BothLive(rotate_wg(node, w, t).key_history)
  <1>1. CASE w = None
    BY <1>1, Zenon DEF rotate_wg
  <1>2. CASE w # None
    <2> DEFINE h == node.key_history
               g == Append(revoke_key_record(h, "wireguard", node.wg_public_key),
                           key_record("wireguard", w, t))
    <2>1. h \in Seq(KeyRecord) /\ w \in Key
      BY <1>2 DEF NodeState
    <2>2. rotate_wg(node, w, t).key_history = g
      BY <1>2, Zenon DEF rotate_wg, NodeState
    <2>3. BothLive(g)
      BY <2>1, RotatedLive DEF BothLive, KeyType
    <2> QED
      BY <2>2, <2>3, Zenon
  <1> QED
    BY <1>1, <1>2

LEMMA RotateKeysLive ==
    ASSUME TypeOK, NEW i \in NodeId, NEW m \in Key \cup {None},
           NEW w \in Key \cup {None}, NEW t \in Stamp, rotate_keys(i, m, w, t),
           BothLive(nodes[i].key_history)
    PROVE  BothLive(nodes'[i].key_history)
  <1> DEFINE half == rotate_machine(nodes[i], m, t)
             full == rotate_wg(half, w, t)
             node == [full EXCEPT !.revoked = FALSE]
  <1>1. i \in DOMAIN nodes /\ nodes[i] \in NodeState /\ t \in Nat
    BY DEF rotate_keys, Stamp, TypeOK
  <1>2. half \in NodeState /\ BothLive(half.key_history)
    BY <1>1, RotateMachineType, RotateMachineLive, Zenon
  <1>3. nodes'[i] = node \/ nodes'[i] = half
    BY <1>1, Zenon DEF rotate_keys
  <1> HIDE DEF half
  <1>4. full \in NodeState /\ BothLive(full.key_history)
    BY <1>1, <1>2, RotateWgType, RotateWgLive, Zenon
  <1> HIDE DEF full
  <1>5. node.key_history = full.key_history
    BY <1>4 DEF NodeState
  <1> QED
    BY <1>2, <1>3, <1>4, <1>5, Zenon

LEMMA InForceStep == TypeOK /\ KeysInForce /\ [Next]_vars => KeysInForce'
  <1> SUFFICES ASSUME TypeOK, KeysInForce, [Next]_vars,
                      NEW j \in DOMAIN nodes', ~Logged("keys.revoke", j)'
               PROVE  BothLive(nodes'[j].key_history)
    BY DEF KeysInForce
  <1>1. j \notin DOMAIN nodes => BothLive(nodes'[j].key_history)
    BY StepKeyChanges, Zenon DEF KeyChanges
  <1>2. CASE j \in DOMAIN nodes
    <2>1. KeyChange(j)
      BY <1>2, StepKeyChanges DEF KeyChanges
    <2>2. ~Logged("keys.revoke", j)
      BY LogGrows, ZenonT(30) DEF Logged
    <2>3. BothLive(nodes[j].key_history) /\ j \in NodeId
      BY <1>2, <2>2, ZenonT(30) DEF KeysInForce, TypeOK
    <2> QED
      BY <2>1, <2>3, RotateKeysLive, ZenonT(30) DEF KeyChange, SameKeys
  <1> QED
    BY <1>1, <1>2, Zenon

\* The invariant of keys, nodes and log that the netmaps rest on.
THEOREM KeysStayInForce == Spec => []KeysInForce
  <1>1. Init => KeysInForce
    BY DEF Init, KeysInForce
  <1> QED
    BY <1>1, InForceStep, TypeCorrect, PTL DEF Spec

-----------------------------------------------------------------------------
(* Nodes in service.                                                       *)

KeyInUse(node, type) ==
    IF type = "machine" THEN node.machine_public_key ELSE node.wg_public_key

\* The record in force is the only one current_key_created_at can find, and
\* the youngest of its type.
LEMMA CurrentRecord ==
    ASSUME NEW node \in NodeState, NEW type \in KeyType, Coherent(node),
           NEW r \in DOMAIN node.key_history,
           node.key_history[r].key_type = type, ~node.key_history[r].revoked
    PROVE  /\ current_key_created_at(node, type) = node.key_history[r].created_at
           /\ Max({s \in DOMAIN node.key_history :
                     node.key_history[s].key_type = type}) = r
  <1> DEFINE h == node.key_history
             S == {s \in DOMAIN h : h[s].key_type = type}
             C == current_records(node, type)
  <1>1. h \in Seq(KeyRecord) /\ DOMAIN h \subseteq Nat
    BY DEF NodeState
  <1>2. Latest(h, type, KeyInUse(node, type))
    BY Zenon DEF Coherent, KeyInUse, KeyType
  <1>3. C = {s \in DOMAIN h : /\ h[s].key_type = type /\ ~h[s].revoked
                              /\ h[s].public_key = KeyInUse(node, type)}
    BY DEF current_records, KeyInUse
  <1>4. current_key_created_at(node, type) = IF C = {} THEN None ELSE h[Min(C)].created_at
    BY DEF current_key_created_at
  <1>5. r \in DOMAIN h /\ h[r].key_type = type /\ ~h[r].revoked
    BY Zenon
  <1> HIDE DEF h, C
  <1>6. r \in C /\ \A s \in C : s <= r /\ r <= s /\ s \in Nat
    BY <1>1, <1>2, <1>3, <1>5, ZenonT(30) DEF Latest
  <1>7. C = {r}
    BY <1>1, <1>5, <1>6
  <1>8. Min(C) = r
    BY <1>1, <1>5, <1>7 DEF Min
  <1>9. r \in S /\ \A s \in S : s <= r /\ s \in Nat
    BY <1>1, <1>2, <1>5, Zenon DEF Latest
  <1> HIDE DEF S
  <1>10. Max(S) = r
    BY <1>9 DEF Max
  <1> QED
    BY <1>4, <1>7, <1>8, <1>10, ZenonT(30) DEF S, h

\* The age key_rotation_required works with is that of the youngest record.
LEMMA BornWhenCreated ==
    ASSUME TypeOK, AllRight, NEW i \in DOMAIN nodes, NEW type \in KeyType
    PROVE  LET created_at == current_key_created_at(nodes[i], type) IN
           IF HasLive(nodes[i].key_history, type)
           THEN created_at = KeyBorn(i, type) /\ created_at \in Nat
           ELSE created_at = None
  <1> DEFINE h == nodes[i].key_history
  <1>1. nodes[i] \in NodeState /\ Coherent(nodes[i])
    BY Zenon DEF TypeOK, AllRight, KeysRight
  <1>2. CASE HasLive(h, type)
    <2>1. PICK r \in DOMAIN h : h[r].key_type = type /\ ~h[r].revoked
      BY <1>2 DEF HasLive
    <2>2. h \in Seq(KeyRecord)
      BY <1>1 DEF NodeState
    <2> HIDE DEF h
    <2>6. h[r] \in KeyRecord
      BY <2>1, <2>2
    <2>3. h[r].created_at \in Nat
      BY <2>6, ZenonT(30) DEF KeyRecord
    <2>4. /\ current_key_created_at(nodes[i], type) = h[r].created_at
          /\ Max({s \in DOMAIN h : h[s].key_type = type}) = r
      BY <1>1, <2>1, CurrentRecord DEF h
    <2>5. KeyBorn(i, type) = h[r].created_at
      BY <2>4, Zenon DEF KeyBorn, h
    <2> QED
      BY <1>2, <2>3, <2>4, <2>5, ZenonT(30) DEF h
  <1>3. CASE ~HasLive(h, type)
    <2>1. current_records(nodes[i], type) = {}
      BY <1>3 DEF current_records, HasLive
    <2> QED
      BY <1>3, <2>1, Zenon DEF current_key_created_at
  <1> QED
    BY <1>2, <1>3, ZenonT(30)

\* An age read as an i64 is itself or negative.
LEMMA AsI64 ==
    ASSUME NEW age \in Age
    PROVE  /\ as_i64(age) \in Int /\ as_i64(age) <= age /\ age \in Nat
           /\ age < 2^(WIDTH - 1) => as_i64(age) = age
  <1>1. /\ age \in Nat /\ age < 2^WIDTH /\ WIDTH \in Nat \ {0}
    BY WidthAssumption, BoundsAssumption
  <1>2. 2^WIDTH \in Int /\ 2^(WIDTH - 1) \in Int
    BY <1>1
  <1> QED
    BY <1>1, <1>2 DEF as_i64

\* The policy of a node's network.
LEMMA PolicyAge ==
    ASSUME TypeOK, ReferentialIntegrity, NEW i \in DOMAIN nodes
    PROVE  networks[nodes[i].network_id].max_age \in Age \cup {None}
  <1>1. networks[nodes[i].network_id] \in NetworkState
    BY DEF TypeOK, ReferentialIntegrity
  <1> QED
    BY <1>1, Zenon DEF NetworkState

LEMMA OverAgeBlocks ==
    TypeOK /\ ReferentialIntegrity /\ AllRight /\ KeysInForce
        => OverAgeKeyBlocksUnrevokedPeer
  <1> SUFFICES ASSUME TypeOK, ReferentialIntegrity, AllRight, KeysInForce,
                      NEW i \in DOMAIN nodes, OverAge(i), ~Logged("keys.revoke", i)
               PROVE  ~effective_node_status(i)
    BY DEF OverAgeKeyBlocksUnrevokedPeer
  <1> DEFINE max_age == networks[nodes[i].network_id].max_age
  <1>0. max_age \in Age \cup {None}
    BY PolicyAge, Zenon
  <1>1. max_age \in Age /\ max_age # None
    BY <1>0, ZenonT(30) DEF OverAge
  <1>2. PICK type \in KeyType : clock - KeyBorn(i, type) > max_age
    BY DEF OverAge
  <1> DEFINE created_at == current_key_created_at(nodes[i], type)
  <1>3. HasLive(nodes[i].key_history, type)
    BY DEF KeysInForce, BothLive, KeyType
  <1>4. created_at = KeyBorn(i, type) /\ created_at \in Nat /\ created_at # None
    BY <1>3, BornWhenCreated, ValueAssumption
  <1>5. clock \in Nat
    BY DEF TypeOK
  <1> HIDE DEF max_age, created_at
  <1>6. clock - created_at > as_i64(max_age)
    BY <1>1, <1>2, <1>4, <1>5, AsI64
  <1>7. key_rotation_required(i)
    BY <1>1, <1>4, <1>6, Zenon DEF key_rotation_required, max_age, created_at
  <1> QED
    BY <1>7 DEF effective_node_status

LEMMA YoungServe ==
    TypeOK /\ ReferentialIntegrity /\ AllRight => YoungKeysServe
  <1> SUFFICES ASSUME TypeOK, ReferentialIntegrity, AllRight,
                      NEW i \in DOMAIN nodes, key_rotation_required(i),
                      LET max_age == networks[nodes[i].network_id].max_age IN
                      max_age # None => max_age < 2^(WIDTH - 1)
               PROVE  OverAge(i)
    BY DEF YoungKeysServe, effective_node_status
  <1> DEFINE max_age == networks[nodes[i].network_id].max_age
  <1>0. max_age \in Age \cup {None}
    BY PolicyAge, Zenon
  <1>1. max_age \in Age /\ max_age # None
    BY <1>0, Zenon DEF key_rotation_required
  <1>2. PICK type \in KeyType :
           LET created_at == current_key_created_at(nodes[i], type) IN
           created_at # None /\ clock - created_at > as_i64(max_age)
    BY Zenon DEF key_rotation_required
  <1>3. current_key_created_at(nodes[i], type) = KeyBorn(i, type)
    BY <1>2, BornWhenCreated, ZenonT(30)
  <1>4. as_i64(max_age) = max_age
    BY <1>1, AsI64
  <1> QED
    BY <1>1, <1>2, <1>3, <1>4, ZenonT(30) DEF OverAge

\* A node whose key is older than the policy allows is told of no peers, and
\* no peer is told of it, unless its keys were once revoked: for any number
\* of rotations, also those that failed half way, and of policy changes.
THEOREM OverAgeKeysBlock == Spec => []OverAgeKeyBlocksUnrevokedPeer
  BY OverAgeBlocks, TypeCorrect, NoOrphans, AllKeysRight, KeysStayInForce, PTL

\* An approved node that is not revoked is out of service only when one of
\* its keys is over age, with every policy below 2^63.
THEOREM YoungKeysStayInService == Spec => []YoungKeysServe
  BY YoungServe, TypeCorrect, NoOrphans, AllKeysRight, PTL

\* A node that gets two new keys has both in force since then.
LEMMA RotatedSince ==
    ASSUME NEW node \in NodeState, NEW m \in Key, NEW w \in Key, NEW t \in Nat
    PROVE  LET h == rotate_wg(rotate_machine(node, m, t), w, t).key_history IN
           LiveSince(h, "machine", t) /\ LiveSince(h, "wireguard", t)
  <1> DEFINE half == rotate_machine(node, m, t)
             f == Append(revoke_key_record(node.key_history, "machine",
                                           node.machine_public_key),
                         key_record("machine", m, t))
             g == Append(revoke_key_record(half.key_history, "wireguard",
                                           half.wg_public_key),
                         key_record("wireguard", w, t))
  <1>1. m # None /\ w # None /\ node.key_history \in Seq(KeyRecord)
    BY ValueAssumption DEF NodeState
  <1>2. half \in NodeState /\ half.key_history = f
    BY <1>1, RotateMachineType, ZenonT(30) DEF rotate_machine, NodeState
  <1>3. LiveSince(f, "machine", t)
    BY <1>1, RotatedLive, Zenon DEF KeyType
  <1> HIDE DEF f, half
  <1>4. half.key_history \in Seq(KeyRecord)
    BY <1>2, Zenon DEF NodeState
  <1>5. LiveSince(g, "machine", t) /\ LiveSince(g, "wireguard", t)
    BY <1>2, <1>3, <1>4, RotatedLive, ZenonT(30) DEF KeyType
  <1>6. rotate_wg(half, w, t).key_history = g
    BY <1>1, <1>2 DEF rotate_wg, NodeState
  <1> QED
    BY <1>5, <1>6, Zenon DEF half

\* Both keys of a node change only in a rotation that succeeds: the node is
\* then unrevoked and its keys are as old as the time rotate_keys used.
LEMMA BothReplaced ==
    ASSUME TypeOK, AllRight, [Next]_vars, NEW i \in DOMAIN nodes \cap DOMAIN nodes',
           nodes'[i].machine_public_key # nodes[i].machine_public_key,
           nodes'[i].wg_public_key # nodes[i].wg_public_key
    PROVE  /\ UNCHANGED <<networks, clock>> /\ ~nodes'[i].revoked
           /\ nodes'[i].approved = nodes[i].approved
           /\ nodes'[i].network_id = nodes[i].network_id
           /\ \E t \in Stamp : \A type \in KeyType :
                 current_key_created_at(nodes'[i], type) = t
  <1>1. PICK m \in Key \cup {None}, w \in Key \cup {None}, t \in Stamp :
           rotate_keys(i, m, w, t)
    BY StepKeyChanges, ZenonT(30) DEF KeyChanges, KeyChange, SameKeys, SameCurrentKeys
  <1> DEFINE half == rotate_machine(nodes[i], m, t)
             full == rotate_wg(half, w, t)
             node == [full EXCEPT !.revoked = FALSE]
  <1>2. /\ nodes[i] \in NodeState /\ Coherent(nodes[i]) /\ t \in Nat
        /\ UNCHANGED <<networks, clock>> /\ nodes'[i] \in {node, half}
    BY <1>1 DEF rotate_keys, Stamp, TypeOK, AllRight, KeysRight
  <1>3. /\ half \in NodeState /\ Coherent(half)
        /\ half.wg_public_key = nodes[i].wg_public_key
        /\ m = None => half.machine_public_key = nodes[i].machine_public_key
        /\ half.approved = nodes[i].approved /\ half.network_id = nodes[i].network_id
    BY <1>2, RotateMachineType, RotateMachineCoherent, ZenonT(30) DEF rotate_machine, NodeState
  <1>4. nodes'[i] = node
    BY <1>2, <1>3
  <1>5. m \in Key /\ w \in Key =>
           LiveSince(full.key_history, "machine", t)
             /\ LiveSince(full.key_history, "wireguard", t)
    BY <1>2, RotatedSince
  <1> HIDE DEF half
  <1>6. /\ full \in NodeState /\ Coherent(full)
        /\ full.machine_public_key = half.machine_public_key
        /\ w = None => full.wg_public_key = half.wg_public_key
        /\ full.approved = half.approved /\ full.network_id = half.network_id
    BY <1>2, <1>3, RotateWgType, RotateWgCoherent, ZenonT(30) DEF rotate_wg, NodeState
  <1> HIDE DEF full
  <1>7. /\ node \in NodeState /\ ~node.revoked
        /\ node.key_history = full.key_history
        /\ node.machine_public_key = full.machine_public_key
        /\ node.wg_public_key = full.wg_public_key
        /\ node.approved = full.approved /\ node.network_id = full.network_id
    BY <1>6, ZenonT(30) DEF NodeState
  <1> HIDE DEF node
  <1>8. Coherent(node)
    BY <1>6, <1>7, Zenon DEF Coherent
  <1>9. m \in Key /\ w \in Key
    BY <1>3, <1>4, <1>6, <1>7, ZenonT(30)
  <1>10. ASSUME NEW type \in KeyType PROVE current_key_created_at(node, type) = t
    <2>1. LiveSince(node.key_history, type, t)
      BY <1>5, <1>7, <1>9, ZenonT(30) DEF KeyType
    <2> QED
      BY <1>7, <1>8, <2>1, CurrentRecord, Zenon DEF LiveSince
  <1> QED
    BY <1>2, <1>3, <1>4, <1>6, <1>7, <1>10, ZenonT(30)

\* An approved node that replaces both its keys is in service in the same
\* step, however its history came about.
THEOREM RotationsRestoreService == Spec => RotationRestoresService
  <1> DEFINE Restores ==
         \A i \in DOMAIN nodes \cap DOMAIN nodes' :
            LET max_age == networks[nodes[i].network_id].max_age IN
            /\ nodes[i].approved
            /\ nodes'[i].machine_public_key # nodes[i].machine_public_key
            /\ nodes'[i].wg_public_key # nodes[i].wg_public_key
            /\ max_age = None \/ as_i64(max_age) >= LockWait
            => effective_node_status(i)'
  <1>1. TypeOK /\ ReferentialIntegrity /\ AllRight /\ [Next]_vars => Restores
    <2> SUFFICES ASSUME TypeOK, ReferentialIntegrity, AllRight, [Next]_vars,
                        NEW i \in DOMAIN nodes \cap DOMAIN nodes', nodes[i].approved,
                        nodes'[i].machine_public_key # nodes[i].machine_public_key,
                        nodes'[i].wg_public_key # nodes[i].wg_public_key,
                        LET max_age == networks[nodes[i].network_id].max_age IN
                        max_age = None \/ as_i64(max_age) >= LockWait
                 PROVE  effective_node_status(i)'
      OBVIOUS
    <2> DEFINE max_age == networks[nodes[i].network_id].max_age
    <2>1. /\ UNCHANGED <<networks, clock>> /\ ~nodes'[i].revoked
          /\ nodes'[i].approved = nodes[i].approved
          /\ nodes'[i].network_id = nodes[i].network_id
      BY BothReplaced, ZenonT(30)
    <2>2. PICK t \in Stamp : \A type \in KeyType :
             current_key_created_at(nodes'[i], type) = t
      BY BothReplaced, Zenon
    <2>3. t \in Nat /\ clock \in Nat /\ LockWait \in Nat /\ clock - t <= LockWait
      BY BoundsAssumption DEF Stamp, TypeOK
    <2>4. max_age \in Age \cup {None}
      BY PolicyAge, Zenon
    <2>5. max_age # None => as_i64(max_age) \in Int /\ as_i64(max_age) >= LockWait
      BY <2>4, AsI64, Zenon
    <2>6. ~key_rotation_required(i)'
      BY <2>1, <2>2, <2>3, <2>5 DEF key_rotation_required
    <2> QED
      BY <2>1, <2>6, ZenonT(30) DEF effective_node_status
  <1>2. TypeOK /\ ReferentialIntegrity /\ AllRight /\ [Next]_vars => [Restores]_vars
    BY <1>1
  <1> QED
    BY <1>2, TypeCorrect, NoOrphans, AllKeysRight, PTL DEF Spec, RotationRestoresService

-----------------------------------------------------------------------------
(* Names.                                                                  *)

Reinstated(i) == Logged("keys.revoke", i) /\ Logged("keys.rotate", i)

\* Nodes in service share a name only if one of them came back from a
\* revocation.
NamesApart ==
    \A i, j \in DOMAIN nodes : Clash(i, j) => Reinstated(i) \/ Reinstated(j)

LEMMA ReinstatementLogged ==
    ASSUME TypeOK, AuditTrail, [Next]_vars, NEW i, Reinstates(i)
    PROVE  Reinstated(i)'
  <1>1. i \in DOMAIN nodes /\ i \in DOMAIN nodes' /\ nodes[i] \in NodeState
    BY DEF Reinstates, TypeOK
  <1>2. PICK m \in Key \cup {None}, w \in Key \cup {None}, t \in Stamp :
           rotate_keys(i, m, w, t)
    BY <1>1, StepKeyChanges, Zenon DEF KeyChanges, KeyChange, SameKeys, Reinstates
  <1>3. nodes' # [nodes EXCEPT ![i] = rotate_machine(@, m, t)]
    BY <1>1, Zenon DEF Reinstates, rotate_machine, NodeState
  <1>4. Logged("keys.rotate", i)'
    BY <1>2, <1>3, AuditFacts, ZenonT(30) DEF rotate_keys
  <1>5. Logged("keys.revoke", i)
    BY <1>1, Zenon DEF AuditTrail, Reinstates
  <1> QED
    BY <1>4, <1>5, LogGrows, ZenonT(30) DEF Reinstated, Logged

LEMMA NamesApartStep == TypeOK /\ AuditTrail /\ NamesApart /\ [Next]_vars => NamesApart'
  <1> SUFFICES ASSUME TypeOK, AuditTrail, NamesApart, [Next]_vars,
                      NEW i \in DOMAIN nodes', NEW j \in DOMAIN nodes', Clash(i, j)'
               PROVE  Reinstated(i)' \/ Reinstated(j)'
    BY Zenon DEF NamesApart
  <1>1. \/ i \in DOMAIN nodes /\ j \in DOMAIN nodes /\ Clash(i, j)
        \/ Reinstates(i) \/ Reinstates(j)
    BY NamesStep, Zenon DEF NoNewClash
  <1>2. \A k : Reinstated(k) => Reinstated(k)'
    BY LogGrows, Zenon DEF Reinstated, Logged
  <1> QED
    BY <1>1, <1>2, ReinstatementLogged, Zenon DEF NamesApart

\* A name of plain labels, folded label by label.
Folded(s) == [l \in 1..Len(s) |-> Fold(s[l])]

LEMMA FoldedFacts ==
    ASSUME NEW s, Len(s) \in Nat
    PROVE  /\ Folded(s) \in Seq({Fold(s[l]) : l \in 1..Len(s)})
           /\ Len(Folded(s)) = Len(s)
           /\ \A l \in 1..Len(s) : Folded(s)[l] = Fold(s[l])
  BY DEF Folded

\* Normalisation trims nothing off a plain name.
LEMMA NormalPlain ==
    ASSUME NEW s \in Seq(Label) \ {<<>>}, IsPlain(s)
    PROVE  normalize_name(s) = Folded(s)
  <1> DEFINE kept == {0} \cup {l \in DOMAIN s : s[l] # Empty}
  <1>1. Len(s) \in Nat \ {0} /\ DOMAIN s = 1..Len(s)
    OBVIOUS
  <1>2. Len(s) \in kept
    BY <1>1, DnsAssumption DEF IsPlain
  <1>3. \A l \in kept : l \in Nat /\ l <= Len(s)
    BY <1>1
  <1>4. Max(kept) = Len(s)
    <2>1. Max(kept) \in kept /\ \A l \in kept : Max(kept) >= l
      BY <1>1, <1>2, <1>3 DEF Max
    <2> HIDE DEF kept
    <2> QED
      BY <1>1, <1>2, <1>3, <2>1
  <1>5. trim_end(s) = s
    BY <1>4, SubSeqFull DEF trim_end
  <1> QED
    BY <1>5, Zenon DEF normalize_name, Folded

\* A plain name comes through a question as it is.
LEMMA AskedPlain ==
    ASSUME NEW s \in Seq(Label), IsPlain(s)
    PROVE  to_ascii(s) = s
  <1>1. \A l \in 1..Len(s) : Escape(s[l]) = s[l]
    BY DnsAssumption DEF IsPlain
  <1> QED
    BY <1>1 DEF to_ascii

\* Two joined names fold alike: the folded names agree label by label, and
\* the longer domain ends with the shorter one.
LEMMA JoinedAlike ==
    ASSUME NEW s \in Seq(Label), NEW d \in Seq(Label) \ {<<>>},
           NEW t \in Seq(Label), NEW e \in Seq(Label) \ {<<>>},
           Folded(s \o d) = Folded(t \o e), Len(e) <= Len(d)
    PROVE  /\ within(Folded(d), Folded(e))
           /\ d = e => Folded(s) = Folded(t)
  <1>1. /\ Len(s) \in Nat /\ Len(t) \in Nat /\ Len(d) \in Nat \ {0}
        /\ Len(e) \in Nat \ {0}
        /\ Len(s \o d) = Len(s) + Len(d) /\ Len(t \o e) = Len(t) + Len(e)
    OBVIOUS
  <1>2. Len(s) + Len(d) = Len(t) + Len(e)
    <2>1. Len(Folded(s \o d)) = Len(s \o d) /\ Len(Folded(t \o e)) = Len(t \o e)
      <3>1. Len(s \o d) \in Nat /\ Len(t \o e) \in Nat
        BY <1>1
      <3> QED
        BY <3>1, FoldedFacts, Zenon
    <2> QED
      BY <1>1, <2>1, Zenon
  <1>3. ASSUME NEW l \in 1..(Len(s) + Len(d))
        PROVE  Fold((s \o d)[l]) = Fold((t \o e)[l])
    <2>1. l \in 1..Len(s \o d) /\ l \in 1..Len(t \o e)
      BY <1>1, <1>2
    <2>2. /\ Folded(s \o d)[l] = Fold((s \o d)[l])
          /\ Folded(t \o e)[l] = Fold((t \o e)[l])
      BY <2>1, Zenon DEF Folded
    <2> QED
      BY <2>2, Zenon
  <1> DEFINE shift == Len(d) - Len(e)
  <1>4. ASSUME NEW l \in 1..Len(e) PROVE Fold(d[shift + l]) = Fold(e[l])
    <2>1. (s \o d)[Len(t) + l] = d[shift + l]
      BY <1>1, <1>2
    <2>2. (t \o e)[Len(t) + l] = e[l]
      BY <1>1
    <2>3. Len(t) + l \in 1..(Len(s) + Len(d))
      BY <1>1, <1>2
    <2> QED
      BY <1>3, <2>1, <2>2, <2>3, Zenon
  <1>5. within(Folded(d), Folded(e))
    <2>1. /\ Len(Folded(d)) = Len(d) /\ Len(Folded(e)) = Len(e)
          /\ \A l \in 1..Len(d) : Folded(d)[l] = Fold(d[l])
          /\ \A l \in 1..Len(e) : Folded(e)[l] = Fold(e[l])
      BY <1>1, FoldedFacts, Zenon
    <2>2. CASE Len(d) = Len(e)
      <3>1. \A l \in 1..Len(e) : Fold(d[l]) = Fold(e[l])
        BY <1>1, <1>4, <2>2
      <3> QED
        BY <2>2, <3>1 DEF within, Folded
    <2>3. CASE Len(e) < Len(d)
      <3>1. PICK S : Folded(d) \in Seq(S)
        BY <1>1, FoldedFacts, Zenon
      <3> DEFINE tail == SubSeq(Folded(d), shift + 1, Len(d))
      <3>2. /\ tail \in Seq(S) /\ Len(tail) = Len(e)
            /\ \A l \in 1..Len(e) : tail[l] = Folded(d)[shift + l]
        <4>1. /\ shift + 1 \in 1..Len(Folded(d)) /\ Len(d) \in 1..Len(Folded(d))
              /\ Len(d) - (shift + 1) + 1 = Len(e) /\ shift + 1 <= Len(d)
          BY <1>1, <2>1, <2>3
        <4> QED
          BY <3>1, <4>1, <1>1, SubSeqProperties
      <3>3. PICK R : Folded(e) \in Seq(R)
        BY <1>1, FoldedFacts, Zenon
      <3>4. \A l \in 1..Len(e) : tail[l] = Folded(e)[l]
        <4> TAKE l \in 1..Len(e)
        <4>1. shift + l \in 1..Len(d)
          BY <1>1, <2>3
        <4> QED
          BY <1>4, <2>1, <3>2, <4>1, Zenon
      <3>5. tail = Folded(e)
        <4> HIDE DEF tail
        <4>1. /\ DOMAIN tail = 1..Len(e) /\ tail = [l \in 1..Len(e) |-> tail[l]]
          BY <1>1, <3>2
        <4>2. Folded(e) = [l \in 1..Len(e) |-> Folded(e)[l]]
          BY <2>1, <3>3
        <4> QED
          BY <3>4, <4>1, <4>2
      <3>6. Folded(e) # <<>>
        BY <1>1, <2>1
      <3> QED
        BY <2>1, <2>3, <3>5, <3>6 DEF within, ends_with
    <2> QED
      BY <1>1, <2>2, <2>3
  <1>6. ASSUME d = e PROVE Folded(s) = Folded(t)
    <2>1. Len(s) = Len(t)
      BY <1>1, <1>2, <1>6
    <2>2. \A l \in 1..Len(s) : Fold(s[l]) = Fold(t[l])
      <3> TAKE l \in 1..Len(s)
      <3>1. (s \o d)[l] = s[l] /\ (t \o e)[l] = t[l]
        BY <1>1, <2>1
      <3>2. l \in 1..(Len(s) + Len(d))
        BY <1>1
      <3> QED
        BY <1>3, <3>1, <3>2, Zenon
    <2> QED
      BY <2>1, <2>2 DEF Folded
  <1> QED
    BY <1>5, <1>6

\* A plain joined name has plain parts.
LEMMA PlainParts ==
    ASSUME NEW s \in Seq(Label), NEW d \in Seq(Label), IsPlain(s \o d)
    PROVE  IsPlain(s) /\ IsPlain(d)
  <1>1. \A l \in DOMAIN s : l \in DOMAIN (s \o d) /\ (s \o d)[l] = s[l]
    OBVIOUS
  <1>2. \A l \in DOMAIN d :
           Len(s) + l \in DOMAIN (s \o d) /\ (s \o d)[Len(s) + l] = d[l]
    OBVIOUS
  <1> QED
    BY <1>1, <1>2, Zenon DEF IsPlain

\* The labels of a node's name.
LEMMA LabelsOf ==
    ASSUME TypeOK, ReferentialIntegrity, NEW i \in DOMAIN nodes
    PROVE  /\ nodes[i].name \in Name /\ nodes[i].network_id \in DOMAIN networks
           /\ Labels(nodes[i].name) \in Seq(Label) \ {<<>>}
           /\ Domain(nodes[i].network_id) \in Seq(Label) \ {<<>>}
  <1>1. /\ nodes[i].name \in Name /\ nodes[i].network_id \in NetworkId
        /\ nodes[i].network_id \in DOMAIN networks
    BY DEF TypeOK, NodeState, ReferentialIntegrity
  <1> QED
    BY <1>1, DnsAssumption, Zenon

\* What the parts of a node's name are, when names are kept.
LEMMA NameParts ==
    ASSUME TypeOK, ReferentialIntegrity, NamesKept, NEW i \in DOMAIN nodes
    PROVE  LET s == Labels(nodes[i].name)
               d == Domain(nodes[i].network_id)
           IN  /\ IsPlain(s) /\ normalize_name(s) = Folded(s)
               /\ normalize_name(d) = Folded(d)
               /\ normalize_name(dns_name(i)) = Folded(s \o d)
               /\ to_ascii(dns_name(i)) = dns_name(i)
  <1> DEFINE s == Labels(nodes[i].name)
             d == Domain(nodes[i].network_id)
  <1>1. s \in Seq(Label) \ {<<>>} /\ d \in Seq(Label) \ {<<>>}
    BY LabelsOf, Zenon
  <1>2. IsPlain(s \o d) /\ dns_name(i) = s \o d
    BY Zenon DEF NamesKept, dns_name
  <1> HIDE DEF s, d
  <1>3. IsPlain(s) /\ IsPlain(d)
    BY <1>1, <1>2, PlainParts
  <1>4. s \o d \in Seq(Label) \ {<<>>}
    BY <1>1
  <1>5. /\ normalize_name(s) = Folded(s) /\ normalize_name(d) = Folded(d)
        /\ normalize_name(s \o d) = Folded(s \o d) /\ to_ascii(s \o d) = s \o d
    BY <1>1, <1>2, <1>3, <1>4, NormalPlain, AskedPlain, Zenon
  <1> QED
    BY <1>2, <1>3, <1>5 DEF s, d

\* Nodes with one record are nodes of one network, and their names are one
\* to ensure_unique_node_name.
LEMMA OneKey ==
    ASSUME TypeOK, ReferentialIntegrity, NamesKept,
           NEW i \in DOMAIN nodes, NEW j \in DOMAIN nodes,
           normalize_name(dns_name(i)) = normalize_name(dns_name(j)),
           Len(Domain(nodes[j].network_id)) <= Len(Domain(nodes[i].network_id))
    PROVE  /\ nodes[i].network_id = nodes[j].network_id
           /\ Lower(nodes[i].name) = Lower(nodes[j].name)
  <1> DEFINE s == Labels(nodes[i].name)
             d == Domain(nodes[i].network_id)
             t == Labels(nodes[j].name)
             e == Domain(nodes[j].network_id)
  <1>1. /\ s \in Seq(Label) \ {<<>>} /\ d \in Seq(Label) \ {<<>>}
        /\ t \in Seq(Label) \ {<<>>} /\ e \in Seq(Label) \ {<<>>}
    BY LabelsOf, Zenon
  <1>2. /\ IsPlain(s) /\ normalize_name(s) = Folded(s)
        /\ normalize_name(d) = Folded(d)
        /\ normalize_name(dns_name(i)) = Folded(s \o d)
    BY NameParts, Zenon
  <1>3. /\ IsPlain(t) /\ normalize_name(t) = Folded(t)
        /\ normalize_name(e) = Folded(e)
        /\ normalize_name(dns_name(j)) = Folded(t \o e)
    BY NameParts, Zenon
  <1>4. Folded(s \o d) = Folded(t \o e) /\ Len(e) <= Len(d)
    BY <1>2, <1>3, Zenon
  <1>5. within(Folded(d), Folded(e)) /\ (d = e => Folded(s) = Folded(t))
    <2> HIDE DEF s, d, t, e
    <2> QED
      BY <1>1, <1>4, JoinedAlike
  <1>6. nodes[i].network_id = nodes[j].network_id
    <2>1. /\ nodes[i].network_id \in DOMAIN networks
          /\ nodes[j].network_id \in DOMAIN networks
      BY LabelsOf, Zenon
    <2>2. within(normalize_name(d), normalize_name(e))
      BY <1>2, <1>3, <1>5, Zenon
    <2> QED
      BY <2>1, <2>2, Zenon DEF NamesKept
  <1>7. normalize_name(s) = normalize_name(t)
    BY <1>2, <1>3, <1>5, <1>6, Zenon
  <1>8. nodes[i].name \in Name /\ nodes[j].name \in Name
    BY LabelsOf, Zenon
  <1>9. Lower(nodes[i].name) = Lower(nodes[j].name)
    BY <1>2, <1>3, <1>7, <1>8, DnsAssumption, Zenon
  <1> QED
    BY <1>6, <1>9, Zenon

\* The nodes snapshot finds under the name of a node in service.
LEMMA OneRecord ==
    ASSUME TypeOK, ReferentialIntegrity, NamesApart, NamesKept,
           NEW i \in DOMAIN nodes, effective_node_status(i)
    PROVE  snapshot(normalize_name(to_ascii(dns_name(i)))) = {i}
  <1>1. to_ascii(dns_name(i)) = dns_name(i)
    BY NameParts, Zenon
  <1> DEFINE found == snapshot(normalize_name(dns_name(i)))
  <1>2. i \in found
    BY Zenon DEF snapshot, effective_node_status, ReferentialIntegrity
  <1>3. ASSUME NEW j \in found PROVE j = i
    <2>1. /\ j \in DOMAIN nodes /\ ~nodes[j].revoked
          /\ normalize_name(dns_name(j)) = normalize_name(dns_name(i))
      BY <1>3, Zenon DEF snapshot
    <2>2. \/ Len(Domain(nodes[j].network_id)) <= Len(Domain(nodes[i].network_id))
          \/ Len(Domain(nodes[i].network_id)) <= Len(Domain(nodes[j].network_id))
      <3>1. \A d, e \in Seq(Label) : Len(d) <= Len(e) \/ Len(e) <= Len(d)
        OBVIOUS
      <3> QED
        BY <2>1, <3>1, LabelsOf, Zenon
    <2>3. /\ nodes[i].network_id = nodes[j].network_id
          /\ Lower(nodes[i].name) = Lower(nodes[j].name)
      BY <2>1, <2>2, OneKey, Zenon
    <2>4. ~Reinstated(i) /\ ~Reinstated(j)
      BY <2>1, Zenon DEF NamesKept, Reinstated
    <2>5. ~Clash(i, j)
      BY <2>1, <2>4, Zenon DEF NamesApart
    <2> QED
      BY <2>1, <2>3, <2>5, Zenon DEF Clash, effective_node_status
  <1>4. found = {i}
    BY <1>2, <1>3, Zenon
  <1> QED
    BY <1>1, <1>4, Zenon

\* What the record of a node answers.
LEMMA RecordAnswers ==
    ASSUME NEW i
    PROVE  /\ answers(i, "A") = {<<"A", nodes[i].ipv4>>}
           /\ answers(i, "AAAA") = {<<"AAAA", nodes[i].ipv6>>}
  BY Zenon DEF answers

LEMMA Resolves == TypeOK /\ ReferentialIntegrity /\ NamesApart => NamesResolve
  <1> SUFFICES ASSUME TypeOK, ReferentialIntegrity, NamesApart, NamesKept,
                      NEW i \in DOMAIN nodes, effective_node_status(i)
               PROVE  /\ build_response(dns_name(i), "A") =
                         {[code |-> "NoError", answers |-> {<<"A", nodes[i].ipv4>>}]}
                      /\ build_response(dns_name(i), "AAAA") =
                         {[code |-> "NoError",
                           answers |-> {<<"AAAA", nodes[i].ipv6>>}]}
    BY Zenon DEF NamesResolve
  <1> DEFINE key == normalize_name(to_ascii(dns_name(i)))
  <1>1. \A type : build_response(dns_name(i), type) =
                      {response(key, answers(i, type))}
    <2>1. snapshot(key) = {i}
      BY OneRecord
    <2> QED
      BY <2>1, ZenonT(30) DEF build_response
  <1>2. \A name, x : response(name, {x}) = [code |-> "NoError", answers |-> {x}]
    BY DEF response
  <1>3. \A type, x : answers(i, type) = {x} =>
           build_response(dns_name(i), type) = {[code |-> "NoError", answers |-> {x}]}
    BY <1>1, <1>2, ZenonT(30)
  <1>4. answers(i, "A") = {<<"A", nodes[i].ipv4>>}
    BY RecordAnswers
  <1>5. answers(i, "AAAA") = {<<"AAAA", nodes[i].ipv6>>}
    BY RecordAnswers
  <1>6. build_response(dns_name(i), "A") =
           {[code |-> "NoError", answers |-> {<<"A", nodes[i].ipv4>>}]}
    BY <1>3, <1>4, Zenon
  <1>7. build_response(dns_name(i), "AAAA") =
           {[code |-> "NoError", answers |-> {<<"AAAA", nodes[i].ipv6>>}]}
    BY <1>3, <1>5, Zenon
  <1> QED
    BY <1>6, <1>7, Zenon

\* The name a netmap gives of a node in service resolves to that node, for
\* any number of nodes and networks and any names, as long as no revoked
\* node was taken back, names are plain and no domain lies within another.
THEOREM NamesLeadToNodes == Spec => []NamesResolve
  <1>1. Init => NamesApart
    BY DEF Init, NamesApart
  <1> QED
    BY <1>1, NamesApartStep, Resolves, TypeCorrect, NoOrphans, AuditAccounts, PTL
       DEF Spec

=============================================================================
