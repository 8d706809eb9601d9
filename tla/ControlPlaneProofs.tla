------------------------- MODULE ControlPlaneProofs -------------------------
(***************************************************************************)
(* Theorems about ControlPlane, for every value of its constants: its      *)
(* types, its tokens, its names of networks, and the addresses it hands    *)
(* out.                                                                    *)
(***************************************************************************)
EXTENDS ControlPlane, TLAPS

-----------------------------------------------------------------------------
(* Maps and key histories.                                                 *)

\* revoke_key_record keeps the length and the types of the history.
LEMMA RevokeType ==
    ASSUME NEW h \in Seq(KeyRecord), NEW type, NEW k
    PROVE  revoke_key_record(h, type, k) \in Seq(KeyRecord)
  <1>1. DOMAIN h = 1..Len(h) /\ Len(h) \in Nat
    OBVIOUS
  <1>2. \A r \in 1..Len(h) : h[r] \in KeyRecord
    OBVIOUS
  <1>3. \A r \in 1..Len(h) : revoke_key_record(h, type, k)[r] \in KeyRecord
    BY <1>1, <1>2, Zenon DEF revoke_key_record, KeyRecord
  <1>4. DOMAIN revoke_key_record(h, type, k) = 1..Len(h)
    BY <1>1 DEF revoke_key_record
  <1> HIDE DEF KeyRecord
  <1>5. revoke_key_record(h, type, k) = [r \in 1..Len(h) |-> revoke_key_record(h, type, k)[r]]
    BY <1>1 DEF revoke_key_record
  <1> QED
    BY <1>1, <1>3, <1>5

\* An update in place keeps the keys and the type of a map.
LEMMA UpdateFacts ==
    ASSUME NEW S, NEW f, f \in [DOMAIN f -> S], NEW k \in DOMAIN f, NEW v \in S
    PROVE  /\ DOMAIN [f EXCEPT ![k] = v] = DOMAIN f
           /\ [f EXCEPT ![k] = v] \in [DOMAIN f -> S]
           /\ [f EXCEPT ![k] = v][k] = v
           /\ \A x \in DOMAIN f : x # k => [f EXCEPT ![k] = v][x] = f[x]
  OBVIOUS

-----------------------------------------------------------------------------
(* The records the handlers build.                                         *)

\* create_network builds a well-typed NetworkState.
LEMMA NetworkStateType ==
    ASSUME NEW c4 \in Cidr4, NEW c6 \in Cidr6, NEW approval \in BOOLEAN,
           NEW age \in Age \cup {None}
    PROVE  network_state(c4, c6, approval, age) \in NetworkState
  <1>1. /\ initial_ipv4_offset(c4) \in Nat
        /\ initial_ipv6_offset(c6) \in Nat
    BY DEF initial_ipv4_offset, initial_ipv6_offset
  <1> QED
    BY <1>1, ValueAssumption DEF network_state, NetworkState

\* allocate_node_ips moves the offsets and leaves the prefixes alone.
LEMMA AllocateFacts ==
    ASSUME NEW net \in NetworkState
    PROVE  /\ allocate_node_ips(net) \in NetworkState
           /\ allocate_node_ips(net).overlay_v4 = net.overlay_v4
           /\ allocate_node_ips(net).overlay_v6 = net.overlay_v6
           /\ allocate_node_ips(net).next_ipv4 = net.next_ipv4 + 1
           /\ allocate_node_ips(net).next_ipv6 =
                 IF ipv6_left(net) THEN net.next_ipv6 + 1 ELSE net.next_ipv6
  <1>1. /\ net.next_ipv4 + 1 \in Nat /\ net.next_ipv6 + 1 \in Nat
    BY DEF NetworkState
  <1>2. CASE ipv6_left(net)
    <2>1. allocate_node_ips(net) =
            [net EXCEPT !.next_ipv4 = net.next_ipv4 + 1,
                        !.next_ipv6 = net.next_ipv6 + 1]
      BY <1>2 DEF allocate_node_ips, NetworkState
    <2> QED
      BY <1>1, <1>2, <2>1, Zenon DEF NetworkState
  <1>3. CASE ~ipv6_left(net)
    <2>1. allocate_node_ips(net) =
            [net EXCEPT !.next_ipv4 = net.next_ipv4 + 1]
      BY <1>3 DEF allocate_node_ips, NetworkState
    <2> QED
      BY <1>1, <1>3, <2>1 DEF NetworkState
  <1> QED
    BY <1>2, <1>3

\* A cast gives an integer.
LEMMA CastType == ASSUME NEW x \in Nat PROVE as_i64(x) \in Int
  <1>1. 2^WIDTH \in Int /\ 2^(WIDTH - 1) \in Int
    BY WidthAssumption
  <1> QED
    BY <1>1 DEF as_i64

\* build_token builds a well-typed TokenState.
LEMMA TokenType ==
    ASSUME TypeOK, NEW n \in NetworkId, NEW ttl \in Nat, NEW uses \in Nat,
           NEW tags \in SUBSET Tag
    PROVE  build_token(n, ttl, uses, tags) \in TokenState
  <1>1. as_i64(clock + ttl) \in Int
    BY CastType DEF TypeOK
  <1> QED
    BY <1>1 DEF build_token, TokenState

\* A new key record is well typed.
LEMMA KeyRecordType ==
    ASSUME NEW type \in KeyType, NEW k \in Key, NEW t \in Nat
    PROVE  key_record(type, k, t) \in KeyRecord
  BY DEF key_record, KeyRecord

\* register and register_url build a well-typed NodeState.
LEMMA NodeStateType ==
    ASSUME TypeOK, NEW n \in DOMAIN networks, NEW name \in Name,
           NEW m \in Key, NEW w \in Key, NEW tags \in SUBSET Tag,
           NEW approved \in BOOLEAN, NEW auth \in Int \cup {None},
           NEW t \in Nat
    PROVE  node_state(n, name, m, w, tags, approved, auth, t) \in NodeState
  <1>1. /\ networks[n].overlay_v4 \in Cidr4 /\ networks[n].overlay_v6 \in Cidr6
        /\ networks[n].next_ipv4 \in Nat /\ networks[n].next_ipv6 \in Nat
        /\ n \in NetworkId
    BY DEF TypeOK, NetworkState
  <1>2. /\ net_base(networks[n].overlay_v4) + networks[n].next_ipv4 \in Nat
        /\ net_base(networks[n].overlay_v6) + networks[n].next_ipv6 \in Nat
    BY <1>1, CidrAssumption
  <1>3. <<key_record("machine", m, t), key_record("wireguard", w, t)>>
            \in Seq(KeyRecord)
    BY KeyRecordType DEF KeyType
  <1> QED
    BY <1>1, <1>2, <1>3, ValueAssumption DEF node_state, NodeState

\* The first half of rotate_keys keeps the type of the node.
LEMMA RotateMachineType ==
    ASSUME NEW node \in NodeState, NEW m \in Key \cup {None}, NEW t \in Nat
    PROVE  rotate_machine(node, m, t) \in NodeState
  <1>1. CASE m = None
    BY <1>1 DEF rotate_machine
  <1>2. CASE m # None
    <2>1. node.key_history \in Seq(KeyRecord) /\ m \in Key
      BY <1>2 DEF NodeState
    <2>2. revoke_key_record(node.key_history, "machine",
                            node.machine_public_key) \in Seq(KeyRecord)
      BY <2>1, RevokeType
    <2>3. key_record("machine", m, t) \in KeyRecord
      BY <2>1, KeyRecordType DEF KeyType
    <2>4. Append(revoke_key_record(node.key_history, "machine",
                                   node.machine_public_key),
                 key_record("machine", m, t)) \in Seq(KeyRecord)
      BY <2>2, <2>3
    <2> QED
      BY <1>2, <2>1, <2>4, Zenon DEF rotate_machine, NodeState
  <1> QED
    BY <1>1, <1>2

\* The second half of rotate_keys keeps the type of the node.
LEMMA RotateWgType ==
    ASSUME NEW node \in NodeState, NEW w \in Key \cup {None}, NEW t \in Nat
    PROVE  rotate_wg(node, w, t) \in NodeState
  <1>1. CASE w = None
    BY <1>1 DEF rotate_wg
  <1>2. CASE w # None
    <2>1. node.key_history \in Seq(KeyRecord) /\ w \in Key
      BY <1>2 DEF NodeState
    <2>2. revoke_key_record(node.key_history, "wireguard",
                            node.wg_public_key) \in Seq(KeyRecord)
      BY <2>1, RevokeType
    <2>3. key_record("wireguard", w, t) \in KeyRecord
      BY <2>1, KeyRecordType DEF KeyType
    <2>4. Append(revoke_key_record(node.key_history, "wireguard",
                                   node.wg_public_key),
                 key_record("wireguard", w, t)) \in Seq(KeyRecord)
      BY <2>2, <2>3
    <2> QED
      BY <1>2, <2>1, <2>4, Zenon DEF rotate_wg, NodeState
  <1> QED
    BY <1>1, <1>2

-----------------------------------------------------------------------------
(* Type correctness.                                                       *)

\* Commit and Abandon keep the type of the revision.
LEMMA RevisionType ==
    ASSUME TypeOK, Commit \/ Abandon
    PROVE  revision' \in Nat
  BY DEF TypeOK, Commit, Abandon

\* A handler that only rewrites one node keeps the types.
LEMMA NodeUpdateType ==
    ASSUME TypeOK, NEW i \in DOMAIN nodes, NEW node \in NodeState,
           nodes' = [nodes EXCEPT ![i] = node],
           UNCHANGED <<networks, tokens, clock, credit>>,
           Commit \/ Abandon, audit_log' \subseteq AuditEntry
    PROVE  TypeOK'
  <1>1. DOMAIN nodes' \subseteq NodeId /\ nodes' \in [DOMAIN nodes' -> NodeState]
    BY UpdateFacts DEF TypeOK
  <1> QED
    BY <1>1, RevisionType DEF TypeOK

\* A handler that only rewrites one network keeps the types.
LEMMA NetworkUpdateType ==
    ASSUME TypeOK, NEW n \in DOMAIN networks, NEW net \in NetworkState,
           networks' = [networks EXCEPT ![n] = net],
           UNCHANGED <<nodes, tokens, clock, credit>>,
           Commit \/ Abandon, audit_log' \subseteq AuditEntry
    PROVE  TypeOK'
  <1>1. /\ DOMAIN networks' \subseteq NetworkId
        /\ networks' \in [DOMAIN networks' -> NetworkState]
    BY UpdateFacts DEF TypeOK
  <1> QED
    BY <1>1, RevisionType DEF TypeOK

\* create_network keeps the types, with a bootstrap token or without and
\* when the token is refused.
LEMMA CreateNetworkType ==
    ASSUME TypeOK, NEW n \in NetworkId, NEW c4 \in Cidr4, NEW c6 \in Cidr6,
           NEW approval \in BOOLEAN, NEW age \in Age \cup {None},
           NEW ttl \in Ttl \cup {None}, NEW uses \in 0..MaxUses,
           NEW tags \in SUBSET Tag,
           create_network(n, c4, c6, approval, age, ttl, uses, tags)
    PROVE  TypeOK'
  <1>1. network_state(c4, c6, approval, age) \in NetworkState
    BY NetworkStateType
  <1>2. /\ DOMAIN networks' \subseteq NetworkId
        /\ networks' \in [DOMAIN networks' -> NetworkState]
    <2>1. networks' = Insert(networks, n, network_state(c4, c6, approval, age))
      BY DEF create_network
    <2> QED
      BY <1>1, <2>1 DEF TypeOK, Insert
  <1>3. audit_log' \subseteq AuditEntry
    BY DEF create_network, Audit, AuditEntry, AuditAction, TypeOK
  <1>4. revision' \in Nat
    BY RevisionType DEF create_network
  <1>5. /\ DOMAIN tokens' \subseteq TokenId
        /\ tokens' \in [DOMAIN tokens' -> TokenState]
        /\ DOMAIN credit' \subseteq TokenId
        /\ credit' \in [DOMAIN credit' -> Int]
    <2>1. CASE UNCHANGED <<tokens, credit>>
      BY <2>1 DEF TypeOK
    <2>2. CASE /\ ttl # None
               /\ \E k \in TokenId :
                    /\ tokens' = Insert(tokens, k,
                                        build_token(n, ttl, uses, tags))
                    /\ credit' = Insert(credit, k, uses)
      <3>1. ttl \in Nat /\ uses \in Nat
        BY <2>2, BoundsAssumption
      <3>2. build_token(n, ttl, uses, tags) \in TokenState
        BY <3>1, TokenType
      <3>3. PICK k \in TokenId :
                /\ tokens' = Insert(tokens, k, build_token(n, ttl, uses, tags))
                /\ credit' = Insert(credit, k, uses)
        BY <2>2
      <3>4. /\ DOMAIN tokens' \subseteq TokenId
            /\ tokens' \in [DOMAIN tokens' -> TokenState]
        BY <3>2, <3>3 DEF TypeOK, Insert
      <3>5. uses \in Int
        BY <3>1
      <3>6. /\ DOMAIN credit' \subseteq TokenId
            /\ credit' \in [DOMAIN credit' -> Int]
        BY <3>5, <3>3 DEF TypeOK, Insert
      <3> QED
        BY <3>4, <3>6
    <2> QED
      BY <2>1, <2>2 DEF create_network
  <1> QED
    BY <1>2, <1>3, <1>4, <1>5 DEF TypeOK, create_network

\* create_token keeps the types.
LEMMA CreateTokenType ==
    ASSUME TypeOK, NEW k \in TokenId, NEW n \in NetworkId, NEW ttl \in Ttl,
           NEW uses \in 0..MaxUses, NEW tags \in SUBSET Tag,
           create_token(k, n, ttl, uses, tags)
    PROVE  TypeOK'
  <1>1. ttl \in Nat /\ uses \in Nat /\ uses \in Int
    BY BoundsAssumption
  <1>2. build_token(n, ttl, uses, tags) \in TokenState
    BY <1>1, TokenType
  <1>3. /\ DOMAIN tokens' \subseteq TokenId
        /\ tokens' \in [DOMAIN tokens' -> TokenState]
    BY <1>2 DEF create_token, TypeOK, Insert
  <1>4. /\ DOMAIN credit' \subseteq TokenId
        /\ credit' \in [DOMAIN credit' -> Int]
    BY <1>1 DEF create_token, TypeOK, Insert
  <1>5. audit_log' \subseteq AuditEntry
    BY DEF create_token, Audit, AuditEntry, AuditAction, TypeOK
  <1> QED
    BY <1>3, <1>4, <1>5, RevisionType DEF create_token, TypeOK

\* register takes a use of its token and keeps the types, with an address
\* or after an allocation that failed half way.
LEMMA RegisterType ==
    ASSUME TypeOK, NEW i \in NodeId, NEW k \in TokenId, NEW name \in Name,
           NEW m \in Key, NEW w \in Key, NEW t \in Stamp,
           register(i, k, name, m, w, t)
    PROVE  TypeOK'
  <1> DEFINE n == tokens[k].network_id
             node == node_state(n, name, m, w, tokens[k].tags,
                                ~networks[n].requires_approval, None, t)
  <1>1. /\ k \in DOMAIN tokens /\ tokens[k] \in TokenState
        /\ n \in DOMAIN networks /\ n \in NetworkId
        /\ networks[n] \in NetworkState
        /\ t \in Nat /\ clock' = clock
        /\ networks' = [networks EXCEPT ![n] = allocate_node_ips(networks[n])]
    BY DEF register, token_valid, TypeOK, Stamp
  <1>2. /\ DOMAIN networks' \subseteq NetworkId
        /\ networks' \in [DOMAIN networks' -> NetworkState]
    BY <1>1, AllocateFacts, Zenon DEF TypeOK
  <1>3. CASE /\ nodes' = Insert(nodes, i, node)
             /\ tokens' = use_token(k)
             /\ credit' = [credit EXCEPT ![k] = @ - 1]
             /\ Audit("node.register", n, i)
             /\ Commit
    <2>1. tokens[k].tags \in SUBSET Tag /\ tokens[k].uses_left \in Nat
      BY <1>1 DEF TokenState
    <2>2. node \in NodeState
      BY <1>1, <2>1, NodeStateType, Zenon
    <2>3. DOMAIN nodes' \subseteq NodeId /\ nodes' \in [DOMAIN nodes' -> NodeState]
      BY <1>3, <2>2 DEF TypeOK, Insert
    <2>4. /\ DOMAIN tokens' \subseteq TokenId
          /\ tokens' \in [DOMAIN tokens' -> TokenState]
      <3>1. CASE tokens[k].uses_left <= 1
        BY <1>3, <3>1 DEF use_token, Remove, TypeOK
      <3>2. CASE ~(tokens[k].uses_left <= 1)
        <4>1. [tokens[k] EXCEPT !.uses_left = tokens[k].uses_left - 1]
                \in TokenState
          BY <1>1, <2>1, <3>2 DEF TokenState
        <4>2. tokens' = [tokens EXCEPT ![k] =
                [tokens[k] EXCEPT !.uses_left = tokens[k].uses_left - 1]]
          BY <1>3, <3>2 DEF use_token
        <4> QED
          BY <1>1, <4>1, <4>2, UpdateFacts DEF TypeOK
      <3> QED
        BY <3>1, <3>2
    <2>5. /\ DOMAIN credit' \subseteq TokenId
          /\ credit' \in [DOMAIN credit' -> Int]
      <3>1. CASE k \in DOMAIN credit
        BY <1>3, <3>1 DEF TypeOK
      <3>2. CASE k \notin DOMAIN credit
        BY <1>3, <3>2, Zenon DEF TypeOK
      <3> QED
        BY <3>1, <3>2
    <2>6. audit_log' \subseteq AuditEntry
      BY <1>1, <1>3 DEF Audit, AuditEntry, AuditAction, TypeOK
    <2> QED
      BY <1>1, <1>2, <1>3, <2>3, <2>4, <2>5, <2>6, RevisionType, Zenon DEF TypeOK
  <1>4. CASE Abandon /\ UNCHANGED <<nodes, tokens, credit, audit_log>>
    BY <1>1, <1>2, <1>4, RevisionType DEF TypeOK
  <1> QED
    BY <1>3, <1>4 DEF register

\* register_url keeps the types.
LEMMA RegisterUrlType ==
    ASSUME TypeOK, NEW i \in NodeId, NEW n \in NetworkId, NEW name \in Name,
           NEW m \in Key, NEW w \in Key, NEW ttl \in Ttl, NEW t \in Stamp,
           register_url(i, n, name, m, w, ttl, t)
    PROVE  TypeOK'
  <1> DEFINE node == node_state(n, name, m, w, {}, FALSE, as_i64(t + ttl), t)
  <1>1. /\ n \in DOMAIN networks /\ networks[n] \in NetworkState
        /\ t \in Nat /\ t + ttl \in Nat
        /\ networks' = [networks EXCEPT ![n] = allocate_node_ips(networks[n])]
        /\ UNCHANGED <<tokens, credit, clock>>
    BY BoundsAssumption DEF register_url, TypeOK, Stamp
  <1>2. /\ DOMAIN networks' \subseteq NetworkId
        /\ networks' \in [DOMAIN networks' -> NetworkState]
    BY <1>1, AllocateFacts DEF TypeOK
  <1>3. CASE /\ nodes' = Insert(nodes, i, node)
             /\ Audit("node.register_url", n, i)
             /\ Commit
    <2>1. node \in NodeState
      BY <1>1, CastType, NodeStateType, Zenon
    <2>2. DOMAIN nodes' \subseteq NodeId /\ nodes' \in [DOMAIN nodes' -> NodeState]
      BY <1>3, <2>1, Zenon DEF TypeOK, Insert
    <2>3. audit_log' \subseteq AuditEntry
      BY <1>1, <1>3 DEF Audit, AuditEntry, AuditAction, TypeOK
    <2> QED
      BY <1>1, <1>2, <1>3, <2>2, <2>3, RevisionType, Zenon DEF TypeOK
  <1>4. CASE Abandon /\ UNCHANGED <<nodes, audit_log>>
    BY <1>1, <1>2, <1>4, RevisionType DEF TypeOK
  <1> QED
    BY <1>3, <1>4, Zenon DEF register_url

\* approve_node_secret and approve_node rewrite one node, if at all.
LEMMA ApproveType ==
    ASSUME TypeOK, NEW i \in NodeId,
           \/ \E t \in Stamp : approve_node_secret(i, t)
           \/ approve_node(i)
    PROVE  TypeOK'
  <1>1. /\ i \in DOMAIN nodes /\ Commit
        /\ UNCHANGED <<networks, tokens, clock, credit>>
        /\ \/ UNCHANGED <<nodes, audit_log>>
           \/ /\ nodes' = set_approved(i)
              /\ Audit("node.approve", nodes[i].network_id, i)
    BY DEF approve_node_secret, approve_node
  <1>2. CASE UNCHANGED <<nodes, audit_log>>
    BY <1>1, <1>2, RevisionType DEF TypeOK
  <1>3. CASE /\ nodes' = set_approved(i)
             /\ Audit("node.approve", nodes[i].network_id, i)
    <2> DEFINE node == [nodes[i] EXCEPT !.approved = TRUE,
                                        !.auth_expires_at = None]
    <2>1. nodes[i] \in NodeState
      BY <1>1 DEF TypeOK
    <2>2. node \in NodeState
      BY <2>1, Zenon DEF NodeState
    <2>3. nodes' = [nodes EXCEPT ![i] = node]
      BY <1>1, <1>3, <2>1, Zenon DEF set_approved, NodeState, TypeOK
    <2>4. audit_log' \subseteq AuditEntry
      BY <1>3, <2>1 DEF Audit, AuditEntry, AuditAction, TypeOK, NodeState
    <2> QED
      BY <1>1, <2>2, <2>3, <2>4, NodeUpdateType, Zenon
  <1> QED
    BY <1>1, <1>2, <1>3

\* update_node rewrites one node.
LEMMA UpdateNodeType ==
    ASSUME TypeOK, NEW i \in NodeId, NEW name \in Name \cup {None},
           NEW tags \in (SUBSET Tag) \cup {None}, update_node(i, name, tags)
    PROVE  TypeOK'
  <1> DEFINE next_name == IF name = None THEN nodes[i].name ELSE name
             next_tags == IF tags = None THEN nodes[i].tags ELSE tags
             node == [nodes[i] EXCEPT !.name = next_name, !.tags = next_tags]
  <1>1. /\ i \in DOMAIN nodes /\ Commit /\ nodes[i] \in NodeState
        /\ UNCHANGED <<networks, tokens, clock, credit>>
    BY DEF update_node, TypeOK
  <1>2. next_name \in Name /\ next_tags \in SUBSET Tag
    BY <1>1 DEF NodeState
  <1>3. node \in NodeState
    BY <1>1, <1>2, Zenon DEF NodeState
  <1>4. nodes' = [nodes EXCEPT ![i] = node]
    BY <1>1, Zenon DEF update_node, TypeOK, NodeState
  <1>5. audit_log' \subseteq AuditEntry
    BY <1>1 DEF update_node, Audit, AuditEntry, AuditAction, TypeOK, NodeState
  <1> HIDE DEF node
  <1> QED
    BY <1>1, <1>3, <1>4, <1>5, NodeUpdateType, Zenon

\* rotate_keys rewrites one node, whole or half.
LEMMA RotateKeysType ==
    ASSUME TypeOK, NEW i \in NodeId, NEW m \in Key \cup {None},
           NEW w \in Key \cup {None}, NEW t \in Stamp, rotate_keys(i, m, w, t)
    PROVE  TypeOK'
  <1> DEFINE half == rotate_machine(nodes[i], m, t)
             full == rotate_wg(half, w, t)
             node == [full EXCEPT !.revoked = FALSE]
  <1>1. /\ i \in DOMAIN nodes /\ nodes[i] \in NodeState /\ t \in Nat
        /\ UNCHANGED <<networks, tokens, clock, credit>>
    BY DEF rotate_keys, TypeOK, Stamp
  <1>2. half \in NodeState
    BY <1>1, RotateMachineType
  <1>3. full \in NodeState
    BY <1>1, <1>2, RotateWgType
  <1>4. node \in NodeState
    BY <1>3, Zenon DEF NodeState
  <1>5. \/ /\ nodes' = [nodes EXCEPT ![i] = node] /\ Commit
           /\ Audit("keys.rotate", nodes[i].network_id, i)
        \/ /\ nodes' = [nodes EXCEPT ![i] = half] /\ Abandon
           /\ UNCHANGED audit_log
    BY <1>1 DEF rotate_keys
  <1>6. audit_log' \subseteq AuditEntry
    BY <1>1, <1>5 DEF Audit, AuditEntry, AuditAction, TypeOK, NodeState
  <1> HIDE DEF node, half, full
  <1> QED
    BY <1>1, <1>2, <1>4, <1>5, <1>6, NodeUpdateType

\* revoke_node rewrites one node.
LEMMA RevokeNodeType ==
    ASSUME TypeOK, NEW i \in NodeId, revoke_node(i)
    PROVE  TypeOK'
  <1> DEFINE node == [nodes[i] EXCEPT
                        !.revoked = TRUE,
                        !.key_history = revoke_current_keys(nodes[i])]
  <1>1. /\ i \in DOMAIN nodes /\ nodes[i] \in NodeState /\ Commit
        /\ UNCHANGED <<networks, tokens, clock, credit>>
    BY DEF revoke_node, TypeOK
  <1>2. revoke_current_keys(nodes[i]) \in Seq(KeyRecord)
    <2>1. nodes[i].key_history \in Seq(KeyRecord)
      BY <1>1 DEF NodeState
    <2>2. revoke_key_record(nodes[i].key_history, "machine",
                            nodes[i].machine_public_key) \in Seq(KeyRecord)
      BY <2>1, RevokeType
    <2> QED
      BY <2>2, RevokeType DEF revoke_current_keys
  <1>3. node \in NodeState
    BY <1>1, <1>2, Zenon DEF NodeState
  <1>4. nodes' = [nodes EXCEPT ![i] = node]
    BY <1>1, Zenon DEF revoke_node, TypeOK, NodeState
  <1>5. audit_log' \subseteq AuditEntry
    BY <1>1 DEF revoke_node, Audit, AuditEntry, AuditAction, TypeOK, NodeState
  <1> HIDE DEF node
  <1> QED
    BY <1>1, <1>3, <1>4, <1>5, NodeUpdateType, Zenon

\* heartbeat rewrites one node.
LEMMA HeartbeatType ==
    ASSUME TypeOK, NEW i \in NodeId, NEW report \in Report,
           NEW probe \in BOOLEAN, NEW t \in Stamp,
           heartbeat(i, report, probe, t)
    PROVE  TypeOK'
  <1> DEFINE at == IF probe THEN t ELSE nodes[i].probe_requested_at
             node == [nodes[i] EXCEPT !.report = report,
                                      !.probe_requested_at = at]
  <1>1. /\ i \in DOMAIN nodes /\ nodes[i] \in NodeState /\ Commit
        /\ UNCHANGED <<networks, tokens, clock, credit, audit_log>>
        /\ t \in Nat
    BY DEF heartbeat, TypeOK, Stamp
  <1>2. at \in Nat \cup {None}
    BY <1>1 DEF NodeState
  <1>3. node \in NodeState
    BY <1>1, <1>2, Zenon DEF NodeState
  <1>4. nodes' = [nodes EXCEPT ![i] = node]
    BY <1>1, Zenon DEF heartbeat, TypeOK, NodeState
  <1>5. audit_log' \subseteq AuditEntry
    BY <1>1 DEF TypeOK
  <1> HIDE DEF node
  <1> QED
    BY <1>1, <1>3, <1>4, <1>5, NodeUpdateType, Zenon

\* update_acl and update_key_policy rewrite one network.
LEMMA PolicyType ==
    ASSUME TypeOK, NEW n \in NetworkId,
           \/ \E policy \in Acl : update_acl(n, policy)
           \/ \E age \in Age \cup {None} : update_key_policy(n, age)
    PROVE  TypeOK'
  <1>1. /\ n \in DOMAIN networks /\ networks[n] \in NetworkState /\ Commit
        /\ UNCHANGED <<nodes, tokens, clock, credit>>
    BY DEF update_acl, update_key_policy, TypeOK
  <1>2. audit_log' \subseteq AuditEntry
    BY DEF update_acl, update_key_policy, Audit, AuditEntry, AuditAction, TypeOK
  <1>3. ASSUME NEW policy \in Acl, update_acl(n, policy)
        PROVE  TypeOK'
    <2> DEFINE net == [networks[n] EXCEPT !.acl = policy]
    <2>1. net \in NetworkState
      BY <1>1 DEF NetworkState
    <2>2. networks' = [networks EXCEPT ![n] = net]
      BY <1>3 DEF update_acl
    <2> HIDE DEF net
    <2> QED
      BY <1>1, <1>2, <2>1, <2>2, NetworkUpdateType, Zenon
  <1>4. ASSUME NEW age \in Age \cup {None}, update_key_policy(n, age)
        PROVE  TypeOK'
    <2> DEFINE net == [networks[n] EXCEPT !.max_age = age]
    <2>1. net \in NetworkState
      BY <1>1 DEF NetworkState
    <2>2. networks' = [networks EXCEPT ![n] = net]
      BY <1>4 DEF update_key_policy
    <2> HIDE DEF net
    <2> QED
      BY <1>1, <1>2, <2>1, <2>2, NetworkUpdateType, Zenon
  <1> QED
    BY <1>3, <1>4

\* delete_network, delete_node, revoke_token and the clock keep the types.
LEMMA DeletionType ==
    ASSUME TypeOK,
           \/ \E n \in NetworkId : delete_network(n)
           \/ \E i \in NodeId : delete_node(i)
           \/ \E k \in TokenId : revoke_token(k)
           \/ tick
    PROVE  TypeOK'
  <1>1. ASSUME NEW n \in NetworkId, delete_network(n)
        PROVE  TypeOK'
    <2>1. /\ DOMAIN networks' \subseteq NetworkId
          /\ networks' \in [DOMAIN networks' -> NetworkState]
      BY <1>1 DEF delete_network, Remove, TypeOK
    <2>2. /\ DOMAIN tokens' \subseteq TokenId
          /\ tokens' \in [DOMAIN tokens' -> TokenState]
      BY <1>1 DEF delete_network, retain_tokens, TypeOK
    <2>3. audit_log' \subseteq AuditEntry
      BY <1>1 DEF delete_network, Audit, AuditEntry, AuditAction, TypeOK
    <2> QED
      BY <1>1, <2>1, <2>2, <2>3, RevisionType DEF delete_network, TypeOK
  <1>2. ASSUME NEW i \in NodeId, delete_node(i)
        PROVE  TypeOK'
    <2>1. /\ DOMAIN nodes' \subseteq NodeId
          /\ nodes' \in [DOMAIN nodes' -> NodeState]
      BY <1>2 DEF delete_node, Remove, TypeOK
    <2>2. i \in DOMAIN nodes /\ nodes[i] \in NodeState
      BY <1>2, Zenon DEF delete_node, TypeOK
    <2>3. audit_log' \subseteq AuditEntry
      BY <1>2, <2>2
      DEF delete_node, Audit, AuditEntry, AuditAction, TypeOK, NodeState
    <2> QED
      BY <1>2, <2>1, <2>3, RevisionType DEF delete_node, TypeOK
  <1>3. ASSUME NEW k \in TokenId, revoke_token(k)
        PROVE  TypeOK'
    <2> DEFINE token == [tokens[k] EXCEPT !.revoked = TRUE]
    <2>1. k \in DOMAIN tokens /\ tokens[k] \in TokenState
      BY <1>3 DEF revoke_token, TypeOK
    <2>2. token \in TokenState
      BY <2>1, Zenon DEF TokenState
    <2>3. tokens' = [tokens EXCEPT ![k] = token]
      BY <1>3 DEF revoke_token
    <2>4. audit_log' \subseteq AuditEntry
      BY <1>3, <2>1
      DEF revoke_token, Audit, AuditEntry, AuditAction, TypeOK, TokenState
    <2>5. /\ DOMAIN tokens' \subseteq TokenId
          /\ tokens' \in [DOMAIN tokens' -> TokenState]
      <3> HIDE DEF token
      <3> QED
        BY <2>1, <2>2, <2>3 DEF TypeOK
    <2> QED
      BY <1>3, <2>4, <2>5, RevisionType DEF revoke_token, TypeOK
  <1>4. ASSUME tick
        PROVE  TypeOK'
    BY <1>4 DEF tick, TypeOK
  <1> QED
    BY <1>1, <1>2, <1>3, <1>4

\* Every step of the control plane keeps the types.
LEMMA TypeStep == TypeOK /\ [Next]_vars => TypeOK'
  <1> SUFFICES ASSUME TypeOK, [Next]_vars PROVE TypeOK'
    OBVIOUS
  <1>1. CASE NetworkNext
    BY <1>1, CreateNetworkType, CreateTokenType, PolicyType, DeletionType, ZenonT(30)
    DEF NetworkNext
  <1>2. CASE EnrolNext
    BY <1>2, RegisterType, RegisterUrlType, ApproveType DEF EnrolNext
  <1>3. CASE NodeNext
    BY <1>3, ApproveType, UpdateNodeType, RotateKeysType, RevokeNodeType,
       DeletionType, HeartbeatType DEF NodeNext
  <1>4. CASE (\E k \in TokenId : revoke_token(k)) \/ tick
    BY <1>4, DeletionType
  <1>5. CASE read_state \/ UNCHANGED vars
    BY <1>5 DEF read_state, vars, TypeOK
  <1> QED
    BY <1>1, <1>2, <1>3, <1>4, <1>5 DEF Next

\* The initial state, State::default, is well typed.
LEMMA TypeInit == Init => TypeOK
  BY DEF Init, TypeOK

\* State and the records of model.rs keep their types in every behaviour.
THEOREM TypeCorrect == Spec => []TypeOK
  BY TypeInit, TypeStep, PTL DEF Spec

-----------------------------------------------------------------------------
(* Tokens.                                                                 *)

\* Why: the uses the server records for a token are the ones it has left.
TokenInv ==
    /\ DOMAIN tokens \subseteq DOMAIN credit
    /\ \A k \in DOMAIN tokens : tokens[k].uses_left = credit[k]
    /\ TokensNotOverdrawn

\* A step that adds no token and changes no uses keeps the ledger.
LEMMA SameUsesStep ==
    ASSUME TokenInv, UNCHANGED credit,
           DOMAIN tokens' \subseteq DOMAIN tokens,
           \A k \in DOMAIN tokens' : tokens'[k].uses_left = tokens[k].uses_left
    PROVE  TokenInv'
  BY DEF TokenInv, TokensNotOverdrawn

\* A new token has the uses it was asked for.
LEMMA NewTokenStep ==
    ASSUME TokenInv, NEW k, NEW n, NEW ttl, NEW uses \in Nat, NEW tags,
           FreshToken(k),
           tokens' = Insert(tokens, k, build_token(n, ttl, uses, tags)),
           credit' = Insert(credit, k, uses)
    PROVE  TokenInv'
  <1>1. build_token(n, ttl, uses, tags).uses_left = uses
    BY DEF build_token
  <1>2. /\ DOMAIN tokens' = DOMAIN tokens \cup {k}
        /\ DOMAIN credit' = DOMAIN credit \cup {k}
        /\ tokens'[k] = build_token(n, ttl, uses, tags) /\ credit'[k] = uses
        /\ \A j \in DOMAIN tokens : j # k => tokens'[j] = tokens[j]
        /\ \A j \in DOMAIN credit : j # k => credit'[j] = credit[j]
    BY DEF Insert
  <1> QED
    BY <1>1, <1>2 DEF TokenInv, TokensNotOverdrawn, FreshToken

\* register takes one use of a token that has one left, and removes the
\* token with its last use.
LEMMA UseTokenStep ==
    ASSUME TypeOK, TokenInv, NEW k \in DOMAIN tokens, tokens[k].uses_left # 0,
           tokens' = use_token(k), credit' = [credit EXCEPT ![k] = @ - 1]
    PROVE  TokenInv'
  <1>1. /\ tokens[k] \in TokenState /\ tokens[k].uses_left \in Nat
        /\ k \in DOMAIN credit /\ credit[k] = tokens[k].uses_left
    BY DEF TypeOK, TokenState, TokenInv
  <1>2. /\ DOMAIN credit' = DOMAIN credit /\ credit'[k] = credit[k] - 1
        /\ \A j \in DOMAIN credit : j # k => credit'[j] = credit[j]
    BY <1>1
  <1>3. TokensNotOverdrawn'
    BY <1>1, <1>2 DEF TokenInv, TokensNotOverdrawn
  <1>4. CASE tokens[k].uses_left <= 1
    BY <1>1, <1>2, <1>3, <1>4 DEF use_token, Remove, TokenInv
  <1>5. CASE ~(tokens[k].uses_left <= 1)
    <2>1. tokens' = [tokens EXCEPT ![k].uses_left = @ - 1]
      BY <1>5 DEF use_token
    <2>2. /\ DOMAIN tokens' = DOMAIN tokens
          /\ tokens'[k].uses_left = tokens[k].uses_left - 1
          /\ \A j \in DOMAIN tokens : j # k => tokens'[j] = tokens[j]
      BY <1>1, <2>1 DEF TokenState
    <2> QED
      BY <1>1, <1>2, <1>3, <2>2 DEF TokenInv
  <1> QED
    BY <1>4, <1>5

LEMMA NetworkTokenStep ==
    ASSUME TypeOK, TokenInv, NetworkNext
    PROVE  TokenInv'
  <1> USE BoundsAssumption
  <1>1. ASSUME NEW n \in NetworkId, NEW c4, NEW c6, NEW approval, NEW age,
               NEW ttl, NEW uses \in 0..MaxUses, NEW tags,
               create_network(n, c4, c6, approval, age, ttl, uses, tags)
        PROVE  TokenInv'
    <2>1. CASE UNCHANGED <<tokens, credit>>
      BY <2>1, SameUsesStep
    <2>2. CASE \E k \in TokenId :
                  /\ FreshToken(k)
                  /\ tokens' = Insert(tokens, k, build_token(n, ttl, uses, tags))
                  /\ credit' = Insert(credit, k, uses)
      BY <2>2, NewTokenStep
    <2> QED
      BY <1>1, <2>1, <2>2 DEF create_network
  <1>2. ASSUME NEW n \in NetworkId, NEW k \in TokenId, NEW ttl,
               NEW uses \in 0..MaxUses, NEW tags,
               create_token(k, n, ttl, uses, tags)
        PROVE  TokenInv'
    BY <1>2, NewTokenStep DEF create_token
  <1>3. ASSUME NEW n \in NetworkId,
               \/ \E policy \in Acl : update_acl(n, policy)
               \/ \E age \in Age \cup {None} : update_key_policy(n, age)
               \/ delete_network(n)
        PROVE  TokenInv'
    <2>1. /\ UNCHANGED credit /\ DOMAIN tokens' \subseteq DOMAIN tokens
          /\ \A k \in DOMAIN tokens' : tokens'[k] = tokens[k]
      BY <1>3 DEF update_acl, update_key_policy, delete_network, retain_tokens
    <2> QED
      BY <2>1, SameUsesStep
  <1> QED
    BY <1>1, <1>2, <1>3 DEF NetworkNext

LEMMA EnrolTokenStep ==
    ASSUME TypeOK, TokenInv, EnrolNext
    PROVE  TokenInv'
  <1>1. ASSUME NEW i, NEW k, NEW name, NEW m, NEW w, NEW t,
               register(i, k, name, m, w, t)
        PROVE  TokenInv'
    <2>1. k \in DOMAIN tokens /\ tokens[k].uses_left # 0
      BY <1>1 DEF register, token_valid
    <2>2. \/ UNCHANGED <<tokens, credit>>
          \/ tokens' = use_token(k) /\ credit' = [credit EXCEPT ![k] = @ - 1]
      BY <1>1 DEF register
    <2> QED
      BY <2>1, <2>2, UseTokenStep, SameUsesStep, ZenonT(30)
  <1>2. ASSUME NEW i, NEW n, NEW name, NEW m, NEW w, NEW ttl, NEW t,
               register_url(i, n, name, m, w, ttl, t)
        PROVE  TokenInv'
    BY <1>2, SameUsesStep, Zenon DEF register_url
  <1>3. ASSUME NEW i, NEW t, approve_node_secret(i, t) PROVE TokenInv'
    BY <1>3, SameUsesStep DEF approve_node_secret
  <1> QED
    BY <1>1, <1>2, <1>3 DEF EnrolNext

LEMMA TokenStep == TypeOK /\ TokenInv /\ [Next]_vars => TokenInv'
  <1> SUFFICES ASSUME TypeOK, TokenInv, [Next]_vars PROVE TokenInv'
    OBVIOUS
  <1>1. CASE NodeNext \/ read_state \/ tick \/ UNCHANGED vars
    <2>1. UNCHANGED <<tokens, credit>>
      <3>1. \A i : /\ approve_node(i) => UNCHANGED <<tokens, credit>>
                   /\ revoke_node(i) => UNCHANGED <<tokens, credit>>
                   /\ delete_node(i) => UNCHANGED <<tokens, credit>>
        BY DEF approve_node, revoke_node, delete_node
      <3>2. \A i, name, tags :
               update_node(i, name, tags) => UNCHANGED <<tokens, credit>>
        BY DEF update_node
      <3>3. \A i, m, w, t :
               rotate_keys(i, m, w, t) => UNCHANGED <<tokens, credit>>
        BY DEF rotate_keys
      <3>4. \A i, report, probe, t :
               heartbeat(i, report, probe, t) => UNCHANGED <<tokens, credit>>
        BY DEF heartbeat
      <3>5. CASE NodeNext
        BY <3>1, <3>2, <3>3, <3>4, <3>5 DEF NodeNext
      <3> QED
        BY <1>1, <3>5 DEF read_state, tick, vars
    <2> QED
      BY <2>1, SameUsesStep
  <1>2. ASSUME NEW k \in TokenId, revoke_token(k) PROVE TokenInv'
    <2>1. /\ UNCHANGED credit /\ DOMAIN tokens' = DOMAIN tokens
          /\ \A j \in DOMAIN tokens' : tokens'[j].uses_left = tokens[j].uses_left
      BY <1>2 DEF revoke_token, TypeOK, TokenState
    <2> QED
      BY <2>1, SameUsesStep
  <1> QED
    BY <1>1, <1>2, NetworkTokenStep, EnrolTokenStep DEF Next

\* The uses the server records for a token are the ones it has left.
THEOREM TokenLedger == Spec => []TokenInv
  <1>1. Init => TokenInv
    BY DEF Init, TokenInv, TokensNotOverdrawn
  <1> QED
    BY <1>1, TokenStep, TypeCorrect, PTL DEF Spec

\* register never enrols more nodes with a token than create_token or
\* create_network gave it uses, however requests interleave and fail.
THEOREM NoTokenOverdrawn == Spec => []TokensNotOverdrawn
  <1>1. TokenInv => TokensNotOverdrawn
    BY DEF TokenInv
  <1> QED
    BY <1>1, TokenLedger, PTL

-----------------------------------------------------------------------------
(* Addresses.                                                              *)

\* The overlap test of create_network is symmetric, and two prefixes that
\* pass it have no address in common.
LEMMA DisjointPrefixes ==
    ASSUME NEW c \in Cidr4 \cup Cidr6, NEW d \in Cidr4 \cup Cidr6,
           ~nets_overlap(c, d), NEW x \in Int, NEW y \in Int,
           0 <= x, x < c.size, 0 <= y, y < d.size
    PROVE  /\ ~nets_overlap(d, c)
           /\ net_base(c) + x # net_base(d) + y
  <1>1. /\ net_base(c) \in Nat /\ net_base(d) \in Nat
        /\ c.size \in Nat /\ d.size \in Nat
    BY CidrAssumption
  <1> QED
    BY <1>1 DEF nets_overlap, net_contains

\* The offsets of a new network start inside the usable range.
LEMMA InitialOffsets ==
    ASSUME NEW c4 \in Cidr4, NEW c6 \in Cidr6
    PROVE  initial_ipv4_offset(c4) >= 1 /\ initial_ipv6_offset(c6) >= 0
  BY DEF initial_ipv4_offset, initial_ipv6_offset

\* What the type invariant says of one network and of one node.
LEMMA TypesOf ==
    ASSUME TypeOK
    PROVE  /\ \A n \in DOMAIN networks :
                /\ networks[n].overlay_v4 \in Cidr4
                /\ networks[n].overlay_v6 \in Cidr6
                /\ networks[n].next_ipv4 \in Nat
                /\ networks[n].next_ipv6 \in Nat
                /\ net_base(networks[n].overlay_v4) \in Nat
                /\ net_base(networks[n].overlay_v6) \in Nat
                /\ networks[n].overlay_v4.size \in Nat
                /\ networks[n].overlay_v6.size \in Nat
           /\ \A i \in DOMAIN nodes :
                nodes[i].ipv4 \in Nat /\ nodes[i].ipv6 \in Nat
  <1>1. \A n \in DOMAIN networks : networks[n] \in NetworkState
    BY DEF TypeOK
  <1>2. \A i \in DOMAIN nodes : nodes[i] \in NodeState
    BY DEF TypeOK
  <1>3. \A n \in DOMAIN networks :
            /\ networks[n].overlay_v4 \in Cidr4
            /\ networks[n].overlay_v6 \in Cidr6
            /\ networks[n].next_ipv4 \in Nat
            /\ networks[n].next_ipv6 \in Nat
    BY <1>1 DEF NetworkState
  <1>4. \A i \in DOMAIN nodes : nodes[i].ipv4 \in Nat /\ nodes[i].ipv6 \in Nat
    BY <1>2 DEF NodeState
  <1> QED
    BY <1>3, <1>4, CidrAssumption

\* The same of a network after a step.
LEMMA TypesOfNext ==
    ASSUME TypeOK'
    PROVE  \A n \in DOMAIN networks' :
                networks'[n].next_ipv4 \in Nat /\ networks'[n].next_ipv6 \in Nat
  <1>1. \A n \in DOMAIN networks' : networks'[n] \in NetworkState
    BY DEF TypeOK
  <1> QED
    BY <1>1 DEF NetworkState

\* A step that creates no network and no node, keeps what there is under the
\* same prefixes and never moves an offset back keeps the invariant.  All
\* handlers but create_network, delete_network and the registrations are so.
LEMMA FrameStep ==
    ASSUME TypeOK, TypeOK', AddressInv,
           DOMAIN networks' = DOMAIN networks,
           \A n \in DOMAIN networks :
               /\ networks'[n].overlay_v4 = networks[n].overlay_v4
               /\ networks'[n].overlay_v6 = networks[n].overlay_v6
               /\ networks'[n].next_ipv4 >= networks[n].next_ipv4
               /\ networks'[n].next_ipv6 >= networks[n].next_ipv6,
           DOMAIN nodes' \subseteq DOMAIN nodes,
           \A i \in DOMAIN nodes' :
               /\ nodes'[i].network_id = nodes[i].network_id
               /\ nodes'[i].ipv4 = nodes[i].ipv4
               /\ nodes'[i].ipv6 = nodes[i].ipv6,
           \A k \in DOMAIN tokens' :
               tokens'[k].network_id \in DOMAIN networks
    PROVE  AddressInv'
  <1>1. ReferentialIntegrity'
    BY Zenon DEF AddressInv, ReferentialIntegrity
  <1>2. PrefixesDisjoint'
    BY Zenon DEF AddressInv, PrefixesDisjoint
  <1>3. \A n \in DOMAIN networks' : networks'[n].next_ipv4 >= 1
    BY TypesOf, TypesOfNext DEF AddressInv
  <1>4. ASSUME NEW i \in DOMAIN nodes'
        PROVE  Allocated(i)'
    <2>1. Allocated(i) /\ nodes[i].network_id \in DOMAIN networks
      BY <1>4, Zenon DEF AddressInv, ReferentialIntegrity
    <2>2. /\ net_base(networks[nodes[i].network_id].overlay_v4) \in Int
          /\ net_base(networks[nodes[i].network_id].overlay_v6) \in Int
          /\ nodes[i].ipv4 \in Int /\ nodes[i].ipv6 \in Int
          /\ networks[nodes[i].network_id].next_ipv4 \in Int
          /\ networks[nodes[i].network_id].next_ipv6 \in Int
          /\ networks'[nodes[i].network_id].next_ipv4 \in Int
          /\ networks'[nodes[i].network_id].next_ipv6 \in Int
      BY <1>4, <2>1, TypesOf, TypesOfNext
    <2> QED
      BY <1>4, <2>1, <2>2 DEF Allocated
  <1>5. AddressesUnique'
    BY DEF AddressInv, AddressesUnique
  <1> QED
    BY <1>1, <1>2, <1>3, <1>4, <1>5, Zenon DEF AddressInv

\* Allocation: the offsets taken next are of no node of the network, and no
\* node of another network has an address in these prefixes.
LEMMA NextAddressFresh ==
    ASSUME TypeOK, AddressInv, NEW n \in DOMAIN networks,
           ipv4_left(networks[n]), ipv6_left(networks[n]),
           NEW j \in DOMAIN nodes
    PROVE  /\ nodes[j].ipv4 #
                net_base(networks[n].overlay_v4) + networks[n].next_ipv4
           /\ nodes[j].ipv6 #
                net_base(networks[n].overlay_v6) + networks[n].next_ipv6
  <1> DEFINE o == nodes[j].network_id
             c4 == networks[n].overlay_v4
             c6 == networks[n].overlay_v6
             d4 == networks[o].overlay_v4
             d6 == networks[o].overlay_v6
             x4 == networks[n].next_ipv4
             x6 == networks[n].next_ipv6
             y4 == nodes[j].ipv4 - net_base(d4)
             y6 == nodes[j].ipv6 - net_base(d6)
  <1>1. o \in DOMAIN networks /\ Allocated(j)
    BY Zenon DEF AddressInv, ReferentialIntegrity
  <1>2. /\ c4 \in Cidr4 /\ d4 \in Cidr4 /\ c6 \in Cidr6 /\ d6 \in Cidr6
        /\ x4 \in Nat /\ x6 \in Nat
        /\ net_base(c4) \in Nat /\ net_base(c6) \in Nat
        /\ net_base(d4) \in Nat /\ net_base(d6) \in Nat
        /\ c4.size \in Nat /\ d4.size \in Nat
        /\ c6.size \in Nat /\ d6.size \in Nat
        /\ nodes[j].ipv4 \in Nat /\ nodes[j].ipv6 \in Nat
    BY <1>1, TypesOf, Zenon
  <1>3. /\ 1 <= y4 /\ y4 < networks[o].next_ipv4 /\ y4 <= d4.size - 2
        /\ 0 <= y6 /\ y6 < networks[o].next_ipv6 /\ y6 <= d6.size - 1
    BY <1>1 DEF Allocated, max_ipv4_offset, max_ipv6_offset
  <1>4. x4 <= c4.size - 2 /\ x6 <= c6.size - 1
    BY Zenon DEF ipv4_left, ipv6_left, max_ipv4_offset, max_ipv6_offset
  <1>5. /\ nodes[j].ipv4 = net_base(d4) + y4
        /\ nodes[j].ipv6 = net_base(d6) + y6
        /\ y4 \in Int /\ y6 \in Int
    BY <1>2
  <1>6. CASE o = n
    BY <1>2, <1>3, <1>5, <1>6
  <1>7. CASE o # n
    <2>1. ~nets_overlap(d4, c4) /\ ~nets_overlap(d6, c6)
      BY <1>1, <1>7, Zenon DEF AddressInv, PrefixesDisjoint
    <2>2. /\ 0 <= y4 /\ y4 < d4.size /\ 0 <= x4 /\ x4 < c4.size
          /\ 0 <= y6 /\ y6 < d6.size /\ 0 <= x6 /\ x6 < c6.size
          /\ x4 \in Int /\ x6 \in Int
      BY <1>2, <1>3, <1>4, <1>5
    <2> HIDE DEF c4, c6, d4, d6, x4, x6, y4, y6
    <2>3. net_base(d4) + y4 # net_base(c4) + x4
      BY <1>2, <1>5, <2>1, <2>2, DisjointPrefixes, Zenon
    <2>4. net_base(d6) + y6 # net_base(c6) + x6
      BY <1>2, <1>5, <2>1, <2>2, DisjointPrefixes
    <2> QED
      BY <1>5, <2>3, <2>4, Zenon DEF c4, c6, x4, x6
  <1> QED
    BY <1>6, <1>7

\* register and register_url when both allocations succeed.
LEMMA NewNodeStep ==
    ASSUME TypeOK, TypeOK', AddressInv, NEW n \in DOMAIN networks,
           ipv4_left(networks[n]), ipv6_left(networks[n]),
           networks' = [networks EXCEPT ![n] = allocate_node_ips(networks[n])],
           NEW i, i \notin DOMAIN nodes, NEW node,
           node.network_id = n,
           node.ipv4 = net_base(networks[n].overlay_v4) + networks[n].next_ipv4,
           node.ipv6 = net_base(networks[n].overlay_v6) + networks[n].next_ipv6,
           nodes' = Insert(nodes, i, node),
           \A k \in DOMAIN tokens' :
               tokens'[k].network_id \in DOMAIN networks
    PROVE  AddressInv'
  <1>1. /\ DOMAIN nodes' = DOMAIN nodes \cup {i} /\ nodes'[i] = node
        /\ \A j \in DOMAIN nodes : nodes'[j] = nodes[j]
    BY DEF Insert
  <1>2. networks[n] \in NetworkState
    BY DEF TypeOK
  <1>3. /\ DOMAIN networks' = DOMAIN networks
        /\ \A o \in DOMAIN networks : o # n => networks'[o] = networks[o]
        /\ networks'[n] = allocate_node_ips(networks[n])
    BY DEF TypeOK
  <1>4. /\ networks'[n].overlay_v4 = networks[n].overlay_v4
        /\ networks'[n].overlay_v6 = networks[n].overlay_v6
        /\ networks'[n].next_ipv4 = networks[n].next_ipv4 + 1
        /\ networks'[n].next_ipv6 = networks[n].next_ipv6 + 1
    BY <1>2, <1>3, AllocateFacts
  <1>5. ReferentialIntegrity'
    BY <1>1, <1>3, Zenon DEF AddressInv, ReferentialIntegrity
  <1>6. PrefixesDisjoint'
    BY <1>3, <1>4 DEF AddressInv, PrefixesDisjoint
  <1>7. \A o \in DOMAIN networks' : networks'[o].next_ipv4 >= 1
    BY <1>3, <1>4, TypesOf DEF AddressInv
  <1>8. ASSUME NEW j \in DOMAIN nodes'
        PROVE  Allocated(j)'
    <2>1. CASE j = i
      <3>1. /\ net_base(networks[n].overlay_v4) \in Nat
            /\ net_base(networks[n].overlay_v6) \in Nat
            /\ networks[n].next_ipv4 \in Nat /\ networks[n].next_ipv6 \in Nat
            /\ networks[n].next_ipv4 >= 1
        BY TypesOf DEF AddressInv
      <3>2. /\ networks[n].next_ipv4 <= max_ipv4_offset(networks[n].overlay_v4)
            /\ networks[n].next_ipv6 <= max_ipv6_offset(networks[n].overlay_v6)
        BY DEF ipv4_left, ipv6_left
      <3> QED
        BY <1>1, <1>4, <2>1, <3>1, <3>2 DEF Allocated
    <2>2. CASE j # i
      <3>1. j \in DOMAIN nodes /\ nodes'[j] = nodes[j]
        BY <1>1, <1>8, <2>2
      <3>2. Allocated(j) /\ nodes[j].network_id \in DOMAIN networks
        BY <3>1, Zenon DEF AddressInv, ReferentialIntegrity
      <3>3. CASE nodes[j].network_id # n
        BY <1>3, <3>1, <3>2, <3>3, Zenon DEF Allocated
      <3>4. CASE nodes[j].network_id = n
        <4>1. /\ net_base(networks[n].overlay_v4) \in Int
              /\ net_base(networks[n].overlay_v6) \in Int
              /\ nodes[j].ipv4 \in Int /\ nodes[j].ipv6 \in Int
              /\ networks[n].next_ipv4 \in Int /\ networks[n].next_ipv6 \in Int
          BY <3>1, TypesOf
        <4> QED
          BY <1>4, <3>1, <3>2, <3>4, <4>1 DEF Allocated
      <3> QED
        BY <3>3, <3>4
    <2> QED
      BY <2>1, <2>2, Zenon
  <1>9. AddressesUnique'
    <2>1. \A j \in DOMAIN nodes :
            nodes[j].ipv4 # node.ipv4 /\ nodes[j].ipv6 # node.ipv6
      BY NextAddressFresh, Zenon
    <2> QED
      BY <1>1, <2>1 DEF AddressInv, AddressesUnique
  <1> QED
    BY <1>5, <1>6, <1>7, <1>8, <1>9 DEF AddressInv

\* create_network: the new prefixes overlap no prefix in use.
LEMMA CreateNetworkStep ==
    ASSUME TypeOK, TypeOK', AddressInv, NEW n \in NetworkId,
           NEW c4 \in Cidr4, NEW c6 \in Cidr6,
           NEW approval, NEW age, NEW ttl, NEW uses, NEW tags,
           create_network(n, c4, c6, approval, age, ttl, uses, tags)
    PROVE  AddressInv'
  <1> DEFINE net == network_state(c4, c6, approval, age)
  <1>1. /\ n \notin DOMAIN networks
        /\ DOMAIN networks' = DOMAIN networks \cup {n}
        /\ networks'[n] = net
        /\ \A o \in DOMAIN networks : networks'[o] = networks[o]
        /\ nodes' = nodes
    BY DEF create_network, FreshNetwork, Insert
  <1>2. /\ net.overlay_v4 = c4 /\ net.overlay_v6 = c6
        /\ net.next_ipv4 = initial_ipv4_offset(c4)
    BY Zenon DEF network_state
  <1> HIDE DEF net
  <1>3. ReferentialIntegrity'
    <2>1. \A k \in DOMAIN tokens' :
            \/ k \in DOMAIN tokens /\ tokens'[k] = tokens[k]
            \/ tokens'[k].network_id = n
      <3>1. CASE UNCHANGED tokens
        BY <3>1
      <3>2. ASSUME NEW k \in TokenId,
                   tokens' = Insert(tokens, k, build_token(n, ttl, uses, tags))
            PROVE  \A j \in DOMAIN tokens' :
                      \/ j \in DOMAIN tokens /\ tokens'[j] = tokens[j]
                      \/ tokens'[j].network_id = n
        <4>1. build_token(n, ttl, uses, tags).network_id = n
          BY ZenonT(30) DEF build_token
        <4> QED
          BY <3>2, <4>1 DEF Insert
      <3> QED
        BY <3>1, <3>2 DEF create_network
    <2> QED
      BY <1>1, <2>1 DEF AddressInv, ReferentialIntegrity
  <1>4. PrefixesDisjoint'
    <2>1. \A o \in DOMAIN networks :
            /\ ~nets_overlap(c4, networks[o].overlay_v4)
            /\ ~nets_overlap(c6, networks[o].overlay_v6)
            /\ ~nets_overlap(networks[o].overlay_v4, c4)
            /\ ~nets_overlap(networks[o].overlay_v6, c6)
      BY ZenonT(30) DEF create_network, overlays_free, nets_overlap
    <2> QED
      BY <1>1, <1>2, <2>1 DEF AddressInv, PrefixesDisjoint
  <1>5. \A o \in DOMAIN networks' : networks'[o].next_ipv4 >= 1
    BY <1>1, <1>2, InitialOffsets, ZenonT(30) DEF AddressInv
  <1>6. \A j \in DOMAIN nodes' : Allocated(j)'
    BY <1>1, ZenonT(30) DEF AddressInv, ReferentialIntegrity, Allocated
  <1>7. AddressesUnique'
    BY <1>1, ZenonT(30) DEF AddressInv, AddressesUnique
  <1> QED
    BY <1>3, <1>4, <1>5, <1>6, <1>7 DEF AddressInv

\* delete_network: neither a node nor a token of the network is left.
LEMMA DeleteNetworkStep ==
    ASSUME TypeOK, AddressInv, NEW n \in NetworkId, delete_network(n)
    PROVE  AddressInv'
  <1>1. /\ DOMAIN networks' = DOMAIN networks \ {n}
        /\ \A o \in DOMAIN networks' : networks'[o] = networks[o]
        /\ nodes' = nodes
        /\ \A i \in DOMAIN nodes : nodes[i].network_id # n
    BY DEF delete_network, Remove, connected_nodes
  <1>2. \A k \in DOMAIN tokens' :
            /\ k \in DOMAIN tokens /\ tokens'[k] = tokens[k]
            /\ tokens[k].network_id # n
    BY DEF delete_network, retain_tokens
  <1>3. ReferentialIntegrity'
    BY <1>1, <1>2 DEF AddressInv, ReferentialIntegrity
  <1>4. PrefixesDisjoint'
    BY <1>1 DEF AddressInv, PrefixesDisjoint
  <1>5. \A o \in DOMAIN networks' : networks'[o].next_ipv4 >= 1
    BY <1>1, Zenon DEF AddressInv
  <1>6. \A j \in DOMAIN nodes' : Allocated(j)'
    BY <1>1, Zenon DEF AddressInv, ReferentialIntegrity, Allocated
  <1>7. AddressesUnique'
    BY <1>1 DEF AddressInv, AddressesUnique
  <1> QED
    BY <1>3, <1>4, <1>5, <1>6, <1>7 DEF AddressInv

\* register and register_url when the IPv6 range is exhausted: the IPv4
\* offset has moved and no node was made.
LEMMA LostAllocationStep ==
    ASSUME TypeOK, TypeOK', AddressInv, NEW n \in DOMAIN networks,
           networks' = [networks EXCEPT ![n] = allocate_node_ips(networks[n])],
           UNCHANGED <<nodes, tokens>>
    PROVE  AddressInv'
  <1>1. networks[n] \in NetworkState
    BY DEF TypeOK
  <1>2. /\ DOMAIN networks' = DOMAIN networks
        /\ \A o \in DOMAIN networks : o # n => networks'[o] = networks[o]
        /\ networks'[n] = allocate_node_ips(networks[n])
    BY Zenon DEF TypeOK
  <1>3. \A o \in DOMAIN networks :
            /\ networks'[o].overlay_v4 = networks[o].overlay_v4
            /\ networks'[o].overlay_v6 = networks[o].overlay_v6
            /\ networks'[o].next_ipv4 >= networks[o].next_ipv4
            /\ networks'[o].next_ipv6 >= networks[o].next_ipv6
    BY <1>1, <1>2, AllocateFacts, TypesOf
  <1>4. \A k \in DOMAIN tokens' : tokens'[k].network_id \in DOMAIN networks
    BY Zenon DEF AddressInv, ReferentialIntegrity
  <1> QED
    BY <1>2, <1>3, <1>4, FrameStep, Zenon

\* register keeps the invariant.
LEMMA RegisterStep ==
    ASSUME TypeOK, TypeOK', AddressInv, NEW i \in NodeId, NEW k \in TokenId,
           NEW name, NEW m, NEW w, NEW t, register(i, k, name, m, w, t)
    PROVE  AddressInv'
  <1> DEFINE n == tokens[k].network_id
             node == node_state(n, name, m, w, tokens[k].tags,
                                ~networks[n].requires_approval, None, t)
  <1>1. /\ n \in DOMAIN networks /\ k \in DOMAIN tokens
        /\ ipv4_left(networks[n])
        /\ networks' = [networks EXCEPT ![n] = allocate_node_ips(networks[n])]
    BY Zenon DEF register, token_valid
  <1>2. CASE /\ ipv6_left(networks[n]) /\ FreshNode(i)
             /\ nodes' = Insert(nodes, i, node)
             /\ tokens' = use_token(k)
    <2>1. /\ node.network_id = n
          /\ node.ipv4 = net_base(networks[n].overlay_v4) + networks[n].next_ipv4
          /\ node.ipv6 = net_base(networks[n].overlay_v6) + networks[n].next_ipv6
      BY Zenon DEF node_state
    <2>2. \A j \in DOMAIN tokens' : tokens'[j].network_id \in DOMAIN networks
      <3>1. \A j \in DOMAIN tokens : /\ tokens[j].network_id \in DOMAIN networks
                                     /\ tokens[j] \in TokenState
        BY DEF AddressInv, ReferentialIntegrity, TypeOK
      <3>2. CASE tokens[k].uses_left <= 1
        BY <1>2, <3>1, <3>2 DEF use_token, Remove
      <3>3. CASE ~(tokens[k].uses_left <= 1)
        <4>1. tokens' = [tokens EXCEPT ![k] =
                [tokens[k] EXCEPT !.uses_left = tokens[k].uses_left - 1]]
          BY <1>2, <3>3 DEF use_token
        <4>2. [tokens[k] EXCEPT !.uses_left = tokens[k].uses_left - 1].network_id
                = tokens[k].network_id
          BY <1>1, <3>1, Zenon DEF TokenState
        <4> QED
          BY <1>1, <3>1, <4>1, <4>2 DEF TypeOK
      <3> QED
        BY <3>2, <3>3, Zenon
    <2>3. i \notin DOMAIN nodes
      BY <1>2 DEF FreshNode
    <2> HIDE DEF node
    <2> QED
      BY <1>1, <1>2, <2>1, <2>2, <2>3, NewNodeStep, Zenon
  <1>3. CASE UNCHANGED <<nodes, tokens>>
    BY <1>1, <1>3, LostAllocationStep, Zenon
  <1> QED
    BY <1>2, <1>3 DEF register

\* register_url keeps the invariant.
LEMMA RegisterUrlStep ==
    ASSUME TypeOK, TypeOK', AddressInv, NEW i \in NodeId, NEW n \in NetworkId,
           NEW name, NEW m, NEW w, NEW ttl, NEW t,
           register_url(i, n, name, m, w, ttl, t)
    PROVE  AddressInv'
  <1> DEFINE node == node_state(n, name, m, w, {}, FALSE, as_i64(t + ttl), t)
  <1>1. /\ n \in DOMAIN networks /\ ipv4_left(networks[n])
        /\ networks' = [networks EXCEPT ![n] = allocate_node_ips(networks[n])]
        /\ UNCHANGED tokens
    BY DEF register_url
  <1>2. CASE /\ ipv6_left(networks[n]) /\ FreshNode(i)
             /\ nodes' = Insert(nodes, i, node)
    <2>1. /\ node.network_id = n
          /\ node.ipv4 = net_base(networks[n].overlay_v4) + networks[n].next_ipv4
          /\ node.ipv6 = net_base(networks[n].overlay_v6) + networks[n].next_ipv6
      BY Zenon DEF node_state
    <2>2. \A j \in DOMAIN tokens' : tokens'[j].network_id \in DOMAIN networks
      BY <1>1 DEF AddressInv, ReferentialIntegrity
    <2>3. i \notin DOMAIN nodes
      BY <1>2, Zenon DEF FreshNode
    <2> HIDE DEF node
    <2> QED
      BY <1>1, <1>2, <2>1, <2>2, <2>3, NewNodeStep, Zenon
  <1>3. CASE UNCHANGED nodes
    BY <1>1, <1>3, LostAllocationStep, Zenon
  <1> QED
    BY <1>2, <1>3, Zenon DEF register_url

SameAddresses(new, old) ==
    /\ new.network_id = old.network_id
    /\ new.ipv4 = old.ipv4
    /\ new.ipv6 = old.ipv6

\* Both halves of rotate_keys leave the node's network and addresses alone.
LEMMA RotateKeepsAddresses ==
    ASSUME NEW node \in NodeState, NEW k, NEW t
    PROVE  /\ SameAddresses(rotate_machine(node, k, t), node)
           /\ SameAddresses(rotate_wg(node, k, t), node)
  <1>1. CASE k = None
    BY <1>1 DEF rotate_machine, rotate_wg, SameAddresses
  <1>2. CASE k # None
    BY <1>2 DEF rotate_machine, rotate_wg, SameAddresses, NodeState
  <1> QED
    BY <1>1, <1>2

\* The handlers on one node leave every node its network and addresses.
LEMMA NodeHandlersKeepAddresses ==
    ASSUME TypeOK, NEW i \in NodeId,
           \/ \E t \in Stamp : approve_node_secret(i, t)
           \/ approve_node(i)
           \/ \E name \in Name \cup {None}, tags \in (SUBSET Tag) \cup {None} :
                update_node(i, name, tags)
           \/ \E m \in Key \cup {None}, w \in Key \cup {None}, t \in Stamp :
                rotate_keys(i, m, w, t)
           \/ revoke_node(i)
           \/ delete_node(i)
           \/ \E report \in Report, probe \in BOOLEAN, t \in Stamp :
                heartbeat(i, report, probe, t)
    PROVE  /\ DOMAIN nodes' \subseteq DOMAIN nodes
           /\ \A j \in DOMAIN nodes' : SameAddresses(nodes'[j], nodes[j])
           /\ UNCHANGED <<networks, tokens>>
  <1>1. \A j \in DOMAIN nodes : nodes[j] \in NodeState
    BY DEF TypeOK
  <1>2. ASSUME approve_node(i) \/ \E t \in Stamp : approve_node_secret(i, t)
        PROVE  /\ DOMAIN nodes' \subseteq DOMAIN nodes
               /\ \A j \in DOMAIN nodes' : SameAddresses(nodes'[j], nodes[j])
               /\ UNCHANGED <<networks, tokens>>
    <2>1. /\ i \in DOMAIN nodes /\ UNCHANGED <<networks, tokens>>
          /\ UNCHANGED nodes \/ nodes' = set_approved(i)
      BY <1>2, Zenon DEF approve_node, approve_node_secret
    <2>2. CASE UNCHANGED nodes
      BY <2>1, <2>2 DEF SameAddresses
    <2>3. CASE nodes' = set_approved(i)
      BY <1>1, <2>1, <2>3, ZenonT(30) DEF set_approved, SameAddresses, NodeState, TypeOK
    <2> QED
      BY <2>1, <2>2, <2>3
  <1>3. ASSUME NEW name, NEW tags, update_node(i, name, tags)
        PROVE  /\ DOMAIN nodes' \subseteq DOMAIN nodes
               /\ \A j \in DOMAIN nodes' : SameAddresses(nodes'[j], nodes[j])
               /\ UNCHANGED <<networks, tokens>>
    <2>1. /\ i \in DOMAIN nodes /\ UNCHANGED <<networks, tokens>>
          /\ \E x, y : nodes' = [nodes EXCEPT ![i].name = x, ![i].tags = y]
      BY <1>3, Zenon DEF update_node
    <2> QED
      BY <1>1, <2>1 DEF SameAddresses, NodeState, TypeOK
  <1>4. ASSUME NEW m \in Key \cup {None}, NEW w \in Key \cup {None},
               NEW t \in Stamp, rotate_keys(i, m, w, t)
        PROVE  /\ DOMAIN nodes' \subseteq DOMAIN nodes
               /\ \A j \in DOMAIN nodes' : SameAddresses(nodes'[j], nodes[j])
               /\ UNCHANGED <<networks, tokens>>
    <2> DEFINE half == rotate_machine(nodes[i], m, t)
               full == rotate_wg(half, w, t)
               node == [full EXCEPT !.revoked = FALSE]
    <2>1. i \in DOMAIN nodes /\ nodes[i] \in NodeState /\ t \in Nat
      BY <1>1, <1>4 DEF rotate_keys, Stamp, TypeOK
    <2>2. half \in NodeState /\ SameAddresses(half, nodes[i])
      BY <2>1, RotateMachineType, RotateKeepsAddresses, Zenon
    <2> HIDE DEF half
    <2>3. full \in NodeState /\ SameAddresses(full, half)
      BY <2>1, <2>2, RotateWgType, RotateKeepsAddresses
    <2> HIDE DEF full
    <2>4. SameAddresses(node, full)
      BY <2>3 DEF SameAddresses, NodeState
    <2> HIDE DEF node
    <2>5. \/ nodes' = [nodes EXCEPT ![i] = node]
          \/ nodes' = [nodes EXCEPT ![i] = half]
      BY <1>4, <2>1, Zenon DEF rotate_keys, node, full, half
    <2>6. SameAddresses(node, nodes[i])
      BY <2>2, <2>3, <2>4 DEF SameAddresses
    <2>7. \A j \in DOMAIN nodes : SameAddresses(nodes[j], nodes[j])
      BY DEF SameAddresses
    <2>8. UNCHANGED <<networks, tokens>>
      BY <1>4 DEF rotate_keys
    <2> QED
      BY <2>1, <2>2, <2>5, <2>6, <2>7, <2>8, Zenon DEF TypeOK
  <1>5. ASSUME revoke_node(i)
        PROVE  /\ DOMAIN nodes' \subseteq DOMAIN nodes
               /\ \A j \in DOMAIN nodes' : SameAddresses(nodes'[j], nodes[j])
               /\ UNCHANGED <<networks, tokens>>
    BY <1>1, <1>5, Zenon DEF revoke_node, SameAddresses, NodeState, TypeOK
  <1>6. ASSUME delete_node(i)
        PROVE  /\ DOMAIN nodes' \subseteq DOMAIN nodes
               /\ \A j \in DOMAIN nodes' : SameAddresses(nodes'[j], nodes[j])
               /\ UNCHANGED <<networks, tokens>>
    BY <1>6 DEF delete_node, Remove, SameAddresses
  <1>7. ASSUME NEW report, NEW probe, NEW t, heartbeat(i, report, probe, t)
        PROVE  /\ DOMAIN nodes' \subseteq DOMAIN nodes
               /\ \A j \in DOMAIN nodes' : SameAddresses(nodes'[j], nodes[j])
               /\ UNCHANGED <<networks, tokens>>
    <2> DEFINE at == IF probe THEN t ELSE nodes[i].probe_requested_at
    <2>1. /\ i \in DOMAIN nodes /\ UNCHANGED <<networks, tokens>>
          /\ nodes' = [nodes EXCEPT ![i].report = report,
                                   ![i].probe_requested_at = at]
      BY <1>1, <1>7, Zenon DEF heartbeat, NodeState
    <2> HIDE DEF at
    <2> QED
      BY <1>1, <2>1 DEF SameAddresses, NodeState, TypeOK
  <1> QED
    BY <1>2, <1>3, <1>4, <1>5, <1>6, <1>7, Zenon

\* The handlers on one node, as a whole, keep the invariant.
LEMMA NodeHandlersStep ==
    ASSUME TypeOK, TypeOK', AddressInv,
           DOMAIN nodes' \subseteq DOMAIN nodes,
           \A j \in DOMAIN nodes' : SameAddresses(nodes'[j], nodes[j]),
           UNCHANGED <<networks, tokens>>
    PROVE  AddressInv'
  <1>1. \A k \in DOMAIN tokens' : tokens'[k].network_id \in DOMAIN networks
    BY Zenon DEF AddressInv, ReferentialIntegrity
  <1>2. \A n \in DOMAIN networks :
            /\ networks'[n].next_ipv4 >= networks[n].next_ipv4
            /\ networks'[n].next_ipv6 >= networks[n].next_ipv6
    BY TypesOf
  <1> QED
    BY <1>1, <1>2, FrameStep, Zenon DEF SameAddresses

\* create_token, revoke_token, update_acl and update_key_policy keep it.
LEMMA TokenAndPolicyStep ==
    ASSUME TypeOK, TypeOK', AddressInv,
           \/ \E k \in TokenId, n \in NetworkId, ttl \in Ttl,
                 uses \in 0..MaxUses, tags \in SUBSET Tag :
                    create_token(k, n, ttl, uses, tags)
           \/ \E k \in TokenId : revoke_token(k)
           \/ \E n \in NetworkId, policy \in Acl : update_acl(n, policy)
           \/ \E n \in NetworkId, age \in Age \cup {None} :
                    update_key_policy(n, age)
    PROVE  AddressInv'
  <1>1. /\ \A n \in DOMAIN networks : networks[n] \in NetworkState
        /\ \A k \in DOMAIN tokens : tokens[k] \in TokenState
        /\ \A k \in DOMAIN tokens : tokens[k].network_id \in DOMAIN networks
    BY DEF TypeOK, AddressInv, ReferentialIntegrity
  <1>2. /\ DOMAIN networks' = DOMAIN networks
        /\ \A n \in DOMAIN networks :
              /\ networks'[n].overlay_v4 = networks[n].overlay_v4
              /\ networks'[n].overlay_v6 = networks[n].overlay_v6
              /\ networks'[n].next_ipv4 = networks[n].next_ipv4
              /\ networks'[n].next_ipv6 = networks[n].next_ipv6
        /\ UNCHANGED nodes
    BY <1>1 DEF create_token, revoke_token, update_acl, update_key_policy,
                NetworkState, TypeOK
  <1>3. \A k \in DOMAIN tokens' : tokens'[k].network_id \in DOMAIN networks
    <2>1. CASE UNCHANGED tokens
      BY <1>1, <2>1, Zenon
    <2>2. ASSUME NEW k \in TokenId, NEW n \in NetworkId, NEW ttl \in Ttl,
                 NEW uses \in 0..MaxUses, NEW tags \in SUBSET Tag,
                 create_token(k, n, ttl, uses, tags)
          PROVE  \A j \in DOMAIN tokens' :
                    tokens'[j].network_id \in DOMAIN networks
      <3>1. /\ build_token(n, ttl, uses, tags).network_id = n
            /\ n \in DOMAIN networks
            /\ tokens' = Insert(tokens, k, build_token(n, ttl, uses, tags))
        BY <2>2, Zenon DEF build_token, create_token
      <3> QED
        BY <1>1, <3>1 DEF Insert
    <2>3. ASSUME NEW k \in TokenId, revoke_token(k)
          PROVE  \A j \in DOMAIN tokens' :
                    tokens'[j].network_id \in DOMAIN networks
      BY <1>1, <2>3, Zenon DEF revoke_token, TokenState, TypeOK
    <2> QED
      BY <2>1, <2>2, <2>3, Zenon DEF update_acl, update_key_policy
  <1>4. \A n \in DOMAIN networks :
              /\ networks'[n].next_ipv4 >= networks[n].next_ipv4
              /\ networks'[n].next_ipv6 >= networks[n].next_ipv6
    BY <1>2, TypesOf
  <1> QED
    BY <1>2, <1>3, <1>4, FrameStep, Zenon

\* Every step of the control plane keeps the address invariant.
LEMMA AddressStep ==
    TypeOK /\ TypeOK' /\ AddressInv /\ [Next]_vars => AddressInv'
  <1> SUFFICES ASSUME TypeOK, TypeOK', AddressInv, [Next]_vars
               PROVE  AddressInv'
    OBVIOUS
  <1>1. CASE NetworkNext
    BY <1>1, CreateNetworkStep, DeleteNetworkStep, TokenAndPolicyStep
    DEF NetworkNext
  <1>2. CASE EnrolNext
    BY <1>2, RegisterStep, RegisterUrlStep, NodeHandlersKeepAddresses, ZenonT(30),
       NodeHandlersStep DEF EnrolNext
  <1>3. CASE NodeNext
    BY <1>3, NodeHandlersKeepAddresses, NodeHandlersStep, Zenon DEF NodeNext
  <1>4. CASE \E k \in TokenId : revoke_token(k)
    BY <1>4, TokenAndPolicyStep
  <1>5. CASE read_state \/ tick \/ UNCHANGED vars
    <2>1. UNCHANGED <<networks, nodes, tokens>>
      BY <1>5 DEF read_state, tick, vars
    <2>2. \A j \in DOMAIN nodes' : SameAddresses(nodes'[j], nodes[j])
      BY <2>1 DEF SameAddresses
    <2> QED
      BY <2>1, <2>2, NodeHandlersStep
  <1> QED
    BY <1>1, <1>2, <1>3, <1>4, <1>5 DEF Next

\* State::default has no networks, no nodes and no tokens.
LEMMA AddressInit == Init => AddressInv
  <1> SUFFICES ASSUME Init PROVE AddressInv
    OBVIOUS
  <1>1. DOMAIN networks = {} /\ DOMAIN nodes = {} /\ DOMAIN tokens = {}
    BY DEF Init
  <1> QED
    BY <1>1, Zenon DEF AddressInv, ReferentialIntegrity, PrefixesDisjoint,
                       AddressesUnique

\* The invariant behind the three theorems below.
THEOREM AddressInvariant == Spec => []AddressInv
  BY AddressInit, AddressStep, TypeCorrect, PTL DEF Spec

\* delete_network leaves no node and no token behind, and nothing else makes
\* one without its network.
THEOREM NoOrphans == Spec => []ReferentialIntegrity
  <1>1. AddressInv => ReferentialIntegrity
    BY DEF AddressInv
  <1> QED
    BY <1>1, AddressInvariant, PTL

\* No two nodes ever hold the same IPv4 or the same IPv6 overlay address.
THEOREM UniqueAddresses == Spec => []AddressesUnique
  <1>1. AddressInv => AddressesUnique
    BY DEF AddressInv
  <1> QED
    BY <1>1, AddressInvariant, PTL

\* allocate_node_ips never leaves the network's prefixes and never gives out
\* the IPv4 network or broadcast address.
THEOREM UsableAddresses == Spec => []AddressesUsable
  <1>1. TypeOK /\ AddressInv => AddressesUsable
    <2> SUFFICES ASSUME TypeOK, AddressInv, NEW i \in DOMAIN nodes
                 PROVE  AddressesUsable!(i)
      BY DEF AddressesUsable
    <2> DEFINE n == nodes[i].network_id
    <2>1. n \in DOMAIN networks /\ Allocated(i)
      BY Zenon DEF AddressInv, ReferentialIntegrity
    <2>2. /\ net_base(networks[n].overlay_v4) \in Nat
          /\ net_base(networks[n].overlay_v6) \in Nat
          /\ networks[n].overlay_v4.size \in Nat
          /\ networks[n].overlay_v6.size \in Nat
          /\ nodes[i].ipv4 \in Nat /\ nodes[i].ipv6 \in Nat
      BY <2>1, TypesOf
    <2> QED
      BY <2>1, <2>2
      DEF Allocated, net_contains, max_ipv4_offset, max_ipv6_offset
  <1> QED
    BY <1>1, AddressInvariant, TypeCorrect, PTL
=============================================================================
