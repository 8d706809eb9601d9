---------------------------- MODULE RelaysProofs ---------------------------
(***************************************************************************)
(* The tables of the two relays, who a delivery reaches, and where a frame *)
(* is, for any number of nodes, connections, addresses and frames, and any *)
(* lifetime and cleanup period.                                            *)
(***************************************************************************)
EXTENDS Relays, Integers, TLAPS

-----------------------------------------------------------------------------
(* The stream relay.                                                       *)

StreamTypes ==
    /\ phase \in [Conn -> S!Phase]
    /\ node \in [Conn -> Node \cup {None}]
    /\ writer \in [Conn -> BOOLEAN]
    /\ stream_peers \in [Node -> SUBSET Conn]
    /\ stream_sending = [t \in S!Task |-> stream_sending[t]]

\* A handler in its loop or after it has a node.
HasNode == \A c \in Conn : phase[c] \in {"registered", "closing"} => node[c] \in Node

\* The copy of deliver_local held every connection of the target, and the
\* packet can be built: parse_packet lets no id through that is too long.
Copied ==
    \A t \in S!Task : /\ stream_sending[t].built = TRUE
                      /\ stream_sending[t].present \subseteq stream_sending[t].targets

StreamInv == StreamTypes /\ HasNode /\ Copied /\ S!Listed

LEMMA StreamInit == Init => StreamInv
BY RelayAssumption
   DEF Init, S!OwnInit, StreamInv, StreamTypes, HasNode, Copied, S!Listed,
       S!Phase, S!Idle, S!Task

\* A handler's coming and going, and its writer's end.
LEMMA HandlerKeepsInv ==
    ASSUME StreamInv, NEW c \in Conn,
           \/ S!connect(c) \/ S!reject(c) \/ S!disconnect(c) \/ S!write_fails(c)
    PROVE  StreamInv'
<1>. USE RelayAssumption DEF StreamInv
<1>1. CASE S!connect(c)
  BY <1>1 DEF S!connect, StreamTypes, HasNode, Copied, S!Listed, S!Phase
<1>2. CASE S!reject(c)
  BY <1>2 DEF S!reject, StreamTypes, HasNode, Copied, S!Listed, S!Phase
<1>3. CASE S!disconnect(c)
  BY <1>3 DEF S!disconnect, StreamTypes, HasNode, Copied, S!Listed, S!Phase
<1>4. CASE S!write_fails(c)
  BY <1>4 DEF S!write_fails, StreamTypes, HasNode, Copied, S!Listed, S!Phase
<1>. QED
  BY <1>1, <1>2, <1>3, <1>4

LEMMA RegisterKeepsInv ==
    ASSUME StreamInv, NEW c \in Conn, NEW n \in Node, S!register(c, n)
    PROVE  StreamInv'
<1>. USE RelayAssumption DEF StreamInv, S!register
<1>1. StreamTypes' /\ HasNode'
  BY DEF StreamTypes, HasNode, S!Phase
<1>2. Copied'
  BY DEF Copied, StreamTypes
<1>3. S!Listed'
  BY DEF S!Listed, StreamTypes
<1>. QED
  BY <1>1, <1>2, <1>3

LEMMA CleanupKeepsInv ==
    ASSUME StreamInv, NEW c \in Conn, S!cleanup(c)
    PROVE  StreamInv'
<1>. USE RelayAssumption DEF StreamInv, S!cleanup
<1>0. node[c] \in Node
  BY DEF HasNode
<1>1. StreamTypes' /\ HasNode'
  BY <1>0 DEF StreamTypes, HasNode, S!Phase
<1>2. Copied'
  BY DEF Copied, StreamTypes
<1>3. S!Listed'
  BY <1>0 DEF S!Listed, StreamTypes
<1>. QED
  BY <1>1, <1>2, <1>3

\* What deliver_local copies for node n is complete.
LEMMA LookupCopies ==
    ASSUME StreamInv, NEW n \in Node
    PROVE  S!Present(n) \subseteq stream_peers[n]
BY DEF StreamInv, S!Listed, S!Present

\* deliver_local, up to the copy and from the copy on.
LEMMA LookupKeepsCopied ==
    ASSUME StreamInv, NEW t \in S!Task, NEW n \in Node, NEW id,
           S!Lookup(t, id, n, TRUE)
    PROVE  Copied' /\ stream_sending' = [u \in S!Task |-> stream_sending'[u]]
<1>. USE DEF StreamInv, StreamTypes
<1>. DEFINE new == [id |-> id, built |-> TRUE, targets |-> stream_peers[n],
                    present |-> S!Present(n)]
<1>1. new.built = TRUE /\ new.present \subseteq new.targets
  BY LookupCopies
<1>2. stream_sending' = [stream_sending EXCEPT ![t] = new]
  BY DEF S!Lookup
<1>. HIDE DEF new
<1>3. stream_sending' = [u \in S!Task |-> IF u = t THEN new ELSE stream_sending[u]]
  BY <1>2
<1>4. Copied'
  BY <1>1, <1>3, Zenon DEF Copied, S!Task
<1>. QED
  BY <1>3, <1>4

LEMMA ReadSendKeepsInv ==
    ASSUME StreamInv, NEW c \in Conn, NEW n \in Node, S!read_send(c, n)
    PROVE  StreamInv'
<1>. USE RelayAssumption DEF StreamInv, S!read_send
<1>1. PICK f \in S!Reads("send") :
          S!Lookup(c, Len(frames) + 1, n, S!build_packet(f))
  OBVIOUS
<1>2. S!build_packet(f) = TRUE
  BY DEF S!Reads, S!parse_packet, S!build_packet
<1>3. Copied' /\ stream_sending' = [u \in S!Task |-> stream_sending'[u]]
  BY <1>1, <1>2, LookupKeepsCopied, Zenon DEF S!Task
<1>4. StreamTypes' /\ HasNode' /\ S!Listed'
  BY <1>3 DEF StreamTypes, HasNode, S!Listed, S!Task
<1>. QED
  BY <1>3, <1>4

LEMMA PushKeepsInv ==
    ASSUME StreamInv, NEW t \in S!Task, S!push(t)
    PROVE  StreamInv'
<1>. USE RelayAssumption DEF StreamInv, S!push
<1>1. UNCHANGED <<phase, node, writer, stream_peers>>
  BY Zenon DEF Copied
<1>a. stream_sending' = [u \in S!Task |-> IF u = t THEN S!Idle ELSE stream_sending[u]]
  BY Zenon DEF StreamTypes
<1>b. S!Idle.built = TRUE /\ S!Idle.present \subseteq S!Idle.targets
  BY Zenon DEF S!Idle
<1>2. Copied'
  BY <1>a, <1>b, Zenon DEF Copied, S!Task
<1>. HIDE DEF S!push
<1>c. stream_sending' = [u \in S!Task |-> stream_sending'[u]]
  BY <1>a
<1>d. StreamTypes'
  BY <1>1, <1>c DEF StreamTypes, S!Task, S!Phase
<1>3. StreamTypes' /\ HasNode' /\ S!Listed'
  BY <1>1, <1>d, Zenon DEF HasNode, S!Listed
<1>. QED
  BY <1>2, <1>3

-----------------------------------------------------------------------------
(* The queues between the mesh and the relays.                             *)

Elements(q, t) ==
    /\ q \in Seq(Nat)
    /\ \A i \in 1..Len(q) : q[i] \in 1..Len(frames) /\ frames[q[i]].via = t

\* A frame is for a node of its transport, and each relay's queue holds
\* frames of that relay.
QueueInv ==
    /\ frames \in Seq([to: Node \cup UdpNode, via: Transport])
    /\ \A k \in 1..Len(frames) : frames[k].to \in Target(frames[k].via)
    /\ to_local \in Seq(Nat)
    /\ \A i \in 1..Len(to_local) : to_local[i] \in 1..Len(frames)
    /\ Elements(stream_rx, "stream")
    /\ Elements(udp_rx, "udp")

LEMMA TakePacketKeepsInv ==
    ASSUME StreamInv, QueueInv, S!take_packet
    PROVE  StreamInv'
<1>. USE RelayAssumption DEF S!take_packet
<1>. DEFINE n == frames[Head(stream_rx)].to
<1>1. n \in Node
  <2>1. Head(stream_rx) = stream_rx[1] /\ 1 \in 1..Len(stream_rx)
    BY DEF QueueInv, Elements
  <2>2. Head(stream_rx) \in 1..Len(frames) /\ frames[Head(stream_rx)].via = "stream"
    BY <2>1 DEF QueueInv, Elements
  <2>. QED
    BY <2>2 DEF QueueInv, Target
<1>. HIDE DEF n
<1>2. S!Lookup(MeshTask, Head(stream_rx), n, TRUE)
  BY Zenon DEF n
<1>3. Copied' /\ stream_sending' = [u \in S!Task |-> stream_sending'[u]]
  BY <1>1, <1>2, LookupKeepsCopied, Zenon DEF S!Task
<1>4. StreamTypes' /\ HasNode' /\ S!Listed'
  BY <1>3 DEF StreamInv, StreamTypes, HasNode, S!Listed, S!Task
<1>. QED
  BY <1>3, <1>4 DEF StreamInv

LEMMA StreamStepKeepsInv ==
    ASSUME StreamInv, QueueInv, S!Next
    PROVE  StreamInv'
BY HandlerKeepsInv, RegisterKeepsInv, CleanupKeepsInv, ReadSendKeepsInv,
   PushKeepsInv, TakePacketKeepsInv DEF S!Next

\* The frames and the queue of a step that puts a new frame at the end.
LEMMA AppendKeepsQueues ==
    ASSUME QueueInv, NEW t \in Transport, NEW n \in Target(t),
           frames' = Append(frames, [to |-> n, via |-> t]),
           UNCHANGED <<stream_rx, udp_rx>>,
           to_local' \in {to_local, Append(to_local, Len(frames) + 1)}
    PROVE  QueueInv'
<1>1. [to |-> n, via |-> t] \in [to: Node \cup UdpNode, via: Transport]
  BY DEF Target
<1>2. /\ frames' \in Seq([to: Node \cup UdpNode, via: Transport])
      /\ Len(frames') = Len(frames) + 1 /\ Len(frames) \in Nat
      /\ \A k \in 1..Len(frames) : frames'[k] = frames[k]
      /\ frames'[Len(frames) + 1] = [to |-> n, via |-> t]
  BY <1>1 DEF QueueInv
<1>3. \A k \in 1..Len(frames') : frames'[k].to \in Target(frames'[k].via)
  BY <1>2 DEF QueueInv
<1>4. /\ to_local' \in Seq(Nat)
      /\ \A i \in 1..Len(to_local') : to_local'[i] \in 1..Len(frames')
  <2>1. CASE to_local' = to_local
    BY <1>2, <2>1 DEF QueueInv
  <2>2. CASE to_local' = Append(to_local, Len(frames) + 1)
    BY <1>2, <2>2 DEF QueueInv
  <2>. QED
    BY <2>1, <2>2
<1>5. Elements(stream_rx, "stream")' /\ Elements(udp_rx, "udp")'
  <2>1. Elements(stream_rx, "stream") /\ Elements(udp_rx, "udp")
    BY DEF QueueInv
  <2>. QED
    BY <1>2, <2>1 DEF Elements
<1>. QED
  BY <1>2, <1>3, <1>4, <1>5 DEF QueueInv, Target

LEMMA TailKeeps ==
    ASSUME NEW q \in Seq(Nat), q # <<>>
    PROVE  /\ Tail(q) \in Seq(Nat)
           /\ Head(q) = q[1] /\ 1 \in 1..Len(q)
           /\ \A i \in 1..Len(Tail(q)) : i + 1 \in 1..Len(q) /\ Tail(q)[i] = q[i + 1]
OBVIOUS

LEMMA TailKeepsElements ==
    ASSUME NEW q, NEW t, Elements(q, t), q # <<>>, UNCHANGED frames
    PROVE  /\ Tail(q) \in Seq(Nat)
           /\ \A i \in 1..Len(Tail(q)) :
                 Tail(q)[i] \in 1..Len(frames') /\ frames'[Tail(q)[i]].via = t
BY TailKeeps DEF Elements

LEMMA QueuesKept ==
    ASSUME QueueInv, UNCHANGED <<frames, to_local>>,
           Elements(stream_rx, "stream")', Elements(udp_rx, "udp")'
    PROVE  QueueInv'
BY DEF QueueInv, Target

LEMMA TaskStepKeepsQueues ==
    ASSUME QueueInv, StreamStep \/ UdpStep
    PROVE  QueueInv'
<1>1. CASE UNCHANGED <<frames, to_local, stream_rx, udp_rx>>
  BY <1>1, QueuesKept DEF QueueInv, Elements
<1>2. ASSUME NEW n \in Node, NEW c \in Conn, S!read_send(c, n), StreamStep
      PROVE  QueueInv'
  BY <1>2, AppendKeepsQueues DEF S!read_send, StreamStep, Transport, Target
<1>3. ASSUME NEW n \in UdpNode, NEW a \in Addr, NEW to \in UdpNode,
             U!recv_send(n, a, to), UdpStep
      PROVE  QueueInv'
  BY <1>3, AppendKeepsQueues DEF U!recv_send, UdpStep, Transport, Target
<1>4. CASE S!take_packet /\ StreamStep
  <2>1. /\ UNCHANGED <<frames, to_local, udp_rx>>
        /\ stream_rx # <<>> /\ stream_rx' = Tail(stream_rx)
    BY <1>4 DEF S!take_packet, StreamStep
  <2>2. Elements(stream_rx, "stream")' /\ Elements(udp_rx, "udp")'
    BY <2>1, TailKeepsElements DEF QueueInv, Elements
  <2>. QED
    BY <2>1, <2>2, QueuesKept
<1>5. CASE U!take_packet /\ UdpStep
  <2>1. /\ UNCHANGED <<frames, to_local, stream_rx>>
        /\ udp_rx # <<>> /\ udp_rx' = Tail(udp_rx)
    BY <1>5 DEF U!take_packet, UdpStep
  <2>2. Elements(stream_rx, "stream")' /\ Elements(udp_rx, "udp")'
    BY <2>1, TailKeepsElements DEF QueueInv, Elements
  <2>. QED
    BY <2>1, <2>2, QueuesKept
<1>6. CASE StreamStep
  BY <1>1, <1>2, <1>4, <1>6, ZenonT(30) DEF StreamStep, S!Next, S!connect, S!reject,
     S!disconnect, S!cleanup, S!write_fails, S!register, S!push
<1>7. CASE UdpStep
  BY <1>1, <1>3, <1>5, <1>7, Zenon DEF UdpStep, U!Next, U!recv_register, U!recv_fails,
     U!send_to, U!cleanup, U!tick
<1>. QED
  BY <1>6, <1>7

\* dispatch moves a frame to the queue of its own transport.
LEMMA DispatchKeepsQueues ==
    ASSUME QueueInv, dispatch
    PROVE  QueueInv'
<1>. DEFINE k == Head(to_local)
<1>0. /\ k \in 1..Len(frames) /\ k \in Nat
      /\ to_local' \in Seq(Nat)
      /\ \A i \in 1..Len(to_local') : to_local'[i] \in 1..Len(frames)
      /\ UNCHANGED frames
  BY TailKeeps DEF dispatch, QueueInv
<1>1. /\ stream_rx' = stream_rx \/ (frames[k].via = "stream" /\ stream_rx' = Append(stream_rx, k))
      /\ udp_rx' = udp_rx \/ (frames[k].via = "udp" /\ udp_rx' = Append(udp_rx, k))
  BY DEF dispatch, via
<1>. HIDE DEF k
<1>2. Elements(stream_rx, "stream")'
  <2>1. CASE stream_rx' = stream_rx
    BY <2>1, <1>0 DEF QueueInv, Elements
  <2>2. CASE frames[k].via = "stream" /\ stream_rx' = Append(stream_rx, k)
    BY <2>2, <1>0 DEF QueueInv, Elements
  <2>. QED
    BY <2>1, <2>2, <1>1
<1>3. Elements(udp_rx, "udp")'
  <2>1. CASE udp_rx' = udp_rx
    BY <2>1, <1>0 DEF QueueInv, Elements
  <2>2. CASE frames[k].via = "udp" /\ udp_rx' = Append(udp_rx, k)
    BY <2>2, <1>0 DEF QueueInv, Elements
  <2>. QED
    BY <2>1, <2>2, <1>1
<1>. QED
  BY <1>0, <1>2, <1>3 DEF QueueInv, Target

LEMMA BindKeepsQueues ==
    ASSUME QueueInv, NEW t \in Transport, bind(t) \/ bind_fails(t)
    PROVE  QueueInv'
<1>1. /\ UNCHANGED <<frames, to_local>>
      /\ stream_rx' \in {stream_rx, <<>>} /\ udp_rx' \in {udp_rx, <<>>}
  BY DEF bind, bind_fails
<1>2. Elements(stream_rx, "stream")'
  <2>1. CASE stream_rx' = stream_rx
    BY <2>1, <1>1 DEF QueueInv, Elements
  <2>2. CASE stream_rx' = <<>>
    BY <2>2 DEF Elements
  <2>. QED
    BY <2>1, <2>2, <1>1
<1>3. Elements(udp_rx, "udp")'
  <2>1. CASE udp_rx' = udp_rx
    BY <2>1, <1>1 DEF QueueInv, Elements
  <2>2. CASE udp_rx' = <<>>
    BY <2>2 DEF Elements
  <2>. QED
    BY <2>1, <2>2, <1>1
<1>. QED
  BY <1>1, <1>2, <1>3, QueuesKept

LEMMA QueuesInit == Init => QueueInv
BY DEF Init, QueueInv, Elements

LEMMA QueuesStep ==
    ASSUME QueueInv, [Next]_vars
    PROVE  QueueInv'
<1>1. ASSUME NEW t \in Transport, NEW n \in Target(t), from_mesh(n, t)
      PROVE  QueueInv'
  BY <1>1, AppendKeepsQueues, Zenon DEF from_mesh
<1>2. CASE UNCHANGED vars
  BY <1>2, QueuesKept DEF vars, queues, QueueInv, Elements
<1>. QED
  BY <1>1, <1>2, DispatchKeepsQueues, BindKeepsQueues, TaskStepKeepsQueues DEF Next

-----------------------------------------------------------------------------
(* The UDP relay.                                                          *)

UdpTypes ==
    /\ timer \in 0..PERIOD
    /\ udp_peers \in [UdpNode -> [addr: Addr, age: 0..U!Forever] \cup {None}]
    /\ heard \in [UdpNode -> 0..U!Forever]

\* An entry is as old as the silence of its node, and is gone before that
\* reaches PEER_TTL and a period: the next cleanup comes in time.
EntryAges ==
    \A n \in UdpNode :
        /\ udp_peers[n] # None =>
              udp_peers[n].age = heard[n] /\ heard[n] + timer < PEER_TTL + PERIOD
        /\ heard[n] < PEER_TTL => udp_peers[n] # None

UdpInv == UdpTypes /\ EntryAges

LEMMA UdpInit == Init => UdpInv
BY RelayAssumption DEF Init, U!OwnInit, UdpInv, UdpTypes, EntryAges, U!Forever

LEMMA UpsertKeepsInv ==
    ASSUME UdpInv, NEW n \in UdpNode, NEW a \in Addr, U!upsert_peer(n, a),
           UNCHANGED timer
    PROVE  UdpInv'
<1>. USE RelayAssumption DEF UdpInv, U!Forever
<1>. DEFINE new == [addr |-> a, age |-> 0]
<1>1. new \in [addr: Addr, age: 0..U!Forever] /\ new.age = 0 /\ new # None
  OBVIOUS
<1>2. /\ udp_peers' = [udp_peers EXCEPT ![n] = new]
      /\ heard' = [heard EXCEPT ![n] = 0]
  BY DEF U!upsert_peer
<1>. HIDE DEF new
<1>3. UdpTypes'
  BY <1>1, <1>2 DEF UdpTypes
<1>4. EntryAges'
  BY <1>1, <1>2 DEF UdpTypes, EntryAges
<1>. QED
  BY <1>3, <1>4

LEMMA UdpCleanupKeepsInv ==
    ASSUME UdpInv, U!cleanup
    PROVE  UdpInv'
<1>. USE RelayAssumption DEF UdpInv, U!Forever, U!cleanup, U!expired
<1>1. UdpTypes'
  BY DEF UdpTypes
<1>2. EntryAges'
  BY DEF UdpTypes, EntryAges
<1>. QED
  BY <1>1, <1>2

LEMMA TickKeepsInv ==
    ASSUME UdpInv, U!tick
    PROVE  UdpInv'
<1>. USE RelayAssumption DEF UdpInv
<1>1. timer > 0 /\ timer' = timer - 1 /\ timer' \in 0..PERIOD
  BY DEF U!tick, UdpTypes
<1>2. ASSUME NEW n \in UdpNode
      PROVE  /\ heard'[n] \in 0..U!Forever /\ heard'[n] >= heard[n]
             /\ udp_peers[n] = None => udp_peers'[n] = None
             /\ udp_peers[n] # None =>
                   /\ heard'[n] = heard[n] + 1
                   /\ udp_peers'[n] \in [addr: Addr, age: 0..U!Forever]
                   /\ udp_peers'[n].age = heard'[n]
  <2>1. heard'[n] = U!Older(heard[n]) /\ heard[n] \in 0..U!Forever
    BY DEF U!tick, UdpTypes
  <2>2. CASE udp_peers[n] = None
    BY <2>1, <2>2 DEF U!tick, U!Older, U!Forever
  <2>3. CASE udp_peers[n] # None
    <3>1. /\ udp_peers[n] \in [addr: Addr, age: 0..U!Forever]
          /\ udp_peers[n].age = heard[n] /\ heard[n] + timer < U!Forever
      BY <2>3 DEF UdpTypes, EntryAges, U!Forever
    <3>2. U!Older(heard[n]) = heard[n] + 1 /\ heard[n] + 1 \in 0..U!Forever
      BY <2>1, <3>1, <1>1 DEF U!Older, U!Forever, UdpTypes
    <3>3. udp_peers'[n] = [udp_peers[n] EXCEPT !.age = U!Older(udp_peers[n].age)]
      BY <2>3 DEF U!tick
    <3>4. /\ udp_peers'[n] \in [addr: Addr, age: 0..U!Forever]
          /\ udp_peers'[n].age = heard[n] + 1
      BY <3>1, <3>2, <3>3
    <3>. QED
      BY <2>1, <2>3, <3>2, <3>4 DEF U!Forever
  <2>. QED
    BY <2>2, <2>3
<1>3. UdpTypes'
  <2>1. DOMAIN udp_peers' = UdpNode /\ DOMAIN heard' = UdpNode
    BY DEF U!tick
  <2>2. udp_peers' = [n \in UdpNode |-> udp_peers'[n]] /\ heard' = [n \in UdpNode |-> heard'[n]]
    BY DEF U!tick
  <2>3. \A n \in UdpNode : udp_peers'[n] \in [addr: Addr, age: 0..U!Forever] \cup {None}
    BY <1>2
  <2>. QED
    BY <1>1, <1>2, <2>2, <2>3 DEF UdpTypes, U!Forever
<1>4. EntryAges'
  <2>. SUFFICES ASSUME NEW n \in UdpNode
                PROVE  /\ udp_peers'[n] # None =>
                             /\ udp_peers'[n].age = heard'[n]
                             /\ heard'[n] + timer' < PEER_TTL + PERIOD
                       /\ heard'[n] < PEER_TTL => udp_peers'[n] # None
    BY DEF EntryAges
  <2>1. heard[n] \in Nat /\ heard'[n] \in Nat /\ timer \in Nat
    BY <1>2 DEF UdpTypes, U!Forever
  <2>. QED
    BY <1>1, <1>2, <2>1 DEF EntryAges, U!Forever
<1>. QED
  BY <1>3, <1>4

LEMMA UdpStepKeepsInv ==
    ASSUME UdpInv, U!Next
    PROVE  UdpInv'
<1>1. ASSUME UNCHANGED <<udp_peers, heard, timer>> PROVE UdpInv'
  BY <1>1 DEF UdpInv, UdpTypes, EntryAges, U!Forever
<1>2. CASE U!recv_fails \/ U!take_packet \/ \E t \in U!Task : U!send_to(t)
  BY <1>1, <1>2, Zenon DEF U!recv_fails, U!take_packet, U!send_to
<1>. QED
  BY <1>2, UpsertKeepsInv, UdpCleanupKeepsInv, TickKeepsInv, Zenon
     DEF U!Next, U!recv_register, U!recv_send

-----------------------------------------------------------------------------
(* Where the frames go.                                                    *)

Past == {"registered", "closing", "closed"}

\* Frame k is for the node of connection c, which keeps its node.
For(k, c) ==
    /\ c \in Conn /\ k \in 1..Len(frames)
    /\ frames[k].via = "stream" /\ frames[k].to = node[c]
    /\ phase[c] \in Past

\* The same, after the step.
ForNext(k, c) ==
    /\ c \in Conn /\ k \in 1..Len(frames')
    /\ frames'[k].via = "stream" /\ frames'[k].to = node'[c]
    /\ phase'[c] \in Past

Datagram(k) == k \in 1..Len(frames) /\ frames[k].via = "udp"

DatagramNext(k) == k \in 1..Len(frames') /\ frames'[k].via = "udp"

StreamRoutes ==
    /\ \A t \in S!Task : \A c \in stream_sending[t].targets : For(stream_sending[t].id, c)
    /\ \A p \in got : For(p[1], p[2])

UdpRoutes ==
    /\ udp_sending = [t \in U!Task |-> udp_sending[t]]
    /\ \A t \in U!Task : udp_sending[t] # U!Idle => Datagram(udp_sending[t].id)
    /\ \A p \in sent : Datagram(p[1])

RelayInv == StreamInv /\ QueueInv /\ UdpInv /\ StreamRoutes /\ UdpRoutes

\* Frames stay what they are, and so do the nodes of connections.
LEMMA FramesStay ==
    ASSUME QueueInv, [Next]_vars, NEW k \in 1..Len(frames)
    PROVE  k \in 1..Len(frames') /\ frames'[k] = frames[k]
<1>1. ASSUME NEW f \in [to: Node \cup UdpNode, via: Transport],
             frames' = Append(frames, f)
      PROVE  k \in 1..Len(frames') /\ frames'[k] = frames[k]
  BY <1>1 DEF QueueInv
<1>2. ASSUME NEW t \in Transport, NEW n \in Target(t), from_mesh(n, t)
      PROVE  k \in 1..Len(frames') /\ frames'[k] = frames[k]
  BY <1>1, <1>2 DEF from_mesh, Target
<1>3. CASE StreamStep
  <2>1. UNCHANGED frames \/ \E c \in Conn, n \in Node : S!read_send(c, n)
    BY <1>3, Zenon DEF StreamStep, S!Next, S!connect, S!reject, S!disconnect, S!cleanup,
       S!write_fails, S!register, S!take_packet, S!push
  <2>. QED
    BY <2>1, <1>1, Zenon DEF S!read_send, Transport
<1>4. CASE UdpStep
  <2>1. \/ UNCHANGED frames
        \/ \E n \in UdpNode, a \in Addr, to \in UdpNode : U!recv_send(n, a, to)
    BY <1>4, Zenon DEF UdpStep, U!Next, U!recv_register, U!recv_fails, U!take_packet,
       U!send_to, U!cleanup, U!tick
  <2>. QED
    BY <2>1, <1>1, Zenon DEF U!recv_send, Transport
<1>. QED
  BY <1>2, <1>3, <1>4 DEF Next, dispatch, bind, bind_fails, vars

LEMMA NodesStay ==
    ASSUME StreamInv, [Next]_vars, NEW c \in Conn, phase[c] \in Past
    PROVE  node'[c] = node[c] /\ phase'[c] \in Past
<1>. USE DEF Past
<1>1. CASE StreamStep
  <2>1. ASSUME NEW d \in Conn,
               \/ S!connect(d) \/ S!reject(d) \/ S!disconnect(d) \/ S!cleanup(d)
               \/ S!write_fails(d) \/ \E n \in Node : S!register(d, n) \/ S!read_send(d, n)
        PROVE  node'[c] = node[c] /\ phase'[c] \in Past
    BY <2>1, ZenonT(30) DEF StreamInv, StreamTypes, S!connect, S!reject, S!disconnect, S!cleanup,
       S!write_fails, S!register, S!read_send
  <2>2. ASSUME S!take_packet \/ \E t \in S!Task : S!push(t)
        PROVE  node'[c] = node[c] /\ phase'[c] \in Past
    BY <2>2, Zenon DEF StreamInv, Copied, S!take_packet, S!push
  <2>. QED
    BY <1>1, <2>1, <2>2, Zenon DEF StreamStep, S!Next
<1>. QED
  BY <1>1, ZenonT(30) DEF Next, from_mesh, dispatch, bind, bind_fails, UdpStep, vars, stream

LEMMA ForStays ==
    ASSUME StreamInv, QueueInv, [Next]_vars, NEW k, NEW c, For(k, c)
    PROVE  ForNext(k, c)
BY FramesStay, NodesStay, Zenon DEF For, ForNext

LEMMA DatagramStays ==
    ASSUME QueueInv, [Next]_vars, NEW k, Datagram(k)
    PROVE  DatagramNext(k)
BY FramesStay DEF Datagram, DatagramNext

\* What deliver_local has copied for a frame is the target's.
LEMMA LookupKeepsRoutes ==
    ASSUME StreamInv, QueueInv, StreamRoutes, [Next]_vars, UNCHANGED got,
           NEW t \in S!Task, NEW n \in Node, NEW k, NEW b,
           S!Lookup(t, k, n, b),
           k \in 1..Len(frames'), frames'[k].via = "stream", frames'[k].to = n
    PROVE  StreamRoutes'
<1>. DEFINE new == [id |-> k, built |-> b, targets |-> stream_peers[n],
                    present |-> S!Present(n)]
<1>1. ASSUME NEW c \in stream_peers[n] PROVE ForNext(k, c)
  <2>1. c \in Conn /\ node[c] = n /\ phase[c] \in Past
    BY DEF StreamInv, StreamTypes, S!Listed, Past
  <2>2. node'[c] = n /\ phase'[c] \in Past
    BY <2>1, NodesStay
  <2>. QED
    BY <2>1, <2>2 DEF ForNext
<1>2. new.id = k /\ new.targets = stream_peers[n]
  OBVIOUS
<1>3. stream_sending' = [u \in S!Task |-> IF u = t THEN new ELSE stream_sending[u]]
  BY DEF S!Lookup, StreamInv, StreamTypes
<1>. HIDE DEF new
<1>4. ASSUME NEW u \in S!Task, NEW c \in stream_sending'[u].targets
      PROVE  ForNext(stream_sending'[u].id, c)
  <2>1. CASE u = t
    <3>1. stream_sending'[u] = new
      BY <1>3, <2>1
    <3>. QED
      BY <1>1, <1>2, <1>4, <3>1
  <2>2. CASE u # t
    <3>1. stream_sending'[u] = stream_sending[u]
      BY <1>3, <2>2
    <3>2. For(stream_sending[u].id, c)
      BY <3>1, <1>4 DEF StreamRoutes
    <3>. QED
      BY <3>1, <3>2, ForStays
  <2>. QED
    BY <2>1, <2>2
<1>5. \A p \in got' : ForNext(p[1], p[2])
  BY ForStays, Zenon DEF StreamRoutes
<1>. QED
  BY <1>4, <1>5, Zenon DEF StreamRoutes, For, ForNext, S!Task, Past

LEMMA PushKeepsRoutes ==
    ASSUME StreamInv, QueueInv, StreamRoutes, [Next]_vars, NEW t \in S!Task, S!push(t)
    PROVE  StreamRoutes'
<1>1. stream_sending' = [u \in S!Task |-> IF u = t THEN S!Idle ELSE stream_sending[u]]
  BY Zenon DEF S!push, StreamInv, StreamTypes
<1>2. \A p \in got' : p \in got \/ \E c \in stream_sending[t].targets :
                                      p = <<stream_sending[t].id, c>>
  <2>1. got' = got \cup {<<stream_sending[t].id, c>> :
                             c \in {d \in stream_sending[t].targets : writer[d]}}
    BY Zenon DEF S!push, StreamInv, Copied
  <2>. QED
    BY <2>1
<1>3. ASSUME NEW u \in S!Task, NEW c \in stream_sending'[u].targets
      PROVE  ForNext(stream_sending'[u].id, c)
  <2>1. u # t /\ stream_sending'[u] = stream_sending[u]
    BY <1>1, <1>3, Zenon DEF S!Idle
  <2>2. For(stream_sending[u].id, c)
    BY <1>3, <2>1 DEF StreamRoutes
  <2>. QED
    BY <2>1, <2>2, ForStays, Zenon
<1>4. ASSUME NEW p \in got' PROVE ForNext(p[1], p[2])
  <2>1. For(p[1], p[2])
    BY <1>2, <1>4 DEF StreamRoutes
  <2>. QED
    BY <2>1, ForStays
<1>. QED
  BY <1>3, <1>4 DEF StreamRoutes, For, ForNext, S!Task, Past

LEMMA StreamRoutesStep ==
    ASSUME StreamInv, QueueInv, StreamRoutes, [Next]_vars
    PROVE  StreamRoutes'
<1>1. ASSUME UNCHANGED <<stream_sending, got>> PROVE StreamRoutes'
  <2>1. ASSUME NEW u \in S!Task, NEW c \in stream_sending'[u].targets
        PROVE  ForNext(stream_sending'[u].id, c)
    <3>1. For(stream_sending[u].id, c)
      BY <1>1, <2>1 DEF StreamRoutes
    <3>. QED
      BY <1>1, <3>1, ForStays
  <2>2. \A p \in got' : ForNext(p[1], p[2])
    BY <1>1, ForStays, Zenon DEF StreamRoutes
  <2>. QED
    BY <2>1, <2>2 DEF StreamRoutes, For, ForNext, S!Task, Past
<1>2. ASSUME NEW c \in Conn, NEW n \in Node, S!read_send(c, n)
      PROVE  StreamRoutes'
  <2>1. PICK b : S!Lookup(c, Len(frames) + 1, n, b)
    BY <1>2 DEF S!read_send
  <2>2. /\ frames' = Append(frames, [to |-> n, via |-> "stream"])
        /\ UNCHANGED got /\ c \in S!Task
    BY <1>2 DEF S!read_send, S!Task
  <2>3. /\ Len(frames) + 1 \in 1..Len(frames')
        /\ frames'[Len(frames) + 1] = [to |-> n, via |-> "stream"]
    BY <2>2 DEF QueueInv, Transport
  <2>. QED
    BY <2>1, <2>2, <2>3, LookupKeepsRoutes
<1>3. ASSUME S!take_packet PROVE StreamRoutes'
  <2>. DEFINE k == Head(stream_rx)
  <2>1. /\ S!Lookup(MeshTask, k, frames[k].to, TRUE)
        /\ UNCHANGED <<got, frames>> /\ MeshTask \in S!Task
    BY <1>3, Zenon DEF S!take_packet, S!Task
  <2>2. k = stream_rx[1] /\ 1 \in 1..Len(stream_rx)
    BY <1>3, TailKeeps DEF S!take_packet, QueueInv, Elements
  <2>3. k \in 1..Len(frames) /\ frames[k].via = "stream"
    BY <2>2 DEF QueueInv, Elements
  <2>4. frames[k].to \in Node
    BY <2>3, Zenon DEF QueueInv, Target
  <2>. QED
    BY <2>1, <2>3, <2>4, LookupKeepsRoutes, Zenon
<1>4. CASE StreamStep
  BY <1>1, <1>2, <1>3, <1>4, PushKeepsRoutes DEF StreamStep, S!Next, S!connect,
     S!reject, S!disconnect, S!cleanup, S!write_fails, S!register
<1>. QED
  BY <1>1, <1>4, Zenon DEF Next, from_mesh, dispatch, bind, bind_fails, UdpStep, vars, stream

LEMMA UdpRoutesStep ==
    ASSUME QueueInv, UdpRoutes, [Next]_vars
    PROVE  UdpRoutes'
<1>. USE DEF U!Task
<1>1. ASSUME udp_sending' = [t \in U!Task |-> udp_sending'[t]],
             \A t \in U!Task : udp_sending'[t] \in {udp_sending[t], U!Idle}
                                  \/ DatagramNext(udp_sending'[t].id),
             \A p \in sent' : p \in sent \/ DatagramNext(p[1])
      PROVE  UdpRoutes'
  <2>1. \A t \in U!Task : udp_sending'[t] # U!Idle => DatagramNext(udp_sending'[t].id)
    BY <1>1, DatagramStays DEF UdpRoutes
  <2>2. \A p \in sent' : DatagramNext(p[1])
    BY <1>1, DatagramStays DEF UdpRoutes
  <2>. QED
    BY <1>1, <2>1, <2>2 DEF UdpRoutes, Datagram, DatagramNext, U!Idle
<1>2. ASSUME UNCHANGED <<udp_sending, sent>> PROVE UdpRoutes'
  BY <1>1, <1>2 DEF UdpRoutes
<1>3. ASSUME NEW u \in U!Task, NEW rec, DatagramNext(rec.id), UNCHANGED sent,
             udp_sending' = [udp_sending EXCEPT ![u] = rec]
      PROVE  UdpRoutes'
  <2>1. udp_sending' = [t \in U!Task |-> IF t = u THEN rec ELSE udp_sending[t]]
    BY <1>3, Zenon DEF UdpRoutes
  <2>. QED
    BY <1>1, <1>3, <2>1, Zenon
<1>4. ASSUME NEW n \in UdpNode, NEW a \in Addr, NEW to \in UdpNode,
             U!recv_send(n, a, to)
      PROVE  UdpRoutes'
  <2>. DEFINE rec == [id |-> Len(frames) + 1, addr |-> U!Copy(udp_peers'[to])]
  <2>1. /\ frames' = Append(frames, [to |-> to, via |-> "udp"]) /\ UNCHANGED sent
        /\ udp_sending' = [udp_sending EXCEPT !["loop"] = rec]
    BY <1>4 DEF U!recv_send
  <2>2. DatagramNext(Len(frames) + 1)
    BY <2>1 DEF QueueInv, Transport, DatagramNext
  <2>3. rec.id = Len(frames) + 1
    OBVIOUS
  <2>. HIDE DEF rec
  <2>. QED
    BY <1>3, <2>1, <2>2, <2>3, Zenon
<1>5. ASSUME U!take_packet PROVE UdpRoutes'
  <2>. DEFINE k == Head(udp_rx)
              rec == [id |-> k, addr |-> U!Found(k)]
  <2>1. UNCHANGED <<sent, frames>> /\ udp_sending' = [udp_sending EXCEPT !["mesh"] = rec]
    BY <1>5, Zenon DEF U!take_packet
  <2>2. k = udp_rx[1] /\ 1 \in 1..Len(udp_rx)
    BY <1>5, TailKeeps, ZenonT(30) DEF U!take_packet, QueueInv, Elements
  <2>3. DatagramNext(k)
    BY <2>1, <2>2 DEF QueueInv, Elements, DatagramNext
  <2>4. rec.id = k
    BY Zenon
  <2>. HIDE DEF rec, k
  <2>. QED
    BY <1>3, <2>1, <2>3, <2>4, Zenon
<1>6. ASSUME NEW u \in U!Task, U!send_to(u) PROVE UdpRoutes'
  <2>1. udp_sending' = [t \in U!Task |-> IF t = u THEN U!Idle ELSE udp_sending[t]]
    BY <1>6, Zenon DEF U!send_to, UdpRoutes
  <2>2. DatagramNext(udp_sending[u].id)
    BY <1>6, DatagramStays, Zenon DEF U!send_to, UdpRoutes
  <2>3. \A p \in sent' : p \in sent \/ p[1] = udp_sending[u].id
    <3>1. \/ sent' = sent
          \/ sent' = sent \cup {<<udp_sending[u].id, udp_sending[u].addr>>}
      BY <1>6, Zenon DEF U!send_to
    <3>. QED
      BY <3>1
  <2>. QED
    BY <1>1, <2>1, <2>2, <2>3
<1>7. CASE UdpStep
  BY <1>2, <1>4, <1>5, <1>6, <1>7 DEF UdpStep, U!Next, U!recv_register,
     U!recv_fails, U!cleanup, U!tick
<1>. QED
  BY <1>2, <1>7, Zenon DEF Next, from_mesh, dispatch, bind, bind_fails, StreamStep, vars, udp

-----------------------------------------------------------------------------
(* The results.                                                            *)

LEMMA RoutesInit == Init => StreamRoutes /\ UdpRoutes
BY DEF Init, S!OwnInit, U!OwnInit, StreamRoutes, UdpRoutes, S!Idle, U!Idle, S!Task, U!Task

LEMMA RelayStep == RelayInv /\ [Next]_vars => RelayInv'
<1>. SUFFICES ASSUME RelayInv, [Next]_vars PROVE RelayInv'
  OBVIOUS
<1>. USE DEF RelayInv
<1>1. StreamInv'
  <2>1. ASSUME UNCHANGED stream PROVE StreamInv'
    BY <2>1, Zenon DEF stream, StreamInv, StreamTypes, HasNode, Copied, S!Listed, S!Task, S!Phase
  <2>. QED
    BY <2>1, StreamStepKeepsInv, Zenon DEF Next, from_mesh, dispatch, bind, bind_fails,
       StreamStep, UdpStep, vars
<1>2. UdpInv'
  <2>1. ASSUME UNCHANGED udp PROVE UdpInv'
    BY <2>1 DEF udp, UdpInv, UdpTypes, EntryAges, U!Forever
  <2>. QED
    BY <2>1, UdpStepKeepsInv, Zenon DEF Next, from_mesh, dispatch, bind, bind_fails,
       StreamStep, UdpStep, vars
<1>. QED
  BY <1>1, <1>2, QueuesStep, StreamRoutesStep, UdpRoutesStep

LEMMA RelayInvariant == Spec => []RelayInv
<1>1. Init => RelayInv
  BY StreamInit, QueuesInit, UdpInit, RoutesInit DEF RelayInv
<1>. QED
  BY <1>1, RelayStep, PTL DEF Spec

\* The stream relay's table lists exactly the connections whose handlers are
\* there: no return of handle_connection skips the removal.
THEOREM ConnectionsListed == Spec => []Listed
<1>1. RelayInv => Listed
  BY DEF RelayInv, StreamInv, Listed
<1>. QED
  BY <1>1, RelayInvariant, PTL

\* deliver_local reaches every connection of the target that is there from
\* the copy of the list to the sending.
THEOREM DeliveryMissesNone == Spec => NoneMissed
<1>1. RelayInv /\ [Next]_vars => [S!ReachesAll]_vars
  <2>. SUFFICES ASSUME RelayInv, Next, NEW t \in S!Task,
                       stream_sending[t] # S!Idle, stream_sending'[t] = S!Idle,
                       NEW c \in stream_sending[t].present,
                       phase[c] = "registered", writer[c]
                PROVE  <<stream_sending[t].id, c>> \in got'
    BY DEF S!ReachesAll
  <2>. USE DEF RelayInv, StreamInv
  <2>1. ASSUME NEW u \in S!Task, S!push(u)
        PROVE  <<stream_sending[t].id, c>> \in got'
    <3>1. u = t
      BY <2>1, Zenon DEF S!push, StreamTypes
    <3>. QED
      BY <2>1, <3>1, ZenonT(30) DEF S!push, Copied
  <2>2. ASSUME NEW u \in S!Task, NEW k, NEW n, NEW b,
               stream_sending[u] = S!Idle, S!Lookup(u, k, n, b)
        PROVE  FALSE
    <3>1. u # t
      BY <2>2
    <3>. QED
      BY <2>2, <3>1 DEF S!Lookup, StreamTypes
  <2>3. \A d \in Conn, n \in Node : ~S!read_send(d, n)
    BY <2>2 DEF S!read_send, S!Task
  <2>4. ~S!take_packet
    BY <2>2, Zenon DEF S!take_packet, S!Task
  <2>. QED
    BY <2>1, <2>3, <2>4, Zenon DEF Next, StreamStep, S!Next, S!connect, S!reject, S!disconnect,
       S!cleanup, S!write_fails, S!register, from_mesh, dispatch, bind, bind_fails,
       UdpStep, stream
<1>. QED
  BY <1>1, RelayInvariant, PTL DEF Spec, NoneMissed

\* The UDP relay can reach a node for PEER_TTL after its last datagram, and
\* forgets it within a period of the cleanup after that.
THEOREM EntriesLast == Spec => []Lifetime
<1>1. RelayInv => Lifetime
  BY RelayAssumption
     DEF RelayInv, UdpInv, UdpTypes, EntryAges, Lifetime, U!Lifetime, U!Forever
<1>. QED
  BY <1>1, RelayInvariant, PTL

\* A frame goes out over the transport it came by, and on streams only to
\* connections of its target, however the connections change under way.
THEOREM FramesGoRight == Spec => []RightRelay
<1>1. RelayInv => RightRelay
  BY DEF RelayInv, StreamRoutes, UdpRoutes, For, Datagram, RightRelay
<1>. QED
  BY <1>1, RelayInvariant, PTL

-----------------------------------------------------------------------------
(* Where the frames are.                                                   *)

Distinct(q) == \A i, j \in 1..Len(q) : q[i] = q[j] => i = j

\* The queues and the tasks.
Spot == {<<"to_local", 0>>, <<"stream_rx", 0>>, <<"udp_rx", 0>>}
        \cup {<<"stream", t>> : t \in S!Task} \cup {<<"udp", t>> : t \in U!Task}

\* The frames in a queue, or with a task.
Content ==
    [p \in Spot |->
        CASE p[1] = "to_local" -> Queued(to_local)
          [] p[1] = "stream_rx" -> Queued(stream_rx)
          [] p[1] = "udp_rx" -> Queued(udp_rx)
          [] p[1] = "stream" -> {stream_sending[p[2]].id} \ {0}
          [] p[1] = "udp" -> {udp_sending[p[2]].id} \ {0}]

LEMMA IdleIds == S!Idle.id = 0 /\ U!Idle.id = 0
BY DEF S!Idle, U!Idle

\* With contents c, outcomes o and n frames: no frame is in two spots, and
\* the frames without an outcome are those in a spot and those to come.
InOne(c, o, n) ==
    /\ \A p, r \in Spot : \A k : k \in c[p] /\ k \in c[r] => p = r
    /\ \A p \in Spot : c[p] \subseteq 1..n
    /\ \A k \in 1..MaxFrames : o[k] = "none" <=> k > n \/ \E p \in Spot : k \in c[p]

PlaceInv ==
    /\ Distinct(to_local) /\ Distinct(stream_rx) /\ Distinct(udp_rx)
    /\ InOne(Content, outcome, Len(frames))

LEMMA NewInOne ==
    ASSUME NEW c, NEW c2, NEW o, NEW n \in Nat, InOne(c, o, n), n < MaxFrames,
           NEW p \in Spot,
           \A r \in Spot : IF r = p THEN c2[r] = c[r] \cup {n + 1} ELSE c2[r] = c[r]
    PROVE  InOne(c2, o, n + 1)
<1>1. ASSUME NEW q \in Spot, NEW s \in Spot, NEW j, j \in c2[q], j \in c2[s]
      PROVE  q = s
  BY <1>1 DEF InOne
<1>2. \A q \in Spot : c2[q] \subseteq 1..n + 1
  BY DEF InOne
<1>3. ASSUME NEW j \in 1..MaxFrames
      PROVE  o[j] = "none" <=> j > n + 1 \/ \E q \in Spot : j \in c2[q]
  BY <1>3 DEF InOne
<1>. QED
  BY <1>1, <1>2, <1>3 DEF InOne

LEMMA MoveInOne ==
    ASSUME NEW c, NEW c2, NEW o, NEW n \in Nat, InOne(c, o, n),
           NEW p \in Spot, NEW r \in Spot, p # r, NEW k \in c[p],
           c2[p] = c[p] \ {k}, c2[r] = c[r] \cup {k},
           \A q \in Spot : q \notin {p, r} => c2[q] = c[q]
    PROVE  InOne(c2, o, n)
<1>1. ASSUME NEW q \in Spot, NEW s \in Spot, NEW j, j \in c2[q], j \in c2[s]
      PROVE  q = s
  BY <1>1 DEF InOne
<1>2. \A q \in Spot : c2[q] \subseteq 1..n
  BY DEF InOne
<1>3. ASSUME NEW j \in 1..MaxFrames
      PROVE  o[j] = "none" <=> j > n \/ \E q \in Spot : j \in c2[q]
  BY <1>3 DEF InOne
<1>. QED
  BY <1>1, <1>2, <1>3 DEF InOne

LEMMA AnswerInOne ==
    ASSUME NEW c, NEW c2, NEW o, NEW o2, NEW n \in Nat, InOne(c, o, n),
           NEW p \in Spot, NEW ids, ids \subseteq c[p],
           \A q \in Spot : IF q = p THEN c2[q] = c[q] \ ids ELSE c2[q] = c[q],
           \A k \in 1..MaxFrames : IF k \in ids THEN o2[k] # "none" ELSE o2[k] = o[k]
    PROVE  InOne(c2, o2, n)
<1>1. ASSUME NEW q \in Spot, NEW s \in Spot, NEW j, j \in c2[q], j \in c2[s]
      PROVE  q = s
  BY <1>1 DEF InOne
<1>2. \A q \in Spot : c2[q] \subseteq 1..n
  BY DEF InOne
<1>3. ASSUME NEW j \in 1..MaxFrames
      PROVE  o2[j] = "none" <=> j > n \/ \E q \in Spot : j \in c2[q]
  BY <1>3 DEF InOne
<1>. QED
  BY <1>1, <1>2, <1>3 DEF InOne

LEMMA ContentIs ==
    /\ Content[<<"to_local", 0>>] = Queued(to_local)
    /\ Content[<<"stream_rx", 0>>] = Queued(stream_rx)
    /\ Content[<<"udp_rx", 0>>] = Queued(udp_rx)
    /\ \A t \in S!Task : Content[<<"stream", t>>] = {stream_sending[t].id} \ {0}
    /\ \A t \in U!Task : Content[<<"udp", t>>] = {udp_sending[t].id} \ {0}
BY DEF Content, Spot

LEMMA ContentNext ==
    /\ Content'[<<"to_local", 0>>] = Queued(to_local')
    /\ Content'[<<"stream_rx", 0>>] = Queued(stream_rx')
    /\ Content'[<<"udp_rx", 0>>] = Queued(udp_rx')
    /\ \A t \in S!Task : Content'[<<"stream", t>>] = {stream_sending'[t].id} \ {0}
    /\ \A t \in U!Task : Content'[<<"udp", t>>] = {udp_sending'[t].id} \ {0}
BY DEF Content, Spot, Queued, S!Task, U!Task

\* An idle task holds nothing.
LEMMA NothingHeld ==
    /\ \A t \in S!Task : stream_sending[t].id = 0 => Content[<<"stream", t>>] = {}
    /\ \A t \in U!Task : udp_sending[t].id = 0 => Content[<<"udp", t>>] = {}
    /\ \A t \in S!Task : stream_sending'[t].id = 0 => Content'[<<"stream", t>>] = {}
    /\ \A t \in U!Task : udp_sending'[t].id = 0 => Content'[<<"udp", t>>] = {}
BY ContentIs, ContentNext

LEMMA QueuesWaiting ==
    ASSUME QueueInv
    PROVE  /\ Len(frames) \in Nat /\ to_local \in Seq(Nat)
           /\ Queued(to_local) \subseteq 1..Len(frames)
<1>1. /\ Len(frames) \in Nat /\ to_local \in Seq(Nat)
      /\ \A i \in 1..Len(to_local) : to_local[i] \in 1..Len(frames)
  BY DEF QueueInv
<1>. QED
  BY <1>1 DEF Queued

LEMMA SpotCases ==
    ASSUME NEW p \in Spot
    PROVE  \/ p = <<"to_local", 0>> \/ p = <<"stream_rx", 0>> \/ p = <<"udp_rx", 0>>
           \/ \E t \in S!Task : p = <<"stream", t>>
           \/ \E t \in U!Task : p = <<"udp", t>>
BY DEF Spot

LEMMA QueuedAppend ==
    ASSUME NEW q \in Seq(Nat), NEW k \in Nat, k \notin Queued(q), Distinct(q)
    PROVE  Queued(Append(q, k)) = Queued(q) \cup {k} /\ Distinct(Append(q, k))
<1>. DEFINE r == Append(q, k)
<1>1. /\ r \in Seq(Nat) /\ Len(r) = Len(q) + 1 /\ r[Len(q) + 1] = k
      /\ Len(q) \in Nat /\ \A i \in 1..Len(q) : r[i] = q[i]
      /\ DOMAIN q = 1..Len(q) /\ DOMAIN r = 1..Len(r)
  OBVIOUS
<1>. HIDE DEF r
<1>2. Distinct(r)
  <2>. SUFFICES ASSUME NEW i \in 1..Len(r), NEW j \in 1..Len(r), r[i] = r[j]
                PROVE  i = j
    BY DEF Distinct
  <2>1. \A h \in 1..Len(q) : r[h] # k
    BY <1>1, Zenon DEF Queued
  <2>2. \A h \in 1..Len(r) : h \in 1..Len(q) \/ h = Len(q) + 1
    BY <1>1
  <2>3. CASE i \in 1..Len(q) /\ j \in 1..Len(q)
    <3>1. r[i] = q[i] /\ r[j] = q[j]
      BY <1>1, <2>3
    <3>. QED
      BY <2>3, <3>1, Zenon DEF Distinct
  <2>. QED
    BY <1>1, <2>1, <2>2, <2>3
<1>3. Queued(r) = Queued(q) \cup {k}
  BY <1>1 DEF Queued
<1>. QED
  BY <1>2, <1>3 DEF r

LEMMA Shifted ==
    ASSUME NEW n \in Nat \ {0}, NEW i \in 1..(n - 1)
    PROVE  i \in Nat /\ i + 1 \in 1..n /\ i + 1 # 1
OBVIOUS

LEMMA QueuedTail ==
    ASSUME NEW q \in Seq(Nat), q # <<>>, Distinct(q)
    PROVE  /\ Head(q) \in Queued(q)
           /\ Queued(Tail(q)) = Queued(q) \ {Head(q)}
           /\ Distinct(Tail(q))
<1>. DEFINE r == Tail(q)
<1>1. /\ r \in Seq(Nat) /\ Len(r) = Len(q) - 1 /\ Head(q) = q[1]
      /\ Len(q) \in Nat \ {0} /\ \A i \in 1..Len(r) : r[i] = q[i + 1]
      /\ DOMAIN q = 1..Len(q) /\ DOMAIN r = 1..Len(r)
  OBVIOUS
<1>. HIDE DEF r
<1>2. Distinct(r)
  <2>. SUFFICES ASSUME NEW i \in 1..Len(r), NEW j \in 1..Len(r), r[i] = r[j]
                PROVE  i = j
    BY DEF Distinct
  <2>1. /\ i + 1 \in 1..Len(q) /\ j + 1 \in 1..Len(q)
        /\ i \in Nat /\ j \in Nat
    BY <1>1, Shifted
  <2>2. q[i + 1] = q[j + 1]
    BY <1>1, Zenon
  <2>3. i + 1 = j + 1
    BY <2>1, <2>2 DEF Distinct
  <2>. QED
    BY <2>1, <2>3
<1>3. Head(q) \in Queued(q)
  BY <1>1 DEF Queued
<1>4. ASSUME NEW j \in Queued(r) PROVE j \in Queued(q) /\ j # q[1]
  <2>1. PICK i \in 1..Len(r) : r[i] = j
    BY <1>1, Zenon DEF Queued
  <2>2. i + 1 \in 1..Len(q) /\ i + 1 # 1
    BY <1>1, <2>1, Shifted
  <2>3. 1 \in 1..Len(q)
    BY <2>2
  <2>4. q[i + 1] = j
    BY <1>1, <2>1, Zenon
  <2>. QED
    BY <1>1, <2>2, <2>3, <2>4, Zenon DEF Queued, Distinct
<1>5. ASSUME NEW j \in Queued(q), j # q[1] PROVE j \in Queued(r)
  <2>1. PICK i \in 1..Len(q) : q[i] = j
    BY <1>1 DEF Queued
  <2>2. i - 1 \in 1..Len(r) /\ r[i - 1] = j
    BY <1>1, <1>5, <2>1
  <2>. QED
    BY <1>1, <2>2, Zenon DEF Queued
<1>. QED
  BY <1>1, <1>2, <1>3, <1>4, <1>5 DEF r

-----------------------------------------------------------------------------
(* The types of all variables.                                             *)

LookupTypes == [id: 0..MaxFrames, built: BOOLEAN, targets: SUBSET Conn, present: SUBSET Conn]

LEMMA LookupTyped ==
    ASSUME RelayInv, TypeOK, NEW t \in S!Task, NEW n \in Node, NEW k \in 0..MaxFrames,
           NEW b \in BOOLEAN, S!Lookup(t, k, n, b)
    PROVE  stream_sending' \in [S!Task -> LookupTypes]
<1>. DEFINE new == [id |-> k, built |-> b, targets |-> stream_peers[n],
                    present |-> S!Present(n)]
<1>1. new \in LookupTypes
  BY DEF LookupTypes, TypeOK, S!TypeOK, S!Present
<1>2. stream_sending' = [stream_sending EXCEPT ![t] = new]
  BY DEF S!Lookup
<1>3. stream_sending \in [S!Task -> LookupTypes]
  BY DEF TypeOK, S!TypeOK, LookupTypes
<1>. HIDE DEF new
<1>. QED
  BY <1>1, <1>2, <1>3

\* The frames that a step may add, and the queues.
LEMMA FrameTypes ==
    ASSUME QueueInv', Len(frames') <= MaxFrames,
           UNCHANGED status \/ \E t \in Transport, s \in {"up", "failed"} :
                                  status' = [status EXCEPT ![t] = s],
           TypeOK, S!TypeOK', U!TypeOK', outcome' \in [1..MaxFrames -> Outcome]
    PROVE  TypeOK'
<1>1. \A q \in {to_local', stream_rx', udp_rx'} : q \in Seq(1..Len(frames'))
  <2>1. ASSUME NEW q \in Seq(Nat), \A i \in 1..Len(q) : q[i] \in 1..Len(frames')
        PROVE  q \in Seq(1..Len(frames'))
    BY <2>1
  <2>. QED
    BY <2>1 DEF QueueInv, Elements
<1>2. status' \in [Transport -> {"starting", "up", "failed", "off"}]
  BY Zenon DEF TypeOK
<1>3. frames' \in Seq([to: Node \cup UdpNode, via: Transport])
  BY DEF QueueInv
<1>. QED
  BY <1>1, <1>2, <1>3, Zenon DEF TypeOK, Transport, Outcome

LEMMA FramesBounded ==
    ASSUME QueueInv, Len(frames) <= MaxFrames, [Next]_vars
    PROVE  Len(frames') <= MaxFrames
<1>1. ASSUME NEW f, f \in [to: Node \cup UdpNode, via: Transport],
             frames' = Append(frames, f), Len(frames) < MaxFrames
      PROVE  Len(frames') <= MaxFrames
  BY <1>1, RelayAssumption DEF QueueInv
<1>2. ASSUME NEW t \in Transport, NEW n \in Target(t), from_mesh(n, t)
      PROVE  Len(frames') <= MaxFrames
  BY <1>1, <1>2, Zenon DEF from_mesh, Target
<1>3. ASSUME NEW c \in Conn, NEW n \in Node, S!read_send(c, n)
      PROVE  Len(frames') <= MaxFrames
  BY <1>1, <1>3, Zenon DEF S!read_send, Transport
<1>4. ASSUME NEW n \in UdpNode, NEW a \in Addr, NEW to \in UdpNode, U!recv_send(n, a, to)
      PROVE  Len(frames') <= MaxFrames
  BY <1>1, <1>4 DEF U!recv_send, Transport
<1>5. CASE UNCHANGED frames
  BY <1>5
<1>6. CASE StreamStep
  BY <1>3, <1>5, <1>6, Zenon DEF StreamStep, S!Next, S!connect, S!reject, S!disconnect, S!cleanup,
     S!write_fails, S!register, S!take_packet, S!push
<1>7. CASE UdpStep
  BY <1>4, <1>5, <1>7, ZenonT(30) DEF UdpStep, U!Next, U!recv_register, U!recv_fails, U!take_packet,
     U!send_to, U!cleanup, U!tick
<1>. QED
  BY <1>2, <1>5, <1>6, <1>7 DEF Next, dispatch, bind, bind_fails, vars

\* The stream relay's variables but those of StreamTypes.
LEMMA StreamTyped ==
    ASSUME RelayInv, RelayInv', TypeOK, S!Next
    PROVE  S!TypeOK' /\ outcome' \in [1..MaxFrames -> Outcome]
<1>. USE RelayAssumption
<1>0. /\ stream_sending \in [S!Task -> LookupTypes] /\ got \subseteq (1..MaxFrames) \X Conn
      /\ outcome \in [1..MaxFrames -> Outcome]
      /\ frames \in Seq([to: Node \cup UdpNode, via: Transport]) /\ Len(frames) <= MaxFrames
  BY DEF TypeOK, S!TypeOK, LookupTypes
<1>1. ASSUME stream_sending' \in [S!Task -> LookupTypes], got' \subseteq (1..MaxFrames) \X Conn
      PROVE  S!TypeOK'
  BY <1>1 DEF RelayInv, StreamInv, StreamTypes, S!TypeOK, S!Task, S!Phase, LookupTypes
<1>2. CASE UNCHANGED <<stream_sending, got, outcome>>
  BY <1>0, <1>1, <1>2, Zenon
<1>3. ASSUME NEW c \in Conn, NEW n \in Node, S!read_send(c, n)
      PROVE  S!TypeOK' /\ outcome' \in [1..MaxFrames -> Outcome]
  <2>1. PICK f \in S!Reads("send") : S!Lookup(c, Len(frames) + 1, n, S!build_packet(f))
    BY <1>3, Zenon DEF S!read_send
  <2>2. S!build_packet(f) \in BOOLEAN /\ Len(frames) + 1 \in 0..MaxFrames /\ c \in S!Task
    BY <1>0, <1>3 DEF S!build_packet, S!read_send, S!Task
  <2>3. stream_sending' \in [S!Task -> LookupTypes]
    BY <2>1, <2>2, LookupTyped, Zenon
  <2>. QED
    BY <1>0, <1>1, <1>3, <2>3, Zenon DEF S!read_send
<1>4. ASSUME S!take_packet
      PROVE  S!TypeOK' /\ outcome' \in [1..MaxFrames -> Outcome]
  <2>. DEFINE k == Head(stream_rx)
  <2>1. k \in 1..Len(frames) /\ frames[k].to \in Node
    <3>1. k = stream_rx[1] /\ 1 \in 1..Len(stream_rx)
      BY <1>4, TailKeeps, Zenon DEF S!take_packet, RelayInv, QueueInv, Elements
    <3>2. k \in 1..Len(frames) /\ frames[k].via = "stream"
      BY <3>1 DEF RelayInv, QueueInv, Elements
    <3>. QED
      BY <3>2, Zenon DEF RelayInv, QueueInv, Target
  <2>2. k \in 0..MaxFrames /\ MeshTask \in S!Task
    BY <1>0, <2>1 DEF S!Task
  <2>3. S!Lookup(MeshTask, k, frames[k].to, TRUE)
    BY <1>4, Zenon DEF S!take_packet
  <2>. HIDE DEF k
  <2>4. stream_sending' \in [S!Task -> LookupTypes]
    BY <2>1, <2>2, <2>3, LookupTyped, Zenon
  <2>. QED
    BY <1>0, <1>1, <1>4, <2>4, Zenon DEF S!take_packet
<1>5. ASSUME NEW t \in S!Task, S!push(t)
      PROVE  S!TypeOK' /\ outcome' \in [1..MaxFrames -> Outcome]
  <2>1. S!Idle \in LookupTypes
    BY DEF S!Idle, LookupTypes
  <2>2. stream_sending' = [stream_sending EXCEPT ![t] = S!Idle]
    BY <1>5, Zenon DEF S!push
  <2>3. stream_sending' \in [S!Task -> LookupTypes]
    BY <1>0, <2>1, <2>2
  <2>4. got' \subseteq (1..MaxFrames) \X Conn
    <3>1. got' = got \cup {<<stream_sending[t].id, c>> :
                              c \in {d \in stream_sending[t].targets : writer[d]}}
      BY <1>5, Zenon DEF S!push, RelayInv, StreamInv, Copied
    <3>2. ASSUME NEW c \in stream_sending[t].targets
          PROVE  <<stream_sending[t].id, c>> \in (1..MaxFrames) \X Conn
      BY <1>0 DEF RelayInv, StreamRoutes, For
    <3>. QED
      BY <1>0, <3>1, <3>2
  <2>5. outcome' \in [1..MaxFrames -> Outcome]
    BY <1>0, <1>5, Zenon DEF S!push, Outcome, RelayInv, StreamInv, Copied
  <2>. QED
    BY <1>1, <2>3, <2>4, <2>5, Zenon
<1>. QED
  BY <1>2, <1>3, <1>4, <1>5, Zenon DEF S!Next, S!connect, S!reject, S!disconnect, S!cleanup,
     S!write_fails, S!register

DatagramTypes == [id: 0..MaxFrames, addr: Addr \cup {None}]

\* The same of the UDP relay.
LEMMA UdpTyped ==
    ASSUME RelayInv, RelayInv', TypeOK, U!Next
    PROVE  U!TypeOK' /\ outcome' \in [1..MaxFrames -> Outcome]
<1>. USE RelayAssumption
<1>0. /\ udp_sending \in [U!Task -> DatagramTypes] /\ sent \subseteq (1..MaxFrames) \X Addr
      /\ outcome \in [1..MaxFrames -> Outcome] /\ running \in BOOLEAN
      /\ frames \in Seq([to: Node \cup UdpNode, via: Transport]) /\ Len(frames) <= MaxFrames
  BY Zenon DEF TypeOK, U!TypeOK, DatagramTypes
<1>1. ASSUME udp_sending' \in [U!Task -> DatagramTypes], sent' \subseteq (1..MaxFrames) \X Addr,
             running' \in BOOLEAN
      PROVE  U!TypeOK'
  BY <1>1 DEF RelayInv, UdpInv, UdpTypes, U!TypeOK, U!Task, U!Forever, DatagramTypes
<1>2. CASE UNCHANGED <<udp_sending, sent, outcome>> /\ running' \in BOOLEAN
  BY <1>0, <1>1, <1>2
<1>a. ASSUME NEW p, p \in [addr: Addr, age: 0..U!Forever] \cup {None}
      PROVE  U!Copy(p) \in Addr \cup {None}
  BY <1>a DEF U!Copy
<1>b. ASSUME NEW t \in U!Task, NEW k \in 0..MaxFrames, NEW a \in Addr \cup {None},
             udp_sending' = [udp_sending EXCEPT ![t] = [id |-> k, addr |-> a]]
      PROVE  udp_sending' \in [U!Task -> DatagramTypes]
  <2>. DEFINE new == [id |-> k, addr |-> a]
  <2>1. new \in DatagramTypes
    BY DEF DatagramTypes
  <2>2. udp_sending' = [udp_sending EXCEPT ![t] = new]
    BY <1>b, Zenon
  <2>. HIDE DEF new
  <2>. QED
    BY <1>0, <2>1, <2>2
<1>3. ASSUME NEW n \in UdpNode, NEW a \in Addr, NEW to \in UdpNode, U!recv_send(n, a, to)
      PROVE  U!TypeOK' /\ outcome' \in [1..MaxFrames -> Outcome]
  <2>1. U!Copy(udp_peers'[to]) \in Addr \cup {None}
    <3>1. udp_peers'[to] \in [addr: Addr, age: 0..U!Forever] \cup {None}
      BY Zenon DEF RelayInv, UdpInv, UdpTypes, U!Forever
    <3>. QED
      BY <1>a, <3>1
  <2>2. Len(frames) + 1 \in 0..MaxFrames /\ "loop" \in U!Task
    BY <1>0, <1>3 DEF U!recv_send, U!Task
  <2>3. udp_sending' \in [U!Task -> DatagramTypes]
    BY <1>3, <1>b, <2>1, <2>2, Zenon DEF U!recv_send
  <2>. QED
    BY <1>0, <1>1, <1>3, <2>3 DEF U!recv_send
<1>4. ASSUME U!take_packet
      PROVE  U!TypeOK' /\ outcome' \in [1..MaxFrames -> Outcome]
  <2>. DEFINE k == Head(udp_rx)
  <2>1. k \in 1..Len(frames) /\ frames[k].to \in UdpNode
    <3>1. k = udp_rx[1] /\ 1 \in 1..Len(udp_rx)
      BY <1>4, TailKeeps, Zenon DEF U!take_packet, RelayInv, QueueInv, Elements
    <3>2. k \in 1..Len(frames) /\ frames[k].via = "udp"
      BY <3>1, Zenon DEF RelayInv, QueueInv, Elements
    <3>. QED
      BY <3>2, Zenon DEF RelayInv, QueueInv, Target
  <2>2. udp_sending' = [udp_sending EXCEPT !["mesh"] = [id |-> k, addr |-> U!Found(k)]]
    BY <1>4, Zenon DEF U!take_packet
  <2>. HIDE DEF k
  <2>3. U!Found(k) \in Addr \cup {None}
    BY <2>1, <1>a DEF U!Found, RelayInv, UdpInv, UdpTypes
  <2>4. k \in 0..MaxFrames /\ "mesh" \in U!Task
    BY <1>0, <2>1 DEF U!Task
  <2>5. udp_sending' \in [U!Task -> DatagramTypes]
    BY <1>b, <2>2, <2>3, <2>4, Zenon
  <2>. QED
    BY <1>0, <1>1, <1>4, <2>5 DEF U!take_packet
<1>5. ASSUME NEW t \in U!Task, U!send_to(t)
      PROVE  U!TypeOK' /\ outcome' \in [1..MaxFrames -> Outcome]
  <2>. DEFINE s == udp_sending[t]
  <2>0. /\ udp_sending' = [udp_sending EXCEPT ![t] = [id |-> 0, addr |-> None]]
        /\ s # U!Idle
    BY <1>5, Zenon DEF U!send_to, U!Idle
  <2>1. udp_sending' \in [U!Task -> DatagramTypes]
    <3>1. 0 \in 0..MaxFrames /\ None \in Addr \cup {None}
      OBVIOUS
    <3>. QED
      BY ONLY <1>5, <1>b, <2>0, <3>1, Zenon
  <2>2. s.id \in 1..MaxFrames /\ s.addr \in Addr \cup {None}
    <3>1. s.id \in 1..Len(frames)
      BY <2>0 DEF RelayInv, UdpRoutes, Datagram
    <3>2. s \in DatagramTypes
      BY <1>0
    <3>. HIDE DEF s
    <3>. QED
      BY <1>0, <3>1, <3>2 DEF DatagramTypes
  <2>3. PICK ok \in BOOLEAN :
          /\ ok => s.addr # None
          /\ sent' = IF ok THEN sent \cup {<<s.id, s.addr>>} ELSE sent
          /\ outcome' = [outcome EXCEPT ![s.id] =
                            IF ok THEN "delivered" ELSE "not delivered"]
    BY <1>5, Zenon DEF U!send_to
  <2>. HIDE DEF s
  <2>4. sent' \subseteq (1..MaxFrames) \X Addr
    <3>1. CASE ok
      BY <1>0, <2>2, <2>3, <3>1
    <3>2. CASE ~ok
      BY <1>0, <2>3, <3>2, Zenon
    <3>. QED
      BY <3>1, <3>2, Zenon
  <2>5. outcome' \in [1..MaxFrames -> Outcome]
    BY <1>0, <2>3, Zenon DEF Outcome
  <2>. QED
    BY <1>0, <1>1, <1>5, <2>1, <2>4, <2>5, Zenon DEF U!send_to
<1>. QED
  BY <1>0, <1>2, <1>3, <1>4, <1>5, Zenon DEF U!Next, U!recv_register, U!recv_fails, U!cleanup, U!tick

LEMMA TypeInit == Init => TypeOK
<1>. SUFFICES ASSUME Init PROVE TypeOK
  BY Zenon
<1>. USE RelayAssumption
<1>1. S!TypeOK
  BY DEF Init, S!OwnInit, S!TypeOK, S!Phase, S!Idle, S!Task
<1>2. U!TypeOK
  BY DEF Init, U!OwnInit, U!TypeOK, U!Forever, U!Idle, U!Task
<1>. QED
  BY <1>1, <1>2 DEF Init, TypeOK, Transport, Outcome

LEMMA TypeStep ==
    ASSUME RelayInv, RelayInv', TypeOK, [Next]_vars
    PROVE  TypeOK'
<1>. USE DEF RelayInv
<1>0. Len(frames') <= MaxFrames
  BY FramesBounded, Zenon DEF TypeOK
<1>1. ASSUME UNCHANGED stream PROVE S!TypeOK'
  BY <1>1, Zenon DEF stream, TypeOK, S!TypeOK, S!Phase, S!Task
<1>2. ASSUME UNCHANGED udp PROVE U!TypeOK'
  BY <1>2 DEF udp, TypeOK, U!TypeOK, U!Forever, U!Task
<1>3. outcome \in [1..MaxFrames -> Outcome]
  BY DEF TypeOK
<1>4. ASSUME NEW ids, Refuse(ids) PROVE outcome' \in [1..MaxFrames -> Outcome]
  BY <1>3, <1>4, Zenon DEF Refuse, Outcome
<1>5. CASE StreamStep
  BY <1>0, <1>2, <1>5, StreamTyped, FrameTypes, Zenon DEF StreamStep
<1>6. CASE UdpStep
  BY <1>0, <1>1, <1>6, UdpTyped, FrameTypes, Zenon DEF UdpStep
<1>7. CASE dispatch
  BY <1>0, <1>1, <1>2, <1>3, <1>4, <1>7, FrameTypes, Zenon DEF dispatch
<1>8. ASSUME NEW t \in Transport, bind(t) \/ bind_fails(t) PROVE TypeOK'
  BY <1>0, <1>1, <1>2, <1>3, <1>4, <1>8, FrameTypes, Zenon DEF bind, bind_fails
<1>9. CASE UNCHANGED vars
  BY <1>0, <1>1, <1>2, <1>3, <1>9, FrameTypes, Zenon DEF vars, queues
<1>10. ASSUME NEW t \in Transport, NEW n \in Target(t), from_mesh(n, t) PROVE TypeOK'
  BY <1>0, <1>1, <1>2, <1>3, <1>10, FrameTypes, ZenonT(30) DEF from_mesh
<1>. QED
  BY <1>5, <1>6, <1>7, <1>8, <1>9, <1>10 DEF Next

-----------------------------------------------------------------------------
(* Every step keeps each frame in one place until it is answered.          *)

\* A task without a frame is idle.
Busy == \A t \in S!Task : stream_sending[t].id = 0 => stream_sending[t] = S!Idle

LEMMA BusyInit == Init => Busy
BY DEF Init, S!OwnInit, Busy, S!Task

LEMMA BusyStep ==
    ASSUME RelayInv, Busy, [Next]_vars
    PROVE  Busy'
<1>1. CASE UNCHANGED stream_sending
  BY <1>1 DEF Busy, S!Task
<1>2. ASSUME NEW t \in S!Task, NEW rec, rec.id = 0 => rec = S!Idle,
             stream_sending' = [stream_sending EXCEPT ![t] = rec]
      PROVE  Busy'
  <2>1. stream_sending' = [u \in S!Task |-> IF u = t THEN rec ELSE stream_sending[u]]
    BY <1>2 DEF RelayInv, StreamInv, StreamTypes
  <2>. QED
    BY <1>2, <2>1 DEF Busy, S!Task
<1>3. ASSUME NEW t \in S!Task, NEW k, k # 0, NEW n, NEW b, S!Lookup(t, k, n, b)
      PROVE  Busy'
  <2>. DEFINE rec == [id |-> k, built |-> b, targets |-> stream_peers[n],
                      present |-> S!Present(n)]
  <2>1. rec.id # 0 /\ stream_sending' = [stream_sending EXCEPT ![t] = rec]
    BY <1>3, ZenonT(30) DEF S!Lookup
  <2>. HIDE DEF rec
  <2>. QED
    BY <1>2, <2>1, Zenon
<1>4. ASSUME NEW c \in Conn, NEW n \in Node, S!read_send(c, n) PROVE Busy'
  <2>1. Len(frames) + 1 # 0 /\ c \in S!Task
    BY DEF RelayInv, QueueInv, S!Task
  <2>. QED
    BY <1>3, <1>4, <2>1 DEF S!read_send
<1>5. ASSUME S!take_packet PROVE Busy'
  <2>1. Head(stream_rx) = stream_rx[1] /\ 1 \in 1..Len(stream_rx)
    BY <1>5, TailKeeps, Zenon DEF S!take_packet, RelayInv, QueueInv, Elements
  <2>2. Head(stream_rx) # 0 /\ MeshTask \in S!Task
    BY <2>1 DEF RelayInv, QueueInv, Elements, S!Task
  <2>. QED
    BY <1>3, <1>5, <2>2, Zenon DEF S!take_packet
<1>6. ASSUME NEW t \in S!Task, S!push(t) PROVE Busy'
  BY <1>2, <1>6, Zenon DEF S!push
<1>7. CASE StreamStep
  BY <1>1, <1>4, <1>5, <1>6, <1>7 DEF StreamStep, S!Next, S!connect, S!reject, S!disconnect,
     S!cleanup, S!write_fails, S!register
<1>. QED
  BY <1>1, <1>7, Zenon DEF Next, from_mesh, dispatch, bind, bind_fails, UdpStep, vars, stream

\* What is not touched keeps its contents.
LEMMA ContentKept ==
    ASSUME NEW X,
           to_local' = to_local \/ <<"to_local", 0>> \in X,
           stream_rx' = stream_rx \/ <<"stream_rx", 0>> \in X,
           udp_rx' = udp_rx \/ <<"udp_rx", 0>> \in X,
           \A t \in S!Task : stream_sending'[t] = stream_sending[t] \/ <<"stream", t>> \in X,
           \A t \in U!Task : udp_sending'[t] = udp_sending[t] \/ <<"udp", t>> \in X
    PROVE  \A p \in Spot : p \notin X => Content'[p] = Content[p]
<1>. SUFFICES ASSUME NEW p \in Spot, p \notin X PROVE Content'[p] = Content[p]
  BY Zenon
<1>1. CASE p = <<"to_local", 0>>
  BY <1>1, ContentIs, ContentNext, Zenon
<1>2. CASE p = <<"stream_rx", 0>>
  BY <1>2, ContentIs, ContentNext, Zenon
<1>3. CASE p = <<"udp_rx", 0>>
  BY <1>3, ContentIs, ContentNext, Zenon
<1>4. ASSUME NEW t \in S!Task, p = <<"stream", t>> PROVE Content'[p] = Content[p]
  <2>1. stream_sending'[t] = stream_sending[t]
    BY <1>4, Zenon
  <2>2. Content[<<"stream", t>>] = {stream_sending[t].id} \ {0}
    BY ContentIs, Zenon
  <2>3. Content'[<<"stream", t>>] = {stream_sending'[t].id} \ {0}
    BY ContentNext, Zenon
  <2>. QED
    BY <1>4, <2>1, <2>2, <2>3, Zenon
<1>5. ASSUME NEW t \in U!Task, p = <<"udp", t>> PROVE Content'[p] = Content[p]
  <2>1. udp_sending'[t] = udp_sending[t]
    BY <1>5, Zenon
  <2>2. Content[<<"udp", t>>] = {udp_sending[t].id} \ {0}
    BY ContentIs, Zenon
  <2>3. Content'[<<"udp", t>>] = {udp_sending'[t].id} \ {0}
    BY ContentNext, ZenonT(30)
  <2>. QED
    BY <1>5, <2>1, <2>2, <2>3, Zenon
<1>. QED
  BY <1>1, <1>2, <1>3, <1>4, <1>5, SpotCases, ZenonT(30)

AllDistinct == Distinct(to_local) /\ Distinct(stream_rx) /\ Distinct(udp_rx)

LEMMA PlacedNext ==
    ASSUME AllDistinct', InOne(Content', outcome', Len(frames'))
    PROVE  PlaceInv'
BY DEF AllDistinct, PlaceInv, Distinct, InOne, Spot, S!Task, U!Task

LEMMA NoneTouchedInOne ==
    ASSUME PlaceInv, UNCHANGED <<to_local, stream_rx, udp_rx, stream_sending, udp_sending>>,
           UNCHANGED outcome, Len(frames') = Len(frames)
    PROVE  PlaceInv'
<1>1. \A p \in Spot : Content'[p] = Content[p]
  <2>. DEFINE X == {}
  <2>1. \A p \in Spot : p \notin X => Content'[p] = Content[p]
    BY ContentKept
  <2>. QED
    BY <2>1
<1>. DEFINE c == Content
            c2 == Content'
<1>2. InOne(c, outcome, Len(frames)) /\ \A p \in Spot : c2[p] = c[p]
  BY <1>1, Zenon DEF PlaceInv
<1>. HIDE DEF c, c2
<1>3. InOne(c2, outcome, Len(frames))
  BY <1>2 DEF InOne
<1>4. AllDistinct'
  BY Zenon DEF AllDistinct, PlaceInv, Distinct
<1>5. InOne(c2, outcome', Len(frames'))
  BY <1>3, Zenon
<1>. QED
  BY <1>4, <1>5, PlacedNext, Zenon DEF c2

LEMMA NewPlaced ==
    ASSUME PlaceInv, QueueInv, Len(frames) < MaxFrames, Len(frames') = Len(frames) + 1,
           UNCHANGED outcome, AllDistinct', NEW p \in Spot,
           Content'[p] = Content[p] \cup {Len(frames) + 1},
           \A r \in Spot : r \notin {p} => Content'[r] = Content[r]
    PROVE  PlaceInv'
<1>. DEFINE c == Content
            c2 == Content'
<1>1. /\ InOne(c, outcome, Len(frames)) /\ Len(frames) \in Nat
      /\ \A r \in Spot : IF r = p THEN c2[r] = c[r] \cup {Len(frames) + 1} ELSE c2[r] = c[r]
  BY DEF PlaceInv, QueueInv
<1>. HIDE DEF c, c2
<1>2. InOne(c2, outcome, Len(frames) + 1)
  BY <1>1, NewInOne, Zenon
<1>. QED
  BY <1>2, PlacedNext DEF c2

LEMMA MovePlaced ==
    ASSUME PlaceInv, QueueInv, Len(frames') = Len(frames), UNCHANGED outcome, AllDistinct',
           NEW p \in Spot, NEW r \in Spot, p # r, NEW k \in Content[p],
           Content'[p] = Content[p] \ {k}, Content'[r] = Content[r] \cup {k},
           \A q \in Spot : q \notin {p, r} => Content'[q] = Content[q]
    PROVE  PlaceInv'
<1>. DEFINE c == Content
            c2 == Content'
<1>1. /\ InOne(c, outcome, Len(frames)) /\ Len(frames) \in Nat /\ k \in c[p]
      /\ c2[p] = c[p] \ {k} /\ c2[r] = c[r] \cup {k}
      /\ \A q \in Spot : q \notin {p, r} => c2[q] = c[q]
  BY QueuesWaiting, ZenonT(30) DEF PlaceInv
<1>. HIDE DEF c, c2
<1>2. InOne(c2, outcome, Len(frames))
  BY <1>1, MoveInOne
<1>. QED
  BY <1>2, PlacedNext, Zenon DEF c2

LEMMA AnswerPlaced ==
    ASSUME PlaceInv, QueueInv, Len(frames') = Len(frames), AllDistinct',
           NEW p \in Spot, NEW ids, ids \subseteq Content[p],
           Content'[p] = Content[p] \ ids,
           \A q \in Spot : q \notin {p} => Content'[q] = Content[q],
           \A k \in 1..MaxFrames : IF k \in ids THEN outcome'[k] # "none"
                                                ELSE outcome'[k] = outcome[k]
    PROVE  PlaceInv'
<1>. DEFINE c == Content
            c2 == Content'
            o2 == outcome'
<1>1. /\ InOne(c, outcome, Len(frames)) /\ Len(frames) \in Nat /\ ids \subseteq c[p]
      /\ \A q \in Spot : IF q = p THEN c2[q] = c[q] \ ids ELSE c2[q] = c[q]
      /\ \A k \in 1..MaxFrames : IF k \in ids THEN o2[k] # "none" ELSE o2[k] = outcome[k]
  BY QueuesWaiting, ZenonT(30) DEF PlaceInv
<1>. HIDE DEF c, c2, o2
<1>2. InOne(c2, o2, Len(frames))
  BY <1>1, AnswerInOne
<1>. QED
  BY <1>2, PlacedNext, Zenon DEF c2, o2

\* An idle task has no frame, and the frame of another one is not answered.
LEMMA TaskContent ==
    /\ \A t \in S!Task : <<"stream", t>> \in Spot
    /\ \A t \in U!Task : <<"udp", t>> \in Spot
    /\ <<"to_local", 0>> \in Spot /\ <<"stream_rx", 0>> \in Spot /\ <<"udp_rx", 0>> \in Spot
BY DEF Spot

LEMMA FromMeshPlaced ==
    ASSUME PlaceInv, QueueInv, NEW t \in Transport, NEW n \in Target(t), from_mesh(n, t)
    PROVE  PlaceInv'
<1>. DEFINE p == <<"to_local", 0>>
<1>1. /\ to_local' = Append(to_local, Len(frames) + 1)
      /\ UNCHANGED <<stream_rx, udp_rx, stream_sending, udp_sending, outcome>>
      /\ Len(frames) < MaxFrames /\ frames' = Append(frames, [to |-> n, via |-> t])
  BY Zenon DEF from_mesh, stream, udp
<1>2. Len(frames') = Len(frames) + 1 /\ Len(frames) \in Nat /\ to_local \in Seq(Nat)
  BY <1>1 DEF QueueInv, Target
<1>3. /\ Queued(to_local') = Queued(to_local) \cup {Len(frames) + 1}
      /\ Distinct(to_local')
  <2>1. Queued(to_local) \subseteq 1..Len(frames)
    BY QueuesWaiting, Zenon
  <2>2. Len(frames) + 1 \in Nat /\ Len(frames) + 1 \notin Queued(to_local)
    BY <1>2, <2>1
  <2>3. Distinct(to_local)
    BY Zenon DEF PlaceInv
  <2>. QED
    BY <1>1, <1>2, <2>2, <2>3, QueuedAppend, ZenonT(30)
<1>4. Content'[p] = Content[p] \cup {Len(frames) + 1}
  BY <1>3, ContentIs, ContentNext
<1>5. \A r \in Spot : r \notin {p} => Content'[r] = Content[r]
  BY <1>1, ContentKept, ZenonT(30)
<1>6. AllDistinct' /\ p \in Spot
  BY <1>1, <1>3, TaskContent, ZenonT(30) DEF AllDistinct, PlaceInv, Distinct
<1>. HIDE DEF p
<1>. QED
  BY <1>1, <1>2, <1>4, <1>5, <1>6, NewPlaced, Zenon

LEMMA DispatchPlaced ==
    ASSUME PlaceInv, QueueInv, TypeOK, dispatch
    PROVE  PlaceInv'
<1>. DEFINE p == <<"to_local", 0>>
            k == Head(to_local)
<1>1. /\ to_local # <<>> /\ to_local' = Tail(to_local)
      /\ UNCHANGED <<stream_sending, udp_sending, frames>>
  BY Zenon DEF dispatch, stream, udp
<1>2. /\ k \in Queued(to_local) /\ Queued(to_local') = Queued(to_local) \ {k}
      /\ Distinct(to_local')
  BY <1>1, QueuedTail, Zenon DEF QueueInv, PlaceInv
<1>3. k \in Content[p] /\ Content'[p] = Content[p] \ {k} /\ p \in Spot /\ k \in Nat
  <2>1. Queued(to_local) \subseteq Nat
    BY DEF QueueInv, Queued
  <2>. QED
    BY <1>2, <2>1, ContentIs, ContentNext, TaskContent, Zenon
<1>4. ASSUME NEW q, q \in Seq(Nat), Distinct(q), NEW r \in Spot, r # p, Content[r] = Queued(q)
      PROVE  Queued(Append(q, k)) = Queued(q) \cup {k} /\ Distinct(Append(q, k))
  <2>1. k \notin Queued(q)
    BY <1>3, <1>4 DEF PlaceInv, InOne
  <2>. QED
    BY <1>3, <1>4, <2>1, QueuedAppend, ZenonT(30)
<1>. HIDE DEF k
<1>5. CASE status[via(k)] = "failed" /\ Refuse({k}) /\ UNCHANGED <<stream_rx, udp_rx>>
  <2>1. \A j \in 1..MaxFrames : IF j \in {k} THEN outcome'[j] # "none" ELSE outcome'[j] = outcome[j]
    BY <1>5, Zenon DEF Refuse, TypeOK
  <2>2. \A r \in Spot : r \notin {p} => Content'[r] = Content[r]
    BY <1>1, <1>5, ContentKept, Zenon
  <2>3. AllDistinct' /\ {k} \subseteq Content[p]
    BY <1>2, <1>3, <1>5, ZenonT(30) DEF AllDistinct, PlaceInv, Distinct
  <2>. HIDE DEF p
  <2>. QED
    BY <1>1, <1>3, <2>1, <2>2, <2>3, AnswerPlaced, Zenon
<1>6. CASE stream_rx' = Append(stream_rx, k) /\ UNCHANGED <<udp_rx, outcome>>
  <2>. DEFINE r == <<"stream_rx", 0>>
  <2>1. r # p /\ r \in Spot
    BY TaskContent, Zenon
  <2>2. Queued(stream_rx') = Queued(stream_rx) \cup {k} /\ Distinct(stream_rx')
    BY <1>4, <1>6, <2>1, ContentIs, Zenon DEF QueueInv, Elements, PlaceInv
  <2>3. Content'[r] = Content[r] \cup {k}
    BY <2>2, ContentIs, ContentNext, Zenon
  <2>4. \A q \in Spot : q \notin {p, r} => Content'[q] = Content[q]
    BY <1>1, <1>6, ContentKept, Zenon
  <2>5. AllDistinct'
    BY <1>2, <1>6, <2>2, ZenonT(30) DEF AllDistinct, PlaceInv, Distinct
  <2>. HIDE DEF p, r
  <2>. QED
    BY <1>1, <1>3, <1>6, <2>1, <2>3, <2>4, <2>5, MovePlaced, Zenon
<1>7. CASE udp_rx' = Append(udp_rx, k) /\ UNCHANGED <<stream_rx, outcome>>
  <2>. DEFINE r == <<"udp_rx", 0>>
  <2>1. r # p /\ r \in Spot
    BY TaskContent, Zenon
  <2>2. Queued(udp_rx') = Queued(udp_rx) \cup {k} /\ Distinct(udp_rx')
    BY <1>4, <1>7, <2>1, ContentIs, ZenonT(30) DEF QueueInv, Elements, PlaceInv
  <2>3. Content'[r] = Content[r] \cup {k}
    BY <2>2, ContentIs, ContentNext
  <2>4. \A q \in Spot : q \notin {p, r} => Content'[q] = Content[q]
    BY <1>1, <1>7, ContentKept, Zenon
  <2>5. AllDistinct'
    BY <1>2, <1>7, <2>2, ZenonT(30) DEF AllDistinct, PlaceInv, Distinct
  <2>. HIDE DEF p, r
  <2>. QED
    BY <1>1, <1>3, <1>7, <2>1, <2>3, <2>4, <2>5, MovePlaced, Zenon
<1>. QED
  BY <1>5, <1>6, <1>7, Zenon DEF dispatch, k

\* A failed bind answers every packet in the relay's queue.
LEMMA BindPlaced ==
    ASSUME PlaceInv, QueueInv, TypeOK, NEW t \in Transport, bind(t) \/ bind_fails(t)
    PROVE  PlaceInv'
<1>1. CASE bind(t)
  BY <1>1, NoneTouchedInOne, Zenon DEF bind, stream, udp
<1>2. ASSUME NEW p \in Spot, bind_fails(t), NEW ids, ids = Content[p], Content'[p] = {},
             Refuse(ids), AllDistinct', \A q \in Spot : q \notin {p} => Content'[q] = Content[q]
      PROVE  PlaceInv'
  <2>1. \A j \in 1..MaxFrames : IF j \in ids THEN outcome'[j] # "none" ELSE outcome'[j] = outcome[j]
    BY <1>2, ZenonT(30) DEF Refuse, TypeOK
  <2>2. UNCHANGED frames /\ ids \subseteq Content[p] /\ Content'[p] = Content[p] \ ids
    BY <1>2, Zenon DEF bind_fails
  <2>. QED
    BY <1>2, <2>1, <2>2, AnswerPlaced
<1>a. Queued(<<>>) = {} /\ Distinct(<<>>)
  BY DEF Queued, Distinct
<1>3. CASE bind_fails(t) /\ t = "stream"
  <2>1. /\ stream_rx' = <<>> /\ UNCHANGED <<to_local, udp_rx, stream_sending, udp_sending>>
        /\ Refuse(Queued(stream_rx))
    BY <1>3, Zenon DEF bind_fails, stream, udp
  <2>. DEFINE p == <<"stream_rx", 0>>
  <2>2. p \in Spot /\ Content[p] = Queued(stream_rx) /\ Content'[p] = {}
    BY <2>1, <1>a, ContentIs, ContentNext, TaskContent, Zenon
  <2>3. \A q \in Spot : q \notin {p} => Content'[q] = Content[q]
    BY <2>1, ContentKept, ZenonT(30)
  <2>4. AllDistinct'
    BY <2>1, <1>a, ZenonT(30) DEF AllDistinct, PlaceInv, Distinct
  <2>. HIDE DEF p
  <2>. QED
    BY <1>2, <1>3, <2>1, <2>2, <2>3, <2>4, ZenonT(30)
<1>4. CASE bind_fails(t) /\ t = "udp"
  <2>1. /\ udp_rx' = <<>> /\ UNCHANGED <<to_local, stream_rx, stream_sending, udp_sending>>
        /\ Refuse(Queued(udp_rx))
    BY <1>4, Zenon DEF bind_fails, stream, udp
  <2>. DEFINE p == <<"udp_rx", 0>>
  <2>2. p \in Spot /\ Content[p] = Queued(udp_rx) /\ Content'[p] = {}
    BY <2>1, <1>a, ContentIs, ContentNext, TaskContent
  <2>3. \A q \in Spot : q \notin {p} => Content'[q] = Content[q]
    BY <2>1, ContentKept, ZenonT(30)
  <2>4. AllDistinct'
    BY <2>1, <1>a, ZenonT(30) DEF AllDistinct, PlaceInv, Distinct
  <2>. HIDE DEF p
  <2>. QED
    BY <1>2, <1>4, <2>1, <2>2, <2>3, <2>4, Zenon
<1>. QED
  BY <1>1, <1>3, <1>4, Zenon DEF Transport

LEMMA ReadSendPlaced ==
    ASSUME PlaceInv, RelayInv, TypeOK, NEW c \in Conn, NEW n \in Node, S!read_send(c, n),
           UNCHANGED <<udp, to_local, udp_rx, status>>
    PROVE  PlaceInv'
<1>. DEFINE p == <<"stream", c>>
            k == Len(frames) + 1
<1>0. c \in S!Task /\ p \in Spot
  BY TaskContent DEF S!Task
<1>1. /\ UNCHANGED <<to_local, stream_rx, udp_rx, udp_sending, outcome>>
      /\ Len(frames) < MaxFrames /\ frames' = Append(frames, [to |-> n, via |-> "stream"])
      /\ stream_sending[c] = S!Idle
  BY Zenon DEF S!read_send, udp
<1>2. Len(frames') = k /\ Len(frames) \in Nat
  BY <1>1 DEF RelayInv, QueueInv, Transport
<1>3. /\ stream_sending'[c].id = k
      /\ \A t \in S!Task : t # c => stream_sending'[t] = stream_sending[t]
  <2>1. PICK b : S!Lookup(c, k, n, b)
    BY DEF S!read_send
  <2>2. DOMAIN stream_sending = S!Task
    BY Zenon DEF RelayInv, StreamInv, StreamTypes
  <2>. QED
    BY <1>0, <2>1, <2>2, Zenon DEF S!Lookup
<1>. HIDE DEF k
<1>4. Content'[p] = Content[p] \cup {k}
  <2>1. stream_sending[c].id = 0
    BY <1>1, IdleIds, Zenon
  <2>2. Content[p] = {}
    BY <1>0, <2>1, ContentIs, ZenonT(30)
  <2>3. Content'[p] = {k}
    <3>1. Content'[p] = {stream_sending'[c].id} \ {0}
      BY <1>0, ContentNext, Zenon
    <3>2. k # 0
      BY <1>2 DEF k
    <3>. QED
      BY <1>3, <3>1, <3>2
  <2>. QED
    BY <2>2, <2>3, ZenonT(30)
<1>5. \A r \in Spot : r \notin {p} => Content'[r] = Content[r]
  BY <1>1, <1>3, ContentKept, Zenon
<1>6. AllDistinct'
  BY <1>1, ZenonT(30) DEF AllDistinct, PlaceInv, Distinct
<1>. HIDE DEF p
<1>. QED
  BY <1>0, <1>1, <1>2, <1>4, <1>5, <1>6, NewPlaced, Zenon DEF RelayInv, k

LEMMA StreamTakePlaced ==
    ASSUME PlaceInv, RelayInv, TypeOK, S!take_packet,
           UNCHANGED <<udp, to_local, udp_rx, status>>
    PROVE  PlaceInv'
<1>. DEFINE p == <<"stream_rx", 0>>
            r == <<"stream", MeshTask>>
            k == Head(stream_rx)
<1>0. MeshTask \in S!Task /\ p \in Spot /\ r \in Spot /\ p # r
  BY TaskContent, Zenon DEF S!Task
<1>1. /\ UNCHANGED <<to_local, udp_rx, udp_sending, outcome, frames>>
      /\ stream_rx # <<>> /\ stream_rx' = Tail(stream_rx)
      /\ stream_sending[MeshTask] = S!Idle
  BY Zenon DEF S!take_packet, udp
<1>2. /\ k \in Queued(stream_rx) /\ Queued(stream_rx') = Queued(stream_rx) \ {k}
      /\ Distinct(stream_rx')
  BY <1>1, QueuedTail, Zenon DEF RelayInv, QueueInv, Elements, PlaceInv
<1>3. /\ stream_sending'[MeshTask].id = k
      /\ \A t \in S!Task : t # MeshTask => stream_sending'[t] = stream_sending[t]
  <2>1. DOMAIN stream_sending = S!Task
    BY ZenonT(30) DEF RelayInv, StreamInv, StreamTypes
  <2>. QED
    BY <1>0, <2>1, Zenon DEF S!Lookup, S!take_packet
<1>. HIDE DEF k
<1>4. Content'[p] = Content[p] \ {k} /\ k \in Content[p]
  BY <1>2, ContentIs, ContentNext
<1>5. k # 0
  BY <1>0, <1>4, 0 \notin 1..Len(frames), Zenon DEF PlaceInv, InOne
<1>6. Content'[r] = Content[r] \cup {k}
  <2>1. Content[r] = {}
    BY <1>0, <1>1, IdleIds, NothingHeld, ZenonT(30)
  <2>2. Content'[r] = {k}
    BY <1>0, <1>3, <1>5, ContentNext
  <2>. QED
    BY <2>1, <2>2, Zenon
<1>7. \A q \in Spot : q \notin {p, r} => Content'[q] = Content[q]
  BY <1>1, <1>3, ContentKept, ZenonT(30)
<1>8. AllDistinct'
  BY <1>1, <1>2 DEF AllDistinct, PlaceInv, Distinct
<1>. HIDE DEF p, r
<1>. QED
  BY <1>0, <1>1, <1>4, <1>6, <1>7, <1>8, MovePlaced DEF RelayInv

LEMMA PushPlaced ==
    ASSUME PlaceInv, RelayInv, TypeOK, Busy, NEW t \in S!Task, S!push(t),
           UNCHANGED <<udp, to_local, udp_rx, status>>
    PROVE  PlaceInv'
<1>. DEFINE p == <<"stream", t>>
            k == stream_sending[t].id
<1>0. p \in Spot
  BY TaskContent
<1>a. stream_sending[t].built = TRUE /\ stream_sending[t] # S!Idle
  BY ZenonT(30) DEF S!push, RelayInv, StreamInv, Copied
<1>1. /\ UNCHANGED <<to_local, stream_rx, udp_rx, udp_sending, frames>>
      /\ k # 0 /\ \E o \in {"delivered", "not delivered"} : outcome' = [outcome EXCEPT ![k] = o]
      /\ stream_sending' = [stream_sending EXCEPT ![t] = S!Idle]
  <2>1. k # 0
    BY <1>a, Zenon DEF Busy
  <2>2. \E o \in {"delivered", "not delivered"} : outcome' = [outcome EXCEPT ![k] = o]
    <3>1. outcome' = [outcome EXCEPT ![k] =
                         IF S!sent_any(stream_sending[t].targets) THEN "delivered"
                                                                  ELSE "not delivered"]
      BY <1>a, Zenon DEF S!push
    <3>. QED
      BY <3>1, ZenonT(30)
  <2>. QED
    BY <1>a, <2>1, <2>2, Zenon DEF S!push, udp
<1>2. /\ stream_sending'[t] = S!Idle
      /\ \A u \in S!Task : u # t => stream_sending'[u] = stream_sending[u]
  BY <1>1, ZenonT(30) DEF RelayInv, StreamInv, StreamTypes
<1>3. Content[p] = {k} /\ Content'[p] = {}
  <2>1. Content[p] = {k} \ {0}
    BY ContentIs, ZenonT(30)
  <2>2. stream_sending'[t].id = 0
    BY <1>2, IdleIds, Zenon
  <2>3. Content'[p] = {}
    BY <2>2, NothingHeld, ZenonT(30)
  <2>. QED
    BY <1>1, <2>1, <2>3, ZenonT(30)
<1>. HIDE DEF k
<1>4. \A q \in Spot : q \notin {p} => Content'[q] = Content[q]
  BY <1>1, <1>2, ContentKept, Zenon
<1>5. \A j \in 1..MaxFrames : IF j \in {k} THEN outcome'[j] # "none" ELSE outcome'[j] = outcome[j]
  BY <1>1, Zenon DEF TypeOK
<1>6. AllDistinct'
  BY <1>1, Zenon DEF AllDistinct, PlaceInv, Distinct
<1>. HIDE DEF p
<1>7. {k} \subseteq Content[p] /\ Content'[p] = Content[p] \ {k}
  BY <1>3, Zenon
<1>. QED
  BY <1>0, <1>1, <1>4, <1>5, <1>6, <1>7, AnswerPlaced, Zenon DEF RelayInv

LEMMA RecvSendPlaced ==
    ASSUME PlaceInv, RelayInv, TypeOK, NEW n \in UdpNode, NEW a \in Addr, NEW to \in UdpNode,
           U!recv_send(n, a, to), UNCHANGED <<stream, to_local, stream_rx, status>>
    PROVE  PlaceInv'
<1>. DEFINE p == <<"udp", "loop">>
            k == Len(frames) + 1
<1>0. "loop" \in U!Task /\ p \in Spot
  BY TaskContent, Zenon DEF U!Task
<1>1. /\ UNCHANGED <<to_local, stream_rx, udp_rx, stream_sending, outcome>>
      /\ Len(frames) < MaxFrames /\ frames' = Append(frames, [to |-> to, via |-> "udp"])
      /\ udp_sending["loop"] = U!Idle
  BY Zenon DEF U!recv_send, stream
<1>2. Len(frames') = k /\ Len(frames) \in Nat
  BY <1>1 DEF RelayInv, QueueInv, Transport
<1>3. /\ udp_sending'["loop"].id = k
      /\ \A t \in U!Task : t # "loop" => udp_sending'[t] = udp_sending[t]
  <2>1. DOMAIN udp_sending = U!Task
    BY Zenon DEF RelayInv, UdpRoutes
  <2>. QED
    BY <1>0, <2>1, Zenon DEF U!recv_send
<1>. HIDE DEF k
<1>4. Content'[p] = Content[p] \cup {k}
  <2>0. Content[p] = {udp_sending["loop"].id} \ {0} /\ udp_sending["loop"].id = 0
    <3>1. Content[p] = {udp_sending["loop"].id} \ {0}
      BY <1>0, ContentIs, Zenon
    <3>2. udp_sending["loop"].id = 0
      BY <1>1, IdleIds, Zenon
    <3>. QED
      BY <3>1, <3>2, Zenon
  <2>1. Content[p] = {}
    BY <2>0, ZenonT(30)
  <2>2. Content'[p] = {k}
    BY <1>0, <1>2, <1>3, ContentNext DEF k
  <2>. QED
    BY <2>1, <2>2, Zenon
<1>5. \A r \in Spot : r \notin {p} => Content'[r] = Content[r]
  BY <1>1, <1>3, ContentKept, Zenon
<1>6. AllDistinct'
  BY <1>1, Zenon DEF AllDistinct, PlaceInv, Distinct
<1>. HIDE DEF p
<1>. QED
  BY <1>0, <1>1, <1>2, <1>4, <1>5, <1>6, NewPlaced, Zenon DEF RelayInv, k

LEMMA UdpTakePlaced ==
    ASSUME PlaceInv, RelayInv, TypeOK, U!take_packet,
           UNCHANGED <<stream, to_local, stream_rx, status>>
    PROVE  PlaceInv'
<1>. DEFINE p == <<"udp_rx", 0>>
            r == <<"udp", "mesh">>
            k == Head(udp_rx)
<1>0. "mesh" \in U!Task /\ p \in Spot /\ r \in Spot /\ p # r
  BY TaskContent, Zenon DEF U!Task
<1>1. /\ UNCHANGED <<to_local, stream_rx, stream_sending, outcome, frames>>
      /\ udp_rx # <<>> /\ udp_rx' = Tail(udp_rx)
      /\ udp_sending["mesh"] = U!Idle
  BY Zenon DEF U!take_packet, stream
<1>2. /\ k \in Queued(udp_rx) /\ Queued(udp_rx') = Queued(udp_rx) \ {k}
      /\ Distinct(udp_rx')
  BY <1>1, QueuedTail, ZenonT(30) DEF RelayInv, QueueInv, Elements, PlaceInv
<1>3. /\ udp_sending'["mesh"].id = k
      /\ \A t \in U!Task : t # "mesh" => udp_sending'[t] = udp_sending[t]
  <2>1. DOMAIN udp_sending = U!Task
    BY Zenon DEF RelayInv, UdpRoutes
  <2>. QED
    BY <1>0, <2>1 DEF U!take_packet
<1>. HIDE DEF k
<1>4. Content'[p] = Content[p] \ {k} /\ k \in Content[p]
  BY <1>2, ContentIs, ContentNext, Zenon
<1>5. k # 0
  BY <1>0, <1>4, 0 \notin 1..Len(frames), ZenonT(30) DEF PlaceInv, InOne
<1>6. Content'[r] = Content[r] \cup {k}
  <2>1. Content[r] = {}
    BY <1>0, <1>1, IdleIds, NothingHeld, ZenonT(30)
  <2>2. Content'[r] = {k}
    BY <1>0, <1>3, <1>5, ContentNext
  <2>. QED
    BY <2>1, <2>2, Zenon
<1>7. \A q \in Spot : q \notin {p, r} => Content'[q] = Content[q]
  BY <1>1, <1>3, ContentKept, Zenon
<1>8. AllDistinct'
  BY <1>1, <1>2 DEF AllDistinct, PlaceInv, Distinct
<1>. HIDE DEF p, r
<1>. QED
  BY <1>0, <1>1, <1>4, <1>6, <1>7, <1>8, MovePlaced, Zenon DEF RelayInv

LEMMA SendToPlaced ==
    ASSUME PlaceInv, RelayInv, TypeOK, NEW t \in U!Task, U!send_to(t),
           UNCHANGED <<stream, to_local, stream_rx, status>>
    PROVE  PlaceInv'
<1>. DEFINE p == <<"udp", t>>
            k == udp_sending[t].id
<1>0. p \in Spot
  BY TaskContent
<1>1. /\ UNCHANGED <<to_local, stream_rx, udp_rx, stream_sending, frames>>
      /\ \E o \in {"delivered", "not delivered"} : outcome' = [outcome EXCEPT ![k] = o]
      /\ udp_sending' = [udp_sending EXCEPT ![t] = U!Idle]
      /\ udp_sending[t] # U!Idle
  BY Zenon DEF U!send_to, stream
<1>a. k # 0
  <2>1. Len(frames) \in Nat
    BY DEF RelayInv, QueueInv
  <2>2. k \in 1..Len(frames)
    BY <1>1, Zenon DEF RelayInv, UdpRoutes, Datagram
  <2>. QED
    BY <2>1, <2>2
<1>2. /\ udp_sending'[t] = U!Idle
      /\ \A u \in U!Task : u # t => udp_sending'[u] = udp_sending[u]
  BY <1>1, ZenonT(30) DEF RelayInv, UdpRoutes
<1>3. Content[p] = {k} /\ Content'[p] = {}
  <2>1. Content[p] = {k} \ {0}
    BY ContentIs, ZenonT(30)
  <2>2. udp_sending'[t].id = 0
    BY <1>2, IdleIds, Zenon
  <2>3. Content'[p] = {}
    BY <2>2, NothingHeld, ZenonT(30)
  <2>. QED
    BY <1>a, <2>1, <2>3, ZenonT(30)
<1>. HIDE DEF k
<1>4. \A q \in Spot : q \notin {p} => Content'[q] = Content[q]
  BY <1>1, <1>2, ContentKept, Zenon
<1>5. \A j \in 1..MaxFrames : IF j \in {k} THEN outcome'[j] # "none" ELSE outcome'[j] = outcome[j]
  BY <1>1, ZenonT(30) DEF TypeOK
<1>6. AllDistinct'
  BY <1>1, ZenonT(30) DEF AllDistinct, PlaceInv, Distinct
<1>. HIDE DEF p
<1>7. {k} \subseteq Content[p] /\ Content'[p] = Content[p] \ {k}
  BY <1>3, ZenonT(30)
<1>. QED
  BY <1>0, <1>1, <1>4, <1>5, <1>6, <1>7, AnswerPlaced, Zenon DEF RelayInv

LEMMA PlaceInit == Init => PlaceInv
<1>. SUFFICES ASSUME Init PROVE PlaceInv
  OBVIOUS
<1>1. Queued(<<>>) = {} /\ Distinct(<<>>)
  BY DEF Queued, Distinct
<1>2. \A p \in Spot : Content[p] = {}
  <2>. SUFFICES ASSUME NEW p \in Spot PROVE Content[p] = {}
    BY Zenon
  <2>1. CASE p \in {<<"to_local", 0>>, <<"stream_rx", 0>>, <<"udp_rx", 0>>}
    BY <1>1, <2>1, ContentIs, ZenonT(30) DEF Init
  <2>2. ASSUME NEW t \in S!Task, p = <<"stream", t>> PROVE Content[p] = {}
    <3>0. stream_sending[t] = S!Idle
      BY <2>2, Zenon DEF Init, S!OwnInit
    <3>1. stream_sending[t].id = 0
      BY <3>0, IdleIds, Zenon
    <3>. QED
      BY <2>2, <3>1, ContentIs
  <2>3. ASSUME NEW t \in U!Task, p = <<"udp", t>> PROVE Content[p] = {}
    <3>0. udp_sending[t] = U!Idle
      BY <2>3, Zenon DEF Init, U!OwnInit
    <3>1. udp_sending[t].id = 0
      BY <3>0, IdleIds, Zenon
    <3>. QED
      BY <2>3, <3>1, ContentIs
  <2>. QED
    BY <2>1, <2>2, <2>3, SpotCases, ZenonT(30)
<1>. DEFINE c == Content
<1>. HIDE DEF c
<1>3. InOne(c, outcome, Len(frames))
  <2>1. \A p \in Spot : c[p] = {}
    BY <1>2 DEF c
  <2>. QED
    BY <2>1 DEF InOne, Init
<1>. QED
  BY <1>1, <1>3, Zenon DEF PlaceInv, Init, c

LEMMA PlaceStep ==
    ASSUME RelayInv, TypeOK, Busy, PlaceInv, [Next]_vars
    PROVE  PlaceInv'
<1>1. CASE StreamStep
  <2>0. UNCHANGED <<udp, to_local, udp_rx, status>> /\ UNCHANGED udp_sending
    BY <1>1, Zenon DEF StreamStep, udp
  <2>1. CASE UNCHANGED <<stream_rx, stream_sending, frames, outcome>>
    BY <2>0, <2>1, NoneTouchedInOne, Zenon
  <2>. QED
    BY <1>1, <2>0, <2>1, ReadSendPlaced, StreamTakePlaced, PushPlaced, Zenon
       DEF StreamStep, S!Next, S!connect, S!reject, S!disconnect, S!cleanup, S!write_fails,
           S!register
<1>2. CASE UdpStep
  <2>0. UNCHANGED <<stream, to_local, stream_rx, status>> /\ UNCHANGED stream_sending
    BY <1>2 DEF UdpStep, stream
  <2>1. CASE UNCHANGED <<udp_rx, udp_sending, frames, outcome>>
    BY <2>0, <2>1, NoneTouchedInOne, Zenon
  <2>. QED
    BY <1>2, <2>0, <2>1, RecvSendPlaced, UdpTakePlaced, SendToPlaced, Zenon
       DEF UdpStep, U!Next, U!recv_register, U!recv_fails, U!cleanup, U!tick
<1>3. CASE UNCHANGED vars
  BY <1>3, NoneTouchedInOne DEF vars, queues, stream, udp
<1>. QED
  BY <1>1, <1>2, <1>3, FromMeshPlaced, DispatchPlaced, BindPlaced DEF Next, RelayInv

-----------------------------------------------------------------------------
FrameInv == RelayInv /\ TypeOK /\ Busy /\ PlaceInv

LEMMA FrameInvariant == Spec => []FrameInv
<1>1. Init => FrameInv
  <2>. SUFFICES ASSUME Init PROVE FrameInv
    OBVIOUS
  <2>1. RelayInv /\ TypeOK /\ Busy /\ PlaceInv
    BY StreamInit, QueuesInit, UdpInit, RoutesInit, TypeInit, BusyInit, PlaceInit, Zenon DEF RelayInv
  <2>. QED
    BY <2>1, Zenon DEF FrameInv
<1>2. FrameInv /\ [Next]_vars => FrameInv'
  <2>. SUFFICES ASSUME FrameInv, [Next]_vars PROVE FrameInv'
    OBVIOUS
  <2>. USE DEF FrameInv
  <2>1. RelayInv'
    BY RelayStep
  <2>2. TypeOK'
    BY <2>1, TypeStep
  <2>3. Busy' /\ PlaceInv'
    BY BusyStep, PlaceStep
  <2>. QED
    BY <2>1, <2>2, <2>3, Zenon
<1>. QED
  BY <1>1, <1>2, PTL DEF Spec

\* Types.
THEOREM RelaysTyped == Spec => []TypeOK
BY FrameInvariant, PTL DEF FrameInv

\* The places of a frame, from the spots.
LEMMA PlacesOf ==
    ASSUME FrameInv, NEW k \in 1..Len(frames)
    PROVE  /\ outcome[k] # "none" => Places(k) = {}
           /\ outcome[k] = "none" => \E x : Places(k) = {x}
<1>. DEFINE At(p) == k \in Content[p]
<1>1. k \in 1..MaxFrames /\ k # 0 /\ Len(frames) \in Nat
  BY RelayAssumption DEF FrameInv, TypeOK
<1>2. /\ \A p, r \in Spot : At(p) /\ At(r) => p = r
      /\ outcome[k] = "none" <=> \E p \in Spot : At(p)
  <2>1. ~(k > Len(frames))
    BY <1>1
  <2>. QED
    BY <1>1, <2>1, Zenon DEF FrameInv, PlaceInv, InOne
<1>3. /\ At(<<"to_local", 0>>) <=> \E i \in DOMAIN to_local : to_local[i] = k
      /\ At(<<"stream_rx", 0>>) <=> \E i \in DOMAIN stream_rx : stream_rx[i] = k
      /\ At(<<"udp_rx", 0>>) <=> \E i \in DOMAIN udp_rx : udp_rx[i] = k
  BY ContentIs, Zenon DEF Queued
<1>4. /\ \A t \in S!Task : At(<<"stream", t>>) <=> stream_sending[t].id = k
      /\ \A t \in U!Task : At(<<"udp", t>>) <=> udp_sending[t].id = k
  BY <1>1, ContentIs, Zenon
<1>. HIDE DEF At
<1>5. ASSUME NEW x \in Places(k)
      PROVE  \/ \E i \in DOMAIN to_local : to_local[i] = k /\ x = <<"to_local", i>>
             \/ \E i \in DOMAIN stream_rx : stream_rx[i] = k /\ x = <<"stream_rx", i>>
             \/ \E i \in DOMAIN udp_rx : udp_rx[i] = k /\ x = <<"udp_rx", i>>
             \/ \E t \in S!Task : stream_sending[t].id = k /\ x = <<"stream", t>>
             \/ \E t \in U!Task : udp_sending[t].id = k /\ x = <<"udp", t>>
  BY Zenon DEF Places
<1>6. ASSUME NEW x \in Places(k)
      PROVE  \E p \in Spot : At(p) /\ p[1] = x[1] /\ (x[1] \in {"stream", "udp"} => p = x)
  <2>1. CASE \E i \in DOMAIN to_local : to_local[i] = k /\ x = <<"to_local", i>>
    BY <1>3, <2>1, TaskContent
  <2>2. CASE \E i \in DOMAIN stream_rx : stream_rx[i] = k /\ x = <<"stream_rx", i>>
    BY <1>3, <2>2, TaskContent
  <2>3. CASE \E i \in DOMAIN udp_rx : udp_rx[i] = k /\ x = <<"udp_rx", i>>
    BY <1>3, <2>3, TaskContent
  <2>4. CASE \E t \in S!Task : stream_sending[t].id = k /\ x = <<"stream", t>>
    BY <1>4, <2>4, TaskContent, Zenon
  <2>5. CASE \E t \in U!Task : udp_sending[t].id = k /\ x = <<"udp", t>>
    BY <1>4, <2>5, TaskContent, Zenon
  <2>. QED
    BY <1>5, <2>1, <2>2, <2>3, <2>4, <2>5, Zenon
<1>7. ASSUME NEW x \in Places(k), NEW y \in Places(k) PROVE x = y
  <2>1. PICK p \in Spot : At(p) /\ p[1] = x[1] /\ (x[1] \in {"stream", "udp"} => p = x)
    BY <1>6
  <2>2. PICK r \in Spot : At(r) /\ r[1] = y[1] /\ (y[1] \in {"stream", "udp"} => r = y)
    BY <1>6, Zenon
  <2>3. p = r
    BY <1>2, <2>1, <2>2, Zenon
  <2>4. CASE x[1] \in {"stream", "udp"}
    BY <2>1, <2>2, <2>3, <2>4, Zenon
  <2>a. /\ DOMAIN to_local = 1..Len(to_local) /\ DOMAIN stream_rx = 1..Len(stream_rx)
        /\ DOMAIN udp_rx = 1..Len(udp_rx)
    BY DEF FrameInv, RelayInv, QueueInv, Elements
  <2>5. CASE x[1] = "to_local"
    <3>1. PICK i \in 1..Len(to_local) : to_local[i] = k /\ x = <<"to_local", i>>
      BY <1>5, <2>5, <2>a
    <3>2. PICK j \in 1..Len(to_local) : to_local[j] = k /\ y = <<"to_local", j>>
      BY <1>5, <2>1, <2>2, <2>3, <2>5, <2>a
    <3>. QED
      BY <3>1, <3>2, Zenon DEF FrameInv, PlaceInv, Distinct
  <2>6. CASE x[1] = "stream_rx"
    <3>1. PICK i \in 1..Len(stream_rx) : stream_rx[i] = k /\ x = <<"stream_rx", i>>
      BY <1>5, <2>6, <2>a
    <3>2. PICK j \in 1..Len(stream_rx) : stream_rx[j] = k /\ y = <<"stream_rx", j>>
      BY <1>5, <2>1, <2>2, <2>3, <2>6, <2>a
    <3>. QED
      BY <3>1, <3>2, Zenon DEF FrameInv, PlaceInv, Distinct
  <2>7. CASE x[1] = "udp_rx"
    <3>1. PICK i \in 1..Len(udp_rx) : udp_rx[i] = k /\ x = <<"udp_rx", i>>
      BY <1>5, <2>7, <2>a
    <3>2. PICK j \in 1..Len(udp_rx) : udp_rx[j] = k /\ y = <<"udp_rx", j>>
      BY <1>5, <2>1, <2>2, <2>3, <2>7, <2>a
    <3>. QED
      BY <3>1, <3>2, Zenon DEF FrameInv, PlaceInv, Distinct
  <2>. QED
    BY <1>5, <2>4, <2>5, <2>6, <2>7
<1>8. ASSUME NEW p \in Spot, At(p) PROVE Places(k) # {}
  <2>a. CASE p = <<"to_local", 0>>
    BY <1>3, <1>8, <2>a, ZenonT(30) DEF Places
  <2>b. CASE p = <<"stream_rx", 0>>
    BY <1>3, <1>8, <2>b, Zenon DEF Places
  <2>c. CASE p = <<"udp_rx", 0>>
    BY <1>3, <1>8, <2>c, ZenonT(30) DEF Places
  <2>2. ASSUME NEW t \in S!Task, p = <<"stream", t>> PROVE Places(k) # {}
    BY <1>4, <1>8, <2>2, ZenonT(30) DEF Places
  <2>3. ASSUME NEW t \in U!Task, p = <<"udp", t>> PROVE Places(k) # {}
    BY <1>4, <1>8, <2>3, Zenon DEF Places
  <2>. QED
    BY <2>a, <2>b, <2>c, <2>2, <2>3, SpotCases, Zenon
<1>9. Places(k) # {} => \E p \in Spot : At(p)
  BY <1>6, Zenon
<1>. QED
  <2>1. CASE outcome[k] # "none"
    BY <1>2, <1>9, <2>1, Zenon
  <2>2. CASE outcome[k] = "none"
    <3>1. PICK x : x \in Places(k)
      BY <1>2, <1>8, <2>2, Zenon
    <3>2. Places(k) = {x}
      BY <1>7, <3>1, Zenon
    <3>. QED
      BY <2>2, <3>2, Zenon
  <2>. QED
    BY <2>1, <2>2, Zenon

\* A frame is in one place until it is answered, and in none after that.
THEOREM FramesInOnePlace == Spec => []OnePlace
<1>1. FrameInv => OnePlace
  BY PlacesOf DEF OnePlace
<1>. QED
  BY <1>1, FrameInvariant, PTL
=============================================================================
