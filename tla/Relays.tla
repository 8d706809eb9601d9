------------------------------- MODULE Relays ------------------------------
(***************************************************************************)
(* The relays of one server, and what main.rs puts between them and the    *)
(* mesh: a queue of packets for local delivery, which a task shares out to *)
(* a queue for each transport.  The tasks start before the relays have     *)
(* bound their sockets.  A relay that is not configured leaves its queue   *)
(* unread in main.                                                         *)
(***************************************************************************)
EXTENDS RelayPacket, Sequences

CONSTANTS
    Conn, Node, MeshTask,               \* of the stream relay
    UdpNode, Addr, PEER_TTL, PERIOD,    \* of the UDP relay
    None,
    MaxFrames,
    Starts      \* bound: the relays that are configured, and the connections

ASSUME RelayAssumption ==
    /\ Conn \subseteq Nat /\ MeshTask \notin Conn
    /\ PEER_TTL \in Nat \ {0} /\ PERIOD \in Nat \ {0}
    /\ None \notin Node
    /\ None \notin [addr: Addr, age: 0..(PEER_TTL + PERIOD)]
    /\ MaxFrames \in Nat

VARIABLES
    phase, node, writer, stream_peers, stream_sending, got,
    udp_peers, running, timer, udp_sending, sent, heard,
    to_local,       \* packets from the mesh, not yet shared out
    stream_rx, udp_rx,
    status,         \* of the relay of each transport
    frames, outcome

stream == <<phase, node, writer, stream_peers, stream_sending, got>>
udp == <<udp_peers, running, timer, udp_sending, sent, heard>>
queues == <<to_local, stream_rx, udp_rx, status>>
vars == <<stream, udp, queues, frames, outcome>>

S == INSTANCE StreamRelay WITH
        peers <- stream_peers, sending <- stream_sending, mesh_rx <- stream_rx

U == INSTANCE UdpRelay WITH
        Node <- UdpNode, peers <- udp_peers, sending <- udp_sending, mesh_rx <- udp_rx

Transport == {"stream", "udp"}

\* The targets of the frames over each transport.
Target(t) == IF t = "stream" THEN Node ELSE UdpNode

Outcome == {"none", "delivered", "not delivered"}

\* Types of the parts and of what is between them.
TypeOK ==
    /\ S!TypeOK /\ U!TypeOK
    /\ frames \in Seq([to: Node \cup UdpNode, via: Transport]) /\ Len(frames) <= MaxFrames
    /\ \A q \in {to_local, stream_rx, udp_rx} : q \in Seq(1..Len(frames))
    /\ status \in [Transport -> {"starting", "up", "failed", "off"}]
    /\ outcome \in [1..MaxFrames -> Outcome]

-----------------------------------------------------------------------------
\* A packet for local delivery, from the mesh's deliver_local.
from_mesh(to, via) ==
    /\ Len(frames) < MaxFrames
    /\ frames' = Append(frames, [to |-> to, via |-> via])
    /\ to_local' = Append(to_local, Len(frames) + 1)
    /\ UNCHANGED <<stream, udp, stream_rx, udp_rx, status, outcome>>

\* Mutant: nobody is told.
Refuse_silently(ids) == UNCHANGED outcome

\* The mesh is told that these were not delivered.
Refuse(ids) ==
    outcome' = [k \in DOMAIN outcome |->
                   IF k \in ids THEN "not delivered" ELSE outcome[k]]

\* Mutant: every packet goes to the stream relay.
via_stream(k) == "stream"

via(k) == frames[k].via

\* The task that shares out; the queue of a relay that failed is closed.
dispatch ==
    /\ to_local # <<>>
    /\ LET k == Head(to_local) IN
          \/ /\ status[via(k)] = "failed"
             /\ Refuse({k})
             /\ UNCHANGED <<stream_rx, udp_rx>>
          \/ /\ status[via(k)] # "failed" /\ via(k) = "stream"
             /\ stream_rx' = Append(stream_rx, k)
             /\ UNCHANGED <<udp_rx, outcome>>
          \/ /\ status[via(k)] # "failed" /\ via(k) = "udp"
             /\ udp_rx' = Append(udp_rx, k)
             /\ UNCHANGED <<stream_rx, outcome>>
    /\ to_local' = Tail(to_local)
    /\ UNCHANGED <<stream, udp, status, frames>>

\* The relay has bound its socket.
bind(t) ==
    /\ status[t] = "starting"
    /\ status' = [status EXCEPT ![t] = "up"]
    /\ UNCHANGED <<stream, udp, to_local, stream_rx, udp_rx, frames, outcome>>

Queued(q) == {q[i] : i \in DOMAIN q}

\* It could not: the queue is dropped, and with it the packets in it.
bind_fails(t) ==
    /\ status[t] = "starting"
    /\ status' = [status EXCEPT ![t] = "failed"]
    /\ stream_rx' = IF t = "stream" THEN <<>> ELSE stream_rx
    /\ udp_rx' = IF t = "udp" THEN <<>> ELSE udp_rx
    /\ Refuse(Queued(IF t = "stream" THEN stream_rx ELSE udp_rx))
    /\ UNCHANGED <<stream, udp, to_local, frames>>

-----------------------------------------------------------------------------
Init ==
    /\ \E s \in Starts :
          /\ S!OwnInit(s.conns)
          /\ status = [t \in Transport |->
                          IF t \in s.on THEN "starting" ELSE "off"]
    /\ U!OwnInit
    /\ to_local = <<>> /\ stream_rx = <<>> /\ udp_rx = <<>>
    /\ frames = <<>>
    /\ outcome = [k \in 1..MaxFrames |-> "none"]

StreamStep ==
    /\ status["stream"] = "up"
    /\ S!Next
    /\ UNCHANGED <<udp, to_local, udp_rx, status>>

UdpStep ==
    /\ status["udp"] = "up"
    /\ U!Next
    /\ UNCHANGED <<stream, to_local, stream_rx, status>>

Next ==
    \/ \E t \in Transport : \E n \in Target(t) : from_mesh(n, t)
    \/ dispatch
    \/ \E t \in Transport : bind(t) \/ bind_fails(t)
    \/ StreamStep
    \/ UdpStep

\* What the tasks of the server do by themselves.
Work ==
    \/ dispatch
    \/ \E t \in Transport : bind(t) \/ bind_fails(t)
    \/ StreamStep /\ (S!take_packet \/ \E t \in S!Task : S!push(t))
    \/ UdpStep /\ (U!take_packet \/ \E t \in U!Task : U!send_to(t))

\* The tasks of a runtime that goes on are scheduled.
Spec == Init /\ [][Next]_vars /\ WF_vars(Work)

-----------------------------------------------------------------------------
(* Properties.                                                             *)

\* The table of the stream relay lists exactly the connections whose
\* handlers are there.
Listed == S!Listed

\* deliver_local of the stream relay misses no connection of the target.
NoneMissed == [][S!ReachesAll]_vars

\* An entry of the UDP relay lasts for PEER_TTL, and at most a period of the
\* cleanup longer.
Lifetime == U!Lifetime

\* A frame goes out only over the transport it came by, and only into the
\* channel of a connection of its target.
RightRelay ==
    /\ \A p \in got : frames[p[1]].via = "stream"
                          /\ frames[p[1]].to = node[p[2]]
    /\ \A p \in sent : frames[p[1]].via = "udp"

\* Where frame k is: in a queue, or with a task.
Places(k) ==
    {<<"to_local", i>> : i \in {j \in DOMAIN to_local : to_local[j] = k}}
    \cup {<<"stream_rx", i>> : i \in {j \in DOMAIN stream_rx : stream_rx[j] = k}}
    \cup {<<"udp_rx", i>> : i \in {j \in DOMAIN udp_rx : udp_rx[j] = k}}
    \cup {<<"stream", t>> : t \in {u \in S!Task : stream_sending[u].id = k}}
    \cup {<<"udp", t>> : t \in {u \in U!Task : udp_sending[u].id = k}}

\* A frame is in one place until it is answered, and in none after that: it
\* is neither lost nor answered twice, also when a bind fails with packets
\* queued.
OnePlace ==
    \A k \in 1..Len(frames) :
        IF outcome[k] = "none" THEN \E p \in Places(k) : Places(k) = {p}
                               ELSE Places(k) = {}

\* Every frame whose transport is not off is answered in the end: also when
\* a bind fails, and after the UDP receive loop has stopped.
Answered ==
    <>[](\A k \in 1..Len(frames) :
            outcome[k] # "none" \/ status[frames[k].via] = "off")
=============================================================================
