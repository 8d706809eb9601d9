---------------------------- MODULE StreamRelay ----------------------------
(***************************************************************************)
(* The stream relay (src/src/stream_relay.rs).  Each connection has a      *)
(* handler, which registers it under a node's id and passes on the frames  *)
(* it reads, and a writer task behind a channel.  A node may have several  *)
(* connections.  Frames also come from the mesh.  deliver_local copies the *)
(* target's connections under the lock and sends after it let go of it.    *)
(***************************************************************************)
EXTENDS RelayPacket, Sequences

CONSTANTS
    Conn,           \* connection ids
    Node,
    None,
    MeshTask,       \* handle_mesh_deliveries, beside the handlers in Conn
    MaxFrames       \* bound on the frames of both relays

VARIABLES
    phase,          \* where the handler of a connection is
    node,           \* the node a connection was registered for
    writer,         \* the writer task of a connection runs
    peers,          \* the connections listed for each node
    sending,        \* what a task has in deliver_local: the frame, whether
                    \* it can be built, and the copied list; and, as
                    \* history, the connections of the target at that time
    got,            \* the frames put into the channel of a connection
    mesh_rx,        \* packets from the mesh
    frames,         \* the target of each frame, and its transport
    outcome         \* what deliver_local said.  A handler gives a frame that
                    \* was not delivered to the mesh, and the mesh is told.

own == <<phase, node, writer, peers, sending, got>>
vars == <<own, mesh_rx, frames, outcome>>

Phase == {"none", "connected", "registered", "closing", "closed"}

Task == Conn \cup {MeshTask}

Idle == [id |-> 0, built |-> TRUE, targets |-> {}, present |-> {}]

\* Types of the table and the tasks.
TypeOK ==
    /\ phase \in [Conn -> Phase]
    /\ node \in [Conn -> Node \cup {None}]
    /\ writer \in [Conn -> BOOLEAN]
    /\ peers \in [Node -> SUBSET Conn]
    /\ sending \in [Task -> [id: 0..MaxFrames, built: BOOLEAN,
                             targets: SUBSET Conn, present: SUBSET Conn]]
    /\ got \subseteq (1..MaxFrames) \X Conn

\* The connections of node n whose handler is in its loop.
Present(n) == {c \in Conn : phase[c] = "registered" /\ node[c] = n}

-----------------------------------------------------------------------------
(* handle_connection.                                                      *)

\* The ids are given in order.
connect(c) ==
    /\ phase[c] = "none" /\ \A d \in Conn : d < c => phase[d] # "none"
    /\ phase' = [phase EXCEPT ![c] = "connected"]
    /\ writer' = [writer EXCEPT ![c] = TRUE]
    /\ UNCHANGED <<node, peers, sending, got, mesh_rx, frames, outcome>>

\* Mutant: a connection takes the place of the node's others.
register_only(c, n) ==
    /\ phase[c] = "connected"
    /\ phase' = [phase EXCEPT ![c] = "registered"]
    /\ node' = [node EXCEPT ![c] = n]
    /\ peers' = [peers EXCEPT ![n] = {c}]
    /\ UNCHANGED <<writer, sending, got, mesh_rx, frames, outcome>>

\* read_frame returns a frame of a length it accepts.
read_frame(f) == f.len > 0 /\ f.len <= MAX_FRAME_LEN

\* A frame of a kind that is read and parsed.
Reads(kind) == {f \in Frame : f.kind = kind /\ read_frame(f) /\ parse_packet(f)}

\* The first frame registers the connection.
register(c, n) ==
    /\ phase[c] = "connected"
    /\ Reads("register") # {}
    /\ phase' = [phase EXCEPT ![c] = "registered"]
    /\ node' = [node EXCEPT ![c] = n]
    /\ peers' = [peers EXCEPT ![n] = @ \cup {c}]
    /\ UNCHANGED <<writer, sending, got, mesh_rx, frames, outcome>>

\* No first frame, or another one: the channel is dropped.
reject(c) ==
    /\ phase[c] = "connected"
    /\ phase' = [phase EXCEPT ![c] = "closed"]
    /\ writer' = [writer EXCEPT ![c] = FALSE]
    /\ UNCHANGED <<node, peers, sending, got, mesh_rx, frames, outcome>>

\* deliver_local, up to the copy.
Lookup(task, id, n, built) ==
    sending' = [sending EXCEPT ![task] =
                   [id |-> id, built |-> built, targets |-> peers[n],
                    present |-> Present(n)]]

\* A Send frame under the node's own id.  Other frames are ignored.
read_send(c, to) ==
    /\ phase[c] = "registered" /\ sending[c] = Idle
    /\ Len(frames) < MaxFrames
    /\ frames' = Append(frames, [to |-> to, via |-> "stream"])
    /\ \E f \in Reads("send") : Lookup(c, Len(frames) + 1, to, build_packet(f))
    /\ UNCHANGED <<phase, node, writer, peers, got, mesh_rx, outcome>>

\* read_frame failed: the loop ends.
disconnect(c) ==
    /\ phase[c] = "registered" /\ sending[c] = Idle
    /\ phase' = [phase EXCEPT ![c] = "closing"]
    /\ UNCHANGED <<node, writer, peers, sending, got, mesh_rx, frames,
                   outcome>>

\* Mutant: the node's whole entry goes.
cleanup_node(c) ==
    /\ phase[c] = "closing"
    /\ phase' = [phase EXCEPT ![c] = "closed"]
    /\ peers' = [n \in Node \ {node[c]} |-> peers[n]]
    /\ writer' = [writer EXCEPT ![c] = FALSE]
    /\ UNCHANGED <<node, sending, got, mesh_rx, frames, outcome>>

\* After the loop.  An empty list is removed: here it is no list.
cleanup(c) ==
    /\ phase[c] = "closing"
    /\ phase' = [phase EXCEPT ![c] = "closed"]
    /\ peers' = [peers EXCEPT ![node[c]] = @ \ {c}]
    /\ writer' = [writer EXCEPT ![c] = FALSE]
    /\ UNCHANGED <<node, sending, got, mesh_rx, frames, outcome>>

\* The writer task ends at a failed write, unknown to the handler.
write_fails(c) ==
    /\ writer[c]
    /\ writer' = [writer EXCEPT ![c] = FALSE]
    /\ UNCHANGED <<phase, node, peers, sending, got, mesh_rx, frames, outcome>>

-----------------------------------------------------------------------------
(* handle_mesh_deliveries, and the rest of deliver_local.                  *)

take_packet ==
    /\ sending[MeshTask] = Idle /\ mesh_rx # <<>>
    /\ Lookup(MeshTask, Head(mesh_rx), frames[Head(mesh_rx)].to, TRUE)
    /\ mesh_rx' = Tail(mesh_rx)
    /\ UNCHANGED <<phase, node, writer, peers, got, frames, outcome>>

sent_any(targets) == \E c \in targets : writer[c]

\* deliver_local, from the copy on: a channel whose writer ended refuses.
\* "delivered" says that a channel took the frame; its writer may still fail
\* before it is written.
\* If the packet cannot be built the handler returns at once, and what
\* follows its loop is not reached.
push(task) ==
    LET s == sending[task] IN
    /\ s # Idle
    /\ IF s.built
       THEN /\ got' = got \cup {<<s.id, c>> : c \in {d \in s.targets : writer[d]}}
            /\ outcome' = [outcome EXCEPT ![s.id] =
                              IF sent_any(s.targets) THEN "delivered"
                                                     ELSE "not delivered"]
            /\ UNCHANGED phase
       ELSE /\ phase' = [phase EXCEPT ![task] = "closed"]
            /\ UNCHANGED <<got, outcome>>
    /\ sending' = [sending EXCEPT ![task] = Idle]
    /\ UNCHANGED <<node, writer, peers, mesh_rx, frames>>

-----------------------------------------------------------------------------
\* The connections in conns are still to come.
OwnInit(conns) ==
    /\ phase = [c \in Conn |-> IF c \in conns THEN "none" ELSE "closed"]
    /\ node = [c \in Conn |-> None]
    /\ writer = [c \in Conn |-> FALSE]
    /\ peers = [n \in Node |-> {}]
    /\ sending = [t \in Task |-> Idle]
    /\ got = {}

Next ==
    \/ \E c \in Conn :
          \/ connect(c) \/ reject(c) \/ disconnect(c) \/ cleanup(c)
          \/ write_fails(c)
          \/ \E n \in Node : register(c, n) \/ read_send(c, n)
    \/ take_packet
    \/ \E t \in Task : push(t)

-----------------------------------------------------------------------------
(* Properties.                                                             *)

\* A connection is listed exactly from its registration until its handler
\* has cleaned up, and for the node it registered: no end of a connection
\* unlists another one, or leaves its own entry behind.
Listed ==
    \A c \in Conn, n \in Node :
        c \in peers[n] <=> phase[c] \in {"registered", "closing"} /\ node[c] = n

\* A frame reaches every connection of its target that was there before
\* deliver_local and is there after it, whoever comes and goes meanwhile.
ReachesAll ==
    \A t \in Task :
        sending[t] # Idle /\ sending'[t] = Idle =>
            \A c \in sending[t].present :
                phase[c] = "registered" /\ writer[c]
                    => <<sending[t].id, c>> \in got'
=============================================================================
