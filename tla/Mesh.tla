------------------------------- MODULE Mesh -------------------------------
(***************************************************************************)
(* How relayed packets travel between the servers of a mesh                *)
(* (src/src/mesh.rs).  A server that gets a frame for the first time       *)
(* offers it to its local relay of that transport, stream or UDP, and      *)
(* waits for the verdict, for a while.                                     *)
(* Unless it was delivered, the frame goes on with one hop less: to the    *)
(* peer that frames of the target came from, or to every peer but the one  *)
(* it came from.  The tables a server remembers frames and routes in are   *)
(* those of MeshTable.                                                     *)
(*                                                                         *)
(* Connections are those of MeshLinks: here a link carries frames in order *)
(* until it is cut, and then loses the ones under way.                     *)
(***************************************************************************)
EXTENDS MeshTable, FiniteSets

CONSTANTS
    Transport,      \* MeshTransport: the relays of a server
    Mobile,         \* the registrations that move
    Starts,         \* the connections and the nodes' places at first
    Fragile,        \* the connections that may be lost
    Slow,           \* the servers whose relay may answer late, or never
    max_hops,
    MaxEvents       \* bound on moves and cuts together

ASSUME MeshAssumption ==
    /\ IsFiniteSet(Server)
    /\ max_hops \in Nat \ {0}       \* start refuses 0
    /\ MaxEvents \in Nat
    /\ Slow \subseteq Server
    /\ \A b \in Starts :
          /\ \A l \in b.links :
                /\ l \in Server \X Server /\ l[1] # l[2]
                /\ <<l[2], l[1]>> \in b.links
          /\ b.home \in [Node \X Transport -> SUBSET Server]
    /\ None \notin Server /\ None \notin Node

VARIABLES
    links,          \* the pairs <<s, p>> such that s has a sender to p
    wire,           \* the frames on each link, oldest first
    seen_ids,       \* of each server, in the order of their times
    route_hints,
    to_local,       \* packets that its relay has not looked at yet
    handler,        \* per link, the frame for which its reader waits in
                    \* deliver_local, or None
    home,           \* the servers at whose relay, of a transport, a node is
                    \* registered
    now,
    events,
    msgs,           \* history: the messages sent
    log,            \* history: what each server handled, and when
    delivered,      \* history: the messages that reached their node
    owed,           \* history: the messages that could
    misled          \* history: the messages that a hint led astray

table == <<seen_ids, route_hints>>
place == <<links, home, now, events>>
history == <<msgs, log, delivered, owed, misled>>
vars == <<wire, to_local, handler, table, place, history>>

Pair == {l \in Server \X Server : l[1] # l[2]}

\* MeshFrame::Relay, without its payload.
Frame == [id: 1..MaxMessages, transport: Transport, from: Node, to: Node,
          hops: 0..max_hops]

ASSUME NoFrame == None \notin Frame

\* MeshIncomingPacket.
Packet == [id: 1..MaxMessages, transport: Transport, to: Node,
           waiter: Server \cup {None}]

\* Types, and the limits of the tables.
TypeOK ==
    /\ links \subseteq Pair
    /\ \A l \in Pair : wire[l] \in Seq(Frame)
    /\ \A s \in Server :
          /\ seen_ids[s] \in Seq(SeenEntry)
          /\ Len(seen_ids[s]) <= MAX_SEEN_IDS
          /\ route_hints[s] \in Seq(HintEntry)
          /\ Len(route_hints[s]) <= MAX_ROUTE_HINTS
          /\ to_local[s] \in Seq(Packet)
    /\ handler \in [Pair -> Frame \cup {None}]
    /\ home \in [Node \X Transport -> SUBSET Server]
    /\ now \in 0..MaxClock /\ events \in 0..MaxEvents

Event == events < MaxEvents /\ events' = events + 1

Peers(s) == {p \in Server : <<s, p>> \in links}

Messages == DOMAIN msgs

\* Message m is under way.
Travels(m) ==
    \/ \E l \in Pair :
          \/ \E i \in DOMAIN wire[l] : wire[l][i].id = m
          \/ handler[l] # None /\ handler[l].id = m
    \/ \E s \in Server : \E i \in DOMAIN to_local[s] : to_local[s][i].id = m

-----------------------------------------------------------------------------
(* The two tables, and where a frame goes.                                 *)

seen(s, m) ==
    \E i \in DOMAIN seen_ids[s] :
        seen_ids[s][i].key = m /\ now - seen_ids[s][i].at < SEEN_TTL

remember_message(s, m) ==
    /\ seen_ids' = [seen_ids EXCEPT ![s] =
          insert(@, [key |-> m, at |-> now], MAX_SEEN_IDS, SEEN_TTL)]
    /\ log' = [log EXCEPT ![s] = Append(@, [id |-> m, at |-> now])]

learn_route(s, n, p) ==
    /\ route_hints' = [route_hints EXCEPT ![s] =
          insert(@, [key |-> n, peer |-> p, at |-> now],
                 MAX_ROUTE_HINTS, ROUTE_TTL)]

\* The peer that a hint names, or None.
lookup_route(s, n) ==
    LET valid == {i \in DOMAIN route_hints[s] :
                     /\ route_hints[s][i].key = n
                     /\ now - route_hints[s][i].at <= ROUTE_TTL}
    IN IF valid = {} THEN None
       ELSE route_hints[s][CHOOSE i \in valid : TRUE].peer

\* forward_to_target: send_to_peer by the hint if that can be done, or
\* broadcast.
next_hops(s, exclude, n) ==
    LET hint == lookup_route(s, n) IN
    IF hint # exclude /\ hint \in Peers(s) THEN {hint}
    ELSE Peers(s) \ {exclude}

\* Server p, or a peer it has other than s, has the target of a frame.
Leads(p, s, f) ==
    \E q \in {p} \cup (Peers(p) \ {s}) : q \in home[<<f.to, f.transport>>]

\* A hint is about a node, whichever relay it was learned from.
forward_to_target(s, exclude, f) ==
    LET hops == next_hops(s, exclude, f.to)
        hint == lookup_route(s, f.to)
    IN
    /\ wire' = [l \in Pair |-> IF l[1] = s /\ l[2] \in hops
                               THEN Append(wire[l], f) ELSE wire[l]]
    /\ route_hints' = [route_hints EXCEPT ![s] =
          IF hint = None THEN without(@, f.to) ELSE @]
    /\ misled' = IF hops = {hint} /\ ~Leads(hint, s, f)
                 THEN misled \cup {f.id} ELSE misled

-----------------------------------------------------------------------------
(* Steps.                                                                  *)

\* Every server can reach every other.
Whole ==
    \A S \in (SUBSET Server) \ {{}, Server} :
        \E l \in links : l[1] \in S /\ l[2] \notin S

\* A relay hands a packet to the mesh, and the task that start spawns sends
\* it under a new id.  The mesh can deliver it when its node is registered
\* somewhere, the mesh is whole and its hops reach every server.
send(s, transport, from, to) ==
    LET m == Len(msgs) + 1 IN
    /\ m <= MaxMessages
    /\ s \in home[<<from, transport>>] /\ s \notin home[<<to, transport>>]
    /\ remember_message(s, m)
    /\ forward_to_target(s, None,
          [id |-> m, transport |-> transport, from |-> from, to |-> to,
           hops |-> max_hops])
    /\ msgs' = Append(msgs, [transport |-> transport, from |-> from, to |-> to])
    /\ owed' = IF /\ home[<<to, transport>>] # {}
                  /\ Whole /\ max_hops + 2 >= Cardinality(Server)
               THEN owed \cup {m} ELSE owed
    /\ UNCHANGED <<to_local, handler, place, delivered>>

\* handle_frame, up to the wait of deliver_local.
handle_frame(p, s) ==
    LET f == Head(wire[<<p, s>>]) IN
    /\ wire[<<p, s>>] # <<>> /\ handler[<<p, s>>] = None
    /\ wire' = [wire EXCEPT ![<<p, s>>] = Tail(@)]
    /\ IF seen(s, f.id)
       THEN UNCHANGED <<to_local, handler, table, log>>
       ELSE /\ remember_message(s, f.id)
            /\ learn_route(s, f.from, p)
            /\ to_local' = [to_local EXCEPT ![s] = Append(@,
                  [id |-> f.id, transport |-> f.transport, to |-> f.to,
                   waiter |-> p])]
            /\ handler' = [handler EXCEPT ![<<p, s>>] = f]
    /\ UNCHANGED <<place, msgs, delivered, owed, misled>>

\* Mutants: a forwarded frame keeps its hops; its last hop is not taken.
go_on_unbounded(p, s, f) == forward_to_target(s, p, f)


\* handle_frame, after deliver_local said no.
go_on(p, s, f) ==
    IF f.hops = 0 THEN UNCHANGED <<wire, route_hints, misled>>
    ELSE forward_to_target(s, p, [f EXCEPT !.hops = @ - 1])

\* The dispatch of main and the relay of that transport: a packet is
\* delivered or not, and the handler, if it still waits, goes on with the
\* answer.
relay(s) ==
    LET k == Head(to_local[s])
        p == k.waiter
        hit == s \in home[<<k.to, k.transport>>]
    IN
    /\ to_local[s] # <<>>
    /\ to_local' = [to_local EXCEPT ![s] = Tail(@)]
    /\ delivered' = IF hit THEN delivered \cup {k.id} ELSE delivered
    /\ handler' = IF p = None THEN handler
                  ELSE [handler EXCEPT ![<<p, s>>] = None]
    /\ IF p = None \/ hit THEN UNCHANGED <<wire, route_hints, misled>>
       ELSE go_on(p, s, handler[<<p, s>>])
    /\ UNCHANGED <<seen_ids, place, msgs, log, owed>>

\* LOCAL_DELIVER_TIMEOUT: the handler goes on.  The packet stays with the
\* relay, which may still deliver it.
timed_out(p, s) ==
    /\ s \in Slow /\ handler[<<p, s>>] # None
    /\ handler' = [handler EXCEPT ![<<p, s>>] = None]
    /\ to_local' = [to_local EXCEPT ![s] = [i \in DOMAIN @ |->
          IF @[i].waiter = p THEN [@[i] EXCEPT !.waiter = None] ELSE @[i]]]
    /\ go_on(p, s, handler[<<p, s>>])
    /\ UNCHANGED <<seen_ids, place, msgs, log, delivered, owed>>

-----------------------------------------------------------------------------
(* The nodes, the links and the time.                                      *)

\* A node leaves the relay it was registered at and may join another.  What
\* is under way to it may come too late.
move(r, H) ==
    /\ home[r] # H
    /\ Event
    /\ home' = [home EXCEPT ![r] = H]
    /\ owed' = {m \in owed : <<msgs[m].to, msgs[m].transport>> # r}
    /\ UNCHANGED <<wire, to_local, handler, table, links, now, msgs, log,
                   delivered, misled>>

\* A connection ends, and loses the frames on it.
cut(s, p) ==
    /\ <<s, p>> \in links
    /\ Event
    /\ links' = links \ {<<s, p>>, <<p, s>>}
    /\ wire' = [wire EXCEPT ![<<s, p>>] = <<>>, ![<<p, s>>] = <<>>]
    /\ owed' = {m \in owed : ~Travels(m)}
    /\ UNCHANGED <<to_local, handler, table, home, now, msgs, log, delivered,
                   misled>>

tick ==
    /\ now < MaxClock
    /\ now' = now + 1
    /\ UNCHANGED <<wire, to_local, handler, table, links, home, events,
                   history>>

-----------------------------------------------------------------------------
Init ==
    /\ \E b \in Starts : links = b.links /\ home = b.home
    /\ wire = [l \in Pair |-> <<>>]
    /\ seen_ids = [s \in Server |-> <<>>]
    /\ route_hints = [s \in Server |-> <<>>]
    /\ to_local = [s \in Server |-> <<>>]
    /\ handler = [l \in Pair |-> None]
    /\ now = 0 /\ events = 0
    /\ msgs = <<>>
    /\ log = [s \in Server |-> <<>>]
    /\ delivered = {} /\ owed = {} /\ misled = {}

Next ==
    \/ \E s \in Server, t \in Transport, from, to \in Node :
          from # to /\ send(s, t, from, to)
    \/ \E l \in Pair : handle_frame(l[1], l[2]) \/ timed_out(l[1], l[2])
    \/ \E s \in Server : relay(s)
    \/ \E r \in Mobile, H \in {{}} \cup {{s} : s \in Server} : move(r, H)
    \/ \E l \in Fragile : cut(l[1], l[2])
    \/ tick

Spec == Init /\ [][Next]_vars

-----------------------------------------------------------------------------
(* Properties.                                                             *)

\* A set has n elements or more.
AtLeast(n, S) ==
    \E f \in [1..n -> S] : \A i, j \in 1..n : f[i] = f[j] => i = j

\* A server handles a message again only SEEN_TTL later, or after
\* MAX_SEEN_IDS other messages: whatever copies arrive, by whatever path.
HandledOnce ==
    \A s \in Server : \A i, j \in DOMAIN log[s] :
        i < j /\ log[s][i].id = log[s][j].id =>
            \/ log[s][j].at - log[s][i].at >= SEEN_TTL
            \/ AtLeast(MAX_SEEN_IDS, {log[s][k].id : k \in i + 1 .. j - 1})


\* The most copies of a message with h hops that can be made when every
\* server has all others for peers.
Copies ==
    LET d == Cardinality(Server) - 1
        f[h \in 0..max_hops] == IF h = 0 THEN d ELSE d + (d - 1) * f[h - 1]
    IN f[max_hops]

\* The flood is bounded by max_hops: in meshes with cycles, and when servers
\* forget what they saw and handle a message again, it is handled once where
\* it was sent and at most once for each copy that the hops allow.
BoundedFlood ==
    \A m \in Messages :
        Cardinality(UNION {{<<s, i>> : i \in {j \in DOMAIN log[s] :
                                                 log[s][j].id = m}}
                              : s \in Server})
            <= 1 + Copies
=============================================================================
