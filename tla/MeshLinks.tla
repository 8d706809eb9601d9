----------------------------- MODULE MeshLinks -----------------------------
(***************************************************************************)
(* How the servers of a mesh (src/src/mesh.rs) keep connections to each    *)
(* other.  A server dials every peer of its configuration, again and       *)
(* again, and accepts the peers that dial it, so two servers may be        *)
(* joined by two connections at once.  Each end of a connection is a       *)
(* reader, which registers the connection under the peer's id and removes  *)
(* it when it sees the end of the stream, and a writer task.  The two ends *)
(* notice a broken connection at different times and in different ways,    *)
(* and one that is lost without a word perhaps never: nothing is sent over *)
(* an idle connection.  A peer's id is the one its Hello claims.           *)
(***************************************************************************)
EXTENDS Naturals, Servers

CONSTANTS
    Conn,               \* connections, reused when they have ended
    Dialer, Acceptor,   \* the two servers of a connection
    Configs,            \* the configurations to look at
    MaxFaults,          \* bound on broken connections, crashes, stopped
                        \* listeners
    Lossy               \* bound: the connections that may be lost unnoticed

ASSUME LinkAssumption ==
    /\ Dialer \in [Conn -> Server] /\ Acceptor \in [Conn -> Server]
    /\ \A c \in Conn : Dialer[c] # Acceptor[c]
    /\ Configs \subseteq [server_id : [Server -> Server],
                           peers : [Server -> SUBSET Server]]
    /\ MaxFaults \in Nat /\ Lossy \subseteq Conn
    /\ None \notin Conn /\ None \notin Server

VARIABLES
    config,     \* MeshConfig of each server: its own id, and its peers
    alive,      \* the transport of a connection carries bytes
    silent,     \* connections that ended without telling their ends
    reader,     \* run_connection, at each end of a connection
    writer,     \* its writer task runs
    peers,      \* MeshContext::peers: the connection to send by
    listening,  \* run_listener has not stopped
    faults,
    latest,     \* history: the connection registered last
    stale       \* history: it was dead by then, and replaced one that is not

link_vars == <<config, alive, silent, reader, writer, peers, listening,
               faults, latest, stale>>

\* run_connection: waiting for the peer's Hello, reading frames, past the
\* last frame, returned.
Reader == {"hello", "reading", "closing", "returned"}

Ends(c) == {Dialer[c], Acceptor[c]}

Other(c, s) == IF Dialer[c] = s THEN Acceptor[c] ELSE Dialer[c]

\* Types of the connections and the tables.
LinksTypeOK ==
    /\ config \in Configs
    /\ alive \in [Conn -> BOOLEAN]
    /\ silent \subseteq Conn
    /\ reader \in [Conn -> [Server -> Reader]]
    /\ writer \in [Conn -> [Server -> BOOLEAN]]
    /\ peers \in [Server -> [Server -> Conn \cup {None}]]
    /\ listening \in [Server -> BOOLEAN]
    /\ faults \in 0..MaxFaults
    /\ latest \in [Server -> [Server -> Conn \cup {None}]]
    /\ stale \in [Server -> [Server -> BOOLEAN]]

\* Connection c has ended at both ends and can stand for a new one.
Free(c) == \A s \in Server : reader[c][s] = "returned" /\ ~writer[c][s]

Live(c) == c # None /\ alive[c]

\* A table without the entries for c.  Their channel is closed, and nothing
\* can be sent by them.
Without(table, c) ==
    [s \in Server |-> [p \in Server |->
        IF table[s][p] = c THEN None ELSE table[s][p]]]

-----------------------------------------------------------------------------
(* Steps.                                                                  *)

\* The id that s reads in the Hello of connection c.
Claimed(c, s) == config.server_id[Other(c, s)]

\* run_connection's expected_peer: a dial loop knows whom it dialled.
Expected(c, s) == IF Dialer[c] = s THEN Acceptor[c] ELSE None

\* Mutant: a dial loop takes whichever configured server answers.
validate_peer_any(s, expected, id) ==
    id # config.server_id[s] /\ id \in config.peers[s]

validate_peer(s, expected, id) ==
    /\ id # config.server_id[s]
    /\ expected \in {None, id}
    /\ id \in config.peers[s]

\* run_outbound_peer and run_listener: a dial loop has one connection at a
\* time, whatever the peer has read of the one before.  Both ends send their
\* Hello.
dial(c) ==
    LET s == Dialer[c]  p == Acceptor[c] IN
    /\ p \in config.peers[s] /\ listening[p]
    /\ \A d \in Conn : Dialer[d] = s /\ Acceptor[d] = p
                          => reader[d][s] = "returned"
    /\ Free(c)
    /\ c = CHOOSE d \in Conn : Dialer[d] = s /\ Acceptor[d] = p /\ Free(d)
    /\ alive' = [alive EXCEPT ![c] = TRUE]
    /\ silent' = silent \ {c}
    /\ reader' = [reader EXCEPT ![c] = [x \in Server |->
                     IF x \in Ends(c) THEN "hello" ELSE "returned"]]
    /\ peers' = Without(peers, c)
    /\ latest' = Without(latest, c)
    /\ UNCHANGED <<config, writer, listening, faults, stale>>

\* Mutant: a connection does not take the place of the one registered.
hello_keep(s, c) ==
    LET p == Claimed(c, s) IN
    /\ s \in Ends(c) /\ reader[c][s] = "hello"
    /\ validate_peer(s, Expected(c, s), p)
    /\ reader' = [reader EXCEPT ![c][s] = "reading"]
    /\ writer' = [writer EXCEPT ![c][s] = TRUE]
    /\ peers' = [peers EXCEPT ![s][p] = IF @ = None THEN c ELSE @]
    /\ latest' = [latest EXCEPT ![s][p] = peers'[s][p]]
    /\ stale' = [stale EXCEPT ![s][p] = ~alive[c] /\ Live(peers[s][p])]
    /\ UNCHANGED <<config, alive, silent, listening, faults>>

\* run_connection, the peer's Hello is accepted: the connection takes the
\* place of the one that was registered.  The Hello may have waited in the
\* socket for longer than the connection lasted.
hello(s, c) ==
    LET p == Claimed(c, s) IN
    /\ s \in Ends(c) /\ reader[c][s] = "hello"
    /\ validate_peer(s, Expected(c, s), p)
    /\ reader' = [reader EXCEPT ![c][s] = "reading"]
    /\ writer' = [writer EXCEPT ![c][s] = TRUE]
    /\ peers' = [peers EXCEPT ![s][p] = c]
    /\ latest' = [latest EXCEPT ![s][p] = c]
    /\ stale' = [stale EXCEPT ![s][p] = ~alive[c] /\ Live(peers[s][p])]
    /\ UNCHANGED <<config, alive, silent, listening, faults>>

\* run_connection, no Hello or not one to accept: the socket is closed.
hello_fails(s, c) ==
    /\ s \in Ends(c) /\ reader[c][s] = "hello"
    /\ ~validate_peer(s, Expected(c, s), Claimed(c, s)) \/ ~alive[c]
    /\ reader' = [reader EXCEPT ![c][s] = "returned"]
    /\ alive' = [alive EXCEPT ![c] = FALSE]
    /\ UNCHANGED <<config, silent, writer, peers, listening, faults, latest, stale>>

\* run_connection, next_line is None: the writer is aborted.
end_of_stream(s, c) ==
    /\ reader[c][s] = "reading" /\ ~alive[c]
    /\ reader' = [reader EXCEPT ![c][s] = "closing"]
    /\ writer' = [writer EXCEPT ![c][s] = FALSE]
    /\ UNCHANGED <<config, alive, silent, peers, listening, faults, latest, stale>>

\* Mutant: the entry is removed whatever connection it is.
cleanup_any(s, c) ==
    /\ reader[c][s] = "closing"
    /\ reader' = [reader EXCEPT ![c][s] = "returned"]
    /\ peers' = [peers EXCEPT ![s][Claimed(c, s)] = None]
    /\ UNCHANGED <<config, alive, silent, writer, listening, faults, latest, stale>>

\* run_connection, after the loop: only its own entry is removed.
cleanup(s, c) ==
    /\ reader[c][s] = "closing"
    /\ reader' = [reader EXCEPT ![c][s] = "returned"]
    /\ peers' = [peers EXCEPT ![s][Claimed(c, s)] = IF @ = c THEN None ELSE @]
    /\ UNCHANGED <<config, alive, silent, writer, listening, faults, latest, stale>>

\* run_connection, next_line is an error: it returns at once.  The entry
\* stays, and the writer task runs on.
read_error(s, c) ==
    /\ reader[c][s] = "reading" /\ ~alive[c]
    /\ reader' = [reader EXCEPT ![c][s] = "returned"]
    /\ UNCHANGED <<config, alive, silent, writer, peers, listening, faults, latest, stale>>

\* The writer task ends: a write failed, or no sender of its channel is left.
writer_ends(s, c) ==
    /\ writer[c][s]
    /\ \/ ~alive[c]
       \/ reader[c][s] = "returned" /\ peers[s][Claimed(c, s)] # c
    /\ writer' = [writer EXCEPT ![c][s] = FALSE]
    /\ UNCHANGED <<config, alive, silent, reader, peers, listening, faults, latest, stale>>

-----------------------------------------------------------------------------
(* Faults.                                                                 *)

\* The connection is closed or reset: both ends are told.
break(c) ==
    /\ faults < MaxFaults /\ alive[c]
    /\ faults' = faults + 1
    /\ alive' = [alive EXCEPT ![c] = FALSE]
    /\ UNCHANGED <<config, silent, reader, writer, peers, listening, latest, stale>>

\* The network drops the connection: an end that waits to read may never
\* know.
lose(c) ==
    /\ faults < MaxFaults /\ alive[c] /\ c \in Lossy
    /\ faults' = faults + 1
    /\ alive' = [alive EXCEPT ![c] = FALSE]
    /\ silent' = silent \cup {c}
    /\ UNCHANGED <<config, reader, writer, peers, listening, latest, stale>>

\* run_listener: accept failed, and the task ends for good.
accept_fails(s) ==
    /\ faults < MaxFaults /\ listening[s]
    /\ faults' = faults + 1
    /\ listening' = [listening EXCEPT ![s] = FALSE]
    /\ UNCHANGED <<config, alive, silent, reader, writer, peers, latest, stale>>

\* The server is killed and started again.
restart(s) ==
    /\ faults < MaxFaults
    /\ faults' = faults + 1
    /\ listening' = [listening EXCEPT ![s] = TRUE]
    /\ alive' = [c \in Conn |-> alive[c] /\ s \notin Ends(c)]
    /\ reader' = [c \in Conn |-> [reader[c] EXCEPT ![s] = "returned"]]
    /\ writer' = [c \in Conn |-> [writer[c] EXCEPT ![s] = FALSE]]
    /\ peers' = [peers EXCEPT ![s] = [p \in Server |-> None]]
    /\ latest' = [latest EXCEPT ![s] = [p \in Server |-> None]]
    /\ stale' = [stale EXCEPT ![s] = [p \in Server |-> FALSE]]
    /\ UNCHANGED <<config, silent>>

-----------------------------------------------------------------------------
LinksInit ==
    /\ config \in Configs
    /\ alive = [c \in Conn |-> FALSE]
    /\ silent = {}
    /\ reader = [c \in Conn |-> [s \in Server |-> "returned"]]
    /\ writer = [c \in Conn |-> [s \in Server |-> FALSE]]
    /\ peers = [s \in Server |-> [p \in Server |-> None]]
    /\ listening = [s \in Server |-> TRUE]
    /\ faults = 0
    /\ latest = [s \in Server |-> [p \in Server |-> None]]
    /\ stale = [s \in Server |-> [p \in Server |-> FALSE]]

Redial(s, p) == \E c \in Conn : Dialer[c] = s /\ Acceptor[c] = p /\ dial(c)

End(s, c) ==
    \/ hello(s, c) \/ hello_fails(s, c)
    \/ end_of_stream(s, c) \/ read_error(s, c) \/ cleanup(s, c)
    \/ writer_ends(s, c)

Fault ==
    \/ \E c \in Conn : break(c) \/ lose(c)
    \/ \E s \in Server : accept_fails(s) \/ restart(s)

LinksNext ==
    \/ \E s, p \in Server : Redial(s, p)
    \/ \E c \in Conn, s \in Server : End(s, c)
    \/ Fault

\* An end that still reads a connection lost without a word need not notice.
Unaware(c, s) == c \in silent /\ reader[c][s] \in {"hello", "reading"}

Prompt ==
    \/ \E s, p \in Server : Redial(s, p)
    \/ \E c \in Conn, s \in Server : ~Unaware(c, s) /\ End(s, c)

\* What can be done is done: a dial loop tries again, an end of a connection
\* reads what is there, and notices that the connection is gone when it has
\* been told so.  Faults, and noticing one that nobody told, may happen.
LinksSpec == LinksInit /\ [][LinksNext]_link_vars /\ WF_link_vars(Prompt)

-----------------------------------------------------------------------------
(* Properties.                                                             *)

\* The entry that frames are sent by is the connection registered last, and
\* it is there as long as that connection is read: the end of an older one
\* never takes the newer one's entry away.
NewestEntry ==
    \A s, p \in Server :
        LET c == latest[s][p] IN
        /\ peers[s][p] \in {None, c}
        /\ c # None => (reader[c][s] = "reading" => peers[s][p] = c)

\* What makes p an id that s may talk to over c: the other end claims it, s
\* lists it and does not have it itself, and it is the one s dialled, if s
\* dialled.
Admitted(s, c, p) ==
    /\ s \in Ends(c) /\ p = Claimed(c, s)
    /\ p \in config.peers[s] \ {config.server_id[s]}
    /\ Dialer[c] = s => p = Acceptor[c]

\* Frames are sent to, and taken from, configured servers only, under the id
\* they claim, and never under another than the one that was dialled: however
\* the servers are named, whoever called, and whatever was registered before.
OnlyConfigured ==
    /\ \A c \in Conn, s \in Server :
          reader[c][s] \in {"reading", "closing"} => Admitted(s, c, Claimed(c, s))
    /\ \A s, p \in Server :
          peers[s][p] # None => Admitted(s, peers[s][p], p)

\* Why the entries are right, as an invariant each step keeps: a connection
\* is registered under the id its other end claims.
LinkInv ==
    /\ LinksTypeOK
    /\ NewestEntry
    /\ OnlyConfigured
    /\ \A s, p \in Server :
          LET c == latest[s][p] IN
          c # None => s \in Ends(c) /\ p = Claimed(c, s)

Usable(s, p) ==
    LET c == peers[s][p] IN
    /\ c # None
    /\ alive[c] /\ reader[c][p] = "reading" /\ writer[c][s]

\* The servers list each other by the ids they have.
Mutual(s, p) ==
    /\ s # p /\ p \in config.peers[s] /\ s \in config.peers[p]
    /\ config.server_id[s] = s /\ config.server_id[p] = p

\* A dial loop sits on a connection that is gone.
Hung(s, p) ==
    \E c \in Conn : Ends(c) = {s, p} /\ Unaware(c, Dialer[c])

Joined ==
    \A s, p \in Server :
        /\ Mutual(s, p) /\ listening[s] /\ listening[p]
        /\ ~Hung(s, p) /\ ~stale[s][p]
        => Usable(s, p)

\* Once nothing breaks any more, two servers that list each other, and both
\* still listen, can send to each other for good: entries left behind by a
\* read error are replaced.  Two things run_connection does not handle are
\* named as conditions: a dial loop that waits on a connection lost without a
\* word, and a Hello read after its connection had ended, which puts a dead
\* connection in the place of a live one.
Heals == <>[]Joined
=============================================================================
