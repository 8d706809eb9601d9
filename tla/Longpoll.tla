------------------------------ MODULE Longpoll -----------------------------
(***************************************************************************)
(* How nodes follow the document: netmap_longpoll, and the handlers that   *)
(* write and then read it back in a second step (heartbeat and register,   *)
(* src/src/api.rs), over what a store promises (module Store).  The        *)
(* database store keeps what it committed.  The file store may fall back   *)
(* to an earlier document when the server goes down, and may show changes  *)
(* under an old revision.                                                  *)
(***************************************************************************)
EXTENDS Naturals

CONSTANTS
    Client,         \* nodes, each with one request at a time
    Request,        \* writes
    Beat,           \* the client that makes a write with heartbeat or
                    \* register, if one does
    Removal,        \* the write that deletes a client, if one does
    None,
    MaxCrashes      \* bound on crashes of a server

VARIABLES
    backend,
    doc, answer, past,      \* of the store
    phase,          \* of a client's request
    since,          \* the revision a poll gave, and
    late,           \* its deadline has passed
    snap,           \* the document a request has read
    wrote,          \* the write of a heartbeat
    view,           \* the document a client was last shown
    crashes

store == <<doc, answer, past>>
clients == <<phase, since, late, snap, wrote, view>>
vars == <<backend, store, clients, crashes>>

Db == INSTANCE Store WITH Partial <- FALSE, Volatile <- FALSE
File == INSTANCE Store WITH Partial <- TRUE, Volatile <- TRUE

Phase == {"idle", "reading", "read", "sleeping", "wrote"}

Gone(c, d) == Removal[c] \in d.effects

-----------------------------------------------------------------------------
(* netmap_longpoll, from the client's request on.                          *)

\* since is the revision of the last netmap, or absent.
poll(c) ==
    /\ phase[c] = "idle"
    /\ phase' = [phase EXCEPT ![c] = "reading"]
    /\ \E s \in {0, view[c].revision} : since' = [since EXCEPT ![c] = s]
    /\ UNCHANGED <<backend, store, late, snap, wrote, view, crashes>>

\* Also at once: timeout_seconds may be 0.
deadline(c) ==
    /\ phase[c] \in {"reading", "read", "sleeping"} /\ ~late[c]
    /\ late' = [late EXCEPT ![c] = TRUE]
    /\ UNCHANGED <<backend, store, phase, since, snap, wrote, view, crashes>>

\* The request is over, and what it kept is dropped.
Return(c) ==
    /\ phase' = [phase EXCEPT ![c] = "idle"]
    /\ since' = [since EXCEPT ![c] = 0]
    /\ late' = [late EXCEPT ![c] = FALSE]

\* Mutant: some document that was committed, from a cache.
current_cached == past

\* What StateStore::read may find.
current == {doc}

read(c) ==
    /\ phase[c] = "reading"
    /\ \E d \in current :
          IF Gone(c, d) THEN Return(c) /\ UNCHANGED snap
          ELSE /\ phase' = [phase EXCEPT ![c] = "read"]
               /\ snap' = [snap EXCEPT ![c] = d]
               /\ UNCHANGED <<since, late>>
    /\ UNCHANGED <<backend, store, wrote, view, crashes>>

\* Mutant: the deadline alone ends no poll.
ready_news(c) == snap[c].revision > since[c]

ready(c) == snap[c].revision > since[c] \/ late[c]

\* The check after the read: the answer, or a sleep.
decide(c) ==
    /\ phase[c] = "read"
    /\ IF ready(c) THEN Return(c) /\ view' = [view EXCEPT ![c] = snap[c]]
       ELSE /\ phase' = [phase EXCEPT ![c] = "sleeping"]
            /\ UNCHANGED <<since, late, view>>
    /\ snap' = [snap EXCEPT ![c] = Db!Default]
    /\ UNCHANGED <<backend, store, wrote, crashes>>

wake(c) ==
    /\ phase[c] = "sleeping"
    /\ phase' = [phase EXCEPT ![c] = "reading"]
    /\ UNCHANGED <<backend, store, since, late, snap, wrote, view, crashes>>

-----------------------------------------------------------------------------
(* heartbeat and register.                                                 *)

\* The write, which fails for a client that is gone.
beat(c, r) ==
    /\ phase[c] = "idle" /\ Beat[r] = c /\ ~Gone(c, doc)
    /\ Db!Commit(r) /\ Db!Reply(r, "ok")
    /\ phase' = [phase EXCEPT ![c] = "wrote"]
    /\ wrote' = [wrote EXCEPT ![c] = r]
    /\ UNCHANGED <<backend, since, late, snap, view, crashes>>

\* The netmap of the answer, or an error.
beat_read(c) ==
    /\ phase[c] = "wrote"
    /\ phase' = [phase EXCEPT ![c] = "idle"]
    /\ \E d \in current : view' = [view EXCEPT ![c] = IF Gone(c, d) THEN @ ELSE d]
    /\ wrote' = [wrote EXCEPT ![c] = None]
    /\ UNCHANGED <<backend, store, since, late, snap, crashes>>

-----------------------------------------------------------------------------
(* The store, and the other clients' requests.                             *)

other(r) ==
    /\ Beat[r] = None
    /\ \/ Db!Commit(r) /\ Db!Reply(r, "ok")
       \/ backend = "file" /\ File!Touch(r) /\ File!Reply(r, "error")
    /\ UNCHANGED <<backend, clients, crashes>>

\* A server goes down: the one there is with the file store, one of several
\* with the database.  Its requests get no answer, and clients ask again.
crash(lost) ==
    /\ crashes < MaxCrashes
    /\ crashes' = crashes + 1
    /\ \/ backend = "file" /\ lost = Client /\ File!FallBack
       \/ backend = "db" /\ Db!FallBack
    /\ phase' = [c \in Client |-> IF c \in lost THEN "idle" ELSE phase[c]]
    /\ since' = [c \in Client |-> IF c \in lost THEN 0 ELSE since[c]]
    /\ late' = [c \in Client |-> c \notin lost /\ late[c]]
    /\ snap' = [c \in Client |-> IF c \in lost THEN Db!Default ELSE snap[c]]
    /\ wrote' = [c \in Client |-> IF c \in lost THEN None ELSE wrote[c]]
    /\ UNCHANGED <<backend, view>>

-----------------------------------------------------------------------------
Init ==
    /\ backend \in {"db", "file"}
    /\ Db!StoreInit
    /\ phase = [c \in Client |-> "idle"]
    /\ since = [c \in Client |-> 0]
    /\ late = [c \in Client |-> FALSE]
    /\ snap = [c \in Client |-> Db!Default]
    /\ wrote = [c \in Client |-> None]
    /\ view = [c \in Client |-> Db!Default]
    /\ crashes = 0

\* What a client's request does by itself.
Step(c) == poll(c) \/ read(c) \/ decide(c) \/ wake(c) \/ beat_read(c)

Next ==
    \/ \E c \in Client : Step(c) \/ deadline(c) \/ \E r \in Request : beat(c, r)
    \/ \E r \in Request : other(r)
    \/ \E lost \in SUBSET Client : crash(lost)

\* Clients poll again, handlers run, and time passes.
Spec == Init /\ [][Next]_vars
             /\ \A c \in Client : WF_vars(Step(c)) /\ WF_vars(deadline(c))

-----------------------------------------------------------------------------
(* Properties.                                                             *)

\* Once the document stays as it is every client that is not deleted sees
\* it: also after a fall back to an earlier revision, or a change without a
\* new one, which only the deadline of a poll brings out.
CatchesUp == <>[](\A c \in Client : view[c] = doc \/ Gone(c, doc))

\* With the database a poll never sleeps through news: whenever the client
\* has not seen the current document, its revision is past the poll's since.
NewsAtOnce ==
    backend = "db" =>
        \A c \in Client :
            phase[c] \in {"reading", "read", "sleeping"} /\ view[c] # doc
                => doc.revision > since[c]

\* The netmap that answers a heartbeat or a registration contains what it
\* wrote, although other writes, and a crash of another server, may come in
\* between.
ReadsOwnWrite ==
    [][\A c \in Client :
          phase[c] = "wrote" /\ phase'[c] = "idle" /\ crashes' = crashes
              => wrote[c] \in view'[c].effects \/ Gone(c, doc)]_vars
=============================================================================
