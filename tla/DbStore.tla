------------------------------ MODULE DbStore ------------------------------
(***************************************************************************)
(* The database backend of StateStore (src/src/state.rs): servers share    *)
(* one row that holds the document.  A write is a transaction that locks   *)
(* the row, runs the closure on a copy and stores the copy; init_db makes  *)
(* the row when the first server starts.  Servers may be killed, and       *)
(* connections may break, between any two steps.                           *)
(***************************************************************************)
EXTENDS Naturals, FiniteSets, Servers

CONSTANTS
    Request,            \* the writes asked for, each of them once
    max_connections,    \* of a server's pool
    MaxCrashes          \* bound on crashes, of all servers together

ASSUME DbAssumption ==
    /\ max_connections \in Nat \ {0}
    /\ MaxCrashes \in Nat
    /\ None \notin Server /\ None \notin Request

VARIABLES
    is_cockroach,   \* the database has no advisory locks
    row,            \* the committed row, None before the first init_db
    row_lock,       \* the request whose transaction locks the row, or None
    init_lock,      \* the server that holds the advisory lock, or None
    up,             \* where each server is
    home,           \* the server each request was sent to
    phase,          \* where each request is
    copy,           \* the document a transaction works on
    crashes,
    past            \* history: every document committed

vars == <<is_cockroach, row, row_lock, init_lock, up, home, phase, copy,
          crashes, past>>

\* What a behaviour chooses once.
setting == <<is_cockroach, home>>

Document == [revision: Nat, effects: SUBSET Request]

ASSUME RowAssumption == None \notin Document

\* State::default
Default == [revision |-> 0, effects |-> {}]

\* A transaction's steps: begun, the row locked, the row updated.
Open == {"begun", "locked", "updated"}

Phase == Open \cup {"new", "ok", "error", "gone"}

\* init_db: the table is made, then a row was found or was not.
ServerPhase == {"down", "checking", "found", "missing", "up"}

\* Types of the row, the locks and the transactions.
TypeOK ==
    /\ row \in Document \cup {None}
    /\ row_lock \in Request \cup {None}
    /\ init_lock \in Server \cup {None}
    /\ up \in [Server -> ServerPhase]
    /\ is_cockroach \in BOOLEAN
    /\ home \in [Request -> Server]
    /\ phase \in [Request -> Phase]
    /\ copy \in [Request -> Document]
    /\ crashes \in 0..MaxCrashes
    /\ past \subseteq Document

\* A transaction that ends gives up the row.
Release(r) == row_lock' = IF row_lock = r THEN None ELSE row_lock

Goto(r, p) == phase' = [phase EXCEPT ![r] = p]

-----------------------------------------------------------------------------
(* init_db.                                                                *)

init_begin(s) ==
    /\ up[s] = "down"
    /\ \/ is_cockroach /\ UNCHANGED init_lock
       \/ ~is_cockroach /\ init_lock = None /\ init_lock' = s
    /\ up' = [up EXCEPT ![s] = "checking"]
    /\ UNCHANGED <<row, row_lock, setting, phase, copy, crashes, past>>

\* Mutated form: the row is taken to be there.
init_no_check(s) ==
    /\ up[s] = "checking"
    /\ up' = [up EXCEPT ![s] = "found"]
    /\ UNCHANGED <<row, row_lock, init_lock, setting, phase, copy, crashes, past>>

init_check(s) ==
    /\ up[s] = "checking"
    /\ up' = [up EXCEPT ![s] = IF row = None THEN "missing" ELSE "found"]
    /\ UNCHANGED <<row, row_lock, init_lock, setting, phase, copy, crashes, past>>

\* Mutated form: the insert replaces a row that is there.
init_commit_upsert(s) ==
    /\ \/ /\ up[s] = "found"
          /\ UNCHANGED row
       \/ /\ up[s] = "missing"
          /\ row' = Default
    /\ up' = [up EXCEPT ![s] = "up"]
    /\ init_lock' = IF init_lock = s THEN None ELSE init_lock
    /\ UNCHANGED <<row_lock, setting, phase, copy, crashes, past>>

\* The row's primary key refuses a second insert; load_db then fails and the
\* server does not start.
init_commit(s) ==
    /\ \/ /\ up[s] = "found"
          /\ up' = [up EXCEPT ![s] = "up"]
          /\ UNCHANGED row
       \/ /\ up[s] = "missing"
          /\ row = None
          /\ row' = Default
          /\ up' = [up EXCEPT ![s] = "up"]
       \/ /\ up[s] = "missing"
          /\ row # None
          /\ up' = [up EXCEPT ![s] = "down"]
          /\ UNCHANGED row
    /\ init_lock' = IF init_lock = s THEN None ELSE init_lock
    /\ UNCHANGED <<row_lock, setting, phase, copy, crashes, past>>

-----------------------------------------------------------------------------
(* write_state_db.                                                         *)

in_use(s) == {r \in Request : home[r] = s /\ phase[r] \in Open}

begin(r) ==
    /\ phase[r] = "new"
    /\ up[home[r]] = "up"
    /\ Cardinality(in_use(home[r])) < max_connections
    /\ Goto(r, "begun")
    /\ UNCHANGED <<row, row_lock, init_lock, up, setting, copy, crashes, past>>

\* Mutated form: the row is read without FOR UPDATE.
select_plain(r) ==
    /\ phase[r] = "begun"
    /\ copy' = [copy EXCEPT ![r] = row]
    /\ Goto(r, "locked")
    /\ UNCHANGED <<row, row_lock, init_lock, up, setting, crashes, past>>

select_for_update(r) ==
    /\ phase[r] = "begun"
    /\ row_lock = None
    /\ row_lock' = r
    /\ copy' = [copy EXCEPT ![r] = row]
    /\ Goto(r, "locked")
    /\ UNCHANGED <<row, init_lock, up, setting, crashes, past>>

\* The closure returned Ok: the revision moves and the row is updated.
update(r) ==
    /\ phase[r] = "locked"
    /\ copy' = [copy EXCEPT ![r] =
                   [revision |-> @.revision + 1, effects |-> @.effects \cup {r}]]
    /\ Goto(r, "updated")
    /\ UNCHANGED <<row, row_lock, init_lock, up, setting, crashes, past>>

\* The answer is lost when the connection breaks or the client has gone.
commit(r) ==
    /\ phase[r] = "updated"
    /\ row' = copy[r]
    /\ past' = past \cup {copy[r]}
    /\ \E p \in {"ok", "error", "gone"} : Goto(r, p)
    /\ Release(r)
    /\ UNCHANGED <<init_lock, up, setting, copy, crashes>>

\* Mutated form: a transaction that is dropped stays open.
rollback_keeps_lock(r) ==
    /\ phase[r] \in Open
    /\ \E p \in {"error", "gone"} : Goto(r, p)
    /\ UNCHANGED <<row, row_lock, init_lock, up, setting, copy, crashes, past>>

\* The closure returned Err, a statement failed, or the client went away: the
\* transaction is dropped and the database rolls it back.
rollback(r) ==
    /\ phase[r] \in Open
    /\ \E p \in {"error", "gone"} : Goto(r, p)
    /\ Release(r)
    /\ UNCHANGED <<row, init_lock, up, setting, copy, crashes, past>>

crash(s) ==
    /\ up[s] # "down" /\ crashes < MaxCrashes
    /\ crashes' = crashes + 1
    /\ up' = [up EXCEPT ![s] = "down"]
    /\ phase' = [r \in Request |-> IF r \in in_use(s) THEN "gone" ELSE phase[r]]
    /\ row_lock' = IF row_lock \in in_use(s) THEN None ELSE row_lock
    /\ init_lock' = IF init_lock = s THEN None ELSE init_lock
    /\ UNCHANGED <<row, setting, copy, past>>

-----------------------------------------------------------------------------

\* No request is left and the servers wait for more.
idle ==
    /\ \A s \in Server : up[s] = "up"
    /\ \A r \in Request : phase[r] \notin Open \cup {"new"}
    /\ UNCHANGED vars

Init ==
    /\ row = None
    /\ row_lock = None
    /\ init_lock = None
    /\ up = [s \in Server |-> "down"]
    /\ is_cockroach \in BOOLEAN
    /\ home \in [Request -> Server]
    /\ phase = [r \in Request |-> "new"]
    /\ copy = [r \in Request |-> Default]
    /\ crashes = 0
    /\ past = {Default}

start(s) == init_begin(s) \/ init_check(s) \/ init_commit(s)

Next ==
    \/ \E s \in Server : start(s) \/ crash(s)
    \/ \E r \in Request :
          begin(r) \/ select_for_update(r) \/ update(r) \/ commit(r) \/ rollback(r)
    \/ idle

\* Servers are started again; the pool and the row's lock serve those who
\* wait in turn; statements under way come to an end.
Fairness ==
    /\ \A s \in Server : SF_vars(start(s))
    /\ \A r \in Request :
          /\ SF_vars(begin(r)) /\ SF_vars(select_for_update(r))
          /\ WF_vars(update(r)) /\ WF_vars(commit(r))

Spec == Init /\ [][Next]_vars /\ Fairness

-----------------------------------------------------------------------------
(* Properties.                                                             *)

SharedDocument == IF row = None THEN Default ELSE row

\* A request answered Ok, by whichever server, is in the document for good,
\* through concurrent writes of all servers, their crashes and their starts.
AcknowledgedStays ==
    \A r \in Request : phase[r] = "ok" => r \in SharedDocument.effects

\* Every request comes to an end, also when the pool is at its limit and the
\* row is locked by a request of another server.
RequestsEnd ==
    \A r \in Request : phase[r] = "new" ~> phase[r] \in {"ok", "error", "gone"}

Told == [r \in Request |->
            IF phase[r] \in Open \cup {"new"} THEN "none" ELSE phase[r]]

AbstractStore ==
    INSTANCE Store WITH Partial <- FALSE, Volatile <- FALSE,
                        doc <- SharedDocument, answer <- Told, past <- past

\* The database backend implements the store that loses nothing: requests of
\* all servers take effect one at a time, at most once and completely or not
\* at all, and Ok is answered only after the effect.
ImplementsStore == AbstractStore!StoreSpec
=============================================================================
