----------------------------- MODULE FileStore -----------------------------
(***************************************************************************)
(* The file backend of StateStore (src/src/state.rs): the document lives   *)
(* in memory under a lock; a snapshot of it is written to the state file   *)
(* after the lock is released, by truncating and rewriting the file in     *)
(* place.  The server may be killed between any two steps.                 *)
(*                                                                         *)
(* A document is abstracted to its revision and the set of requests whose  *)
(* changes it holds.                                                       *)
(***************************************************************************)
EXTENDS Naturals

CONSTANTS
    Request,        \* the writes asked for, each of them once
    Absent,         \* no state file
    Empty,          \* a state file just truncated
    Garbage,        \* bytes that are not one document
    MaxCrashes      \* bound on crashes

ASSUME CrashAssumption == MaxCrashes \in Nat

VARIABLES
    up,             \* the server runs
    memory,         \* FileStore::inner
    file,           \* the state file: a document, or one of Unreadable
    phase,          \* where each request is
    snapshot,       \* the document a request has yet to write
    crashes,
    past,           \* history: every document committed
    lone            \* history: the last request to commit, if it has shared
                    \* the file with no other

vars == <<up, memory, file, phase, snapshot, crashes, past, lone>>

Document == [revision: Nat, effects: SUBSET Request]

\* State::default
Default == [revision |-> 0, effects |-> {}]

Unreadable == {Absent, Empty, Garbage}

ASSUME FileAssumption ==
    /\ Unreadable \cap Document = {}
    /\ Empty # Garbage

Pending == {"persist", "writing"}

Phase == Pending \cup {"new", "ok", "error", "gone"}

\* Types of the store's state and of the state file.
TypeOK ==
    /\ up \in BOOLEAN
    /\ memory \in Document
    /\ file \in Document \cup Unreadable
    /\ phase \in [Request -> Phase]
    /\ snapshot \in [Request -> Document]
    /\ crashes \in 0..MaxCrashes
    /\ past \subseteq Document
    /\ lone \subseteq Request

\* Mutated form: whatever the file holds is taken for a document.
load_state_unparsed == file

\* load_state(path).unwrap_or_default(): what does not parse is no state.
load_state == IF file \in Unreadable THEN Default ELSE file

Goto(r, p) == phase' = [phase EXCEPT ![r] = p]

-----------------------------------------------------------------------------

\* Mutated form: the snapshot is taken before the closure runs.
write_ok_early_snapshot(r) ==
    /\ up /\ phase[r] = "new"
    /\ memory' = [revision |-> memory.revision + 1,
                  effects |-> memory.effects \cup {r}]
    /\ snapshot' = [snapshot EXCEPT ![r] = memory]
    /\ Goto(r, "persist")
    /\ past' = past \cup {memory'}
    /\ lone' = IF \E s \in Request : phase[s] \in Pending THEN {} ELSE {r}
    /\ UNCHANGED <<up, file, crashes>>

\* A closure that returned Ok: the revision moves and the snapshot is taken
\* before the lock is released.
write_ok(r) ==
    /\ up /\ phase[r] = "new"
    /\ memory' = [revision |-> memory.revision + 1,
                  effects |-> memory.effects \cup {r}]
    /\ snapshot' = [snapshot EXCEPT ![r] = memory']
    /\ Goto(r, "persist")
    /\ past' = past \cup {memory'}
    /\ lone' = IF \E s \in Request : phase[s] \in Pending THEN {} ELSE {r}
    /\ UNCHANGED <<up, file, crashes>>

\* Mutated form: the revision moves for a refused request too.
write_err_revision(r) ==
    /\ up /\ phase[r] = "new"
    /\ memory' = [revision |-> memory.revision + 1,
                  effects |-> memory.effects \cup {r}]
    /\ Goto(r, "error")
    /\ UNCHANGED <<up, file, snapshot, crashes, past, lone>>

\* A closure that returned Err, before or after it changed the document: the
\* revision stays, and so does whatever was changed.
write_err(r) ==
    /\ up /\ phase[r] = "new"
    /\ \/ UNCHANGED memory
       \/ memory' = [memory EXCEPT !.effects = @ \cup {r}]
    /\ Goto(r, "error")
    /\ UNCHANGED <<up, file, snapshot, crashes, past, lone>>

\* Mutated form: the file is opened without truncation.
open_only(r) ==
    /\ phase[r] = "persist"
    /\ Goto(r, "writing")
    /\ UNCHANGED <<up, memory, file, snapshot, crashes, past, lone>>

\* tokio::fs::write opens the file with truncation.
truncate(r) ==
    /\ phase[r] = "persist"
    /\ file' = Empty
    /\ Goto(r, "writing")
    /\ UNCHANGED <<up, memory, snapshot, crashes, past, lone>>

\* What the file holds once a snapshot was written from its start: a longer
\* text that was there already shows behind the new one.
overwritten(r) ==
    IF file = Empty THEN {snapshot[r]} ELSE {snapshot[r], Garbage}

\* The answer goes to nobody when the client has gone away meanwhile.
write_all(r) ==
    /\ phase[r] = "writing"
    /\ file' \in overwritten(r)
    /\ \E p \in {"ok", "gone"} : Goto(r, p)
    /\ UNCHANGED <<up, memory, snapshot, crashes, past, lone>>

\* create_dir_all, the opening or the writing fails, or the client goes away
\* before the file is opened.  The document in memory stays as it is.
persist_fails(r) ==
    /\ \/ /\ phase[r] = "persist"
          /\ \E p \in {"error", "gone"} : Goto(r, p)
          /\ UNCHANGED file
       \/ /\ phase[r] = "writing"
          /\ Goto(r, "error")
          /\ file' \in {file, Garbage}
    /\ UNCHANGED <<up, memory, snapshot, crashes, past, lone>>

\* The server is killed, perhaps in the middle of a write.
crash ==
    /\ up /\ crashes < MaxCrashes
    /\ crashes' = crashes + 1
    /\ up' = FALSE
    /\ \/ UNCHANGED file
       \/ file' = Garbage /\ \E r \in Request : phase[r] = "writing"
    /\ phase' = [r \in Request |->
                    IF phase[r] \in Pending THEN "gone" ELSE phase[r]]
    /\ UNCHANGED <<memory, snapshot, past, lone>>

\* StateStore::load
load ==
    /\ ~up
    /\ up' = TRUE
    /\ memory' = load_state
    /\ UNCHANGED <<file, phase, snapshot, crashes, past, lone>>

\* No request is left and the server waits for more.
idle ==
    /\ up
    /\ \A r \in Request : phase[r] \notin Pending \cup {"new"}
    /\ UNCHANGED vars

Init ==
    /\ up = TRUE
    /\ memory = Default
    /\ file = Absent
    /\ phase = [r \in Request |-> "new"]
    /\ snapshot = [r \in Request |-> Default]
    /\ crashes = 0
    /\ past = {Default}
    /\ lone = {}

Next ==
    \/ \E r \in Request :
          \/ write_ok(r) \/ write_err(r)
          \/ truncate(r) \/ write_all(r) \/ persist_fails(r)
    \/ crash
    \/ load
    \/ idle

\* A file operation under way comes to an end, and the supervisor starts the
\* server again.
Fairness ==
    /\ WF_vars(load)
    /\ \A r \in Request : WF_vars(truncate(r)) /\ WF_vars(write_all(r))

Spec == Init /\ [][Next]_vars /\ Fairness

-----------------------------------------------------------------------------
(* Properties.                                                             *)

\* A write that was answered Ok and had the file to itself is what every
\* restart finds, until the next write commits.  (Of writes that overlap in
\* persist_file the older one may win, or the file may end unreadable.)
LoneWriteSurvives ==
    \A r \in lone : phase[r] = "ok" => load_state = snapshot[r]

\* A committed write reaches the state file, unless its persist_file fails or
\* is cut off or another write commits before it is done.
LoneWriteReachesFile ==
    \A r \in Request :
        phase[r] = "persist" /\ r \in lone ~>
            \/ r \in load_state.effects
            \/ phase[r] \in {"error", "gone"}
            \/ r \notin lone

\* The document callers see: the one in memory or, while the server is down,
\* the one it will load.
VisibleDocument == IF up THEN memory ELSE load_state

Told == [r \in Request |->
            IF phase[r] \in Pending \cup {"new"} THEN "none" ELSE phase[r]]

AbstractStore ==
    INSTANCE Store WITH Partial <- TRUE, Volatile <- TRUE,
                        doc <- VisibleDocument, answer <- Told, past <- past

\* The file backend implements the store that may keep half of a refused
\* request and may fall back to an earlier committed document at a crash, but
\* does nothing worse: no request takes effect twice, none is answered Ok
\* without having taken effect, and no restart finds a document that was
\* never committed.
ImplementsStore == AbstractStore!StoreSpec
=============================================================================
