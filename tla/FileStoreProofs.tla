-------------------------- MODULE FileStoreProofs --------------------------
(***************************************************************************)
(* What the file backend keeps, for any number of requests and crashes: it *)
(* implements the weaker Store, and a write that overlaps no other         *)
(* survives.                                                               *)
(***************************************************************************)
EXTENDS FileStore, TLAPS

\* Whatever can be read from the file, now or after a write under way, was
\* committed; a request that has not run has left no trace.
CommittedInv ==
    /\ Default \in past
    /\ file \notin Unreadable => file \in past
    /\ \A r \in Request :
          /\ phase[r] \in Pending =>
                up /\ snapshot[r] \in past /\ r \in snapshot[r].effects
          /\ phase[r] = "new" =>
                \A d \in past \cup {memory} : r \notin d.effects

\* The last request to commit has the file to itself.
LoneInv ==
    \A r \in lone :
        /\ phase[r] # "new"
        /\ \A s \in Request : phase[s] \in Pending => s = r
        /\ phase[r] = "writing" => file = Empty
        /\ phase[r] = "ok" => file = snapshot[r]

FileInv == TypeOK /\ CommittedInv /\ LoneInv

LEMMA DefaultType == Default \in Document
BY DEF Default, Document

LEMMA FileInit == Init => FileInv
BY DefaultType, CrashAssumption
   DEF Init, FileInv, TypeOK, CommittedInv, LoneInv, Phase, Pending, Unreadable,
       Default

\* The closure: a commit, or a refusal that may leave changes behind.
LEMMA WriteKeepsInv ==
    ASSUME FileInv, NEW r \in Request, write_ok(r) \/ write_err(r)
    PROVE  FileInv'
<1>. USE DEF FileInv, Goto
<1>1. CASE write_ok(r)
  <2>1. /\ memory' \in Document
        /\ memory'.effects = memory.effects \cup {r}
    BY <1>1 DEF write_ok, TypeOK, Document
  <2>2. /\ snapshot' = [snapshot EXCEPT ![r] = memory']
        /\ phase' = [phase EXCEPT ![r] = "persist"]
        /\ past' = past \cup {memory'}
        /\ up /\ phase[r] = "new" /\ UNCHANGED <<up, file, crashes>>
    BY <1>1 DEF write_ok
  <2>3. TypeOK'
    <3>1. lone' \subseteq Request
      BY <1>1 DEF write_ok
    <3>2. past' \subseteq Document /\ snapshot' \in [Request -> Document]
      BY <2>1, <2>2 DEF TypeOK
    <3>3. phase' \in [Request -> Phase]
      BY <2>2 DEF TypeOK, Phase, Pending
    <3>. QED  BY <2>1, <2>2, <3>1, <3>2, <3>3 DEF TypeOK
  <2>4. CommittedInv'
    BY <2>1, <2>2 DEF CommittedInv, TypeOK, Pending
  <2>5. LoneInv'
    BY <1>1, <2>2 DEF write_ok, LoneInv, TypeOK, Pending
  <2>. QED  BY <2>3, <2>4, <2>5
<1>2. CASE write_err(r)
  <2>1. /\ memory' \in Document
        /\ memory'.effects \in {memory.effects, memory.effects \cup {r}}
    BY <1>2 DEF write_err, TypeOK, Document
  <2>2. TypeOK'
    BY <1>2, <2>1 DEF write_err, TypeOK, Phase
  <2>3. CommittedInv'
    BY <1>2, <2>1 DEF write_err, CommittedInv, TypeOK, Pending
  <2>4. LoneInv'
    BY <1>2 DEF write_err, LoneInv, TypeOK, Pending
  <2>. QED  BY <2>2, <2>3, <2>4
<1>. QED  BY <1>1, <1>2

\* persist_file: the file is only ever a snapshot or unreadable.
LEMMA PersistKeepsInv ==
    ASSUME FileInv, NEW r \in Request,
           truncate(r) \/ write_all(r) \/ persist_fails(r)
    PROVE  FileInv'
<1>. USE FileAssumption DEF FileInv, Goto, Unreadable
<1>1. CASE truncate(r)
  <2>1. TypeOK'
    BY <1>1 DEF truncate, TypeOK, Phase, Pending
  <2>2. CommittedInv'
    BY <1>1 DEF truncate, CommittedInv, TypeOK, Pending
  <2>3. LoneInv'
    BY <1>1 DEF truncate, LoneInv, TypeOK, Pending
  <2>. QED  BY <2>1, <2>2, <2>3
<1>2. CASE write_all(r)
  <2>1. PICK p \in {"ok", "gone"} : phase' = [phase EXCEPT ![r] = p]
    BY <1>2, Zenon DEF write_all
  <2>2. snapshot[r] \in Document /\ snapshot[r] \in past
    BY <1>2 DEF write_all, CommittedInv, TypeOK, Pending
  <2>3. file' = snapshot[r] \/ (file # Empty /\ file' = Garbage)
    BY <1>2 DEF write_all, overwritten
  <2>4. TypeOK'
    BY <1>2, <2>1, <2>2, <2>3 DEF write_all, TypeOK, Phase, Pending
  <2>5. CommittedInv'
    BY <1>2, <2>1, <2>2, <2>3 DEF write_all, CommittedInv, TypeOK, Pending
  <2>6. LoneInv'
    BY <1>2, <2>1, <2>3 DEF write_all, LoneInv, TypeOK, Pending
  <2>. QED  BY <2>4, <2>5, <2>6
<1>3. CASE persist_fails(r)
  <2>1. PICK p \in {"error", "gone"} : phase' = [phase EXCEPT ![r] = p]
    BY <1>3 DEF persist_fails
  <2>2. phase[r] \in Pending /\ file' \in {file, Garbage}
    BY <1>3 DEF persist_fails, Pending
  <2>3. TypeOK'
    BY <1>3, <2>1, <2>2 DEF persist_fails, TypeOK, Phase
  <2>4. CommittedInv'
    BY <1>3, <2>1, <2>2 DEF persist_fails, CommittedInv, TypeOK, Pending
  <2>5. LoneInv'
    BY <1>3, <2>1, <2>2 DEF persist_fails, LoneInv, TypeOK, Pending
  <2>. QED  BY <2>3, <2>4, <2>5
<1>. QED  BY <1>1, <1>2, <1>3

\* A crash cuts off the writes under way; load reads what they left.
LEMMA RestartKeepsInv ==
    ASSUME FileInv, crash \/ load
    PROVE  FileInv'
<1>. USE FileAssumption, CrashAssumption DEF FileInv, Unreadable
<1>1. CASE crash
  <2>1. \A r \in Request : \/ phase'[r] = phase[r] /\ phase[r] \notin Pending
                           \/ phase'[r] = "gone" /\ phase[r] \in Pending
    BY <1>1 DEF crash
  <2>2. TypeOK'
    <3>1. crashes' \in 0..MaxCrashes
      BY <1>1 DEF crash, TypeOK
    <3>2. phase' \in [Request -> Phase]
      BY <1>1 DEF crash, TypeOK, Phase
    <3>3. file' \in Document \cup Unreadable
      BY <1>1 DEF crash, TypeOK
    <3>. QED  BY <1>1, <3>1, <3>2, <3>3, Zenon DEF crash, TypeOK
  <2>3. CommittedInv'
    BY <1>1, <2>1 DEF crash, CommittedInv, TypeOK, Pending
  <2>4. \A r \in Request : phase[r] = "writing" => phase[r] \in Pending
    BY DEF Pending
  <2>5. LoneInv'
    <3>. SUFFICES ASSUME NEW r \in lone PROVE
           /\ phase'[r] # "new"
           /\ \A s \in Request : phase'[s] \notin Pending
           /\ phase'[r] = "ok" => file' = snapshot'[r]
      BY <1>1, <2>1 DEF crash, LoneInv, TypeOK, Pending
    <3>1. phase'[r] # "new" /\ \A s \in Request : phase'[s] \notin Pending
      BY <2>1 DEF LoneInv, TypeOK, Pending
    <3>2. ASSUME phase'[r] = "ok" PROVE file' = snapshot'[r]
      BY <1>1, <2>1, <2>4, <3>2 DEF crash, LoneInv, TypeOK, Pending
    <3>. QED  BY <3>1, <3>2
  <2>. QED  BY <2>2, <2>3, <2>5
<1>2. CASE load
  <2>1. load_state \in past /\ load_state \in Document
    BY DefaultType DEF load_state, CommittedInv, TypeOK
  <2>. QED
    BY <1>2, <2>1 DEF load, TypeOK, CommittedInv, LoneInv, Pending
<1>. QED  BY <1>1, <1>2

LEMMA FileStep == FileInv /\ [Next]_vars => FileInv'
<1>. SUFFICES ASSUME FileInv, [Next]_vars PROVE FileInv'
  OBVIOUS
<1>1. CASE UNCHANGED vars
  BY <1>1 DEF vars, FileInv, TypeOK, CommittedInv, LoneInv
<1>. QED  BY <1>1, WriteKeepsInv, PersistKeepsInv, RestartKeepsInv DEF Next, idle

\* The invariant of the file and its writers holds throughout.
THEOREM FileInvariant == Spec => []FileInv
<1>1. Init => FileInv
  BY FileInit
<1>2. FileInv /\ [Next]_vars => FileInv'
  BY FileStep
<1>. QED  BY <1>1, <1>2, PTL DEF Spec

\* The state stays well typed: load_state only ever gives the server a
\* document, whatever a crash left in the file.
THEOREM FileStoreTyped == Spec => []TypeOK
BY FileInvariant, PTL DEF FileInv

\* A write answered Ok that shared the file with no other is what load_state
\* finds, until the next write commits.
THEOREM LoneWritesSurvive == Spec => []LoneWriteSurvives
<1>1. FileInv => LoneWriteSurvives
  BY FileAssumption DEF FileInv, LoneInv, LoneWriteSurvives, load_state, TypeOK
<1>. QED  BY <1>1, FileInvariant, PTL

-----------------------------------------------------------------------------
(* Refinement.                                                             *)

LEMMA WriteRefines ==
    ASSUME FileInv, NEW r \in Request, write_ok(r) \/ write_err(r)
    PROVE  AbstractStore!StoreNext
<1>. USE DEF FileInv, Goto
<1>1. /\ up /\ up' /\ phase[r] = "new"
      /\ VisibleDocument = memory /\ VisibleDocument' = memory'
  BY DEF write_ok, write_err, VisibleDocument
<1>2. \A d \in past \cup {memory} : r \notin d.effects
  BY <1>1 DEF CommittedInv
<1>3. ~AbstractStore!Effective(r) /\ Told[r] = "none"
  BY <1>1, <1>2 DEF AbstractStore!Effective, Told
<1>4. CASE write_ok(r)
  <2>1. Told' = Told
    BY <1>1, <1>4 DEF write_ok, Told, Pending, TypeOK
  <2>2. AbstractStore!Commit(r)
    BY <1>1, <1>2, <1>3, <1>4
       DEF write_ok, AbstractStore!Commit, AbstractStore!applied
  <2>. QED  BY <2>1, <2>2 DEF AbstractStore!StoreNext
<1>5. CASE write_err(r)
  <2>1. Told' = [Told EXCEPT ![r] = "error"]
    BY <1>1, <1>5, Zenon DEF write_err, Told, Pending, TypeOK
  <2>2. AbstractStore!Reply(r, "error") /\ past' = past
    BY <1>3, <1>5, <2>1 DEF AbstractStore!Reply, write_err
  <2>3. memory' = memory \/ AbstractStore!Touch(r)
    BY <1>1, <1>2, <1>3, <1>5
       DEF write_err, AbstractStore!Touch, AbstractStore!touched
  <2>. QED  BY <1>1, <2>2, <2>3 DEF AbstractStore!StoreNext
<1>. QED  BY <1>4, <1>5

\* Truncating the file is invisible; the other steps of persist_file answer.
LEMMA PersistRefines ==
    ASSUME FileInv, NEW r \in Request,
           truncate(r) \/ write_all(r) \/ persist_fails(r)
    PROVE  AbstractStore!StoreNext
             \/ UNCHANGED <<VisibleDocument, Told, past>>
<1>. USE DEF FileInv, Goto
<1>1. phase[r] \in Pending
  BY DEF truncate, write_all, persist_fails, Pending
<1>2. up /\ UNCHANGED <<VisibleDocument, past>>
  BY <1>1 DEF truncate, write_all, persist_fails, CommittedInv, VisibleDocument
<1>3. Told[r] = "none" /\ AbstractStore!Effective(r)
  BY <1>1 DEF Told, CommittedInv, AbstractStore!Effective
<1>4. CASE truncate(r)
  BY <1>1, <1>2, <1>4 DEF truncate, Told, Pending, TypeOK
<1>5. CASE write_all(r) \/ persist_fails(r)
  <2>1. PICK p \in {"ok", "error", "gone"} : phase' = [phase EXCEPT ![r] = p]
    BY <1>5 DEF write_all, persist_fails
  <2>2. Told' = [Told EXCEPT ![r] = p]
    BY <2>1, Zenon DEF Told, Pending, TypeOK
  <2>3. AbstractStore!Reply(r, p)
    BY <1>3, <2>2 DEF AbstractStore!Reply
  <2>. QED  BY <1>2, <1>3, <2>3 DEF AbstractStore!StoreNext
<1>. QED  BY <1>4, <1>5

\* A crash makes the document the one in the file; load changes nothing more.
LEMMA RestartRefines ==
    ASSUME FileInv, crash \/ load
    PROVE  AbstractStore!StoreNext
             \/ UNCHANGED <<VisibleDocument, Told, past>>
<1>. USE FileAssumption DEF FileInv
<1>1. CASE crash
  <2>1. VisibleDocument' = load_state'
    BY <1>1 DEF crash, VisibleDocument
  <2>2. load_state' \in past
    BY <1>1 DEF crash, load_state, CommittedInv, Unreadable
  <2>3. past' = past
    BY <1>1 DEF crash
  <2>. DEFINE R == {r \in Request : phase[r] \in Pending}
  <2>4. \A r \in R : Told[r] = "none"
    BY DEF Told
  <2>5. Told' = [r \in Request |-> IF r \in R THEN "gone" ELSE Told[r]]
    BY <1>1 DEF crash, Told, Pending
  <2>6. R \in SUBSET Request
    OBVIOUS
  <2>7. AbstractStore!FallBack
    BY <2>1, <2>2, <2>3, <2>4, <2>5, <2>6, Zenon DEF AbstractStore!FallBack
  <2>. QED  BY <2>7 DEF AbstractStore!StoreNext
<1>2. CASE load
  BY <1>2 DEF load, VisibleDocument, Told, load_state
<1>. QED  BY <1>1, <1>2

\* StateStore with the file backend implements the weaker store: it may keep
\* half of a refused request and may fall back, at a crash, to a document
\* committed before, and does nothing worse.
THEOREM FileImplementsStore == Spec => ImplementsStore
<1>1. Init => AbstractStore!StoreInit
  BY DEF Init, AbstractStore!StoreInit, VisibleDocument, Told, Default,
     AbstractStore!Default
<1>2. FileInv /\ [Next]_vars =>
         [AbstractStore!StoreNext]_<<VisibleDocument, Told, past>>
  <2>. SUFFICES ASSUME FileInv, [Next]_vars
                PROVE  AbstractStore!StoreNext
                         \/ UNCHANGED <<VisibleDocument, Told, past>>
    OBVIOUS
  <2>1. CASE UNCHANGED vars
    BY <2>1 DEF vars, VisibleDocument, Told, load_state
  <2>. QED  BY <2>1, WriteRefines, PersistRefines, RestartRefines DEF Next, idle
<1>. QED
  BY <1>1, <1>2, FileInvariant, PTL
     DEF Spec, ImplementsStore, AbstractStore!StoreSpec, AbstractStore!storeVars
=============================================================================
