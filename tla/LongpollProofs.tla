--------------------------- MODULE LongpollProofs --------------------------
(***************************************************************************)
(* What a client of the netmap is shown, for any number of clients, writes *)
(* and crashes.                                                            *)
(***************************************************************************)
EXTENDS Longpoll, TLAPS

PollTypes ==
    /\ doc \in Db!Document /\ past \subseteq Db!Document
    /\ phase \in [Client -> Phase]
    /\ since \in [Client -> Nat]
    /\ snap \in [Client -> Db!Document] /\ view \in [Client -> Db!Document]
    /\ wrote = [c \in Client |-> wrote[c]]
    /\ crashes \in Nat

\* What a handler wrote is there when it reads the netmap.
WriteKept == \A c \in Client : phase[c] = "wrote" => wrote[c] \in doc.effects

\* With the database the document is the last of all that were committed.
LastCommitted ==
    /\ doc \in past /\ Db!Default \in past
    /\ \A d \in past : /\ d.revision <= doc.revision
                       /\ d.revision = doc.revision => d = doc

\* What requests and clients hold was committed, and a poll asks for no more
\* than its client has seen.
HeldCommitted ==
    \A c \in Client : /\ snap[c] \in past /\ view[c] \in past
                      /\ since[c] <= view[c].revision

PollInv ==
    /\ PollTypes /\ WriteKept
    /\ backend = "db" => LastCommitted /\ HeldCommitted

LEMMA DefaultType == Db!Default \in Db!Document
BY DEF Db!Default, Db!Document

LEMMA PollInit == Init => PollInv
<1>. SUFFICES ASSUME Init PROVE PollInv
  OBVIOUS
<1>. USE DefaultType DEF Init, Db!StoreInit
<1>1. PollTypes /\ WriteKept
  BY DEF PollTypes, WriteKept, Phase
<1>a. Db!Default.revision = 0
  BY DEF Db!Default
<1>2. LastCommitted
  BY <1>a DEF LastCommitted
<1>3. HeldCommitted
  <2>1. \A c \in Client : snap[c] = Db!Default /\ view[c] = Db!Default /\ since[c] = 0
    BY Zenon
  <2>2. Db!Default \in past
    OBVIOUS
  <2>. HIDE DEF Init
  <2>3. ASSUME NEW c \in Client PROVE since[c] <= view[c].revision
    <3>1. since[c] = 0 /\ view[c].revision = 0
      BY <1>a, <2>1
    <3>. QED
      BY <3>1
  <2>. QED
    BY <2>1, <2>2, <2>3, Zenon DEF HeldCommitted
<1>. QED
  BY <1>1, <1>2, <1>3 DEF PollInv

\* A commit is a new last document that keeps every effect.
LEMMA CommitFacts ==
    ASSUME PollInv, NEW r \in Request, Db!Commit(r)
    PROVE  /\ doc' \in Db!Document /\ past' \subseteq Db!Document
           /\ doc'.effects = doc.effects \cup {r}
           /\ past \subseteq past'
           /\ LastCommitted => LastCommitted'
<1>. DEFINE new == Db!applied(doc, r)
<1>1. /\ new \in Db!Document /\ new.effects = doc.effects \cup {r}
      /\ new.revision = doc.revision + 1 /\ doc.revision \in Nat
  BY DEF PollInv, PollTypes, Db!Document, Db!applied
<1>2. doc' = new /\ past' = past \cup {new}
  BY DEF Db!Commit
<1>. HIDE DEF new
<1>3. \A d \in past : d.revision \in Nat
  BY DEF PollInv, PollTypes, Db!Document
<1>4. LastCommitted => LastCommitted'
  BY <1>1, <1>2, <1>3 DEF LastCommitted, Db!Default
<1>. QED
  BY <1>1, <1>2, <1>4 DEF PollInv, PollTypes

\* The steps of clients that leave the store alone.
LEMMA ClientKeepsInv ==
    ASSUME PollInv, NEW c \in Client, Step(c) \/ deadline(c)
    PROVE  PollInv'
<1>. USE DefaultType DEF PollInv
<1>0. UNCHANGED <<doc, past, backend, crashes>> /\ doc.revision \in Nat
  BY DEF Step, poll, read, decide, wake, beat_read, deadline, store,
     PollTypes, Db!Document
<1>1. LastCommitted => LastCommitted'
  BY <1>0 DEF LastCommitted, Db!Default
<1>2. CASE poll(c)
  <2>. USE <1>2 DEF poll
  <2>1. view[c].revision \in Nat
    BY DEF PollTypes, Db!Document
  <2>2. PollTypes' /\ WriteKept'
    BY <1>0, <2>1 DEF PollTypes, WriteKept, Phase, Db!Document
  <2>3. HeldCommitted => HeldCommitted'
    BY <1>0, <2>1 DEF HeldCommitted, PollTypes
  <2>. QED
    BY <1>0, <1>1, <2>2, <2>3
<1>3. CASE wake(c) \/ deadline(c)
  <2>1. /\ UNCHANGED <<since, snap, wrote, view>>
        /\ phase' \in [Client -> Phase]
        /\ \A d \in Client : phase'[d] = "wrote" => phase[d] = "wrote"
    BY <1>3 DEF wake, deadline, PollTypes, Phase
  <2>2. PollTypes' /\ WriteKept'
    BY <1>0, <2>1 DEF PollTypes, WriteKept, Db!Document
  <2>3. HeldCommitted => HeldCommitted'
    BY <1>0, <2>1 DEF HeldCommitted
  <2>. QED
    BY <1>0, <1>1, <2>2, <2>3
<1>4. CASE read(c)
  <2>1. /\ since' \in [Client -> Nat] /\ snap' \in [Client -> Db!Document]
        /\ phase' \in [Client -> Phase]
        /\ \A d \in Client : /\ phase'[d] = "wrote" => phase[d] = "wrote"
                             /\ since'[d] \in {since[d], 0}
                             /\ snap'[d] \in {snap[d], doc}
        /\ UNCHANGED <<view, wrote>>
    BY <1>4 DEF read, current, Return, PollTypes, Phase
  <2>2. PollTypes' /\ WriteKept'
    BY <1>0, <2>1 DEF PollTypes, WriteKept, Db!Document
  <2>3. \A d \in Client : view[d].revision \in Nat
    BY DEF PollTypes, Db!Document
  <2>4. LastCommitted /\ HeldCommitted => HeldCommitted'
    BY <1>0, <2>1, <2>3 DEF HeldCommitted, LastCommitted
  <2>. QED
    BY <1>0, <1>1, <2>2, <2>4
<1>5. CASE decide(c)
  <2>1. /\ since' \in [Client -> Nat] /\ snap' \in [Client -> Db!Document]
        /\ view' \in [Client -> Db!Document] /\ phase' \in [Client -> Phase]
        /\ \A d \in Client : /\ phase'[d] = "wrote" => phase[d] = "wrote"
                             /\ snap'[d] \in {snap[d], Db!Default}
                             /\ \/ view'[d] = view[d] /\ since'[d] \in {since[d], 0}
                                \/ view'[d] = snap[d] /\ since'[d] = 0
        /\ UNCHANGED wrote
    BY <1>5 DEF decide, Return, PollTypes, Phase
  <2>2. PollTypes' /\ WriteKept'
    BY <1>0, <2>1 DEF PollTypes, WriteKept, Db!Document
  <2>3. \A d \in Client : view[d].revision \in Nat /\ snap[d].revision \in Nat
    BY DEF PollTypes, Db!Document
  <2>4. LastCommitted /\ HeldCommitted => HeldCommitted'
    BY <1>0, <2>1, <2>3 DEF HeldCommitted, LastCommitted
  <2>. QED
    BY <1>0, <1>1, <2>2, <2>4
<1>6. CASE beat_read(c)
  <2>1. /\ view' \in [Client -> Db!Document] /\ phase' \in [Client -> Phase]
        /\ \A d \in Client : /\ phase'[d] = "wrote" => phase[d] = "wrote" /\ d # c
                             /\ view'[d] \in {view[d], doc}
                             /\ d # c => wrote'[d] = wrote[d]
        /\ wrote' = [d \in Client |-> wrote'[d]]
        /\ UNCHANGED <<since, snap>>
    BY <1>6 DEF beat_read, current, PollTypes, Phase
  <2>2. PollTypes' /\ WriteKept'
    BY <1>0, <2>1 DEF PollTypes, WriteKept, Db!Document
  <2>3. \A d \in Client : view[d].revision \in Nat /\ since[d] \in Nat
    BY DEF PollTypes, Db!Document
  <2>4. LastCommitted /\ HeldCommitted => HeldCommitted'
    BY <1>0, <2>1, <2>3 DEF HeldCommitted, LastCommitted
  <2>. QED
    BY <1>0, <1>1, <2>2, <2>4
<1>. QED
  BY <1>2, <1>3, <1>4, <1>5, <1>6 DEF Step

\* Writes: the effects of the document only grow.
LEMMA WriteKeepsInv ==
    ASSUME PollInv, NEW r \in Request,
           other(r) \/ \E c \in Client : beat(c, r)
    PROVE  PollInv'
<1>. USE DEF PollInv
<1>1. CASE other(r) /\ Db!Commit(r)
  <2>1. UNCHANGED <<backend, phase, since, snap, wrote, view, crashes>>
    BY <1>1 DEF other, clients
  <2>2. PollTypes' /\ WriteKept'
    BY <1>1, <2>1, CommitFacts DEF PollTypes, WriteKept, Db!Document
  <2>3. HeldCommitted => HeldCommitted'
    BY <1>1, <2>1, CommitFacts DEF HeldCommitted
  <2>. QED
    BY <1>1, <2>1, <2>2, <2>3, CommitFacts
<1>2. CASE other(r) /\ backend = "file" /\ File!Touch(r)
  <2>1. UNCHANGED <<backend, phase, since, snap, wrote, view, past, crashes>>
    BY <1>2 DEF other, clients, File!Touch
  <2>2. doc' = [doc EXCEPT !.effects = @ \cup {r}]
    BY <1>2 DEF File!Touch, File!touched
  <2>3. doc' \in Db!Document /\ doc'.effects = doc.effects \cup {r}
    BY <2>2 DEF PollTypes, Db!Document
  <2>4. PollTypes' /\ WriteKept'
    BY <2>1, <2>3 DEF PollTypes, WriteKept, Db!Document
  <2>. QED
    BY <1>2, <2>1, <2>4
<1>3. ASSUME NEW c \in Client, beat(c, r) PROVE PollInv'
  <2>1. /\ UNCHANGED <<backend, since, snap, view, crashes>> /\ Db!Commit(r)
        /\ phase' = [phase EXCEPT ![c] = "wrote"]
        /\ wrote' = [wrote EXCEPT ![c] = r]
    BY <1>3 DEF beat
  <2>2. PollTypes'
    BY <2>1, CommitFacts, Zenon DEF PollTypes, Phase, Db!Document
  <2>3. WriteKept'
    BY <2>1, CommitFacts DEF PollTypes, WriteKept
  <2>4. HeldCommitted => HeldCommitted'
    BY <2>1, CommitFacts DEF HeldCommitted
  <2>. QED
    BY <2>1, <2>2, <2>3, <2>4, CommitFacts
<1>. QED
  BY <1>1, <1>2, <1>3 DEF other

\* A crash takes the document back only with the file store, and then every
\* request with it.
LEMMA CrashKeepsInv ==
    ASSUME PollInv, NEW lost \in SUBSET Client, crash(lost)
    PROVE  PollInv'
<1>. USE DefaultType DEF PollInv
<1>1. /\ UNCHANGED <<backend, view, past>>
      /\ \/ UNCHANGED doc
         \/ backend = "file" /\ lost = Client /\ doc' \in past
  BY DEF crash, Db!FallBack, File!FallBack
<1>2. \A c \in Client :
          /\ phase'[c] = IF c \in lost THEN "idle" ELSE phase[c]
          /\ since'[c] = IF c \in lost THEN 0 ELSE since[c]
          /\ snap'[c] = IF c \in lost THEN Db!Default ELSE snap[c]
          /\ wrote'[c] = IF c \in lost THEN None ELSE wrote[c]
  BY DEF crash
<1>3. PollTypes'
  BY <1>1 DEF crash, PollTypes, Phase, Db!Document
<1>4. WriteKept'
  BY <1>1, <1>2 DEF WriteKept
<1>5. ASSUME backend = "db", LastCommitted, HeldCommitted
      PROVE  LastCommitted' /\ HeldCommitted'
  <2>1. UNCHANGED doc
    BY <1>1, <1>5
  <2>2. LastCommitted'
    BY <1>1, <1>5, <2>1 DEF LastCommitted, Db!Default
  <2>3. \A c \in Client : view[c].revision \in Nat
    BY Zenon DEF PollTypes, Db!Document
  <2>4. HeldCommitted'
    BY <1>1, <1>2, <1>5, <2>3 DEF HeldCommitted, LastCommitted
  <2>. QED
    BY <2>2, <2>4
<1>. QED
  BY <1>1, <1>3, <1>4, <1>5

LEMMA PollInvariant == Spec => []PollInv
<1>1. PollInv /\ [Next]_vars => PollInv'
  <2>1. ASSUME PollInv, UNCHANGED vars PROVE PollInv'
    BY <2>1 DEF vars, store, clients, PollInv, PollTypes, WriteKept, LastCommitted,
       HeldCommitted, Db!Document, Db!Default
  <2>. QED
    BY <2>1, ClientKeepsInv, WriteKeepsInv, CrashKeepsInv DEF Next
<1>. QED
  BY <1>1, PollInit, PTL DEF Spec

\* With the database, a poll whose client has not seen the current document
\* finds a revision past its since at the next read.
THEOREM NewsFoundAtOnce == Spec => []NewsAtOnce
<1>1. PollInv => NewsAtOnce
  <2>. SUFFICES ASSUME PollInv, backend = "db", NEW c \in Client, view[c] # doc
                PROVE  doc.revision > since[c]
    BY DEF NewsAtOnce
  <2>1. doc.revision \in Nat /\ view[c].revision \in Nat /\ since[c] \in Nat
    BY DEF PollInv, PollTypes, Db!Document
  <2>2. view[c].revision <= doc.revision /\ view[c].revision # doc.revision
    BY DEF PollInv, LastCommitted, HeldCommitted
  <2>3. since[c] <= view[c].revision
    BY DEF PollInv, HeldCommitted
  <2>. QED
    BY <2>1, <2>2, <2>3
<1>. QED
  BY <1>1, PollInvariant, PTL

\* With either store, the netmap in the answer to a heartbeat or a
\* registration contains what that handler wrote.
THEOREM WritesAreRead == Spec => ReadsOwnWrite
<1>. DEFINE Reads == \A c \in Client :
                        phase[c] = "wrote" /\ phase'[c] = "idle" /\ crashes' = crashes
                            => wrote[c] \in view'[c].effects \/ Gone(c, doc)
<1>1. PollInv /\ [Next]_vars => [Reads]_vars
  <2>. SUFFICES ASSUME PollInv, Next, NEW c \in Client,
                       phase[c] = "wrote", phase'[c] = "idle", crashes' = crashes,
                       ~Gone(c, doc)
                PROVE  wrote[c] \in view'[c].effects
    OBVIOUS
  <2>. USE DEF PollInv, PollTypes
  <2>1. \A lost \in SUBSET Client : ~crash(lost)
    BY DEF crash
  <2>2. ASSUME NEW d \in Client, beat_read(d)
        PROVE  wrote[c] \in view'[c].effects
    <3>1. d = c
      BY <2>2 DEF beat_read
    <3>2. view'[c] = doc
      BY <2>2, <3>1 DEF beat_read, current
    <3>. QED
      BY <3>2 DEF WriteKept
  <2>3. \A d \in Client : ~(poll(d) \/ read(d) \/ decide(d) \/ wake(d) \/ deadline(d))
    BY DEF poll, read, decide, wake, deadline, Return
  <2>4. \A r \in Request : ~other(r) /\ \A d \in Client : ~beat(d, r)
    BY DEF other, beat, clients
  <2>. QED
    BY <2>1, <2>2, <2>3, <2>4 DEF Next, Step
<1>. QED
  BY <1>1, PollInvariant, PTL DEF Spec, ReadsOwnWrite
=============================================================================
