--------------------------- MODULE ServersProofs ---------------------------
(***************************************************************************)
(* Any number of servers of one control plane.  The database they share    *)
(* implements the store that loses nothing, for any requests, connections  *)
(* and crashes (DbStore).  Their connections with each other stand right   *)
(* in the tables of peers, for every mesh (MeshLinks).                     *)
(***************************************************************************)
EXTENDS DbStore, MeshLinks, TLAPS

-----------------------------------------------------------------------------
(* The database.                                                           *)

\* What the row's lock protects: the transaction that holds it works on a
\* copy of the row as it is.
LockInv ==
    \A r \in Request :
        /\ phase[r] \in {"locked", "updated"} => row_lock = r
        /\ phase[r] = "locked" => copy[r] = row
        /\ phase[r] = "updated" =>
              copy[r] = [revision |-> row.revision + 1,
                         effects |-> row.effects \cup {r}]

\* A row that was found or made is there, and stays.
RowInv ==
    /\ \A s \in Server : up[s] \in {"found", "up"} => row # None
    /\ \A r \in Request : phase[r] \in Open => row # None
    /\ SharedDocument \in past

\* A request under way has had no effect yet.
FreshInv ==
    \A r \in Request : phase[r] \in Open \cup {"new"} =>
        \A d \in past \cup {SharedDocument} : r \notin d.effects

DbInv == TypeOK /\ LockInv /\ RowInv /\ FreshInv /\ AcknowledgedStays

LEMMA DefaultType == Default \in Document
BY DEF Default, Document

LEMMA DbInit == Init => DbInv
BY DefaultType, DbAssumption, RowAssumption
   DEF Init, DbInv, TypeOK, LockInv, RowInv, FreshInv, AcknowledgedStays, Open,
       Phase, ServerPhase, SharedDocument, Default

\* init_db leaves a row that is there alone.
LEMMA StartKeepsInv ==
    ASSUME DbInv, NEW s \in Server, start(s)
    PROVE  DbInv'
<1>. USE DbAssumption, RowAssumption, DefaultType DEF DbInv
<1>1. CASE init_begin(s)
  BY <1>1 DEF init_begin, TypeOK, LockInv, RowInv, FreshInv, AcknowledgedStays,
     Open, ServerPhase, SharedDocument, setting
<1>2. CASE init_check(s)
  BY <1>2 DEF init_check, TypeOK, LockInv, RowInv, FreshInv, AcknowledgedStays,
     Open, ServerPhase, SharedDocument, setting
<1>3. CASE init_commit(s)
  <2>1. TypeOK'
    BY <1>3 DEF init_commit, TypeOK, ServerPhase, setting
  <2>2. row = None => \A r \in Request : phase[r] \notin Open
    BY DEF RowInv
  <2>3. LockInv'
    BY <1>3, <2>2 DEF init_commit, LockInv, Open, setting
  <2>4. SharedDocument' = SharedDocument
    BY <1>3 DEF init_commit, SharedDocument
  <2>5. FreshInv' /\ AcknowledgedStays'
    BY <1>3, <2>4 DEF init_commit, FreshInv, AcknowledgedStays, setting
  <2>6. RowInv'
    <3>1. SharedDocument' \in past'
      BY <1>3, <2>4 DEF init_commit, RowInv, setting
    <3>2. \A t \in Server : up'[t] \in {"found", "up"} => row' # None
      BY <1>3 DEF init_commit, RowInv, TypeOK, setting
    <3>3. \A r \in Request : phase'[r] \in Open => row' # None
      BY <1>3 DEF init_commit, RowInv, setting
    <3>. QED  BY <3>1, <3>2, <3>3 DEF RowInv
  <2>. QED  BY <2>1, <2>3, <2>5, <2>6
<1>. QED  BY <1>1, <1>2, <1>3 DEF start

\* The steps of a transaction before it commits.
LEMMA WorkKeepsInv ==
    ASSUME DbInv, NEW r \in Request,
           begin(r) \/ select_for_update(r) \/ update(r)
    PROVE  DbInv'
<1>. USE DbAssumption, RowAssumption DEF DbInv, setting
<1>1. CASE begin(r)
  BY <1>1 DEF begin, Goto, TypeOK, LockInv, RowInv, FreshInv, AcknowledgedStays,
     Open, Phase, SharedDocument
<1>2. CASE select_for_update(r)
  <2>1. row \in Document
    BY <1>2 DEF select_for_update, RowInv, Open, TypeOK
  <2>2. TypeOK'
    BY <1>2, <2>1 DEF select_for_update, Goto, TypeOK, Phase, Open
  <2>3. \A q \in Request : phase[q] \notin {"locked", "updated"}
    BY <1>2, Zenon DEF select_for_update, LockInv
  <2>4. LockInv'
    BY <1>2, <2>3 DEF select_for_update, Goto, LockInv, TypeOK
  <2>5. RowInv' /\ FreshInv' /\ AcknowledgedStays'
    BY <1>2 DEF select_for_update, Goto, RowInv, FreshInv, AcknowledgedStays,
       Open, SharedDocument, TypeOK
  <2>. QED  BY <2>2, <2>4, <2>5
<1>3. CASE update(r)
  <2>1. copy'[r] = [revision |-> row.revision + 1,
                    effects |-> row.effects \cup {r}]
    BY <1>3, Zenon DEF update, LockInv, TypeOK
  <2>2. copy'[r] \in Document
    BY <1>3 DEF update, TypeOK, Document
  <2>3. TypeOK'
    BY <1>3, <2>2 DEF update, Goto, TypeOK, Phase, Open
  <2>4. LockInv'
    BY <1>3, <2>1, Zenon DEF update, Goto, LockInv, TypeOK
  <2>5. RowInv' /\ FreshInv' /\ AcknowledgedStays'
    BY <1>3 DEF update, Goto, RowInv, FreshInv, AcknowledgedStays, Open,
       SharedDocument, TypeOK
  <2>. QED  BY <2>3, <2>4, <2>5
<1>. QED  BY <1>1, <1>2, <1>3

\* Only the transaction that holds the lock can change the row.
LEMMA CommitFacts ==
    ASSUME DbInv, NEW r \in Request, commit(r)
    PROVE  /\ row \in Document /\ row' \in Document
           /\ row' = [revision |-> row.revision + 1,
                      effects |-> row.effects \cup {r}]
           /\ past' = past \cup {row'}
           /\ \A q \in Request : q # r => phase[q] \notin {"locked", "updated"}
<1>. USE DbAssumption, RowAssumption DEF DbInv
<1>1. phase[r] = "updated" /\ row # None
  BY DEF commit, RowInv, Open
<1>2. row \in Document
  BY <1>1 DEF TypeOK
<1>3. row_lock = r /\ copy[r] \in Document
  BY <1>1 DEF LockInv, TypeOK
<1>. QED  BY <1>1, <1>2, <1>3, Zenon DEF commit, LockInv

LEMMA CommitKeepsInv ==
    ASSUME DbInv, NEW r \in Request, commit(r)
    PROVE  DbInv'
<1>. USE DbAssumption, RowAssumption DEF DbInv, setting
<1>1. /\ row \in Document /\ row' \in Document
      /\ row' = [revision |-> row.revision + 1, effects |-> row.effects \cup {r}]
      /\ past' = past \cup {row'}
      /\ \A q \in Request : q # r => phase[q] \notin {"locked", "updated"}
  BY CommitFacts
<1>2. row # None /\ row' # None
  BY <1>1, Zenon
<1>3. SharedDocument = row /\ SharedDocument' = row'
  BY <1>2 DEF SharedDocument
<1>4. PICK p \in {"ok", "error", "gone"} : phase' = [phase EXCEPT ![r] = p]
  BY Zenon DEF commit, Goto
<1>5. TypeOK'
  BY <1>1, <1>4, Zenon DEF commit, Release, TypeOK, Phase, Open
<1>6. LockInv'
  BY <1>1, <1>4 DEF commit, Release, LockInv, TypeOK
<1>7. RowInv'
  BY <1>1, <1>2, <1>3, <1>4 DEF commit, RowInv, TypeOK, Open
<1>8. row'.effects = row.effects \cup {r}
  BY <1>1
<1>9. FreshInv'
  BY <1>1, <1>3, <1>4, <1>8 DEF FreshInv, TypeOK, Open
<1>10. AcknowledgedStays'
  BY <1>3, <1>4, <1>8 DEF AcknowledgedStays, TypeOK
<1>. QED  BY <1>5, <1>6, <1>7, <1>9, <1>10

\* A transaction that ends without a commit leaves the row alone.
LEMMA EndKeepsInv ==
    ASSUME DbInv,
           (\E r \in Request : rollback(r)) \/ (\E s \in Server : crash(s))
    PROVE  DbInv'
<1>. USE DbAssumption, RowAssumption DEF DbInv, setting
<1>1. ASSUME NEW r \in Request, rollback(r) PROVE DbInv'
  <2>1. PICK p \in {"error", "gone"} : phase' = [phase EXCEPT ![r] = p]
    BY <1>1, Zenon DEF rollback, Goto
  <2>2. TypeOK'
    BY <1>1, <2>1 DEF rollback, Release, TypeOK, Phase, Open
  <2>3. LockInv'
    BY <1>1, <2>1 DEF rollback, Release, LockInv, TypeOK
  <2>4. RowInv' /\ FreshInv' /\ AcknowledgedStays'
    BY <1>1, <2>1 DEF rollback, RowInv, FreshInv, AcknowledgedStays, Open,
       SharedDocument, TypeOK
  <2>. QED  BY <2>2, <2>3, <2>4
<1>2. ASSUME NEW s \in Server, crash(s) PROVE DbInv'
  <2>1. \A r \in Request :
           \/ phase'[r] = phase[r] /\ r \notin in_use(s)
           \/ phase'[r] = "gone"
    BY <1>2 DEF crash
  <2>2. TypeOK'
    BY <1>2 DEF crash, TypeOK, Phase, ServerPhase
  <2>3. LockInv'
    BY <1>2, <2>1 DEF crash, LockInv
  <2>4. RowInv' /\ FreshInv' /\ AcknowledgedStays'
    BY <1>2, <2>1 DEF crash, RowInv, FreshInv, AcknowledgedStays, Open,
       SharedDocument, TypeOK
  <2>. QED  BY <2>2, <2>3, <2>4
<1>. QED  BY <1>1, <1>2

LEMMA DbStep == DbInv /\ [Next]_vars => DbInv'
<1>. SUFFICES ASSUME DbInv, [Next]_vars PROVE DbInv'
  OBVIOUS
<1>1. CASE UNCHANGED vars
  BY <1>1 DEF vars, DbInv, TypeOK, LockInv, RowInv, FreshInv, AcknowledgedStays,
     SharedDocument
<1>2. ASSUME NEW s \in Server, start(s) PROVE DbInv'
  BY <1>2, StartKeepsInv
<1>3. ASSUME NEW r \in Request, begin(r) \/ select_for_update(r) \/ update(r)
      PROVE  DbInv'
  BY <1>3, WorkKeepsInv
<1>4. ASSUME NEW r \in Request, commit(r) PROVE DbInv'
  BY <1>4, CommitKeepsInv
<1>5. CASE (\E r \in Request : rollback(r)) \/ (\E s \in Server : crash(s))
  BY <1>5, EndKeepsInv
<1>. QED  BY <1>1, <1>2, <1>3, <1>4, <1>5 DEF Next, idle

\* The invariant of the row, its lock and the transactions holds throughout:
\* init_db and write_state_db never work on a stale copy of the row.
THEOREM DbInvariant == Spec => []DbInv
<1>1. Init => DbInv
  BY DbInit
<1>2. DbInv /\ [Next]_vars => DbInv'
  BY DbStep
<1>. QED  BY <1>1, <1>2, PTL DEF Spec

\* The state stays well typed: a transaction of write_state_db only ever
\* works on a document, never on a row that init_db has yet to make.
THEOREM DbStoreTyped == Spec => []TypeOK
BY DbInvariant, PTL DEF DbInv

\* What write_state_db answered Ok stays in the document, whatever the servers
\* do at the same time or later.
THEOREM NothingAcknowledgedIsLost == Spec => []AcknowledgedStays
BY DbInvariant, PTL DEF DbInv

-----------------------------------------------------------------------------
(* Refinement.                                                             *)

\* A commit is the abstract commit, with its answer.
LEMMA CommitRefines ==
    ASSUME DbInv, NEW r \in Request, commit(r)
    PROVE  AbstractStore!StoreNext
<1>. USE DbAssumption, RowAssumption DEF DbInv
<1>1. /\ row \in Document /\ row' \in Document
      /\ row' = [revision |-> row.revision + 1, effects |-> row.effects \cup {r}]
      /\ past' = past \cup {row'}
  BY CommitFacts
<1>2. SharedDocument = row /\ SharedDocument' = row'
  BY <1>1 DEF SharedDocument
<1>3. phase[r] = "updated" /\ r \notin row.effects
      /\ \A d \in past : r \notin d.effects
  BY <1>2 DEF commit, FreshInv, Open
<1>4. PICK p \in {"ok", "error", "gone"} : phase' = [phase EXCEPT ![r] = p]
  BY Zenon DEF commit, Goto
<1>5. Told[r] = "none" /\ Told' = [Told EXCEPT ![r] = p]
  BY <1>3, <1>4, Zenon DEF Told, Open, TypeOK
<1>6. AbstractStore!Commit(r)
  BY <1>1, <1>2, <1>3, <1>5
     DEF AbstractStore!Commit, AbstractStore!Effective, AbstractStore!applied
<1>7. AbstractStore!Reply(r, p)
  BY <1>5 DEF AbstractStore!Reply
<1>. QED  BY <1>4, <1>6, <1>7 DEF AbstractStore!StoreNext, AbstractStore!Answer

\* The other ends of a transaction answer without effect.
LEMMA EndRefines ==
    ASSUME DbInv,
           (\E r \in Request : rollback(r)) \/ (\E s \in Server : crash(s))
    PROVE  AbstractStore!StoreNext
<1>. USE DEF DbInv
<1>1. ASSUME NEW r \in Request, rollback(r) PROVE AbstractStore!StoreNext
  <2>1. PICK p \in {"error", "gone"} : phase' = [phase EXCEPT ![r] = p]
    BY <1>1, Zenon DEF rollback, Goto
  <2>2. Told[r] = "none" /\ Told' = [Told EXCEPT ![r] = p]
    BY <1>1, <2>1, Zenon DEF rollback, Told, Open, TypeOK
  <2>3. SharedDocument' = SharedDocument /\ past' = past
    BY <1>1 DEF rollback, SharedDocument
  <2>4. AbstractStore!Reply(r, p)
    BY <2>2 DEF AbstractStore!Reply
  <2>. QED  BY <2>1, <2>3, <2>4 DEF AbstractStore!StoreNext
<1>2. ASSUME NEW s \in Server, crash(s) PROVE AbstractStore!StoreNext
  <2>1. SharedDocument' = SharedDocument /\ past' = past
    BY <1>2 DEF crash, SharedDocument
  <2>2. in_use(s) \in SUBSET Request
    BY DEF in_use
  <2>3. \A r \in in_use(s) : Told[r] = "none"
    BY DEF in_use, Told
  <2>4. Told' = [r \in Request |-> IF r \in in_use(s) THEN "gone" ELSE Told[r]]
    BY <1>2 DEF crash, Told, Open
  <2>5. AbstractStore!FallBack
    BY <2>1, <2>2, <2>3, <2>4 DEF AbstractStore!FallBack
  <2>. QED  BY <2>5 DEF AbstractStore!StoreNext
<1>. QED  BY <1>1, <1>2

\* Everything else is invisible to the callers.
LEMMA WorkRefines ==
    ASSUME DbInv,
           \/ \E s \in Server : start(s)
           \/ \E r \in Request :
                 begin(r) \/ select_for_update(r) \/ update(r)
           \/ UNCHANGED vars
    PROVE  UNCHANGED <<SharedDocument, Told, past>>
<1>1. ASSUME NEW s \in Server, start(s)
      PROVE  UNCHANGED <<SharedDocument, Told, past>>
  BY <1>1 DEF start, init_begin, init_check, init_commit, SharedDocument, Told
<1>2. ASSUME NEW r \in Request, begin(r) \/ select_for_update(r) \/ update(r)
      PROVE  UNCHANGED <<SharedDocument, Told, past>>
  <2>1. row' = row /\ past' = past
    BY <1>2 DEF begin, select_for_update, update
  <2>2. \A q \in Request :
           \/ phase'[q] = phase[q]
           \/ phase[q] \in Open \cup {"new"} /\ phase'[q] \in Open
    BY <1>2 DEF begin, select_for_update, update, Goto, Open, DbInv, TypeOK
  <2>. QED  BY <2>1, <2>2 DEF SharedDocument, Told
<1>3. CASE UNCHANGED vars
  BY <1>3 DEF vars, SharedDocument, Told
<1>. QED  BY <1>1, <1>2, <1>3

\* StateStore with the database backend implements the store that loses
\* nothing: every step of every server is a step of Store, or none.
THEOREM DbImplementsStore == Spec => ImplementsStore
<1>1. Init => AbstractStore!StoreInit
  BY DEF Init, AbstractStore!StoreInit, SharedDocument, Told, Default,
     AbstractStore!Default
<1>2. DbInv /\ [Next]_vars =>
         [AbstractStore!StoreNext]_<<SharedDocument, Told, past>>
  <2>. SUFFICES ASSUME DbInv, [Next]_vars
                PROVE  AbstractStore!StoreNext
                         \/ UNCHANGED <<SharedDocument, Told, past>>
    OBVIOUS
  <2>. QED  BY CommitRefines, EndRefines, WorkRefines DEF Next, idle
<1>. QED
  BY <1>1, <1>2, DbInvariant, PTL
     DEF Spec, ImplementsStore, AbstractStore!StoreSpec, AbstractStore!storeVars

-----------------------------------------------------------------------------
(* The table of connections.                                               *)

\* A connection is registered under the id its other end claims.
Placed ==
    \A s, p \in Server :
        LET c == latest[s][p] IN
        c # None => s \in Ends(c) /\ p = Claimed(c, s)

LEMMA LinkInvDef == LinkInv <=> LinksTypeOK /\ NewestEntry /\ OnlyConfigured /\ Placed
BY DEF LinkInv, Placed

LEMMA EndsOther ==
    ASSUME NEW c \in Conn, NEW s \in Ends(c)
    PROVE  s \in Server /\ Other(c, s) \in Server
BY LinkAssumption DEF Ends, Other

LEMMA ClaimedId ==
    ASSUME config \in Configs, NEW c \in Conn, NEW s \in Ends(c)
    PROVE  Claimed(c, s) \in Server
<1>1. config.server_id \in [Server -> Server]
  BY LinkAssumption
<1>. QED
  BY <1>1, EndsOther DEF Claimed

\* Whom a connection may be registered for depends on the configuration only.
LEMMA AdmittedKept ==
    ASSUME config' = config, NEW s, NEW c, NEW p
    PROVE  /\ Admitted(s, c, p)' <=> Admitted(s, c, p)
           /\ Claimed(c, s)' = Claimed(c, s)
BY DEF Admitted, Claimed, Ends, Other

\* What validate_peer lets through may be registered.
LEMMA ValidAdmitted ==
    ASSUME NEW c \in Conn, NEW s \in Ends(c),
           validate_peer(s, Expected(c, s), Claimed(c, s))
    PROVE  Admitted(s, c, Claimed(c, s))
<1>1. Dialer[c] = s => Acceptor[c] \in Server /\ Expected(c, s) = Acceptor[c]
  BY LinkAssumption DEF Expected
<1>. QED
  BY <1>1, LinkAssumption DEF validate_peer, Admitted

LEMMA LinkInit == LinksInit => LinkInv
<1>. SUFFICES ASSUME LinksInit PROVE LinksTypeOK /\ NewestEntry /\ OnlyConfigured /\ Placed
  BY LinkInvDef
<1>. USE LinkAssumption DEF LinksInit
<1>1. LinksTypeOK
  BY DEF LinksTypeOK, Reader
<1>2. NewestEntry
  BY DEF NewestEntry
<1>3. OnlyConfigured
  BY DEF OnlyConfigured
<1>4. Placed
  BY DEF Placed
<1>. QED
  BY <1>1, <1>2, <1>3, <1>4

\* Taking a connection out of a table leaves a table.
LEMMA WithoutType ==
    ASSUME NEW table \in [Server -> [Server -> Conn \cup {None}]], NEW c
    PROVE  Without(table, c) \in [Server -> [Server -> Conn \cup {None}]]
BY DEF Without

\* A connection that ended is dialled again: whatever was left of it goes.
LEMMA DialKeepsInv ==
    ASSUME LinkInv, NEW c \in Conn, dial(c)
    PROVE  LinkInv'
<1>. USE LinkAssumption, LinkInvDef DEF dial
<1>1. LinksTypeOK'
  <2>1. alive' \in [Conn -> BOOLEAN] /\ reader' \in [Conn -> [Server -> Reader]]
    BY DEF LinksTypeOK, Reader
  <2>2. /\ peers' \in [Server -> [Server -> Conn \cup {None}]]
        /\ latest' \in [Server -> [Server -> Conn \cup {None}]]
    BY WithoutType, Zenon DEF LinksTypeOK
  <2>. QED
    BY <2>1, <2>2 DEF LinksTypeOK
<1>2. NewestEntry'
  <2>. SUFFICES ASSUME NEW s \in Server, NEW p \in Server
                PROVE  /\ peers'[s][p] \in {None, latest'[s][p]}
                       /\ latest'[s][p] # None =>
                             (reader'[latest'[s][p]][s] = "reading"
                                 => peers'[s][p] = latest'[s][p])
    BY ZenonT(30) DEF NewestEntry
  <2>1. /\ peers'[s][p] = IF peers[s][p] = c THEN None ELSE peers[s][p]
        /\ latest'[s][p] = IF latest[s][p] = c THEN None ELSE latest[s][p]
    BY Zenon DEF Without
  <2>2. \A d \in Conn : d # c => reader'[d] = reader[d]
    BY ZenonT(30) DEF LinksTypeOK
  <2>3. latest[s][p] \in Conn \cup {None}
    BY DEF LinksTypeOK
  <2>4. /\ peers[s][p] \in {None, latest[s][p]}
        /\ latest[s][p] # None =>
              (reader[latest[s][p]][s] = "reading" => peers[s][p] = latest[s][p])
    BY DEF NewestEntry
  <2>. HIDE DEF dial
  <2>. QED
    BY <2>1, <2>2, <2>3, <2>4
<1>3. OnlyConfigured'
  <2>1. \A d \in Conn, s \in Server :
            reader'[d][s] \in {"reading", "closing"} => reader'[d][s] = reader[d][s]
    BY DEF LinksTypeOK
  <2>2. \A s, p \in Server : peers'[s][p] # None => peers'[s][p] = peers[s][p]
    BY DEF Without
  <2>3. config' = config
    OBVIOUS
  <2>. HIDE DEF dial
  <2>4. ASSUME NEW d \in Conn, NEW t \in Server,
               reader'[d][t] \in {"reading", "closing"}
        PROVE  Admitted(t, d, Claimed(d, t))'
    BY <2>4, <2>1, <2>3, AdmittedKept, Zenon DEF OnlyConfigured
  <2>5. ASSUME NEW t \in Server, NEW p \in Server, peers'[t][p] # None
        PROVE  Admitted(t, peers[t][p], p)'
    BY <2>5, <2>2, <2>3, AdmittedKept, Zenon DEF OnlyConfigured
  <2>. QED
    BY <2>4, <2>5, ZenonT(30) DEF OnlyConfigured
<1>4. Placed'
  <2>0. config' = config
    OBVIOUS
  <2>1. \A s, p \in Server : latest'[s][p] # None => latest'[s][p] = latest[s][p]
    BY DEF Without
  <2>. HIDE DEF dial
  <2>. SUFFICES ASSUME NEW t \in Server, NEW p \in Server, latest'[t][p] # None
                PROVE  t \in Ends(latest'[t][p]) /\ p = Claimed(latest'[t][p], t)
    BY <2>0 DEF Placed, Ends, Other, Claimed
  <2>. QED
    BY <2>1, Zenon DEF Placed
<1>. QED
  BY <1>1, <1>2, <1>3, <1>4, ZenonT(30) DEF LinkInv, Placed

\* A connection registers: it is the newest one.
LEMMA HelloKeepsInv ==
    ASSUME LinkInv, NEW c \in Conn, NEW s \in Server, hello(s, c)
    PROVE  LinkInv'
<1>. USE LinkAssumption, LinkInvDef DEF hello
<1>. DEFINE q == Claimed(c, s)
<1>0. q \in Server /\ s \in Ends(c) /\ config' = config /\ Admitted(s, c, q)
  BY ClaimedId, ValidAdmitted, Zenon DEF LinksTypeOK
<1>. HIDE DEF q
<1>a. /\ peers' = [peers EXCEPT ![s][q] = c]
      /\ latest' = [latest EXCEPT ![s][q] = c]
      /\ reader' = [reader EXCEPT ![c][s] = "reading"]
  BY DEF q
<1>1. LinksTypeOK'
  <2>1. reader' \in [Conn -> [Server -> Reader]] /\ writer' \in [Conn -> [Server -> BOOLEAN]]
    BY <1>a DEF LinksTypeOK, Reader
  <2>. HIDE DEF hello
  <2>2. peers' \in [Server -> [Server -> Conn \cup {None}]]
    BY <1>0, <1>a DEF LinksTypeOK
  <2>3. latest' \in [Server -> [Server -> Conn \cup {None}]]
    BY <1>0, <1>a DEF LinksTypeOK
  <2>. USE DEF hello
  <2>. QED
    BY <2>1, <2>2, <2>3 DEF LinksTypeOK
<1>2. NewestEntry'
  <2>. SUFFICES ASSUME NEW t \in Server, NEW p \in Server
                PROVE  /\ peers'[t][p] \in {None, latest'[t][p]}
                       /\ latest'[t][p] # None =>
                             (reader'[latest'[t][p]][t] = "reading"
                                 => peers'[t][p] = latest'[t][p])
    BY DEF NewestEntry
  <2>1. CASE t = s /\ p = q
    BY <2>1, <1>0, <1>a DEF LinksTypeOK
  <2>2. CASE ~(t = s /\ p = q)
    <3>1. peers'[t][p] = peers[t][p] /\ latest'[t][p] = latest[t][p]
      BY <2>2, <1>0, <1>a DEF LinksTypeOK
    <3>2. latest[t][p] = c => t # s
      BY <2>2 DEF Placed, q
    <3>3. latest[t][p] \in Conn \cup {None}
      BY DEF LinksTypeOK
    <3>4. latest[t][p] # None => reader'[latest[t][p]][t] = reader[latest[t][p]][t]
      BY <3>2, <3>3, <1>a DEF LinksTypeOK
    <3>. QED
      BY <3>1, <3>4 DEF NewestEntry
  <2>. QED
    BY <2>1, <2>2
<1>3. OnlyConfigured'
  <2>1. ASSUME NEW d \in Conn, NEW t \in Server,
               reader'[d][t] \in {"reading", "closing"}
        PROVE  Admitted(t, d, Claimed(d, t))'
    <3>1. CASE d = c /\ t = s
      BY <3>1, <1>0, AdmittedKept, Zenon DEF q
    <3>2. CASE ~(d = c /\ t = s)
      <4>1. reader'[d][t] = reader[d][t]
        BY <3>2, <1>a DEF LinksTypeOK
      <4>. QED
        BY <4>1, <2>1, <1>0, AdmittedKept, Zenon DEF OnlyConfigured
    <3>. QED
      BY <3>1, <3>2
  <2>2. ASSUME NEW t \in Server, NEW p \in Server, peers'[t][p] # None
        PROVE  Admitted(t, peers[t][p], p)'
    <3>1. CASE t = s /\ p = q
      <4>1. peers'[t][p] = c
        BY <3>1, <1>0, <1>a DEF LinksTypeOK
      <4>2. Admitted(s, c, p)
        BY <3>1, <1>0
      <4>3. Admitted(s, c, p)'
        BY <4>2, <1>0, AdmittedKept, Zenon
      <4>. QED
        BY <3>1, <4>1, <4>3, Zenon DEF Admitted, Claimed, Ends, Other
    <3>2. CASE ~(t = s /\ p = q)
      <4>1. peers'[t][p] = peers[t][p]
        BY <3>2, <1>0, <1>a DEF LinksTypeOK
      <4>. QED
        BY <4>1, <2>2, <1>0, AdmittedKept, ZenonT(30) DEF OnlyConfigured
    <3>. QED
      BY <3>1, <3>2, Zenon
  <2>. QED
    BY <2>1, <2>2, Zenon DEF OnlyConfigured
<1>4. Placed'
  <2>. SUFFICES ASSUME NEW t \in Server, NEW p \in Server, latest'[t][p] # None
                PROVE  t \in Ends(latest'[t][p]) /\ p = Claimed(latest'[t][p], t)
    <3>1. config' = config
      BY <1>0
    <3>. HIDE DEF hello
    <3>. QED
      BY <3>1 DEF Placed, Ends, Other, Claimed
  <2>1. CASE t = s /\ p = q
    BY <2>1, <1>0, <1>a DEF LinksTypeOK, q
  <2>2. CASE ~(t = s /\ p = q)
    BY <2>2, <1>0, <1>a DEF LinksTypeOK, Placed
  <2>. QED
    BY <2>1, <2>2, Zenon
<1>. QED
  BY <1>1, <1>2, <1>3, <1>4 DEF LinkInv, Placed

\* The other steps only take away: readers go towards their end, and entries
\* disappear, never the newest one while its connection is read.
Shrinks ==
    /\ UNCHANGED <<config, latest>>
    /\ \A d \in Conn, t \in Server :
          /\ reader'[d][t] = "reading" => reader[d][t] = "reading"
          /\ reader'[d][t] = "closing" => reader[d][t] \in {"reading", "closing"}
    /\ \A t, p \in Server :
          \/ peers'[t][p] = peers[t][p]
          \/ /\ peers'[t][p] = None /\ peers[t][p] # None
             /\ reader[peers[t][p]][t] # "reading"

LEMMA ShrinksKeepsInv ==
    ASSUME LinkInv, LinksTypeOK', Shrinks
    PROVE  LinkInv'
<1>. USE LinkAssumption, LinkInvDef DEF Shrinks
<1>1. NewestEntry'
  <2>. SUFFICES ASSUME NEW t \in Server, NEW p \in Server
                PROVE  /\ peers'[t][p] \in {None, latest'[t][p]}
                       /\ latest'[t][p] # None =>
                             (reader'[latest'[t][p]][t] = "reading"
                                 => peers'[t][p] = latest'[t][p])
    BY DEF NewestEntry
  <2>1. latest[t][p] \in Conn \cup {None}
    BY DEF LinksTypeOK
  <2>2. /\ peers[t][p] \in {None, latest[t][p]}
        /\ latest[t][p] # None =>
              (reader[latest[t][p]][t] = "reading" => peers[t][p] = latest[t][p])
    BY DEF NewestEntry
  <2>. QED
    BY <2>1, <2>2
<1>2. OnlyConfigured'
  <2>1. ASSUME NEW d \in Conn, NEW t \in Server,
               reader'[d][t] \in {"reading", "closing"}
        PROVE  Admitted(t, d, Claimed(d, t))'
    BY <2>1, AdmittedKept DEF OnlyConfigured
  <2>2. ASSUME NEW t \in Server, NEW p \in Server, peers'[t][p] # None
        PROVE  Admitted(t, peers[t][p], p)'
    BY <2>2, AdmittedKept DEF OnlyConfigured
  <2>. QED
    BY <2>1, <2>2, Zenon DEF OnlyConfigured
<1>3. Placed'
  BY DEF Placed, Ends, Other, Claimed
<1>. QED
  BY <1>1, <1>2, <1>3 DEF LinkInv, Placed

LEMMA EndKeepsLinks ==
    ASSUME LinkInv, NEW c \in Conn, NEW s \in Server,
           \/ hello_fails(s, c) \/ end_of_stream(s, c) \/ cleanup(s, c)
           \/ read_error(s, c) \/ writer_ends(s, c)
    PROVE  LinkInv'
<1>. USE LinkAssumption, LinkInvDef
<1>1. CASE hello_fails(s, c)
  <2>1. LinksTypeOK'
    BY <1>1 DEF hello_fails, LinksTypeOK, Reader
  <2>2. Shrinks
    BY <1>1 DEF hello_fails, LinksTypeOK, Shrinks
  <2>. QED
    BY <2>1, <2>2, ShrinksKeepsInv
<1>2. CASE end_of_stream(s, c)
  <2>1. LinksTypeOK'
    BY <1>2 DEF end_of_stream, LinksTypeOK, Reader
  <2>2. Shrinks
    BY <1>2 DEF end_of_stream, LinksTypeOK, Shrinks
  <2>. QED
    BY <2>1, <2>2, ShrinksKeepsInv
<1>3. CASE cleanup(s, c)
  <2>0. s \in Ends(c)
    BY <1>3 DEF cleanup, OnlyConfigured, Admitted
  <2>1. Claimed(c, s) \in Server
    BY <2>0, ClaimedId DEF LinksTypeOK
  <2>2. LinksTypeOK'
    BY <1>3, <2>1 DEF cleanup, LinksTypeOK, Reader
  <2>3. Shrinks
    BY <1>3, <2>1 DEF cleanup, LinksTypeOK, Shrinks
  <2>. QED
    BY <2>2, <2>3, ShrinksKeepsInv
<1>4. CASE read_error(s, c)
  <2>1. LinksTypeOK'
    BY <1>4 DEF read_error, LinksTypeOK, Reader
  <2>2. Shrinks
    BY <1>4 DEF read_error, LinksTypeOK, Shrinks
  <2>. QED
    BY <2>1, <2>2, ShrinksKeepsInv
<1>5. CASE writer_ends(s, c)
  <2>1. LinksTypeOK'
    BY <1>5 DEF writer_ends, LinksTypeOK
  <2>2. Shrinks
    BY <1>5 DEF writer_ends, LinksTypeOK, Shrinks
  <2>. QED
    BY <2>1, <2>2, ShrinksKeepsInv
<1>. QED
  BY <1>1, <1>2, <1>3, <1>4, <1>5

LEMMA FaultKeepsInv ==
    ASSUME LinkInv, Fault
    PROVE  LinkInv'
<1>. USE LinkAssumption, LinkInvDef
<1>1. ASSUME NEW c \in Conn, break(c) PROVE LinkInv'
  <2>1. LinksTypeOK' /\ Shrinks
    BY <1>1 DEF break, LinksTypeOK, Shrinks
  <2>. QED
    BY <2>1, ShrinksKeepsInv
<1>4. ASSUME NEW c \in Conn, lose(c) PROVE LinkInv'
  <2>1. LinksTypeOK' /\ Shrinks
    BY <1>4 DEF lose, LinksTypeOK, Shrinks
  <2>. QED
    BY <2>1, ShrinksKeepsInv
<1>2. ASSUME NEW s \in Server, accept_fails(s) PROVE LinkInv'
  <2>1. LinksTypeOK' /\ Shrinks
    BY <1>2 DEF accept_fails, LinksTypeOK, Shrinks
  <2>. QED
    BY <2>1, ShrinksKeepsInv
<1>3. ASSUME NEW s \in Server, restart(s) PROVE LinkInv'
  <2>. USE <1>3 DEF restart
  <2>1. LinksTypeOK'
    BY DEF LinksTypeOK, Reader
  <2>2. \A t, p \in Server :
            /\ t = s => peers'[t][p] = None /\ latest'[t][p] = None
            /\ t # s => peers'[t][p] = peers[t][p] /\ latest'[t][p] = latest[t][p]
    BY DEF LinksTypeOK
  <2>3. \A d \in Conn, t \in Server :
            reader'[d][t] = IF t = s THEN "returned" ELSE reader[d][t]
    BY DEF LinksTypeOK
  <2>4. NewestEntry'
    <3>. SUFFICES ASSUME NEW t \in Server, NEW p \in Server
                  PROVE  /\ peers'[t][p] \in {None, latest'[t][p]}
                         /\ latest'[t][p] # None =>
                               (reader'[latest'[t][p]][t] = "reading"
                                   => peers'[t][p] = latest'[t][p])
      BY DEF NewestEntry
    <3>1. latest[t][p] \in Conn \cup {None}
      BY DEF LinksTypeOK
    <3>2. /\ peers[t][p] \in {None, latest[t][p]}
          /\ latest[t][p] # None =>
                (reader[latest[t][p]][t] = "reading" => peers[t][p] = latest[t][p])
      BY ZenonT(30) DEF NewestEntry
    <3>. HIDE DEF restart
    <3>. QED
      BY <2>2, <2>3, <3>1, <3>2
  <2>5. OnlyConfigured'
    <3>1. ASSUME NEW d \in Conn, NEW t \in Server,
                 reader'[d][t] \in {"reading", "closing"}
          PROVE  Admitted(t, d, Claimed(d, t))'
      BY <3>1, <2>3, AdmittedKept DEF OnlyConfigured
    <3>2. ASSUME NEW t \in Server, NEW p \in Server, peers'[t][p] # None
          PROVE  Admitted(t, peers[t][p], p)'
      <4>1. config' = config /\ peers'[t][p] = peers[t][p]
        BY <3>2, <2>2, ZenonT(30)
      <4>. HIDE DEF restart
      <4>. QED
        BY <3>2, <4>1, AdmittedKept, Zenon DEF OnlyConfigured
    <3>. QED
      BY <3>1, <3>2, Zenon DEF OnlyConfigured
  <2>6. Placed'
    BY <2>2 DEF Placed, Ends, Other, Claimed
  <2>. QED
    BY <2>1, <2>4, <2>5, <2>6 DEF LinkInv, Placed
<1>. QED
  BY <1>1, <1>2, <1>3, <1>4 DEF Fault

\* Every step of a dial loop, an end of a connection, a writer or a fault
\* keeps the tables right.
THEOREM LinksRight == LinksSpec => []LinkInv
<1>1. LinkInv /\ [LinksNext]_link_vars => LinkInv'
  <2>. SUFFICES ASSUME LinkInv, [LinksNext]_link_vars PROVE LinkInv'
    OBVIOUS
  <2>1. CASE Fault
    BY <2>1, FaultKeepsInv
  <2>2. ASSUME NEW s \in Server, NEW p \in Server, Redial(s, p) PROVE LinkInv'
    BY <2>2, DialKeepsInv DEF Redial
  <2>3. ASSUME NEW c \in Conn, NEW s \in Server, End(s, c) PROVE LinkInv'
    BY <2>3, HelloKeepsInv, EndKeepsLinks, Zenon DEF End
  <2>4. CASE UNCHANGED link_vars
    <3>1. LinksTypeOK /\ LinksTypeOK'
      BY <2>4, Zenon DEF link_vars, LinkInv, LinksTypeOK
    <3>2. Shrinks
      BY <2>4, Zenon DEF link_vars, Shrinks
    <3>. QED
      BY <3>1, <3>2, ShrinksKeepsInv
  <2>. QED
    BY <2>1, <2>2, <2>3, <2>4 DEF LinksNext
<1>. QED
  BY <1>1, LinkInit, PTL DEF LinksSpec

\* The entry of a peer is its newest connection, and stays while that is
\* read, whatever older connections do.
THEOREM NewestEntryKept == LinksSpec => []NewestEntry
<1>1. LinkInv => NewestEntry
  BY DEF LinkInv
<1>. QED
  BY <1>1, LinksRight, PTL

\* No server talks to one outside its configuration, or takes the one it
\* dialled for another, however the servers are named.
THEOREM ConfiguredOnly == LinksSpec => []OnlyConfigured
<1>1. LinkInv => OnlyConfigured
  BY DEF LinkInv
<1>. QED
  BY <1>1, LinksRight, PTL
=============================================================================
