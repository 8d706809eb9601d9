------------------------------- MODULE Store -------------------------------
(***************************************************************************)
(* What StateStore::write promises its callers: requests take effect one   *)
(* at a time on one document, each at most once, and Ok is the answer to a *)
(* request that took effect.  An error, or no answer, promises nothing.    *)
(*                                                                         *)
(* Partial: a refused request may leave its changes behind, under the old  *)
(* revision.  Volatile: the document may fall back to an earlier one, or   *)
(* to the empty one, when the server goes down.                            *)
(***************************************************************************)
EXTENDS Naturals

CONSTANTS Request, Partial, Volatile

VARIABLES
    doc,        \* the document: its revision, the requests it has seen
    answer,     \* what each request was told
    past        \* every document that was ever committed

storeVars == <<doc, answer, past>>

Answer == {"none", "ok", "error", "gone"}

Document == [revision: Nat, effects: SUBSET Request]

\* State::default
Default == [revision |-> 0, effects |-> {}]

\* A document after a request's closure, and after the revision moved.
touched(d, r) == [d EXCEPT !.effects = @ \cup {r}]

applied(d, r) == [revision |-> d.revision + 1, effects |-> d.effects \cup {r}]

StoreInit ==
    /\ doc = Default
    /\ answer = [r \in Request |-> "none"]
    /\ past = {Default}

Effective(r) == \E d \in past : r \in d.effects

Commit(r) ==
    /\ answer[r] = "none" /\ ~Effective(r) /\ r \notin doc.effects
    /\ doc' = applied(doc, r)
    /\ past' = past \cup {applied(doc, r)}

\* One step may both commit a request and answer it.
Reply(r, a) ==
    /\ answer[r] = "none"
    /\ answer' = [answer EXCEPT ![r] = a]

Touch(r) ==
    /\ Partial
    /\ ~Effective(r) /\ r \notin doc.effects
    /\ doc' = touched(doc, r)
    /\ UNCHANGED past

\* The server goes down: the requests under way get no answer.
FallBack ==
    /\ \/ UNCHANGED doc
       \/ Volatile /\ doc' \in past
    /\ \E R \in SUBSET Request :
          /\ \A r \in R : answer[r] = "none"
          /\ answer' = [r \in Request |-> IF r \in R THEN "gone" ELSE answer[r]]
    /\ UNCHANGED past

StoreNext ==
    \/ \E r \in Request :
          \/ Commit(r) /\ UNCHANGED answer
          \/ Commit(r) /\ \E a \in Answer : Reply(r, a)
          \/ Touch(r) /\ Reply(r, "error")
          \/ Effective(r) /\ Reply(r, "ok") /\ UNCHANGED <<doc, past>>
          \/ \E a \in {"error", "gone"} :
                Reply(r, a) /\ UNCHANGED <<doc, past>>
    \/ FallBack

StoreSpec == StoreInit /\ [][StoreNext]_storeVars
=============================================================================
