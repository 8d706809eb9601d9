----------------------------- MODULE MCLongpoll ----------------------------
(* Values for TLC.                                                         *)
EXTENDS Longpoll

CONSTANTS c1, c2, w1, w2, w3

\* c1 makes the write w1; w3 deletes c2; w2 is anybody's.
McBeat == [r \in Request |-> IF r = w1 THEN c1 ELSE None]

McRemoval == [c \in Client |-> IF c = c2 THEN w3 ELSE None]
=============================================================================
