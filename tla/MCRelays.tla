------------------------------ MODULE MCRelays -----------------------------
(* Values for TLC.  The relays share nothing but the queue of the mesh, so *)
(* both run together with one connection only.                             *)
EXTENDS Relays

McStarts == {[on |-> {"stream"}, conns |-> {1, 2}],
             [on |-> {"udp"}, conns |-> {}],
             [on |-> {"stream", "udp"}, conns |-> {1}]}
=============================================================================
