------------------------------ MODULE MCMesh ------------------------------
(* An instance of Mesh for TLC: three servers in a triangle, of which one   *)
(* side may break, or in a line.                                           *)
EXTENDS Mesh, TLC

CONSTANTS s1, s2, s3, a, b

McTriangle == {l \in Server \X Server : l[1] # l[2]}
McFragile == {<<s1, s3>>}
McLine == McTriangle \ {<<s1, s3>>, <<s3, s1>>}

\* Where the relays have a and b registered: in the line, each of them uses
\* both relays, at two servers.
At(sa, sb, ua, ub) ==
    (<<a, "stream">> :> sa) @@ (<<b, "stream">> :> sb)
        @@ (<<a, "udp">> :> ua) @@ (<<b, "udp">> :> ub)

McStarts == {[links |-> McTriangle, home |-> At({s1}, {s3}, {}, {})],
             [links |-> McLine, home |-> At({s3}, {s1}, {s2}, {s3})]}

McMobile == {<<a, "stream">>}
=============================================================================
