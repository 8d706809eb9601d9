---------------------------- MODULE MCMeshLinks ----------------------------
(* An instance of MeshLinks for TLC: two servers, listing each other, or  *)
(* only one the other, or the second running under the id of a third.     *)
EXTENDS MeshLinks, TLC

CONSTANTS s1, s2, s3

McDialer == <<s1, s1, s2>>
McAcceptor == <<s2, s2, s1>>

Named == [s \in Server |-> s]

McConfigs ==
    {[server_id |-> Named,
      peers |-> (s1 :> {s2} @@ s2 :> {s1} @@ s3 :> {})],
     [server_id |-> Named,
      peers |-> (s1 :> {s2} @@ s2 :> {} @@ s3 :> {})],
     [server_id |-> [Named EXCEPT ![s2] = s3],
      peers |-> (s1 :> {s2, s3} @@ s2 :> {} @@ s3 :> {})],
     [server_id |-> [Named EXCEPT ![s2] = s3],
      peers |-> (s1 :> {s3} @@ s2 :> {s1} @@ s3 :> {})]}
=============================================================================
