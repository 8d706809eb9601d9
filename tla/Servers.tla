------------------------------ MODULE Servers ------------------------------
(* The servers of a control plane, for DbStore, MeshLinks and Mesh.        *)

CONSTANTS
    Server,
    None
=============================================================================
