---------------------------- MODULE MCMeshService ----------------------------
(* The questions an instance asks and what may go wrong in it.             *)
EXTENDS MeshService

JobsAndData == Classes \cup {"update", "volume"}
=============================================================================
