---- MODULE MCGrpcClient ----
(* Instances of GrpcClient for TLC. *)
EXTENDS GrpcClient

CONSTANTS voter, params
=============================================================================
