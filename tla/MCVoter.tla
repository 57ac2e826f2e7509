------------------------------- MODULE MCVoter -------------------------------
(* Instances of Voter for TLC. *)
EXTENDS Voter

CONSTANTS v1, v2

OneValidator == <<v1>>
TwoValidators == <<v1, v2>>
=============================================================================
