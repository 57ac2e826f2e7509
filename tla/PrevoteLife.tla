------------------------------ MODULE PrevoteLife ------------------------------
(***************************************************************************)
(* What the voter promises about the prevotes it remembers, without        *)
(* transactions, sequences, retries or periods: a memory of prevotes       *)
(* (Voter.prevotes) beside the chain that holds them.  For every validator *)
(* the chain moves on to newer prevotes only while the voter remembers     *)
(* none, and what the voter remembers is what the chain holds.  Voter is   *)
(* shown to implement this module.                                         *)
(***************************************************************************)
EXTENDS Naturals

CONSTANT Validators

VARIABLES chain,    \* the prevote the chain holds for a validator, 0 for none
          known     \* the prevote the voter would reveal next, 0 for none

vars == <<chain, known>>

None == 0

Init ==
    /\ chain = [v \in Validators |-> None]
    /\ known = [v \in Validators |-> None]

\* A newer prevote is committed, whichever attempt it belongs to.
Land(v) ==
    /\ known[v] = None
    /\ chain'[v] \in Nat /\ chain'[v] > chain[v]
    /\ chain' = [chain EXCEPT ![v] = chain'[v]]
    /\ UNCHANGED known

\* The voter has seen its prevote committed.
Learn(v) ==
    /\ chain[v] # None
    /\ known' = [known EXCEPT ![v] = chain[v]]
    /\ UNCHANGED chain

\* The voter reveals the prevote, and from then on must not use it again.
Forget(v) ==
    /\ known' = [known EXCEPT ![v] = None]
    /\ UNCHANGED chain

\* Memory does not survive the process.
ForgetAll ==
    /\ known' = [v \in Validators |-> None]
    /\ UNCHANGED chain

Next == ForgetAll \/ \E v \in Validators : Land(v) \/ Learn(v) \/ Forget(v)

Spec == Init /\ [][Next]_vars
=============================================================================
