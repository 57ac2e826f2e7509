----------------------------- MODULE OracleChain -----------------------------
(***************************************************************************)
(* The chain as the feeder sees it: the committed transactions of the      *)
(* feeder account, the transactions that may still be committed, and the   *)
(* oracle module's aggregate prevote of every validator.  None of it is    *)
(* code of this repository: it is modelled from the way pkg/feeder signs,  *)
(* broadcasts and looks up transactions, so every definition is external.  *)
(*                                                                         *)
(* A prevote is named by a number, larger for a later one; 0 is "none".    *)
(***************************************************************************)
EXTENDS Naturals, Sequences

CONSTANTS Validators,   \* validator addresses
          MaxPeriod,    \* bound: the last voting period the chain reaches
          MaxFaults     \* bound: how often something outside the voter fails

ASSUME ChainAssumption == MaxPeriod \in Nat /\ MaxFaults \in Nat

VARIABLES period,       \* the current voting period
          log,          \* committed transactions; Len(log) is the account sequence
          mempool,      \* transactions that some node may still commit
          onchain,      \* the last committed prevote of every validator
          faults        \* the faults still to come

ledger == <<period, log, mempool, onchain>>
chainVars == <<ledger, faults>>

NoPrevote == 0
PrevoteIds == Nat \ {NoPrevote}

\* A transaction of the feeder account: an optional vote, which reveals an
\* earlier prevote, followed by a new prevote.
Tx == [val : Validators, vote : Nat, prevote : PrevoteIds, seq : Nat]
Committed == [tx : Tx, ok : BOOLEAN, period : Nat]

Sequence == Len(log)

ChainTypeOK ==
    /\ period \in 0..MaxPeriod
    /\ log \in Seq(Committed)
    /\ mempool \subseteq Tx
    /\ onchain \in [Validators -> [id : Nat, period : Nat]]
    /\ faults \in 0..MaxFaults

ChainInit ==
    /\ period = 0
    /\ log = <<>>
    /\ mempool = {}
    /\ onchain = [v \in Validators |-> [id |-> NoPrevote, period |-> 0]]
    /\ faults = MaxFaults

\* A step that is a fault exactly when the condition holds.
FaultIf(condition) ==
    \/ condition /\ faults > 0 /\ faults' = faults - 1
    \/ ~condition /\ UNCHANGED faults

\* Nothing fails any more.
Stable == faults = 0

-----------------------------------------------------------------------------
\* The account sequences a node may answer: the committed one, or an older
\* one from a node that lags behind.
AccountSequences == 0..Sequence

\* A node takes t into its pool.  A sequence already used can never be
\* committed again, so such a transaction is as good as dropped.
Pooled(t) == IF t.seq >= Sequence THEN mempool \cup {t} ELSE mempool

\* A node that has seen everything accepts t only with the committed sequence
\* and while no other transaction of the account is pending.
Expected(t) == t.seq = Sequence /\ mempool = {}

\* Whether the oracle module accepts the vote in t: it reveals the last
\* prevote of the validator, one that was committed in the previous period.
RevealAccepted(t) ==
    \/ t.vote = NoPrevote
    \/ /\ onchain[t.val].id = t.vote
       /\ onchain[t.val].period + 1 = period

\* Transaction t is committed, with its messages applied or rejected as a
\* whole; the sequence is used either way, which kills every transaction
\* signed with the same one.  To be rejected for another reason than its
\* vote (gas, fees, a changed whitelist) is a fault.
Commit(t) ==
    /\ t \in mempool
    /\ t.seq = Sequence
    /\ \E ok \in BOOLEAN :
         /\ ok => RevealAccepted(t)
         /\ FaultIf(~ok /\ RevealAccepted(t))
         /\ log' = Append(log, [tx |-> t, ok |-> ok, period |-> period])
         /\ onchain' = IF ok
                       THEN [onchain EXCEPT ![t.val] =
                                [id |-> t.prevote, period |-> period]]
                       ELSE onchain
    /\ mempool' = {u \in mempool : u.seq > Sequence}
    /\ UNCHANGED period

\* A pool loses t: it expires, is evicted, or its node goes down.
Drop(t) ==
    /\ t \in mempool
    /\ FaultIf(TRUE)
    /\ mempool' = mempool \ {t}
    /\ UNCHANGED <<period, log, onchain>>

\* The chain enters its next voting period.
AdvancePeriod ==
    /\ period < MaxPeriod
    /\ period' = period + 1
    /\ UNCHANGED <<log, mempool, onchain>>
=============================================================================
