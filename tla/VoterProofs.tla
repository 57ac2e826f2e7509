----------------------------- MODULE VoterProofs -----------------------------
(***************************************************************************)
(* Proofs about Voter: type correctness, and the safety properties of the  *)
(* prevotes it stores, from the inductive invariant IInv; at the end, that *)
(* Voter implements PrevoteLife.                                           *)
(*                                                                         *)
(* For the prevotes, a step of Next counts only by what it does to the     *)
(* chain, the stored prevotes and the transaction in progress: StepEffects *)
(* sorts all actions into the few effects defined below, and each part of  *)
(* IInv is preserved by every effect.                                      *)
(***************************************************************************)
EXTENDS Voter, SequenceTheorems, TLAPS

-----------------------------------------------------------------------------
(* Channels: what is sent and received keeps the type of the queue. *)

LEMMA ChannelSend ==
    ASSUME NEW S, NEW ch \in Seq(S), NEW m \in S
    PROVE  /\ Append(ch, m) \in Seq(S)
           /\ Len(Append(ch, m)) = Len(ch) + 1
           /\ Len(ch) \in Nat
BY AppendProperties, LenProperties

LEMMA ChannelReceive ==
    ASSUME NEW S, NEW ch \in Seq(S), ch # <<>>
    PROVE  /\ Head(ch) \in S
           /\ Tail(ch) \in Seq(S)
           /\ Len(Tail(ch)) = Len(ch) - 1
           /\ Len(ch) \in Nat
<1>1. Len(ch) \in Nat \ {0} /\ Head(ch) = ch[1]
  BY EmptySeq
<1> QED
  BY <1>1, HeadTailProperties

-----------------------------------------------------------------------------
(* Type correctness *)

\* A submission in progress belongs to a configured validator.
LEMMA CurrentIsValidator ==
    ASSUME TypeOK, index <= Len(ValidatorList)
    PROVE  Current \in Validators
BY VoterAssumption DEF TypeOK, Current

\* The transaction in progress is a transaction.
LEMMA SignedIsTx ==
    ASSUME TypeOK, Submitting
    PROVE  Signed \in Tx
<1>1. index <= Len(ValidatorList)
  BY DEF TypeOK, Submitting
<1>2. Current \in Validators
  BY <1>1, CurrentIsValidator
<1> QED
  BY <1>2 DEF TypeOK, Submitting, Signed, Tx, Messages, PrevoteIds, NoPrevote

\* A new transaction is well typed, whatever becomes of the other variables.
LEMMA NewTransactionType ==
    ASSUME TypeOK, index <= Len(ValidatorList), NEW vote \in Nat,
           NEW r \in BOOLEAN, NewTransaction(vote, r)
    PROVE  /\ msgs' \in Messages /\ msgs'.prevote # NoPrevote
           /\ nextId' \in PrevoteIds /\ recovering' \in BOOLEAN
           /\ attempt' \in 1..MaxRetries /\ seqAttempt' \in 1..SequenceRetries
           /\ account' \in Nat /\ pc' \in Pc /\ index' = index
BY VoterAssumption DEF TypeOK, NewTransaction, Messages, PrevoteIds, NoPrevote, Pc

\* So is the voter that goes on to the next validator.
LEMMA NextValidatorType ==
    ASSUME TypeOK, index <= Len(ValidatorList), NextValidator
    PROVE  /\ msgs' \in Messages /\ pc' = "next"
           /\ nextId' \in PrevoteIds /\ recovering' \in BOOLEAN
           /\ attempt' \in 1..MaxRetries /\ seqAttempt' \in 1..SequenceRetries
           /\ account' \in Nat /\ index' \in 1..Len(ValidatorList) + 1
<1>1. Len(ValidatorList) \in Nat
  BY VoterAssumption
<1>2. index' \in 1..Len(ValidatorList) + 1
  BY <1>1 DEF TypeOK, NextValidator
<1>3. recovering' \in BOOLEAN
  BY Zenon DEF NextValidator
<1>4. /\ msgs' \in Messages /\ pc' = "next" /\ nextId' \in PrevoteIds
      /\ attempt' \in 1..MaxRetries /\ seqAttempt' \in 1..SequenceRetries
      /\ account' \in Nat
  BY VoterAssumption DEF TypeOK, NextValidator, Messages, NoMessages, NoPrevote
<1> QED
  BY <1>2, <1>3, <1>4

\* The part of TypeOK that a failed broadcast can disturb.
SubmissionType ==
    /\ prevotes \in [Validators -> Nat]
    /\ pc \in Pc
    /\ index \in 1..Len(ValidatorList) + 1
    /\ Submitting => index <= Len(ValidatorList) /\ msgs.prevote # NoPrevote
    /\ msgs \in Messages
    /\ recovering \in BOOLEAN
    /\ attempt \in 1..MaxRetries
    /\ seqAttempt \in 1..SequenceRetries
    /\ account \in Nat
    /\ nextId \in PrevoteIds

\* The rest of it, and that the two are all of it.
SurroundingType ==
    /\ ChainTypeOK
    /\ periodCh \in Seq(1..MaxPeriod) /\ Len(periodCh) <= ChannelCap
    /\ whitelisted \in BOOLEAN
    /\ lastVotePeriod \in 0..MaxPeriod
    /\ state \in VotingState
    /\ cycle \in 0..MaxPeriod

LEMMA TypeParts == TypeOK <=> SurroundingType /\ SubmissionType
BY DEF TypeOK, SurroundingType, SubmissionType, Submitting

LEMMA FailedType ==
    ASSUME TypeOK, Submitting, SubmissionFailed
    PROVE  SubmissionType'
<1>1. index <= Len(ValidatorList)
  BY DEF TypeOK, Submitting
<1>2. Current \in Validators
  BY <1>1, CurrentIsValidator
<1>3. prevotes' \in [Validators -> Nat]
  <2>1. prevotes' = [prevotes EXCEPT ![Current] = NoPrevote] \/ prevotes' = prevotes
    BY Zenon DEF SubmissionFailed
  <2>2. prevotes \in [Validators -> Nat] /\ NoPrevote \in Nat
    BY DEF TypeOK, NoPrevote
  <2> QED
    BY <2>1, <2>2
<1>4. CASE NewTransaction(NoPrevote, TRUE)
  BY <1>1, <1>3, <1>4, NewTransactionType
     DEF SubmissionType, Submitting, TypeOK, NoPrevote
<1>5. CASE NextValidator
  BY <1>1, <1>3, <1>5, NextValidatorType DEF SubmissionType, Submitting, Pc
<1> QED
  BY <1>4, <1>5 DEF SubmissionFailed

LEMMA BroadcastFailedType ==
    ASSUME TypeOK, Submitting, BroadcastFailed
    PROVE  SubmissionType'
<1>1. CASE attempt = MaxRetries /\ SubmissionFailed
  BY <1>1, FailedType
<1>2. CASE /\ attempt < MaxRetries
           /\ attempt' = attempt + 1
           /\ seqAttempt' = 1
           /\ account' = 0
           /\ pc' = "account"
           /\ UNCHANGED <<prevotes, index, msgs, recovering, nextId>>
  <2>1. recovering' \in BOOLEAN
    BY <1>2, Zenon DEF TypeOK
  <2>2. attempt' \in 1..MaxRetries /\ seqAttempt' \in 1..SequenceRetries
    BY <1>2, VoterAssumption DEF TypeOK
  <2> QED
    BY <1>2, <2>1, <2>2 DEF SubmissionType, TypeOK, Submitting, Pc
<1> QED
  BY <1>1, <1>2 DEF BroadcastFailed

\* What the committed log looks like after one more transaction.
LEMMA CommitLog ==
    ASSUME TypeOK, NEW t, Commit(t)
    PROVE  \E e \in Committed :
              /\ e.tx = t
              /\ e.ok => RevealAccepted(t)
              /\ log' = Append(log, e)
              /\ log' \in Seq(Committed)
              /\ Len(log') = Len(log) + 1
              /\ \A i \in 1..Len(log) : log'[i] = log[i]
              /\ log'[Len(log) + 1] = e
              /\ onchain' = IF e.ok
                            THEN [onchain EXCEPT ![t.val] =
                                     [id |-> t.prevote, period |-> period]]
                            ELSE onchain
              /\ e.period = period
<1>1. PICK ok \in BOOLEAN :
         /\ ok => RevealAccepted(t)
         /\ log' = Append(log, [tx |-> t, ok |-> ok, period |-> period])
         /\ onchain' = IF ok
                       THEN [onchain EXCEPT ![t.val] =
                                [id |-> t.prevote, period |-> period]]
                       ELSE onchain
  BY DEF Commit
<1> DEFINE e == [tx |-> t, ok |-> ok, period |-> period]
<1>2. e \in Committed
  BY DEF TypeOK, ChainTypeOK, Commit, Committed
<1>3. log \in Seq(Committed)
  BY DEF TypeOK, ChainTypeOK
<1>4. /\ log' \in Seq(Committed)
      /\ Len(log') = Len(log) + 1
      /\ \A i \in 1..Len(log) : log'[i] = log[i]
      /\ log'[Len(log) + 1] = e
  BY <1>1, <1>2, <1>3, AppendProperties
<1> QED
  BY <1>1, <1>2, <1>4

\* Init establishes the types.
LEMMA TypeInit == Init => TypeOK
<1> SUFFICES ASSUME Init PROVE TypeOK
  OBVIOUS
<1>1. ChainTypeOK
  BY ChainAssumption DEF Init, ChainInit, ChainTypeOK, NoPrevote
<1>2. recovering \in BOOLEAN /\ whitelisted \in BOOLEAN
  BY Zenon DEF Init, VoterInit
<1>3. periodCh \in Seq(1..MaxPeriod) /\ Len(periodCh) <= ChannelCap
  BY VoterAssumption DEF Init, VoterInit
<1>4. index \in 1..Len(ValidatorList) + 1
  BY VoterAssumption DEF Init, VoterInit
<1> QED
  BY <1>1, <1>2, <1>3, <1>4, ChainAssumption, VoterAssumption
     DEF Init, VoterInit, TypeOK, VotingState, Pc, Messages, NoMessages, NoPrevote,
         PrevoteIds

LEMMA FaultType ==
    ASSUME NEW c, faults \in 0..MaxFaults, FaultIf(c)
    PROVE  faults' \in 0..MaxFaults
BY ChainAssumption DEF FaultIf

\* A pool stays a set of transactions.
LEMMA PooledType ==
    ASSUME TypeOK, Submitting
    PROVE  Pooled(Signed) \in SUBSET Tx
BY SignedIsTx DEF Pooled, TypeOK, ChainTypeOK

\* Steps that leave the submission, or what surrounds it, as it is.
LEMMA SubmissionUnchanged ==
    ASSUME SubmissionType, UNCHANGED <<prevotes, pc, submission>>
    PROVE  SubmissionType'
BY DEF SubmissionType, Submitting, submission

LEMMA SurroundingUnchanged ==
    ASSUME SurroundingType, faults' \in 0..MaxFaults, mempool' \in SUBSET Tx,
           UNCHANGED <<period, log, onchain, periodCh, whitelisted, lastVotePeriod,
                       state, cycle>>
    PROVE  SurroundingType'
BY DEF SurroundingType, ChainTypeOK

\* Init and every step keep the types.
LEMMA TypeStep == TypeOK /\ [Next]_vars => TypeOK'
<1> SUFFICES ASSUME TypeOK, [Next]_vars
             PROVE  SurroundingType' /\ SubmissionType'
  BY TypeParts, PTL
<1> USE TypeParts
<1>f. faults \in 0..MaxFaults /\ mempool \in SUBSET Tx
  BY DEF TypeOK, ChainTypeOK
<1>1. CASE SkipPeriod
  <2>1. periodCh' \in Seq(1..MaxPeriod) /\ Len(periodCh') <= ChannelCap
    BY <1>1, ChannelReceive, VoterAssumption DEF SkipPeriod, TypeOK
  <2>2. UNCHANGED <<prevotes, pc, submission>>
    BY <1>1 DEF SkipPeriod, voterVars
  <2>3. SurroundingType'
    BY <1>1, <2>1 DEF SkipPeriod, SurroundingType, chainVars, ledger, voterVars, ChainTypeOK
  <2> QED
    BY <2>2, <2>3, SubmissionUnchanged
<1>2. CASE StartCycle
  <2>0. periodCh \in Seq(1..MaxPeriod) /\ periodCh # <<>>
    BY <1>2 DEF StartCycle, TypeOK
  <2>1. /\ periodCh' \in Seq(1..MaxPeriod) /\ Len(periodCh') <= ChannelCap
        /\ Head(periodCh) \in 1..MaxPeriod
    <3>1. /\ Tail(periodCh) \in Seq(1..MaxPeriod)
          /\ Len(Tail(periodCh)) = Len(periodCh) - 1 /\ Len(periodCh) \in Nat
          /\ Head(periodCh) \in 1..MaxPeriod
      BY <2>0, ChannelReceive, Zenon
    <3> QED
      BY <1>2, <3>1, VoterAssumption DEF StartCycle, TypeOK
  <2>2. SurroundingType'
    BY <1>2, <2>1 DEF StartCycle, SurroundingType, chainVars, ledger, ChainTypeOK, VotingState
  <2>3. SubmissionType'
    BY <1>2 DEF StartCycle, SubmissionType, submission, Submitting, Pc
  <2> QED
    BY <2>2, <2>3
<1>3. CASE AbortCycle
  <2>1. SurroundingType'
    BY <1>3, <1>f, FaultType, ChainAssumption
       DEF AbortCycle, SurroundingType, ledger, ChainTypeOK, VotingState
  <2>2. SubmissionType'
    BY <1>3 DEF AbortCycle, SubmissionType, submission, Submitting, Pc
  <2> QED
    BY <2>1, <2>2
<1>4. CASE PricesFetched
  <2>1. SurroundingType'
    BY <1>4 DEF PricesFetched, SurroundingType, chainVars, ledger, ChainTypeOK, VotingState
  <2>2. SubmissionType'
    BY <1>4 DEF PricesFetched, SubmissionType, submission, Submitting, Pc
  <2> QED
    BY <2>1, <2>2
<1>5. CASE EndCycle
  <2>1. SurroundingType'
    BY <1>5, ChainAssumption
       DEF EndCycle, SurroundingType, chainVars, ledger, ChainTypeOK, VotingState
  <2>2. SubmissionType'
    BY <1>5, VoterAssumption DEF EndCycle, SubmissionType, Submitting, Pc
  <2> QED
    BY <2>1, <2>2
<1>6. CASE SubmitVote
  <2>1. SurroundingType'
    BY <1>6 DEF SubmitVote, SurroundingType, chainVars, ledger, ChainTypeOK
  <2>2. prevotes[Current] \in Nat
    BY <1>6, CurrentIsValidator DEF SubmitVote, TypeOK
  <2>3. NewTransaction(prevotes[Current], FALSE) /\ index <= Len(ValidatorList)
        /\ prevotes' = prevotes
    BY <1>6 DEF SubmitVote
  <2>4. FALSE \in BOOLEAN
    OBVIOUS
  <2>5. SubmissionType'
    BY <2>2, <2>3, <2>4, NewTransactionType DEF SubmissionType, Submitting, TypeOK
  <2> QED
    BY <2>1, <2>5
<1>7. CASE PrevoteFailed
  <2>1. SurroundingType'
    BY <1>7, <1>f, FaultType DEF PrevoteFailed, SurroundingType, ledger, ChainTypeOK
  <2>2. SubmissionType'
    BY <1>7, NextValidatorType DEF PrevoteFailed, SubmissionType, Submitting, TypeOK, Pc
  <2> QED
    BY <2>1, <2>2
<1>8. CASE GetAccount
  <2>1. SurroundingType'
    BY <1>8, <1>f, FaultType DEF GetAccount, SurroundingType, ledger, ChainTypeOK
  <2>2. account' \in Nat
    BY <1>8 DEF GetAccount, AccountSequences
  <2>3. SubmissionType'
    BY <1>8, <2>2 DEF GetAccount, SubmissionType, Submitting, Pc, TypeOK
  <2> QED
    BY <2>1, <2>3
<1>9. CASE GetAccountFailed
  <2>1. SurroundingType'
    BY <1>9, <1>f, FaultType DEF GetAccountFailed, SurroundingType, ledger, ChainTypeOK
  <2> QED
    BY <1>9, <2>1, BroadcastFailedType DEF GetAccountFailed, Submitting
<1>10. CASE Broadcast
  <2>1. mempool' \in SUBSET Tx
    BY <1>10, PooledType DEF Broadcast, Submitting
  <2>2. SurroundingType'
    BY <1>10, <1>f, <2>1, FaultType, SurroundingUnchanged DEF Broadcast
  <2>3. SubmissionType'
    BY <1>10 DEF Broadcast, SubmissionType, Submitting, submission, Pc, TypeOK
  <2> QED
    BY <2>2, <2>3
<1>11. CASE SequenceMismatch
  <2>1. SurroundingType'
    BY <1>11, <1>f, FaultType DEF SequenceMismatch, SurroundingType, ledger, ChainTypeOK
  <2>2. CASE BroadcastFailed
    BY <1>11, <2>1, <2>2, BroadcastFailedType DEF SequenceMismatch, Submitting
  <2>3. CASE /\ seqAttempt < SequenceRetries
             /\ seqAttempt' = seqAttempt + 1
             /\ account' = 0
             /\ pc' = "account"
             /\ UNCHANGED <<prevotes, index, msgs, recovering, attempt, nextId>>
    <3>1. seqAttempt' \in 1..SequenceRetries
      BY <2>3, VoterAssumption DEF TypeOK
    <3>2. Submitting
      BY <1>11 DEF SequenceMismatch, Submitting
    <3> QED
      BY <2>1, <2>3, <3>1, <3>2 DEF SubmissionType, Submitting, Pc
  <2> QED
    BY <1>11, <2>2, <2>3 DEF SequenceMismatch
<1>12. CASE BroadcastError
  <2>1. mempool' \in SUBSET Tx
    BY <1>12, <1>f, PooledType DEF BroadcastError, Submitting
  <2>2. SurroundingType'
    BY <1>12, <1>f, <2>1, FaultType, SurroundingUnchanged DEF BroadcastError
  <2> QED
    BY <1>12, <2>2, BroadcastFailedType DEF BroadcastError, Submitting
<1>13. CASE TxSucceeded
  <2>1. index <= Len(ValidatorList) /\ msgs.prevote \in Nat
    BY <1>13 DEF TxSucceeded, TypeOK, Messages
  <2>2. prevotes' \in [Validators -> Nat] /\ NextValidator
    BY <1>13, <2>1, CurrentIsValidator DEF TxSucceeded, SubmissionSucceeded, TypeOK
  <2>3. SubmissionType'
    BY <2>1, <2>2, NextValidatorType DEF SubmissionType, Submitting, Pc
  <2>4. SurroundingType'
    BY <1>13 DEF TxSucceeded, SurroundingType, chainVars, ledger, ChainTypeOK
  <2> QED
    BY <2>3, <2>4
<1>14. CASE TxNotConfirmed
  <2>1. SurroundingType'
    BY <1>14, <1>f, FaultType DEF TxNotConfirmed, SurroundingType, ledger, ChainTypeOK
  <2> QED
    BY <1>14, <2>1, FailedType DEF TxNotConfirmed, Submitting
<1>15. CASE ParamsUpdate
  <2>1. SubmissionType'
    BY <1>15, SubmissionUnchanged DEF ParamsUpdate
  <2>2. SurroundingType'
    BY <1>15, <1>f, FaultType DEF ParamsUpdate, SurroundingType, ledger, ChainTypeOK
  <2> QED
    BY <2>1, <2>2
<1>16. CASE PeriodStarted
  <2>1. SubmissionType'
    BY <1>16, SubmissionUnchanged DEF PeriodStarted, voterVars
  <2>2. period' \in 1..MaxPeriod /\ period' \in 0..MaxPeriod
    BY <1>16, ChainAssumption DEF PeriodStarted, AdvancePeriod, TypeOK, ChainTypeOK
  <2>3. periodCh' \in Seq(1..MaxPeriod) /\ Len(periodCh') <= ChannelCap
    <3>1. periodCh \in Seq(1..MaxPeriod) /\ Len(periodCh) <= ChannelCap
      BY DEF TypeOK
    <3>2. \/ Len(periodCh) < ChannelCap /\ periodCh' = Append(periodCh, period')
          \/ periodCh' = periodCh
      BY <1>16 DEF PeriodStarted
    <3>3. /\ Append(periodCh, period') \in Seq(1..MaxPeriod)
          /\ Len(Append(periodCh, period')) = Len(periodCh) + 1
          /\ Len(periodCh) \in Nat
      BY <2>2, <3>1, ChannelSend, Zenon
    <3>4. periodCh' \in Seq(1..MaxPeriod)
      BY <3>1, <3>2, <3>3
    <3>5. Len(periodCh') <= ChannelCap
      BY <3>1, <3>2, <3>3, VoterAssumption
    <3> QED
      BY <3>4, <3>5
  <2>4. faults' \in 0..MaxFaults
    BY <1>16, <1>f, FaultType DEF PeriodStarted
  <2>5. SurroundingType'
    BY <1>16, <2>2, <2>3, <2>4
       DEF PeriodStarted, AdvancePeriod, SurroundingType, voterVars, ChainTypeOK
  <2> QED
    BY <2>1, <2>5
<1>17. CASE PeriodRepeated
  <2>1. SubmissionType'
    BY <1>17, SubmissionUnchanged DEF PeriodRepeated, voterVars
  <2>2. PICK p \in 1..period : periodCh' = Append(periodCh, p)
    BY <1>17 DEF PeriodRepeated
  <2>3. p \in 1..MaxPeriod
    BY ChainAssumption DEF TypeOK, ChainTypeOK
  <2>4. periodCh' \in Seq(1..MaxPeriod) /\ Len(periodCh') <= ChannelCap
    BY <1>17, <2>2, <2>3, ChannelSend, VoterAssumption DEF PeriodRepeated, TypeOK
  <2>5. SurroundingType'
    BY <1>17, <1>f, <2>4, FaultType
       DEF PeriodRepeated, SurroundingType, ledger, voterVars, ChainTypeOK
  <2> QED
    BY <2>1, <2>5
<1>18. CASE Restart
  <2>1. whitelisted' \in BOOLEAN /\ recovering' \in BOOLEAN
    BY <1>18, Zenon DEF Restart
  <2>2. SurroundingType'
    <3>1. faults' \in 0..MaxFaults
      BY <1>18, <1>f, FaultType DEF Restart
    <3>2. /\ periodCh' = <<>> /\ lastVotePeriod' = 0 /\ cycle' = 0
          /\ state' = "Idle" /\ UNCHANGED ledger
      BY <1>18, Zenon DEF Restart
    <3>3. ChainTypeOK'
      BY <3>1, <3>2 DEF SurroundingType, ledger, ChainTypeOK
    <3> QED
      BY <2>1, <3>2, <3>3, ChainAssumption, VoterAssumption
         DEF SurroundingType, VotingState
  <2>3. SubmissionType'
    BY <1>18, <2>1, VoterAssumption
       DEF Restart, SubmissionType, Submitting, Pc, Messages, NoMessages, NoPrevote
  <2> QED
    BY <2>2, <2>3
<1>19. CASE Chain
  <2>1. SubmissionType'
    BY <1>19, SubmissionUnchanged DEF Chain, voterVars
  <2>2. PICK t \in mempool : Commit(t) \/ Drop(t)
    BY <1>19 DEF Chain
  <2>3. faults' \in 0..MaxFaults /\ period' = period /\ mempool' \in SUBSET Tx
    BY <2>2, <1>f, FaultType DEF Commit, Drop
  <2>4. CASE Commit(t)
    <3>1. t \in Tx
      BY <1>f
    <3>2. PICK e \in Committed :
             /\ log' \in Seq(Committed)
             /\ onchain' = IF e.ok
                           THEN [onchain EXCEPT ![t.val] =
                                    [id |-> t.prevote, period |-> period]]
                           ELSE onchain
      BY <2>4, CommitLog
    <3>3. onchain' \in [Validators -> [id : Nat, period : Nat]]
      BY <3>1, <3>2 DEF TypeOK, ChainTypeOK, Tx, PrevoteIds
    <3> QED
      BY <1>19, <2>1, <2>3, <3>2, <3>3 DEF Chain, SurroundingType, voterVars, ChainTypeOK
  <2>5. CASE Drop(t)
    BY <1>19, <2>1, <2>3, <2>5 DEF Drop, Chain, SurroundingType, voterVars, ChainTypeOK
  <2> QED
    BY <2>2, <2>4, <2>5
<1>20. CASE UNCHANGED vars
  BY <1>20 DEF vars, chainVars, ledger, voterVars, submission, SurroundingType,
               SubmissionType, ChainTypeOK, Submitting
<1> QED
  BY <1>1, <1>2, <1>3, <1>4, <1>5, <1>6, <1>7, <1>8, <1>9, <1>10, <1>11, <1>12,
     <1>13, <1>14, <1>15, <1>16, <1>17, <1>18, <1>19, <1>20 DEF Next, Vote

\* The voter, its channel and the chain always have the types they declare.
THEOREM TypeCorrect == Spec => []TypeOK
BY TypeInit, TypeStep, PTL DEF Spec

-----------------------------------------------------------------------------
(* The effects of a step *)

Kept == UNCHANGED <<prevotes, nextId>>
Forgotten == prevotes' = [prevotes EXCEPT ![Current] = NoPrevote]

\* No node, or some node, takes the transaction in progress.
Offered ==
    /\ UNCHANGED <<log, onchain>>
    /\ mempool' = mempool \/ mempool' = Pooled(Signed)

\* Nothing that concerns a prevote happens.
Around ==
    /\ UNCHANGED <<log, onchain, mempool, msgs, recovering, account, index>>
    /\ Kept
    /\ Submitting' = Submitting

\* The voter moves on outside a submission.
Resting ==
    /\ ~Submitting /\ ~Submitting'
    /\ UNCHANGED <<log, onchain, mempool>>
    /\ Kept
    /\ account' \in {0, account}

\* A submission begins.
Beginning ==
    /\ ~Submitting /\ Submitting' /\ index <= Len(ValidatorList)
    /\ UNCHANGED <<log, onchain, mempool, prevotes, index>>
    /\ msgs' = [vote |-> prevotes[Current], prevote |-> nextId]
    /\ nextId' = nextId + 1
    /\ recovering' = FALSE
    /\ account' = 0

\* The same transaction goes on, or is tried again.
Retrying ==
    /\ Submitting /\ Submitting'
    /\ Offered
    /\ Kept
    /\ UNCHANGED <<index, msgs, recovering>>
    /\ account' \in {0, account} \cup AccountSequences

\* The transaction is given up for the recovery transaction.
Recovering ==
    /\ Submitting /\ Submitting'
    /\ Offered
    /\ Forgotten
    /\ UNCHANGED index
    /\ msgs' = [vote |-> NoPrevote, prevote |-> nextId]
    /\ nextId' = nextId + 1
    /\ account' = 0

\* The submission ends without success.
GivingUp ==
    /\ Submitting /\ ~Submitting'
    /\ Offered
    /\ Forgotten \/ (recovering /\ UNCHANGED prevotes)
    /\ nextId' = nextId
    /\ account' = 0

\* The submission ends with a confirmed transaction.
Storing ==
    /\ Submitting /\ ~Submitting'
    /\ Landed(Signed, TRUE)
    /\ UNCHANGED <<log, onchain, mempool, nextId>>
    /\ prevotes' = [prevotes EXCEPT ![Current] = msgs.prevote]
    /\ account' = 0

\* The process starts over.
Restarting ==
    /\ ~Submitting'
    /\ UNCHANGED <<log, onchain, mempool, nextId>>
    /\ prevotes' = [v \in Validators |-> NoPrevote]
    /\ account' = 0

\* The chain moves while the voter stands still.
VoterStill ==
    /\ UNCHANGED <<msgs, recovering, account, index>>
    /\ Kept
    /\ Submitting' = Submitting

LEMMA FailedEffect ==
    ASSUME Submitting, Offered, SubmissionFailed
    PROVE  Recovering \/ GivingUp
<1>1. CASE NewTransaction(NoPrevote, TRUE) /\ Forgotten
  <2>1. Submitting'
    BY <1>1 DEF NewTransaction, Submitting
  <2> QED
    BY <1>1, <2>1 DEF NewTransaction, Recovering
<1>2. CASE NextValidator /\ (Forgotten \/ (recovering /\ UNCHANGED prevotes))
  <2>1. ~Submitting'
    BY <1>2 DEF NextValidator, Submitting
  <2> QED
    BY <1>2, <2>1 DEF NextValidator, GivingUp
<1> QED
  BY <1>1, <1>2, Zenon DEF SubmissionFailed, Forgotten

LEMMA BroadcastFailedEffect ==
    ASSUME Submitting, Offered, BroadcastFailed
    PROVE  Retrying \/ Recovering \/ GivingUp
<1>1. CASE SubmissionFailed
  BY <1>1, FailedEffect
<1>2. CASE /\ account' = 0
           /\ pc' = "account"
           /\ UNCHANGED <<prevotes, index, msgs, recovering, nextId>>
  BY <1>2 DEF Retrying, Submitting, Kept
<1> QED
  BY <1>1, <1>2 DEF BroadcastFailed

\* Every step has one of these effects.
LEMMA StepEffects ==
    ASSUME [Next]_vars
    PROVE  \/ Around \/ Resting \/ Beginning \/ Retrying \/ Recovering
           \/ GivingUp \/ Storing \/ Restarting
           \/ VoterStill /\ \E t \in mempool : Commit(t) \/ Drop(t)
<1>1. CASE SkipPeriod \/ PeriodStarted \/ PeriodRepeated \/ ParamsUpdate
           \/ UNCHANGED vars
  BY <1>1 DEF SkipPeriod, PeriodStarted, PeriodRepeated, ParamsUpdate, AdvancePeriod,
              vars, chainVars, ledger, voterVars, submission, Around, Kept, Submitting
<1>2. CASE StartCycle \/ AbortCycle \/ PricesFetched \/ EndCycle \/ PrevoteFailed
  BY <1>2 DEF StartCycle, AbortCycle, PricesFetched, EndCycle, PrevoteFailed,
              NextValidator, chainVars, ledger, submission, Resting, Kept, Submitting
<1>3. CASE SubmitVote
  BY <1>3 DEF SubmitVote, NewTransaction, chainVars, ledger, Beginning, Submitting
<1>4. CASE GetAccount
  BY <1>4 DEF GetAccount, ledger, Retrying, Offered, Kept, Submitting
<1>5. CASE Broadcast
  BY <1>5 DEF Broadcast, submission, Retrying, Offered, Kept, Submitting
<1>6. CASE GetAccountFailed \/ BroadcastError
  <2>1. Submitting /\ Offered /\ BroadcastFailed
    BY <1>6 DEF GetAccountFailed, BroadcastError, ledger, Offered, Submitting
  <2> QED
    BY <2>1, BroadcastFailedEffect
<1>7. CASE SequenceMismatch
  <2>1. Submitting /\ Offered
    BY <1>7 DEF SequenceMismatch, ledger, Offered, Submitting
  <2>2. CASE BroadcastFailed
    BY <2>1, <2>2, BroadcastFailedEffect
  <2>3. CASE ~BroadcastFailed
    BY <1>7, <2>1, <2>3 DEF SequenceMismatch, Retrying, Kept, Submitting
  <2> QED
    BY <2>2, <2>3
<1>8. CASE TxNotConfirmed
  <2>1. Submitting /\ Offered /\ SubmissionFailed
    BY <1>8 DEF TxNotConfirmed, ledger, Offered, Submitting
  <2> QED
    BY <2>1, FailedEffect
<1>9. CASE TxSucceeded
  BY <1>9 DEF TxSucceeded, SubmissionSucceeded, NextValidator, chainVars, ledger,
              Storing, Submitting
<1>10. CASE Restart
  <2>1. ~Submitting'
    BY <1>10 DEF Restart, Submitting
  <2> QED
    BY <1>10, <2>1 DEF Restart, ledger, Restarting
<1>11. CASE Chain
  BY <1>11 DEF Chain, voterVars, submission, VoterStill, Kept, Submitting
<1> QED
  BY <1>1, <1>2, <1>3, <1>4, <1>5, <1>6, <1>7, <1>8, <1>9, <1>10, <1>11
     DEF Next, Vote

-----------------------------------------------------------------------------
(* The inductive invariant *)

\* The types the steps below use, in the form they use them.
LEMMA Types ==
    ASSUME TypeOK
    PROVE  /\ Len(log) \in Nat
           /\ \A i \in 1..Len(log) : log[i] \in Committed /\ log[i].tx \in Tx
           /\ \A t \in Tx : /\ t.val \in Validators /\ t.vote \in Nat
                            /\ t.prevote \in Nat /\ t.prevote # NoPrevote
                            /\ t.seq \in Nat
           /\ mempool \subseteq Tx
           /\ \A v \in Validators : prevotes[v] \in Nat /\ onchain[v].id \in Nat
           /\ prevotes \in [Validators -> Nat]
           /\ nextId \in Nat /\ nextId # NoPrevote
           /\ account \in Nat
           /\ msgs.vote \in Nat /\ msgs.prevote \in Nat
<1>1. log \in Seq(Committed)
  BY DEF TypeOK, ChainTypeOK
<1>2. Len(log) \in Nat /\ \A i \in 1..Len(log) : log[i] \in Committed
  BY <1>1, ElementOfSeq, LenProperties
<1>3. \A e \in Committed : e.tx \in Tx
  BY DEF Committed
<1>4. \A t \in Tx : /\ t.val \in Validators /\ t.vote \in Nat
                    /\ t.prevote \in Nat /\ t.prevote # NoPrevote
                    /\ t.seq \in Nat
  BY DEF Tx, PrevoteIds
<1> QED
  BY <1>2, <1>3, <1>4 DEF TypeOK, ChainTypeOK, PrevoteIds, NoPrevote, Messages

\* A transaction is pending or committed.
LEMMA TransactionCases ==
    ASSUME NEW t
    PROVE  t \in Transactions <=>
              t \in mempool \/ \E i \in 1..Len(log) : t = log[i].tx
BY DEF Transactions

\* What an offer of the transaction in progress can add to the pools.
LEMMA OfferedPool ==
    ASSUME IInv, Submitting, Offered
    PROVE  /\ \A t \in mempool' : t \in mempool \/ (t = Signed /\ account = Sequence)
           /\ Signed.val = Current /\ Signed.vote = msgs.vote
           /\ Signed.prevote = msgs.prevote /\ Signed.seq = account
           /\ Current \in Validators
<1>1. account \in Nat /\ Sequence \in Nat /\ account <= Sequence
  BY Types DEF IInv, Sequenced, Sequence
<1>2. Current \in Validators
  BY CurrentIsValidator DEF IInv, TypeOK, Submitting
<1> QED
  BY <1>1, <1>2 DEF Offered, Pooled, Signed

\* A commitment moves one pending transaction to the end of the log.
LEMMA Committing ==
    ASSUME IInv, NEW t \in mempool, Commit(t)
    PROVE  /\ mempool' = {}
           /\ Len(log') = Len(log) + 1
           /\ \A i \in 1..Len(log) : log'[i] = log[i]
           /\ log'[Len(log) + 1].tx = t
           /\ \A v \in Validators :
                 onchain'[v].id = IF log'[Len(log) + 1].ok /\ v = t.val
                                  THEN t.prevote ELSE onchain[v].id
           /\ t \in Tx /\ t.seq = Len(log)
<1>1. PICK e \in Committed :
              /\ e.tx = t
              /\ Len(log') = Len(log) + 1
              /\ \A i \in 1..Len(log) : log'[i] = log[i]
              /\ log'[Len(log) + 1] = e
              /\ onchain' = IF e.ok
                            THEN [onchain EXCEPT ![t.val] =
                                     [id |-> t.prevote, period |-> period]]
                            ELSE onchain
  BY CommitLog DEF IInv
<1>2. mempool' = {}
  <2>1. mempool' = {u \in mempool : u.seq > Sequence}
    BY DEF Commit
  <2>2. \A u \in mempool : u.seq = Sequence
    BY DEF IInv, Sequenced
  <2> QED
    BY <2>1, <2>2, Types DEF Sequence, IInv
<1>3. onchain \in [Validators -> [id : Nat, period : Nat]]
  BY DEF IInv, TypeOK, ChainTypeOK
<1>4. \A v \in Validators :
         onchain'[v].id = IF e.ok /\ v = t.val THEN t.prevote ELSE onchain[v].id
  BY <1>1, <1>3
<1> QED
  BY <1>1, <1>2, <1>4, Types DEF IInv, Commit, Sequence

\* The chain makes no transactions of its own.
LEMMA TransactionsKept ==
    ASSUME IInv, NEW t \in mempool, Commit(t) \/ Drop(t)
    PROVE  \A u \in Transactions' : u \in Transactions
<1> SUFFICES ASSUME NEW u \in Transactions' PROVE u \in Transactions
  OBVIOUS
<1>1. CASE Commit(t)
  <2>1. PICK i \in 1..Len(log') : u = log'[i].tx
    BY <1>1, Committing DEF Transactions
  <2> QED
    BY <1>1, <2>1, Committing, Types DEF Transactions, IInv
<1>2. CASE Drop(t)
  BY <1>2 DEF Drop, Transactions
<1> QED
  BY <1>1, <1>2

(* Each part of the invariant is preserved by every step. *)

LEMMA NumberedStep ==
    ASSUME IInv, [Next]_vars
    PROVE  Numbered'
<1> USE DEF IInv
<1>1. CASE Around \/ Resting \/ Restarting
  BY <1>1, Types, TransactionCases
     DEF Around, Resting, Restarting, Kept, Numbered, Transactions, NoPrevote
<1>2. CASE Beginning
  BY <1>2, Types, CurrentIsValidator DEF Beginning, Numbered, Transactions, NoPrevote
<1>3. CASE Retrying \/ Recovering \/ GivingUp
  <2>1. \A t \in Transactions' : t \in Transactions \/ t = Signed
    BY <1>3, OfferedPool
       DEF Retrying, Recovering, GivingUp, Offered, Transactions
  <2>2. Signed.vote = msgs.vote /\ Signed.prevote = msgs.prevote
    BY DEF Signed
  <2>3. Submitting /\ nextId \in Nat /\ nextId' \in Nat /\ nextId' >= nextId
    BY <1>3, Types DEF Retrying, Recovering, GivingUp, Kept
  <2>4. \A t \in Transactions' : t.prevote < nextId' /\ t.vote < t.prevote
    <3> SUFFICES ASSUME NEW t \in Transactions'
                 PROVE  t.prevote < nextId' /\ t.vote < t.prevote
      OBVIOUS
    <3>1. t.prevote < nextId /\ t.vote < t.prevote /\ t.prevote \in Nat
      BY <2>1, <2>2, <2>3, Types DEF Numbered, Transactions
    <3> QED
      BY <2>3, <3>1
  <2>5. \A v \in Validators :
           prevotes'[v] \in {prevotes[v], NoPrevote} /\ onchain'[v] = onchain[v]
    BY <1>3, Types
       DEF Retrying, Recovering, GivingUp, Offered, Kept, Forgotten, Numbered
  <2>6. \A v \in Validators : prevotes'[v] < nextId' /\ onchain'[v].id < nextId'
    BY <2>3, <2>5, Types DEF Numbered, NoPrevote
  <2>7. Submitting' => nextId' = msgs'.prevote + 1 /\ msgs'.vote < msgs'.prevote
    BY <1>3, <2>3, Types DEF Retrying, Recovering, GivingUp, Kept, Numbered, NoPrevote
  <2>8. Submitting' => \A v \in Validators : prevotes'[v] < msgs'.prevote
    <3>1. Submitting' => msgs'.prevote = msgs.prevote \/ msgs'.prevote = nextId
      BY <1>3 DEF Retrying, Recovering, GivingUp
    <3>2. msgs.prevote \in Nat /\ 0 < msgs.prevote
      BY <2>3, Types DEF TypeOK, Submitting, NoPrevote
    <3> QED
      BY <2>3, <2>5, <3>1, <3>2, Types DEF Numbered, NoPrevote
  <2> QED
    BY <2>4, <2>6, <2>7, <2>8 DEF Numbered
<1>4. CASE Storing
  BY <1>4, Types DEF Storing, Numbered, Transactions
<1>5. CASE VoterStill /\ \E t \in mempool : Commit(t) \/ Drop(t)
  <2>1. PICK t \in mempool : Commit(t) \/ Drop(t)
    BY <1>5
  <2>2. CASE Commit(t)
    <3>1. \A u \in Transactions' : u \in Transactions
      BY <2>2, TransactionsKept
    <3>2. t \in Transactions
      BY DEF Transactions
    <3>3. \A v \in Validators : onchain'[v].id \in {t.prevote, onchain[v].id}
      BY <2>2, Committing
    <3> QED
      BY <1>5, <3>1, <3>2, <3>3 DEF VoterStill, Kept, Numbered
  <2>3. CASE Drop(t)
    BY <1>5, <2>3 DEF Drop, VoterStill, Kept, Numbered, Transactions
  <2> QED
    BY <2>1, <2>2, <2>3
<1> QED
  BY <1>1, <1>2, <1>3, <1>4, <1>5, StepEffects

LEMMA SequencedStep ==
    ASSUME IInv, [Next]_vars
    PROVE  Sequenced'
<1> USE DEF IInv
<1>1. CASE Around \/ Resting \/ Beginning \/ Storing \/ Restarting
  <2>1. UNCHANGED <<log, mempool>> /\ (account' = account \/ account' = 0)
    BY <1>1 DEF Around, Resting, Beginning, Storing, Restarting
  <2> QED
    BY <2>1, Types DEF Sequenced, Sequence
<1>2. CASE Retrying \/ Recovering \/ GivingUp
  <2>1. \A t \in mempool' : t.seq = Sequence
    BY <1>2, OfferedPool DEF Retrying, Recovering, GivingUp, Sequenced
  <2>2. account' <= Sequence
    BY <1>2, Types DEF Retrying, Recovering, GivingUp, Sequenced, AccountSequences, Sequence
  <2>3. log' = log
    BY <1>2 DEF Retrying, Recovering, GivingUp, Offered
  <2> QED
    BY <2>1, <2>2, <2>3 DEF Sequenced, Sequence
<1>3. CASE VoterStill /\ \E t \in mempool : Commit(t) \/ Drop(t)
  <2>1. PICK t \in mempool : Commit(t) \/ Drop(t)
    BY <1>3
  <2>2. CASE Commit(t)
    <3>1. account <= Len(log) /\ account \in Nat /\ Len(log) \in Nat
      BY Types DEF Sequenced, Sequence
    <3>2. account' <= Sequence'
      BY <1>3, <2>2, <3>1, Committing DEF VoterStill, Sequence
    <3>3. \A i \in 1..Len(log) : log'[i].tx.seq + 1 = i
      BY <2>2, Committing DEF Sequenced
    <3>4. log'[Len(log) + 1].tx.seq + 1 = Len(log) + 1
      BY <2>2, Committing
    <3>5. \A i \in 1..Len(log') : log'[i].tx.seq + 1 = i
      BY <2>2, <3>1, <3>3, <3>4, Committing
    <3> QED
      BY <2>2, <3>2, <3>5, Committing DEF Sequenced
  <2>3. CASE Drop(t)
    BY <1>3, <2>3 DEF Drop, VoterStill, Sequenced, Sequence
  <2> QED
    BY <2>1, <2>2, <2>3
<1> QED
  BY <1>1, <1>2, <1>3, StepEffects

LEMMA OrderedStep ==
    ASSUME IInv, [Next]_vars
    PROVE  Ordered'
<1> USE DEF IInv
<1>1. CASE Around \/ Resting \/ Beginning \/ Storing \/ Restarting
  BY <1>1 DEF Around, Resting, Beginning, Storing, Restarting, Ordered
<1>2. CASE Retrying \/ Recovering \/ GivingUp
  <2>1. log' = log /\ onchain' = onchain /\ Submitting /\ Offered
    BY <1>2 DEF Retrying, Recovering, GivingUp, Offered
  <2>2. \A i \in 1..Len(log) : log[i].tx.prevote < msgs.prevote + 1
    BY <2>1 DEF Numbered, Transactions
  <2>3. \A t \in mempool' : \A i \in 1..Len(log) : log[i].tx.prevote <= t.prevote
    <3>1. \A t \in mempool' :
             t \in mempool \/ t.prevote = msgs.prevote
      BY <2>1, OfferedPool
    <3>2. \A i \in 1..Len(log) : log[i].tx.prevote <= msgs.prevote
      BY <2>2, Types
    <3> QED
      BY <3>1, <3>2 DEF Ordered
  <2> QED
    BY <2>1, <2>3 DEF Ordered
<1>3. CASE VoterStill /\ \E t \in mempool : Commit(t) \/ Drop(t)
  <2>1. PICK t \in mempool : Commit(t) \/ Drop(t)
    BY <1>3
  <2>2. CASE Commit(t)
    <3> DEFINE n == Len(log) + 1
    <3>1. \A v \in Validators : onchain[v].id <= onchain'[v].id
      <4> SUFFICES ASSUME NEW v \in Validators
                   PROVE  onchain[v].id <= onchain'[v].id
        OBVIOUS
      <4>1. onchain'[v].id = onchain[v].id \/ onchain'[v].id = t.prevote
        BY <2>2, Committing
      <4>2. onchain[v].id \in Nat /\ t.prevote \in Nat
        BY Types
      <4>3. onchain[v].id = 0 \/ onchain[v].id <= t.prevote
        BY DEF Ordered, NoPrevote
      <4> QED
        BY <4>1, <4>2, <4>3
    <3>2. \A i \in 1..Len(log') :
             log'[i].ok => log'[i].tx.prevote <= onchain'[log'[i].tx.val].id
      <4> SUFFICES ASSUME NEW i \in 1..Len(log'), log'[i].ok
                   PROVE  log'[i].tx.prevote <= onchain'[log'[i].tx.val].id
        OBVIOUS
      <4>1. CASE i = n
        BY <2>2, <4>1, Committing, Types
      <4>2. CASE i \in 1..Len(log)
        <5>1. log'[i] = log[i] /\ log[i].tx.val \in Validators
              /\ log[i].tx.prevote \in Nat
          <6>1. log'[i] = log[i]
            BY <2>2, <4>2, Committing
          <6>2. log[i].tx \in Tx
            BY <4>2, Types
          <6> QED
            BY <6>1, <6>2, Types
        <5>2. log[i].tx.prevote <= onchain[log[i].tx.val].id
          BY <4>2, <5>1 DEF Ordered
        <5>3. onchain'[log[i].tx.val].id \in Nat
          BY <2>2, <5>1, Committing, Types
        <5>4. log[i].tx.prevote <= onchain'[log[i].tx.val].id
          <6>1. onchain[log[i].tx.val].id \in Nat
            BY <5>1, Types
          <6>2. onchain[log[i].tx.val].id <= onchain'[log[i].tx.val].id
            BY <3>1, <5>1
          <6> QED
            BY <5>1, <5>2, <5>3, <6>1, <6>2
        <5> QED
          BY <5>1, <5>4
      <4> QED
        BY <2>2, <4>1, <4>2, Committing, Types
    <3>3. \A v \in Validators : onchain'[v].id # NoPrevote =>
             \E i \in 1..Len(log') : log'[i].ok /\ log'[i].tx.prevote = onchain'[v].id
      <4> SUFFICES ASSUME NEW v \in Validators, onchain'[v].id # NoPrevote
                   PROVE  \E i \in 1..Len(log') :
                             log'[i].ok /\ log'[i].tx.prevote = onchain'[v].id
        OBVIOUS
      <4>1. CASE log'[n].ok /\ v = t.val
        BY <2>2, <4>1, Committing, Types
      <4>2. CASE ~(log'[n].ok /\ v = t.val)
        <5>1. onchain'[v].id = onchain[v].id
          BY <2>2, <4>2, Committing
        <5>2. PICK i \in 1..Len(log) : log[i].ok /\ log[i].tx.prevote = onchain[v].id
          BY <5>1 DEF Ordered
        <5> QED
          BY <2>2, <5>1, <5>2, Committing, Types
      <4> QED
        BY <4>1, <4>2
    <3> QED
      BY <2>2, <3>2, <3>3, Committing DEF Ordered
  <2>3. CASE Drop(t)
    BY <2>3 DEF Drop, Ordered
  <2> QED
    BY <2>1, <2>2, <2>3
<1> QED
  BY <1>1, <1>2, <1>3, StepEffects

LEMMA DisjointStep ==
    ASSUME IInv, [Next]_vars
    PROVE  Disjoint'
<1> USE DEF IInv
<1>i. Submitting => Current \in Validators
  BY CurrentIsValidator DEF TypeOK, Submitting
<1>1. CASE Around
  BY <1>1 DEF Around, Kept, Disjoint, Current
<1>2. CASE Resting
  BY <1>2 DEF Resting, Kept, Disjoint
<1>3. CASE Restarting
  BY <1>3 DEF Restarting, Disjoint
<1>4. CASE Beginning
  <2>1. Current \in Validators /\ Current' = Current
    BY <1>4, CurrentIsValidator DEF Beginning, Current
  <2>2. msgs'.vote = prevotes[Current] /\ recovering' = FALSE /\ prevotes' = prevotes
        /\ onchain' = onchain /\ log' = log
    BY <1>4 DEF Beginning
  <2>3. ~(Submitting /\ Current = Current)
    BY <1>4 DEF Beginning
  <2>4. prevotes[Current] # NoPrevote =>
           \E i \in 1..Len(log) : log[i].ok /\ log[i].tx.prevote = prevotes[Current]
    BY <2>1, <2>3 DEF StoredPrevoteLanded, Ordered
  <2> QED
    BY <2>1, <2>2, <2>4 DEF Disjoint
<1>5. CASE Retrying
  BY <1>5 DEF Retrying, Offered, Kept, Disjoint, Current
<1>6. CASE Recovering
  <2>1. \A v \in Validators :
           prevotes'[v] = IF v = Current THEN NoPrevote ELSE prevotes[v]
    BY <1>6, Types DEF Recovering, Forgotten
  <2>2. Current' = Current /\ msgs'.vote = NoPrevote
    BY <1>6 DEF Recovering, Current
  <2> QED
    BY <1>i, <1>6, <2>1, <2>2 DEF Recovering, Disjoint
<1>7. CASE GivingUp
  <2>1. \A v \in Validators : prevotes'[v] \in {prevotes[v], NoPrevote}
    BY <1>7, Types DEF GivingUp, Forgotten
  <2>2. \A v \in Validators :
           prevotes'[v] = prevotes[v] \/ (v = Current /\ prevotes'[v] = NoPrevote)
    BY <1>7, Types DEF GivingUp, Forgotten
  <2> QED
    BY <1>7, <2>1, <2>2 DEF GivingUp, Disjoint
<1>8. CASE Storing
  <2>1. \A v \in Validators :
           prevotes'[v] = IF v = Current THEN msgs.prevote ELSE prevotes[v]
    BY <1>8, Types DEF Storing
  <2>2. \A v \in Validators : v # Current => prevotes[v] # msgs.prevote
    BY <1>8, Types DEF Storing, Numbered
  <2> QED
    BY <1>8, <2>1, <2>2 DEF Storing, Disjoint
<1>9. CASE VoterStill /\ \E t \in mempool : Commit(t) \/ Drop(t)
  <2>1. PICK t \in mempool : Commit(t) \/ Drop(t)
    BY <1>9
  <2>2. \A id : (\E i \in 1..Len(log) : log[i].ok /\ log[i].tx.prevote = id)
              => \E i \in 1..Len(log') : log'[i].ok /\ log'[i].tx.prevote = id
    <3>1. CASE Commit(t)
      <4>1. Len(log) \in Nat /\ Len(log') = Len(log) + 1
        BY <3>1, Committing, Types
      <4>2. \A i \in 1..Len(log) : i \in 1..Len(log') /\ log'[i] = log[i]
        BY <3>1, <4>1, Committing
      <4> QED
        BY <4>2
    <3>2. CASE Drop(t)
      BY <3>2 DEF Drop
    <3> QED
      BY <2>1, <3>1, <3>2
  <2> QED
    BY <1>9, <2>2 DEF VoterStill, Kept, Disjoint, Current
<1> QED
  BY <1>1, <1>2, <1>3, <1>4, <1>5, <1>6, <1>7, <1>8, <1>9, StepEffects

\* A confirmed transaction is what the chain holds, and nothing pending can
\* replace it.
LEMMA ConfirmedIsNewest ==
    ASSUME IInv, Submitting, Landed(Signed, TRUE)
    PROVE  /\ onchain[Current].id = msgs.prevote
           /\ \A t \in mempool : t.prevote = msgs.prevote
<1> USE DEF IInv
<1>1. PICK i \in 1..Len(log) : log[i].tx = Signed /\ log[i].ok
  BY DEF Landed
<1>2. Current \in Validators
  BY CurrentIsValidator DEF TypeOK, Submitting
<1>3. Signed.val = Current /\ Signed.prevote = msgs.prevote
  BY DEF Signed
<1>4. msgs.prevote \in Nat /\ nextId = msgs.prevote + 1
  BY Types DEF Numbered
<1>5. onchain[Current].id = msgs.prevote
  <2>1. msgs.prevote <= onchain[Current].id
    BY <1>1, <1>3 DEF Ordered
  <2>2. onchain[Current].id < nextId /\ onchain[Current].id \in Nat
    BY <1>2, Types DEF Numbered
  <2> QED
    BY <1>4, <2>1, <2>2
<1>6. \A t \in mempool : t.prevote = msgs.prevote
  <2> SUFFICES ASSUME NEW t \in mempool PROVE t.prevote = msgs.prevote
    OBVIOUS
  <2>1. msgs.prevote <= t.prevote
    BY <1>1, <1>3 DEF Ordered
  <2>2. t.prevote < nextId /\ t.prevote \in Nat
    BY Types DEF Numbered, Transactions
  <2> QED
    BY <1>4, <2>1, <2>2
<1> QED
  BY <1>5, <1>6

LEMMA StoredStep ==
    ASSUME IInv, [Next]_vars
    PROVE  StoredPrevoteLanded'
<1> USE DEF IInv
<1>i. Submitting => Current \in Validators
  BY CurrentIsValidator DEF TypeOK, Submitting
<1>1. CASE Around
  BY <1>1 DEF Around, Kept, StoredPrevoteLanded, Current
<1>2. CASE Resting
  BY <1>2 DEF Resting, Kept, StoredPrevoteLanded
<1>3. CASE Restarting
  BY <1>3 DEF Restarting, StoredPrevoteLanded
<1>4. CASE Beginning
  BY <1>4 DEF Beginning, StoredPrevoteLanded
<1>5. CASE Retrying \/ Recovering \/ GivingUp
  <2>1. Submitting /\ Offered
    BY <1>5 DEF Retrying, Recovering, GivingUp
  <2>2. \A t \in mempool' : t \in mempool \/ t.val = Current
    BY <2>1, OfferedPool
  <2>3. \A v \in Validators : v # Current => prevotes'[v] = prevotes[v]
    BY <1>5, Types DEF Retrying, Recovering, GivingUp, Kept, Forgotten
  <2>4. \A v \in Validators :
           v # Current /\ prevotes[v] # NoPrevote =>
              /\ onchain'[v].id = prevotes[v]
              /\ \A t \in mempool' : t.val = v => t.prevote = prevotes[v]
    BY <2>1, <2>2 DEF Offered, StoredPrevoteLanded
  <2>5. CASE Retrying \/ Recovering
    <3>1. Submitting' /\ Current' = Current
      BY <2>5 DEF Retrying, Recovering, Current
    <3> QED
      BY <2>3, <2>4, <3>1 DEF StoredPrevoteLanded
  <2>6. CASE GivingUp
    <3>1. prevotes'[Current] = NoPrevote
      BY <1>i, <2>6, Types DEF GivingUp, Forgotten, Disjoint
    <3> QED
      BY <2>3, <2>4, <3>1 DEF StoredPrevoteLanded
  <2> QED
    BY <1>5, <2>5, <2>6
<1>6. CASE Storing
  <2>1. /\ onchain[Current].id = msgs.prevote
        /\ \A t \in mempool : t.prevote = msgs.prevote
    BY <1>6, ConfirmedIsNewest DEF Storing
  <2>2. \A v \in Validators :
           prevotes'[v] = IF v = Current THEN msgs.prevote ELSE prevotes[v]
    BY <1>6, Types DEF Storing
  <2> QED
    BY <1>6, <2>1, <2>2 DEF Storing, StoredPrevoteLanded
<1>7. CASE VoterStill /\ \E t \in mempool : Commit(t) \/ Drop(t)
  <2>1. PICK t \in mempool : Commit(t) \/ Drop(t)
    BY <1>7
  <2>2. prevotes' = prevotes /\ Current' = Current /\ Submitting' = Submitting
    BY <1>7 DEF VoterStill, Kept, Current
  <2>3. CASE Commit(t)
    <3>1. mempool' = {}
      BY <2>3, Committing
    <3>2. \A v \in Validators : v = t.val \/ onchain'[v].id = onchain[v].id
      BY <2>3, Committing
    <3>3. \A v \in Validators :
             onchain'[v].id = t.prevote \/ onchain'[v].id = onchain[v].id
      BY <2>3, Committing
    <3> QED
      BY <2>2, <3>1, <3>2, <3>3 DEF StoredPrevoteLanded
  <2>4. CASE Drop(t)
    BY <2>2, <2>4 DEF Drop, StoredPrevoteLanded
  <2> QED
    BY <2>1, <2>3, <2>4
<1> QED
  BY <1>1, <1>2, <1>3, <1>4, <1>5, <1>6, <1>7, StepEffects

LEMMA RevealedStep ==
    ASSUME IInv, [Next]_vars
    PROVE  RevealedNotStored'
<1> USE DEF IInv
<1>i. Submitting => Current \in Validators
  BY CurrentIsValidator DEF TypeOK, Submitting
<1>1. CASE Around
  BY <1>1 DEF Around, Kept, RevealedNotStored, Current, Transactions
<1>2. CASE Resting
  BY <1>2 DEF Resting, Kept, RevealedNotStored, Transactions
<1>3. CASE Restarting
  BY <1>3 DEF Restarting, RevealedNotStored
<1>4. CASE Beginning
  BY <1>4 DEF Beginning, RevealedNotStored, Transactions
<1>5. CASE Retrying \/ Recovering \/ GivingUp
  <2>1. Submitting /\ Offered
    BY <1>5 DEF Retrying, Recovering, GivingUp
  <2>2. \A t \in Transactions' : t \in Transactions \/ t.vote = msgs.vote
    BY <2>1, OfferedPool DEF Transactions, Offered
  <2>3. \A v \in Validators : v # Current => prevotes'[v] = prevotes[v]
    BY <1>5, Types DEF Retrying, Recovering, GivingUp, Kept, Forgotten
  <2>4. \A v \in Validators :
           v # Current /\ prevotes[v] # NoPrevote =>
              \A t \in Transactions' : t.vote # prevotes[v]
    BY <2>1, <2>2 DEF RevealedNotStored, Disjoint
  <2>5. CASE Retrying \/ Recovering
    <3>1. Submitting' /\ Current' = Current
      BY <2>5 DEF Retrying, Recovering, Current
    <3> QED
      BY <2>3, <2>4, <3>1 DEF RevealedNotStored
  <2>6. CASE GivingUp
    <3>1. prevotes'[Current] = NoPrevote
      BY <1>i, <2>6, Types DEF GivingUp, Forgotten, Disjoint
    <3> QED
      BY <2>3, <2>4, <3>1 DEF RevealedNotStored
  <2> QED
    BY <1>5, <2>5, <2>6
<1>6. CASE Storing
  <2>1. \A v \in Validators :
           prevotes'[v] = IF v = Current THEN msgs.prevote ELSE prevotes[v]
    BY <1>6, Types DEF Storing
  <2>2. \A t \in Transactions : t.vote < msgs.prevote
    <3> SUFFICES ASSUME NEW t \in Transactions PROVE t.vote < msgs.prevote
      OBVIOUS
    <3>1. t \in Tx
      BY Types, TransactionCases
    <3>2. t.vote \in Nat /\ t.prevote \in Nat /\ msgs.prevote \in Nat
      BY <3>1, Types
    <3>3. t.prevote < msgs.prevote + 1 /\ t.vote < t.prevote
      BY <1>6 DEF Storing, Numbered
    <3> QED
      BY <3>2, <3>3
  <2>3. \A t \in Transactions : t.vote # msgs.prevote
    BY <2>2, Types
  <2> QED
    BY <1>6, <2>1, <2>3 DEF Storing, RevealedNotStored, Transactions
<1>7. CASE VoterStill /\ \E t \in mempool : Commit(t) \/ Drop(t)
  <2>1. PICK t \in mempool : Commit(t) \/ Drop(t)
    BY <1>7
  <2>2. prevotes' = prevotes /\ Current' = Current /\ Submitting' = Submitting
    BY <1>7 DEF VoterStill, Kept, Current
  <2>3. \A u \in Transactions' : u \in Transactions
    BY <2>1, TransactionsKept
  <2> QED
    BY <2>2, <2>3 DEF RevealedNotStored
<1> QED
  BY <1>1, <1>2, <1>3, <1>4, <1>5, <1>6, <1>7, StepEffects

LEMMA EarlyStep ==
    ASSUME IInv, [Next]_vars
    PROVE  NoEarlyReveal'
<1> USE DEF IInv
<1>1. CASE Around \/ Resting \/ Beginning \/ Storing \/ Restarting
  BY <1>1 DEF Around, Resting, Beginning, Storing, Restarting, NoEarlyReveal, Transactions
<1>2. CASE Retrying \/ Recovering \/ GivingUp
  <2>1. Submitting /\ Offered /\ log' = log
    BY <1>2 DEF Retrying, Recovering, GivingUp, Offered
  <2>2. \A t \in Transactions' :
           t \in Transactions \/ (t.vote = msgs.vote /\ t.seq = Len(log))
    BY <2>1, OfferedPool DEF Transactions, Offered, Sequence
  <2>3. \A i \in 1..Len(log) : log[i].tx.seq < Len(log)
    <3> SUFFICES ASSUME NEW i \in 1..Len(log) PROVE log[i].tx.seq < Len(log)
      OBVIOUS
    <3>1. log[i].tx.seq + 1 = i /\ log[i].tx.seq \in Nat
      BY Types DEF Sequenced
    <3> QED
      BY <3>1, Types
  <2>4. msgs.vote # NoPrevote =>
           \E i \in 1..Len(log) : log[i].ok /\ log[i].tx.prevote = msgs.vote
    BY <2>1 DEF Disjoint
  <2> QED
    BY <2>1, <2>2, <2>3, <2>4 DEF NoEarlyReveal
<1>3. CASE VoterStill /\ \E t \in mempool : Commit(t) \/ Drop(t)
  <2>1. PICK t \in mempool : Commit(t) \/ Drop(t)
    BY <1>3
  <2>2. \A u \in Transactions' : u \in Transactions
    BY <2>1, TransactionsKept
  <2>3. \A i \in 1..Len(log) : i \in 1..Len(log') /\ log'[i] = log[i]
    <3>1. CASE Commit(t)
      <4>1. Len(log) \in Nat /\ Len(log') = Len(log) + 1
        BY <3>1, Committing, Types
      <4> QED
        BY <3>1, <4>1, Committing
    <3>2. CASE Drop(t)
      BY <3>2 DEF Drop
    <3> QED
      BY <2>1, <3>1, <3>2
  <2> QED
    BY <2>2, <2>3 DEF NoEarlyReveal
<1> QED
  BY <1>1, <1>2, <1>3, StepEffects

LEMMA InvInit == Init => IInv
<1> SUFFICES ASSUME Init PROVE IInv
  OBVIOUS
<1>1. TypeOK
  BY TypeInit
<1>2. /\ log = <<>> /\ mempool = {} /\ nextId = 1 /\ account = 0
      /\ prevotes = [v \in Validators |-> NoPrevote]
      /\ onchain = [v \in Validators |-> [id |-> NoPrevote, period |-> 0]]
      /\ ~Submitting
  BY DEF Init, ChainInit, VoterInit, Submitting
<1>3. Len(log) = 0 /\ Transactions = {}
  BY <1>2 DEF Transactions
<1> QED
  BY <1>1, <1>2, <1>3
     DEF IInv, Numbered, Sequenced, Ordered, Disjoint, StoredPrevoteLanded,
         RevealedNotStored, NoEarlyReveal, Sequence, NoPrevote

LEMMA InvStep == IInv /\ [Next]_vars => IInv'
BY TypeStep, NumberedStep, SequencedStep, OrderedStep, DisjointStep, StoredStep,
   RevealedStep, EarlyStep DEF IInv

LEMMA Inductive == Spec => []IInv
BY InvInit, InvStep, PTL DEF Spec

-----------------------------------------------------------------------------
(* The theorems *)

\* Whatever is lost, retried or committed late: a prevote the voter has stored
\* is the one the chain holds, and nothing pending can replace it.
THEOREM StoredPrevotesLand == Spec => []StoredPrevoteLanded
<1>1. IInv => StoredPrevoteLanded
  BY DEF IInv
<1> QED
  BY <1>1, Inductive, PTL

\* No prevote that some transaction has revealed is kept for another reveal.
THEOREM RevealsOnce == Spec => []RevealedNotStored
<1>1. IInv => RevealedNotStored
  BY DEF IInv
<1> QED
  BY <1>1, Inductive, PTL

\* Every vote ever sent reveals a prevote that the chain held before.
THEOREM RevealsAfterCommitment == Spec => []NoEarlyReveal
<1>1. IInv => NoEarlyReveal
  BY DEF IInv
<1> QED
  BY <1>1, Inductive, PTL

\* The prevote a validator has on the chain is only ever replaced by a later one.
THEOREM NewestWins == Spec => NewestPrevoteWins
<1>1. IInv /\ [Next]_vars => [\A v \in Validators : onchain'[v].id >= onchain[v].id]_vars
  <2> SUFFICES ASSUME IInv, [Next]_vars, NEW v \in Validators
               PROVE  onchain'[v].id >= onchain[v].id
    OBVIOUS
  <2>1. onchain[v].id \in Nat
    BY Types DEF IInv
  <2>2. CASE \E t \in mempool : Commit(t)
    <3>1. PICK t \in mempool : Commit(t)
      BY <2>2
    <3>2. onchain'[v].id = onchain[v].id \/ onchain'[v].id = t.prevote
      BY <3>1, Committing
    <3>3. onchain[v].id = 0 \/ onchain[v].id <= t.prevote
      BY DEF IInv, Ordered, NoPrevote
    <3>4. t.prevote \in Nat
      BY Types DEF IInv
    <3> QED
      BY <2>1, <3>2, <3>3, <3>4
  <2>3. CASE ~\E t \in mempool : Commit(t)
    <3>1. onchain' = onchain
      BY <2>3, StepEffects
         DEF Around, Resting, Beginning, Retrying, Recovering, GivingUp, Storing,
             Restarting, Offered, Drop
    <3> QED
      BY <2>1, <3>1
  <2> QED
    BY <2>2, <2>3
<1> QED
  BY <1>1, Inductive, PTL DEF Spec, NewestPrevoteWins

-----------------------------------------------------------------------------
(* Whose prevotes are revealed, and how often it counts *)

\* Some transaction of a log made this prevote of this validator.
HeldIn(l, v, id) ==
    \E i \in 1..Len(l) : l[i].ok /\ l[i].tx.prevote = id /\ l[i].tx.val = v

HeldBy(v, id) == HeldIn(log, v, id)

\* Every vote sent, whichever of the validators on the account it is for and however
\* often it is sent, reveals a prevote of that same validator.
RevealsOwnPrevote ==
    \A t \in Transactions : t.vote # NoPrevote => HeldBy(t.val, t.vote)

\* A vote counts once, also one that is sent again with a new sequence because its
\* answer was lost.
VoteCountsOnce ==
    \A i, j \in 1..Len(log) :
        i # j /\ log[i].ok /\ log[j].ok /\ log[i].tx.vote # NoPrevote
            => log[i].tx.vote # log[j].tx.vote

\* A prevote belongs to one validator, the one for which it is in progress, held by
\* the chain and revealed.
Owned ==
    /\ \A s, t \in Transactions : s.prevote = t.prevote => s.val = t.val
    /\ \A v \in Validators : onchain[v].id # NoPrevote => HeldBy(v, onchain[v].id)
    /\ Submitting =>
          /\ \A t \in Transactions : t.prevote = msgs.prevote => t.val = Current
          /\ msgs.vote # NoPrevote => HeldBy(Current, msgs.vote)
    /\ RevealsOwnPrevote

\* What is committed stays so.
LEMMA HeldStays ==
    ASSUME IInv, [Next]_vars, NEW v, NEW id, HeldBy(v, id)
    PROVE  HeldIn(log', v, id)
<1>1. \A i \in 1..Len(log) : i \in 1..Len(log') /\ log'[i] = log[i]
  <2>1. CASE log' = log
    BY <2>1
  <2>2. CASE \E t \in mempool : Commit(t)
    <3>1. /\ Len(log) \in Nat /\ Len(log') = Len(log) + 1
          /\ \A i \in 1..Len(log) : log'[i] = log[i]
      BY <2>2, Committing, Types DEF IInv
    <3> QED
      BY <3>1
  <2> QED
    BY <2>1, <2>2, StepEffects
       DEF Around, Resting, Beginning, Retrying, Recovering, GivingUp, Storing,
           Restarting, Offered, Drop
<1> QED
  BY <1>1 DEF HeldBy, HeldIn

\* The only new transaction is the one in progress.
LEMMA NewTransactions ==
    ASSUME IInv, [Next]_vars, NEW t \in Transactions', t \notin Transactions
    PROVE  /\ Submitting /\ t.val = Current
           /\ t.vote = msgs.vote /\ t.prevote = msgs.prevote
           /\ Retrying \/ Recovering \/ GivingUp
<1>1. CASE Around \/ Resting \/ Beginning \/ Storing \/ Restarting
  BY <1>1 DEF Around, Resting, Beginning, Storing, Restarting, Transactions
<1>2. CASE Retrying \/ Recovering \/ GivingUp
  <2>1. Submitting /\ Offered /\ log' = log
    BY <1>2 DEF Retrying, Recovering, GivingUp, Offered
  <2> QED
    BY <1>2, <2>1, OfferedPool DEF Transactions
<1>3. CASE VoterStill /\ \E u \in mempool : Commit(u) \/ Drop(u)
  BY <1>3, TransactionsKept
<1> QED
  BY <1>1, <1>2, <1>3, StepEffects

LEMMA OwnedStep ==
    ASSUME IInv, Owned, [Next]_vars
    PROVE  Owned'
<1>1. ASSUME NEW s \in Transactions', NEW t \in Transactions', s.prevote = t.prevote
      PROVE  s.val = t.val
  BY <1>1, NewTransactions DEF Owned
<1>2. ASSUME NEW v \in Validators, onchain'[v].id # NoPrevote
      PROVE  HeldIn(log', v, onchain'[v].id)
  <2>1. CASE onchain'[v].id = onchain[v].id
    <3>1. HeldBy(v, onchain[v].id)
      BY <1>2, <2>1 DEF Owned
    <3> QED
      BY <2>1, <3>1, HeldStays
  <2>2. CASE onchain'[v].id # onchain[v].id
    <3>1. PICK t \in mempool : Commit(t)
      BY <2>2, StepEffects
         DEF Around, Resting, Beginning, Retrying, Recovering, GivingUp, Storing,
             Restarting, Offered, Drop
    <3> DEFINE n == Len(log) + 1
    <3>2. /\ n \in 1..Len(log') /\ log'[n].ok /\ log'[n].tx = t
          /\ v = t.val /\ onchain'[v].id = t.prevote
      BY <2>2, <3>1, Committing, Types DEF IInv
    <3> QED
      BY <3>2 DEF HeldIn
  <2> QED
    BY <2>1, <2>2
<1>3. ASSUME Submitting'
      PROVE  /\ \A t \in Transactions' : t.prevote = msgs'.prevote => t.val = Current'
             /\ msgs'.vote # NoPrevote => HeldIn(log', Current', msgs'.vote)
  <2>1. CASE Around \/ Retrying \/ VoterStill
    <3>1. Submitting /\ msgs' = msgs /\ Current' = Current
      BY <1>3, <2>1 DEF Around, Retrying, VoterStill, Current
    <3>2. \A t \in Transactions' : t.prevote = msgs'.prevote => t.val = Current'
      BY <3>1, NewTransactions DEF Owned
    <3>3. msgs.vote # NoPrevote => HeldIn(log', Current, msgs.vote)
      BY <3>1, HeldStays DEF Owned
    <3> QED
      BY <3>1, <3>2, <3>3
  <2>2. CASE Beginning \/ Recovering
    <3>1. msgs'.prevote = nextId /\ Current' = Current
      BY <2>2 DEF Beginning, Recovering, Current
    <3>2. nextId \in Nat /\ \A t \in Transactions : t.prevote \in Nat /\ t.prevote < nextId
      <4>1. \A t \in Transactions : t \in Tx
        BY Types, TransactionCases DEF IInv
      <4> QED
        BY <4>1, Types DEF IInv, Numbered
    <3>3. \A t \in Transactions' : t.prevote # nextId
      <4> SUFFICES ASSUME NEW t \in Transactions', t.prevote = nextId PROVE FALSE
        OBVIOUS
      <4>1. t \notin Transactions
        BY <3>2
      <4>2. Submitting /\ t.prevote = msgs.prevote
        BY <4>1, NewTransactions
      <4>3. nextId = msgs.prevote + 1 /\ msgs.prevote \in Nat
        BY <4>2, Types DEF IInv, Numbered
      <4>4. nextId # msgs.prevote
        BY <4>3
      <4> QED
        BY <4>2, <4>4
    <3>4. CASE Recovering
      BY <3>1, <3>3, <3>4 DEF Recovering
    <3>5. CASE Beginning
      <4>1. msgs'.vote = prevotes[Current] /\ ~Submitting /\ Current \in Validators
        BY <3>5, CurrentIsValidator DEF Beginning, IInv
      <4>2. prevotes[Current] # NoPrevote => HeldBy(Current, prevotes[Current])
        BY <4>1 DEF IInv, StoredPrevoteLanded, Owned
      <4>3. prevotes[Current] # NoPrevote => HeldIn(log', Current, prevotes[Current])
        BY <4>2, HeldStays
      <4> QED
        BY <3>1, <3>3, <4>1, <4>3
    <3> QED
      BY <2>2, <3>4, <3>5
  <2> QED
    BY <1>3, <2>1, <2>2, StepEffects DEF Resting, GivingUp, Storing, Restarting
<1>4. ASSUME NEW t \in Transactions', t.vote # NoPrevote
      PROVE  HeldIn(log', t.val, t.vote)
  <2>1. HeldBy(t.val, t.vote)
    BY <1>4, NewTransactions DEF Owned, RevealsOwnPrevote
  <2> QED
    BY <2>1, HeldStays
<1> QED
  BY <1>1, <1>2, <1>3, <1>4 DEF Owned, RevealsOwnPrevote, HeldBy

LEMMA OwnedInit == Init => Owned
<1> SUFFICES ASSUME Init PROVE Owned
  OBVIOUS
<1>1. /\ log = <<>> /\ mempool = {}
      /\ onchain = [v \in Validators |-> [id |-> NoPrevote, period |-> 0]]
      /\ ~Submitting
  BY DEF Init, ChainInit, VoterInit, Submitting
<1>2. Transactions = {}
  BY <1>1 DEF Transactions
<1> QED
  BY <1>1, <1>2 DEF Owned, RevealsOwnPrevote

\* A vote that is accepted reveals what no accepted vote has revealed: the chain holds
\* the newest prevote of the validator, and an accepted vote leaves a newer one.
LEMMA AcceptedIsNew ==
    ASSUME IInv, Owned, NEW t \in mempool, Commit(t), log'[Len(log) + 1].ok,
           t.vote # NoPrevote, NEW i \in 1..Len(log), log[i].ok, log[i].tx.vote = t.vote
    PROVE  FALSE
<1> DEFINE x == log[i].tx
<1>1. onchain[t.val].id = t.vote
  <2>1. PICK ok \in BOOLEAN :
              /\ ok => RevealAccepted(t)
              /\ log' = Append(log, [tx |-> t, ok |-> ok, period |-> period])
    BY DEF Commit
  <2>2. log \in Seq(Committed)
    BY DEF IInv, TypeOK, ChainTypeOK
  <2>3. log'[Len(log) + 1] = [tx |-> t, ok |-> ok, period |-> period]
    BY <2>1, <2>2, AppendProperties
  <2> QED
    BY <2>1, <2>3 DEF RevealAccepted
<1>2. x \in Transactions /\ x \in Tx /\ t \in Tx
  BY Types, TransactionCases DEF IInv
<1>3. x.val \in Validators /\ t.val \in Validators /\ x.vote \in Nat /\ x.prevote \in Nat
  BY <1>2, Types DEF IInv
<1>4. HeldBy(t.val, t.vote) /\ HeldBy(x.val, t.vote)
  BY <1>1, <1>2, <1>3 DEF Owned, RevealsOwnPrevote
<1>5. x.val = t.val
  BY <1>4 DEF HeldBy, HeldIn, Owned, Transactions
<1>6. x.prevote <= onchain[x.val].id /\ x.vote < x.prevote
  BY <1>2 DEF IInv, Ordered, Numbered
<1> QED
  BY <1>1, <1>3, <1>5, <1>6

LEMMA CountsOnceStep ==
    ASSUME IInv, Owned, VoteCountsOnce, [Next]_vars
    PROVE  VoteCountsOnce'
<1>1. CASE log' = log
  BY <1>1 DEF VoteCountsOnce
<1>2. CASE \E t \in mempool : Commit(t)
  <2>1. PICK t \in mempool : Commit(t)
    BY <1>2
  <2> DEFINE n == Len(log) + 1
  <2>2. /\ Len(log) \in Nat /\ Len(log') = n /\ log'[n].tx = t
        /\ \A i \in 1..Len(log) : log'[i] = log[i]
    BY <2>1, Committing, Types DEF IInv
  <2>3. \A i \in 1..Len(log') : i = n \/ i \in 1..Len(log)
    BY <2>2
  <2>4. ASSUME NEW i \in 1..Len(log'), NEW j \in 1..Len(log'), i # j,
               log'[i].ok, log'[j].ok, log'[i].tx.vote # NoPrevote,
               log'[i].tx.vote = log'[j].tx.vote
        PROVE  FALSE
    <3>1. CASE i = n
      <4>1. j \in 1..Len(log) /\ log'[j] = log[j]
        BY <2>2, <2>3, <2>4, <3>1
      <4> QED
        BY <2>1, <2>2, <2>4, <3>1, <4>1, AcceptedIsNew
    <3>2. CASE j = n
      <4>1. i \in 1..Len(log) /\ log'[i] = log[i]
        BY <2>2, <2>3, <2>4, <3>2
      <4> QED
        BY <2>1, <2>2, <2>4, <3>2, <4>1, AcceptedIsNew
    <3>3. CASE i \in 1..Len(log) /\ j \in 1..Len(log)
      BY <2>2, <2>4, <3>3 DEF VoteCountsOnce
    <3> QED
      BY <2>3, <3>1, <3>2, <3>3
  <2> QED
    BY <2>4 DEF VoteCountsOnce
<1> QED
  BY <1>1, <1>2, StepEffects
     DEF Around, Resting, Beginning, Retrying, Recovering, GivingUp, Storing,
         Restarting, Offered, Drop

\* Validators that share the account, a memory and a loop never reveal each other's
\* prevotes.
THEOREM RevealsOwn == Spec => []RevealsOwnPrevote
<1>1. IInv /\ Owned /\ [Next]_vars => Owned'
  BY OwnedStep
<1>2. Owned => RevealsOwnPrevote
  BY DEF Owned
<1> QED
  BY <1>1, <1>2, OwnedInit, Inductive, PTL DEF Spec

\* However often a vote is sent, it is accepted at most once.
THEOREM CountsOnce == Spec => []VoteCountsOnce
<1>1. IInv /\ Owned /\ [Next]_vars => Owned'
  BY OwnedStep
<1>2. IInv /\ Owned /\ VoteCountsOnce /\ [Next]_vars => VoteCountsOnce'
  BY CountsOnceStep
<1>3. Init => VoteCountsOnce
  <2> SUFFICES ASSUME Init PROVE VoteCountsOnce
    OBVIOUS
  <2>1. Len(log) = 0
    BY DEF Init, ChainInit
  <2> QED
    BY <2>1 DEF VoteCountsOnce
<1> QED
  BY <1>1, <1>2, <1>3, OwnedInit, Inductive, PTL DEF Spec

-----------------------------------------------------------------------------
(* Voter implements PrevoteLife: every step of the voter and of the chain,  *)
(* seen through the refinement mapping of Voter.Life, is a step of          *)
(* PrevoteLife or changes nothing there.                                    *)

\* The chain as PrevoteLife sees it.
Held == [v \in Validators |-> onchain[v].id]

\* PrevoteLife's variables are Held and Remembered.
LEMMA LifeVars == Life!vars = <<Held, Remembered>>
BY DEF Life!vars, Held

-----------------------------------------------------------------------------
(* When a step is one of PrevoteLife *)

\* Nothing visible happens.
LEMMA Unseen ==
    ASSUME UNCHANGED onchain, Remembered' = Remembered
    PROVE  [Life!Next]_(Life!vars)
BY LifeVars DEF Held, Life!vars

\* The voter forgets the prevote of one validator.
LEMMA Forgetting ==
    ASSUME UNCHANGED onchain, NEW v \in Validators,
           Remembered' = [Remembered EXCEPT ![v] = NoPrevote]
    PROVE  [Life!Next]_(Life!vars)
<1>1. Life!Forget(v)
  BY DEF Life!Forget, Life!None, NoPrevote
<1> QED
  BY <1>1 DEF Life!Next

\* The voter comes to remember what the chain holds.
LEMMA Learning ==
    ASSUME UNCHANGED onchain, NEW v \in Validators, onchain[v].id # NoPrevote,
           Remembered' = [Remembered EXCEPT ![v] = onchain[v].id]
    PROVE  [Life!Next]_(Life!vars)
<1>1. Life!Learn(v)
  BY DEF Life!Learn, Life!None, NoPrevote
<1> QED
  BY <1>1 DEF Life!Next

\* The chain moves on to a newer prevote of a validator nothing is remembered of.
LEMMA Landing ==
    ASSUME NEW v \in Validators, Remembered[v] = NoPrevote,
           Remembered' = Remembered, NEW id \in Nat, id > onchain[v].id,
           \A w \in Validators :
              onchain'[w].id = IF w = v THEN id ELSE onchain[w].id
    PROVE  [Life!Next]_(Life!vars)
<1>1. Held' = [Held EXCEPT ![v] = id] /\ Held'[v] = id /\ Held[v] = onchain[v].id
  BY DEF Held
<1>2. Life!Land(v)
  BY <1>1 DEF Life!Land, Life!None, NoPrevote, Held
<1> QED
  BY <1>2 DEF Life!Next

-----------------------------------------------------------------------------
(* The effects of a step, seen from PrevoteLife *)

\* Between submissions, and while one starts, the voter only forgets.
LEMMA BeginningIsLife ==
    ASSUME IInv, Beginning
    PROVE  [Life!Next]_(Life!vars)
<1>1. Current \in Validators
  BY CurrentIsValidator DEF IInv, Beginning
<1>2. Current' = Current
  BY DEF Beginning, Current
<1>3. Remembered' = [Remembered EXCEPT ![Current] = NoPrevote]
  BY <1>1, <1>2 DEF Beginning, Remembered
<1> QED
  BY <1>1, <1>3, Forgetting DEF Beginning

\* A submission that goes on, with the same transaction or the recovery, keeps
\* its validator forgotten.
LEMMA SubmittingIsLife ==
    ASSUME IInv, Retrying \/ Recovering
    PROVE  [Life!Next]_(Life!vars)
<1>1. Submitting /\ Submitting' /\ Current' = Current /\ onchain' = onchain
  BY DEF Retrying, Recovering, Offered, Current
<1>2. \A v \in Validators : v # Current => prevotes'[v] = prevotes[v]
  BY Types DEF IInv, Retrying, Recovering, Kept, Forgotten
<1>3. Remembered' = Remembered
  BY <1>1, <1>2 DEF Remembered
<1> QED
  BY <1>1, <1>3, Unseen

\* A submission that fails leaves its validator forgotten.
LEMMA GivingUpIsLife ==
    ASSUME IInv, GivingUp
    PROVE  [Life!Next]_(Life!vars)
<1>1. Submitting /\ ~Submitting' /\ onchain' = onchain
  BY DEF GivingUp, Offered
<1>2. Current \in Validators
  BY <1>1, CurrentIsValidator DEF IInv, TypeOK, Submitting
<1>3. prevotes'[Current] = NoPrevote
  BY <1>1, <1>2, Types DEF GivingUp, Forgotten, IInv, Disjoint
<1>4. \A v \in Validators : v # Current => prevotes'[v] = prevotes[v]
  BY Types DEF IInv, GivingUp, Forgotten
<1>5. Remembered' = Remembered
  BY <1>1, <1>3, <1>4 DEF Remembered
<1> QED
  BY <1>1, <1>5, Unseen

\* A confirmed transaction's prevote is the one on the chain: it is the newest
\* of all prevotes, and nothing newer than the committed one is there.
LEMMA StoringIsLife ==
    ASSUME IInv, Storing
    PROVE  [Life!Next]_(Life!vars)
<1>1. Submitting /\ ~Submitting' /\ onchain' = onchain
  BY DEF Storing
<1>2. Current \in Validators
  BY <1>1, CurrentIsValidator DEF IInv, TypeOK, Submitting
<1>3. PICK i \in 1..Len(log) : log[i].tx = Signed /\ log[i].ok = TRUE
  BY DEF Storing, Landed
<1>4. msgs.prevote <= onchain[Current].id
  <2>1. log[i].tx.prevote <= onchain[log[i].tx.val].id
    BY <1>3 DEF IInv, Ordered
  <2> QED
    BY <1>3, <2>1 DEF Signed
<1>5. onchain[Current].id < nextId /\ nextId = msgs.prevote + 1
  BY <1>1, <1>2 DEF IInv, Numbered
<1>6. msgs.prevote \in Nat /\ onchain[Current].id \in Nat
  BY <1>2, Types DEF IInv
<1>7. onchain[Current].id = msgs.prevote
  BY <1>4, <1>5, <1>6
<1>8. msgs.prevote # NoPrevote
  BY <1>1 DEF IInv, TypeOK, Submitting
<1>9. /\ prevotes'[Current] = msgs.prevote
      /\ \A v \in Validators : v # Current => prevotes'[v] = prevotes[v]
  BY <1>2, Types DEF IInv, Storing
<1>10. Remembered' = [Remembered EXCEPT ![Current] = onchain[Current].id]
  BY <1>1, <1>2, <1>7, <1>9 DEF Remembered
<1> QED
  BY <1>1, <1>2, <1>7, <1>8, <1>10, Learning

\* A restart forgets everything.
LEMMA RestartingIsLife ==
    ASSUME Restarting
    PROVE  [Life!Next]_(Life!vars)
<1>1. Remembered' = [v \in Validators |-> NoPrevote] /\ onchain' = onchain
  BY DEF Restarting, Remembered
<1>2. Life!ForgetAll
  BY <1>1 DEF Life!ForgetAll, Life!None, NoPrevote
<1> QED
  BY <1>2 DEF Life!Next

\* A committed prevote replaces an older one only where none is remembered: a
\* prevote the voter still means to reveal is the newest that can land.
LEMMA CommitIsLife ==
    ASSUME IInv, VoterStill, NEW t \in mempool, Commit(t)
    PROVE  [Life!Next]_(Life!vars)
<1>1. Remembered' = Remembered
  BY DEF VoterStill, Kept, Remembered, Current
<1>2. /\ t.val \in Validators /\ t.prevote \in Nat
      /\ \A v \in Validators : onchain[v].id \in Nat
  BY Types DEF IInv
<1>3. \A v \in Validators :
         onchain'[v].id = IF log'[Len(log) + 1].ok /\ v = t.val
                          THEN t.prevote ELSE onchain[v].id
  BY Committing
<1>4. onchain[t.val].id <= t.prevote
  <2>1. CASE onchain[t.val].id = NoPrevote
    BY <1>2, <2>1 DEF NoPrevote
  <2>2. CASE onchain[t.val].id # NoPrevote
    BY <1>2, <2>2 DEF IInv, Ordered
  <2> QED
    BY <2>1, <2>2
<1>5. CASE \A v \in Validators : onchain'[v].id = onchain[v].id
  <2>1. Held' = Held
    BY <1>5 DEF Held
  <2> QED
    BY <1>1, <2>1, LifeVars DEF Life!vars, Held
<1>6. CASE ~\A v \in Validators : onchain'[v].id = onchain[v].id
  <2>1. log'[Len(log) + 1].ok /\ t.prevote > onchain[t.val].id
    BY <1>2, <1>3, <1>4, <1>6
  <2>2. Remembered[t.val] = NoPrevote
    BY <1>2, <2>1 DEF Remembered, IInv, StoredPrevoteLanded
  <2>3. \A w \in Validators :
           onchain'[w].id = IF w = t.val THEN t.prevote ELSE onchain[w].id
    BY <1>3, <2>1
  <2> QED
    BY <1>1, <1>2, <2>1, <2>2, <2>3, Landing
<1> QED
  BY <1>5, <1>6

\* Every step of the voter is one of PrevoteLife, or none.
LEMMA LifeStep ==
    ASSUME IInv, [Next]_vars
    PROVE  [Life!Next]_(Life!vars)
<1>1. CASE Around \/ Resting
  <2>1. Remembered' = Remembered /\ onchain' = onchain
    BY <1>1 DEF Around, Resting, Kept, Remembered, Current
  <2> QED
    BY <2>1, Unseen
<1>2. CASE VoterStill /\ \E t \in mempool : Commit(t) \/ Drop(t)
  <2>1. PICK t \in mempool : Commit(t) \/ Drop(t)
    BY <1>2
  <2>2. CASE Drop(t)
    <3>1. Remembered' = Remembered /\ onchain' = onchain
      BY <1>2, <2>2 DEF VoterStill, Kept, Drop, Remembered, Current
    <3> QED
      BY <3>1, Unseen
  <2> QED
    BY <1>2, <2>1, <2>2, CommitIsLife
<1> QED
  BY <1>1, <1>2, BeginningIsLife, SubmittingIsLife, GivingUpIsLife, StoringIsLife,
     RestartingIsLife, StepEffects

-----------------------------------------------------------------------------
\* The voter implements PrevoteLife: whatever is lost, retried, committed late or
\* forgotten by a restart, for any number of validators, retries and faults, the
\* chain moves on to a newer prevote of a validator only while the voter
\* remembers none, and what it comes to remember is what the chain holds then.
THEOREM ImplementsLife == Spec => ImplementsPrevoteLife
<1>1. Init => Life!Init
  <2> SUFFICES ASSUME Init PROVE Life!Init
    OBVIOUS
  <2>1. /\ prevotes = [v \in Validators |-> NoPrevote]
        /\ onchain = [v \in Validators |-> [id |-> NoPrevote, period |-> 0]]
        /\ ~Submitting
    BY DEF Init, ChainInit, VoterInit, Submitting
  <2> QED
    BY <2>1 DEF Life!Init, Life!None, NoPrevote, Remembered
<1>2. IInv /\ [Next]_vars => [Life!Next]_(Life!vars)
  BY LifeStep
<1> QED
  BY <1>1, <1>2, Inductive, PTL DEF Spec, ImplementsPrevoteLife, Life!Spec
=============================================================================
