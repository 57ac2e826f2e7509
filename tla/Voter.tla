-------------------------------- MODULE Voter --------------------------------
(***************************************************************************)
(* The feeder's voting loop (pkg/feeder/voter/voter.go) with the           *)
(* transaction broadcaster under it (pkg/feeder/tx/tx.go), against the     *)
(* chain of OracleChain.  In every voting period and for every validator   *)
(* the voter sends one transaction that reveals the prevote of the         *)
(* previous period and commits a new one; it keeps the new one only when   *)
(* it saw the transaction succeed, and otherwise tries once more with a    *)
(* fresh prevote alone.                                                    *)
(*                                                                         *)
(* The module is the live mode (dryRun = FALSE).  Prices are data the      *)
(* properties do not look at: a fetch succeeds or fails, and the whitelist *)
(* is empty or not.                                                        *)
(***************************************************************************)
EXTENDS OracleChain, FiniteSets

CONSTANTS ValidatorList,    \* the configured validators, in voting order
          MaxRetries,       \* broadcasts per transaction (voter config)
          SequenceRetries,  \* attempts per broadcast (maxRetries of tx.go)
          ChannelCap        \* capacity of the voting period channel

ASSUME VoterAssumption ==
    /\ ValidatorList \in Seq(Validators)
    /\ MaxRetries \in Nat \ {0}
    /\ SequenceRetries \in Nat \ {0}
    /\ ChannelCap \in Nat \ {0}

VARIABLES periodCh,         \* VotingPeriodStarted: periods not yet handled
          whitelisted,      \* the whitelist is not empty
          prevotes,         \* stored prevote of every validator
          lastVotePeriod,
          state,            \* the voter's VotingState
          pc,               \* where the voting goroutine is
          cycle,            \* period of the cycle in progress
          index,            \* its position in ValidatorList
          msgs,             \* messages of the transaction in progress
          recovering,       \* it is the recovery transaction
          attempt,          \* broadcastVoteTx: attempts, from 1
          seqAttempt,       \* BroadcastTx: attempts, from 1
          account,          \* sequence the transaction is signed with
          nextId            \* name of the next prevote created

submission == <<index, msgs, recovering, attempt, seqAttempt, account, nextId>>
voterVars == <<whitelisted, prevotes, lastVotePeriod, state, pc, cycle, submission>>
vars == <<chainVars, periodCh, voterVars>>

VotingState == {"Idle", "FetchPrices", "SubmitVote", "WaitPeriod", "Error"}
Pc == {"select", "fetch", "next", "account", "broadcast", "verify"}
Messages == [vote : Nat, prevote : Nat]
NoMessages == [vote |-> NoPrevote, prevote |-> NoPrevote]

TypeOK ==
    /\ ChainTypeOK
    /\ periodCh \in Seq(1..MaxPeriod) /\ Len(periodCh) <= ChannelCap
    /\ whitelisted \in BOOLEAN
    /\ prevotes \in [Validators -> Nat]
    /\ lastVotePeriod \in 0..MaxPeriod
    /\ state \in VotingState
    /\ pc \in Pc
    /\ cycle \in 0..MaxPeriod
    /\ index \in 1..Len(ValidatorList) + 1
    /\ pc \in {"account", "broadcast", "verify"} =>
         /\ index <= Len(ValidatorList)
         /\ msgs.prevote # NoPrevote
    /\ msgs \in Messages
    /\ recovering \in BOOLEAN
    /\ attempt \in 1..MaxRetries
    /\ seqAttempt \in 1..SequenceRetries
    /\ account \in Nat
    /\ nextId \in PrevoteIds

VoterInit ==
    /\ periodCh = <<>>
    /\ whitelisted = FALSE
    /\ prevotes = [v \in Validators |-> NoPrevote]
    /\ lastVotePeriod = 0
    /\ state = "Idle"
    /\ pc = "select"
    /\ cycle = 0
    /\ index = 1
    /\ msgs = NoMessages
    /\ recovering = FALSE
    /\ attempt = 1
    /\ seqAttempt = 1
    /\ account = 0

Init == ChainInit /\ VoterInit /\ nextId = 1

\* The validator whose transaction is in progress.
Current == ValidatorList[index]
Submitting == pc \in {"account", "broadcast", "verify"}

\* The signed transaction in progress.
Signed == [val |-> Current, vote |-> msgs.vote, prevote |-> msgs.prevote,
           seq |-> account]

-----------------------------------------------------------------------------
(* The select loop *)

\* A parameter update arrives; its whitelist may be empty.
ParamsUpdate ==
    /\ pc = "select"
    /\ whitelisted' \in BOOLEAN
    /\ FaultIf(~whitelisted')
    /\ UNCHANGED <<ledger, periodCh, prevotes, lastVotePeriod, state, pc, cycle,
                   submission>>

\* A period the voter has voted in already is ignored.
SkipPeriod ==
    /\ pc = "select"
    /\ periodCh # <<>>
    /\ Head(periodCh) = lastVotePeriod
    /\ periodCh' = Tail(periodCh)
    /\ UNCHANGED <<chainVars, voterVars>>

StartCycle ==
    /\ pc = "select"
    /\ periodCh # <<>>
    /\ Head(periodCh) # lastVotePeriod
    /\ cycle' = Head(periodCh)
    /\ periodCh' = Tail(periodCh)
    /\ state' = "FetchPrices"
    /\ pc' = "fetch"
    /\ UNCHANGED <<chainVars, whitelisted, prevotes, lastVotePeriod, submission>>

\* The price server does not answer, no price is whitelisted, or the
\* whitelist is not loaded: the cycle ends with an error.
AbortCycle ==
    /\ pc = "fetch"
    /\ FaultIf(whitelisted)
    /\ state' = "Error"
    /\ cycle' = 0
    /\ pc' = "select"
    /\ UNCHANGED <<ledger, periodCh, whitelisted, prevotes, lastVotePeriod, submission>>

PricesFetched ==
    /\ pc = "fetch"
    /\ whitelisted
    /\ state' = "SubmitVote"
    /\ pc' = "next"
    /\ UNCHANGED <<chainVars, periodCh, whitelisted, prevotes, lastVotePeriod, cycle,
                   submission>>

\* All validators are done; the period counts as voted whatever became of
\* their transactions.
EndCycle ==
    /\ pc = "next"
    /\ index > Len(ValidatorList)
    /\ lastVotePeriod' = cycle
    /\ state' = "WaitPeriod"
    /\ cycle' = 0
    /\ index' = 1
    /\ pc' = "select"
    /\ UNCHANGED <<chainVars, periodCh, whitelisted, prevotes, msgs, recovering,
                   attempt, seqAttempt, account, nextId>>

-----------------------------------------------------------------------------
(* submitVoteForValidator *)

\* The transaction starts over with a new prevote and the given vote.
NewTransaction(vote, isRecovery) ==
    /\ msgs' = [vote |-> vote, prevote |-> nextId]
    /\ nextId' = nextId + 1
    /\ recovering' = isRecovery
    /\ attempt' = 1
    /\ seqAttempt' = 1
    /\ account' = 0
    /\ pc' = "account"
    /\ UNCHANGED index

\* The loop goes on with the next validator; the locals of the call are gone.
NextValidator ==
    /\ index' = index + 1
    /\ pc' = "next"
    /\ msgs' = NoMessages
    /\ recovering' = FALSE
    /\ attempt' = 1
    /\ seqAttempt' = 1
    /\ account' = 0
    /\ UNCHANGED nextId

SubmitVote ==
    /\ pc = "next"
    /\ index <= Len(ValidatorList)
    /\ NewTransaction(prevotes[Current], FALSE)
    /\ UNCHANGED <<chainVars, periodCh, whitelisted, prevotes, lastVotePeriod, state,
                   cycle>>

\* No salt, no prevote: the validator is passed over, and what is stored for
\* it stays.
PrevoteFailed ==
    /\ pc = "next"
    /\ index <= Len(ValidatorList)
    /\ FaultIf(TRUE)
    /\ NextValidator
    /\ UNCHANGED <<ledger, periodCh, whitelisted, prevotes, lastVotePeriod, state,
                   cycle>>

\* Mutant of SubmissionFailed: the stored prevote survives the failure.
FailureKeepsPrevote ==
    /\ UNCHANGED prevotes
    /\ \/ ~recovering /\ NewTransaction(NoPrevote, TRUE)
       \/ recovering /\ NextValidator

\* Mutant of SubmissionFailed: no recovery transaction.
FailureWithoutRecovery ==
    /\ prevotes' = [prevotes EXCEPT ![Current] = NoPrevote]
    /\ NextValidator

\* broadcastVoteTx failed.  The first transaction gives up the stored prevote
\* and is followed by a recovery transaction with a fresh prevote alone, if
\* that can be created; a failed recovery leaves nothing stored.
SubmissionFailed ==
    \/ /\ ~recovering
       /\ prevotes' = [prevotes EXCEPT ![Current] = NoPrevote]
       /\ NewTransaction(NoPrevote, TRUE) \/ (~Stable /\ NextValidator)
    \/ /\ recovering
       /\ UNCHANGED prevotes
       /\ NextValidator

\* broadcastVoteTx succeeded: the new prevote is stored.
SubmissionSucceeded ==
    /\ prevotes' = [prevotes EXCEPT ![Current] = msgs.prevote]
    /\ NextValidator

-----------------------------------------------------------------------------
(* broadcastVoteTx, BroadcastTx and verifyTxResult *)

\* Mutant of BroadcastFailed: one attempt too many.
BroadcastFailedLate ==
    \/ /\ attempt <= MaxRetries
       /\ attempt' = attempt + 1
       /\ seqAttempt' = 1
       /\ account' = 0
       /\ pc' = "account"
       /\ UNCHANGED <<prevotes, index, msgs, recovering, nextId>>
    \/ /\ attempt > MaxRetries
       /\ SubmissionFailed

\* One broadcast of the transaction failed: it is tried again up to
\* MaxRetries times.
BroadcastFailed ==
    \/ /\ attempt < MaxRetries
       /\ attempt' = attempt + 1
       /\ seqAttempt' = 1
       /\ account' = 0
       /\ pc' = "account"
       /\ UNCHANGED <<prevotes, index, msgs, recovering, nextId>>
    \/ /\ attempt = MaxRetries
       /\ SubmissionFailed

\* Mutant of GetAccount: it counts the transactions sent and not yet committed.
GetAccountCached ==
    /\ pc = "account"
    /\ account' \in {Sequence, Sequence + Cardinality(mempool)}
    /\ pc' = "broadcast"
    /\ UNCHANGED <<chainVars, periodCh, whitelisted, prevotes, lastVotePeriod, state,
                   cycle, index, msgs, recovering, attempt, seqAttempt, nextId>>

\* The account query answers, and the transaction is signed.
GetAccount ==
    /\ pc = "account"
    /\ account' \in AccountSequences
    /\ FaultIf(account' # Sequence)
    /\ pc' = "broadcast"
    /\ UNCHANGED <<ledger, periodCh, whitelisted, prevotes, lastVotePeriod, state,
                   cycle, index, msgs, recovering, attempt, seqAttempt, nextId>>

GetAccountFailed ==
    /\ pc = "account"
    /\ FaultIf(TRUE)
    /\ BroadcastFailed
    /\ UNCHANGED <<ledger, periodCh, whitelisted, lastVotePeriod, state, cycle>>

\* A node accepts the transaction into its pool; the voter goes on to wait
\* for its result.
Broadcast ==
    /\ pc = "broadcast"
    /\ FaultIf(~Expected(Signed))
    /\ mempool' = Pooled(Signed)
    /\ pc' = "verify"
    /\ UNCHANGED <<period, log, onchain, periodCh, whitelisted, prevotes,
                   lastVotePeriod, state, cycle, submission>>

\* A node refuses the sequence; the account is read again, up to
\* SequenceRetries times.
SequenceMismatch ==
    /\ pc = "broadcast"
    /\ FaultIf(Expected(Signed))
    /\ \/ /\ seqAttempt < SequenceRetries
          /\ seqAttempt' = seqAttempt + 1
          /\ account' = 0
          /\ pc' = "account"
          /\ UNCHANGED <<prevotes, index, msgs, recovering, attempt, nextId>>
       \/ /\ seqAttempt = SequenceRetries
          /\ BroadcastFailed
    /\ UNCHANGED <<ledger, periodCh, whitelisted, lastVotePeriod, state, cycle>>

\* Any other error: a refusal, or an answer that is lost although a node has
\* taken the transaction.
BroadcastError ==
    /\ pc = "broadcast"
    /\ FaultIf(TRUE)
    /\ mempool' \in {mempool, Pooled(Signed)}
    /\ BroadcastFailed
    /\ UNCHANGED <<period, log, onchain, periodCh, whitelisted, lastVotePeriod,
                   state, cycle>>

\* The committed result of a transaction, for the query by its hash.
Landed(t, ok) == \E i \in 1..Len(log) : log[i].tx = t /\ log[i].ok = ok

TxSucceeded ==
    /\ pc = "verify"
    /\ Landed(Signed, TRUE)
    /\ SubmissionSucceeded
    /\ UNCHANGED <<chainVars, periodCh, whitelisted, lastVotePeriod, state, cycle>>

\* Mutant of TxNotConfirmed: a transaction that is not found counts as sent.
TxNotConfirmedAccepted ==
    /\ pc = "verify"
    /\ FaultIf(Landed(Signed, TRUE) \/ Signed \in mempool)
    /\ SubmissionSucceeded
    /\ UNCHANGED <<ledger, periodCh, whitelisted, lastVotePeriod, state, cycle>>

\* The transaction was committed and failed, or it is not found in the time
\* GetTx looks for it, whether it is committed or not.
TxNotConfirmed ==
    /\ pc = "verify"
    /\ FaultIf(Landed(Signed, TRUE) \/ Signed \in mempool)
    /\ SubmissionFailed
    /\ UNCHANGED <<ledger, periodCh, whitelisted, lastVotePeriod, state, cycle>>

-----------------------------------------------------------------------------
(* The event stream, the process and the chain around the voter *)

\* The chain enters its next period and the stream tells the voter.  It is a
\* fault that the event is lost with the connection, or that the voter is not
\* done with the last period.
PeriodStarted ==
    /\ AdvancePeriod
    /\ \/ /\ Len(periodCh) < ChannelCap
          /\ periodCh' = Append(periodCh, period')
          /\ FaultIf(~(pc = "select" /\ periodCh = <<>> /\ mempool = {} /\ whitelisted))
       \/ /\ FaultIf(TRUE)
          /\ UNCHANGED periodCh
    /\ UNCHANGED voterVars

\* After a failover the new endpoint, which lags behind the old one, goes
\* through a period again.
PeriodRepeated ==
    /\ FaultIf(TRUE)
    /\ Len(periodCh) < ChannelCap
    /\ \E p \in 1..period : periodCh' = Append(periodCh, p)
    /\ UNCHANGED <<ledger, voterVars>>

\* The process stops and starts again.  Prevotes are kept in memory only.
Restart ==
    /\ FaultIf(TRUE)
    /\ periodCh' = <<>>
    /\ whitelisted' = FALSE
    /\ prevotes' = [v \in Validators |-> NoPrevote]
    /\ lastVotePeriod' = 0
    /\ state' = "Idle"
    /\ pc' = "select"
    /\ cycle' = 0
    /\ index' = 1
    /\ msgs' = NoMessages
    /\ recovering' = FALSE
    /\ attempt' = 1
    /\ seqAttempt' = 1
    /\ account' = 0
    /\ UNCHANGED <<ledger, nextId>>

Chain ==
    /\ \E t \in mempool : Commit(t) \/ Drop(t)
    /\ UNCHANGED <<periodCh, voterVars>>

Vote ==
    \/ SkipPeriod \/ StartCycle \/ AbortCycle \/ PricesFetched \/ EndCycle
    \/ SubmitVote \/ PrevoteFailed
    \/ GetAccount \/ GetAccountFailed
    \/ Broadcast \/ SequenceMismatch \/ BroadcastError
    \/ TxSucceeded \/ TxNotConfirmed

Next == Vote \/ ParamsUpdate \/ PeriodStarted \/ PeriodRepeated \/ Restart \/ Chain

-----------------------------------------------------------------------------
Spec == Init /\ [][Next]_vars

\* The voting goroutine, the parameter poll and the chain keep running.  The
\* price fetch has a timeout (feeder/price/client.go:40); the gRPC calls have no
\* deadline, so that a node answers a request or closes its connection is
\* assumed here.
Fairness ==
    /\ WF_vars(Vote)
    /\ WF_vars(ParamsUpdate)
    /\ WF_vars(PeriodStarted)
    /\ WF_vars(Chain)

FairSpec == Spec /\ Fairness

-----------------------------------------------------------------------------
(* Properties *)

\* Every prevote the chain or a pool has seen, with the vote it reveals.
Transactions == mempool \cup {log[i].tx : i \in 1..Len(log)}

\* What the voter has stored for a validator is the prevote the chain holds
\* for it, and no transaction can still replace it, except while a
\* transaction of that very validator is in progress.  voter.go stores a
\* prevote only after verifyTxResult and deletes it after any failure; that
\* this suffices, whatever was lost, retried or committed late, rests on every
\* transaction being signed with the committed account sequence.
StoredPrevoteLanded ==
    \A v \in Validators :
        prevotes[v] # NoPrevote /\ ~(Submitting /\ Current = v) =>
            /\ onchain[v].id = prevotes[v]
            /\ \A t \in mempool : t.val = v => t.prevote = prevotes[v]

\* A prevote once revealed is never kept for another reveal: between
\* submissions no stored prevote is one that some transaction reveals
\* (submitVoteForValidator deletes or replaces it).
RevealedNotStored ==
    \A v \in Validators :
        prevotes[v] # NoPrevote /\ ~(Submitting /\ Current = v) =>
            \A t \in Transactions : t.vote # prevotes[v]

\* The salt of a prevote is never published before the chain holds the
\* prevote: every vote sent reveals a prevote committed by an earlier
\* transaction.
NoEarlyReveal ==
    \A t \in Transactions :
        t.vote # NoPrevote =>
            \E i \in 1..Len(log) :
                /\ log[i].ok
                /\ log[i].tx.prevote = t.vote
                /\ log[i].tx.seq < t.seq

\* No late transaction of an earlier attempt, cycle or process replaces the
\* prevote of a later one on the chain.
NewestPrevoteWins ==
    [][\A v \in Validators : onchain'[v].id >= onchain[v].id]_vars

\* What the voter remembers of a validator: nothing while a transaction of that
\* validator is in progress, for the stored prevote is then being revealed.
Remembered ==
    [v \in Validators |->
        IF Submitting /\ Current = v THEN NoPrevote ELSE prevotes[v]]

Life == INSTANCE PrevoteLife
            WITH chain <- [v \in Validators |-> onchain[v].id],
                 known <- Remembered

\* The voter implements PrevoteLife: whatever was lost, retried, committed late
\* or forgotten by a restart, the chain never moves on behind a prevote that the
\* voter still means to reveal, and every prevote it comes to remember is the
\* one the chain holds at that moment.
ImplementsPrevoteLife == Life!Spec

\* Once nothing fails any more in period p, the vote of every validator is
\* accepted in period p + 2 at the latest: the cycle of period p + 1 either
\* votes or leaves a landed prevote behind.
VotedIn(p) ==
    \A k \in 1..Len(ValidatorList) : \E i \in 1..Len(log) :
        /\ log[i].ok
        /\ log[i].period = p
        /\ log[i].tx.val = ValidatorList[k]
        /\ log[i].tx.vote # NoPrevote

VotingResumes ==
    \A p \in 0..MaxPeriod :
        Stable /\ period = p /\ p + 2 <= MaxPeriod ~> VotedIn(p + 2)

-----------------------------------------------------------------------------
(* The inductive invariant behind the safety properties *)

\* Prevotes are numbered in the order of their creation, and the transaction
\* in progress carries the newest one.
Numbered ==
    /\ \A t \in Transactions : t.prevote < nextId /\ t.vote < t.prevote
    /\ \A v \in Validators : prevotes[v] < nextId /\ onchain[v].id < nextId
    /\ Submitting => /\ nextId = msgs.prevote + 1
                      /\ msgs.vote < msgs.prevote
                      /\ \A v \in Validators : prevotes[v] < msgs.prevote

\* Pending transactions compete for the committed sequence, and the
\* sequence of a committed one is its place in the log.
Sequenced ==
    /\ account <= Sequence
    /\ \A t \in mempool : t.seq = Sequence
    /\ \A i \in 1..Len(log) : log[i].tx.seq + 1 = i

\* Nothing pending is older than anything committed, and the chain holds the
\* newest committed prevote.
Ordered ==
    /\ \A t \in mempool : \A i \in 1..Len(log) : log[i].tx.prevote <= t.prevote
    /\ \A i \in 1..Len(log) :
          log[i].ok => log[i].tx.prevote <= onchain[log[i].tx.val].id
    /\ \A v \in Validators : onchain[v].id # NoPrevote =>
          \E i \in 1..Len(log) : log[i].ok /\ log[i].tx.prevote = onchain[v].id

\* No two validators share a prevote, a recovery starts with nothing stored,
\* and the vote in progress reveals a committed prevote.
Disjoint ==
    /\ \A v, w \in Validators :
          v # w /\ prevotes[v] # NoPrevote => prevotes[v] # prevotes[w]
    /\ Submitting =>
          /\ \A w \in Validators :
                w # Current /\ prevotes[w] # NoPrevote => prevotes[w] # msgs.vote
          /\ recovering => prevotes[Current] = NoPrevote
          /\ msgs.vote # NoPrevote =>
                \E i \in 1..Len(log) : log[i].ok /\ log[i].tx.prevote = msgs.vote

IInv ==
    /\ TypeOK
    /\ Numbered
    /\ Sequenced
    /\ Ordered
    /\ Disjoint
    /\ StoredPrevoteLanded
    /\ RevealedNotStored
    /\ NoEarlyReveal
=============================================================================
