------------------------------ MODULE EventFeed ------------------------------
(***************************************************************************)
(* What the event stream promises the voter, without endpoints,            *)
(* connections, watchdogs and the goroutines between them: two queues, of  *)
(* parameter updates and of voting periods.  No update is repeated or lost *)
(* and no notice of a period is lost or doubled.  While the feed is steady *)
(* every period is announced after all earlier ones.  EventStream is shown *)
(* to implement this module; it is steady with one endpoint and parameters *)
(* that have not changed.                                                  *)
(***************************************************************************)
EXTENDS Naturals, Sequences

CONSTANTS ParamValues,   \* parameters the chain may have
          NoParams,      \* none of them: nothing is known yet
          Notices        \* of voting periods: records with a field period

VARIABLES steady,   \* nothing has happened that could bring periods out of order
          params,   \* the parameters of the chain
          updates,  \* announced and not yet taken by the voter
          told,     \* the last parameters the voter took
          due,      \* notices of periods, not yet taken
          voted     \* the last period the voter took

vars == <<steady, params, updates, told, due, voted>>

Init ==
    /\ steady \in BOOLEAN
    /\ params \in ParamValues
    /\ updates = <<>> /\ told = NoParams
    /\ due = <<>> /\ voted = 0

\* What the voter will know once it has taken every update.
Latest == IF updates = <<>> THEN told ELSE updates[Len(updates)]

\* The chain's parameters change.
Change ==
    /\ params' \in ParamValues \ {params}
    /\ steady' = FALSE
    /\ UNCHANGED <<updates, told, due, voted>>

\* The feed has news of the parameters.
Update ==
    /\ params # Latest
    /\ updates' = Append(updates, params)
    /\ UNCHANGED <<steady, params, told, due, voted>>

Learn ==
    /\ updates # <<>>
    /\ told' = Head(updates)
    /\ updates' = Tail(updates)
    /\ UNCHANGED <<steady, params, due, voted>>

\* A block starts a period.
Announce(notice) ==
    /\ Latest # NoParams
    /\ steady => /\ notice.period > voted
                 /\ \A i \in 1..Len(due) : notice.period > due[i].period
    /\ due' = Append(due, notice)
    /\ UNCHANGED <<steady, params, updates, told, voted>>

Take ==
    /\ due # <<>>
    /\ voted' = Head(due).period
    /\ due' = Tail(due)
    /\ UNCHANGED <<steady, params, updates, told>>

Next ==
    \/ Change \/ Update \/ Learn \/ Take
    \/ \E notice \in Notices : Announce(notice)

Spec == Init /\ [][Next]_vars
=============================================================================
