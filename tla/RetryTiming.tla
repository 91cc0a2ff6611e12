------------------------------ MODULE RetryTiming ------------------------------
(***************************************************************************)
(* ItemLifecycle with a history variable: the minutes since the first       *)
(* charged failure of the current budget, for the promise of                *)
(* docs/formal-model.md section 5 that the pipeline never gives up on an    *)
(* item sooner than the schedule says.                                      *)
(***************************************************************************)
EXTENDS ItemLifecycle

VARIABLE since   \* None before the first charged failure

timedVars == <<status, attempts, wait, since>>

\* The delay the schedule promises after the a-th failure, the last one for ever
\* after: said apart from Delay, so that a wrong index there is not also here.
Promised(a) == IF a > Len(Backoff) THEN Backoff[Len(Backoff)] ELSE Backoff[a]

\* The delays after the first a charged failures.
DelaySum[a \in 0 .. MaxAttempts - 1] ==
  IF a = 0 THEN 0 ELSE DelaySum[a - 1] + Promised(a)

\* The delays that separate the failures of one budget.
MinimumToGiveUp == DelaySum[MaxAttempts - 1]

\* The count stops where nothing depends on it any more.
OneMore(m) == IF m = None \/ m = MinimumToGiveUp THEN m ELSE m + 1

\* A manual retry starts a new budget, the first charged failure starts the clock.
Clock(i) ==
  IF status'[i] \in {"pending", "done", "blocked"} THEN None
  ELSE IF since[i] = None /\ attempts'[i] > attempts[i] THEN 0
  ELSE since[i]

TimedInit == Init /\ since = [i \in Items |-> None]

TimedNext ==
  \/ Tick /\ since' = [i \in Items |-> OneMore(since[i])]
  \/ Retry /\ since' = [i \in Items |-> Clock(i)]
  \/ \E i \in Items : ItemNext(i) /\ since' = [since EXCEPT ![i] = Clock(i)]

TimedSpec == TimedInit /\ [][TimedNext]_timedVars

\* The budget of an item with failures that may pass is never spent sooner than
\* the sum of the delays before its last attempt (docs/formal-model.md:235-243),
\* whatever outages, interrupted attempts and retries lie between.
GiveUpTakesTime ==
  [][\A i \in Items : Exhaust(i) /\ MaxAttempts > 1 => since[i] = MinimumToGiveUp]_timedVars
===============================================================================
