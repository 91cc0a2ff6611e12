---------------------------- MODULE ItemLifecycle ----------------------------
(***************************************************************************)
(* What the pipeline promises about ONE column of state.json: the status,   *)
(* the attempt counter and the retry time of every item, with nothing said  *)
(* about how an attempt gets its work done.  It is the machine of           *)
(* docs/formal-model.md sections 4 and 5, taken from the code that          *)
(* implements it (worker.py's failure handler and DONE commit,              *)
(* queue_manager.py's retry and actionable set).  Worker.tla implements it. *)
(***************************************************************************)
EXTENDS Naturals, Sequences

CONSTANTS
  Items,        \* content ids in state.json
  MaxAttempts,  \* retry.max_attempts
  Backoff,      \* retry.backoff_schedule_minutes
  None          \* "no next_retry_at"

\* A schedule of at least one step (config.py: min_length=1) and a budget of at
\* least one attempt.
ASSUME RetryAssumption ==
  /\ MaxAttempts \in Nat \ {0}
  /\ Backoff \in Seq(Nat)
  /\ Len(Backoff) > 0
  /\ None \notin Nat

VARIABLES
  status,    \* status of each item
  attempts,  \* attempt_count of each item
  wait       \* minutes until next_retry_at; 0 once it has passed, None if unset

lifecycleVars == <<status, attempts, wait>>

InFlight == {"downloading", "transcribing", "enriching", "writing_note"}
Terminal == {"done", "blocked", "failed_permanent"}
Statuses == {"pending", "failed"} \cup InFlight \cup Terminal

\* The delay after the a-th charged failure: schedule[min(a, len) - 1].
Delay(a) == Backoff[IF a < Len(Backoff) THEN a ELSE Len(Backoff)]

\* One minute less to wait.
Older(w) == IF w = None \/ w = 0 THEN w ELSE w - 1

Init ==
  /\ status \in [Items -> {"pending", "blocked"}]
  /\ attempts = [i \in Items |-> 0]
  /\ wait = [i \in Items |-> None]

\* mutant of Actionable: next_retry_at is not compared with the clock
ActionableAtOnce(i) == status[i] \notin Terminal

\* A pass may pick up every item that is not settled and not waiting.
Actionable(i) == status[i] \notin Terminal /\ wait[i] \in {None, 0}

\* A stage is about to start: its in-flight status is saved.
Work(i) ==
  /\ Actionable(i)
  /\ \E s \in InFlight : status' = [status EXCEPT ![i] = s]
  /\ UNCHANGED <<attempts, wait>>

\* The note is written: the item is done with a clean slate.
Finish(i) ==
  /\ status[i] = "writing_note"
  /\ status' = [status EXCEPT ![i] = "done"]
  /\ attempts' = [attempts EXCEPT ![i] = 0]
  /\ wait' = [wait EXCEPT ![i] = None]

\* The provider account is dead: no attempt is charged, shortest delay.
Outage(i) ==
  /\ Actionable(i)
  /\ status' = [status EXCEPT ![i] = "failed"]
  /\ wait' = [wait EXCEPT ![i] = Backoff[1]]
  /\ UNCHANGED attempts

\* The counter a failure is charged to: the saved one, except after a note was
\* written, where the code has already reset it before the DONE save can fail.
ChargedTo(i) == {attempts[i]} \cup (IF status[i] = "writing_note" THEN {0} ELSE {})

\* The failure after a charged ones is the last the budget allows.
BudgetSpent(a) == a + 1 >= MaxAttempts

\* A failure that may pass: charged, and tried again after the next delay.
Postpone(i) ==
  /\ Actionable(i)
  /\ \E a \in ChargedTo(i) :
       /\ ~BudgetSpent(a)
       /\ attempts' = [attempts EXCEPT ![i] = a + 1]
       /\ wait' = [wait EXCEPT ![i] = Delay(a + 1)]
  /\ status' = [status EXCEPT ![i] = "failed"]

\* An item given up: charged once more, and with no next attempt.
StopAt(i, a) ==
  /\ attempts' = [attempts EXCEPT ![i] = a + 1]
  /\ status' = [status EXCEPT ![i] = "failed_permanent"]
  /\ wait' = [wait EXCEPT ![i] = None]

\* A failure that may pass, but the budget is spent.
Exhaust(i) ==
  /\ Actionable(i)
  /\ \E a \in ChargedTo(i) : BudgetSpent(a) /\ StopAt(i, a)

\* A failure waiting cannot cure.
GiveUp(i) ==
  /\ Actionable(i)
  /\ \E a \in ChargedTo(i) : StopAt(i, a)

\* What the operator's `retry` names: one given-up item, or all of them.
RetryTargets ==
  LET givenUp == {i \in Items : status[i] = "failed_permanent"}
  IN  ({{i} : i \in givenUp} \cup {givenUp}) \ {{}}

\* The operator's `retry`: the only way out of failed_permanent.
Retry ==
  \E S \in RetryTargets :
    /\ status' = [i \in Items |-> IF i \in S THEN "pending" ELSE status[i]]
    /\ attempts' = [i \in Items |-> IF i \in S THEN 0 ELSE attempts[i]]
    /\ wait' = [i \in Items |-> IF i \in S THEN None ELSE wait[i]]

Tick ==
  /\ wait' = [i \in Items |-> Older(wait[i])]
  /\ UNCHANGED <<status, attempts>>

ItemNext(i) ==
  Work(i) \/ Finish(i) \/ Outage(i) \/ Postpone(i) \/ Exhaust(i) \/ GiveUp(i)

Next == Tick \/ Retry \/ \E i \in Items : ItemNext(i)

Spec == Init /\ [][Next]_lifecycleVars
-------------------------------------------------------------------------------
\* The three columns hold what models.py declares, and an attempt counter never
\* passes the budget.
TypeOK ==
  /\ status \in [Items -> Statuses]
  /\ attempts \in [Items -> 0..MaxAttempts]
  /\ wait \in [Items -> Nat \cup {None}]

\* I3 of docs/formal-model.md: a failed item always has a time for its next
\* attempt (else it would be retried at once, or, read as terminal, never), and
\* a settled item never has one.
RetryWindow ==
  \A i \in Items :
    /\ status[i] = "failed" => wait[i] # None
    /\ status[i] \in Terminal => wait[i] = None

\* An item that can still be tried has an attempt left.
BudgetLeft ==
  \A i \in Items : status[i] \notin Terminal => attempts[i] < MaxAttempts

\* Done and blocked are for ever; failed_permanent is left only to pending, with
\* a fresh budget (the table of docs/formal-model.md section 4.2).
Settled ==
  [][\A i \in Items :
       /\ status[i] \in {"done", "blocked"} => status'[i] = status[i]
       /\ status[i] = "failed_permanent" /\ status'[i] # status[i]
            => status'[i] = "pending" /\ attempts'[i] = 0]_lifecycleVars
===============================================================================
