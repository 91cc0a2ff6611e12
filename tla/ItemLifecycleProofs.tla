-------------------------- MODULE ItemLifecycleProofs --------------------------
(***************************************************************************)
(* The published state machine keeps its own invariants and gives no item   *)
(* up before its time, for every set of items, budget and schedule.         *)
(***************************************************************************)
EXTENDS RetryTiming, WellFoundedInduction, TLAPS

USE DEF InFlight, Terminal, Statuses

\* The schedule has a delay for every charged failure (worker.py:490).
LEMMA DelayIsNat == \A a \in Nat \ {0} : Delay(a) \in Nat
BY RetryAssumption DEF Delay

\* The index worker.py:495-500 clamps is that of the promised delay.
LEMMA DelayAsPromised == \A a \in Nat \ {0} : Promised(a) = Delay(a)
BY RetryAssumption DEF Promised, Delay

\* The shortest step of the schedule exists (worker.py:480).
LEMMA FirstDelayIsNat == Backoff[1] \in Nat
BY RetryAssumption

\* Time passing keeps a retry time a retry time, and an unset one unset.
LEMMA OlderType ==
  \A w \in Nat \cup {None} : Older(w) \in Nat \cup {None} /\ (Older(w) = None <=> w = None)
BY RetryAssumption DEF Older

\* A failure is charged to a counter below the budget.
LEMMA ChargedBelowBudget ==
  ASSUME TypeOK, BudgetLeft, NEW i \in Items, Actionable(i), NEW a \in ChargedTo(i)
  PROVE  a \in Nat /\ a + 1 \in 1..MaxAttempts
BY RetryAssumption DEF TypeOK, BudgetLeft, Actionable, ChargedTo

IInv == TypeOK /\ RetryWindow /\ BudgetLeft

LEMMA InitIInv == Init => IInv
BY RetryAssumption DEF Init, IInv, TypeOK, RetryWindow, BudgetLeft

\* Every step keeps the types, the retry window and the budget together: none of
\* the three is inductive without the others.
LEMMA NextIInv == IInv /\ [Next]_lifecycleVars => IInv'
<1> SUFFICES ASSUME IInv, [Next]_lifecycleVars PROVE IInv'
  OBVIOUS
<1> USE DEF IInv
<1>1. ASSUME NEW i \in Items, Work(i) PROVE IInv'
  BY <1>1 DEF Work, Actionable, TypeOK, RetryWindow, BudgetLeft
<1>2. ASSUME NEW i \in Items, Finish(i) PROVE IInv'
  BY <1>2, RetryAssumption DEF Finish, TypeOK, RetryWindow, BudgetLeft
<1>3. ASSUME NEW i \in Items, Outage(i) PROVE IInv'
  BY <1>3, FirstDelayIsNat, RetryAssumption
  DEF Outage, Actionable, TypeOK, RetryWindow, BudgetLeft
<1>4. ASSUME NEW i \in Items, Postpone(i) PROVE IInv'
  <2>1. PICK a \in ChargedTo(i) :
          /\ ~BudgetSpent(a)
          /\ attempts' = [attempts EXCEPT ![i] = a + 1]
          /\ wait' = [wait EXCEPT ![i] = Delay(a + 1)]
    BY <1>4 DEF Postpone
  <2>2. a \in Nat /\ a + 1 \in 0..MaxAttempts
    BY <1>4, ChargedBelowBudget DEF Postpone
  <2>3. Delay(a + 1) \in Nat
    BY <2>2, DelayIsNat
  <2> QED
    BY <1>4, <2>1, <2>2, <2>3, RetryAssumption
    DEF Postpone, BudgetSpent, Actionable, TypeOK, RetryWindow, BudgetLeft
<1>5. ASSUME NEW i \in Items, Actionable(i), NEW a \in ChargedTo(i), StopAt(i, a)
      PROVE  IInv'
  <2>1. a + 1 \in 0..MaxAttempts
    BY <1>5, ChargedBelowBudget
  <2> QED
    BY <1>5, <2>1, RetryAssumption DEF StopAt, TypeOK, RetryWindow, BudgetLeft
<1>6. ASSUME Retry PROVE IInv'
  <2>1. PICK S \in RetryTargets :
          /\ status' = [i \in Items |-> IF i \in S THEN "pending" ELSE status[i]]
          /\ attempts' = [i \in Items |-> IF i \in S THEN 0 ELSE attempts[i]]
          /\ wait' = [i \in Items |-> IF i \in S THEN None ELSE wait[i]]
    BY <1>6 DEF Retry
  <2> QED
    BY <2>1, RetryAssumption DEF TypeOK, RetryWindow, BudgetLeft
<1>7. ASSUME Tick PROVE IInv'
  BY <1>7, OlderType DEF Tick, TypeOK, RetryWindow, BudgetLeft
<1>8. ASSUME UNCHANGED lifecycleVars PROVE IInv'
  BY <1>8 DEF lifecycleVars, TypeOK, RetryWindow, BudgetLeft
<1> QED
  BY <1>1, <1>2, <1>3, <1>4, <1>5, <1>6, <1>7, <1>8 DEF Next, ItemNext, Exhaust, GiveUp

THEOREM Invariance == Spec => []IInv
BY InitIInv, NextIInv, PTL DEF Spec

\* The columns of state.json keep their types, and a counter never passes the
\* budget, for every budget and schedule.
THEOREM TypeCorrect == Spec => []TypeOK
BY Invariance, PTL DEF IInv

\* I3 of docs/formal-model.md: failed items have a retry time, settled ones none.
THEOREM RetryWindowHolds == Spec => []RetryWindow
BY Invariance, PTL DEF IInv

\* The core of Proposition 5.1: an item that can still be tried has an attempt left.
THEOREM BudgetLeftHolds == Spec => []BudgetLeft
BY Invariance, PTL DEF IInv

\* Done and blocked are absorbing; failed_permanent is left only by `retry`, with a
\* fresh budget.
THEOREM SettledHolds == Spec => Settled
<1>1. IInv /\ [Next]_lifecycleVars =>
        [\A i \in Items :
           /\ status[i] \in {"done", "blocked"} => status'[i] = status[i]
           /\ status[i] = "failed_permanent" /\ status'[i] # status[i]
                => status'[i] = "pending" /\ attempts'[i] = 0]_lifecycleVars
  <2> SUFFICES ASSUME IInv, Next, NEW j \in Items
               PROVE  /\ status[j] \in {"done", "blocked"} => status'[j] = status[j]
                      /\ status[j] = "failed_permanent" /\ status'[j] # status[j]
                           => status'[j] = "pending" /\ attempts'[j] = 0
    OBVIOUS
  <2> USE DEF IInv, TypeOK
  <2>1. ASSUME NEW i \in Items, Work(i) \/ Finish(i) \/ Outage(i) \/ Postpone(i)
                                  \/ Exhaust(i) \/ GiveUp(i)
        PROVE  status[i] \notin Terminal /\ \A k \in Items \ {i} : status'[k] = status[k]
    BY <2>1 DEF Work, Finish, Outage, Postpone, Exhaust, GiveUp, StopAt, Actionable
  <2>2. CASE Retry
    <3>1. PICK S \in RetryTargets :
            /\ status' = [i \in Items |-> IF i \in S THEN "pending" ELSE status[i]]
            /\ attempts' = [i \in Items |-> IF i \in S THEN 0 ELSE attempts[i]]
      BY <2>2 DEF Retry
    <3>2. j \in S => status[j] = "failed_permanent"
      BY <3>1 DEF RetryTargets
    <3> QED
      BY <3>1, <3>2
  <2>3. CASE Tick
    BY <2>3 DEF Tick
  <2> QED
    BY <2>1, <2>2, <2>3 DEF Next, ItemNext
<1> QED
  BY <1>1, Invariance, PTL DEF Spec, Settled
-------------------------------------------------------------------------------
(* The delays of a budget, added up. *)

\* A set of natural numbers has a least element: there is no infinite descent.
Descent == {p \in Nat \X Nat : p[1] < p[2]}

LEMMA LeastElement ==
  ASSUME NEW T, T \subseteq Nat, T # {}
  PROVE  \E m \in T : \A n \in T : m <= n
<1>1. IsWellFoundedOn(Descent, Nat)
  BY NatLessThanWellFounded DEF OpToRel, Descent
<1>2. PICK m \in T : \A n \in T : ~ (<<n, m>> \in Descent)
  BY <1>1, WFMin
<1>3. ASSUME NEW n \in T PROVE m <= n
  <2>1. <<n, m>> \in Nat \X Nat /\ <<n, m>>[1] = n /\ <<n, m>>[2] = m
    OBVIOUS
  <2> QED  BY <1>2, <2>1 DEF Descent
<1> QED  BY <1>3

\* Induction, about a set rather than a predicate.
LEMMA Induction ==
  ASSUME NEW S, 0 \in S, \A n \in Nat : n \in S => n + 1 \in S
  PROVE  Nat \subseteq S
<1> SUFFICES ASSUME Nat \ S # {} PROVE FALSE
  OBVIOUS
<1>1. PICK m \in Nat \ S : \A n \in Nat \ S : m <= n
  BY LeastElement
<1>2. m # 0 /\ m - 1 \in Nat /\ m - 1 \notin S
  BY <1>1
<1> QED  BY <1>1, <1>2

\* A function that adds the delays up, as far as n.
AddsUp(n, f) ==
  /\ f = [a \in 0 .. n |-> IF a = 0 THEN 0 ELSE f[a - 1] + Promised(a)]
  /\ f \in [0 .. n -> Nat]

LEMMA SumsExist == \A n \in Nat : \E f : AddsUp(n, f)
<1> DEFINE S == {n \in Nat : \E f : AddsUp(n, f)}
<1>1. 0 \in S
  <2>1. AddsUp(0, [a \in 0 .. 0 |-> 0])
    BY DEF AddsUp
  <2> QED  BY <2>1
<1>2. ASSUME NEW n \in Nat, n \in S PROVE n + 1 \in S
  <2>1. PICK g : AddsUp(n, g)
    BY <1>2
  <2> DEFINE f == [a \in 0 .. n + 1 |-> IF a = n + 1 THEN g[n] + Promised(n + 1) ELSE g[a]]
  <2>2. g \in [0 .. n -> Nat] /\ g[n] \in Nat /\ Promised(n + 1) \in Nat
    BY <2>1, DelayIsNat, DelayAsPromised DEF AddsUp
  <2>3. f \in [0 .. n + 1 -> Nat]
    BY <2>2
  <2>4. ASSUME NEW a \in 0 .. n + 1
        PROVE  f[a] = IF a = 0 THEN 0 ELSE f[a - 1] + Promised(a)
    BY <2>1, <2>2 DEF AddsUp
  <2>5. AddsUp(n + 1, f)
    BY <2>3, <2>4 DEF AddsUp
  <2> QED  BY <2>5
<1> HIDE DEF S
<1>3. Nat \subseteq S
  BY <1>1, <1>2, Induction
<1> QED  BY <1>3 DEF S

\* The recursive definition of DelaySum defines what it says.
LEMMA DelaySumAdds ==
  /\ MaxAttempts - 1 \in Nat /\ DelaySum \in [0 .. MaxAttempts - 1 -> Nat]
  /\ DelaySum[0] = 0
  /\ \A a \in 1 .. MaxAttempts - 1 : DelaySum[a] = DelaySum[a - 1] + Delay(a)
<1>1. MaxAttempts - 1 \in Nat
  BY RetryAssumption
<1>2. PICK f : AddsUp(MaxAttempts - 1, f)
  BY <1>1, SumsExist
<1>3. DelaySum = [a \in 0 .. MaxAttempts - 1 |->
                    IF a = 0 THEN 0 ELSE DelaySum[a - 1] + Promised(a)]
  BY <1>2 DEF DelaySum, AddsUp
<1> DEFINE S == {n \in Nat : n \in 0 .. MaxAttempts - 1 => DelaySum[n] \in Nat}
<1>4. 0 \in S
  BY <1>1, <1>3
<1>5. ASSUME NEW n \in Nat, n \in S PROVE n + 1 \in S
  <2>1. Promised(n + 1) \in Nat
    BY DelayIsNat, DelayAsPromised
  <2> QED  BY <1>1, <1>3, <1>5, <2>1
<1> HIDE DEF S
<1>6. Nat \subseteq S
  BY <1>4, <1>5, Induction
<1>7. \A n \in 0 .. MaxAttempts - 1 : DelaySum[n] \in Nat
  BY <1>1, <1>6 DEF S
<1>8. \A a \in 1 .. MaxAttempts - 1 : a \in Nat \ {0}
  BY <1>1
<1> QED  BY <1>1, <1>3, <1>7, <1>8, DelayAsPromised

\* More failures, more delays.
LEMMA DelaySumGrows ==
  \A b \in 0 .. MaxAttempts - 1 : \A a \in 0 .. b : DelaySum[a] <= DelaySum[b]
<1> DEFINE S == {b \in Nat : b \in 0 .. MaxAttempts - 1 =>
                                \A a \in 0 .. b : DelaySum[a] <= DelaySum[b]}
<1>1. 0 \in S
  BY DelaySumAdds
<1>2. ASSUME NEW n \in Nat, n \in S PROVE n + 1 \in S
  <2> SUFFICES ASSUME n + 1 \in 0 .. MaxAttempts - 1, NEW a \in 0 .. n + 1
               PROVE  DelaySum[a] <= DelaySum[n + 1]
    OBVIOUS
  <2>1. n + 1 \in 1 .. MaxAttempts - 1 /\ n \in 0 .. MaxAttempts - 1 /\ a \in 0 .. MaxAttempts - 1
    BY DelaySumAdds
  <2>2. DelaySum[n + 1] = DelaySum[(n + 1) - 1] + Delay(n + 1) /\ (n + 1) - 1 = n
    BY <2>1, DelaySumAdds
  <2>3. DelaySum[n] \in Nat /\ DelaySum[a] \in Nat /\ Delay(n + 1) \in Nat
    <3> DEFINE D == DelaySum
    <3>1. D \in [0 .. MaxAttempts - 1 -> Nat]
      BY DelaySumAdds
    <3> HIDE DEF D
    <3>2. D[n] \in Nat /\ D[a] \in Nat
      BY <2>1, <3>1
    <3> QED  BY <3>2, DelayIsNat DEF D
  <2>4. a = n + 1 \/ a \in 0 .. n
    OBVIOUS
  <2> QED  BY <1>2, <2>1, <2>2, <2>3, <2>4
<1> HIDE DEF S
<1>3. Nat \subseteq S
  BY <1>1, <1>2, Induction
<1> QED  BY <1>3, DelaySumAdds DEF S
-------------------------------------------------------------------------------
(* The time it takes to give up. *)

\* Minutes still to wait.
Waited(i) == IF wait[i] = None THEN 0 ELSE wait[i]

\* When an item's failures were charged, the delays between them have passed, the present
\* one but for what is left of it; the clock stands still at the sum of all of them.
InTime ==
  /\ since \in [Items -> Nat \cup {None}]
  /\ \A i \in Items :
       /\ since[i] # None => since[i] <= MinimumToGiveUp
       /\ status[i] = "pending" => attempts[i] = 0
       /\ status[i] \notin Terminal /\ attempts[i] > 0 =>
            since[i] # None /\ since[i] + Waited(i) >= DelaySum[attempts[i]]

LEMMA InitInTime == TimedInit => InTime
BY RetryAssumption DEF TimedInit, Init, InTime

LEMMA MinimumType == MinimumToGiveUp \in Nat
BY DelaySumAdds DEF MinimumToGiveUp

\* A step of one item changes nothing of another's time.
LEMMA OneItemInTime ==
  ASSUME IInv, InTime, NEW i \in Items, NEW t \in Nat \cup {None},
         since' = [since EXCEPT ![i] = t], t # None => t <= MinimumToGiveUp,
         \A j \in Items \ {i} :
           status'[j] = status[j] /\ attempts'[j] = attempts[j] /\ wait'[j] = wait[j],
         status'[i] = "pending" => attempts'[i] = 0,
         status'[i] \notin Terminal /\ attempts'[i] > 0 =>
           t # None /\ t + Waited(i)' >= DelaySum[attempts'[i]]
  PROVE  InTime'
<1>1. since'[i] = t /\ \A j \in Items \ {i} : since'[j] = since[j]
  BY DEF InTime
<1>2. since' \in [Items -> Nat \cup {None}]
  BY DEF InTime
<1>3. MinimumToGiveUp' = MinimumToGiveUp /\ DelaySum' = DelaySum
  OBVIOUS
<1>4. \A j \in Items \ {i} : Waited(j)' = Waited(j)
  BY DEF Waited
<1> QED  BY <1>1, <1>2, <1>3, <1>4 DEF InTime

\* Where the clock of an item stands after one of its steps.
LEMMA ClockType ==
  ASSUME InTime, NEW i \in Items
  PROVE  Clock(i) \in Nat \cup {None} /\ (Clock(i) # None => Clock(i) <= MinimumToGiveUp)
BY MinimumType, RetryAssumption DEF InTime, Clock

LEMMA ItemInTime ==
  ASSUME IInv, InTime, NEW i \in Items, ItemNext(i), since' = [since EXCEPT ![i] = Clock(i)]
  PROVE  InTime'
<1>1. /\ status[i] \in Statuses /\ attempts[i] \in 0 .. MaxAttempts
      /\ wait[i] \in Nat \cup {None} /\ since[i] \in Nat \cup {None}
  BY DEF IInv, TypeOK, InTime
<1>2. CASE Work(i)
  <2>1. /\ status'[i] \in InFlight /\ attempts' = attempts /\ wait' = wait
        /\ status[i] \notin Terminal
        /\ \A j \in Items \ {i} : status'[j] = status[j]
    BY <1>2 DEF Work, Actionable, IInv, TypeOK
  <2>2. Clock(i) = since[i] /\ Waited(i)' = Waited(i)
    BY <1>1, <2>1 DEF Clock, Waited
  <2> QED  BY <1>1, <2>1, <2>2, ClockType, OneItemInTime DEF InTime
<1>3. CASE Finish(i)
  <2>1. /\ status'[i] = "done"
        /\ \A j \in Items \ {i} :
             status'[j] = status[j] /\ attempts'[j] = attempts[j] /\ wait'[j] = wait[j]
    BY <1>3 DEF Finish, IInv, TypeOK
  <2> QED  BY <2>1, ClockType, OneItemInTime
<1>4. CASE Outage(i)
  <2>1. /\ status'[i] = "failed" /\ attempts' = attempts /\ wait'[i] = Backoff[1]
        /\ status[i] \notin Terminal /\ wait[i] \in {None, 0}
        /\ \A j \in Items \ {i} : status'[j] = status[j] /\ wait'[j] = wait[j]
    BY <1>4 DEF Outage, Actionable, IInv, TypeOK
  <2>2. Clock(i) = since[i] /\ Waited(i) = 0 /\ Waited(i)' \in Nat
    BY <1>1, <2>1, FirstDelayIsNat DEF Clock, Waited
  <2>3. attempts[i] > 0 => attempts[i] \in 0 .. MaxAttempts - 1
    BY <1>1, <2>1, RetryAssumption DEF IInv, BudgetLeft
  <2>4. attempts[i] > 0 => since[i] # None /\ since[i] + Waited(i)' >= DelaySum[attempts[i]]
    BY <1>1, <2>1, <2>2, <2>3, DelaySumAdds DEF InTime
  <2> QED  BY <1>1, <2>1, <2>2, <2>4, ClockType, OneItemInTime
<1>5. CASE Postpone(i)
  <2>1. PICK a \in ChargedTo(i) :
          /\ ~BudgetSpent(a)
          /\ attempts' = [attempts EXCEPT ![i] = a + 1]
          /\ wait' = [wait EXCEPT ![i] = Delay(a + 1)]
    BY <1>5 DEF Postpone
  <2>2. /\ status'[i] = "failed" /\ attempts'[i] = a + 1 /\ wait'[i] = Delay(a + 1)
        /\ status[i] \notin Terminal /\ wait[i] \in {None, 0}
        /\ \A j \in Items \ {i} :
             status'[j] = status[j] /\ attempts'[j] = attempts[j] /\ wait'[j] = wait[j]
    BY <1>5, <2>1 DEF Postpone, Actionable, IInv, TypeOK
  <2>3. a \in Nat /\ a + 1 \in 1 .. MaxAttempts - 1 /\ Delay(a + 1) \in Nat
    BY <1>5, <2>1, ChargedBelowBudget, DelayIsNat, RetryAssumption
    DEF Postpone, BudgetSpent, IInv
  <2>4. /\ DelaySum[a + 1] = DelaySum[(a + 1) - 1] + Delay(a + 1) /\ (a + 1) - 1 = a
        /\ DelaySum[a] \in Nat /\ DelaySum[0] = 0
    BY <2>3, DelaySumAdds
  <2>5. a = 0 \/ (a = attempts[i] /\ a > 0)
    BY <1>1, <2>1, <2>3 DEF ChargedTo
  <2>6. Clock(i) # None /\ Clock(i) \in Nat /\ (a > 0 => Clock(i) >= DelaySum[a])
    <3>1. CASE attempts[i] = 0
      <4>1. a = 0 /\ attempts'[i] > attempts[i]
        BY <2>2, <2>5, <3>1
      <4> QED  BY <1>1, <2>2, <4>1, RetryAssumption DEF Clock
    <3>2. CASE attempts[i] > 0
      <4>1. since[i] # None /\ since[i] + Waited(i) >= DelaySum[attempts[i]] /\ Waited(i) = 0
        BY <2>2, <3>2 DEF InTime, Waited
      <4> QED  BY <1>1, <2>2, <2>4, <2>5, <4>1 DEF Clock
    <3> QED  BY <1>1, <3>1, <3>2
  <2>7. Waited(i)' = Delay(a + 1)
    BY <2>2, <2>3, RetryAssumption DEF Waited
  <2>8. Clock(i) + Waited(i)' >= DelaySum[attempts'[i]]
    BY <2>2, <2>3, <2>4, <2>5, <2>6, <2>7
  <2> QED  BY <2>2, <2>6, <2>8, ClockType, OneItemInTime
<1>6. CASE Exhaust(i) \/ GiveUp(i)
  <2>1. /\ status'[i] = "failed_permanent"
        /\ \A j \in Items \ {i} :
             status'[j] = status[j] /\ attempts'[j] = attempts[j] /\ wait'[j] = wait[j]
    BY <1>6 DEF Exhaust, GiveUp, StopAt, IInv, TypeOK
  <2> QED  BY <2>1, ClockType, OneItemInTime
<1> QED  BY <1>2, <1>3, <1>4, <1>5, <1>6 DEF ItemNext

\* A new budget starts for some items, and nothing changes for the others.
LEMMA RetryInTime ==
  ASSUME IInv, InTime, Retry, since' = [i \in Items |-> Clock(i)]
  PROVE  InTime'
<1>1. PICK S \in RetryTargets :
        /\ status' = [i \in Items |-> IF i \in S THEN "pending" ELSE status[i]]
        /\ attempts' = [i \in Items |-> IF i \in S THEN 0 ELSE attempts[i]]
        /\ wait' = [i \in Items |-> IF i \in S THEN None ELSE wait[i]]
  BY DEF Retry
<1>2. since' \in [Items -> Nat \cup {None}]
  BY ClockType
<1>3. ASSUME NEW i \in Items
      PROVE  /\ since'[i] # None => since'[i] <= MinimumToGiveUp
             /\ status'[i] = "pending" => attempts'[i] = 0
             /\ status'[i] \notin Terminal /\ attempts'[i] > 0 =>
                  since'[i] # None /\ since'[i] + Waited(i)' >= DelaySum[attempts'[i]]
  <2>1. since'[i] = Clock(i)
    OBVIOUS
  <2>2. CASE i \in S
    BY <1>1, <2>1, <2>2 DEF Clock
  <2>3. CASE i \notin S
    <3>1. status'[i] = status[i] /\ attempts'[i] = attempts[i] /\ wait'[i] = wait[i]
      BY <1>1, <2>3
    <3>2. attempts[i] \in Nat
      BY DEF IInv, TypeOK
    <3>3. status[i] \notin Terminal \cup {"pending"} => Clock(i) = since[i]
      BY <3>1, <3>2 DEF Clock
    <3> QED  BY <2>1, <3>1, <3>2, <3>3, ClockType DEF InTime, Waited
  <2> QED  BY <2>2, <2>3
<1> QED  BY <1>2, <1>3 DEF InTime

\* A minute of waiting is a minute on the clock.
LEMMA TickInTime ==
  ASSUME IInv, InTime, Tick, since' = [i \in Items |-> OneMore(since[i])]
  PROVE  InTime'
<1>1. ASSUME NEW i \in Items
      PROVE  /\ since'[i] \in Nat \cup {None}
             /\ since'[i] # None => since'[i] <= MinimumToGiveUp
             /\ status'[i] = "pending" => attempts'[i] = 0
             /\ status'[i] \notin Terminal /\ attempts'[i] > 0 =>
                  since'[i] # None /\ since'[i] + Waited(i)' >= DelaySum[attempts'[i]]
  <2>1. /\ status'[i] = status[i] /\ attempts'[i] = attempts[i] /\ wait'[i] = Older(wait[i])
        /\ wait[i] \in Nat \cup {None} /\ attempts[i] \in Nat
    BY DEF Tick, IInv, TypeOK
  <2>2. since'[i] = OneMore(since[i]) /\ since[i] \in Nat \cup {None}
    BY DEF InTime
  <2>3. /\ since'[i] \in Nat \cup {None}
        /\ since'[i] # None => since'[i] <= MinimumToGiveUp
    BY <2>2, MinimumType, RetryAssumption DEF OneMore, InTime
  <2>4. ASSUME status[i] \notin Terminal, attempts[i] > 0
        PROVE  since'[i] # None /\ since'[i] + Waited(i)' >= DelaySum[attempts[i]]
    <3>1. since[i] \in Nat /\ since[i] # None /\ since[i] + Waited(i) >= DelaySum[attempts[i]]
      BY <2>2, <2>4, RetryAssumption DEF InTime
    <3>2. attempts[i] \in 0 .. MaxAttempts - 1
      BY <2>1, <2>4, RetryAssumption DEF IInv, BudgetLeft
    <3>3. DelaySum[attempts[i]] <= MinimumToGiveUp /\ DelaySum[attempts[i]] \in Nat
      BY <3>2, DelaySumGrows, DelaySumAdds DEF MinimumToGiveUp
    <3>4. Waited(i)' \in Nat /\ Waited(i) \in Nat /\ Waited(i)' + 1 >= Waited(i)
      BY <2>1, RetryAssumption DEF Waited, Older
    <3> QED  BY <2>2, <3>1, <3>3, <3>4, MinimumType, RetryAssumption DEF OneMore
  <2> QED  BY <2>1, <2>3, <2>4 DEF InTime
<1>2. since' \in [Items -> Nat \cup {None}]
  BY <1>1
<1> QED  BY <1>1, <1>2 DEF InTime

LEMMA NextInTime == IInv /\ InTime /\ [TimedNext]_timedVars => (IInv /\ InTime)'
<1> SUFFICES ASSUME IInv, InTime, [TimedNext]_timedVars PROVE IInv' /\ InTime'
  OBVIOUS
<1>1. IInv'
  <2>1. Next \/ UNCHANGED lifecycleVars
    BY DEF TimedNext, Next, timedVars, lifecycleVars
  <2> QED  BY <2>1, NextIInv
<1>2. CASE UNCHANGED timedVars
  BY <1>1, <1>2 DEF timedVars, InTime, Waited
<1> QED  BY <1>1, <1>2, ItemInTime, RetryInTime, TickInTime DEF TimedNext

\* The pipeline does not give up on an item before the delays of its whole budget have
\* passed since the first charged failure, for every budget and every schedule.
THEOREM GiveUpTakesTimeHolds == TimedSpec => GiveUpTakesTime
<1>1. ASSUME IInv, InTime, NEW i \in Items, Exhaust(i), MaxAttempts > 1
      PROVE  since[i] = MinimumToGiveUp
  <2>1. PICK a \in ChargedTo(i) : BudgetSpent(a)
    BY <1>1 DEF Exhaust
  <2>2. /\ attempts[i] \in Nat /\ attempts[i] < MaxAttempts /\ since[i] \in Nat \cup {None}
        /\ status[i] \notin Terminal /\ wait[i] \in {None, 0} /\ MaxAttempts \in Nat
    BY <1>1, RetryAssumption DEF Exhaust, Actionable, IInv, TypeOK, BudgetLeft, InTime
  <2>3. attempts[i] = MaxAttempts - 1 /\ attempts[i] > 0
    BY <1>1, <2>1, <2>2 DEF BudgetSpent, ChargedTo
  <2>4. since[i] # None /\ since[i] + Waited(i) >= MinimumToGiveUp /\ Waited(i) = 0
    BY <1>1, <2>2, <2>3 DEF InTime, Waited, MinimumToGiveUp
  <2>5. since[i] <= MinimumToGiveUp
    BY <1>1, <2>4 DEF InTime
  <2> QED  BY <2>2, <2>4, <2>5, MinimumType
<1>2. IInv /\ InTime /\ [TimedNext]_timedVars =>
        [\A i \in Items : Exhaust(i) /\ MaxAttempts > 1 => since[i] = MinimumToGiveUp]_timedVars
  BY <1>1
<1>3. TimedInit => IInv /\ InTime
  BY InitIInv, InitInTime DEF TimedInit
<1> QED  BY <1>2, <1>3, NextInTime, PTL DEF TimedSpec, GiveUpTakesTime
===============================================================================
