----------------------------- MODULE PassesProofs -----------------------------
(***************************************************************************)
(* Proofs about Passes: every lock is held by whoever is in the region it   *)
(* protects, so no two passes ever work on the same record, and no request  *)
(* left with a running loop is dropped while the server lives - for every   *)
(* number of requests, nightly processes, scripts and items, and for every  *)
(* placing of crashes, failures and lock timeouts.                          *)
(***************************************************************************)
EXTENDS Passes, TLAPS

\* A process has an item only inside a pass, or inside a recapture.
AtItsPlace ==
  /\ \A p \in Threads \cup Nightly : cur[p] # None => pc[p] = "pass"
  /\ \A s \in Scripts : pc[s] = "recapture" => cur[s] \in Items

IInv == TypeOK /\ LocksHeld /\ AtItsPlace

LEMMA InitIInv == Init => IInv
<1> SUFFICES ASSUME Init PROVE IInv
  OBVIOUS
<1>1. TypeOK
  BY PassesAssumption
  DEF Init, TypeOK, Procs, Labels, ThreadLabels, NightlyLabels, ScriptLabels
<1>2. \A p \in Procs : pc[p] = "start" /\ cur[p] = None
  BY DEF Init
<1>3. LocksHeld
  BY <1>2, PassesAssumption DEF Init, LocksHeld, Procs
<1>4. AtItsPlace
  BY <1>2 DEF AtItsPlace, Procs
<1> QED
  BY <1>1, <1>3, <1>4 DEF IInv

\* The steps of a thread outside its passes.
LEMMA GuardStep ==
  ASSUME IInv, NEW t \in Threads,
         \/ TakeGuard(t) \/ AskRerun(t) \/ ClearRerun(t) \/ CheckRerun(t) \/ ReleaseGuard(t)
         \/ TakePostGuard(t) \/ AskPostRerun(t) \/ ClearPostRerun(t) \/ CheckPostRerun(t)
         \/ ReleasePostGuard(t) \/ \E i \in Items : Post(t, i)
  PROVE  IInv'
<1> USE PassesAssumption
    DEF IInv, TypeOK, LocksHeld, AtItsPlace, Procs, Labels, ThreadLabels, NightlyLabels,
        ScriptLabels, Goto, flags
<1>1. CASE TakeGuard(t)
  BY <1>1 DEF TakeGuard
<1>2. CASE AskRerun(t)
  BY <1>2 DEF AskRerun
<1>3. CASE ClearRerun(t)
  BY <1>3 DEF ClearRerun
<1>4. CASE CheckRerun(t)
  BY <1>4 DEF CheckRerun
<1>5. CASE ReleaseGuard(t)
  BY <1>5 DEF ReleaseGuard
<1>6. CASE TakePostGuard(t)
  BY <1>6 DEF TakePostGuard
<1>7. CASE AskPostRerun(t)
  BY <1>7 DEF AskPostRerun
<1>8. CASE ClearPostRerun(t)
  BY <1>8 DEF ClearPostRerun
<1>9. CASE CheckPostRerun(t)
  BY <1>9 DEF CheckPostRerun
<1>10. CASE ReleasePostGuard(t)
  BY <1>10 DEF ReleasePostGuard
<1>11. CASE \E i \in Items : Post(t, i)
  BY <1>11 DEF Post
<1> QED
  BY <1>1, <1>2, <1>3, <1>4, <1>5, <1>6, <1>7, <1>8, <1>9, <1>10, <1>11

\* The steps of a pass, in a thread or a nightly process.
LEMMA PassStepKeeps ==
  ASSUME IInv, NEW p \in Threads \cup Nightly, PassStep(p)
  PROVE  IInv'
<1> USE PassesAssumption
    DEF IInv, TypeOK, LocksHeld, AtItsPlace, Procs, Labels, ThreadLabels, NightlyLabels,
        ScriptLabels, Goto, flags
<1>1. CASE AcquireRun(p)
  BY <1>1 DEF AcquireRun, LockFree, Actionable
<1>2. CASE RunLockTimesOut(p)
  BY <1>2 DEF RunLockTimesOut, AfterPass
<1>3. ASSUME NEW i \in Items, Begin(p, i) PROVE IInv'
  BY <1>3 DEF Begin
<1>4. CASE Finish(p)
  BY <1>4 DEF Finish
<1>5. CASE EndPass(p)
  BY <1>5 DEF EndPass, Unlock, AfterPass
<1>6. CASE FailPass(p)
  BY <1>6 DEF FailPass, Unlock, AfterPass
<1>7. CASE Chain(p)
  BY <1>7 DEF Chain, Done
<1> QED
  BY <1>1, <1>2, <1>3, <1>4, <1>5, <1>6, <1>7 DEF PassStep

LEMMA NextIInv == IInv /\ [Next]_vars => IInv'
<1> SUFFICES ASSUME IInv, [Next]_vars PROVE IInv'
  OBVIOUS
<1>1. ASSUME NEW t \in Threads, ThreadStep(t) \/ \E i \in Items : Post(t, i) PROVE IInv'
  BY <1>1, GuardStep, PassStepKeeps DEF ThreadStep
<1>2. ASSUME NEW n \in Nightly, NightlyStep(n) \/ CrashNightly(n) PROVE IInv'
  <2>1. CASE PassStep(n)
    BY <2>1, PassStepKeeps
  <2>2. CASE StartNightly(n)
    BY <2>2, PassesAssumption
    DEF StartNightly, IInv, TypeOK, LocksHeld, AtItsPlace, Procs, Labels, ThreadLabels,
        NightlyLabels, ScriptLabels, Goto, flags
  <2>3. CASE CrashNightly(n)
    <3>1. TypeOK'
      BY <2>3, PassesAssumption
      DEF CrashNightly, IInv, TypeOK, Procs, Labels, ThreadLabels, NightlyLabels,
          ScriptLabels, Goto, flags
    <3>2. LocksHeld'
      BY <2>3, PassesAssumption DEF CrashNightly, IInv, TypeOK, LocksHeld, Procs, Goto, flags
    <3>3. AtItsPlace'
      BY <2>3, PassesAssumption
      DEF CrashNightly, IInv, TypeOK, AtItsPlace, Procs, Labels, ThreadLabels, NightlyLabels,
          ScriptLabels, Goto, flags
    <3> QED
      BY <3>1, <3>2, <3>3 DEF IInv
  <2> QED
    BY <1>2, <2>1, <2>2, <2>3 DEF NightlyStep
<1>3. ASSUME NEW s \in Scripts, EndRecapture(s) \/ \E i \in Items : Recapture(s, i)
      PROVE  IInv'
  BY <1>3, PassesAssumption
  DEF EndRecapture, Recapture, IInv, TypeOK, LocksHeld, AtItsPlace, Procs, Labels,
      ThreadLabels, NightlyLabels, ScriptLabels, Goto, flags
<1>4. ASSUME NEW i \in Items, Elapse(i) PROVE IInv'
  BY <1>4 DEF Elapse, IInv, TypeOK, LocksHeld, AtItsPlace, flags
<1>5. CASE CrashServer
  <2>1. TypeOK'
    <3>0. pc' \in [Procs -> Labels]
      BY <1>5 DEF CrashServer, IInv, TypeOK, Labels, ThreadLabels
    <3>1. /\ \A t \in Threads : pc'[t] \in ThreadLabels
          /\ \A n \in Nightly : pc'[n] \in NightlyLabels
          /\ \A s \in Scripts : pc'[s] \in ScriptLabels
      <4>1. \A t \in Threads : pc'[t] \in {"start", "end"}
        BY <1>5 DEF CrashServer, Procs
      <4>2. \A p \in Nightly \cup Scripts : pc'[p] = pc[p]
        BY <1>5, PassesAssumption DEF CrashServer, Procs
      <4> QED
        BY <4>1, <4>2 DEF IInv, TypeOK, ThreadLabels
    <3>2. snapshot' \in [Procs -> SUBSET Items] /\ cur' \in [Procs -> Items \cup {None}]
      BY <1>5 DEF CrashServer, IInv, TypeOK
    <3> QED
      <4>1. runLock' \in Procs \cup {None} /\ failures' \in Nat
        BY <1>5 DEF CrashServer, IInv, TypeOK
      <4>2. /\ guard' = None /\ rerun' = FALSE /\ postGuard' = None /\ postRerun' = FALSE
            /\ status' = status /\ chained' = chained
        BY <1>5 DEF CrashServer
      <4> QED
        BY <3>0, <3>1, <3>2, <4>1, <4>2 DEF IInv, TypeOK
  <2>2. LocksHeld'
    <3>1. /\ \A t \in Threads : pc'[t] \in {"start", "end"} /\ pc'[t] # "pass"
          /\ \A p \in Procs \ Threads : pc'[p] = pc[p]
      BY <1>5 DEF CrashServer, IInv, TypeOK, Procs
    <3>2. \A t \in Threads : runLock' # t
      BY <1>5, PassesAssumption DEF CrashServer, Procs
    <3>3. \A p \in Procs \ Threads : runLock' = p <=> runLock = p
      BY <1>5, PassesAssumption DEF CrashServer, Procs
    <3>4. \A t \in Threads : guard' # t /\ postGuard' # t
      BY <1>5, PassesAssumption DEF CrashServer, Procs
    <3>5. \A p \in Procs : pc'[p] = "pass" <=> runLock' = p
      BY <3>1, <3>2, <3>3 DEF IInv, LocksHeld
    <3>6. \A t \in Threads :
            /\ pc'[t] \notin {"clear", "wait", "pass", "check", "release"}
            /\ pc'[t] \notin {"postClear", "chain", "postCheck", "postRelease"}
      BY <3>1
    <3> QED
      BY <3>4, <3>5, <3>6 DEF LocksHeld
  <2>3. AtItsPlace'
    <3>1. ASSUME NEW t \in Threads
          PROVE  cur'[t] # None => pc'[t] = "pass"
      BY <1>5 DEF CrashServer, Procs
    <3>2. \A p \in Nightly \cup Scripts : pc'[p] = pc[p] /\ cur'[p] = cur[p]
      BY <1>5, PassesAssumption DEF CrashServer, Procs
    <3> QED
      BY <3>1, <3>2 DEF IInv, AtItsPlace
  <2> QED
    BY <2>1, <2>2, <2>3 DEF IInv
<1>6. CASE UNCHANGED vars
  BY <1>6 DEF vars, IInv, TypeOK, LocksHeld, AtItsPlace
<1> QED
  BY <1>1, <1>2, <1>3, <1>4, <1>5, <1>6 DEF Next

\* The invariant holds in every reachable state.
THEOREM Invariance == Spec => []IInv
BY InitIInv, NextIInv, PTL DEF Spec

\* Every variable of the passes is well typed in every reachable state.
THEOREM TypeCorrect == Spec => []TypeOK
BY Invariance, PTL DEF IInv

\* A lock is held exactly while its holder is in the region it protects: run_once
\* and the two single-flight loops of webhook_server.py have no exit that leaks or
\* steals one.
THEOREM LocksHeldHolds == Spec => []LocksHeld
BY Invariance, PTL DEF IInv

\* Two passes never have the same record in process_item, because each is in its
\* pass while it has one, and only one of them can hold the run lock.
THEOREM Exclusion == Spec => []PassesExclude
<1>1. IInv => PassesExclude
  BY PassesAssumption DEF IInv, LocksHeld, AtItsPlace, PassesExclude, Procs
<1> QED
  BY <1>1, Invariance, PTL

\* Without scripts that go around the run lock, the promise of
\* docs/formal-model.md section 8 holds as it stands: no record is processed by
\* two workers concurrently.
THEOREM OneWorkerHolds == ASSUME Scripts = {} PROVE Spec => []OneWorker
<1>1. PassesExclude => OneWorker
  BY DEF PassesExclude, OneWorker, Procs
<1> QED
  BY <1>1, Exclusion, PTL
-------------------------------------------------------------------------------
\* What keeps the list of a pass fresh: only a pass has a list, and the item it has
\* in process_item is no longer on it.
ListsOK ==
  /\ \A p \in Threads \cup Nightly :
       /\ snapshot[p] # {} => pc[p] = "pass"
       /\ cur[p] \notin snapshot[p]
       /\ snapshot[p] \subseteq Actionable

FreshIInv == IInv /\ ListsOK

LEMMA InitFresh == Init => ListsOK
BY DEF Init, ListsOK, Procs

\* Whatever keeps the lists and the pass labels and makes no item less actionable
\* keeps them fresh.
LEMMA StatusKept ==
  ASSUME ListsOK, UNCHANGED <<snapshot, cur>>,
         \A i \in Items : status[i] \in {"pending", "busy"} => status'[i] \in {"pending", "busy"},
         \A p \in Threads \cup Nightly : pc[p] = "pass" => pc'[p] = "pass" \/ snapshot[p] = {}
  PROVE  ListsOK'
BY DEF ListsOK, Actionable

LEMMA PassStepFresh ==
  ASSUME FreshIInv, NEW p \in Threads \cup Nightly, PassStep(p)
  PROVE  ListsOK'
<1> USE DEF FreshIInv, IInv
<1>0. p \in Procs /\ pc \in [Procs -> Labels] /\ snapshot \in [Procs -> SUBSET Items]
      /\ cur \in [Procs -> Items \cup {None}]
      /\ status \in [Items -> {"absent", "pending", "busy", "waiting", "done"}]
      /\ None \notin Items /\ Threads \cup Nightly \subseteq Procs
  BY PassesAssumption DEF TypeOK, Procs
<1>1. CASE AcquireRun(p)
  <2>1. cur[p] \notin Actionable
    BY <1>1, <1>0 DEF AtItsPlace, AcquireRun, Actionable
  <2> QED
    BY <1>0, <1>1, <2>1 DEF AcquireRun, ListsOK, Actionable, Goto
<1>2. CASE RunLockTimesOut(p)
  BY <1>0, <1>2, StatusKept DEF RunLockTimesOut, ListsOK, Goto
<1>3. ASSUME NEW i \in Items, Begin(p, i) PROVE ListsOK'
  <2>1. \A q \in Threads \cup Nightly : q # p => snapshot[q] = {}
    BY <1>0, <1>3 DEF Begin, ListsOK, LocksHeld
  <2>2. /\ snapshot' = [snapshot EXCEPT ![p] = @ \ {i}] /\ cur' = [cur EXCEPT ![p] = i]
        /\ status' = [status EXCEPT ![i] = "busy"] /\ pc' = pc /\ pc[p] = "pass"
    BY <1>3 DEF Begin
  <2> QED
    BY <1>0, <2>1, <2>2 DEF ListsOK, Actionable
<1>4. CASE Finish(p)
  <2>1. \A q \in Threads \cup Nightly : q # p => snapshot[q] = {}
    BY <1>0, <1>4 DEF Finish, ListsOK, LocksHeld
  <2>2. /\ \E s \in {"done", "waiting"} : status' = [status EXCEPT ![cur[p]] = s]
        /\ cur' = [cur EXCEPT ![p] = None] /\ pc' = pc /\ snapshot' = snapshot
        /\ pc[p] = "pass"
    BY <1>4 DEF Finish
  <2> QED
    BY <1>0, <2>1, <2>2 DEF ListsOK, Actionable
<1>5. CASE EndPass(p)
  BY <1>0, <1>5, StatusKept DEF EndPass, ListsOK, Goto
<1>6. CASE FailPass(p)
  BY <1>0, <1>6 DEF FailPass, ListsOK, Actionable, Goto
<1>7. CASE Chain(p)
  BY <1>0, <1>7, StatusKept DEF Chain, ListsOK, Goto
<1> QED
  BY <1>1, <1>2, <1>3, <1>4, <1>5, <1>6, <1>7 DEF PassStep

\* Without scripts that process a record beside the passes, nobody takes an item
\* off the actionable set while it is on the list of a pass.
LEMMA NextFresh == ASSUME Scripts = {} PROVE FreshIInv /\ [Next]_vars => ListsOK'
<1> SUFFICES ASSUME FreshIInv, [Next]_vars PROVE ListsOK'
  OBVIOUS
<1>0. /\ pc \in [Procs -> Labels] /\ snapshot \in [Procs -> SUBSET Items]
      /\ cur \in [Procs -> Items \cup {None}]
      /\ status \in [Items -> {"absent", "pending", "busy", "waiting", "done"}]
      /\ None \notin Items /\ Threads \cup Nightly \subseteq Procs /\ ListsOK
      /\ Threads \cap Nightly = {}
  BY PassesAssumption DEF FreshIInv, IInv, TypeOK, Procs
<1>1. ASSUME NEW t \in Threads, ThreadStep(t) PROVE ListsOK'
  <2>1. CASE PassStep(t)
    BY <2>1, PassStepFresh
  <2>2. CASE ~PassStep(t)
    BY <1>0, <1>1, <2>2, StatusKept
    DEF ThreadStep, TakeGuard, AskRerun, ClearRerun, CheckRerun, ReleaseGuard, TakePostGuard,
        AskPostRerun, ClearPostRerun, CheckPostRerun, ReleasePostGuard, Goto
  <2> QED
    BY <2>1, <2>2
<1>2. ASSUME NEW t \in Threads, NEW i \in Items, Post(t, i) PROVE ListsOK'
  BY <1>0, <1>2, StatusKept DEF Post, Goto
<1>3. ASSUME NEW n \in Nightly, NightlyStep(n) PROVE ListsOK'
  BY <1>0, <1>3, PassStepFresh, StatusKept DEF NightlyStep, StartNightly, Goto
<1>4. ASSUME NEW n \in Nightly, CrashNightly(n) PROVE ListsOK'
  BY <1>0, <1>4 DEF CrashNightly, ListsOK, Actionable, Goto
<1>5. ASSUME NEW i \in Items, Elapse(i) PROVE ListsOK'
  BY <1>0, <1>5, StatusKept DEF Elapse
<1>6. CASE CrashServer
  <2>1. \A n \in Nightly : snapshot'[n] = snapshot[n] /\ cur'[n] = cur[n] /\ pc'[n] = pc[n]
    BY <1>0, <1>6 DEF CrashServer
  <2>2. \A t \in Threads : snapshot'[t] = {}
    BY <1>0, <1>6 DEF CrashServer
  <2> QED
    BY <1>0, <1>6, <2>1, <2>2 DEF CrashServer, ListsOK, Actionable
<1>7. CASE UNCHANGED vars
  BY <1>0, <1>7, StatusKept DEF vars
<1> QED
  BY <1>1, <1>2, <1>3, <1>4, <1>5, <1>6, <1>7 DEF Next

\* The list of a pass never goes stale: the items on it stay actionable from the
\* moment it was read until process_item takes them, since nothing but a pass takes
\* an item out of that state and only one pass holds the run lock.
THEOREM SnapshotFreshHolds == ASSUME Scripts = {} PROVE Spec => []SnapshotFresh
<1>1. Init => FreshIInv
  BY InitIInv, InitFresh DEF FreshIInv
<1>2. FreshIInv /\ [Next]_vars => FreshIInv'
  BY NextIInv, NextFresh DEF FreshIInv
<1>3. FreshIInv => SnapshotFresh
  BY DEF FreshIInv, ListsOK, SnapshotFresh, Procs
<1> QED
  BY <1>1, <1>2, <1>3, PTL DEF Spec
-------------------------------------------------------------------------------
(* The flags of the two single-flight loops. *)

\* A request that finds a loop at work, and not yet past its last look at the flag.
Asked == rerun /\ guard # None /\ pc[guard] # "release"
AskedPost == postRerun /\ postGuard # None /\ pc[postGuard] # "postRelease"

\* The loop takes a request up: the pass, or the chain, it goes on to starts after it.
TakenUp == guard' = guard /\ pc[guard] = "clear" /\ pc'[guard] = "wait"
TakenUpPost == postGuard' = postGuard /\ pc[postGuard] = "postClear" /\ pc'[postGuard] = "chain"

\* A thread's step: its own loop goes on, another's is left where it is.
LEMMA ThreadKeepsRequests ==
  ASSUME IInv, NEW t \in Threads, ThreadStep(t) \/ \E i \in Items : Post(t, i)
  PROVE  /\ Asked => (Asked' /\ guard' = guard) \/ TakenUp
         /\ AskedPost => (AskedPost' /\ postGuard' = postGuard) \/ TakenUpPost
<1> USE PassesAssumption
    DEF IInv, TypeOK, LocksHeld, Procs, Goto, flags, Asked, AskedPost, TakenUp, TakenUpPost
<1>1. CASE TakeGuard(t) \/ AskRerun(t) \/ ClearRerun(t)
  BY <1>1 DEF TakeGuard, AskRerun, ClearRerun
<1>2. CASE CheckRerun(t) \/ ReleaseGuard(t)
  BY <1>2 DEF CheckRerun, RerunWanted, ReleaseGuard
<1>3. CASE TakePostGuard(t) \/ AskPostRerun(t) \/ ClearPostRerun(t)
  BY <1>3 DEF TakePostGuard, AskPostRerun, ClearPostRerun
<1>4. CASE CheckPostRerun(t) \/ ReleasePostGuard(t)
  BY <1>4 DEF CheckPostRerun, PostRerunWanted, ReleasePostGuard
<1>5. CASE PassStep(t)
  BY <1>5 DEF PassStep, AcquireRun, RunLockTimesOut, Begin, Finish, EndPass, FailPass, Chain,
              AfterPass
<1>6. CASE \E i \in Items : Post(t, i)
  BY <1>6 DEF Post
<1> QED  BY <1>1, <1>2, <1>3, <1>4, <1>5, <1>6 DEF ThreadStep

\* "A request that arrives mid-run just marks the loop to run one more pass"
\* (webhook_server.py:181-183): once made, the mark stands, with the loop that will see it,
\* until that loop takes it up; nothing short of the end of the server takes it away. So for
\* the chain of review and organize-vault (webhook_server.py:216-220).
THEOREM RequestsKept ==
  Spec => [][\/ /\ Asked => (Asked' /\ guard' = guard) \/ TakenUp
                /\ AskedPost => (AskedPost' /\ postGuard' = postGuard) \/ TakenUpPost
             \/ CrashServer]_vars
<1>1. ASSUME IInv, Next, ~CrashServer
      PROVE  /\ Asked => (Asked' /\ guard' = guard) \/ TakenUp
             /\ AskedPost => (AskedPost' /\ postGuard' = postGuard) \/ TakenUpPost
  <2>1. CASE \E t \in Threads : ThreadStep(t) \/ \E i \in Items : Post(t, i)
    BY <1>1, <2>1, ThreadKeepsRequests
  <2>2. CASE /\ UNCHANGED flags /\ \A t \in Threads : pc'[t] = pc[t]
    BY <1>1, <2>2 DEF IInv, TypeOK, flags, Asked, AskedPost
  <2>3. ASSUME NEW n \in Nightly, NightlyStep(n) \/ CrashNightly(n)
        PROVE  UNCHANGED flags /\ \A t \in Threads : pc'[t] = pc[t]
    BY <1>1, <2>3, PassesAssumption
       DEF NightlyStep, StartNightly, CrashNightly, PassStep, AcquireRun, RunLockTimesOut, Begin,
           Finish, EndPass, FailPass, Chain, IInv, TypeOK, Procs, Goto, flags
  <2>4. ASSUME NEW s \in Scripts, EndRecapture(s) \/ \E i \in Items : Recapture(s, i)
        PROVE  UNCHANGED flags /\ \A t \in Threads : pc'[t] = pc[t]
    BY <1>1, <2>4, PassesAssumption
       DEF EndRecapture, Recapture, IInv, TypeOK, Procs, Goto, flags
  <2>5. CASE \E i \in Items : Elapse(i)
    BY <2>5, <2>2 DEF Elapse, flags
  <2> QED
    BY <1>1, <2>1, <2>2, <2>3, <2>4, <2>5 DEF Next
<1> QED  BY <1>1, Invariance, PTL DEF Spec
===============================================================================
