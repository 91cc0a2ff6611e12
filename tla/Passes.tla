-------------------------------- MODULE Passes --------------------------------
(***************************************************************************)
(* Who runs passes over the queue, and when: the webhook server's request   *)
(* threads with their single-flight guards (webhook_server.py), the nightly *)
(* run-once of the CLI, and the run lock both take (worker.py, run_once).   *)
(* Worker.tla models what one pass does to an item; here an item is picked  *)
(* up in one step and left in another.                                      *)
(***************************************************************************)
EXTENDS Naturals, FiniteSets

CONSTANTS
  Threads,      \* requests to the webhook, each on a thread of its own
  Nightly,      \* processes that run `cli run-once` again and again
  Scripts,      \* runs of scripts/recapture_carousels.py
  Items,        \* content ids
  MaxFailures,  \* failed attempts, failed passes and crashes in a behaviour
  Faults,       \* subset of {"crash", "timeout"}
  None

Procs == Threads \cup Nightly \cup Scripts

\* Three kinds of process; None is none of them and no item.
ASSUME PassesAssumption ==
  /\ Threads \cap Nightly = {} /\ Threads \cap Scripts = {} /\ Nightly \cap Scripts = {}
  /\ None \notin Procs \cup Items
  /\ MaxFailures \in Nat
  /\ Faults \subseteq {"crash", "timeout"}

VARIABLES
  status,     \* state.json, as far as get_actionable_items looks
  runLock,    \* holder of state.run_once.lock
  guard,      \* holder of _worker_lock
  rerun,      \* _rerun_requested
  postGuard,  \* holder of _post_lock
  postRerun,  \* _post_rerun
  pc,         \* where each process is
  snapshot,   \* the actionable items a pass has still to process
  cur,        \* the item each process has in process_item
  chained,    \* done items a review-and-organize chain has started after
  failures    \* failures so far

vars == <<status, runLock, guard, rerun, postGuard, postRerun, pc, snapshot, cur,
          chained, failures>>
flags == <<guard, rerun, postGuard, postRerun>>

Init ==
  /\ status = [i \in Items |-> "absent"]
  /\ runLock = None /\ guard = None /\ rerun = FALSE
  /\ postGuard = None /\ postRerun = FALSE
  /\ pc = [p \in Procs |-> "start"]
  /\ snapshot = [p \in Procs |-> {}]
  /\ cur = [p \in Procs |-> None]
  /\ chained = {}
  /\ failures = 0

\* "busy" is any in-flight status: what a dead worker leaves is picked up again.
Actionable == {i \in Items : status[i] \in {"pending", "busy"}}

Done == {i \in Items : status[i] = "done"}

Goto(p, label) == pc' = [pc EXCEPT ![p] = label]
-------------------------------------------------------------------------------
\* POST /webhook: the link is registered (a known one stays as it is), and a pass
\* is scheduled if it can be worked on now.
Post(t, i) ==
  /\ pc[t] = "start"
  /\ status' = [status EXCEPT ![i] = IF @ = "absent" THEN "pending" ELSE @]
  /\ Goto(t, IF status'[i] \in {"pending", "busy"} THEN "task" ELSE "end")
  /\ UNCHANGED <<runLock, flags, snapshot, cur, chained, failures>>

\* The background task: only one thread at a time runs passes.
TakeGuard(t) ==
  /\ pc[t] = "task" /\ guard = None
  /\ guard' = t
  /\ Goto(t, "clear")
  /\ UNCHANGED <<status, runLock, rerun, postGuard, postRerun, snapshot, cur, chained,
                 failures>>

\* Another thread has the guard: it is asked for one more pass.
AskRerun(t) ==
  /\ pc[t] = "task" /\ guard # None
  /\ rerun' = TRUE
  /\ Goto(t, "end")
  /\ UNCHANGED <<status, runLock, guard, postGuard, postRerun, snapshot, cur, chained,
                 failures>>

ClearRerun(t) ==
  /\ pc[t] = "clear"
  /\ rerun' = FALSE
  /\ Goto(t, "wait")
  /\ UNCHANGED <<status, runLock, guard, postGuard, postRerun, snapshot, cur, chained,
                 failures>>

\* mutant of RerunWanted: the loop never looks at the flag
RerunIgnored == FALSE

RerunWanted == rerun

\* After a pass, however it ended.
CheckRerun(t) ==
  /\ pc[t] = "check" /\ t \in Threads
  /\ Goto(t, IF RerunWanted THEN "clear" ELSE "release")
  /\ UNCHANGED <<status, runLock, flags, snapshot, cur, chained, failures>>

ReleaseGuard(t) ==
  /\ pc[t] = "release"
  /\ guard' = None
  /\ Goto(t, "postTask")
  /\ UNCHANGED <<status, runLock, rerun, postGuard, postRerun, snapshot, cur, chained,
                 failures>>

\* The same single flight for review and organize-vault.
TakePostGuard(t) ==
  /\ pc[t] = "postTask" /\ postGuard = None
  /\ postGuard' = t
  /\ Goto(t, "postClear")
  /\ UNCHANGED <<status, runLock, guard, rerun, postRerun, snapshot, cur, chained, failures>>

AskPostRerun(t) ==
  /\ pc[t] = "postTask" /\ postGuard # None
  /\ postRerun' = TRUE
  /\ Goto(t, "end")
  /\ UNCHANGED <<status, runLock, guard, rerun, postGuard, snapshot, cur, chained, failures>>

ClearPostRerun(t) ==
  /\ pc[t] = "postClear"
  /\ postRerun' = FALSE
  /\ Goto(t, "chain")
  /\ UNCHANGED <<status, runLock, guard, rerun, postGuard, snapshot, cur, chained, failures>>

\* mutant of PostRerunWanted: the loop never looks at the flag
PostRerunIgnored == FALSE

PostRerunWanted == postRerun

CheckPostRerun(t) ==
  /\ pc[t] = "postCheck"
  /\ Goto(t, IF PostRerunWanted THEN "postClear" ELSE "postRelease")
  /\ UNCHANGED <<status, runLock, flags, snapshot, cur, chained, failures>>

ReleasePostGuard(t) ==
  /\ pc[t] = "postRelease"
  /\ postGuard' = None
  /\ Goto(t, "end")
  /\ UNCHANGED <<status, runLock, guard, rerun, postRerun, snapshot, cur, chained, failures>>
-------------------------------------------------------------------------------
\* The scheduled task starts `cli run-once`.
StartNightly(n) ==
  /\ pc[n] = "start" /\ n \in Nightly
  /\ Goto(n, "wait")
  /\ UNCHANGED <<status, runLock, flags, snapshot, cur, chained, failures>>

\* mutant of LockFree: the file lock does not exclude
LockIgnored == TRUE

LockFree == runLock = None

\* run_once gets the lock; the actionable items are read under it.
AcquireRun(p) ==
  /\ pc[p] = "wait" /\ LockFree
  /\ runLock' = p
  /\ snapshot' = [snapshot EXCEPT ![p] = Actionable]
  /\ Goto(p, "pass")
  /\ UNCHANGED <<status, flags, cur, chained, failures>>

\* mutant of AfterPass: the command line runs the loop of the threads
AfterPassCheck(p) == "check"

\* mutant of AfterPass: no review follows a pass of the command line
AfterPassAlone(p) == IF p \in Threads THEN "check" ELSE "start"

\* What follows run_once: the loop of the thread, or the nightly review.
AfterPass(p) == IF p \in Threads THEN "check" ELSE "chain"

\* Ten minutes are over: RunOnceLockError.
RunLockTimesOut(p) ==
  /\ pc[p] = "wait" /\ runLock # None /\ "timeout" \in Faults
  /\ Goto(p, AfterPass(p))
  /\ UNCHANGED <<status, runLock, flags, snapshot, cur, chained, failures>>

\* process_item starts: an in-flight status is saved.
Begin(p, i) ==
  /\ pc[p] = "pass" /\ cur[p] = None /\ i \in snapshot[p]
  /\ cur' = [cur EXCEPT ![p] = i]
  /\ snapshot' = [snapshot EXCEPT ![p] = @ \ {i}]
  /\ status' = [status EXCEPT ![i] = "busy"]
  /\ UNCHANGED <<runLock, flags, pc, chained, failures>>

\* It ends: the item is settled, or fails and waits for its retry time.
Finish(p) ==
  /\ pc[p] = "pass" /\ cur[p] # None
  /\ \/ status' = [status EXCEPT ![cur[p]] = "done"] /\ UNCHANGED failures
     \/ /\ failures < MaxFailures
        /\ status' = [status EXCEPT ![cur[p]] = "waiting"]
        /\ failures' = failures + 1
  /\ cur' = [cur EXCEPT ![p] = None]
  /\ UNCHANGED <<runLock, flags, pc, snapshot, chained>>

\* mutant of Unlock: the lock outlives the pass that held it
UnlockForgotten == runLock' = runLock

Unlock == runLock' = None

EndPass(p) ==
  /\ pc[p] = "pass" /\ cur[p] = None /\ snapshot[p] = {}
  /\ Unlock
  /\ Goto(p, AfterPass(p))
  /\ UNCHANGED <<status, flags, snapshot, cur, chained, failures>>

\* An exception leaves run_once: the last save of an item timed out.
FailPass(p) ==
  /\ pc[p] = "pass" /\ failures < MaxFailures
  /\ Unlock
  /\ snapshot' = [snapshot EXCEPT ![p] = {}]
  /\ cur' = [cur EXCEPT ![p] = None]
  /\ failures' = failures + 1
  /\ Goto(p, AfterPass(p))
  /\ UNCHANGED <<status, flags, chained>>

\* Review and organize-vault, from a thread or as the nightly tasks: they find the
\* notes of every item that is done by now.
Chain(p) ==
  /\ pc[p] = "chain"
  /\ chained' = chained \cup Done
  /\ Goto(p, IF p \in Threads THEN "postCheck" ELSE "start")
  /\ UNCHANGED <<status, runLock, flags, snapshot, cur, failures>>

\* next_retry_at of a failed item passes.
Elapse(i) ==
  /\ status[i] = "waiting"
  /\ status' = [status EXCEPT ![i] = "pending"]
  /\ UNCHANGED <<runLock, flags, pc, snapshot, cur, chained, failures>>

\* The server is killed with all its threads: the lock files are free again, the
\* guards and flags are new.
CrashServer ==
  /\ "crash" \in Faults /\ failures < MaxFailures
  /\ failures' = failures + 1
  /\ pc' = [p \in Procs |-> IF p \in Threads /\ pc[p] # "start" THEN "end" ELSE pc[p]]
  /\ snapshot' = [p \in Procs |-> IF p \in Threads THEN {} ELSE snapshot[p]]
  /\ cur' = [p \in Procs |-> IF p \in Threads THEN None ELSE cur[p]]
  /\ runLock' = IF runLock \in Threads THEN None ELSE runLock
  /\ guard' = None /\ rerun' = FALSE /\ postGuard' = None /\ postRerun' = FALSE
  /\ UNCHANGED <<status, chained>>

CrashNightly(n) ==
  /\ "crash" \in Faults /\ pc[n] # "start" /\ failures < MaxFailures
  /\ failures' = failures + 1
  /\ Goto(n, "start")
  /\ snapshot' = [snapshot EXCEPT ![n] = {}]
  /\ cur' = [cur EXCEPT ![n] = None]
  /\ runLock' = IF runLock = n THEN None ELSE runLock
  /\ UNCHANGED <<status, flags, chained>>

\* recapture_one calls process_item on a done record without the run lock.
Recapture(s, i) ==
  /\ pc[s] = "start" /\ s \in Scripts /\ status[i] = "done"
  /\ cur' = [cur EXCEPT ![s] = i]
  /\ status' = [status EXCEPT ![i] = "busy"]
  /\ Goto(s, "recapture")
  /\ UNCHANGED <<runLock, flags, snapshot, chained, failures>>

\* The record is done again: with a new note, or restored.
EndRecapture(s) ==
  /\ pc[s] = "recapture"
  /\ status' = [status EXCEPT ![cur[s]] = "done"]
  /\ cur' = [cur EXCEPT ![s] = None]
  /\ Goto(s, "end")
  /\ UNCHANGED <<runLock, flags, snapshot, chained, failures>>
-------------------------------------------------------------------------------
PassStep(p) ==
  \/ AcquireRun(p) \/ RunLockTimesOut(p) \/ (\E i \in Items : Begin(p, i)) \/ Finish(p)
  \/ EndPass(p) \/ FailPass(p) \/ Chain(p)

ThreadStep(t) ==
  \/ TakeGuard(t) \/ AskRerun(t) \/ ClearRerun(t) \/ CheckRerun(t) \/ ReleaseGuard(t)
  \/ TakePostGuard(t) \/ AskPostRerun(t) \/ ClearPostRerun(t) \/ CheckPostRerun(t)
  \/ ReleasePostGuard(t)
  \/ PassStep(t)

NightlyStep(n) == StartNightly(n) \/ PassStep(n)

Next ==
  \/ \E t \in Threads : ThreadStep(t) \/ \E i \in Items : Post(t, i)
  \/ \E n \in Nightly : NightlyStep(n) \/ CrashNightly(n)
  \/ \E s \in Scripts : EndRecapture(s) \/ \E i \in Items : Recapture(s, i)
  \/ \E i \in Items : Elapse(i)
  \/ CrashServer

Spec == Init /\ [][Next]_vars

\* The operating system runs every thread and process, and the scheduler starts
\* the nightly task again and again.  Nobody has to send a request.
Fairness ==
  /\ \A t \in Threads : WF_vars(ThreadStep(t))
  /\ \A n \in Nightly : WF_vars(NightlyStep(n))
  /\ \A i \in Items : WF_vars(Elapse(i))

FairSpec == Spec /\ Fairness
-------------------------------------------------------------------------------
\* Where each kind of process can be.
ThreadLabels == {"start", "task", "clear", "wait", "pass", "check", "release", "postTask",
                 "postClear", "chain", "postCheck", "postRelease", "end"}
NightlyLabels == {"start", "wait", "pass", "chain"}
ScriptLabels == {"start", "recapture", "end"}
Labels == ThreadLabels \cup NightlyLabels \cup ScriptLabels

\* The variables hold what their comments say; no process strays into the code of
\* another kind.
TypeOK ==
  /\ status \in [Items -> {"absent", "pending", "busy", "waiting", "done"}]
  /\ runLock \in Procs \cup {None}
  /\ guard \in Threads \cup {None} /\ rerun \in BOOLEAN
  /\ postGuard \in Threads \cup {None} /\ postRerun \in BOOLEAN
  /\ pc \in [Procs -> Labels]
  /\ \A t \in Threads : pc[t] \in ThreadLabels
  /\ \A n \in Nightly : pc[n] \in NightlyLabels
  /\ \A s \in Scripts : pc[s] \in ScriptLabels
  /\ snapshot \in [Procs -> SUBSET Items]
  /\ cur \in [Procs -> Items \cup {None}]
  /\ chained \subseteq Items
  /\ failures \in Nat

\* Whoever is in a pass holds the run lock, whoever is in a guarded region holds
\* its guard, and nobody else does: no exit leaves a lock behind, which would
\* stop all later passes, and none frees one it does not hold.
LocksHeld ==
  /\ \A p \in Procs : pc[p] = "pass" <=> runLock = p
  /\ \A t \in Threads :
       /\ guard = t <=> pc[t] \in {"clear", "wait", "pass", "check", "release"}
       /\ postGuard = t <=> pc[t] \in {"postClear", "chain", "postCheck", "postRelease"}

\* "So no record is processed by two workers concurrently"
\* (docs/formal-model.md section 8).
OneWorker ==
  \A p, q \in Procs : p # q /\ cur[p] # None => cur[p] # cur[q]

\* That sentence for the passes alone, whatever scripts run beside them: two
\* processes in run_once never have the same record in process_item.
PassesExclude ==
  \A p, q \in Threads \cup Nightly : p # q /\ cur[p] # None => cur[p] # cur[q]

\* The list a pass works through never goes stale: an item it has still to process
\* is still actionable, however long the pass takes and whatever is registered.
SnapshotFresh ==
  \A p \in Procs : snapshot[p] \subseteq Actionable

\* The flags do their work: a request that finds a pass running, or about to run, gets one
\* more pass, and its item is settled with nobody else's help; one that finds the chain of
\* review and organize-vault running gets one more chain, unless the item is taken in hand
\* again before it comes to that.
FlagsServed ==
  \A i \in Items :
    /\ (/\ status[i] = "pending" /\ rerun
        /\ guard # None /\ pc[guard] # "release") ~> (status[i] = "done")
    /\ (/\ i \in Done \ chained /\ postRerun
        /\ postGuard # None /\ pc[postGuard] # "postRelease")
         ~> (i \in chained \/ i \notin Done)

\* "A request that arrives mid-run just marks the loop to run one more pass"
\* (webhook_server.py:181-183): no registered item is left behind.
Drained ==
  \A i \in Items : (status[i] = "pending") ~> (status[i] = "done")

\* "After ingest, run the rest of the nightly chain" (webhook_server.py:216-220):
\* every finished item gets its review and its place in the vault.
Followed ==
  \A i \in Items : (i \in Done) ~> (i \in chained)
===============================================================================
