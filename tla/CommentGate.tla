------------------------------ MODULE CommentGate ------------------------------
(***************************************************************************)
(* The comment queue (comment_gate.py): `cli comment-queue run` follows a   *)
(* creator, posts a reel's keyword, reads the answer in the direct messages *)
(* and delivers its links; the review script queues reels and looks again   *)
(* at notes that got links. The queue file is written whole; a process has  *)
(* a copy in memory (q) and may end between any two steps.                  *)
(* Outside the code: the account (posts, follows, direct messages) and the  *)
(* clicks made there, which can neither be undone nor asked for.            *)
(***************************************************************************)
EXTENDS Integers, Sequences, FiniteSets

CONSTANTS
  NumReels,        \* gated reels, numbered in the order they come to the queue
  Post,            \* the post a reel's URL names: slides of a carousel share it
  Creator,         \* the creator of a reel
  MaxAttempts,     \* cfg.max_attempts
  MaxItems,        \* --max
  DailyWrites,     \* cfg.daily_max_writes
  DailyComments,   \* cfg.daily_max_comments
  FirstWeekComments, FirstWeekDays,  \* cfg.first_week_*
  MaxPresses,      \* cfg.max_button_presses
  MaxRechecks,     \* cfg.dm_recheck_max
  MaxMessages,     \* bound: messages a creator sends
  MaxFaults,       \* bound: errors, halts and crashes in a behaviour
  Faults,          \* subset of {"error", "halt", "crash", "save"}
  None

Reels == 1 .. NumReels
Posts == {Post[r] : r \in Reels}
Creators == {Creator[r] : r \in Reels}
Kinds == {"follow", "comment", "button", "dm"}
Messages == {"link", "ask", "button"}

TO_ACT == {"pending", "following", "followed"}
AWAITING_DM == {"commented", "verify-comment"}
OPEN == {"commenting", "commented", "verify-comment"}
Delivered == {"needs-rereview", "rereviewed"}
Statuses == TO_ACT \cup OPEN \cup Delivered
              \cup {"needs-keyword", "link-received", "dm-timeout", "failed"}

ASSUME CommentGateAssumption ==
  /\ NumReels \in Nat /\ MaxAttempts \in Nat \ {0} /\ MaxItems \in Nat /\ FirstWeekDays \in Nat
  /\ {DailyWrites, DailyComments, FirstWeekComments, MaxPresses, MaxRechecks,
      MaxMessages, MaxFaults} \subseteq Nat
  /\ Faults \subseteq {"error", "halt", "crash", "save"}
  /\ None \notin Reels

\* A link is the place in the thread it came at, 0 one handed over by the owner.
Links == Nat

\* A queue record. `known`: the creator has been read; `mark`: where in the thread we
\* commented (commented_at, once it is `confirmed`); `marker`: the last message at the
\* snapshot taken before (dm_marker), 0 for none; `told`: the messages of the text it has.
Items == [status : Statuses, attempts : 0 .. MaxAttempts, known : BOOLEAN,
          mark : Nat, marker : Nat, confirmed : BOOLEAN, presses : 0 .. MaxPresses,
          replied : BOOLEAN, rechecks : 0 .. MaxRechecks, told : SUBSET Nat,
          links : SUBSET Links]

ASSUME CommentGateNone == None \notin Items

\* The queue file: records, writes recorded in this budget day, first_apply_at
\* (only that it is set) and halted_until (only that it is ahead).
Queues == [items : [Reels -> Items \cup {None}], writes : Nat, comments : Nat,
           applied : BOOLEAN, halted : BOOLEAN]

VARIABLES
  disk,        \* data/review/comment_queue.json
  q,           \* the copy of the process that holds the queue lock; disk if there is none
  run,         \* that process: where it is, and what it works on
  posted,      \* comments we have on each post
  follows,     \* creators we follow
  thread,      \* messages of each creator, and "ours": our comments between them
  sent,        \* keyword replies sent for each reel
  clicks,      \* writes made in this budget day
  lost,        \* those of them nobody recorded
  age,         \* since the comment: 0 under two minutes, 1 within 48 hours, 2 over
  days,        \* days since the first write
  faults       \* faults so far

world == <<posted, follows, sent, clicks, lost>>
time == <<age, days>>
vars == <<disk, q, run, world, thread, time, faults>>

Idle == [step |-> "idle", apply |-> FALSE, todo |-> {}, slots |-> 0, cur |-> None,
         prior |-> "pending", kind |-> "follow"]

NewRecord(status) ==
  [status |-> status, attempts |-> 0, known |-> FALSE, mark |-> 0, marker |-> 0,
   confirmed |-> FALSE, presses |-> 0, replied |-> FALSE, rechecks |-> 0, told |-> {}, links |-> {}]

Init ==
  /\ disk = [items |-> [r \in Reels |-> None], writes |-> 0, comments |-> 0,
             applied |-> FALSE, halted |-> FALSE]
  /\ q = disk /\ run = Idle
  /\ posted = [p \in Posts |-> 0] /\ follows = {}
  /\ thread = [c \in Creators |-> <<>>]
  /\ sent = [r \in Reels |-> 0]
  /\ clicks = [writes |-> 0, comments |-> 0] /\ lost = 0
  /\ age = [r \in Reels |-> 0] /\ days = 0
  /\ faults = 0

--------------------------------------------------------------------------------
(* Helpers of the run *)

Queued(x) == {r \in Reels : x.items[r] # None}
With(x, statuses) == {r \in Queued(x) : x.items[r].status \in statuses}

\* Two open reels of one creator share a thread: the second is held back.
CreatorBusy(x, r) ==
  /\ x.items[r].known
  /\ \E o \in With(x, OPEN) \ {r} : x.items[o].known /\ Creator[o] = Creator[r]

CommentCap ==
  IF ~q.applied \/ days < FirstWeekDays THEN FirstWeekComments ELSE DailyComments

\* mutant of MayWrite: one more than the budget.
MayWriteOneMore(kind) ==
  /\ q.writes <= DailyWrites
  /\ kind = "comment" => q.comments <= CommentCap

\* _wait_for: the rolling window and the gap are slept through, a spent day is not.
MayWrite(kind) ==
  /\ q.writes < DailyWrites
  /\ kind = "comment" => q.comments < CommentCap

Fault(kind) == /\ kind \in Faults /\ faults < MaxFaults
               /\ faults' = faults + 1

At(step) == run.step = step
Item == q.items[run.cur]
Put(x, i) == [x EXCEPT !.items[run.cur] = i]

\* An act is over: unless the reel was held back it used a slot.
AfterAct(x) ==
  [run EXCEPT !.step = "act", !.cur = None, !.prior = Idle.prior, !.kind = Idle.kind,
              !.slots = IF CreatorBusy(x, run.cur) THEN @ ELSE @ - 1]

AfterPoll == [run EXCEPT !.step = "poll", !.cur = None, !.kind = Idle.kind]

\* mutant of Failed: back to where the act began.
FailedBack(x) ==
  LET i == x.items[run.cur]
      n == i.attempts + (IF run.apply THEN 1 ELSE 0)
  IN  Put(x, [i EXCEPT !.attempts = n,
                       !.status = IF n >= MaxAttempts THEN "failed" ELSE run.prior])

\* _fail: what may have been posted is never tried again.
Failed(x) ==
  LET i == x.items[run.cur]
      n == i.attempts + (IF run.apply THEN 1 ELSE 0)
      back == IF i.status = "commenting" THEN "verify-comment" ELSE run.prior
  IN  Put(x, [i EXCEPT !.attempts = n,
                       !.status = IF n >= MaxAttempts THEN "failed" ELSE back])

\* A generic exception: an act is charged, a poll is only noted; both are saved.
Raise(x) ==
  LET acting == run.kind \in {"follow", "comment"}
      y == IF acting THEN Failed(x) ELSE x
  IN  /\ q' = y /\ disk' = y
      /\ run' = IF acting THEN AfterAct(y) ELSE AfterPoll

\* _recover, and the handler of Halted: whether a comment found half-way was posted cannot be known.
Recovered(x) ==
  [x EXCEPT !.items = [r \in Reels |->
     IF r \in With(x, {"commenting"}) THEN [@[r] EXCEPT !.status = "verify-comment"]
                                      ELSE @[r]]]

\* Halted: the loop is left, halted_until is saved by run's last line.
Halt(x) ==
  /\ Fault("halt")
  /\ q' = [Recovered(x) EXCEPT !.halted = TRUE]
  /\ run' = [Idle EXCEPT !.step = "save", !.apply = run.apply]
  /\ UNCHANGED disk

Error(x) == Fault("error") /\ Raise(x)

\* Set the record and save. The file may be busy: the exception is one of the act's,
\* and the save in its handler usually succeeds.
SaveAnd(x, next) ==
  \/ q' = x /\ disk' = x /\ run' = next /\ UNCHANGED faults
  \/ Fault("save") /\ Raise(x)

--------------------------------------------------------------------------------
(* The review script queues a reel; `comment-queue run` starts and ends *)

\* apply_comment_gate and enqueue: under the lock, one record for a post.
Enqueue(r) ==
  /\ At("idle")
  /\ \A o \in Queued(disk) : o < r /\ Post[o] # Post[r]
  /\ \E status \in {"pending", "needs-keyword"} :
       disk' = [disk EXCEPT !.items[r] = NewRecord(status)]
  /\ q' = disk'
  /\ UNCHANGED <<run, world, thread, time, faults>>

StartRun(apply) ==
  /\ At("idle")
  /\ LET start == [Idle EXCEPT !.apply = apply]
     IN  IF disk.halted
         THEN q' = disk /\ run' = [start EXCEPT !.step = "save"]
         ELSE /\ q' = Recovered(disk)
              /\ run' = [start EXCEPT !.step = "act", !.todo = Queued(disk), !.slots = MaxItems]
  /\ UNCHANGED <<disk, world, thread, time, faults>>

\* Loops over the records: the next one in the queue's order that is fit, if there is one.
NextOf(fit) == {r \in fit : \A o \in fit : r <= o}
After(r) == {o \in run.todo : o > r}

Eligible == {r \in run.todo : q.items[r].status \in TO_ACT /\ ~CreatorBusy(q, r)}

NextReel ==
  /\ At("act") /\ run.slots > 0
  /\ \E r \in NextOf(Eligible) :
       run' = [run EXCEPT !.step = "open", !.todo = After(r), !.cur = r,
                          !.prior = q.items[r].status]
  /\ UNCHANGED <<disk, q, world, thread, time, faults>>

StartPolling == [Idle EXCEPT !.step = "poll", !.apply = run.apply,
                             !.todo = With(q, AWAITING_DM)]

EndActs ==
  /\ At("act")
  /\ run.slots = 0 \/ Eligible = {}
  /\ run' = StartPolling
  /\ UNCHANGED <<disk, q, world, thread, time, faults>>

--------------------------------------------------------------------------------
(* _act: follow, then comment *)

\* The reel's page names its creator; a dry run stops here.
OpenReel ==
  /\ At("open")
  /\ LET x == Put(q, [Item EXCEPT !.known = TRUE])
         stop == ~run.apply \/ CreatorBusy(x, run.cur)
     IN  \/ \E y \in {q, x} : Halt(y) \/ Error(y)
         \/ /\ q' = x
            /\ disk' = IF stop THEN x ELSE disk
            /\ run' = IF stop THEN AfterAct(x)
                      ELSE IF Item.status = "followed"
                      THEN [run EXCEPT !.step = "comment", !.kind = "comment"]
                      ELSE [run EXCEPT !.step = "follow"]
            /\ UNCHANGED faults
  /\ UNCHANGED <<world, thread, time>>

Followed == Put(q, [Item EXCEPT !.status = "followed"])
ToComment == [run EXCEPT !.step = "comment", !.kind = "comment"]

Follow ==
  /\ At("follow")
  /\ \/ Halt(q) \/ Error(q)
     \/ /\ Creator[run.cur] \in follows
        /\ SaveAnd(Followed, ToComment)
     \/ /\ Creator[run.cur] \notin follows /\ MayWrite("follow")
        /\ SaveAnd(Put(q, [Item EXCEPT !.status = "following"]), [run EXCEPT !.step = "click"])
     \/ /\ Creator[run.cur] \notin follows /\ ~MayWrite("follow")
        /\ run' = StartPolling /\ UNCHANGED <<disk, q, faults>>
  /\ UNCHANGED <<world, thread, time>>

\* The thread is marked if it can be opened (a marker of an earlier attempt stays if it
\* cannot), and our comment looked for: the page need not show one that is there, and
\* may show the keyword beside another link to us.
Comment ==
  /\ At("comment")
  /\ LET c == Creator[run.cur]
     IN  \/ /\ ~MayWrite("comment")
            /\ run' = StartPolling /\ UNCHANGED <<disk, q, thread, faults>>
         \/ /\ MayWrite("comment")
            /\ \E marker \in {Item.marker, Len(thread[c])} :
                 LET i == [Item EXCEPT !.marker = marker]
                     j == [i EXCEPT !.mark = Len(thread[c]) + 1]
                     there == Put(q, [j EXCEPT !.status = "commented", !.confirmed = TRUE])
                 IN  \/ (Halt(Put(q, i)) \/ Error(Put(q, i))) /\ UNCHANGED thread
                     \/ /\ thread' = [thread EXCEPT ![c] = Append(@, "ours")]
                        /\ \/ SaveAnd(there, AfterAct(there))
                           \/ SaveAnd(Put(q, [j EXCEPT !.status = "commenting"]),
                                      [run EXCEPT !.step = "click"])
  /\ UNCHANGED <<world, time>>

--------------------------------------------------------------------------------
(* The four writes: a click, its record, a look at the page *)

\* External: what a click does to the account. (Counting comments and replies stops at 2.)
Clicked ==
  LET more(n) == IF n < 2 THEN n + 1 ELSE n
      r == run.cur
      comment == IF run.kind = "comment" THEN 1 ELSE 0
  IN  /\ follows' = IF run.kind = "follow" THEN follows \cup {Creator[r]} ELSE follows
      /\ posted' = IF run.kind = "comment" THEN [posted EXCEPT ![Post[r]] = more(@)] ELSE posted
      /\ sent' = IF run.kind = "dm" THEN [sent EXCEPT ![r] = more(@)] ELSE sent
      /\ clicks' = [writes |-> clicks.writes + 1, comments |-> clicks.comments + comment]

\* The browser may raise before the click and after it.
Click ==
  /\ At("click")
  /\ \/ /\ Clicked
        /\ \/ run' = [run EXCEPT !.step = "record"] /\ UNCHANGED <<disk, q, lost, faults>>
           \/ Error(q) /\ lost' = lost + 1
     \/ Error(q) /\ UNCHANGED world
  /\ UNCHANGED <<thread, time>>

\* record_write, and the save after it.
RecordWrite ==
  /\ At("record")
  /\ SaveAnd([q EXCEPT !.writes = @ + 1, !.applied = TRUE,
                       !.comments = IF run.kind = "comment" THEN @ + 1 ELSE @],
             [run EXCEPT !.step = "check"])
  /\ UNCHANGED <<world, thread, time>>

CheckFollow ==
  /\ At("check") /\ run.kind = "follow"
  /\ Halt(q) \/ Error(q) \/ SaveAnd(Followed, ToComment)
  /\ UNCHANGED <<world, thread, time>>

CheckComment ==
  /\ At("check") /\ run.kind = "comment"
  /\ \/ Halt(q)
     \/ Error(Put(q, [Item EXCEPT !.confirmed = TRUE]))
     \/ \E status \in AWAITING_DM :
          LET x == Put(q, [Item EXCEPT !.status = status, !.confirmed = TRUE])
          IN  SaveAnd(x, AfterAct(x))
  /\ UNCHANGED <<world, thread, time>>

CheckAnswer ==
  /\ At("check") /\ run.kind \in {"button", "dm"}
  /\ \/ Halt(q) \/ Error(q)
     \/ /\ run' = [run EXCEPT !.step = IF run.kind = "button" THEN "press" ELSE "read"]
        /\ UNCHANGED <<disk, q, faults>>
  /\ UNCHANGED <<world, thread, time>>

--------------------------------------------------------------------------------
(* _poll_dm: press a button, reply with the keyword, take the links *)

\* _new_replies: where the messages that count begin. If all bear a time, at our comment or
\* up to two minutes earlier (bound: one message); if not, after the marker; at the
\* first message, if there is no marker or the page does not show it any more.
Begin(x, r) ==
  LET i == x.items[r]
  IN  {0, i.marker} \cup (IF i.confirmed THEN {i.mark, i.mark - 2} ELSE {})

\* The messages that count, by where they begin. Each look at the thread reads it anew.
Window(x, r, begin) ==
  {n \in DOMAIN thread[Creator[r]] : n > begin /\ thread[Creator[r]][n] # "ours"}

\* What a look may find; nothing, if the thread cannot be opened.
Windows(x, r) == {Window(x, r, begin) : begin \in Begin(x, r)} \cup {{}}
OfKind(window, r, kind) == {n \in window : thread[Creator[r]][n] = kind}

Due == {r \in run.todo : age[r] > 0 /\ q.items[r].known}

NextPoll ==
  /\ At("poll")
  /\ \E r \in NextOf(Due) :
       run' = [run EXCEPT !.todo = After(r), !.step = "press", !.cur = r, !.kind = "button"]
  /\ UNCHANGED <<disk, q, world, thread, time, faults>>

Wanted(kind, window) ==
  /\ run.apply
  /\ OfKind(window, run.cur, "link") = {} /\ OfKind(window, run.cur, kind) # {}

\* mutant of MayPress: buttons are pressed as often as they come.
MayPressOn(window) == Wanted("button", window) /\ MayWrite("button")

MayPress(window) ==
  Wanted("button", window) /\ Item.presses < MaxPresses /\ MayWrite("button")

\* The press is counted in memory only; the record of the write saves it.
Press ==
  /\ At("press")
  /\ \/ Halt(q) \/ Error(q)
     \/ \E window \in Windows(q, run.cur) :
          /\ MayPress(window)
          /\ q' = Put(q, [Item EXCEPT !.presses = @ + 1])
          /\ run' = [run EXCEPT !.step = "click"]
          /\ UNCHANGED <<disk, faults>>
     \/ \E window \in Windows(q, run.cur) :
          /\ ~MayPress(window)
          /\ run' = [run EXCEPT !.step = "reply", !.kind = "dm"]
          /\ UNCHANGED <<disk, q, faults>>
  /\ UNCHANGED <<world, thread, time>>

MayReply(window) == Wanted("ask", window) /\ ~Item.replied /\ MayWrite("dm")

\* The reply is marked as sent before it is.
Reply ==
  /\ At("reply")
  /\ \E window \in Windows(q, run.cur) :
       \/ /\ MayReply(window)
          /\ \/ Halt(q)
             \/ SaveAnd(Put(q, [Item EXCEPT !.replied = TRUE]), [run EXCEPT !.step = "click"])
       \/ /\ ~MayReply(window)
          /\ run' = [run EXCEPT !.step = "read"]
          /\ UNCHANGED <<disk, q, faults>>
  /\ UNCHANGED <<world, thread, time>>

\* What a reading makes of a record; late is the verdict when nothing new was found.
Answered(r, i, window, late) ==
  LET links == OfKind(window, r, "link")
      told == [i EXCEPT !.told = window]
  IN  IF links # {} THEN [told EXCEPT !.links = links, !.status = "link-received"]
      ELSE IF window # {} /\ window # i.told THEN told
      ELSE [i EXCEPT !.status = late]

ReadAnswer ==
  /\ At("read")
  /\ \E window \in Windows(q, run.cur) :
       q' = Put(q, Answered(run.cur, Item, window,
                            IF age[run.cur] = 2 THEN "dm-timeout" ELSE Item.status))
  /\ disk' = q' /\ run' = AfterPoll
  /\ UNCHANGED <<world, thread, time, faults>>

EndPolls ==
  /\ At("poll") /\ Due = {}
  /\ run' = IF run.apply
            THEN [run EXCEPT !.step = "recheck", !.todo = With(q, {"dm-timeout"})]
            ELSE [run EXCEPT !.step = "save", !.todo = {}]
  /\ UNCHANGED <<disk, q, world, thread, time, faults>>

\* mutant of OwnWindows: everything that counts.
OwnWindowsOpen(r) == Windows(q, r)

\* Replies belong to the latest comment before them, give or take the two minutes; if
\* they bear no times and there is a later comment, none is taken.
OwnWindows(r) ==
  LET later == {q.items[o].mark : o \in
        {o \in Queued(q) \ {r} : /\ q.items[o].known /\ Creator[o] = Creator[r]
                                 /\ q.items[o].confirmed /\ q.items[r].confirmed
                                 /\ q.items[o].mark > q.items[r].mark}}
  IN  {{n \in window : \A m \in later : n < m - early} :
         window \in Windows(q, r), early \in {0, 1}}

\* A timed-out thread is read again. (How many in a run and how many days apart is left
\* open: the loop may end at any record.)
Recheck(r) ==
  /\ At("recheck") /\ r \in run.todo
  /\ ~CreatorBusy(q, r) /\ q.items[r].known /\ q.items[r].rechecks < MaxRechecks
  /\ LET i == [q.items[r] EXCEPT !.rechecks = @ + 1]
         counted == [q EXCEPT !.items[r] = i]
     IN  \/ Halt(counted)
         \/ \E window \in OwnWindows(r) :
              /\ q' = [q EXCEPT !.items[r] = Answered(r, i, window, "dm-timeout")]
              /\ disk' = q' /\ run' = [run EXCEPT !.todo = After(r)]
              /\ UNCHANGED faults
  /\ UNCHANGED <<world, thread, time>>

EndRechecks ==
  /\ At("recheck")
  /\ run' = [run EXCEPT !.step = "save", !.todo = {}]
  /\ UNCHANGED <<disk, q, world, thread, time, faults>>

\* run's last line; a dry run delivers nothing.
Save ==
  /\ At("save")
  /\ disk' = q /\ q' = q
  /\ run' = IF run.apply THEN [Idle EXCEPT !.step = "deliver", !.apply = TRUE] ELSE Idle
  /\ UNCHANGED <<world, thread, time, faults>>

--------------------------------------------------------------------------------
(* Delivery, the hand-over by the owner, and the second review *)

\* deliver and the save after it: VaultNotes has the steps in between.
DeliveredAll(x) ==
  [x EXCEPT !.items = [r \in Reels |->
     IF r \in With(x, {"link-received"}) THEN [@[r] EXCEPT !.status = "needs-rereview"]
                                         ELSE @[r]]]

Deliver ==
  /\ At("deliver")
  /\ q' = DeliveredAll(q) /\ disk' = q' /\ run' = Idle
  /\ UNCHANGED <<world, thread, time, faults>>

\* comment-queue link: a link the owner has copied from the app, delivered at once.
HandOver(r) ==
  /\ At("idle") /\ r \in Queued(disk)
  /\ disk' = DeliveredAll([disk EXCEPT !.items[r] =
                              [@ EXCEPT !.links = {0}, !.status = "link-received"]])
  /\ q' = disk'
  /\ UNCHANGED <<run, world, thread, time, faults>>

\* rereview_delivered, its last step.
Rereview(r) ==
  /\ At("idle") /\ r \in With(disk, {"needs-rereview"})
  /\ disk' = [disk EXCEPT !.items[r].status = "rereviewed"] /\ q' = disk'
  /\ UNCHANGED <<run, world, thread, time, faults>>

--------------------------------------------------------------------------------
(* The account, the clock, the machine *)

\* Time goes by while no run is at work or where it sleeps: before and after a write.
\* (Elsewhere it changes nothing the run looks at before it sleeps or ends.)
Resting == run.step \in {"idle", "comment", "press", "reply"}

\* External: a creator whose reel has our comment sends a message.
Answer(c) ==
  /\ Resting
  /\ Cardinality({n \in DOMAIN thread[c] : thread[c][n] # "ours"}) < MaxMessages
  /\ \E r \in Reels : Creator[r] = c /\ posted[Post[r]] > 0
  /\ \E m \in Messages : thread' = [thread EXCEPT ![c] = Append(@, m)]
  /\ UNCHANGED <<disk, q, run, world, time, faults>>

Wait ==
  /\ Resting
  /\ \E r \in With(disk, AWAITING_DM) : age[r] < 2
  /\ age' = [r \in Reels |-> IF r \in With(disk, AWAITING_DM) /\ age[r] < 2
                             THEN age[r] + 1 ELSE age[r]]
  /\ UNCHANGED <<disk, q, run, world, thread, days, faults>>

\* day_start: the budget starts again, perhaps between a click and its record.
NewDay ==
  /\ clicks.writes > 0 \/ disk.writes > 0
  /\ Resting \/ At("record")
  /\ disk' = [disk EXCEPT !.writes = 0, !.comments = 0]
  /\ q' = [q EXCEPT !.writes = 0, !.comments = 0]
  /\ clicks' = [writes |-> 0, comments |-> 0] /\ lost' = 0
  /\ days' = IF disk.applied /\ days < FirstWeekDays THEN days + 1 ELSE days
  /\ UNCHANGED <<run, posted, follows, sent, thread, age, faults>>

HaltEnds ==
  /\ At("idle") /\ disk.halted
  /\ disk' = [disk EXCEPT !.halted = FALSE] /\ q' = disk'
  /\ UNCHANGED <<run, world, thread, time, faults>>

Crash ==
  /\ ~At("idle") /\ Fault("crash")
  /\ q' = disk /\ run' = Idle
  /\ lost' = IF At("record") THEN lost + 1 ELSE lost
  /\ UNCHANGED <<disk, posted, follows, sent, clicks, thread, time>>

RunStep ==
  \/ NextReel \/ EndActs \/ OpenReel \/ Follow \/ Comment \/ Click \/ RecordWrite
  \/ CheckFollow \/ CheckComment \/ CheckAnswer
  \/ NextPoll \/ Press \/ Reply \/ ReadAnswer \/ EndPolls
  \/ (\E r \in Reels : Recheck(r)) \/ EndRechecks
  \/ Save \/ Deliver

Next ==
  \/ \E r \in Reels : Enqueue(r) \/ HandOver(r) \/ Rereview(r)
  \/ \E apply \in BOOLEAN : StartRun(apply)
  \/ RunStep
  \/ \E c \in Creators : Answer(c)
  \/ Wait \/ NewDay \/ HaltEnds \/ Crash

Spec == Init /\ [][Next]_vars

--------------------------------------------------------------------------------
(* Properties *)

Steps == {"idle", "act", "open", "follow", "comment", "click", "record", "check", "poll",
          "press", "reply", "read", "recheck", "save", "deliver"}

TypeOK ==
  /\ disk \in Queues /\ q \in Queues
  /\ run \in [step : Steps, apply : BOOLEAN, todo : SUBSET Reels, slots : 0 .. MaxItems,
              cur : Reels \cup {None}, prior : TO_ACT, kind : Kinds]
  /\ posted \in [Posts -> 0 .. 2] /\ follows \subseteq Creators
  /\ thread \in [Creators -> Seq(Messages \cup {"ours"})]
  /\ sent \in [Reels -> 0 .. 2]
  /\ clicks \in [writes : Nat, comments : Nat] /\ lost \in Nat
  /\ age \in [Reels -> 0 .. 2] /\ days \in Nat
  /\ faults \in 0 .. MaxFaults

\* The module's first promise: whatever step at the account fails, is halted or dies, and
\* whatever the page shows, no post gets a second comment from us, and a bot that asks again
\* and again gets the keyword once. It takes a queue file that can be saved: with "save"
\* among the Faults it does not hold, for a comment noted in memory only is forgotten.
SentOnce ==
  /\ \A p \in Posts : posted[p] <= 1
  /\ \A r \in Reels : sent[r] <= 1

\* Replies come in one thread for each creator: two reels of one creator are never open at
\* once, and a link that came after both were commented on is delivered for one of them
\* only. (One that came before the later comment may be taken for that reel too: when the
\* messages bear no times and there is no marker of the comment, _new_replies takes the
\* whole thread, and when they do, the two minutes before the comment.)
OneThread ==
  /\ \A r, o \in With(disk, OPEN) : Creator[r] = Creator[o] => r = o
  /\ \A r, o \in Queued(disk) :
       /\ r # o /\ Creator[r] = Creator[o]
       /\ disk.items[r].confirmed /\ disk.items[o].confirmed
       => \A n \in disk.items[r].links \cap disk.items[o].links :
            n < disk.items[r].mark \/ n < disk.items[o].mark

\* No day has more writes or comments than its budget, but for those the process did not
\* live to record.
BudgetKept ==
  /\ clicks.writes <= DailyWrites + lost
  /\ clicks.comments <= CommentCap + lost

================================================================================
