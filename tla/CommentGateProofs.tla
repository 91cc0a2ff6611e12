--------------------------- MODULE CommentGateProofs ---------------------------
(***************************************************************************)
(* Proofs about CommentGate, for any reels, creators and budgets and all    *)
(* faults but a save of the queue file that fails: types; one comment for a *)
(* post and one reply for a reel; one thread for the reels of a creator; the *)
(* budget. The queue is kept twice, on disk and in memory: what holds of the *)
(* one holds of the other (QueueOK), and a step puts at most one record into *)
(* it.                                                                       *)
(***************************************************************************)
EXTENDS CommentGate, TLAPS

\* The files can be written, and the first week has a day.
Setting == "save" \notin Faults /\ FirstWeekDays > 0

\* The records of the creator's other reels.
Others(x, r) == {o \in Queued(x) \ {r} : Creator[o] = Creator[r]}

\* A record: nothing is posted before it is noted, nor a reply sent; its links are in the
\* thread, and there are none before there is a comment.
ItemOK(r, i) ==
  /\ i.status \in TO_ACT => posted[Post[r]] = 0
  /\ i.status \in TO_ACT \cup {"commenting"} => i.attempts < MaxAttempts /\ i.links = {}
  /\ i.status \in OPEN => i.known /\ i.mark > 0
  /\ i.confirmed => i.known
  /\ sent[r] > 0 => i.replied
  /\ i.mark <= Len(thread[Creator[r]])
  /\ \A n \in i.links : n <= Len(thread[Creator[r]])

\* An open record is the newest of its creator, and the only open one.
Newest(x, r) ==
  \A o \in Others(x, r) :
    /\ x.items[o].status \notin OPEN /\ x.items[o].mark < x.items[r].mark
    /\ \A n \in x.items[o].links : n < x.items[r].mark

\* Of two comments seen to succeed, the earlier has no links from after the later.
Ordered(x, r, o) ==
  /\ x.items[r].mark # x.items[o].mark
  /\ x.items[r].mark < x.items[o].mark => \A n \in x.items[r].links : n < x.items[o].mark

Related(x) ==
  /\ x \in Queues
  /\ \A r \in With(x, OPEN) : Newest(x, r)
  /\ \A r \in Queued(x) : \A o \in Others(x, r) :
       /\ x.items[r].confirmed /\ x.items[o].confirmed => Ordered(x, r, o)
  /\ \A r, o \in Queued(x) : Post[r] = Post[o] => r = o

QueueOK(x) == Related(x) /\ \A r \in Queued(x) : ItemOK(r, x.items[r])

\* The copy and the file have the same records and counts; what is not queued is untouched.
Agree ==
  /\ Queued(q) = Queued(disk)
  /\ q.writes = disk.writes /\ q.comments = disk.comments /\ q.applied = disk.applied
  /\ \A p \in Posts : posted[p] > 0 => \E r \in Queued(disk) : Post[r] = p
  /\ \A r \in Reels \ Queued(disk) : sent[r] = 0

Writing == {"click", "record", "check"}
Acting == \/ run.step \in {"open", "follow", "comment"}
          \/ run.step \in Writing /\ run.kind \in {"follow", "comment"}
Polling == \/ run.step \in {"press", "reply", "read"}
           \/ run.step \in Writing /\ run.kind \in {"button", "dm"}
Free == Item.known /\ ~CreatorBusy(q, run.cur)

\* What an act knows at its steps.
ActOK ==
  /\ Acting => run.cur \in Queued(q) /\ run.slots > 0 /\ run.kind \in {"follow", "comment"}
  /\ At("act") => run.kind = "follow"
  /\ At("open") => Item.status \in TO_ACT /\ run.kind = "follow"
  /\ At("follow") => Item.status \in TO_ACT /\ run.kind = "follow" /\ Free
  /\ At("comment") => Item.status = "followed" /\ run.kind = "comment" /\ Free
  /\ run.step \in Writing /\ run.kind = "follow" => Item.status = "following" /\ Free
  /\ run.step \in Writing /\ run.kind = "comment" => Item.status = "commenting"

\* What a poll knows: its records await an answer, those of the second look have had none.
PollOK ==
  /\ Polling => /\ run.cur \in With(q, AWAITING_DM) /\ run.cur \notin run.todo
                /\ run.kind \in {"button", "dm"}
  /\ Polling \/ At("poll") => run.todo \subseteq With(q, AWAITING_DM)
  /\ At("act") \/ Acting => run.todo \subseteq Queued(q)
  /\ At("recheck") => run.todo \subseteq With(q, {"dm-timeout"})
  /\ At("press") => run.kind = "button"

\* Before a click it is noted on the disk, and its budget is free.
ClickOK ==
  At("click") =>
    /\ q.writes < DailyWrites
    /\ run.kind = "comment" =>
         /\ q.comments < CommentCap /\ posted[Post[run.cur]] = 0
         /\ disk.items[run.cur].status = "commenting"
    /\ run.kind = "dm" =>
         /\ Item.replied /\ disk.items[run.cur].replied /\ sent[run.cur] = 0

\* Clicks are recorded, about to be, or lost.
Recorded ==
  /\ ~disk.applied => days = 0
  /\ clicks.writes <= disk.writes + lost + (IF At("record") THEN 1 ELSE 0)
  /\ clicks.comments <= disk.comments + lost
                          + (IF At("record") /\ run.kind = "comment" THEN 1 ELSE 0)
  /\ At("record") => q.writes < DailyWrites

IInv ==
  /\ Setting /\ TypeOK /\ QueueOK(disk) /\ QueueOK(q) /\ Agree
  /\ ActOK /\ PollOK /\ ClickOK /\ Recorded /\ SentOnce /\ BudgetKept

--------------------------------------------------------------------------------
(* The records keep their types when a field is changed. *)

Runs ==
  [step : Steps, apply : BOOLEAN, todo : SUBSET Reels, slots : 0 .. MaxItems,
   cur : Reels \cup {None}, prior : TO_ACT, kind : Kinds]

LEMMA Constants ==
  /\ NumReels \in Nat /\ MaxAttempts \in Nat \ {0} /\ MaxItems \in Nat /\ FirstWeekDays \in Nat
  /\ DailyWrites \in Nat /\ DailyComments \in Nat /\ FirstWeekComments \in Nat
  /\ MaxPresses \in Nat /\ MaxRechecks \in Nat /\ MaxFaults \in Nat
  /\ None \notin Reels /\ Reels \subseteq Nat
BY CommentGateAssumption DEF Reels

LEMMA RunFields ==
  ASSUME NEW u \in Runs
  PROVE  /\ \A s \in Steps : [u EXCEPT !.step = s] \in Runs
         /\ \A s \in SUBSET Reels : [u EXCEPT !.todo = s] \in Runs
         /\ \A s \in 0 .. MaxItems : [u EXCEPT !.slots = s] \in Runs
         /\ \A s \in Reels \cup {None} : [u EXCEPT !.cur = s] \in Runs
         /\ \A s \in TO_ACT : [u EXCEPT !.prior = s] \in Runs
         /\ \A s \in Kinds : [u EXCEPT !.kind = s] \in Runs
BY DEF Runs

LEMMA ItemFields ==
  ASSUME NEW i \in Items
  PROVE  /\ \A s \in Statuses : [i EXCEPT !.status = s] \in Items
         /\ \A s \in 0 .. MaxAttempts : [i EXCEPT !.attempts = s] \in Items
         /\ \A s \in BOOLEAN : [i EXCEPT !.known = s] \in Items
         /\ \A s \in Nat : [i EXCEPT !.mark = s] \in Items
         /\ \A s \in Nat : [i EXCEPT !.marker = s] \in Items
         /\ \A s \in BOOLEAN : [i EXCEPT !.confirmed = s] \in Items
         /\ \A s \in 0 .. MaxPresses : [i EXCEPT !.presses = s] \in Items
         /\ \A s \in BOOLEAN : [i EXCEPT !.replied = s] \in Items
         /\ \A s \in 0 .. MaxRechecks : [i EXCEPT !.rechecks = s] \in Items
         /\ \A s \in SUBSET Nat : [i EXCEPT !.told = s] \in Items
         /\ \A s \in SUBSET Links : [i EXCEPT !.links = s] \in Items
BY DEF Items

LEMMA TypeMeans ==
  TypeOK <=>
    /\ disk \in Queues /\ q \in Queues /\ run \in Runs
    /\ posted \in [Posts -> 0 .. 2] /\ follows \subseteq Creators
    /\ thread \in [Creators -> Seq(Messages \cup {"ours"})] /\ sent \in [Reels -> 0 .. 2]
    /\ clicks \in [writes : Nat, comments : Nat] /\ lost \in Nat
    /\ age \in [Reels -> 0 .. 2] /\ days \in Nat /\ faults \in 0 .. MaxFaults
BY DEF TypeOK, Runs

LEMMA ItemType ==
  ASSUME NEW x \in Queues, NEW r \in Queued(x)
  PROVE  r \in Reels /\ x.items[r] \in Items
BY DEF Queues, Queued

PutAt(x, c, i) == [x EXCEPT !.items[c] = i]

LEMMA PutIs == \A x, i : Put(x, i) = PutAt(x, run.cur, i)
BY DEF Put, PutAt

\* Where a record is put, and where it is not.
LEMMA PutFacts ==
  ASSUME NEW x \in Queues, NEW c \in Queued(x), NEW i \in Items
  PROVE  /\ PutAt(x, c, i) \in Queues /\ Queued(PutAt(x, c, i)) = Queued(x)
         /\ PutAt(x, c, i).items[c] = i
         /\ \A r \in Reels \ {c} : PutAt(x, c, i).items[r] = x.items[r]
         /\ PutAt(x, c, i).writes = x.writes /\ PutAt(x, c, i).comments = x.comments
         /\ PutAt(x, c, i).applied = x.applied /\ PutAt(x, c, i).halted = x.halted
<1>1. c \in Reels /\ i # None /\ x.items[c] # None
  BY CommentGateNone DEF Queued
<1>2. /\ PutAt(x, c, i) \in Queues /\ PutAt(x, c, i).items[c] = i
      /\ \A r \in Reels \ {c} : PutAt(x, c, i).items[r] = x.items[r]
  BY <1>1 DEF PutAt, Queues
<1>3. Queued(PutAt(x, c, i)) = Queued(x)
  BY <1>1, <1>2 DEF Queued
<1> QED  BY <1>2, <1>3 DEF PutAt, Queues

--------------------------------------------------------------------------------
(* What a put must show to keep QueueOK. *)

Setup(x) == QueueOK(x) /\ run.cur \in Queued(x)

\* Beside the records of the same creator nothing is related to the one put.
LEMMA PutRelated ==
  ASSUME NEW x, Related(x), NEW c \in Queued(x), NEW i \in Items,
         i.status \in OPEN =>
           \A o \in Others(x, c) :
             /\ x.items[o].status \notin OPEN /\ x.items[o].mark < i.mark
             /\ \A n \in x.items[o].links : n < i.mark,
         \A o \in Others(x, c) :
           x.items[o].status \in OPEN =>
             i.status \notin OPEN /\ i.mark < x.items[o].mark /\ \A n \in i.links : n < x.items[o].mark,
         \A o \in Others(x, c) :
           i.confirmed /\ x.items[o].confirmed =>
             /\ i.mark # x.items[o].mark
             /\ i.mark < x.items[o].mark => \A n \in i.links : n < x.items[o].mark
             /\ x.items[o].mark < i.mark => \A n \in x.items[o].links : n < i.mark
  PROVE  Related(PutAt(x, c, i))
<1> DEFINE y == PutAt(x, c, i)
<1>1. /\ y \in Queues /\ Queued(y) = Queued(x) /\ y.items[c] = i /\ c \in Queued(x)
      /\ \A r \in Reels \ {c} : y.items[r] = x.items[r]
  BY PutFacts DEF Related
<1> HIDE DEF y
<1>2. \A r \in Queued(y) : r \in Reels /\ (r = c \/ y.items[r] = x.items[r])
  BY <1>1 DEF Queued
<1>3. \A r : Others(y, r) = Others(x, r)
  BY <1>1 DEF Others
<1>5. ASSUME NEW r \in With(y, OPEN)
      PROVE  Newest(y, r)
  <2>1. r \in Queued(x) /\ y.items[r].status \in OPEN
    BY <1>1, <1>5 DEF With
  <2>2. CASE r = c
    <3>1. \A o \in Others(x, c) : y.items[o] = x.items[o]
      BY <1>1, <1>2 DEF Others
    <3> QED  BY <1>1, <1>3, <2>1, <2>2, <3>1 DEF Newest
  <2>3. CASE r # c
    <3>1. y.items[r] = x.items[r] /\ Newest(x, r)
      BY <1>1, <1>2, <2>1, <2>3 DEF Related, With
    <3>2. ASSUME NEW o \in Others(x, r)
          PROVE  /\ y.items[o].status \notin OPEN /\ y.items[o].mark < y.items[r].mark
                 /\ \A n \in y.items[o].links : n < y.items[r].mark
      <4>1. CASE o = c
        <5>1. r \in Others(x, c)
          BY <2>1, <2>3, <3>2, <4>1 DEF Others
        <5> QED  BY <1>1, <2>1, <3>1, <4>1, <5>1
      <4>2. CASE o # c
        BY <1>1, <1>2, <3>1, <3>2, <4>2 DEF Others, Newest
      <4> QED  BY <4>1, <4>2
    <3> QED  BY <1>3, <3>2 DEF Newest
  <2> QED  BY <2>2, <2>3
<1>6. ASSUME NEW r \in Queued(y), NEW o \in Others(y, r), y.items[r].confirmed, y.items[o].confirmed
      PROVE  Ordered(y, r, o)
  <2>1. r \in Queued(x) /\ o \in Queued(x) /\ o \in Others(x, r) /\ r \in Others(x, o) /\ r # o
    BY <1>1, <1>3, <1>6 DEF Others
  <2>2. CASE r = c
    BY <1>1, <1>2, <1>6, <2>1, <2>2 DEF Ordered
  <2>3. CASE o = c
    BY <1>1, <1>2, <1>6, <2>1, <2>3 DEF Ordered
  <2>4. CASE r # c /\ o # c
    BY <1>1, <1>2, <1>6, <2>1, <2>4 DEF Ordered, Related
  <2> QED  BY <2>2, <2>3, <2>4
<1>7. \A r, o \in Queued(y) : Post[r] = Post[o] => r = o
  BY <1>1 DEF Related
<1> QED  BY <1>1, <1>5, <1>6, <1>7 DEF Related, y

LEMMA PutKeeps ==
  ASSUME NEW x, QueueOK(x), NEW c \in Queued(x), NEW i \in Items, ItemOK(c, i),
         Related(PutAt(x, c, i))
  PROVE  QueueOK(PutAt(x, c, i))
<1>1. /\ Queued(PutAt(x, c, i)) = Queued(x) /\ PutAt(x, c, i).items[c] = i
      /\ \A r \in Reels \ {c} : PutAt(x, c, i).items[r] = x.items[r]
  BY PutFacts DEF QueueOK, Related
<1> QED  BY <1>1 DEF QueueOK, Queued

\* A put that leaves the comment and its links as they are.
LEMMA QuietPut ==
  ASSUME NEW x, QueueOK(x), NEW c \in Queued(x), NEW i \in Items, ItemOK(c, i),
         i.mark = x.items[c].mark, i.links = x.items[c].links,
         i.status \in OPEN => x.items[c].status \in OPEN,
         i.confirmed => x.items[c].confirmed \/ x.items[c].status \in OPEN
  PROVE  QueueOK(PutAt(x, c, i))
<1>1. x \in Queues /\ c \in Queued(x)
  BY DEF QueueOK, Related
<1>2. ASSUME NEW o \in Others(x, c)
      PROVE  o \in Queued(x) /\ c \in Others(x, o) /\ x.items[o].mark \in Nat /\ x.items[c].mark \in Nat
  BY <1>1, <1>2, ItemType DEF Others, Items
<1>3. x.items[c].status \in OPEN => Newest(x, c)
  BY <1>1 DEF QueueOK, Related, With
<1>4. \A o \in Others(x, c) : x.items[o].status \in OPEN => Newest(x, o)
  BY <1>1, <1>2 DEF QueueOK, Related, With
<1>5. \A o \in Others(x, c) :
        x.items[c].confirmed /\ x.items[o].confirmed => Ordered(x, c, o) /\ Ordered(x, o, c)
  BY <1>1, <1>2 DEF QueueOK, Related
<1>6. i.status \in OPEN =>
        \A o \in Others(x, c) :
          /\ x.items[o].status \notin OPEN /\ x.items[o].mark < i.mark
          /\ \A n \in x.items[o].links : n < i.mark
  BY <1>3 DEF Newest
<1>7. \A o \in Others(x, c) :
        x.items[o].status \in OPEN =>
          i.status \notin OPEN /\ i.mark < x.items[o].mark /\ \A n \in i.links : n < x.items[o].mark
  BY <1>2, <1>4 DEF Newest
<1>8. ASSUME NEW o \in Others(x, c), i.confirmed, x.items[o].confirmed
      PROVE  /\ i.mark # x.items[o].mark
             /\ i.mark < x.items[o].mark => \A n \in i.links : n < x.items[o].mark
             /\ x.items[o].mark < i.mark => \A n \in x.items[o].links : n < i.mark
  <2>1. CASE x.items[c].confirmed
    BY <1>5, <1>8, <2>1 DEF Ordered
  <2>2. CASE x.items[c].status \in OPEN
    BY <1>2, <1>3, <1>8, <2>2 DEF Newest
  <2> QED  BY <1>8, <2>1, <2>2
<1>9. Related(PutAt(x, c, i))
  BY <1>1, <1>6, <1>7, <1>8, PutRelated DEF QueueOK
<1> QED  BY <1>9, PutKeeps

\* Statuses may move on, within the open ones or out of them, and counts may change.
LEMMA MoveKeeps ==
  ASSUME NEW x, QueueOK(x), NEW y \in Queues, Queued(y) = Queued(x),
         \A r \in Queued(x) :
           /\ y.items[r].mark = x.items[r].mark /\ y.items[r].links = x.items[r].links
           /\ y.items[r].confirmed = x.items[r].confirmed /\ y.items[r].known = x.items[r].known
           /\ y.items[r].replied = x.items[r].replied /\ y.items[r].attempts = x.items[r].attempts
           /\ \/ y.items[r].status = x.items[r].status
              \/ /\ y.items[r].status \notin TO_ACT \cup {"commenting"}
                 /\ y.items[r].status \in OPEN => x.items[r].status \in OPEN
  PROVE  QueueOK(y)
<1>1. \A r \in Queued(y) : ItemOK(r, y.items[r])
  BY DEF QueueOK, Related, ItemOK
<1>2. \A r : Others(y, r) = Others(x, r)
  BY DEF Others
<1>3. ASSUME NEW r \in With(y, OPEN)
      PROVE  Newest(y, r)
  <2>1. r \in With(x, OPEN)
    BY <1>3 DEF With
  <2>2. \A o \in Others(x, r) : o \in Queued(x) /\ r \in Queued(x)
    BY <2>1 DEF Others, With
  <2>3. Newest(x, r)
    BY <2>1 DEF QueueOK, Related
  <2>4. \A o \in Others(x, r) : y.items[o].status \in OPEN => x.items[o].status \in OPEN
    BY <2>2
  <2> QED  BY <1>2, <2>2, <2>3, <2>4 DEF Newest
<1>4. ASSUME NEW r \in Queued(y), NEW o \in Others(y, r), y.items[r].confirmed, y.items[o].confirmed
      PROVE  Ordered(y, r, o)
  BY <1>2, <1>4 DEF Others, Ordered, QueueOK, Related
<1> QED  BY <1>1, <1>3, <1>4 DEF QueueOK, Related

\* The same records and counts.
SameCounts(x, y) ==
  /\ Queued(x) = Queued(y)
  /\ x.writes = y.writes /\ x.comments = y.comments /\ x.applied = y.applied

LEMMA PutCounts ==
  ASSUME NEW x \in Queues, NEW c \in Queued(x), NEW i \in Items
  PROVE  SameCounts(PutAt(x, c, i), x)
BY PutFacts DEF SameCounts

LEMMA RecoveredKeeps ==
  ASSUME NEW x, QueueOK(x)
  PROVE  /\ QueueOK(Recovered(x)) /\ SameCounts(Recovered(x), x)
         /\ \A r \in Queued(x) : Recovered(x).items[r].status \in OPEN => x.items[r].status \in OPEN
<1> DEFINE y == Recovered(x)
<1>0. x \in Queues /\ x.items \in [Reels -> Items \cup {None}]
  BY DEF QueueOK, Related, Queues
<1>1. \A r \in Reels :
        y.items[r] = IF r \in With(x, {"commenting"}) THEN [x.items[r] EXCEPT !.status = "verify-comment"]
                                                      ELSE x.items[r]
  BY <1>0 DEF Recovered, Queues
<1>2. \A r \in With(x, {"commenting"}) :
        /\ r \in Queued(x) /\ x.items[r] \in Items /\ x.items[r].status = "commenting"
        /\ [x.items[r] EXCEPT !.status = "verify-comment"] \in Items
  <2>1. "verify-comment" \in Statuses
    BY DEF Statuses, OPEN
  <2> QED  BY <1>0, <2>1, ItemFields, ItemType DEF With
<1>3. \A r \in Reels : y.items[r] \in Items \cup {None} /\ (y.items[r] = None <=> x.items[r] = None)
  BY <1>0, <1>1, <1>2, CommentGateNone DEF Queued
<1>4. y \in Queues /\ SameCounts(y, x)
  BY <1>0, <1>3 DEF Recovered, Queues, SameCounts, Queued
<1> HIDE DEF y
<1>5. \A r \in Queued(x) :
        /\ y.items[r].mark = x.items[r].mark /\ y.items[r].links = x.items[r].links
        /\ y.items[r].confirmed = x.items[r].confirmed /\ y.items[r].known = x.items[r].known
        /\ y.items[r].replied = x.items[r].replied /\ y.items[r].attempts = x.items[r].attempts
        /\ \/ y.items[r].status = x.items[r].status
           \/ y.items[r].status = "verify-comment" /\ x.items[r].status = "commenting"
  <2> SUFFICES ASSUME NEW r \in Queued(x)
               PROVE  /\ y.items[r].mark = x.items[r].mark /\ y.items[r].links = x.items[r].links
                      /\ y.items[r].confirmed = x.items[r].confirmed
                      /\ y.items[r].known = x.items[r].known
                      /\ y.items[r].replied = x.items[r].replied
                      /\ y.items[r].attempts = x.items[r].attempts
                      /\ \/ y.items[r].status = x.items[r].status
                         \/ y.items[r].status = "verify-comment" /\ x.items[r].status = "commenting"
    OBVIOUS
  <2>1. r \in Reels /\ x.items[r] \in Items
    BY <1>0, ItemType
  <2>2. CASE r \in With(x, {"commenting"})
    BY <1>1, <1>2, <2>1, <2>2, ZenonT(60) DEF Items
  <2>3. CASE r \notin With(x, {"commenting"})
    BY <1>1, <2>1, <2>3
  <2> QED  BY <2>2, <2>3
<1>6. /\ "verify-comment" \notin TO_ACT \cup {"commenting"} /\ "commenting" \in OPEN
      /\ Queued(y) = Queued(x)
  BY <1>4 DEF TO_ACT, OPEN, SameCounts
<1>7. QueueOK(y)
  BY <1>4, <1>5, <1>6, MoveKeeps
<1> QED  BY <1>4, <1>5, <1>6, <1>7 DEF y

LEMMA DeliveredKeeps ==
  ASSUME NEW x, QueueOK(x)
  PROVE  QueueOK(DeliveredAll(x)) /\ SameCounts(DeliveredAll(x), x)
<1> DEFINE y == DeliveredAll(x)
<1>0. x \in Queues /\ x.items \in [Reels -> Items \cup {None}]
  BY DEF QueueOK, Related, Queues
<1>1. \A r \in Reels :
        y.items[r] = IF r \in With(x, {"link-received"}) THEN [x.items[r] EXCEPT !.status = "needs-rereview"]
                                                         ELSE x.items[r]
  BY <1>0 DEF DeliveredAll, Queues
<1>2. \A r \in With(x, {"link-received"}) :
        /\ r \in Queued(x) /\ x.items[r] \in Items
        /\ [x.items[r] EXCEPT !.status = "needs-rereview"] \in Items
  <2>1. "needs-rereview" \in Statuses
    BY DEF Statuses, Delivered
  <2> QED  BY <1>0, <2>1, ItemFields, ItemType DEF With
<1>3. \A r \in Reels : y.items[r] \in Items \cup {None} /\ (y.items[r] = None <=> x.items[r] = None)
  BY <1>0, <1>1, <1>2, CommentGateNone DEF Queued
<1>4. y \in Queues /\ SameCounts(y, x)
  BY <1>0, <1>3 DEF DeliveredAll, Queues, SameCounts, Queued
<1> HIDE DEF y
<1>5. ASSUME NEW r \in Queued(x)
      PROVE  /\ y.items[r].mark = x.items[r].mark /\ y.items[r].links = x.items[r].links
             /\ y.items[r].confirmed = x.items[r].confirmed /\ y.items[r].known = x.items[r].known
             /\ y.items[r].replied = x.items[r].replied /\ y.items[r].attempts = x.items[r].attempts
             /\ y.items[r].status = x.items[r].status \/ y.items[r].status = "needs-rereview"
  <2>1. r \in Reels /\ x.items[r] \in Items
    BY <1>0, ItemType
  <2>2. CASE r \in With(x, {"link-received"})
    BY <1>1, <1>2, <2>1, <2>2 DEF Items
  <2>3. CASE r \notin With(x, {"link-received"})
    BY <1>1, <2>1, <2>3
  <2> QED  BY <2>2, <2>3
<1>6. /\ "needs-rereview" \notin TO_ACT \cup {"commenting"} /\ "needs-rereview" \notin OPEN
      /\ Queued(y) = Queued(x)
  BY <1>4 DEF TO_ACT, OPEN, SameCounts
<1>7. QueueOK(y)
  BY <1>4, <1>5, <1>6, MoveKeeps
<1> QED  BY <1>4, <1>7 DEF y

\* The fields no record depends on.
LEMMA CountsKeep ==
  ASSUME NEW x, QueueOK(x), NEW y \in Queues, y.items = x.items
  PROVE  QueueOK(y) /\ Queued(y) = Queued(x)
<1>1. Queued(y) = Queued(x)
  BY DEF Queued
<1> QED  BY <1>1, MoveKeeps

--------------------------------------------------------------------------------
(* How steps of a run end. *)

\* The threads stay, or one gets a message more.
Longer ==
  \/ UNCHANGED thread
  \/ \E c \in Creators : \E m \in Messages \cup {"ours"} :
       thread' = [thread EXCEPT ![c] = Append(@, m)]

LEMMA LongerThreads ==
  ASSUME thread \in [Creators -> Seq(Messages \cup {"ours"})], Longer
  PROVE  /\ thread' \in [Creators -> Seq(Messages \cup {"ours"})]
         /\ \A r \in Reels : /\ Len(thread[Creator[r]]) \in Nat /\ Len(thread'[Creator[r]]) \in Nat
                             /\ Len(thread[Creator[r]]) <= Len(thread'[Creator[r]])
<1>1. \A r \in Reels : Creator[r] \in Creators
  BY DEF Creators
<1>2. CASE UNCHANGED thread
  BY <1>1, <1>2
<1>3. ASSUME NEW c \in Creators, NEW m \in Messages \cup {"ours"},
             thread' = [thread EXCEPT ![c] = Append(@, m)]
      PROVE  /\ thread' \in [Creators -> Seq(Messages \cup {"ours"})]
             /\ \A r \in Reels : Len(thread[Creator[r]]) <= Len(thread'[Creator[r]])
  <2>1. /\ thread[c] \in Seq(Messages \cup {"ours"})
        /\ Append(thread[c], m) \in Seq(Messages \cup {"ours"})
        /\ Len(Append(thread[c], m)) = Len(thread[c]) + 1
    OBVIOUS
  <2>2. \A r \in Reels : thread[Creator[r]] \in Seq(Messages \cup {"ours"})
    BY <1>1
  <2>3. \A r \in Reels : Len(thread[Creator[r]]) \in Nat
    BY <2>2
  <2> QED  BY <1>1, <1>3, <2>1, <2>3
<1>4. \A r \in Reels : thread[Creator[r]] \in Seq(Messages \cup {"ours"})
  BY <1>1
<1>5. thread' \in [Creators -> Seq(Messages \cup {"ours"})]
  BY <1>2, <1>3 DEF Longer
<1>6. \A r \in Reels : thread'[Creator[r]] \in Seq(Messages \cup {"ours"})
  BY <1>1, <1>5
<1>7. \A r \in Reels : Len(thread[Creator[r]]) <= Len(thread'[Creator[r]])
  BY <1>2, <1>3, <1>4 DEF Longer
<1> QED  BY <1>4, <1>5, <1>6, <1>7

\* A step of the run that makes no write and records none.
LEMMA TurnKeeps ==
  ASSUME IInv, UNCHANGED <<world, time>>, Longer, faults' \in 0 .. MaxFaults, run' \in Runs,
         ~At("record"), run'.step # "record", QueueOK(q)', QueueOK(disk)',
         SameCounts(q', q), SameCounts(disk', disk), ActOK', PollOK', ClickOK'
  PROVE  IInv'
<1>0. /\ UNCHANGED <<posted, follows, sent, clicks, lost, age, days>>
      /\ TypeOK /\ thread' \in [Creators -> Seq(Messages \cup {"ours"})]
  BY LongerThreads DEF IInv, TypeOK, world, time
<1>1. TypeOK'
  <2>1. q' \in Queues /\ disk' \in Queues
    BY DEF QueueOK, Related
  <2>2. run' \in [step : Steps, apply : BOOLEAN, todo : SUBSET Reels, slots : 0 .. MaxItems,
                  cur : Reels \cup {None}, prior : TO_ACT, kind : Kinds]
    BY DEF Runs
  <2> QED  BY <1>0, <2>1, <2>2 DEF TypeOK
<1> USE DEF IInv
<1>2. Agree'
  BY <1>0 DEF Agree, SameCounts
<1>3. CommentCap' = CommentCap
  BY <1>0 DEF CommentCap, SameCounts
<1>4. Recorded' /\ SentOnce' /\ BudgetKept'
  BY <1>0, <1>3 DEF Recorded, SentOnce, BudgetKept, SameCounts, At
<1> QED  BY <1>1, <1>2, <1>4

\* ... that ends with the run at no record.
Loops == {"idle", "act", "poll", "recheck", "save", "deliver"}

LEMMA RestKnows ==
  ASSUME run'.step \in Loops,
         run'.step = "act" => run'.todo \subseteq Queued(q') /\ run'.kind = "follow",
         run'.step = "poll" => run'.todo \subseteq With(q', AWAITING_DM),
         run'.step = "recheck" => run'.todo \subseteq With(q', {"dm-timeout"})
  PROVE  ActOK' /\ PollOK' /\ ClickOK'
<1>1. ActOK' /\ ClickOK'
  BY DEF ActOK, ClickOK, Acting, Writing, At, Loops
<1>2. PollOK'
  BY DEF PollOK, Polling, Acting, Writing, At, Loops
<1> QED  BY <1>1, <1>2

LEMMA RestKeeps ==
  ASSUME IInv, UNCHANGED <<world, time>>, Longer, faults' \in 0 .. MaxFaults, run' \in Runs,
         ~At("record"), run'.step \in Loops, QueueOK(q)', QueueOK(disk)',
         SameCounts(q', q), SameCounts(disk', disk),
         run'.step = "act" => run'.todo \subseteq Queued(q') /\ run'.kind = "follow",
         run'.step = "poll" => run'.todo \subseteq With(q', AWAITING_DM),
         run'.step = "recheck" => run'.todo \subseteq With(q', {"dm-timeout"})
  PROVE  IInv'
BY RestKnows, TurnKeeps DEF Loops

LEMMA FaultType == ASSUME IInv, NEW kind, Fault(kind) PROVE faults' \in 0 .. MaxFaults
BY Constants DEF IInv, TypeOK, Fault

LEMMA NoSaveFault == IInv => ~Fault("save")
BY DEF IInv, Setting, Fault

LEMMA RunType == IInv => run \in Runs /\ q \in Queues /\ disk \in Queues
BY TypeMeans DEF IInv

\* The records and their copies in the world of the next state, if nobody wrote.
LEMMA SameWorld ==
  ASSUME UNCHANGED <<world, thread, time>>
  PROVE  /\ QueueOK(q') => QueueOK(q)'
         /\ QueueOK(disk') => QueueOK(disk)'
<1>1. \A r, i : ItemOK(r, i)' <=> ItemOK(r, i)
  BY DEF ItemOK, world
<1> QED  BY <1>1 DEF QueueOK, Related, Newest, Ordered, Others, Queued, With

\* An act that failed: charged, and back where it began unless it may have posted.
LEMMA FailedKeeps ==
  ASSUME IInv, NEW x, Setup(x), x.items[run.cur].status \in TO_ACT \cup {"commenting"}
  PROVE  /\ QueueOK(Failed(x)) /\ SameCounts(Failed(x), x)
         /\ x.items[run.cur].status = "commenting" => Failed(x).items[run.cur].status \notin TO_ACT
<1> DEFINE i == x.items[run.cur]
           n == i.attempts + (IF run.apply THEN 1 ELSE 0)
           back == IF i.status = "commenting" THEN "verify-comment" ELSE run.prior
           s == IF n >= MaxAttempts THEN "failed" ELSE back
           j == [i EXCEPT !.attempts = n, !.status = s]
<1>1. /\ x \in Queues /\ run.cur \in Queued(x) /\ i \in Items /\ ItemOK(run.cur, i)
      /\ run.prior \in TO_ACT /\ i.attempts \in Nat /\ i.attempts < MaxAttempts /\ MaxAttempts \in Nat
  BY ItemType, RunType, Constants, SMTT(60) DEF Setup, QueueOK, Related, ItemOK, Runs, Items
<1>2. Failed(x) = PutAt(x, run.cur, j)
  BY PutIs DEF Failed
<1> HIDE DEF i
<1>3. n \in 0 .. MaxAttempts
  BY <1>1
<1>4. s \in Statuses /\ (s = "failed" \/ s = back)
  BY <1>1 DEF Statuses, OPEN, TO_ACT
<1> HIDE DEF n, s
<1>5. [i EXCEPT !.attempts = n] \in Items
  BY <1>1, <1>3, ItemFields
<1>6. j \in Items
  BY <1>4, <1>5, ItemFields, Zenon
<1>7. /\ j.status = s /\ j.attempts = n /\ j.mark = i.mark /\ j.links = i.links
      /\ j.confirmed = i.confirmed /\ j.known = i.known /\ j.replied = i.replied
  BY <1>1 DEF Items
<1> HIDE DEF j
<1>8. s \in TO_ACT => i.status \in TO_ACT /\ n < MaxAttempts
  BY <1>1, <1>3 DEF s, TO_ACT, n, i
<1>9. s # "commenting" /\ (s \in OPEN => i.status \in OPEN)
  BY <1>1 DEF s, TO_ACT, OPEN
<1>10. ItemOK(run.cur, j)
  BY <1>1, <1>7, <1>8, <1>9 DEF ItemOK
<1>11. QueueOK(PutAt(x, run.cur, j))
  BY <1>6, <1>7, <1>9, <1>10, QuietPut DEF i, Setup
<1>12. PutAt(x, run.cur, j).items[run.cur] = j
  BY <1>1, <1>6, PutFacts
<1>13. i.status = "commenting" => s \notin TO_ACT
  BY DEF s, TO_ACT
<1> QED  BY <1>1, <1>2, <1>6, <1>7, <1>11, <1>12, <1>13, PutCounts DEF i

LEMMA AfterActType ==
  ASSUME IInv, run.slots > 0, NEW x
  PROVE  /\ AfterAct(x) \in Runs /\ AfterAct(x).step = "act" /\ AfterAct(x).todo = run.todo
         /\ AfterAct(x).kind = "follow"
<1> DEFINE left == IF CreatorBusy(x, run.cur) THEN run.slots ELSE run.slots - 1
<1>1. /\ run \in Runs /\ left \in 0 .. MaxItems /\ "act" \in Steps /\ "pending" \in TO_ACT
      /\ "follow" \in Kinds /\ None \in Reels \cup {None}
  BY RunType, Constants DEF Runs, Steps, TO_ACT, Kinds
<1> HIDE DEF left
<1> DEFINE u == [run EXCEPT !.step = "act", !.cur = None, !.prior = "pending", !.kind = "follow"]
<1>2. u \in Runs
  BY <1>1, RunFields
<1>3. u.slots = run.slots
  BY <1>1 DEF Runs
<1>4. AfterAct(x) = [u EXCEPT !.slots = left]
  BY <1>3, Zenon DEF AfterAct, Idle, left
<1>5. u.step = "act" /\ u.todo = run.todo /\ u.kind = "follow"
  BY <1>1 DEF Runs
<1> HIDE DEF u
<1> QED  BY <1>1, <1>2, <1>4, <1>5, RunFields DEF Runs

LEMMA AfterPollType ==
  IInv => AfterPoll \in Runs /\ AfterPoll.step = "poll" /\ AfterPoll.todo = run.todo
<1> SUFFICES ASSUME IInv PROVE AfterPoll \in Runs /\ AfterPoll.step = "poll" /\ AfterPoll.todo = run.todo
  OBVIOUS
<1>1. run \in Runs /\ "poll" \in Steps /\ "follow" \in Kinds /\ None \in Reels \cup {None}
  BY RunType DEF Steps, Kinds
<1>2. AfterPoll = [run EXCEPT !.step = "poll", !.cur = None, !.kind = "follow"]
  BY DEF AfterPoll, Idle
<1>3. AfterPoll \in Runs
  BY <1>1, <1>2, RunFields
<1> QED  BY <1>1, <1>2, <1>3 DEF Runs

LEMMA ActErrorKeeps ==
  ASSUME IInv, Acting, ~At("record"), UNCHANGED <<world, thread, time>>, NEW x, Setup(x), SameCounts(x, q),
         x.items[run.cur].status \in TO_ACT \cup {"commenting"}, faults' \in 0 .. MaxFaults, Raise(x)
  PROVE  IInv'
<1>1. run.kind \in {"follow", "comment"} /\ run.slots > 0 /\ run.todo \subseteq Queued(q)
  BY DEF IInv, ActOK, PollOK
<1>2. q' = Failed(x) /\ disk' = Failed(x) /\ run' = AfterAct(Failed(x))
  BY <1>1 DEF Raise
<1>3. QueueOK(q)' /\ QueueOK(disk)'
  BY <1>2, FailedKeeps, SameWorld
<1>4. SameCounts(q', q) /\ SameCounts(disk', disk)
  BY <1>2, FailedKeeps DEF SameCounts, IInv, Agree
<1>5. run' \in Runs /\ run'.step = "act" /\ run'.todo \subseteq Queued(q') /\ run'.kind = "follow"
  BY <1>1, <1>2, <1>4, AfterActType DEF SameCounts
<1> QED  BY <1>3, <1>4, <1>5, RestKeeps DEF Loops, Longer

LEMMA PollErrorKeeps ==
  ASSUME IInv, Polling, ~At("record"), UNCHANGED <<world, thread, time>>, faults' \in 0 .. MaxFaults, Raise(q)
  PROVE  IInv'
<1>1. run.kind \notin {"follow", "comment"} /\ run.todo \subseteq With(q, AWAITING_DM)
  BY DEF IInv, PollOK
<1>2. q' = q /\ disk' = q /\ run' = AfterPoll
  BY <1>1 DEF Raise
<1>3. QueueOK(q)' /\ QueueOK(disk)'
  BY <1>2, SameWorld DEF IInv
<1>4. SameCounts(q', q) /\ SameCounts(disk', disk)
  BY <1>2 DEF SameCounts, IInv, Agree
<1>5. run' \in Runs /\ run'.step = "poll" /\ run'.todo \subseteq With(q', AWAITING_DM)
  BY <1>1, <1>2, AfterPollType
<1> QED  BY <1>3, <1>4, <1>5, RestKeeps DEF Loops, Longer

LEMMA HaltKeeps ==
  ASSUME IInv, ~At("record"), UNCHANGED <<world, thread, time>>, NEW x, QueueOK(x), SameCounts(x, q), Halt(x)
  PROVE  IInv'
<1> DEFINE y == Recovered(x)
           z == [y EXCEPT !.halted = TRUE]
<1>1. QueueOK(y) /\ SameCounts(y, x)
  BY RecoveredKeeps
<1> HIDE DEF y
<1>2. z \in Queues /\ z.items = y.items /\ SameCounts(z, y)
  BY <1>1 DEF QueueOK, Related, Queues, SameCounts, Queued
<1> HIDE DEF z
<1>3. QueueOK(z)
  BY <1>1, <1>2, CountsKeep
<1>4. q' = z /\ disk' = disk /\ faults' \in 0 .. MaxFaults
  BY FaultType DEF Halt, y, z
<1>5. QueueOK(q)' /\ QueueOK(disk)'
  BY <1>3, <1>4, SameWorld DEF IInv
<1>6. SameCounts(q', q) /\ SameCounts(disk', disk)
  BY <1>1, <1>2, <1>4 DEF SameCounts
<1>7. run' \in Runs /\ run'.step = "save"
  <2>1. run' = [Idle EXCEPT !.step = "save", !.apply = run.apply]
    BY DEF Halt
  <2>2. run.apply \in BOOLEAN
    BY RunType DEF Runs
  <2>3. Idle \in Runs /\ "save" \in Steps
    BY Constants DEF Idle, Runs, Steps, TO_ACT, Kinds
  <2>4. [Idle EXCEPT !.step = "save"] \in Runs
    BY <2>3, RunFields
  <2>5. \A u \in Runs : \A a \in BOOLEAN : [u EXCEPT !.apply = a] \in Runs /\ [u EXCEPT !.apply = a].step = u.step
    BY DEF Runs
  <2>6. [Idle EXCEPT !.step = "save"].step = "save"
    BY <2>3 DEF Runs
  <2> DEFINE u == [Idle EXCEPT !.step = "save"]
  <2>7. run' = [u EXCEPT !.apply = run.apply]
    BY <2>1
  <2> HIDE DEF u
  <2> QED  BY <2>2, <2>4, <2>5, <2>6, <2>7 DEF u
<1> QED  BY <1>4, <1>5, <1>6, <1>7, RestKeeps DEF Loops, Longer

--------------------------------------------------------------------------------
(* Between runs, and the loops of one. *)

LEMMA AgreeCounts == IInv => SameCounts(q, disk) /\ SameCounts(disk, q)
BY DEF IInv, Agree, SameCounts

LEMMA IdleType ==
  /\ Idle \in Runs
  /\ \A a \in BOOLEAN :
       /\ [Idle EXCEPT !.apply = a] \in Runs /\ [Idle EXCEPT !.apply = a].step = "idle"
       /\ [Idle EXCEPT !.apply = a].kind = "follow"
<1>1. Idle \in Runs /\ Idle.step = "idle" /\ Idle.kind = "follow"
  BY Constants DEF Idle, Runs, Steps, TO_ACT, Kinds
<1> QED  BY <1>1 DEF Runs

\* A step between runs that keeps the records' number and the counts.
LEMMA BetweenKeeps ==
  ASSUME IInv, At("idle"), NEW y, QueueOK(y), SameCounts(y, disk), disk' = y, q' = y,
         UNCHANGED <<run, world, thread, time, faults>>
  PROVE  IInv'
<1>1. QueueOK(q)' /\ QueueOK(disk)'
  BY SameWorld
<1>2. SameCounts(q', q) /\ SameCounts(disk', disk)
  BY AgreeCounts DEF SameCounts
<1>3. /\ faults' \in 0 .. MaxFaults /\ run' \in Runs /\ run'.step = "idle"
  BY RunType DEF IInv, TypeOK, At
<1> QED  BY <1>1, <1>2, <1>3, RestKeeps DEF Loops, Longer, At

LEMMA RereviewKeeps == ASSUME IInv, NEW r \in Reels, Rereview(r) PROVE IInv'
<1> DEFINE i == disk.items[r]
           j == [i EXCEPT !.status = "rereviewed"]
<1>1. /\ QueueOK(disk) /\ disk \in Queues /\ r \in Queued(disk) /\ i \in Items /\ ItemOK(r, i)
  BY ItemType DEF Rereview, With, IInv, QueueOK, Related
<1>2. j \in Items
  BY <1>1, ItemFields DEF Statuses, Delivered
<1>3. /\ j.status = "rereviewed" /\ j.mark = i.mark /\ j.links = i.links
      /\ j.confirmed = i.confirmed /\ j.known = i.known /\ j.replied = i.replied
  BY <1>1 DEF Items
<1>4. disk' = PutAt(disk, r, j) /\ q' = PutAt(disk, r, j)
  BY DEF Rereview, PutAt
<1> HIDE DEF j
<1>5. ItemOK(r, j)
  BY <1>1, <1>3 DEF ItemOK, TO_ACT, OPEN
<1>6. QueueOK(PutAt(disk, r, j))
  BY <1>1, <1>2, <1>3, <1>5, QuietPut DEF OPEN
<1> QED  BY <1>1, <1>2, <1>4, <1>6, PutCounts, BetweenKeeps DEF Rereview

LEMMA HandOverKeeps == ASSUME IInv, NEW r \in Reels, HandOver(r) PROVE IInv'
<1> DEFINE i == disk.items[r]
           k == [i EXCEPT !.links = {0}]
           j == [k EXCEPT !.status = "link-received"]
<1>1. /\ QueueOK(disk) /\ disk \in Queues /\ r \in Queued(disk) /\ i \in Items /\ ItemOK(r, i)
  BY ItemType DEF HandOver, IInv, QueueOK, Related
<1>2. k \in Items
  <2>1. i \in Items /\ {0} \in SUBSET Links
    BY <1>1 DEF Links
  <2> HIDE DEF i
  <2> QED  BY <2>1, ItemFields
<1>3. j \in Items
  <2> HIDE DEF k
  <2> QED  BY <1>2, ItemFields DEF Statuses
<1>4. /\ j.status = "link-received" /\ j.mark = i.mark /\ j.links = {0}
      /\ j.confirmed = i.confirmed /\ j.known = i.known /\ j.replied = i.replied
  BY <1>1 DEF Items
<1>5. disk' = DeliveredAll(PutAt(disk, r, j)) /\ q' = DeliveredAll(PutAt(disk, r, j))
  BY DEF HandOver, PutAt
<1> HIDE DEF j
<1>6. ItemOK(r, j)
  BY <1>1, <1>4 DEF ItemOK, TO_ACT, OPEN
<1>7. ASSUME NEW o \in Others(disk, r)
      PROVE  /\ o \in Queued(disk) /\ r \in Others(disk, o) /\ disk.items[o] \in Items
             /\ disk.items[o].mark \in Nat /\ i.mark \in Nat
             /\ disk.items[o].status \in OPEN => Newest(disk, o) /\ disk.items[o].mark > 0
             /\ i.confirmed /\ disk.items[o].confirmed => Ordered(disk, o, r)
  <2>1. o \in Queued(disk) /\ r \in Others(disk, o) /\ disk.items[o] \in Items
    BY <1>1, <1>7, ItemType DEF Others
  <2>2. disk.items[o].mark \in Nat /\ i.mark \in Nat
    BY <1>1, <2>1 DEF Items
  <2> QED  BY <1>1, <2>1, <2>2 DEF QueueOK, Related, ItemOK, With
<1> HIDE DEF i
<1>8. QueueOK(PutAt(disk, r, j))
  <2>1. j.status \notin OPEN
    BY <1>4 DEF OPEN
  <2>2. \A o \in Others(disk, r) :
          disk.items[o].status \in OPEN =>
            /\ j.status \notin OPEN /\ j.mark < disk.items[o].mark
            /\ \A n \in j.links : n < disk.items[o].mark
    BY <1>4, <1>7, <2>1 DEF Newest, i
  <2>3. \A o \in Others(disk, r) :
          j.confirmed /\ disk.items[o].confirmed =>
            /\ j.mark # disk.items[o].mark
            /\ j.mark < disk.items[o].mark => \A n \in j.links : n < disk.items[o].mark
            /\ disk.items[o].mark < j.mark => \A n \in disk.items[o].links : n < j.mark
    BY <1>4, <1>7 DEF Ordered, i
  <2>4. Related(PutAt(disk, r, j))
    BY <1>1, <1>3, <2>1, <2>2, <2>3, PutRelated DEF QueueOK
  <2> QED  BY <1>1, <1>3, <1>6, <2>4, PutKeeps
<1>9. /\ QueueOK(DeliveredAll(PutAt(disk, r, j)))
      /\ SameCounts(DeliveredAll(PutAt(disk, r, j)), disk)
  BY <1>1, <1>3, <1>8, DeliveredKeeps, PutCounts DEF SameCounts
<1> HIDE DEF i
<1> QED  BY <1>5, <1>9, BetweenKeeps DEF HandOver

LEMMA HaltEndsKeeps == ASSUME IInv, HaltEnds PROVE IInv'
<1> DEFINE y == [disk EXCEPT !.halted = FALSE]
<1>1. y \in Queues /\ y.items = disk.items /\ SameCounts(y, disk)
  BY RunType DEF Queues, SameCounts, Queued
<1>2. disk' = y /\ q' = y
  BY DEF HaltEnds
<1> HIDE DEF y
<1>3. QueueOK(y)
  BY <1>1, CountsKeep DEF IInv
<1> QED  BY <1>1, <1>2, <1>3, BetweenKeeps DEF HaltEnds

\* The file and the copy stay, and the run goes to a loop.
LEMMA LoopKeeps ==
  ASSUME IInv, ~At("record"), UNCHANGED <<disk, q, world, thread, time, faults>>, run' \in Runs,
         run'.step \in Loops,
         run'.step = "act" => run'.todo \subseteq Queued(q) /\ run'.kind = "follow",
         run'.step = "poll" => run'.todo \subseteq With(q, AWAITING_DM),
         run'.step = "recheck" => run'.todo \subseteq With(q, {"dm-timeout"})
  PROVE  IInv'
<1>1. QueueOK(q)' /\ QueueOK(disk)'
  BY SameWorld DEF IInv
<1>2. SameCounts(q', q) /\ SameCounts(disk', disk) /\ faults' \in 0 .. MaxFaults
  BY DEF SameCounts, IInv, TypeOK
<1> QED  BY <1>1, <1>2, RestKeeps DEF Longer

LEMMA StartRunKeeps == ASSUME IInv, NEW apply \in BOOLEAN, StartRun(apply) PROVE IInv'
<1> DEFINE start == [Idle EXCEPT !.apply = apply]
<1>1. /\ start \in Runs /\ start.kind = "follow" /\ "save" \in Steps /\ "act" \in Steps
      /\ MaxItems \in 0 .. MaxItems
  BY IdleType, Constants DEF Steps
<1>2. QueueOK(disk) /\ disk \in Queues /\ SameCounts(disk, q) /\ faults \in 0 .. MaxFaults
  BY AgreeCounts DEF IInv, QueueOK, Related, TypeOK
<1>3. UNCHANGED <<disk, world, thread, time, faults>> /\ ~At("record")
  BY DEF StartRun, At
<1>4. QueueOK(disk)' /\ SameCounts(disk', disk)
  BY <1>2, <1>3, SameWorld DEF SameCounts
<1>5. CASE q' = disk /\ run' = [start EXCEPT !.step = "save"]
  <2>1. run' \in Runs /\ run'.step = "save"
    BY <1>1, <1>5, RunFields DEF Runs
  <2> QED  BY <1>2, <1>3, <1>4, <1>5, <2>1, SameWorld, RestKeeps DEF Loops, Longer
<1>6. CASE /\ q' = Recovered(disk)
           /\ run' = [start EXCEPT !.step = "act", !.todo = Queued(disk), !.slots = MaxItems]
  <2>1. Queued(disk) \in SUBSET Reels
    BY DEF Queued
  <2>2. [start EXCEPT !.step = "act"] \in Runs
    BY <1>1, RunFields
  <2>3. [start EXCEPT !.step = "act", !.todo = Queued(disk)] \in Runs
    BY <2>1, <2>2, RunFields, Zenon
  <2>4. run' \in Runs
    BY <1>1, <1>6, <2>3, RunFields, Zenon
  <2>5. run'.step = "act" /\ run'.todo = Queued(disk) /\ run'.kind = "follow"
    BY <1>1, <1>6 DEF Runs
  <2>6. QueueOK(q)' /\ SameCounts(q', disk)
    BY <1>2, <1>3, <1>6, RecoveredKeeps, SameWorld
  <2>7. SameCounts(q', q) /\ run'.todo \subseteq Queued(q')
    BY <1>2, <2>5, <2>6 DEF SameCounts
  <2> QED  BY <1>2, <1>3, <1>4, <2>4, <2>5, <2>6, <2>7, RestKeeps DEF Loops, Longer
<1> QED  BY <1>5, <1>6 DEF StartRun

LEMMA StartPollingType ==
  ASSUME IInv
  PROVE  StartPolling \in Runs /\ StartPolling.step = "poll" /\ StartPolling.todo = With(q, AWAITING_DM)
<1>1. /\ Idle \in Runs /\ "poll" \in Steps /\ run.apply \in BOOLEAN /\ With(q, AWAITING_DM) \in SUBSET Reels
  BY IdleType, RunType DEF Steps, Runs, With, Queued
<1>2. [Idle EXCEPT !.step = "poll"] \in Runs
  BY <1>1, RunFields
<1>3. \A u \in Runs : \A a \in BOOLEAN : [u EXCEPT !.apply = a] \in Runs
  BY DEF Runs
<1>4. [Idle EXCEPT !.step = "poll", !.apply = run.apply] \in Runs
  BY <1>1, <1>2, <1>3, Zenon
<1>5. StartPolling \in Runs
  BY <1>1, <1>4, RunFields, Zenon DEF StartPolling
<1>6. StartPolling.step = "poll" /\ StartPolling.todo = With(q, AWAITING_DM)
  BY <1>1 DEF StartPolling, Runs
<1> QED  BY <1>5, <1>6

LEMMA EndActsKeeps == ASSUME IInv, EndActs PROVE IInv'
BY StartPollingType, LoopKeeps DEF EndActs, At, Loops

LEMMA EndPollsKeeps == ASSUME IInv, EndPolls PROVE IInv'
<1>1. /\ run \in Runs /\ "recheck" \in Steps /\ "save" \in Steps
      /\ With(q, {"dm-timeout"}) \in SUBSET Reels /\ {} \in SUBSET Reels
  BY RunType DEF Steps, With, Queued
<1>2. CASE run' = [run EXCEPT !.step = "recheck", !.todo = With(q, {"dm-timeout"})]
  <2>1. [run EXCEPT !.step = "recheck"] \in Runs
    BY <1>1, RunFields
  <2>2. run' \in Runs
    BY <1>1, <1>2, <2>1, RunFields, Zenon
  <2>3. run'.step = "recheck" /\ run'.todo = With(q, {"dm-timeout"})
    BY <1>1, <1>2 DEF Runs
  <2> QED  BY <2>2, <2>3, LoopKeeps DEF EndPolls, At, Loops
<1>3. CASE run' = [run EXCEPT !.step = "save", !.todo = {}]
  <2>1. [run EXCEPT !.step = "save"] \in Runs
    BY <1>1, RunFields
  <2>2. run' \in Runs
    BY <1>1, <1>3, <2>1, RunFields, Zenon
  <2>3. run'.step = "save"
    BY <1>1, <1>3 DEF Runs
  <2> QED  BY <2>2, <2>3, LoopKeeps DEF EndPolls, At, Loops
<1> QED  BY <1>2, <1>3 DEF EndPolls

LEMMA EndRechecksKeeps == ASSUME IInv, EndRechecks PROVE IInv'
<1>1. run \in Runs /\ "save" \in Steps /\ {} \in SUBSET Reels
  BY RunType DEF Steps
<1>2. [run EXCEPT !.step = "save"] \in Runs
  BY <1>1, RunFields
<1>3. run' \in Runs
  BY <1>1, <1>2, RunFields, Zenon DEF EndRechecks
<1>4. run'.step = "save"
  BY <1>1 DEF Runs, EndRechecks
<1> QED  BY <1>3, <1>4, LoopKeeps DEF EndRechecks, At, Loops

LEMMA SaveKeeps == ASSUME IInv, Save PROVE IInv'
<1>1. q' = q /\ disk' = q /\ UNCHANGED <<world, thread, time, faults>> /\ ~At("record")
  BY DEF Save, At
<1>2. QueueOK(q)' /\ QueueOK(disk)'
  BY <1>1, SameWorld DEF IInv
<1>3. SameCounts(q', q) /\ SameCounts(disk', disk) /\ faults' \in 0 .. MaxFaults
  BY <1>1, AgreeCounts DEF SameCounts, IInv, TypeOK
<1>4. run' \in Runs /\ run'.step \in {"deliver", "idle"}
  <2>1. CASE run' = Idle
    BY <2>1, IdleType DEF Idle
  <2>2. CASE run' = [Idle EXCEPT !.step = "deliver", !.apply = TRUE]
    <3>1. [Idle EXCEPT !.step = "deliver"] \in Runs
      BY IdleType, RunFields DEF Steps
    <3>2. \A u \in Runs : [u EXCEPT !.apply = TRUE] \in Runs
      BY DEF Runs
    <3>3. run' \in Runs
      BY <2>2, <3>1, <3>2, Zenon
    <3> QED  BY <2>2, <3>3 DEF Idle
  <2> QED  BY <2>1, <2>2 DEF Save
<1> QED  BY <1>1, <1>2, <1>3, <1>4, RestKeeps DEF Loops, Longer

LEMMA DeliverKeeps == ASSUME IInv, Deliver PROVE IInv'
<1>1. /\ q' = DeliveredAll(q) /\ disk' = DeliveredAll(q) /\ UNCHANGED <<world, thread, time, faults>>
      /\ ~At("record") /\ run' = Idle
  BY DEF Deliver, At
<1>2. QueueOK(q)' /\ QueueOK(disk)' /\ SameCounts(q', q)
  BY <1>1, DeliveredKeeps, SameWorld DEF IInv
<1>3. SameCounts(disk', disk) /\ faults' \in 0 .. MaxFaults
  BY <1>1, <1>2, AgreeCounts DEF SameCounts, IInv, TypeOK
<1> QED  BY <1>1, <1>2, <1>3, IdleType, RestKeeps DEF Loops, Longer, Idle

--------------------------------------------------------------------------------
(* Acts. *)

\* Whether the creator is busy depends on the other records.
LEMMA BusyPut ==
  ASSUME NEW x \in Queues, NEW c \in Queued(x), NEW i \in Items
  PROVE  CreatorBusy(PutAt(x, c, i), c) <=>
           i.known /\ \E o \in With(x, OPEN) \ {c} : x.items[o].known /\ Creator[o] = Creator[c]
<1> DEFINE y == PutAt(x, c, i)
<1>1. /\ Queued(y) = Queued(x) /\ y.items[c] = i
      /\ \A r \in Reels \ {c} : y.items[r] = x.items[r]
  BY PutFacts
<1> HIDE DEF y
<1>2. With(y, OPEN) \ {c} = With(x, OPEN) \ {c}
  BY <1>1 DEF With, Queued
<1>3. \A o \in With(x, OPEN) \ {c} : y.items[o] = x.items[o]
  BY <1>1 DEF With, Queued
<1> QED  BY <1>1, <1>2, <1>3 DEF CreatorBusy, y

\* Nobody else's record is open where the creator is not busy.
LEMMA NotBusy ==
  ASSUME NEW x, QueueOK(x), NEW c \in Queued(x), x.items[c].known, ~CreatorBusy(x, c)
  PROVE  \A o \in Others(x, c) : x.items[o].status \notin OPEN
BY DEF CreatorBusy, Others, With, QueueOK, ItemOK

LEMMA ActTurnKeeps ==
  ASSUME IInv, UNCHANGED <<world, time>>, Longer, faults' \in 0 .. MaxFaults, run' \in Runs,
         ~At("record"), run'.step # "record", QueueOK(q)', QueueOK(disk)',
         SameCounts(q', q), SameCounts(disk', disk), Acting', ActOK', ClickOK',
         run'.todo \subseteq Queued(q)
  PROVE  IInv'
<1>1. PollOK'
  BY DEF PollOK, Polling, Acting, Writing, At, ActOK, SameCounts
<1> QED  BY <1>1, TurnKeeps

LEMMA ActingType ==
  ASSUME IInv, Acting
  PROVE  /\ run.cur \in Queued(q) /\ run.cur \in Reels /\ Item \in Items /\ ItemOK(run.cur, Item)
         /\ run.slots > 0 /\ run.todo \subseteq Queued(q) /\ run \in Runs /\ q \in Queues
         /\ Setup(q) /\ SameCounts(q, q) /\ QueueOK(q) /\ Related(q)
<1>1. /\ run.cur \in Queued(q) /\ run.slots > 0 /\ run.todo \subseteq Queued(q) /\ QueueOK(q)
      /\ run \in Runs
  BY RunType DEF IInv, ActOK, PollOK
<1>2. run.cur \in Reels /\ Item \in Items /\ ItemOK(run.cur, Item)
  BY <1>1, ItemType DEF Item, QueueOK, Related
<1> QED  BY <1>1, <1>2 DEF Setup, SameCounts, QueueOK, Related

\* A record put back with another status or note, as long as it is neither open nor seen.
LEMMA QuietActKeeps ==
  ASSUME IInv, Acting, NEW i \in Items, ItemOK(run.cur, i), i.mark = Item.mark, i.links = Item.links,
         i.status \in OPEN => Item.status \in OPEN,
         i.confirmed => Item.confirmed \/ Item.status \in OPEN
  PROVE  /\ QueueOK(Put(q, i)) /\ SameCounts(Put(q, i), q) /\ Put(q, i).items[run.cur] = i
         /\ Setup(Put(q, i))
         /\ Item.known /\ i.known => (CreatorBusy(Put(q, i), run.cur) <=> CreatorBusy(q, run.cur))
<1>1. /\ QueueOK(q) /\ run.cur \in Queued(q) /\ q \in Queues /\ Item = q.items[run.cur]
      /\ Item \in Items
  BY ActingType DEF Item
<1>2. QueueOK(PutAt(q, run.cur, i))
  BY <1>1, QuietPut
<1>3. SameCounts(PutAt(q, run.cur, i), q) /\ PutAt(q, run.cur, i).items[run.cur] = i
  BY <1>1, PutCounts, PutFacts
<1>4. Setup(PutAt(q, run.cur, i))
  BY <1>1, <1>2, <1>3 DEF Setup, SameCounts
<1>5. Item.known /\ i.known =>
        (CreatorBusy(PutAt(q, run.cur, i), run.cur) <=> CreatorBusy(q, run.cur))
  BY <1>1, BusyPut DEF CreatorBusy
<1> QED  BY <1>2, <1>3, <1>4, <1>5, PutIs

LEMMA NextReelKeeps == ASSUME IInv, NextReel PROVE IInv'
<1> PICK r \in NextOf(Eligible) :
           run' = [run EXCEPT !.step = "open", !.todo = After(r), !.cur = r, !.prior = q.items[r].status]
  BY DEF NextReel
<1>1. /\ run \in Runs /\ At("act") /\ run.slots > 0 /\ run.kind = "follow" /\ run.todo \subseteq Queued(q)
      /\ UNCHANGED <<disk, q, world, thread, time, faults>> /\ QueueOK(q) /\ QueueOK(disk)
  BY RunType DEF NextReel, IInv, ActOK, PollOK, At
<1>2. r \in run.todo /\ q.items[r].status \in TO_ACT /\ r \in Queued(q) /\ r \in Reels
  BY <1>1 DEF NextOf, Eligible, Queued
<1>3. /\ "open" \in Steps /\ After(r) \in SUBSET Reels /\ After(r) \subseteq run.todo
      /\ r \in Reels \cup {None}
  BY <1>1, <1>2 DEF Steps, After, Queued
<1> DEFINE s == q.items[r].status
           after == After(r)
<1>4. run' = [run EXCEPT !.step = "open", !.todo = after, !.cur = r, !.prior = s] /\ s \in TO_ACT
  BY <1>2
<1> HIDE DEF s, after
<1>5. run' \in Runs
  <2>1. [run EXCEPT !.step = "open"] \in Runs
    BY <1>1, <1>3, RunFields
  <2>2. [run EXCEPT !.step = "open", !.todo = after] \in Runs
    BY <1>3, <2>1, RunFields, Zenon DEF after
  <2>3. [run EXCEPT !.step = "open", !.todo = after, !.cur = r] \in Runs
    BY <1>3, <2>2, RunFields, Zenon
  <2> QED  BY <1>4, <2>3, RunFields, Zenon
<1>6. /\ run'.step = "open" /\ run'.todo = after /\ run'.cur = r /\ run'.kind = "follow"
      /\ run'.slots = run.slots
  BY <1>1, <1>4 DEF Runs
<1>7. Item'.status \in TO_ACT
  BY <1>1, <1>2, <1>6 DEF Item
<1>8. Acting' /\ ActOK' /\ ClickOK'
  BY <1>1, <1>2, <1>6, <1>7 DEF ActOK, ClickOK, Acting, Writing, At
<1>9. QueueOK(q)' /\ QueueOK(disk)' /\ SameCounts(q', q) /\ SameCounts(disk', disk)
  BY <1>1, SameWorld DEF SameCounts
<1>10. faults' \in 0 .. MaxFaults /\ run'.todo \subseteq Queued(q) /\ ~At("record")
  BY <1>1, <1>3, <1>6 DEF IInv, TypeOK, At, after
<1> QED  BY <1>1, <1>5, <1>6, <1>8, <1>9, <1>10, ActTurnKeeps DEF Longer

\* Where a turn leaves the copy and the file.
LEMMA PutTurn ==
  ASSUME IInv, UNCHANGED <<world, thread, time>>, NEW x, QueueOK(x), SameCounts(x, q), q' = x,
         disk' = x \/ disk' = disk
  PROVE  QueueOK(q)' /\ QueueOK(disk)' /\ SameCounts(q', q) /\ SameCounts(disk', disk)
<1>1. QueueOK(q') /\ QueueOK(disk')
  BY DEF IInv
<1> QED  BY <1>1, SameWorld DEF SameCounts, IInv, Agree

\* An act that is over: the next record, or the polls.
LEMMA ActOver ==
  ASSUME IInv, Acting, ~At("record"), UNCHANGED <<world, thread, time, faults>>, NEW x, QueueOK(x),
         SameCounts(x, q), q' = x, disk' = x, run' = AfterAct(x)
  PROVE  IInv'
<1>1. QueueOK(q)' /\ QueueOK(disk)' /\ SameCounts(q', q) /\ SameCounts(disk', disk)
  BY PutTurn
<1>2. run' \in Runs /\ run'.step = "act" /\ run'.kind = "follow" /\ run'.todo \subseteq Queued(q')
  BY ActingType, AfterActType DEF SameCounts
<1>3. faults' \in 0 .. MaxFaults /\ UNCHANGED <<world, time>> /\ Longer
  BY DEF IInv, TypeOK, Longer
<1> QED  BY <1>1, <1>2, <1>3, RestKeeps DEF Loops

LEMMA PollsBegin ==
  ASSUME IInv, Acting, ~At("record"), UNCHANGED <<disk, q, world, thread, time, faults>>, run' = StartPolling
  PROVE  IInv'
BY StartPollingType, LoopKeeps DEF Loops

LEMMA KnownKeeps ==
  ASSUME IInv, Acting
  PROVE  LET i == [Item EXCEPT !.known = TRUE] IN
         /\ QueueOK(Put(q, i)) /\ SameCounts(Put(q, i), q) /\ Setup(Put(q, i))
         /\ Put(q, i).items[run.cur] = i /\ i.status = Item.status /\ i.known
<1> DEFINE i == [Item EXCEPT !.known = TRUE]
<1>1. Item \in Items /\ ItemOK(run.cur, Item)
  BY ActingType
<1>2. i \in Items
  BY <1>1, ItemFields
<1>3. /\ i.status = Item.status /\ i.known /\ i.mark = Item.mark /\ i.links = Item.links
      /\ i.confirmed = Item.confirmed /\ i.replied = Item.replied /\ i.attempts = Item.attempts
  BY <1>1 DEF Items
<1> HIDE DEF i
<1>4. ItemOK(run.cur, i)
  BY <1>1, <1>3 DEF ItemOK
<1>5. /\ QueueOK(Put(q, i)) /\ SameCounts(Put(q, i), q) /\ Setup(Put(q, i))
      /\ Put(q, i).items[run.cur] = i
  BY <1>2, <1>3, <1>4, QuietActKeeps
<1> QED  BY <1>3, <1>5 DEF i

LEMMA OpenReelKeeps == ASSUME IInv, OpenReel PROVE IInv'
<1> DEFINE x == Put(q, [Item EXCEPT !.known = TRUE])
           stop == ~run.apply \/ CreatorBusy(x, run.cur)
<1>1. /\ At("open") /\ ~At("record") /\ Acting /\ UNCHANGED <<world, thread, time>>
      /\ Item.status \in TO_ACT /\ run.kind = "follow"
  BY DEF OpenReel, At, Acting, IInv, ActOK
<1>2. /\ QueueOK(x) /\ SameCounts(x, q) /\ Setup(x) /\ x.items[run.cur].status = Item.status
      /\ x.items[run.cur].known
  BY <1>1, KnownKeeps
<1>3. /\ QueueOK(q) /\ SameCounts(q, q) /\ Setup(q) /\ q.items[run.cur].status = Item.status
      /\ run \in Runs /\ run.todo \subseteq Queued(q) /\ run.slots > 0 /\ run.cur \in Queued(q)
  BY <1>1, ActingType DEF Item
<1>4. \/ \E y \in {q, x} : Halt(y) \/ Error(y)
      \/ /\ q' = x /\ disk' = (IF stop THEN x ELSE disk)
         /\ run' = IF stop THEN AfterAct(x)
                   ELSE IF Item.status = "followed" THEN ToComment ELSE [run EXCEPT !.step = "follow"]
         /\ UNCHANGED faults
  BY DEF OpenReel, ToComment
<1> HIDE DEF x
<1>5. ASSUME NEW y \in {q, x}, Halt(y)
      PROVE  IInv'
  BY <1>1, <1>2, <1>3, <1>5, HaltKeeps
<1>6. ASSUME NEW y \in {q, x}, Error(y)
      PROVE  IInv'
  <2>1. Setup(y) /\ SameCounts(y, q) /\ y.items[run.cur].status \in TO_ACT
    BY <1>1, <1>2, <1>3
  <2>2. faults' \in 0 .. MaxFaults /\ Raise(y)
    BY <1>6, FaultType DEF Error
  <2> QED  BY <1>1, <2>1, <2>2, ActErrorKeeps
<1>7. CASE q' = x /\ disk' = x /\ run' = AfterAct(x) /\ UNCHANGED faults
  BY <1>1, <1>2, <1>7, ActOver
<1>8. CASE /\ ~stop /\ q' = x /\ disk' = disk /\ UNCHANGED faults
           /\ run' = IF Item.status = "followed" THEN ToComment ELSE [run EXCEPT !.step = "follow"]
  <2>1. QueueOK(q)' /\ QueueOK(disk)' /\ SameCounts(q', q) /\ SameCounts(disk', disk)
    BY <1>1, <1>2, <1>8, PutTurn
  <2>2. /\ run' \in Runs /\ run'.cur = run.cur /\ run'.todo = run.todo /\ run'.slots = run.slots
        /\ \/ run'.step = "follow" /\ run'.kind = "follow"
           \/ run'.step = "comment" /\ run'.kind = "comment" /\ Item.status = "followed"
    <3>1. "comment" \in Steps /\ "follow" \in Steps /\ "comment" \in Kinds
      BY DEF Steps, Kinds
    <3>2. ToComment \in Runs /\ [run EXCEPT !.step = "follow"] \in Runs
      BY <1>3, <3>1, RunFields DEF ToComment
    <3> QED  BY <1>1, <1>3, <1>8, <3>2 DEF ToComment, Runs
  <2>3. /\ Item'.status = Item.status /\ Free'
    <3>1. Item' = x.items[run.cur]
      BY <1>8, <2>2 DEF Item
    <3> QED  BY <1>2, <1>8, <2>2, <3>1 DEF Free, CreatorBusy, With, Queued
  <2>4. run'.cur \in Queued(q')
    BY <1>2, <1>3, <1>8, <2>2 DEF SameCounts
  <2>5. Acting' /\ ActOK' /\ ClickOK'
    BY <1>1, <1>3, <2>2, <2>3, <2>4 DEF ActOK, ClickOK, Acting, Writing, At
  <2>6. faults' \in 0 .. MaxFaults /\ UNCHANGED <<world, time>> /\ Longer /\ run'.step # "record"
    BY <1>1, <1>8, <2>2 DEF IInv, TypeOK, Longer
  <2> QED  BY <1>1, <1>3, <2>1, <2>2, <2>5, <2>6, ActTurnKeeps
<1> QED  BY <1>4, <1>5, <1>6, <1>7, <1>8

\* A save does not fail here.
LEMMA Saved == ASSUME IInv, NEW x, NEW next, SaveAnd(x, next)
               PROVE  q' = x /\ disk' = x /\ run' = next /\ UNCHANGED faults
BY NoSaveFault DEF SaveAnd

\* A status before the comment, put back.
LEMMA StatusPut ==
  ASSUME IInv, Acting, Item.status \in TO_ACT, NEW s \in TO_ACT
  PROVE  LET i == [Item EXCEPT !.status = s] IN
         /\ QueueOK(Put(q, i)) /\ SameCounts(Put(q, i), q)
         /\ Put(q, i).items[run.cur] = i /\ i.status = s /\ i.known = Item.known
         /\ Item.known => (CreatorBusy(Put(q, i), run.cur) <=> CreatorBusy(q, run.cur))
<1> DEFINE i == [Item EXCEPT !.status = s]
<1>1. Item \in Items /\ ItemOK(run.cur, Item)
  BY ActingType
<1>2. i \in Items /\ s \notin OPEN
  BY <1>1, ItemFields DEF TO_ACT, OPEN, Statuses
<1>3. /\ i.status = s /\ i.mark = Item.mark /\ i.links = Item.links /\ i.known = Item.known
      /\ i.confirmed = Item.confirmed /\ i.replied = Item.replied /\ i.attempts = Item.attempts
  BY <1>1, <1>2 DEF Items
<1> HIDE DEF i
<1>4. ItemOK(run.cur, i)
  BY <1>1, <1>2, <1>3 DEF ItemOK
<1>5. /\ QueueOK(Put(q, i)) /\ SameCounts(Put(q, i), q) /\ Put(q, i).items[run.cur] = i
      /\ Item.known /\ i.known => (CreatorBusy(Put(q, i), run.cur) <=> CreatorBusy(q, run.cur))
  BY <1>2, <1>3, <1>4, QuietActKeeps
<1> QED  BY <1>3, <1>5 DEF i

\* The act goes on to the comment, or to the click of the follow.
LEMMA FollowsOn ==
  ASSUME IInv, Acting, ~At("record"), UNCHANGED <<world, thread, time>>, Item.status \in TO_ACT, Free,
         NEW s \in TO_ACT, SaveAnd(Put(q, [Item EXCEPT !.status = s]), run'), run' \in Runs,
         run'.cur = run.cur, run'.todo = run.todo, run'.slots = run.slots,
         \/ run'.step = "comment" /\ run'.kind = "comment" /\ s = "followed"
         \/ run'.step = "click" /\ run'.kind = "follow" /\ s = "following" /\ q.writes < DailyWrites
  PROVE  IInv'
<1> DEFINE x == Put(q, [Item EXCEPT !.status = s])
<1>1. q' = x /\ disk' = x /\ UNCHANGED faults
  BY Saved
<1>2. /\ QueueOK(x) /\ SameCounts(x, q) /\ x.items[run.cur].status = s /\ x.items[run.cur].known
      /\ ~CreatorBusy(x, run.cur)
  BY StatusPut DEF Free
<1>3. run.cur \in Queued(q) /\ run.slots > 0 /\ run.todo \subseteq Queued(q)
  BY ActingType
<1> HIDE DEF x
<1>4. QueueOK(q)' /\ QueueOK(disk)' /\ SameCounts(q', q) /\ SameCounts(disk', disk)
  BY <1>1, <1>2, PutTurn
<1>5. Item'.status = s /\ Free' /\ run'.cur \in Queued(q') /\ q'.writes = q.writes
  BY <1>1, <1>2, <1>3 DEF Item, Free, CreatorBusy, With, Queued, SameCounts
<1>6. Acting' /\ ActOK' /\ ClickOK'
  BY <1>3, <1>5 DEF ActOK, ClickOK, Acting, Writing, At, TO_ACT
<1>7. faults' \in 0 .. MaxFaults /\ UNCHANGED <<world, time>> /\ Longer /\ run'.step # "record"
  BY <1>1 DEF IInv, TypeOK, Longer
<1> QED  BY <1>3, <1>4, <1>6, <1>7, ActTurnKeeps

LEMMA ToCommentType ==
  ASSUME run \in Runs
  PROVE  /\ ToComment \in Runs /\ ToComment.step = "comment" /\ ToComment.kind = "comment"
         /\ ToComment.cur = run.cur /\ ToComment.todo = run.todo /\ ToComment.slots = run.slots
<1>1. "comment" \in Steps /\ "comment" \in Kinds
  BY DEF Steps, Kinds
<1>2. ToComment \in Runs
  BY <1>1, RunFields DEF ToComment
<1> QED  BY <1>2 DEF ToComment, Runs

LEMMA StepType ==
  ASSUME run \in Runs, NEW s \in Steps
  PROVE  LET u == [run EXCEPT !.step = s] IN
         /\ u \in Runs /\ u.step = s /\ u.kind = run.kind
         /\ u.cur = run.cur /\ u.todo = run.todo /\ u.slots = run.slots
BY RunFields DEF Runs

LEMMA FollowKeeps == ASSUME IInv, Follow PROVE IInv'
<1>1. /\ At("follow") /\ ~At("record") /\ Acting /\ UNCHANGED <<world, thread, time>>
      /\ Item.status \in TO_ACT /\ Free /\ run.kind = "follow"
  BY DEF Follow, At, Acting, IInv, ActOK
<1>2. Setup(q) /\ SameCounts(q, q) /\ QueueOK(q) /\ run \in Runs
  BY <1>1, ActingType
<1>3. CASE Halt(q)
  BY <1>1, <1>2, <1>3, HaltKeeps
<1>4. CASE Error(q)
  BY <1>1, <1>2, <1>4, ActErrorKeeps, FaultType DEF Error, Item
<1>5. CASE SaveAnd(Followed, ToComment)
  <2>1. run' = ToComment
    BY <1>5, Saved
  <2>2. SaveAnd(Put(q, [Item EXCEPT !.status = "followed"]), run') /\ "followed" \in TO_ACT
    BY <1>5, <2>1 DEF Followed, TO_ACT
  <2> QED  BY <1>1, <1>2, <2>1, <2>2, ToCommentType, FollowsOn
<1>6. CASE /\ MayWrite("follow")
           /\ SaveAnd(Put(q, [Item EXCEPT !.status = "following"]), [run EXCEPT !.step = "click"])
  <2>1. run' = [run EXCEPT !.step = "click"] /\ "click" \in Steps /\ "following" \in TO_ACT
    BY <1>6, Saved DEF Steps, TO_ACT
  <2>2. /\ run' \in Runs /\ run'.step = "click" /\ run'.kind = "follow"
        /\ run'.cur = run.cur /\ run'.todo = run.todo /\ run'.slots = run.slots
    BY <1>1, <1>2, <2>1, StepType
  <2>3. SaveAnd(Put(q, [Item EXCEPT !.status = "following"]), run') /\ q.writes < DailyWrites
    BY <1>6, <2>1 DEF MayWrite
  <2> QED  BY <1>1, <2>1, <2>2, <2>3, FollowsOn
<1>7. CASE run' = StartPolling /\ UNCHANGED <<disk, q, faults>>
  BY <1>1, <1>7, PollsBegin
<1> QED  BY <1>3, <1>4, <1>5, <1>6, <1>7 DEF Follow

LEMMA CheckFollowKeeps == ASSUME IInv, CheckFollow PROVE IInv'
<1>1. /\ ~At("record") /\ Acting /\ UNCHANGED <<world, thread, time>>
      /\ Item.status \in TO_ACT /\ Free
  BY DEF CheckFollow, At, Acting, Writing, IInv, ActOK, TO_ACT
<1>2. Setup(q) /\ SameCounts(q, q) /\ QueueOK(q) /\ run \in Runs
  BY <1>1, ActingType
<1>3. CASE Halt(q)
  BY <1>1, <1>2, <1>3, HaltKeeps
<1>4. CASE Error(q)
  BY <1>1, <1>2, <1>4, ActErrorKeeps, FaultType DEF Error, Item
<1>5. CASE SaveAnd(Followed, ToComment)
  <2>1. run' = ToComment
    BY <1>5, Saved
  <2>2. SaveAnd(Put(q, [Item EXCEPT !.status = "followed"]), run') /\ "followed" \in TO_ACT
    BY <1>5, <2>1 DEF Followed, TO_ACT
  <2> QED  BY <1>1, <1>2, <2>1, <2>2, ToCommentType, FollowsOn
<1> QED  BY <1>3, <1>4, <1>5 DEF CheckFollow

LEMMA LongerWorld ==
  ASSUME TypeOK, UNCHANGED world, Longer
  PROVE  \A r \in Reels, i \in Items : ItemOK(r, i) => ItemOK(r, i)'
<1>1. \A r \in Reels : /\ Len(thread[Creator[r]]) \in Nat /\ Len(thread'[Creator[r]]) \in Nat
                       /\ Len(thread[Creator[r]]) <= Len(thread'[Creator[r]])
  BY LongerThreads DEF TypeOK
<1>2. posted' = posted /\ sent' = sent
  BY DEF world
<1>3. ASSUME NEW r \in Reels, NEW i \in Items, ItemOK(r, i)
      PROVE  ItemOK(r, i)'
  <2>1. i.mark \in Nat /\ i.links \subseteq Nat
    BY <1>3 DEF Items, Links
  <2> QED  BY <1>1, <1>2, <1>3, <2>1 DEF ItemOK
<1> QED  BY <1>3

\* A comment is noted: the record is the newest of its creator.
LEMMA MarkedPut ==
  ASSUME IInv, Acting, Item.status = "followed", Free, UNCHANGED <<world, time>>,
         thread' = [thread EXCEPT ![Creator[run.cur]] = Append(@, "ours")],
         NEW j \in Items, j.status \in {"commented", "commenting"}, j.known,
         j.mark = Len(thread[Creator[run.cur]]) + 1,
         j.links = Item.links, j.replied = Item.replied, j.attempts = Item.attempts,
         q' = Put(q, j), disk' = Put(q, j)
  PROVE  /\ QueueOK(q)' /\ QueueOK(disk)' /\ SameCounts(q', q) /\ SameCounts(disk', disk)
         /\ q'.items[run.cur] = j /\ Longer
<1> DEFINE c == Creator[run.cur]
           y == PutAt(q, run.cur, j)
<1>1. /\ run.cur \in Queued(q) /\ run.cur \in Reels /\ ItemOK(run.cur, Item) /\ QueueOK(q) /\ Related(q)
      /\ q \in Queues /\ Item = q.items[run.cur] /\ TypeOK /\ c \in Creators
  BY ActingType DEF Item, IInv, Creators
<1>2. q' = y /\ disk' = y /\ Longer
  BY <1>1, PutIs DEF Longer
<1>3. /\ Queued(y) = Queued(q) /\ y.items[run.cur] = j /\ SameCounts(y, q)
      /\ \A r \in Reels \ {run.cur} : y.items[r] = q.items[r]
  BY <1>1, PutFacts, PutCounts
<1>4. /\ Len(thread[c]) \in Nat /\ thread'[c] = Append(thread[c], "ours")
      /\ Len(thread'[c]) = Len(thread[c]) + 1
  <2>1. thread[c] \in Seq(Messages \cup {"ours"})
    BY <1>1 DEF TypeOK
  <2> QED  BY <1>1, <2>1 DEF TypeOK
<1>5. ASSUME NEW o \in Others(q, run.cur)
      PROVE  /\ q.items[o].status \notin OPEN /\ q.items[o].mark < j.mark
             /\ \A n \in q.items[o].links : n < j.mark
  <2>1. /\ o \in Queued(q) /\ Creator[o] = c /\ q.items[o] \in Items /\ ItemOK(o, q.items[o])
    BY <1>1, <1>5, ItemType DEF Others, QueueOK
  <2>2. q.items[o].mark \in Nat /\ q.items[o].links \subseteq Nat
    BY <2>1 DEF Items, Links
  <2>3. q.items[o].status \notin OPEN
    BY <1>1, <1>5, NotBusy DEF Free
  <2> QED  BY <1>4, <2>1, <2>2, <2>3 DEF ItemOK
<1>6. \A o \in Others(q, run.cur) : q.items[o].mark \in Nat /\ j.mark \in Nat
  BY <1>1, ItemType DEF Others, Items
<1>7. Related(y)
  BY <1>1, <1>5, <1>6, PutRelated
<1>8. \A r \in {run.cur} : ItemOK(r, j)'
  <2>1. /\ Item.links = {} /\ Item.attempts < MaxAttempts /\ (sent[run.cur] > 0 => Item.replied)
    BY <1>1 DEF ItemOK, TO_ACT
  <2>2. sent' = sent /\ j.status \notin TO_ACT
    BY DEF world, TO_ACT
  <2>3. /\ j.links = {} /\ j.attempts < MaxAttempts /\ (sent'[run.cur] > 0 => j.replied)
        /\ j.mark > 0 /\ j.mark <= Len(thread'[c])
    BY <1>4, <2>1, <2>2
  <2> HIDE DEF c
  <2> QED  BY <2>2, <2>3 DEF ItemOK, c
<1>9. ASSUME NEW r \in Queued(q)'
      PROVE  ItemOK(r, q.items[r])'
  <2>1. r \in Reels /\ r \in Queued(q)
    BY <1>2, <1>3, <1>9 DEF Queued
  <2>2. CASE r = run.cur
    <3>1. ItemOK(r, j)' /\ q'.items[r] = j
      BY <1>2, <1>3, <1>8, <2>2
    <3> QED  BY <3>1 DEF ItemOK
  <2>3. CASE r # run.cur
    <3>1. q.items[r] \in Items /\ ItemOK(r, q.items[r]) /\ q'.items[r] = q.items[r]
      BY <1>1, <1>2, <1>3, <2>1, <2>3, ItemType DEF QueueOK
    <3>2. PICK i \in Items : i = q.items[r]
      BY <3>1
    <3>3. ItemOK(r, i)' /\ q'.items[r] = i
      BY <1>1, <1>2, <2>1, <3>1, <3>2, LongerWorld
    <3> QED  BY <3>3 DEF ItemOK
  <2> QED  BY <2>2, <2>3
<1>10. QueueOK(q)'
  <2>1. Related(q')
    BY <1>2, <1>7
  <2> QED  BY <1>9, <2>1 DEF QueueOK, Related, Newest, Ordered, Others, With, Queued
<1>11. disk' = q'
  BY <1>2
<1>12. QueueOK(disk)'
  BY <1>10, <1>11, SMTT(60) DEF QueueOK, Related, Newest, Ordered, Others, With, Queued
<1> QED  BY <1>2, <1>3, <1>10, <1>12 DEF SameCounts, IInv, Agree

LEMMA CommentKeeps == ASSUME IInv, Comment PROVE IInv'
<1> DEFINE c == Creator[run.cur]
<1>1. /\ At("comment") /\ ~At("record") /\ Acting /\ UNCHANGED <<world, time>>
      /\ Item.status = "followed" /\ Item.status \in TO_ACT /\ Free /\ run.kind = "comment"
  BY DEF Comment, At, Acting, IInv, ActOK, TO_ACT
<1>2. /\ Setup(q) /\ SameCounts(q, q) /\ QueueOK(q) /\ run \in Runs /\ Item \in Items
      /\ run.cur \in Queued(q) /\ run.cur \in Reels /\ run.slots > 0 /\ run.todo \subseteq Queued(q)
      /\ ItemOK(run.cur, Item) /\ Item.known
  BY <1>1, ActingType DEF Free
<1>3. Len(thread[c]) \in Nat
  <2>1. thread[c] \in Seq(Messages \cup {"ours"})
    BY <1>2 DEF IInv, TypeOK, Creators
  <2> QED  BY <2>1
<1>4. CASE run' = StartPolling /\ UNCHANGED <<disk, q, thread, faults>>
  BY <1>1, <1>4, PollsBegin
<1>5. ASSUME MayWrite("comment"), NEW marker \in Nat,
             LET i == [Item EXCEPT !.marker = marker]
                 j == [i EXCEPT !.mark = Len(thread[c]) + 1]
                 there == Put(q, [j EXCEPT !.status = "commented", !.confirmed = TRUE])
             IN  \/ (Halt(Put(q, i)) \/ Error(Put(q, i))) /\ UNCHANGED thread
                 \/ /\ thread' = [thread EXCEPT ![c] = Append(@, "ours")]
                    /\ \/ SaveAnd(there, AfterAct(there))
                       \/ SaveAnd(Put(q, [j EXCEPT !.status = "commenting"]), [run EXCEPT !.step = "click"])
      PROVE  IInv'
  <2> DEFINE m == [Item EXCEPT !.marker = marker]
             i == [m EXCEPT !.mark = Len(thread[c]) + 1]
             seen == [i EXCEPT !.status = "commented"]
             there == [seen EXCEPT !.confirmed = TRUE]
             noted == [i EXCEPT !.status = "commenting"]
  <2>1. /\ m \in Items /\ m.status = Item.status /\ m.mark = Item.mark /\ m.links = Item.links
        /\ m.confirmed = Item.confirmed /\ m.known = Item.known /\ m.replied = Item.replied
        /\ m.attempts = Item.attempts
    BY <1>2, ItemFields, ZenonT(60) DEF Items
  <2> HIDE DEF m
  <2>2. ItemOK(run.cur, m)
    BY <1>2, <2>1 DEF ItemOK
  <2>3. CASE (Halt(Put(q, m)) \/ Error(Put(q, m))) /\ UNCHANGED thread
    <3>1. /\ QueueOK(Put(q, m)) /\ SameCounts(Put(q, m), q) /\ Setup(Put(q, m))
          /\ Put(q, m).items[run.cur] = m
      BY <1>1, <2>1, <2>2, QuietActKeeps
    <3>2. UNCHANGED <<world, thread, time>>
      BY <1>1, <2>3
    <3>3. CASE Halt(Put(q, m))
      BY <1>1, <3>1, <3>2, <3>3, HaltKeeps
    <3>4. CASE Error(Put(q, m))
      <4>1. Put(q, m).items[run.cur].status \in TO_ACT \cup {"commenting"}
        BY <1>1, <2>1, <3>1
      <4>2. faults' \in 0 .. MaxFaults /\ Raise(Put(q, m))
        BY <3>4, FaultType DEF Error
      <4> QED  BY <1>1, <3>1, <3>2, <4>1, <4>2, ActErrorKeeps
    <3> QED  BY <2>3, <3>3, <3>4
  <2>5. i \in Items
    BY <1>3, <2>1, ItemFields
  <2>6. /\ i.mark = Len(thread[c]) + 1 /\ i.links = Item.links /\ i.replied = Item.replied
        /\ i.attempts = Item.attempts /\ i.known
    BY <1>2, <2>1 DEF Items
  <2> HIDE DEF i
  <2>7. /\ seen \in Items /\ noted \in Items /\ noted.status = "commenting"
    <3>1. "commented" \in Statuses /\ "commenting" \in Statuses
      BY DEF Statuses, OPEN
    <3> QED  BY <2>5, <3>1, ItemFields DEF Items
  <2>8. there \in Items
    <3> HIDE DEF seen
    <3> QED  BY <2>7, ItemFields
  <2>9. /\ \A j \in {there, noted} :
             /\ j.status \in {"commented", "commenting"} /\ j.known /\ j.mark = Len(thread[c]) + 1
             /\ j.links = Item.links /\ j.replied = Item.replied /\ j.attempts = Item.attempts
    BY <2>5, <2>6 DEF Items
  <2>11. ASSUME NEW j \in {there, noted}, thread' = [thread EXCEPT ![c] = Append(@, "ours")],
                q' = Put(q, j), disk' = Put(q, j)
         PROVE  /\ QueueOK(q)' /\ QueueOK(disk)' /\ SameCounts(q', q) /\ SameCounts(disk', disk)
                /\ q'.items[run.cur] = j /\ Longer
    <3>1. j \in Items
      BY <2>7, <2>8
    <3> HIDE DEF there, noted
    <3> QED  BY <1>1, <2>9, <2>11, <3>1, MarkedPut
  <2>12. CASE /\ thread' = [thread EXCEPT ![c] = Append(@, "ours")]
              /\ SaveAnd(Put(q, there), AfterAct(Put(q, there)))
    <3>1. q' = Put(q, there) /\ disk' = Put(q, there) /\ run' = AfterAct(Put(q, there)) /\ UNCHANGED faults
      BY <2>12, Saved
    <3>2. QueueOK(q)' /\ QueueOK(disk)' /\ SameCounts(q', q) /\ SameCounts(disk', disk) /\ Longer
      BY <2>11, <2>12, <3>1
    <3>3. run' \in Runs /\ run'.step = "act" /\ run'.kind = "follow" /\ run'.todo \subseteq Queued(q')
      BY <1>2, <3>1, <3>2, AfterActType DEF SameCounts
    <3>4. faults' \in 0 .. MaxFaults
      BY <3>1 DEF IInv, TypeOK
    <3> QED  BY <1>1, <3>2, <3>3, <3>4, RestKeeps DEF Loops
  <2>13. CASE /\ thread' = [thread EXCEPT ![c] = Append(@, "ours")]
              /\ SaveAnd(Put(q, noted), [run EXCEPT !.step = "click"])
    <3>1. /\ q' = Put(q, noted) /\ disk' = q' /\ run' = [run EXCEPT !.step = "click"] /\ UNCHANGED faults
          /\ "click" \in Steps
      BY <2>13, Saved DEF Steps
    <3>2. /\ QueueOK(q)' /\ QueueOK(disk)' /\ SameCounts(q', q) /\ SameCounts(disk', disk) /\ Longer
          /\ q'.items[run.cur] = noted
      BY <2>11, <2>13, <3>1
    <3>3. /\ run' \in Runs /\ run'.step = "click" /\ run'.kind = "comment"
          /\ run'.cur = run.cur /\ run'.todo = run.todo /\ run'.slots = run.slots
      BY <1>1, <1>2, <3>1, StepType
    <3>4. Item'.status = "commenting" /\ run'.cur \in Queued(q')
      BY <1>2, <2>7, <3>2, <3>3 DEF Item, SameCounts
    <3>5. Acting' /\ ActOK'
      BY <1>2, <3>3, <3>4 DEF ActOK, Acting, Writing, At
    <3>6. ClickOK'
      <4>1. q.writes < DailyWrites /\ q.comments < CommentCap /\ posted[Post[run.cur]] = 0
        BY <1>1, <1>2, <1>5 DEF MayWrite, ItemOK
      <4>2. CommentCap' = CommentCap /\ posted' = posted
        BY <1>1, <3>2 DEF CommentCap, SameCounts, time, world
      <4>3. disk'.items[run'.cur].status = "commenting"
        BY <3>1, <3>4 DEF Item
      <4> QED  BY <3>2, <3>3, <4>1, <4>2, <4>3 DEF ClickOK, At, SameCounts
    <3>7. faults' \in 0 .. MaxFaults
      BY <3>1 DEF IInv, TypeOK
    <3> QED  BY <1>1, <1>2, <3>2, <3>3, <3>5, <3>6, <3>7, ActTurnKeeps
  <2> QED
    <3>1. /\ m = [Item EXCEPT !.marker = marker]
          /\ i = [m EXCEPT !.mark = Len(thread[c]) + 1]
          /\ there = [i EXCEPT !.status = "commented", !.confirmed = TRUE]
          /\ noted = [i EXCEPT !.status = "commenting"]
      BY DEF m, i
    <3> HIDE DEF there, noted
    <3> QED  BY <1>5, <2>3, <2>12, <2>13, <3>1
<1> QED
  <2>1. Item.marker \in Nat
    BY <1>2 DEF Items
  <2> QED  BY <1>3, <1>4, <1>5, <2>1 DEF Comment

\* Our comment is open: it may be seen, and stays open.
LEMMA OpenPut ==
  ASSUME IInv, Acting, Item.status = "commenting", NEW i \in Items,
         i.status \in OPEN, i.mark = Item.mark, i.links = Item.links, i.known = Item.known,
         i.replied = Item.replied, i.attempts = Item.attempts
  PROVE  QueueOK(Put(q, i)) /\ SameCounts(Put(q, i), q) /\ Setup(Put(q, i)) /\ Put(q, i).items[run.cur] = i
<1>1. ItemOK(run.cur, Item) /\ Item.status \in OPEN /\ "commenting" \notin TO_ACT
  BY ActingType DEF OPEN, TO_ACT
<1>2. ItemOK(run.cur, i)
  BY <1>1 DEF ItemOK, OPEN, TO_ACT
<1> QED  BY <1>1, <1>2, QuietActKeeps

LEMMA CheckCommentKeeps == ASSUME IInv, CheckComment PROVE IInv'
<1> DEFINE i == [Item EXCEPT !.confirmed = TRUE]
<1>1. /\ ~At("record") /\ Acting /\ UNCHANGED <<world, thread, time>> /\ Item.status = "commenting"
  BY DEF CheckComment, At, Acting, Writing, IInv, ActOK
<1>2. Setup(q) /\ SameCounts(q, q) /\ QueueOK(q) /\ run \in Runs /\ Item \in Items
  BY <1>1, ActingType
<1>3. CASE Halt(q)
  BY <1>1, <1>2, <1>3, HaltKeeps
<1>4. CASE Error(Put(q, i))
  <2>1. i \in Items
    BY <1>2, ItemFields
  <2>2. /\ i.status = "commenting" /\ i.mark = Item.mark /\ i.links = Item.links /\ i.known = Item.known
        /\ i.replied = Item.replied /\ i.attempts = Item.attempts /\ "commenting" \in OPEN
    BY <1>1, <1>2 DEF Items, OPEN
  <2>3. Error(Put(q, i))
    BY <1>4
  <2> HIDE DEF i
  <2>4. /\ Setup(Put(q, i)) /\ SameCounts(Put(q, i), q)
        /\ Put(q, i).items[run.cur].status \in TO_ACT \cup {"commenting"}
    BY <1>1, <2>1, <2>2, OpenPut
  <2> QED  BY <1>1, <2>3, <2>4, ActErrorKeeps, FaultType DEF Error
<1>5. ASSUME NEW s \in AWAITING_DM,
             SaveAnd(Put(q, [Item EXCEPT !.status = s, !.confirmed = TRUE]),
                     AfterAct(Put(q, [Item EXCEPT !.status = s, !.confirmed = TRUE])))
      PROVE  IInv'
  <2> DEFINE k == [Item EXCEPT !.status = s]
             j == [k EXCEPT !.confirmed = TRUE]
  <2>1. s \in Statuses /\ s \in OPEN
    BY DEF AWAITING_DM, Statuses, OPEN
  <2>2. k \in Items /\ k.status = s
    BY <1>2, <2>1, ItemFields DEF Items
  <2>3. j \in Items
    <3> HIDE DEF k
    <3> QED  BY <2>2, ItemFields
  <2>4. /\ j.status \in OPEN /\ j.mark = Item.mark /\ j.links = Item.links /\ j.known = Item.known
        /\ j.replied = Item.replied /\ j.attempts = Item.attempts
    BY <1>2, <2>1 DEF Items
  <2>5. j = [Item EXCEPT !.status = s, !.confirmed = TRUE]
    OBVIOUS
  <2> HIDE DEF j
  <2>6. q' = Put(q, j) /\ disk' = Put(q, j) /\ run' = AfterAct(Put(q, j)) /\ UNCHANGED faults
    BY <1>5, <2>5, Saved
  <2>7. QueueOK(Put(q, j)) /\ SameCounts(Put(q, j), q)
    BY <1>1, <2>3, <2>4, OpenPut
  <2> QED  BY <1>1, <2>6, <2>7, ActOver
<1> QED  BY <1>3, <1>4, <1>5 DEF CheckComment

--------------------------------------------------------------------------------
(* The writes. *)

LEMMA RecordWriteKeeps == ASSUME IInv, RecordWrite PROVE IInv'
<1> DEFINE z == [q EXCEPT !.writes = @ + 1, !.applied = TRUE,
                          !.comments = IF run.kind = "comment" THEN @ + 1 ELSE @]
<1>1. /\ At("record") /\ UNCHANGED <<posted, follows, sent, clicks, lost, thread, age, days>>
      /\ run \in Runs /\ TypeOK /\ Setting /\ QueueOK(q)
  BY RunType DEF RecordWrite, IInv, world, time
<1>2. /\ q' = z /\ disk' = z /\ run' = [run EXCEPT !.step = "check"] /\ UNCHANGED faults
      /\ "check" \in Steps
  BY Saved DEF RecordWrite, Steps
<1>3. /\ run' \in Runs /\ run'.step = "check" /\ run'.kind = run.kind
      /\ run'.cur = run.cur /\ run'.todo = run.todo /\ run'.slots = run.slots
  BY <1>1, <1>2, StepType
<1>4. q \in Queues /\ q.writes \in Nat /\ q.comments \in Nat
  BY RunType DEF Queues
<1>5. /\ z \in Queues /\ z.items = q.items /\ z.writes = q.writes + 1 /\ z.applied
      /\ z.comments = q.comments + (IF run.kind = "comment" THEN 1 ELSE 0)
  <2> DEFINE n == q.writes + 1
             m == IF run.kind = "comment" THEN q.comments + 1 ELSE q.comments
  <2>1. n \in Nat /\ m \in Nat /\ m = q.comments + (IF run.kind = "comment" THEN 1 ELSE 0)
    BY <1>4
  <2>2. z = [q EXCEPT !.writes = n, !.applied = TRUE, !.comments = m]
    OBVIOUS
  <2>3. n = q.writes + 1
    OBVIOUS
  <2> HIDE DEF n, m, z
  <2>4. z \in Queues
    BY <1>4, <2>1, <2>2 DEF Queues
  <2>5. z.items = q.items /\ z.writes = n /\ z.applied /\ z.comments = m
    BY <1>4, <2>2 DEF Queues
  <2> QED  BY <2>1, <2>3, <2>4, <2>5
<1> HIDE DEF z
<1>6. QueueOK(z) /\ Queued(z) = Queued(q)
  BY <1>1, <1>5, CountsKeep
<1>7. QueueOK(q)' /\ QueueOK(disk)'
  BY <1>1, <1>2, <1>6, SameWorld DEF world, time
<1>8. TypeOK'
  BY <1>1, <1>2, <1>3, <1>5 DEF TypeOK, Runs
<1>9. Agree'
  BY <1>1, <1>2, <1>6 DEF IInv, Agree
<1>10. Item' = Item /\ (Free' <=> Free)
  <2>1. q'.items = q.items /\ run'.cur = run.cur /\ Queued(q') = Queued(q)
    BY <1>2, <1>3, <1>5, <1>6
  <2> QED  BY <2>1 DEF Item, Free, CreatorBusy, With
<1>11. ActOK'
  <2>1. Acting' <=> Acting
    BY <1>1, <1>3 DEF Acting, Writing, At
  <2>2. Queued(q') = Queued(q)
    BY <1>2, <1>6
  <2> QED  BY <1>1, <1>3, <1>10, <2>1, <2>2 DEF IInv, ActOK, Writing, At
<1>12. PollOK'
  <2>1. (Polling' <=> Polling) /\ (Acting' <=> Acting)
    BY <1>1, <1>3 DEF Polling, Acting, Writing, At
  <2>2. Queued(q') = Queued(q) /\ With(q', AWAITING_DM) = With(q, AWAITING_DM)
    BY <1>2, <1>5, <1>6 DEF With
  <2> QED  BY <1>1, <1>3, <2>1, <2>2 DEF IInv, PollOK, At
<1>13. ClickOK' /\ SentOnce'
  BY <1>1, <1>3 DEF ClickOK, At, IInv, SentOnce
<1>14. Recorded' /\ BudgetKept'
  <2>1. /\ clicks.writes \in Nat /\ clicks.comments \in Nat /\ lost \in Nat /\ days \in Nat
        /\ FirstWeekDays \in Nat
    BY <1>1, Constants DEF TypeOK
  <2>2. /\ clicks.writes <= q.writes + lost + 1 /\ (~q.applied => days = 0)
        /\ clicks.comments <= q.comments + lost + (IF run.kind = "comment" THEN 1 ELSE 0)
    BY <1>1 DEF IInv, Recorded, Agree
  <2>3. CommentCap' = CommentCap
    BY <1>1, <1>2, <1>5, <2>1, <2>2 DEF CommentCap, Setting
  <2>4. Recorded'
    BY <1>1, <1>2, <1>3, <1>4, <1>5, <2>1, <2>2 DEF Recorded, At
  <2>5. BudgetKept'
    BY <1>1, <2>3 DEF IInv, BudgetKept
  <2> QED  BY <2>4, <2>5
<1> QED  BY <1>1, <1>7, <1>8, <1>9, <1>11, <1>12, <1>13, <1>14 DEF IInv

LEMMA ClickingType ==
  ASSUME IInv, At("click")
  PROVE  /\ run \in Runs /\ q \in Queues /\ run.cur \in Queued(q) /\ run.cur \in Reels
         /\ run.cur \in Queued(disk) /\ QueueOK(q) /\ QueueOK(disk) /\ Setup(q) /\ SameCounts(q, q)
         /\ SameCounts(disk, disk) /\ Item = q.items[run.cur]
         /\ Acting \/ Polling
<1>1. run \in Runs /\ q \in Queues /\ QueueOK(q) /\ QueueOK(disk) /\ Queued(q) = Queued(disk)
  BY RunType DEF IInv, Agree
<1>2. Acting \/ Polling
  BY <1>1 DEF Acting, Polling, Writing, At, Runs, Kinds
<1>3. run.cur \in Queued(q)
  BY <1>2 DEF IInv, ActOK, PollOK, With
<1> QED  BY <1>1, <1>2, <1>3, ItemType DEF Setup, SameCounts, Item

\* What a click does, to a post without a comment and a reel without a reply.
LEMMA ClickedFacts ==
  ASSUME IInv, At("click"), Clicked
  PROVE  /\ follows' \subseteq Creators /\ posted' \in [Posts -> 0 .. 2] /\ sent' \in [Reels -> 0 .. 2]
         /\ \A p \in Posts : posted'[p] = IF run.kind = "comment" /\ p = Post[run.cur] THEN 1 ELSE posted[p]
         /\ \A o \in Reels : sent'[o] = IF run.kind = "dm" /\ o = run.cur THEN 1 ELSE sent[o]
         /\ clicks' \in [writes : Nat, comments : Nat] /\ clicks'.writes = clicks.writes + 1
         /\ clicks'.comments = clicks.comments + (IF run.kind = "comment" THEN 1 ELSE 0)
<1>1. /\ run.cur \in Reels /\ Creator[run.cur] \in Creators /\ Post[run.cur] \in Posts
      /\ TypeOK /\ ClickOK
  BY ClickingType DEF Creators, Posts, IInv
<1>2. follows' \subseteq Creators
  BY <1>1 DEF Clicked, TypeOK
<1>3. /\ posted' \in [Posts -> 0 .. 2]
      /\ \A p \in Posts : posted'[p] = IF run.kind = "comment" /\ p = Post[run.cur] THEN 1 ELSE posted[p]
  BY <1>1 DEF Clicked, TypeOK, ClickOK
<1>4. /\ sent' \in [Reels -> 0 .. 2]
      /\ \A o \in Reels : sent'[o] = IF run.kind = "dm" /\ o = run.cur THEN 1 ELSE sent[o]
  BY <1>1 DEF Clicked, TypeOK, ClickOK
<1>5. clicks.writes \in Nat /\ clicks.comments \in Nat
  BY <1>1 DEF TypeOK
<1> QED  BY <1>2, <1>3, <1>4, <1>5 DEF Clicked

\* A queue that knows of the click.
Clickable(x) ==
  /\ QueueOK(x) /\ run.cur \in Queued(x)
  /\ run.kind = "comment" => x.items[run.cur].status \notin TO_ACT
  /\ run.kind = "dm" => x.items[run.cur].replied

LEMMA ClickedQueues ==
  ASSUME IInv, At("click"), Clicked, UNCHANGED thread
  PROVE  /\ Clickable(q') => QueueOK(q)'
         /\ Clickable(disk') => QueueOK(disk)'
<1>1. /\ \A p \in Posts : posted'[p] = IF run.kind = "comment" /\ p = Post[run.cur] THEN 1 ELSE posted[p]
      /\ \A o \in Reels : sent'[o] = IF run.kind = "dm" /\ o = run.cur THEN 1 ELSE sent[o]
      /\ \A r \in Reels : Post[r] \in Posts
  BY ClickedFacts DEF Posts
<1>2. ASSUME NEW r \in Reels, NEW i, ItemOK(r, i), Post[r] = Post[run.cur] => r = run.cur,
             r = run.cur => /\ run.kind = "comment" => i.status \notin TO_ACT
                            /\ run.kind = "dm" => i.replied
      PROVE  ItemOK(r, i)'
  <2>1. i.status \in TO_ACT => posted'[Post[r]] = 0
    BY <1>1, <1>2 DEF ItemOK
  <2>2. sent'[r] > 0 => i.replied
    BY <1>1, <1>2 DEF ItemOK
  <2> QED  BY <1>2, <2>1, <2>2 DEF ItemOK
<1>3. Clickable(q') => QueueOK(q)'
  <2> SUFFICES ASSUME Clickable(q') PROVE QueueOK(q)'
    OBVIOUS
  <2>1. \A r \in Queued(q') : r \in Reels /\ ItemOK(r, q'.items[r]) /\ (Post[r] = Post[run.cur] => r = run.cur)
    BY DEF Clickable, QueueOK, Related, Queued
  <2>2. \A r \in Queued(q)' : ItemOK(r, q.items[r])'
    BY <1>2, <2>1 DEF Clickable, ItemOK, Queued
  <2>3. Related(q')
    BY DEF Clickable, QueueOK
  <2> QED  BY <2>2, <2>3 DEF QueueOK, Related, Newest, Ordered, Others, With, Queued
<1>4. Clickable(disk') => QueueOK(disk)'
  <2> SUFFICES ASSUME Clickable(disk') PROVE QueueOK(disk)'
    OBVIOUS
  <2>1. \A r \in Queued(disk') : r \in Reels /\ ItemOK(r, disk'.items[r]) /\ (Post[r] = Post[run.cur] => r = run.cur)
    BY DEF Clickable, QueueOK, Related, Queued
  <2>2. \A r \in Queued(disk)' : ItemOK(r, disk.items[r])'
    BY <1>2, <2>1 DEF Clickable, ItemOK, Queued
  <2>3. Related(disk')
    BY DEF Clickable, QueueOK
  <2> QED  BY <2>2, <2>3 DEF QueueOK, Related, Newest, Ordered, Others, With, Queued
<1> QED  BY <1>3, <1>4

\* The rest of the invariant after a click, recorded next or lost.
LEMMA ClickTurn ==
  ASSUME IInv, At("click"), Clicked, UNCHANGED <<thread, time>>, faults' \in 0 .. MaxFaults, run' \in Runs,
         QueueOK(q)', QueueOK(disk)', SameCounts(q', q), SameCounts(disk', disk),
         ActOK', PollOK', ClickOK',
         \/ run'.step = "record" /\ run'.kind = run.kind /\ lost' = lost
         \/ run'.step # "record" /\ lost' = lost + 1
  PROVE  IInv'
<1>1. /\ follows' \subseteq Creators /\ posted' \in [Posts -> 0 .. 2] /\ sent' \in [Reels -> 0 .. 2]
      /\ \A p \in Posts : posted'[p] = IF run.kind = "comment" /\ p = Post[run.cur] THEN 1 ELSE posted[p]
      /\ \A o \in Reels : sent'[o] = IF run.kind = "dm" /\ o = run.cur THEN 1 ELSE sent[o]
      /\ clicks' \in [writes : Nat, comments : Nat] /\ clicks'.writes = clicks.writes + 1
      /\ clicks'.comments = clicks.comments + (IF run.kind = "comment" THEN 1 ELSE 0)
  BY ClickedFacts
<1>2. TypeOK /\ lost \in Nat /\ age' = age /\ days' = days
  BY DEF IInv, TypeOK, time
<1>3. q' \in Queues /\ disk' \in Queues
  BY DEF QueueOK, Related
<1>4. TypeOK'
  BY <1>1, <1>2, <1>3 DEF TypeOK, Runs
<1>5. run.cur \in Queued(disk) /\ Queued(disk') = Queued(disk) /\ Queued(q') = Queued(q)
  BY ClickingType DEF SameCounts
<1>6. Agree'
  BY <1>1, <1>5 DEF IInv, Agree, SameCounts
<1>7. SentOnce'
  BY <1>1 DEF IInv, SentOnce
<1>8. /\ clicks.writes \in Nat /\ clicks.comments \in Nat /\ disk.writes \in Nat /\ disk.comments \in Nat
      /\ DailyWrites \in Nat /\ CommentCap \in Nat /\ CommentCap' = CommentCap
  <2>1. clicks.writes \in Nat /\ clicks.comments \in Nat /\ disk.writes \in Nat /\ disk.comments \in Nat
    BY <1>2 DEF TypeOK, Queues
  <2>2. CommentCap' = CommentCap
    BY <1>2 DEF CommentCap, SameCounts
  <2> QED  BY <2>1, <2>2, Constants DEF CommentCap
<1>9. /\ clicks.writes <= disk.writes + lost /\ clicks.comments <= disk.comments + lost
      /\ q.writes = disk.writes /\ q.comments = disk.comments /\ q.writes < DailyWrites
      /\ run.kind = "comment" => q.comments < CommentCap
      /\ clicks.comments <= CommentCap + lost
      /\ ~disk.applied => days = 0
  <2>1. run.step = "click" /\ run.step # "record"
    BY DEF At
  <2>2. /\ q.writes = disk.writes /\ q.comments = disk.comments /\ q.writes < DailyWrites
        /\ run.kind = "comment" => q.comments < CommentCap
    BY <2>1 DEF IInv, Agree, ClickOK, At
  <2>3. clicks.comments <= CommentCap + lost
    BY DEF IInv, BudgetKept
  <2>4. /\ clicks.writes <= disk.writes + lost + 0 /\ clicks.comments <= disk.comments + lost + 0
        /\ ~disk.applied => days = 0
    BY <2>1 DEF IInv, Recorded, At
  <2> QED  BY <1>2, <1>8, <2>2, <2>3, <2>4
<1>10. Recorded'
  <2>1. /\ disk'.writes = disk.writes /\ disk'.comments = disk.comments /\ disk'.applied = disk.applied
        /\ q'.writes = q.writes
    BY DEF SameCounts
  <2>2. CASE run'.step = "record" /\ run'.kind = run.kind /\ lost' = lost
    BY <1>1, <1>2, <1>8, <1>9, <2>1, <2>2 DEF Recorded, At
  <2>3. CASE run'.step # "record" /\ lost' = lost + 1
    BY <1>1, <1>2, <1>8, <1>9, <2>1, <2>3 DEF Recorded, At
  <2> QED  BY <2>2, <2>3
<1>11. BudgetKept'
  BY <1>1, <1>2, <1>8, <1>9 DEF BudgetKept
<1> QED  BY <1>4, <1>6, <1>7, <1>10, <1>11 DEF IInv

LEMMA ClickKeeps == ASSUME IInv, Click PROVE IInv'
<1>1. /\ At("click") /\ ~At("record") /\ UNCHANGED <<thread, time>>
      /\ run \in Runs /\ run.cur \in Queued(q) /\ run.cur \in Queued(disk) /\ (Acting \/ Polling)
      /\ QueueOK(q) /\ QueueOK(disk) /\ Setup(q) /\ SameCounts(q, q) /\ SameCounts(disk, disk)
      /\ Item = q.items[run.cur]
  BY ClickingType DEF Click, At
<1>2. Acting => Item.status \in TO_ACT \cup {"commenting"}
  BY <1>1 DEF IInv, ActOK, Acting, Writing, At, TO_ACT
<1>3. SameCounts(q, disk) /\ SameCounts(disk, q)
  BY AgreeCounts
<1>4. /\ run.kind = "comment" => Item.status = "commenting" /\ disk.items[run.cur].status = "commenting"
      /\ run.kind = "dm" => Item.replied /\ disk.items[run.cur].replied
  <2>1. run.step \in Writing
    BY <1>1 DEF At, Writing
  <2>2. run.kind = "comment" => Item.status = "commenting" /\ disk.items[run.cur].status = "commenting"
    BY <1>1, <2>1 DEF IInv, ActOK, ClickOK
  <2>3. run.kind = "dm" => Item.replied /\ disk.items[run.cur].replied
    BY <1>1 DEF IInv, ClickOK
  <2> QED  BY <2>2, <2>3
<1>5. Clickable(q) /\ Clickable(disk)
  BY <1>1, <1>4 DEF Clickable, TO_ACT
<1>6. CASE Clicked /\ run' = [run EXCEPT !.step = "record"] /\ UNCHANGED <<disk, q, lost, faults>>
  <2>1. /\ run' \in Runs /\ run'.step = "record" /\ run'.kind = run.kind
        /\ run'.cur = run.cur /\ run'.todo = run.todo /\ run'.slots = run.slots
    <3>1. "record" \in Steps /\ run' = [run EXCEPT !.step = "record"]
      BY <1>6 DEF Steps
    <3> QED  BY <1>1, <3>1, StepType
  <2>2. QueueOK(q)' /\ QueueOK(disk)'
    <3>1. Clickable(q') /\ Clickable(disk')
      BY <1>5, <1>6
    <3> QED  BY <1>1, <1>6, <3>1, ClickedQueues
  <2>3. ActOK'
    <3>1. Item' = Item /\ (Free' <=> Free) /\ (Acting' <=> Acting)
      BY <1>1, <1>6, <2>1 DEF Item, Free, CreatorBusy, With, Queued, Acting, Writing, At
    <3> QED  BY <1>1, <1>6, <2>1, <3>1 DEF IInv, ActOK, Writing, At, Queued
  <2>4. PollOK'
    <3>1. (Polling' <=> Polling) /\ (Acting' <=> Acting)
      BY <1>1, <2>1 DEF Polling, Acting, Writing, At
    <3> QED  BY <1>1, <1>6, <2>1, <3>1 DEF IInv, PollOK, At, With, Queued
  <2>5. ClickOK'
    BY <2>1 DEF ClickOK, At
  <2>6. faults' \in 0 .. MaxFaults /\ SameCounts(q', q) /\ SameCounts(disk', disk) /\ lost' = lost
    BY <1>1, <1>6 DEF IInv, TypeOK
  <2> QED  BY <1>1, <1>6, <2>1, <2>2, <2>3, <2>4, <2>5, <2>6, ClickTurn
<1>7. CASE Clicked /\ Error(q) /\ lost' = lost + 1
  <2>1. faults' \in 0 .. MaxFaults /\ Raise(q)
    BY <1>7, FaultType DEF Error
  <2>2. CASE Acting
    <3>1. q' = Failed(q) /\ disk' = Failed(q) /\ run' = AfterAct(Failed(q))
          /\ run.slots > 0 /\ run.todo \subseteq Queued(q)
      BY <2>1, <2>2, ActingType DEF Raise, IInv, ActOK
    <3>2. /\ QueueOK(Failed(q)) /\ SameCounts(Failed(q), q)
          /\ q.items[run.cur].status = "commenting" => Failed(q).items[run.cur].status \notin TO_ACT
      BY <1>1, <1>2, <2>2, FailedKeeps
    <3>3. run.kind \in {"follow", "comment"}
      BY <2>2 DEF IInv, ActOK
    <3>4. Clickable(q') /\ Clickable(disk')
      <4>1. Failed(q).items[run.cur].status \notin TO_ACT \/ run.kind # "comment"
        BY <1>1, <1>4, <3>2
      <4>2. QueueOK(Failed(q)) /\ run.cur \in Queued(Failed(q))
        BY <1>1, <3>2 DEF SameCounts
      <4> QED  BY <3>1, <3>3, <4>1, <4>2 DEF Clickable
    <3>5. QueueOK(q)' /\ QueueOK(disk)'
      BY <1>1, <1>7, <3>4, ClickedQueues
    <3>6. SameCounts(q', q) /\ SameCounts(disk', disk)
      BY <1>3, <3>1, <3>2 DEF SameCounts
    <3>7. run' \in Runs /\ run'.step = "act" /\ run'.todo \subseteq Queued(q') /\ run'.kind = "follow"
      BY <3>1, <3>6, AfterActType DEF SameCounts
    <3>8. ActOK' /\ PollOK' /\ ClickOK'
      BY <3>7, RestKnows DEF Loops
    <3> QED  BY <1>1, <1>7, <2>1, <3>5, <3>6, <3>7, <3>8, ClickTurn
  <2>3. CASE Polling
    <3>1. run.kind \notin {"follow", "comment"} /\ run.todo \subseteq With(q, AWAITING_DM)
      BY <2>3 DEF IInv, PollOK
    <3>2. q' = q /\ disk' = q /\ run' = AfterPoll
      BY <2>1, <3>1 DEF Raise
    <3>3. QueueOK(q)' /\ QueueOK(disk)'
      <4>1. Clickable(q') /\ Clickable(disk')
        BY <1>5, <3>2
      <4> QED  BY <1>1, <1>7, <4>1, ClickedQueues
    <3>4. SameCounts(q', q) /\ SameCounts(disk', disk)
      BY <1>1, <1>3, <3>2
    <3>5. run' \in Runs /\ run'.step = "poll" /\ run'.todo \subseteq With(q', AWAITING_DM)
      BY <3>1, <3>2, AfterPollType
    <3>6. ActOK' /\ PollOK' /\ ClickOK'
      BY <3>5, RestKnows DEF Loops
    <3> QED  BY <1>1, <1>7, <2>1, <3>3, <3>4, <3>5, <3>6, ClickTurn
  <2> QED  BY <1>1, <2>2, <2>3
<1>8. CASE Error(q) /\ UNCHANGED world
  <2>1. faults' \in 0 .. MaxFaults /\ Raise(q) /\ UNCHANGED <<world, thread, time>>
    BY <1>1, <1>8, FaultType DEF Error
  <2>2. CASE Acting
    BY <1>1, <1>2, <2>1, <2>2, ActErrorKeeps
  <2>3. CASE Polling
    BY <1>1, <2>1, <2>3, PollErrorKeeps
  <2> QED  BY <1>1, <2>2, <2>3
<1> QED  BY <1>6, <1>7, <1>8 DEF Click

--------------------------------------------------------------------------------
(* Polls. *)

LEMMA PollingType ==
  ASSUME IInv, Polling
  PROVE  /\ run \in Runs /\ q \in Queues /\ run.cur \in Queued(q) /\ run.cur \in Reels /\ Item \in Items
         /\ ItemOK(run.cur, Item) /\ Item = q.items[run.cur] /\ Item.status \in AWAITING_DM
         /\ QueueOK(q) /\ Setup(q) /\ SameCounts(q, q) /\ run.cur \notin run.todo
         /\ run.todo \subseteq With(q, AWAITING_DM) /\ run.kind \in {"button", "dm"}
<1>1. /\ run \in Runs /\ QueueOK(q) /\ run.cur \in With(q, AWAITING_DM) /\ run.cur \notin run.todo
      /\ run.todo \subseteq With(q, AWAITING_DM) /\ run.kind \in {"button", "dm"}
  BY RunType DEF IInv, PollOK
<1>2. run.cur \in Queued(q) /\ q.items[run.cur].status \in AWAITING_DM
  BY <1>1 DEF With
<1>3. run.cur \in Reels /\ q.items[run.cur] \in Items /\ ItemOK(run.cur, q.items[run.cur])
  BY <1>1, <1>2, ItemType DEF QueueOK, Related
<1> QED  BY <1>1, <1>2, <1>3 DEF Item, Setup, SameCounts, QueueOK, Related

LEMMA PollTurnKeeps ==
  ASSUME IInv, UNCHANGED <<world, thread, time>>, faults' \in 0 .. MaxFaults, run' \in Runs,
         ~At("record"), run'.step # "record", QueueOK(q)', QueueOK(disk)',
         SameCounts(q', q), SameCounts(disk', disk), Polling', PollOK', ClickOK'
  PROVE  IInv'
<1>1. ActOK'
  BY DEF PollOK, Polling, Acting, Writing, At, ActOK
<1> QED  BY <1>1, TurnKeeps DEF Longer

\* The poll goes on with the queue as it is.
LEMMA PollGoesOn ==
  ASSUME IInv, ~At("record"), UNCHANGED <<disk, q, world, thread, time, faults>>, run' \in Runs,
         run'.cur \in With(q, AWAITING_DM), run'.cur \notin run'.todo, run'.todo \subseteq With(q, AWAITING_DM),
         run'.kind \in {"button", "dm"}, run'.step \in {"press", "reply", "read"},
         run'.step = "press" => run'.kind = "button"
  PROVE  IInv'
<1>1. QueueOK(q)' /\ QueueOK(disk)' /\ SameCounts(q', q) /\ SameCounts(disk', disk)
  BY SameWorld DEF SameCounts, IInv
<1>2. Polling' /\ PollOK' /\ ClickOK'
  BY DEF Polling, Acting, Writing, PollOK, ClickOK, At, With, Queued
<1>3. faults' \in 0 .. MaxFaults
  BY DEF IInv, TypeOK
<1> QED  BY <1>1, <1>2, <1>3, PollTurnKeeps

LEMMA CheckAnswerKeeps == ASSUME IInv, CheckAnswer PROVE IInv'
<1>1. ~At("record") /\ Polling /\ UNCHANGED <<world, thread, time>>
  BY DEF CheckAnswer, Polling, Writing, At
<1>2. /\ run \in Runs /\ run.cur \in With(q, AWAITING_DM) /\ QueueOK(q) /\ SameCounts(q, q)
      /\ run.cur \notin run.todo /\ run.todo \subseteq With(q, AWAITING_DM) /\ run.kind \in {"button", "dm"}
  BY <1>1, PollingType DEF IInv, PollOK
<1>3. CASE Halt(q)
  BY <1>1, <1>2, <1>3, HaltKeeps
<1>4. CASE Error(q)
  BY <1>1, <1>4, PollErrorKeeps, FaultType DEF Error
<1>5. CASE /\ run' = [run EXCEPT !.step = IF run.kind = "button" THEN "press" ELSE "read"]
           /\ UNCHANGED <<disk, q, faults>>
  <2> DEFINE s == IF run.kind = "button" THEN "press" ELSE "read"
  <2>1. s \in Steps /\ s \in {"press", "reply", "read"} /\ (s = "press" => run.kind = "button")
    BY DEF Steps
  <2>2. run' = [run EXCEPT !.step = s]
    BY <1>5
  <2> HIDE DEF s
  <2>3. /\ run' \in Runs /\ run'.step = s /\ run'.kind = run.kind
        /\ run'.cur = run.cur /\ run'.todo = run.todo
    BY <1>2, <2>1, <2>2, StepType
  <2> QED  BY <1>1, <1>2, <1>5, <2>1, <2>3, PollGoesOn
<1> QED  BY <1>3, <1>4, <1>5 DEF CheckAnswer

LEMMA NextPollKeeps == ASSUME IInv, NextPoll PROVE IInv'
<1> PICK r \in NextOf(Due) :
      run' = [run EXCEPT !.todo = After(r), !.step = "press", !.cur = r, !.kind = "button"]
  BY DEF NextPoll
<1>1. /\ run \in Runs /\ At("poll") /\ run.todo \subseteq With(q, AWAITING_DM)
      /\ UNCHANGED <<disk, q, world, thread, time, faults>> /\ ~At("record")
  BY RunType DEF NextPoll, IInv, PollOK, At
<1>2. r \in run.todo /\ r \in With(q, AWAITING_DM) /\ r \in Reels
  BY <1>1 DEF NextOf, Due, With, Queued
<1> DEFINE after == After(r)
<1>3. /\ "press" \in Steps /\ after \in SUBSET Reels /\ after \subseteq With(q, AWAITING_DM)
      /\ r \notin after /\ "button" \in Kinds
  <2>1. r \in Nat
    BY <1>2 DEF Reels
  <2> QED  BY <1>1, <1>2, <2>1 DEF Steps, After, With, Queued, Kinds
<1>4. run' = [run EXCEPT !.todo = after, !.step = "press", !.cur = r, !.kind = "button"]
  OBVIOUS
<1> HIDE DEF after
<1>5. run' \in Runs
  <2>1. [run EXCEPT !.todo = after] \in Runs
    BY <1>1, <1>3, RunFields
  <2>2. [run EXCEPT !.todo = after, !.step = "press"] \in Runs
    BY <1>3, <2>1, RunFields, Zenon
  <2>3. [run EXCEPT !.todo = after, !.step = "press", !.cur = r] \in Runs
    BY <1>2, <2>2, RunFields, Zenon
  <2> QED  BY <1>3, <1>4, <2>3, RunFields, Zenon
<1>6. run'.step = "press" /\ run'.todo = after /\ run'.cur = r /\ run'.kind = "button"
  BY <1>1, <1>4 DEF Runs
<1> QED  BY <1>1, <1>2, <1>3, <1>5, <1>6, PollGoesOn

\* A record put back by a poll, its status and comment as they are.
LEMMA PollPut ==
  ASSUME IInv, Polling, NEW i \in Items, i.mark = Item.mark, i.links = Item.links,
         i.confirmed = Item.confirmed, i.known = Item.known, Item.replied => i.replied,
         i.status \in {Item.status, "dm-timeout"}
  PROVE  /\ QueueOK(Put(q, i)) /\ SameCounts(Put(q, i), q) /\ Put(q, i).items[run.cur] = i
         /\ Queued(Put(q, i)) = Queued(q) /\ \A o \in Reels \ {run.cur} : Put(q, i).items[o] = q.items[o]
<1>1. /\ QueueOK(q) /\ run.cur \in Queued(q) /\ q \in Queues /\ Item = q.items[run.cur]
      /\ ItemOK(run.cur, Item) /\ Item.status \in AWAITING_DM
  BY PollingType
<1>2. Item.status \in OPEN /\ i.status \notin TO_ACT \cup {"commenting"}
  BY <1>1 DEF OPEN, AWAITING_DM, TO_ACT
<1>3. ItemOK(run.cur, i)
  BY <1>1, <1>2 DEF ItemOK
<1>4. QueueOK(PutAt(q, run.cur, i))
  BY <1>1, <1>2, <1>3, QuietPut
<1> QED  BY <1>1, <1>4, PutCounts, PutFacts, PutIs

LEMMA PressKeeps == ASSUME IInv, Press PROVE IInv'
<1>1. /\ ~At("record") /\ Polling /\ UNCHANGED <<world, thread, time>> /\ run.kind = "button" /\ At("press")
  BY DEF Press, Polling, At, IInv, PollOK
<1>2. /\ run \in Runs /\ run.cur \in With(q, AWAITING_DM) /\ QueueOK(q) /\ SameCounts(q, q)
      /\ run.cur \notin run.todo /\ run.todo \subseteq With(q, AWAITING_DM)
      /\ Item \in Items /\ Item.status \in AWAITING_DM
  BY <1>1, PollingType DEF IInv, PollOK
<1>3. CASE Halt(q)
  BY <1>1, <1>2, <1>3, HaltKeeps
<1>4. CASE Error(q)
  BY <1>1, <1>4, PollErrorKeeps, FaultType DEF Error
<1>5. CASE /\ (\E window \in Windows(q, run.cur) : MayPress(window)) /\ q' = Put(q, [Item EXCEPT !.presses = @ + 1])
           /\ run' = [run EXCEPT !.step = "click"] /\ UNCHANGED <<disk, faults>>
  <2> DEFINE i == [Item EXCEPT !.presses = Item.presses + 1]
  <2>1. q.writes < DailyWrites /\ Item.presses < MaxPresses
    BY <1>5 DEF MayPress, MayWrite
  <2>2. Item.presses + 1 \in 0 .. MaxPresses
    BY <1>2, <2>1, Constants DEF Items
  <2>3. i \in Items
    BY <1>2, <2>2, ItemFields
  <2>4. /\ i.mark = Item.mark /\ i.links = Item.links /\ i.confirmed = Item.confirmed
        /\ i.known = Item.known /\ i.replied = Item.replied /\ i.status = Item.status
    BY <1>2 DEF Items
  <2>5. q' = Put(q, i)
    BY <1>5
  <2> HIDE DEF i
  <2>6. /\ QueueOK(q') /\ SameCounts(q', q) /\ q'.items[run.cur] = i
        /\ Queued(q') = Queued(q) /\ \A o \in Reels \ {run.cur} : q'.items[o] = q.items[o]
    BY <1>1, <2>3, <2>4, <2>5, PollPut
  <2>7. "click" \in Steps
    BY DEF Steps
  <2>8. /\ run' \in Runs /\ run'.step = "click" /\ run'.kind = "button"
        /\ run'.cur = run.cur /\ run'.todo = run.todo
    BY <1>1, <1>2, <1>5, <2>7, StepType
  <2>9. QueueOK(q)' /\ QueueOK(disk)' /\ SameCounts(disk', disk)
    BY <1>1, <1>5, <2>6, SameWorld DEF IInv, SameCounts
  <2>10. run.cur \in With(q', AWAITING_DM) /\ run.todo \subseteq With(q', AWAITING_DM)
    BY <1>2, <2>4, <2>6 DEF With, Queued
  <2>11. Polling' /\ PollOK'
    BY <1>2, <2>8, <2>10 DEF Polling, Acting, Writing, PollOK, At
  <2>12. ClickOK' /\ faults' \in 0 .. MaxFaults
    BY <1>5, <2>1, <2>6, <2>8 DEF ClickOK, SameCounts, IInv, TypeOK
  <2> QED  BY <1>1, <2>6, <2>8, <2>9, <2>11, <2>12, PollTurnKeeps
<1>6. CASE run' = [run EXCEPT !.step = "reply", !.kind = "dm"] /\ UNCHANGED <<disk, q, faults>>
  <2>1. "reply" \in Steps /\ "dm" \in Kinds
    BY DEF Steps, Kinds
  <2>2. run' \in Runs
    BY <1>2, <1>6, <2>1, RunFields
  <2>3. run'.step = "reply" /\ run'.kind = "dm" /\ run'.cur = run.cur /\ run'.todo = run.todo
    BY <1>2, <1>6 DEF Runs
  <2> QED  BY <1>1, <1>2, <1>6, <2>2, <2>3, PollGoesOn
<1> QED  BY <1>3, <1>4, <1>5, <1>6 DEF Press

LEMMA ReplyKeeps == ASSUME IInv, Reply PROVE IInv'
<1>1. ~At("record") /\ Polling /\ UNCHANGED <<world, thread, time>>
  BY DEF Reply, Polling, At
<1>2. /\ run \in Runs /\ run.cur \in With(q, AWAITING_DM) /\ QueueOK(q) /\ SameCounts(q, q)
      /\ run.cur \notin run.todo /\ run.todo \subseteq With(q, AWAITING_DM) /\ run.kind \in {"button", "dm"}
      /\ Item \in Items /\ Item.status \in AWAITING_DM /\ run.cur \in Reels /\ ItemOK(run.cur, Item)
  BY <1>1, PollingType DEF IInv, PollOK
<1>3. CASE Halt(q)
  BY <1>1, <1>2, <1>3, HaltKeeps
<1>4. CASE /\ \E window \in Windows(q, run.cur) : MayReply(window)
           /\ SaveAnd(Put(q, [Item EXCEPT !.replied = TRUE]), [run EXCEPT !.step = "click"])
  <2> DEFINE i == [Item EXCEPT !.replied = TRUE]
  <2>1. q.writes < DailyWrites /\ ~Item.replied
    BY <1>4 DEF MayReply, MayWrite
  <2>2. sent[run.cur] = 0
    BY <1>2, <2>1, SMTT(60) DEF ItemOK, IInv, TypeOK
  <2>3. i \in Items
    BY <1>2, ItemFields
  <2>4. /\ i.mark = Item.mark /\ i.links = Item.links /\ i.confirmed = Item.confirmed
        /\ i.known = Item.known /\ i.replied /\ i.status = Item.status
    BY <1>2 DEF Items
  <2>5. q' = Put(q, i) /\ disk' = q' /\ run' = [run EXCEPT !.step = "click"] /\ UNCHANGED faults
    BY <1>4, Saved
  <2> HIDE DEF i
  <2>6. /\ QueueOK(q') /\ SameCounts(q', q) /\ q'.items[run.cur] = i
        /\ Queued(q') = Queued(q) /\ \A o \in Reels \ {run.cur} : q'.items[o] = q.items[o]
    BY <1>1, <2>3, <2>4, <2>5, PollPut
  <2>7. "click" \in Steps
    BY DEF Steps
  <2>8. /\ run' \in Runs /\ run'.step = "click" /\ run'.kind = run.kind
        /\ run'.cur = run.cur /\ run'.todo = run.todo
    BY <1>2, <2>5, <2>7, StepType
  <2>9. QueueOK(q)' /\ QueueOK(disk)' /\ SameCounts(disk', disk)
    <3>1. QueueOK(q') /\ QueueOK(disk') /\ SameCounts(q, disk)
      BY <2>5, <2>6, AgreeCounts
    <3> QED  BY <1>1, <2>5, <2>6, <3>1, SameWorld DEF SameCounts
  <2>10. run.cur \in With(q', AWAITING_DM) /\ run.todo \subseteq With(q', AWAITING_DM)
    BY <1>2, <2>4, <2>6 DEF With, Queued
  <2>11. Polling' /\ PollOK'
    BY <1>2, <2>8, <2>10 DEF Polling, Acting, Writing, PollOK, At
  <2>12. ClickOK'
    <3>1. sent' = sent
      BY <1>1 DEF world
    <3>2. q'.writes = q.writes /\ q'.items[run'.cur].replied /\ disk'.items[run'.cur].replied
      BY <2>4, <2>5, <2>6, <2>8 DEF SameCounts
    <3> QED  BY <1>2, <2>1, <2>2, <2>8, <3>1, <3>2 DEF ClickOK, Item
  <2>13. faults' \in 0 .. MaxFaults
    BY <2>5 DEF IInv, TypeOK
  <2> QED  BY <1>1, <2>6, <2>8, <2>9, <2>11, <2>12, <2>13, PollTurnKeeps
<1>5. CASE run' = [run EXCEPT !.step = "read"] /\ UNCHANGED <<disk, q, faults>>
  <2>1. "read" \in Steps
    BY DEF Steps
  <2>2. /\ run' \in Runs /\ run'.step = "read" /\ run'.kind = run.kind
        /\ run'.cur = run.cur /\ run'.todo = run.todo
    BY <1>2, <1>5, <2>1, StepType
  <2> QED  BY <1>1, <1>2, <1>5, <2>2, PollGoesOn
<1> QED  BY <1>3, <1>4, <1>5 DEF Reply

\* What a reading leaves: links from the window, or the ones it had.
LEMMA AnsweredIs ==
  ASSUME NEW r \in Reels, NEW i \in Items, NEW window \in SUBSET Nat, NEW late \in Statuses
  PROVE  LET j == Answered(r, i, window, late) IN
         /\ j \in Items /\ j.mark = i.mark /\ j.confirmed = i.confirmed /\ j.known = i.known
         /\ j.replied = i.replied /\ j.attempts = i.attempts
         /\ \/ j.status = "link-received" /\ j.links \subseteq window
            \/ j.links = i.links /\ j.status \in {i.status, late}
<1> DEFINE links == OfKind(window, r, "link")
           told == [i EXCEPT !.told = window]
           linked == [told EXCEPT !.links = links]
           got == [linked EXCEPT !.status = "link-received"]
           over == [i EXCEPT !.status = late]
<1>1. links \subseteq window /\ links \in SUBSET Links /\ "link-received" \in Statuses
  BY DEF OfKind, Links, Statuses
<1> HIDE DEF links
<1>2. /\ told \in Items /\ told.mark = i.mark /\ told.confirmed = i.confirmed /\ told.known = i.known
      /\ told.replied = i.replied /\ told.attempts = i.attempts /\ told.links = i.links
      /\ told.status = i.status
  BY ItemFields DEF Items
<1>3. /\ over \in Items /\ over.mark = i.mark /\ over.confirmed = i.confirmed /\ over.known = i.known
      /\ over.replied = i.replied /\ over.attempts = i.attempts /\ over.links = i.links
      /\ over.status = late
  BY ItemFields DEF Items
<1> HIDE DEF told, over
<1>4. linked \in Items
  BY <1>1, <1>2, ItemFields
<1>5. /\ linked.mark = i.mark /\ linked.confirmed = i.confirmed /\ linked.known = i.known
      /\ linked.replied = i.replied /\ linked.attempts = i.attempts /\ linked.links = links
  BY <1>1, <1>2 DEF Items
<1> HIDE DEF linked
<1>6. got \in Items
  BY <1>1, <1>4, ItemFields
<1>7. /\ got.mark = i.mark /\ got.confirmed = i.confirmed /\ got.known = i.known
      /\ got.replied = i.replied /\ got.attempts = i.attempts /\ got.links = links
      /\ got.status = "link-received"
  BY <1>1, <1>4, <1>5 DEF Items
<1>8. got = [told EXCEPT !.links = links, !.status = "link-received"]
  BY DEF linked
<1> HIDE DEF got
<1>9. Answered(r, i, window, late) \in {got, told, over}
  BY <1>8 DEF Answered, links, told, over
<1> QED  BY <1>1, <1>2, <1>3, <1>6, <1>7, <1>9

LEMMA WindowType ==
  ASSUME NEW x, NEW r \in Reels, TypeOK, NEW window \in Windows(x, r)
  PROVE  /\ window \in SUBSET Nat
         /\ \A n \in window : n <= Len(thread[Creator[r]])
<1>1. thread[Creator[r]] \in Seq(Messages \cup {"ours"})
  BY DEF TypeOK, Creators
<1>2. \A begin : Window(x, r, begin) \subseteq DOMAIN thread[Creator[r]]
  BY DEF Window
<1>3. window \subseteq DOMAIN thread[Creator[r]]
  BY <1>2 DEF Windows
<1> QED  BY <1>1, <1>3

LEMMA ReadAnswerKeeps == ASSUME IInv, ReadAnswer PROVE IInv'
<1>1. ~At("record") /\ Polling /\ UNCHANGED <<world, thread, time, faults>> /\ TypeOK
  BY DEF ReadAnswer, Polling, At, IInv
<1>2. /\ run \in Runs /\ run.cur \in Queued(q) /\ run.cur \in Reels /\ q \in Queues /\ QueueOK(q)
      /\ run.cur \notin run.todo /\ run.todo \subseteq With(q, AWAITING_DM)
      /\ Item \in Items /\ Item.status \in AWAITING_DM /\ ItemOK(run.cur, Item) /\ Item = q.items[run.cur]
  BY <1>1, PollingType
<1> DEFINE late == IF age[run.cur] = 2 THEN "dm-timeout" ELSE Item.status
<1> PICK window \in Windows(q, run.cur) : q' = Put(q, Answered(run.cur, Item, window, late))
  BY DEF ReadAnswer
<1> DEFINE j == Answered(run.cur, Item, window, late)
<1>3. late \in Statuses /\ late \in {"dm-timeout", Item.status}
  BY <1>2 DEF Statuses, Items
<1>4. /\ window \in SUBSET Nat
      /\ \A n \in window : n <= Len(thread[Creator[run.cur]])
  BY <1>1, <1>2, WindowType
<1> HIDE DEF late
<1>5. /\ j \in Items /\ j.mark = Item.mark /\ j.confirmed = Item.confirmed /\ j.known = Item.known
      /\ j.replied = Item.replied /\ j.attempts = Item.attempts
      /\ \/ j.status = "link-received" /\ j.links \subseteq window
         \/ j.links = Item.links /\ j.status \in {Item.status, "dm-timeout"}
  <2>1. /\ j \in Items /\ j.mark = Item.mark /\ j.confirmed = Item.confirmed /\ j.known = Item.known
        /\ j.replied = Item.replied /\ j.attempts = Item.attempts
        /\ \/ j.status = "link-received" /\ j.links \subseteq window
           \/ j.links = Item.links /\ j.status \in {Item.status, late}
    <3>1. run.cur \in Reels /\ Item \in Items /\ window \in SUBSET Nat /\ late \in Statuses
      BY <1>2, <1>3, <1>4
    <3> QED  BY <3>1, AnsweredIs
  <2> HIDE DEF j
  <2> QED  BY <1>3, <2>1
<1>6. q' = PutAt(q, run.cur, j) /\ disk' = q' /\ run' = AfterPoll
  BY PutIs DEF ReadAnswer
<1> HIDE DEF j
<1>7. /\ Queued(q') = Queued(q) /\ SameCounts(q', q) /\ \A o \in Reels \ {run.cur} : q'.items[o] = q.items[o]
  BY <1>2, <1>5, <1>6, PutFacts, PutCounts
<1>8. QueueOK(q')
  <2>1. CASE j.links = Item.links /\ j.status \in {Item.status, "dm-timeout"}
    BY <1>1, <1>5, <1>6, <2>1, PollPut, PutIs
  <2>2. CASE j.status = "link-received" /\ j.links \subseteq window
    <3>1. j.status \notin OPEN /\ j.status \notin TO_ACT \cup {"commenting"} /\ Item.status \in OPEN
      BY <1>2, <2>2 DEF OPEN, TO_ACT, AWAITING_DM
    <3>2. ItemOK(run.cur, j)
      BY <1>2, <1>4, <1>5, <2>2, <3>1 DEF ItemOK
    <3>3. Newest(q, run.cur)
      BY <1>2, <3>1 DEF QueueOK, Related, With
    <3>4. \A o \in Others(q, run.cur) : q.items[o].mark \in Nat /\ j.mark \in Nat
      BY <1>2, <1>5, ItemType DEF Others, Items
    <3>5. Related(PutAt(q, run.cur, j))
      <4>1. \A o \in Others(q, run.cur) :
              /\ q.items[o].status \notin OPEN /\ q.items[o].mark < j.mark
              /\ \A n \in q.items[o].links : n < j.mark
        BY <1>2, <1>5, <3>3 DEF Newest
      <4> QED  BY <1>2, <1>5, <3>1, <3>4, <4>1, PutRelated DEF QueueOK
    <3> QED  BY <1>2, <1>5, <1>6, <3>2, <3>5, PutKeeps
  <2> QED  BY <1>5, <2>1, <2>2
<1>9. QueueOK(q)' /\ QueueOK(disk)' /\ SameCounts(disk', disk)
  <2>1. QueueOK(disk') /\ SameCounts(q, disk)
    BY <1>6, <1>8, AgreeCounts
  <2> QED  BY <1>1, <1>6, <1>7, <1>8, <2>1, SameWorld DEF SameCounts
<1>10. run' \in Runs /\ run'.step = "poll" /\ run'.todo \subseteq With(q', AWAITING_DM)
  <2>1. run'.todo = run.todo /\ run' \in Runs /\ run'.step = "poll"
    BY <1>6, AfterPollType
  <2>2. \A o \in run.todo : o \in Reels \ {run.cur} /\ o \in Queued(q') /\ q'.items[o].status \in AWAITING_DM
    BY <1>2, <1>7 DEF With, Queued
  <2> QED  BY <2>1, <2>2 DEF With
<1>11. faults' \in 0 .. MaxFaults
  BY <1>1 DEF TypeOK
<1> QED  BY <1>1, <1>7, <1>9, <1>10, <1>11, RestKeeps DEF Loops, Longer

LEMMA RecheckKeeps == ASSUME IInv, NEW r \in Reels, Recheck(r) PROVE IInv'
<1> DEFINE i == [q.items[r] EXCEPT !.rechecks = q.items[r].rechecks + 1]
<1>1. /\ At("recheck") /\ ~At("record") /\ UNCHANGED <<world, thread, time>> /\ TypeOK /\ run \in Runs
      /\ QueueOK(q) /\ Related(q) /\ q \in Queues /\ r \in run.todo /\ run.todo \subseteq With(q, {"dm-timeout"})
      /\ q.items[r].known /\ ~CreatorBusy(q, r) /\ q.items[r].rechecks < MaxRechecks
  BY RunType DEF Recheck, At, IInv, PollOK, QueueOK
<1>2. /\ r \in Queued(q) /\ q.items[r] \in Items /\ q.items[r].status = "dm-timeout"
      /\ ItemOK(r, q.items[r]) /\ q.items[r].mark \in Nat
  BY <1>1, ItemType DEF With, QueueOK, Items
<1>3. i \in Items
  <2>1. q.items[r].rechecks + 1 \in 0 .. MaxRechecks
    BY <1>1, <1>2, Constants DEF Items
  <2> QED  BY <1>2, <2>1, ItemFields
<1>4. /\ i.mark = q.items[r].mark /\ i.links = q.items[r].links /\ i.confirmed = q.items[r].confirmed
      /\ i.known = q.items[r].known /\ i.replied = q.items[r].replied /\ i.status = "dm-timeout"
      /\ i.attempts = q.items[r].attempts
  BY <1>2 DEF Items
<1> HIDE DEF i
<1>5. "dm-timeout" \notin OPEN /\ "dm-timeout" \notin TO_ACT \cup {"commenting"} /\ "dm-timeout" \in Statuses
  BY DEF OPEN, TO_ACT, Statuses
<1>6. CASE Halt([q EXCEPT !.items[r] = i])
  <2>1. [q EXCEPT !.items[r] = i] = PutAt(q, r, i)
    BY DEF PutAt
  <2>2. ItemOK(r, i)
    BY <1>2, <1>4, <1>5 DEF ItemOK
  <2>3. QueueOK(PutAt(q, r, i))
    BY <1>1, <1>2, <1>3, <1>4, <1>5, <2>2, QuietPut
  <2>4. SameCounts(PutAt(q, r, i), q)
    BY <1>1, <1>2, <1>3, PutCounts
  <2> HIDE DEF PutAt
  <2> QED  BY <1>1, <1>6, <2>1, <2>3, <2>4, HaltKeeps
<1>7. ASSUME NEW window \in OwnWindows(r),
             q' = [q EXCEPT !.items[r] = Answered(r, i, window, "dm-timeout")], disk' = q',
             run' = [run EXCEPT !.todo = After(r)], UNCHANGED faults
      PROVE  IInv'
  <2> DEFINE j == Answered(r, i, window, "dm-timeout")
             after == After(r)
  <2>1. /\ window \in SUBSET Nat
        /\ \A n \in window : n <= Len(thread[Creator[r]])
    <3>1. PICK whole \in Windows(q, r) : window \subseteq whole
      BY <1>7 DEF OwnWindows
    <3>2. r \in Reels
      BY <1>2 DEF Queued
    <3> QED  BY <1>1, <3>1, <3>2, WindowType
  <2>2. /\ j \in Items /\ j.mark = i.mark /\ j.confirmed = i.confirmed /\ j.known = i.known
        /\ j.replied = i.replied /\ j.attempts = i.attempts
        /\ \/ j.status = "link-received" /\ j.links \subseteq window
           \/ j.links = i.links /\ j.status \in {i.status, "dm-timeout"}
    BY <1>3, <1>5, <2>1, AnsweredIs
  <2>3. q' = PutAt(q, r, j) /\ disk' = q' /\ run' = [run EXCEPT !.todo = after]
    BY <1>7 DEF PutAt
  <2> HIDE DEF j
  <2>4. /\ Queued(q') = Queued(q) /\ SameCounts(q', q) /\ \A o \in Reels \ {r} : q'.items[o] = q.items[o]
    BY <1>1, <1>2, <2>2, <2>3, PutFacts, PutCounts
  <2>5. j.status \notin OPEN /\ j.status \notin TO_ACT \cup {"commenting"}
    BY <1>4, <1>5, <2>2 DEF OPEN, TO_ACT
  <2>6. ItemOK(r, j)
    BY <1>2, <1>4, <2>1, <2>2, <2>5 DEF ItemOK
  <2>7. ASSUME NEW o \in Others(q, r)
        PROVE  /\ q.items[o].status \notin OPEN
               /\ j.confirmed /\ q.items[o].confirmed =>
                    /\ j.mark # q.items[o].mark
                    /\ j.mark < q.items[o].mark => \A n \in j.links : n < q.items[o].mark
                    /\ q.items[o].mark < j.mark => \A n \in q.items[o].links : n < j.mark
    <3>1. /\ o \in Queued(q) \ {r} /\ Creator[o] = Creator[r] /\ r \in Others(q, o)
          /\ ItemOK(o, q.items[o]) /\ q.items[o].mark \in Nat
      BY <1>1, <1>2, <2>7, ItemType DEF Others, QueueOK, Items
    <3>2. q.items[o].status \notin OPEN
      BY <1>1, <1>2, <2>7, NotBusy
    <3>3. ASSUME j.confirmed, q.items[o].confirmed
          PROVE  /\ j.mark # q.items[o].mark
                 /\ j.mark < q.items[o].mark => \A n \in j.links : n < q.items[o].mark
                 /\ q.items[o].mark < j.mark => \A n \in q.items[o].links : n < j.mark
      <4>1. q.items[r].confirmed /\ j.mark = q.items[r].mark /\ q.items[o].known
        BY <1>4, <2>2, <3>1, <3>3 DEF ItemOK
      <4>2. Ordered(q, r, o) /\ Ordered(q, o, r)
        BY <1>1, <1>2, <2>7, <3>1, <3>3, <4>1 DEF Related
      <4>3. ASSUME j.mark < q.items[o].mark, NEW n \in j.links
            PROVE  n < q.items[o].mark
        <5>1. CASE j.links = i.links
          BY <1>4, <4>1, <4>2, <4>3, <5>1 DEF Ordered
        <5>2. CASE j.links \subseteq window
          <6>1. n \in window /\ n \in Nat
            BY <2>1, <4>3, <5>2
          <6>2. q.items[o].mark > q.items[r].mark
            BY <1>2, <3>1, <4>1, <4>3
          <6>3. PICK early \in {0, 1} : n < q.items[o].mark - early
            BY <1>7, <3>1, <3>3, <4>1, <6>1, <6>2 DEF OwnWindows
          <6> QED  BY <3>1, <6>1, <6>3
        <5> QED  BY <2>2, <5>1, <5>2
      <4> QED  BY <4>1, <4>2, <4>3 DEF Ordered
    <3> QED  BY <3>2, <3>3
  <2>8. Related(PutAt(q, r, j))
    BY <1>1, <1>2, <2>2, <2>5, <2>7, PutRelated
  <2>9. QueueOK(q')
    BY <1>1, <1>2, <2>2, <2>3, <2>6, <2>8, PutKeeps
  <2>10. QueueOK(q)' /\ QueueOK(disk)' /\ SameCounts(disk', disk)
    <3>1. QueueOK(disk') /\ SameCounts(q, disk)
      BY <2>3, <2>9, AgreeCounts
    <3> QED  BY <1>1, <2>3, <2>4, <2>9, <3>1, SameWorld DEF SameCounts
  <2>11. r \in Nat /\ after \in SUBSET Reels /\ \A o \in after : o \in run.todo /\ o # r
    BY <1>1 DEF Reels, After, With, Queued
  <2> HIDE DEF after
  <2>12. run' \in Runs /\ run'.step = "recheck" /\ run'.todo = after
    BY <1>1, <2>3, <2>11, RunFields DEF Runs, At
  <2>13. run'.todo \subseteq With(q', {"dm-timeout"})
    BY <1>1, <2>4, <2>11, <2>12 DEF With, Queued
  <2>14. faults' \in 0 .. MaxFaults
    BY <1>1, <1>7 DEF TypeOK
  <2> QED  BY <1>1, <2>4, <2>10, <2>12, <2>13, <2>14, RestKeeps DEF Loops, Longer
<1>8. \/ Halt([q EXCEPT !.items[r] = i])
      \/ \E window \in OwnWindows(r) :
           /\ q' = [q EXCEPT !.items[r] = Answered(r, i, window, "dm-timeout")]
           /\ disk' = q' /\ run' = [run EXCEPT !.todo = After(r)] /\ UNCHANGED faults
  BY Zenon DEF Recheck, i
<1> QED  BY <1>6, <1>7, <1>8

--------------------------------------------------------------------------------
(* The account, the clock, the machine, and the review that queues a reel. *)

LEMMA EnqueueKeeps == ASSUME IInv, NEW r \in Reels, Enqueue(r) PROVE IInv'
<1> PICK s \in {"pending", "needs-keyword"} : disk' = [disk EXCEPT !.items[r] = NewRecord(s)]
  BY DEF Enqueue
<1> DEFINE i == NewRecord(s)
           y == PutAt(disk, r, i)
<1>1. /\ At("idle") /\ q' = disk' /\ disk' = y /\ UNCHANGED <<run, world, thread, time, faults>>
      /\ QueueOK(disk) /\ Related(disk) /\ disk \in Queues /\ TypeOK /\ run \in Runs /\ Agree
      /\ \A o \in Queued(disk) : o < r /\ Post[o] # Post[r]
  BY RunType DEF Enqueue, PutAt, IInv, QueueOK
<1>2. i \in Items
  <2>1. s \in Statuses /\ 0 \in 0 .. MaxAttempts /\ 0 \in 0 .. MaxPresses /\ 0 \in 0 .. MaxRechecks
    BY Constants DEF Statuses, TO_ACT
  <2> QED  BY <2>1 DEF NewRecord, Items
<1>3. /\ i.status = s /\ i.attempts = 0 /\ ~i.confirmed /\ i.mark = 0 /\ i.links = {}
      /\ s \notin OPEN
  BY DEF NewRecord, OPEN
<1> HIDE DEF i
<1>4. r \notin Queued(disk) /\ i # None
  BY <1>1, <1>2, CommentGateNone DEF Reels, Queued
<1>5. /\ y \in Queues /\ y.items[r] = i /\ \A o \in Reels \ {r} : y.items[o] = disk.items[o]
      /\ y.writes = disk.writes /\ y.comments = disk.comments /\ y.applied = disk.applied
  BY <1>1, <1>2 DEF PutAt, Queues
<1>6. Queued(y) = Queued(disk) \cup {r}
  BY <1>4, <1>5 DEF Queued
<1> HIDE DEF y
<1>7. ItemOK(r, i)
  <2>1. posted[Post[r]] = 0
    <3>1. Post[r] \in Posts /\ posted[Post[r]] \in 0 .. 2
      BY <1>1 DEF Posts, TypeOK
    <3> QED  BY <1>1, <3>1 DEF Agree
  <2>2. sent[r] = 0 /\ MaxAttempts > 0
    BY <1>1, <1>4, Constants DEF Agree
  <2>3. 0 <= Len(thread[Creator[r]])
    <3>1. thread[Creator[r]] \in Seq(Messages \cup {"ours"})
      BY <1>1 DEF TypeOK, Creators
    <3> QED  BY <3>1
  <2> QED  BY <1>3, <2>1, <2>2, <2>3 DEF ItemOK
<1>8. \A o \in Queued(disk) : o \in Reels \ {r} /\ y.items[o] = disk.items[o] /\ ItemOK(o, disk.items[o])
  BY <1>1, <1>4, <1>5 DEF Queued, QueueOK
<1>9. ASSUME NEW o \in With(y, OPEN)
      PROVE  Newest(y, o)
  <2>1. o \in Queued(disk) /\ disk.items[o].status \in OPEN /\ y.items[o] = disk.items[o]
    BY <1>3, <1>5, <1>6, <1>8, <1>9 DEF With
  <2>2. Newest(disk, o) /\ disk.items[o].mark > 0
    BY <1>1, <1>8, <2>1 DEF Related, With, ItemOK
  <2>3. ASSUME NEW p \in Others(y, o)
        PROVE  /\ y.items[p].status \notin OPEN /\ y.items[p].mark < y.items[o].mark
               /\ \A n \in y.items[p].links : n < y.items[o].mark
    <3>1. CASE p = r
      BY <1>3, <1>5, <2>1, <2>2, <3>1
    <3>2. CASE p # r
      <4>1. p \in Others(disk, o) /\ y.items[p] = disk.items[p]
        BY <1>6, <1>8, <2>3, <3>2 DEF Others
      <4> QED  BY <2>1, <2>2, <4>1 DEF Newest
    <3> QED  BY <3>1, <3>2
  <2> QED  BY <2>3 DEF Newest
<1>10. ASSUME NEW o \in Queued(y), NEW p \in Others(y, o), y.items[o].confirmed, y.items[p].confirmed
       PROVE  Ordered(y, o, p)
  <2>1. o # r /\ p # r
    BY <1>3, <1>5, <1>10
  <2>2. o \in Queued(disk) /\ p \in Others(disk, o) /\ y.items[o] = disk.items[o] /\ y.items[p] = disk.items[p]
    BY <1>6, <1>8, <1>10, <2>1 DEF Others
  <2> QED  BY <1>1, <1>10, <2>2 DEF Related, Ordered
<1>11. \A o, p \in Queued(y) : Post[o] = Post[p] => o = p
  BY <1>1, <1>6 DEF Related
<1>12. QueueOK(y)
  BY <1>5, <1>6, <1>7, <1>8, <1>9, <1>10, <1>11 DEF QueueOK, Related
<1>13. QueueOK(q)' /\ QueueOK(disk)'
  BY <1>1, <1>12, SameWorld
<1>14. UNCHANGED <<posted, follows, sent, clicks, lost, thread, age, days, faults, run>>
  BY <1>1 DEF world, time
<1>15. TypeOK'
  BY <1>1, <1>5, <1>14 DEF TypeOK
<1>16. Agree'
  <2>1. Queued(disk') = Queued(disk) \cup {r} /\ Queued(q') = Queued(disk')
    BY <1>1, <1>6
  <2> QED  BY <1>1, <1>14, <2>1 DEF Agree
<1>17. ActOK' /\ PollOK' /\ ClickOK'
  BY <1>1, RestKnows DEF Loops, At
<1>18. Recorded' /\ SentOnce' /\ BudgetKept'
  <2>1. /\ disk'.writes = disk.writes /\ disk'.comments = disk.comments /\ disk'.applied = disk.applied
        /\ q'.applied = q.applied /\ q'.writes = q.writes
    BY <1>1, <1>5 DEF Agree
  <2>2. CommentCap' = CommentCap
    BY <1>14, <2>1 DEF CommentCap
  <2> QED  BY <1>14, <2>1, <2>2 DEF IInv, Recorded, SentOnce, BudgetKept, At
<1> QED  BY <1>13, <1>15, <1>16, <1>17, <1>18 DEF IInv

LEMMA AnswerKeeps == ASSUME IInv, NEW c \in Creators, Answer(c) PROVE IInv'
<1>1. /\ UNCHANGED <<disk, q, run, world, time, faults>> /\ ~At("record") /\ ~At("click")
      /\ TypeOK /\ QueueOK(q) /\ QueueOK(disk) /\ run \in Runs
  BY RunType DEF Answer, Resting, At, IInv
<1>2. Longer
  BY DEF Answer, Longer
<1>3. \A r \in Reels, i \in Items : ItemOK(r, i) => ItemOK(r, i)'
  BY <1>1, <1>2, LongerWorld
<1>4. QueueOK(q)' /\ QueueOK(disk)'
  <2>1. \A r \in Queued(q) : r \in Reels /\ q.items[r] \in Items /\ ItemOK(r, q.items[r])
    BY <1>1, ItemType DEF QueueOK, Related
  <2>2. \A r \in Queued(disk) : r \in Reels /\ disk.items[r] \in Items /\ ItemOK(r, disk.items[r])
    BY <1>1, ItemType DEF QueueOK, Related
  <2>3. \A r \in Queued(q)' : ItemOK(r, q.items[r])'
    <3> SUFFICES ASSUME NEW r \in Queued(q)' PROVE ItemOK(r, q.items[r])'
      OBVIOUS
    <3>1. r \in Queued(q) /\ q'.items[r] = q.items[r]
      BY <1>1 DEF Queued
    <3>2. PICK i \in Items : i = q.items[r]
      BY <2>1, <3>1
    <3>3. ItemOK(r, i)' /\ q'.items[r] = i
      BY <1>3, <2>1, <3>1, <3>2
    <3> QED  BY <3>3 DEF ItemOK
  <2>4. \A r \in Queued(disk)' : ItemOK(r, disk.items[r])'
    <3> SUFFICES ASSUME NEW r \in Queued(disk)' PROVE ItemOK(r, disk.items[r])'
      OBVIOUS
    <3>1. r \in Queued(disk) /\ disk'.items[r] = disk.items[r]
      BY <1>1 DEF Queued
    <3>2. PICK i \in Items : i = disk.items[r]
      BY <2>2, <3>1
    <3>3. ItemOK(r, i)' /\ disk'.items[r] = i
      BY <1>3, <2>2, <3>1, <3>2
    <3> QED  BY <3>3 DEF ItemOK
  <2>5. Related(q)' /\ Related(disk)'
    BY <1>1 DEF QueueOK, Related, Newest, Ordered, Others, With, Queued
  <2> QED  BY <2>3, <2>4, <2>5 DEF QueueOK
<1>5. ActOK' /\ PollOK' /\ ClickOK'
  <2>1. ActOK'
    BY <1>1 DEF IInv, ActOK, Acting, Writing, At, Item, Free, CreatorBusy, With, Queued
  <2>2. PollOK'
    BY <1>1 DEF IInv, PollOK, Polling, Acting, Writing, At, With, Queued
  <2>3. ClickOK'
    BY <1>1 DEF ClickOK, At
  <2> QED  BY <2>1, <2>2, <2>3
<1>6. SameCounts(q', q) /\ SameCounts(disk', disk) /\ faults' \in 0 .. MaxFaults /\ run'.step # "record"
  BY <1>1 DEF SameCounts, TypeOK, At
<1> QED  BY <1>1, <1>2, <1>4, <1>5, <1>6, TurnKeeps

LEMMA WaitKeeps == ASSUME IInv, Wait PROVE IInv'
<1>1. /\ UNCHANGED <<disk, q, run, posted, follows, sent, clicks, lost, thread, days, faults>>
      /\ ~At("click") /\ TypeOK
  BY DEF Wait, Resting, At, IInv, world
<1>2. age' \in [Reels -> 0 .. 2]
  <2>1. \A r \in Reels : age[r] \in 0 .. 2
    BY <1>1 DEF TypeOK
  <2>2. \A r \in Reels : (IF r \in With(disk, AWAITING_DM) /\ age[r] < 2 THEN age[r] + 1 ELSE age[r]) \in 0 .. 2
    BY <2>1
  <2> QED  BY <2>2 DEF Wait
<1>3. TypeOK'
  BY <1>1, <1>2 DEF TypeOK
<1>4. QueueOK(q)' /\ QueueOK(disk)'
  BY <1>1 DEF IInv, QueueOK, Related, Newest, Ordered, Others, With, Queued, ItemOK
<1>5. ActOK' /\ PollOK' /\ ClickOK'
  <2>1. ActOK'
    BY <1>1 DEF IInv, ActOK, Acting, Writing, At, Item, Free, CreatorBusy, With, Queued
  <2>2. PollOK'
    BY <1>1 DEF IInv, PollOK, Polling, Acting, Writing, At, With, Queued
  <2>3. ClickOK'
    BY <1>1 DEF ClickOK, At
  <2> QED  BY <2>1, <2>2, <2>3
<1>6. Agree' /\ Recorded' /\ SentOnce' /\ BudgetKept'
  BY <1>1 DEF IInv, Agree, Queued, Recorded, SentOnce, BudgetKept, CommentCap, At
<1> QED  BY <1>3, <1>4, <1>5, <1>6 DEF IInv

LEMMA NewDayKeeps == ASSUME IInv, NewDay PROVE IInv'
<1> DEFINE x == [q EXCEPT !.writes = 0, !.comments = 0]
           y == [disk EXCEPT !.writes = 0, !.comments = 0]
<1>1. /\ q' = x /\ disk' = y /\ UNCHANGED <<run, posted, follows, sent, thread, age, faults>>
      /\ clicks' = [writes |-> 0, comments |-> 0] /\ lost' = 0 /\ ~At("click") /\ TypeOK
      /\ QueueOK(q) /\ QueueOK(disk) /\ q \in Queues /\ disk \in Queues
      /\ days' = IF disk.applied /\ days < FirstWeekDays THEN days + 1 ELSE days
  BY RunType DEF NewDay, Resting, At, IInv
<1>2. /\ x \in Queues /\ x.items = q.items /\ x.writes = 0 /\ x.comments = 0 /\ x.applied = q.applied
      /\ y \in Queues /\ y.items = disk.items /\ y.writes = 0 /\ y.comments = 0
      /\ y.applied = disk.applied
  BY <1>1 DEF Queues
<1> HIDE DEF x, y
<1>3. QueueOK(x) /\ Queued(x) = Queued(q) /\ QueueOK(y) /\ Queued(y) = Queued(disk)
  BY <1>1, <1>2, CountsKeep
<1>4. QueueOK(q)' /\ QueueOK(disk)'
  <2>1. QueueOK(q') /\ QueueOK(disk')
    BY <1>1, <1>3
  <2> QED  BY <1>1, <2>1 DEF QueueOK, Related, Newest, Ordered, Others, With, Queued, ItemOK
<1>5. TypeOK'
  BY <1>1, <1>2 DEF TypeOK
<1>6. Agree'
  BY <1>1, <1>2, <1>3 DEF IInv, Agree
<1>7. ActOK' /\ PollOK' /\ ClickOK'
  <2>1. q'.items = q.items /\ Queued(q') = Queued(q) /\ run' = run
    BY <1>1, <1>2, <1>3
  <2>2. ActOK'
    BY <2>1 DEF IInv, ActOK, Acting, Writing, At, Item, Free, CreatorBusy, With
  <2>3. PollOK'
    BY <2>1 DEF IInv, PollOK, Polling, Acting, Writing, At, With
  <2>4. ClickOK'
    BY <1>1 DEF ClickOK, At
  <2> QED  BY <2>2, <2>3, <2>4
<1>8. Recorded'
  <2>1. q.writes \in Nat /\ DailyWrites \in Nat
    BY <1>1, Constants DEF Queues
  <2> QED  BY <1>1, <1>2, <2>1 DEF IInv, Recorded, At
<1>9. SentOnce'
  BY <1>1 DEF IInv, SentOnce
<1>10. BudgetKept'
  <2>1. CommentCap' \in Nat /\ DailyWrites \in Nat
    BY Constants DEF CommentCap
  <2>2. clicks'.writes = 0 /\ clicks'.comments = 0 /\ lost' = 0
    BY <1>1
  <2>3. clicks'.writes <= DailyWrites + lost' /\ clicks'.comments <= CommentCap' + lost'
    <3>1. \A cap \in Nat : 0 <= cap + 0
      OBVIOUS
    <3>2. 0 <= DailyWrites + 0 /\ 0 <= CommentCap' + 0
      BY <2>1, <3>1
    <3> QED  BY <2>2, <3>2
  <2> QED  BY <2>3 DEF BudgetKept
<1> QED  BY <1>4, <1>5, <1>6, <1>7, <1>8, <1>9, <1>10 DEF IInv

LEMMA CrashKeeps == ASSUME IInv, Crash PROVE IInv'
<1>1. /\ q' = disk /\ run' = Idle /\ UNCHANGED <<disk, posted, follows, sent, clicks, thread, age, days>>
      /\ lost' = (IF At("record") THEN lost + 1 ELSE lost) /\ TypeOK
      /\ QueueOK(disk) /\ Agree /\ faults' \in 0 .. MaxFaults
  BY FaultType DEF Crash, IInv, time
<1>2. QueueOK(q)' /\ QueueOK(disk)'
  <2>1. QueueOK(q') /\ QueueOK(disk')
    BY <1>1
  <2> QED  BY <1>1, <2>1 DEF QueueOK, Related, Newest, Ordered, Others, With, Queued, ItemOK
<1>3. run' \in Runs /\ run'.step = "idle"
  BY <1>1, IdleType DEF Idle
<1>4. TypeOK'
  BY <1>1, <1>3 DEF TypeOK, Runs
<1>5. ActOK' /\ PollOK' /\ ClickOK'
  BY <1>3, RestKnows DEF Loops
<1>6. Agree'
  BY <1>1 DEF Agree
<1>7. SentOnce'
  BY <1>1 DEF IInv, SentOnce
<1>8. /\ clicks.writes \in Nat /\ clicks.comments \in Nat /\ disk.writes \in Nat /\ disk.comments \in Nat
      /\ lost \in Nat /\ CommentCap \in Nat /\ CommentCap' = CommentCap /\ DailyWrites \in Nat
  <2>1. /\ clicks.writes \in Nat /\ clicks.comments \in Nat /\ disk.writes \in Nat /\ disk.comments \in Nat
        /\ lost \in Nat
    BY <1>1 DEF TypeOK, Queues
  <2>2. CommentCap' = CommentCap /\ CommentCap \in Nat
    BY <1>1, Constants DEF CommentCap, Agree
  <2> QED  BY <2>1, <2>2, Constants
<1>9. Recorded'
  BY <1>1, <1>3, <1>8 DEF IInv, Recorded, At
<1>10. BudgetKept'
  BY <1>1, <1>8 DEF IInv, BudgetKept
<1> QED  BY <1>2, <1>4, <1>5, <1>6, <1>7, <1>9, <1>10 DEF IInv

--------------------------------------------------------------------------------
(* The invariant, and what follows from it. *)

LEMMA InitHolds == Init /\ Setting => IInv
<1> SUFFICES ASSUME Init, Setting PROVE IInv
  OBVIOUS
<1>1. /\ q = disk /\ run = Idle /\ posted = [p \in Posts |-> 0] /\ follows = {}
      /\ thread = [c \in Creators |-> <<>>] /\ sent = [r \in Reels |-> 0]
      /\ clicks = [writes |-> 0, comments |-> 0] /\ lost = 0
      /\ age = [r \in Reels |-> 0] /\ days = 0 /\ faults = 0
      /\ disk = [items |-> [r \in Reels |-> None], writes |-> 0, comments |-> 0,
                 applied |-> FALSE, halted |-> FALSE]
  BY DEF Init
<1>2. disk \in Queues /\ Queued(disk) = {}
  BY <1>1 DEF Queues, Queued
<1>3. QueueOK(disk) /\ QueueOK(q)
  BY <1>1, <1>2 DEF QueueOK, Related, With
<1>4. TypeOK
  <2>1. run \in Runs
    BY <1>1, IdleType
  <2>2. <<>> \in Seq(Messages \cup {"ours"})
    OBVIOUS
  <2>3. thread \in [Creators -> Seq(Messages \cup {"ours"})]
    BY <1>1, <2>2
  <2>4. faults \in 0 .. MaxFaults
    BY <1>1, Constants
  <2>5. posted \in [Posts -> 0 .. 2] /\ sent \in [Reels -> 0 .. 2] /\ age \in [Reels -> 0 .. 2]
        /\ clicks \in [writes : Nat, comments : Nat] /\ lost \in Nat /\ days \in Nat /\ follows \subseteq Creators
    BY <1>1
  <2> QED  BY <1>1, <1>2, <2>1, <2>3, <2>4, <2>5, TypeMeans
<1>5. Agree
  BY <1>1, <1>2 DEF Agree
<1>6. run.step = "idle"
  BY <1>1 DEF Idle
<1>7. ActOK /\ PollOK /\ ClickOK
  BY <1>6 DEF ActOK, PollOK, ClickOK, Acting, Polling, Writing, At
<1>8. Recorded /\ SentOnce
  BY <1>1, <1>6 DEF Recorded, SentOnce, At
<1>9. BudgetKept
  <2>1. CommentCap \in Nat /\ DailyWrites \in Nat
    BY Constants DEF CommentCap
  <2> QED  BY <1>1, <2>1 DEF BudgetKept
<1> QED  BY <1>3, <1>4, <1>5, <1>7, <1>8, <1>9 DEF IInv

LEMMA StutterKeeps == ASSUME IInv, UNCHANGED vars PROVE IInv'
<1>1. UNCHANGED <<disk, q, run, posted, follows, sent, clicks, lost, thread, age, days, faults>>
  BY DEF vars, world, time
<1>2. TypeOK' /\ Agree' /\ Recorded' /\ SentOnce' /\ BudgetKept'
  BY <1>1 DEF IInv, TypeOK, Agree, Queued, Recorded, SentOnce, BudgetKept, CommentCap, At
<1>3. QueueOK(q)' /\ QueueOK(disk)'
  BY <1>1 DEF IInv, QueueOK, Related, Newest, Ordered, Others, With, Queued, ItemOK
<1>4. ActOK'
  BY <1>1 DEF IInv, ActOK, Acting, Writing, At, Item, Free, CreatorBusy, With, Queued
<1>5. PollOK'
  BY <1>1 DEF IInv, PollOK, Polling, Acting, Writing, At, With, Queued
<1>6. ClickOK'
  BY <1>1 DEF IInv, ClickOK, CommentCap, At, Item
<1> QED  BY <1>2, <1>3, <1>4, <1>5, <1>6 DEF IInv

LEMMA RunStepKeeps == ASSUME IInv, RunStep PROVE IInv'
BY NextReelKeeps, EndActsKeeps, OpenReelKeeps, FollowKeeps, CommentKeeps, ClickKeeps, RecordWriteKeeps,
   CheckFollowKeeps, CheckCommentKeeps, CheckAnswerKeeps, NextPollKeeps, PressKeeps, ReplyKeeps,
   ReadAnswerKeeps, EndPollsKeeps, RecheckKeeps, EndRechecksKeeps, SaveKeeps, DeliverKeeps DEF RunStep

LEMMA NextKeeps == IInv /\ [Next]_vars => IInv'
<1> SUFFICES ASSUME IInv, [Next]_vars PROVE IInv'
  OBVIOUS
<1>1. CASE RunStep
  BY <1>1, RunStepKeeps
<1>2. CASE \E r \in Reels : Enqueue(r) \/ HandOver(r) \/ Rereview(r)
  BY <1>2, EnqueueKeeps, HandOverKeeps, RereviewKeeps
<1>3. CASE \E apply \in BOOLEAN : StartRun(apply)
  BY <1>3, StartRunKeeps
<1>4. CASE \E c \in Creators : Answer(c)
  BY <1>4, AnswerKeeps
<1>5. CASE Wait \/ NewDay \/ HaltEnds \/ Crash
  BY <1>5, WaitKeeps, NewDayKeeps, HaltEndsKeeps, CrashKeeps
<1>6. CASE UNCHANGED vars
  BY <1>6, StutterKeeps
<1> QED  BY <1>1, <1>2, <1>3, <1>4, <1>5, <1>6 DEF Next

\* Where the queue file can be written, the invariant holds in every reachable state.
THEOREM Invariance == Setting => (Spec => []IInv)
<1> SUFFICES ASSUME Setting PROVE Spec => []IInv
  OBVIOUS
<1>1. Init => IInv
  BY InitHolds
<1> QED  BY <1>1, NextKeeps, PTL DEF Spec

\* The records of the queue, of the run and of the account have their types, where the
\* queue file can be written.
THEOREM TypeCorrect ==
  "save" \notin Faults /\ FirstWeekDays > 0 => (Spec => []TypeOK)
<1> SUFFICES ASSUME Setting PROVE Spec => []TypeOK
  BY DEF Setting
<1>1. IInv => TypeOK
  BY DEF IInv
<1> QED  BY <1>1, Invariance, PTL

\* No post gets a second comment and no reel a second keyword reply: whatever of the
\* account's pages fails, halts or dies, and provided every save of the queue file
\* succeeds. (After a save that fails the code does comment twice.)
THEOREM SentOnceHolds ==
  "save" \notin Faults /\ FirstWeekDays > 0 => (Spec => []SentOnce)
<1> SUFFICES ASSUME Setting PROVE Spec => []SentOnce
  BY DEF Setting
<1>1. IInv => SentOnce
  BY DEF IInv
<1> QED  BY <1>1, Invariance, PTL

\* Two reels of a creator are never open at once, and no link that came after both comments
\* is taken for two of them; the queue file can be written.
THEOREM OneThreadHolds ==
  "save" \notin Faults /\ FirstWeekDays > 0 => (Spec => []OneThread)
<1> SUFFICES ASSUME Setting PROVE Spec => []OneThread
  BY DEF Setting
<1>1. ASSUME QueueOK(disk), NEW r \in With(disk, OPEN), NEW o \in With(disk, OPEN), Creator[r] = Creator[o]
      PROVE  r = o
  BY <1>1 DEF QueueOK, Related, Newest, Others, With
<1>2. ASSUME QueueOK(disk), NEW r \in Queued(disk), NEW o \in Queued(disk), r # o, Creator[r] = Creator[o],
             disk.items[r].confirmed, disk.items[o].confirmed,
             NEW n \in disk.items[r].links \cap disk.items[o].links
      PROVE  n < disk.items[r].mark \/ n < disk.items[o].mark
  <2>1. o \in Others(disk, r) /\ r \in Others(disk, o)
    BY <1>2 DEF Others
  <2>2. Ordered(disk, r, o) /\ Ordered(disk, o, r)
    BY <1>2, <2>1 DEF QueueOK, Related
  <2>3. /\ disk.items[r].mark \in Nat /\ disk.items[o].mark \in Nat
    BY <1>2, ItemType DEF Items, QueueOK, Related
  <2>4. disk.items[r].mark < disk.items[o].mark \/ disk.items[o].mark < disk.items[r].mark
    BY <2>2, <2>3 DEF Ordered
  <2> QED  BY <1>2, <2>2, <2>4 DEF Ordered
<1>3. IInv => OneThread
  BY <1>1, <1>2 DEF IInv, OneThread
<1> QED  BY <1>3, Invariance, PTL

\* A day has no more writes and comments than its budget, but for those nobody lived to
\* record; the queue file can be written.
THEOREM BudgetKeptHolds ==
  "save" \notin Faults /\ FirstWeekDays > 0 => (Spec => []BudgetKept)
<1> SUFFICES ASSUME Setting PROVE Spec => []BudgetKept
  BY DEF Setting
<1>1. IInv => BudgetKept
  BY DEF IInv
<1> QED  BY <1>1, Invariance, PTL

================================================================================
