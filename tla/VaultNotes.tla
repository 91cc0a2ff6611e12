------------------------------ MODULE VaultNotes ------------------------------
(***************************************************************************)
(* The notes in the vault and everyone who writes them: passes (worker.py, *)
(* obsidian_writer.py), reviews (review_new_reels.py), organize-vault      *)
(* (vault_organizer.py), the delivery of links to a reel's note            *)
(* (comment_gate.py), and the owner, who edits titles and sorts notes into *)
(* folders. The nightly tasks and the webhook's threads start each of them *)
(* at any time, so they are processes of their own. A pass holds the run   *)
(* lock, a delivery and a review take it to write; organize-vault holds    *)
(* the lock of state.json, which a save needs. state.json says where a     *)
(* record's note was last put.                                             *)
(***************************************************************************)
EXTENDS Integers, FiniteSets

CONSTANTS
  Items,
  Reviewers,     \* processes that review
  Reel, Child,   \* a reel whose links a bot sends, and the record of the link
  Titles,
  Title,         \* the title each record's enrichment gives it; a retry finds that cached
  Folders, Inbox, \* folders of the vault; the one write_note writes to
  Suffixes,      \* bound: names <slug>, <slug>-2, ... of one title
  MaxEdits,      \* bound: titles edited and notes sorted by the owner
  MaxFaults,     \* bound: processes killed, renames that fail
  None

ASSUME VaultNotesAssumption ==
  /\ {Reel, Child} \subseteq Items /\ Reel # Child /\ Inbox \in Folders
  /\ Suffixes \in Nat \ {0}
  /\ Title \in [Items -> Titles] /\ MaxEdits \in Nat /\ MaxFaults \in Nat

VARIABLES
  notes,   \* the files: what is at each path
  state,   \* state.json: whether a record is done, and its note_path
  gate,    \* the status of the reel's comment in the comment queue
  pass,    \* the pass: its step and what it works on
  review,  \* each reviewer: likewise, with the records' paths as it has read them
  org,     \* organize-vault: likewise
  hand,    \* the delivery: likewise
  lost,    \* records whose last note an older text or a cleaning up has taken
  left     \* edits and faults still to come

vars == <<notes, state, gate, pass, review, org, hand, lost, left>>

Names == [title : Titles, n : 1 .. Suffixes]
Paths == [folder : Folders, name : Names]

\* gated: with the section of the link; wikilink: the name of the note it leads to, if any.
Notes ==
  [id : Items, title : Titles, gated : BOOLEAN, wikilink : Names \cup {None}, review : BOOLEAN]
NewNote(i, title) ==
  [id |-> i, title |-> title, gated |-> FALSE, wikilink |-> None, review |-> FALSE]

ASSUME VaultNotesNone == None \notin Items \cup Names \cup Paths \cup Notes

Is(p) == notes[p] # None
Own(i) == {p \in Paths : Is(p) /\ notes[p].id = i}

Nobody == [step |-> "idle", item |-> None, path |-> None, text |-> None,
           todo |-> {}, mem |-> [i \in Items |-> None], done |-> FALSE]

Init ==
  /\ notes = [p \in Paths |-> None]
  /\ state \in {[i \in Items |-> [status |-> IF i = Child THEN "unknown" ELSE "pending",
                                  path |-> None]]}
  /\ gate = "none"
  /\ pass = Nobody /\ review = [r \in Reviewers |-> Nobody] /\ org = Nobody /\ hand = Nobody
  /\ lost = {}
  /\ left = [edits |-> MaxEdits, faults |-> MaxFaults]

Recorded == [i \in Items |-> state[i].path]
Done == {i \in Items : state[i].status = "done"}
RunLockFree == pass.step = "idle" /\ hand.step # "write"
StateLockFree == org = Nobody

\* mutant of NameTaken: any note of that name is replaced.
NameTakenNever(p, i) == FALSE

\* Another record's note; one's own is written over.
NameTaken(p, i) == Is(p) /\ notes[p].id # i

\* note_filename: the first name of the title that is free. (None, when the bound is reached.)
NoteFilename(folder, i, title) ==
  {p \in Paths :
     /\ p.folder = folder /\ p.name.title = title /\ ~NameTaken(p, i)
     /\ \A n \in 1 .. p.name.n - 1 : NameTaken([p EXCEPT !.name.n = n], i)}

\* comment_gate.find_note: the recorded path if anything is there, else any note with the
\* record's content_id, those in the inbox first.
FoundNotes(i, recorded) ==
  IF recorded # None /\ Is(recorded) THEN {recorded}
  ELSE LET inbox == {p \in Own(i) : p.folder = Inbox}
       IN  IF inbox # {} THEN inbox ELSE Own(i)

Write(p, note) == notes' = [notes EXCEPT ![p] = note]

\* A text read earlier is written where it was read, whatever is there now.
WriteBack(p, note) ==
  /\ Write(p, note)
  /\ lost' = lost \cup {i \in Items \ {note.id} : Own(i) = {p}}

--------------------------------------------------------------------------------
(* The pass: notes of pending records, then wikilinks to the finished children *)

StartPass ==
  /\ RunLockFree
  /\ LET actionable == {i \in Items : state[i].status = "pending"}
     IN  pass' = [Nobody EXCEPT !.step = "pass", !.todo = actionable,
                                !.mem = [i \in Items |->
                                           IF i \in actionable THEN state[i].path ELSE None]]
  /\ UNCHANGED <<notes, state, gate, review, org, hand, lost, left>>

WriteNote ==
  /\ pass.step = "pass"
  /\ \E i \in pass.todo : \E p \in NoteFilename(Inbox, i, Title[i]) :
       /\ Write(p, NewNote(i, Title[i])) /\ lost' = lost \ {i}
       /\ pass' = [pass EXCEPT !.step = "save", !.item = i, !.path = p]
  /\ UNCHANGED <<state, gate, review, org, hand, left>>

\* mutant of Record: the record is saved before it is told of its note.
RecordEarly(status) == [status |-> status, path |-> pass.mem[pass.item]]

\* The record in memory.
Record(status) == [status |-> status, path |-> pass.path]

\* update_record
SaveAs(status) ==
  /\ StateLockFree
  /\ state' = [state EXCEPT ![pass.item] = Record(status)]
  /\ UNCHANGED <<notes, gate, review, org, hand, lost, left>>

\* process_item has returned.
NextRecord ==
  [pass EXCEPT !.step = "pass", !.item = None, !.path = None, !.todo = @ \ {pass.item}]

SaveDone ==
  /\ pass.step = "save" /\ SaveAs("done")
  /\ pass' = [pass EXCEPT !.step = "clean", !.done = TRUE]

\* The note an attempt made whose save timed out, if its path is another: whatever is there now.
CleanUp ==
  /\ pass.step = "clean"
  /\ LET previous == pass.mem[pass.item]
     IN  IF previous \in {None, pass.path} THEN UNCHANGED <<notes, lost>>
         ELSE /\ notes' = [notes EXCEPT ![previous] = None]
              /\ lost' = lost \cup {i \in Items : Own(i) = {previous}}
  /\ pass' = [pass EXCEPT !.step = "last"]
  /\ UNCHANGED <<state, gate, review, org, hand, left>>

\* The record once more, with the path it had before the skill was made.
SaveLast ==
  /\ pass.step = "last" /\ SaveAs("done")
  /\ pass' = NextRecord

\* The first save times out: the handler has the record tried again, and saves that.
SaveTimesOut ==
  /\ pass.step = "save" /\ left.faults > 0
  /\ pass' = [pass EXCEPT !.step = "failed"] /\ left' = [left EXCEPT !.faults = @ - 1]
  /\ UNCHANGED <<notes, state, gate, review, org, hand, lost>>

SaveFailed ==
  /\ pass.step = "failed" /\ SaveAs("pending")
  /\ pass' = NextRecord

EndPass ==
  /\ pass.step = "pass" /\ pass.todo = {} /\ ~pass.done
  /\ pass' = Nobody
  /\ UNCHANGED <<notes, state, gate, review, org, hand, lost, left>>

\* mutant of Linkable: a child is linked by the first pass after the delivery only.
LinkableOnce == gate = "needs-rereview" /\ Child \in Done

Linkable == gate \in {"needs-rereview", "rereviewed"} /\ Child \in Done

\* The end of a pass that has finished a record, one of these or one the module does not
\* speak of. link_children reads the saved queue and state.json anew.
LinkChildren ==
  /\ pass.step = "pass" /\ pass.todo = {}
  /\ LET children == FoundNotes(Child, state[Child].path)
         parents == FoundNotes(Reel, state[Reel].path)
     IN  IF Linkable /\ children # {} /\ parents # {}
         THEN \E c \in children, p \in parents :
                Write(p, [notes[p] EXCEPT !.gated = TRUE, !.wikilink = c.name])
         ELSE UNCHANGED notes
  /\ pass' = Nobody
  /\ UNCHANGED <<state, gate, review, org, hand, lost, left>>

\* Killed; or a save of the handler or the last one times out.
PassFails ==
  /\ pass # Nobody /\ left.faults > 0
  /\ pass' = Nobody /\ left' = [left EXCEPT !.faults = @ - 1]
  /\ UNCHANGED <<notes, state, gate, review, org, hand, lost>>

--------------------------------------------------------------------------------
(* A review: a text is read, judged for minutes, and written with the verdict *)

Become(r, work) == review' = [review EXCEPT ![r] = work]
Reviewing(r, step) == review[r].step = step

\* The script reads state.json once; notes it has not come to are left for the next start.
StartReviews(r) ==
  /\ review[r].step \in {"idle", "reviews"}
  /\ Become(r, [Nobody EXCEPT !.step = "reviews", !.todo = Done, !.mem = Recorded])
  /\ UNCHANGED <<notes, state, gate, pass, org, hand, lost, left>>

\* review_one, at the recorded path or at the only note of that name.
ReviewPath(p) ==
  LET named == {o \in Paths : Is(o) /\ o.name = p.name}
  IN  IF Is(p) THEN {p} ELSE IF Cardinality(named) = 1 THEN named ELSE {}

ReadNote(r) ==
  /\ Reviewing(r, "reviews")
  /\ \E i \in review[r].todo : \E p \in ReviewPath(review[r].mem[i]) :
       /\ ~notes[p].review
       /\ Become(r, [review[r] EXCEPT !.step = "judge", !.path = p, !.text = notes[p]])
  /\ UNCHANGED <<notes, state, gate, pass, org, hand, lost, left>>

\* rereview_delivered, of a note found as the delivery finds it.
ReadDelivered(r) ==
  /\ Reviewing(r, "reviews") /\ gate = "needs-rereview"
  /\ \E p \in FoundNotes(Reel, review[r].mem[Reel]) :
       Become(r, [review[r] EXCEPT !.step = "rejudge", !.path = p, !.text = notes[p]])
  /\ UNCHANGED <<notes, state, gate, pass, org, hand, lost, left>>

\* The whole text as it was read, at the path it was read from.
PutBack(r) ==
  /\ review[r].step \in {"judge", "rejudge"} /\ RunLockFree
  /\ WriteBack(review[r].path, [review[r].text EXCEPT !.review = TRUE])

Reviewed(r) == Become(r, [review[r] EXCEPT !.step = "reviews", !.path = None, !.text = None])

\* Then the queue is told.
WriteReview(r) ==
  /\ PutBack(r) /\ Reviewed(r)
  /\ gate' = IF Reviewing(r, "rejudge") /\ gate = "needs-rereview" THEN "rereviewed" ELSE gate
  /\ UNCHANGED <<state, pass, org, hand, left>>

\* A review that finds the run lock taken, fails or is killed before is tried again later.
ReviewFails(r) ==
  /\ review[r].step \in {"judge", "rejudge"} /\ Reviewed(r)
  /\ UNCHANGED <<notes, state, gate, pass, org, hand, lost, left>>

\* Killed between the note and the queue.
ReviewKilled(r) ==
  /\ PutBack(r) /\ Reviewed(r) /\ left.faults > 0
  /\ left' = [left EXCEPT !.faults = @ - 1]
  /\ UNCHANGED <<state, gate, pass, org, hand>>

--------------------------------------------------------------------------------
(* organize-vault: a note whose title was edited gets the name of its title *)

StartOrganize ==
  /\ StateLockFree
  /\ org' = [Nobody EXCEPT !.step = "organize", !.todo = Done, !.mem = Recorded]
  /\ UNCHANGED <<notes, state, gate, pass, review, hand, lost, left>>

\* A file that is gone, or another record's, is left alone.
Organizable(i) == Is(org.mem[i]) /\ notes[org.mem[i]].id = i

Rename ==
  /\ \E i \in org.todo :
       LET p == org.mem[i]
           others == [org EXCEPT !.todo = @ \ {i}]
       IN  \/ ~Organizable(i) /\ org' = others /\ UNCHANGED notes
           \/ /\ Organizable(i)
              /\ \E target \in NoteFilename(p.folder, i, notes[p].title) :
                   /\ notes' = [[notes EXCEPT ![p] = None] EXCEPT ![target] = notes[p]]
                   /\ org' = [others EXCEPT !.mem[i] = target]
  /\ UNCHANGED <<state, gate, pass, review, hand, lost, left>>

\* mutate_state saves what the renames have put in the records.
SaveRenamed ==
  /\ org.step = "organize" /\ org.todo = {}
  /\ state' = [i \in Items |-> [state[i] EXCEPT !.path = org.mem[i]]]
  /\ org' = Nobody
  /\ UNCHANGED <<notes, gate, pass, review, hand, lost, left>>

\* Killed; or a rename raises, and nothing is saved of those before it.
OrganizeFails ==
  /\ org # Nobody /\ left.faults > 0
  /\ org' = Nobody /\ left' = [left EXCEPT !.faults = @ - 1]
  /\ UNCHANGED <<notes, state, gate, pass, review, hand, lost>>

--------------------------------------------------------------------------------
(* The delivery of a bot's links *)

\* External to this module: the comment, and the answer (CommentGate).
ReceiveLink ==
  /\ gate = "none" /\ Reel \in Done
  /\ gate' = "link-received"
  /\ UNCHANGED <<notes, state, pass, review, org, hand, lost, left>>

\* deliver reads state.json before it waits for the run lock.
StartDelivery ==
  /\ hand = Nobody /\ gate = "link-received"
  /\ hand' = [Nobody EXCEPT !.step = "wait", !.mem = Recorded]
  /\ UNCHANGED <<notes, state, gate, pass, review, org, lost, left>>

\* add_url: a known link keeps its record.
Registered(status) == IF status = "unknown" THEN "pending" ELSE status

FoundReel == FoundNotes(Reel, hand.mem[Reel])

\* The links are registered, the note is found and read.
ReadReel ==
  /\ hand.step = "wait" /\ RunLockFree /\ StateLockFree
  /\ state' = [state EXCEPT ![Child].status = Registered(@)]
  /\ \/ \E p \in FoundReel :
          hand' = [Nobody EXCEPT !.step = "write", !.path = p, !.text = notes[p]]
     \/ FoundReel = {} /\ hand' = [Nobody EXCEPT !.step = "save"]
  /\ UNCHANGED <<notes, gate, pass, review, org, lost, left>>

WriteSection ==
  /\ hand.step = "write"
  /\ WriteBack(hand.path, [hand.text EXCEPT !.gated = TRUE, !.wikilink = None])
  /\ hand' = [Nobody EXCEPT !.step = "save"]
  /\ UNCHANGED <<state, gate, pass, review, org, left>>

\* The queue is saved by the caller.
SaveQueue ==
  /\ hand.step = "save"
  /\ gate' = "needs-rereview" /\ hand' = Nobody
  /\ UNCHANGED <<notes, state, pass, review, org, lost, left>>

\* Killed; or a lock it waits for is not released in time.
DeliveryKilled ==
  /\ hand # Nobody /\ left.faults > 0
  /\ hand' = Nobody /\ left' = [left EXCEPT !.faults = @ - 1]
  /\ UNCHANGED <<notes, state, gate, pass, review, org, lost>>

--------------------------------------------------------------------------------
(* External: the owner *)

Edit(p) ==
  /\ Is(p) /\ left.edits > 0
  /\ left' = [left EXCEPT !.edits = @ - 1]
  /\ UNCHANGED <<state, gate, pass, review, org, hand, lost>>

Retitle(p) ==
  /\ Edit(p)
  /\ \E title \in Titles \ {notes[p].title} : Write(p, [notes[p] EXCEPT !.title = title])

Sort(p) ==
  /\ Edit(p) /\ p.folder = Inbox
  /\ \E folder \in Folders \ {Inbox} :
       LET q == [p EXCEPT !.folder = folder]
       IN  ~Is(q) /\ notes' = [notes EXCEPT ![p] = None, ![q] = notes[p]]

Save == SaveDone \/ SaveLast \/ SaveFailed
Pass == StartPass \/ WriteNote \/ Save \/ CleanUp \/ LinkChildren \/ EndPass
Review(r) ==
  \/ StartReviews(r) \/ ReadNote(r) \/ ReadDelivered(r)
  \/ WriteReview(r) \/ ReviewFails(r) \/ ReviewKilled(r)
Organize == StartOrganize \/ Rename \/ SaveRenamed
Delivery == StartDelivery \/ ReadReel \/ WriteSection \/ SaveQueue

Next ==
  \/ Pass \/ Organize \/ Delivery \/ ReceiveLink
  \/ \E r \in Reviewers : Review(r)
  \/ SaveTimesOut \/ PassFails \/ OrganizeFails \/ DeliveryKilled
  \/ \E p \in Paths : Retitle(p) \/ Sort(p)

Spec == Init /\ [][Next]_vars

\* Passes are started every night, and some finish a record; organize-vault ends, and a
\* delivery comes about; the locks they wait for are free some time. Of reviews nothing is
\* assumed.
FairSpec ==
  /\ Spec
  /\ WF_vars(Pass) /\ SF_vars(Save) /\ SF_vars(LinkChildren)
  /\ WF_vars(Rename \/ SaveRenamed)
  /\ WF_vars(StartDelivery \/ WriteSection \/ SaveQueue) /\ SF_vars(ReadReel)

--------------------------------------------------------------------------------
(* Properties *)

Work(steps) ==
  [step : steps, item : Items \cup {None}, path : Paths \cup {None},
   text : Notes \cup {None}, todo : SUBSET Items, mem : [Items -> Paths \cup {None}],
   done : BOOLEAN]

TypeOK ==
  /\ notes \in [Paths -> Notes \cup {None}]
  /\ state \in [Items -> [status : {"unknown", "pending", "done"}, path : Paths \cup {None}]]
  /\ \A i \in Done : state[i].path # None
  /\ gate \in {"none", "link-received", "needs-rereview", "rereviewed"}
  /\ pass \in Work({"idle", "pass", "save", "clean", "last", "failed"})
  /\ review \in [Reviewers -> Work({"idle", "reviews", "judge", "rejudge"})]
  /\ org \in Work({"idle", "organize"}) /\ hand \in Work({"idle", "wait", "write", "save"})
  /\ lost \subseteq Items
  /\ left \in [edits : 0 .. MaxEdits, faults : 0 .. MaxFaults]

\* A finished record's note stays in the vault, under whatever name and in whatever folder:
\* no new note, link or rename takes its place, wherever a process was killed, whichever save
\* timed out and whatever the owner edits meanwhile. What can take it is a text that a review
\* or a delivery has held since the path was another record's, and the cleaning up of such a
\* path (README). The choice of a name and the write under it are taken to be one step.
NotesKept == \A i \in Done \ lost : Own(i) # {}

\* state.json does not lead to another record's note. (It does when the note was moved
\* without its knowing and the next note got the name; README.)
Trusted(i) == LET p == state[i].path IN p # None => ~Is(p) \/ notes[p].id = i

Linked == \E p \in Own(Reel), c \in Own(Child) : notes[p].wikilink = c.name

\* The links of a reel end as a wikilink from its note to that of the finished link: though
\* a review writes back a text from before the delivery, a delivery dies half-way and is
\* repeated, and notes are renamed after they were linked - as long as their paths lead to
\* them or nowhere, and neither note was lost.
LinksReachNote ==
  <>[](gate \in {"needs-rereview", "rereviewed"} /\ Child \in Done \ lost
       /\ Reel \notin lost /\ Trusted(Reel) /\ Trusted(Child))
    => <>[]Linked

===============================================================================
