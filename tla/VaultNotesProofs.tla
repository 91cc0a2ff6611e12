--------------------------- MODULE VaultNotesProofs ---------------------------
(***************************************************************************)
(* Proofs about VaultNotes: its types, and when a finished note is kept.   *)
(* The argument is about whoever puts a note somewhere: a name that is     *)
(* chosen is free or the record's own, so new notes and renames take       *)
(* nobody's place; a text written back to where it was read may, as may    *)
(* the removal of an old note, and then what was there is counted as lost. *)
(***************************************************************************)
EXTENDS VaultNotes, TLAPS

\* A record has a note, unless an older text or a cleaning up took it.
Kept(i) == Own(i) # {} \/ i \in lost

\* The record whose note the pass has written.
Written ==
  pass.step \notin {"idle", "pass"} =>
    pass.item \in Items /\ pass.path \in Paths /\ Kept(pass.item)

Organized ==
  /\ org.todo \subseteq Done
  /\ org # Nobody =>
       org.step = "organize" /\ \A i \in Done : org.mem[i] # None

\* Whoever is to write a text back has one, and its place; notes are looked for by a path.
HasText(w) == w.path \in Paths /\ w.text \in Notes
HasPaths(w) == \A i \in w.todo : w.mem[i] # None

Texts ==
  /\ \A r \in Reviewers :
       /\ review[r].step \in {"judge", "rejudge"} => HasText(review[r])
       /\ HasPaths(review[r])
  /\ hand.step = "write" => HasText(hand)

IInv == TypeOK /\ Written /\ Organized /\ Texts /\ NotesKept

--------------------------------------------------------------------------------

\* A note written where nothing is, or over the same record's, takes nobody's place.
LEMMA WriteKeeps ==
  ASSUME notes \in [Paths -> Notes \cup {None}],
         NEW p \in Paths, NEW note \in Notes,
         notes[p] = None \/ notes[p].id = note.id,
         Write(p, note)
  PROVE  /\ notes' \in [Paths -> Notes \cup {None}]
         /\ \A i \in Items : Own(i) \subseteq Own(i)'
         /\ p \in Own(note.id)'
BY VaultNotesNone DEF Write, Own, Is, Notes

\* So does a note moved to such a place.
LEMMA MoveKeeps ==
  ASSUME notes \in [Paths -> Notes \cup {None}],
         NEW p \in Paths, NEW q \in Paths, Is(p),
         q = p \/ notes[q] = None \/ notes[q].id = notes[p].id,
         notes' = [[notes EXCEPT ![p] = None] EXCEPT ![q] = notes[p]]
  PROVE  /\ notes' \in [Paths -> Notes \cup {None}]
         /\ \A i \in Items : Own(i) # {} => Own(i)' # {}
<1>1. notes' \in [Paths -> Notes \cup {None}]
  OBVIOUS
<1>2. ASSUME NEW i \in Items, NEW o \in Own(i)
      PROVE  Own(i)' # {}
  <2>1. notes[o].id = i /\ notes[o] # None /\ o \in Paths
    BY <1>2 DEF Own, Is
  <2>2. CASE o = p \/ o = q
    <3>1. notes[p].id = i /\ notes'[q] = notes[p]
      BY <2>1, <2>2 DEF Is
    <3>2. q \in Own(i)'
      BY <3>1 DEF Own, Is
    <3> QED  BY <3>2
  <2>3. CASE o # p /\ o # q
    <3>1. o \in Own(i)'
      BY <2>1, <2>3 DEF Own, Is
    <3> QED  BY <3>1
  <2> QED  BY <2>2, <2>3
<1> QED  BY <1>1, <1>2

\* The name a note gets is free for it.
LEMMA NameIsFree ==
  ASSUME notes \in [Paths -> Notes \cup {None}],
         NEW folder, NEW i \in Items, NEW title, NEW p \in NoteFilename(folder, i, title)
  PROVE  p \in Paths /\ p.folder = folder /\ (notes[p] = None \/ notes[p].id = i)
BY DEF NoteFilename, NameTaken, Is

\* Where a delivery or a second review finds a note, there is one.
LEMMA FoundIsNote ==
  ASSUME TypeOK, NEW i \in Items, NEW recorded \in Paths \cup {None},
         NEW p \in FoundNotes(i, recorded)
  PROVE  p \in Paths /\ notes[p] \in Notes
BY VaultNotesNone DEF FoundNotes, Own, Is, TypeOK

\* A text written back covers the records whose only note was there, and no other.
LEMMA WriteBackKeeps ==
  ASSUME notes \in [Paths -> Notes \cup {None}], lost \subseteq Items,
         NEW p \in Paths, NEW note \in Notes, WriteBack(p, note)
  PROVE  /\ notes' \in [Paths -> Notes \cup {None}]
         /\ lost' \subseteq Items
         /\ \A i \in Items : Kept(i) => Kept(i)'
<1>1. /\ notes' = [notes EXCEPT ![p] = note]
      /\ lost' = lost \cup {i \in Items \ {note.id} : Own(i) = {p}}
  BY DEF WriteBack, Write
<1>2. note # None /\ note.id \in Items
  BY VaultNotesNone DEF Notes
<1>3. ASSUME NEW i \in Items, NEW o \in Own(i), i \notin lost'
      PROVE  Own(i)' # {}
  <2>1. o \in Paths /\ Is(o) /\ notes[o].id = i
    BY <1>3 DEF Own
  <2>2. CASE i = note.id
    BY <1>1, <1>2, <2>2 DEF Own, Is
  <2>3. CASE i # note.id
    <3>1. PICK q \in Own(i) : q # p
      BY <1>1, <1>3, <2>3
    <3>2. q \in Own(i)'
      BY <1>1, <3>1 DEF Own, Is
    <3> QED  BY <3>2
  <2> QED  BY <2>2, <2>3
<1>4. notes' \in [Paths -> Notes \cup {None}] /\ lost' \subseteq Items
  BY <1>1
<1>5. ASSUME NEW i \in Items, Kept(i) PROVE Kept(i)'
  <2>1. CASE i \in lost'
    BY <2>1 DEF Kept
  <2>2. CASE i \notin lost'
    <3>1. PICK o \in Own(i) : TRUE
      BY <1>1, <1>5, <2>2 DEF Kept
    <3> QED  BY <1>3, <2>2, <3>1 DEF Kept
  <2> QED  BY <2>1, <2>2
<1> QED  BY <1>4, <1>5

\* What a step leaves the records it leaves the invariant, when it puts nothing in the notes.
LEMMA SameNotes ==
  ASSUME UNCHANGED <<notes, lost>>
  PROVE  \A i \in Items : (Kept(i)' <=> Kept(i)) /\ Own(i)' = Own(i)
BY DEF Kept, Own, Is

\* What a step that makes no record done, and takes no note away, leaves as it was.
LEMMA Rest ==
  ASSUME IInv, Done' = Done, \A i \in Items : Kept(i) => Kept(i)'
  PROVE  /\ NotesKept'
         /\ UNCHANGED pass => Written'
         /\ UNCHANGED org => Organized'
         /\ UNCHANGED <<review, hand>> => Texts'
<1>1. NotesKept'
  BY DEF IInv, NotesKept, Kept, Done
<1>2. UNCHANGED pass => Written'
  BY DEF IInv, Written
<1>3. UNCHANGED org => Organized'
  BY DEF IInv, Organized, Nobody
<1>4. UNCHANGED <<review, hand>> => Texts'
  BY DEF IInv, Texts, HasText, HasPaths
<1> QED  BY <1>1, <1>2, <1>3, <1>4

LEMMA NobodyType == Nobody \in Work({"idle"}) /\ Nobody.step = "idle" /\ Nobody.todo = {}
BY DEF Nobody, Work

--------------------------------------------------------------------------------
(* Each step of the pass keeps the invariant. *)

LEMMA StartPassKeeps == IInv /\ StartPass => IInv'
<1> SUFFICES ASSUME IInv, StartPass PROVE IInv'
  OBVIOUS
<1>1. PICK actionable \in SUBSET Items :
        pass' = [Nobody EXCEPT !.step = "pass", !.todo = actionable,
                               !.mem = [i \in Items |->
                                          IF i \in actionable THEN state[i].path ELSE None]]
  BY DEF StartPass
<1>2. UNCHANGED <<notes, state, gate, review, org, hand, lost, left>>
  BY DEF StartPass
<1>3. pass' \in Work({"pass"})
  <2> DEFINE paths == [i \in Items |-> IF i \in actionable THEN state[i].path ELSE None]
  <2>1. paths \in [Items -> Paths \cup {None}]
    BY DEF IInv, TypeOK
  <2> HIDE DEF paths
  <2>2. pass' = [Nobody EXCEPT !.step = "pass", !.todo = actionable, !.mem = paths]
    BY <1>1 DEF paths
  <2> QED  BY <2>1, <2>2 DEF Work, Nobody
<1>4. pass'.step = "pass"
  BY <1>3 DEF Work
<1>5. TypeOK'
  <2>1. pass' \in Work({"idle", "pass", "save", "clean", "last", "failed"})
    BY <1>3 DEF Work
  <2> QED  BY <1>2, <2>1 DEF IInv, TypeOK, Done
<1>6. Written'
  BY <1>4 DEF Written
<1> QED  BY <1>2, <1>5, <1>6, SameNotes, Rest DEF IInv, Done

LEMMA WriteNoteKeeps == IInv /\ WriteNote => IInv'
<1> SUFFICES ASSUME IInv, WriteNote PROVE IInv'
  OBVIOUS
<1>1. PICK i \in pass.todo : \E p \in NoteFilename(Inbox, i, Title[i]) :
        /\ Write(p, NewNote(i, Title[i])) /\ lost' = lost \ {i}
        /\ pass' = [pass EXCEPT !.step = "save", !.item = i, !.path = p]
  BY DEF WriteNote
<1>. PICK p \in NoteFilename(Inbox, i, Title[i]) :
        /\ Write(p, NewNote(i, Title[i])) /\ lost' = lost \ {i}
        /\ pass' = [pass EXCEPT !.step = "save", !.item = i, !.path = p]
  BY <1>1
<1>2. i \in Items /\ Title[i] \in Titles
  BY VaultNotesAssumption DEF IInv, TypeOK, Work
<1>3. NewNote(i, Title[i]) \in Notes /\ NewNote(i, Title[i]).id = i
  BY <1>2 DEF NewNote, Notes
<1>4. p \in Paths /\ (notes[p] = None \/ notes[p].id = i)
  BY <1>2, NameIsFree DEF IInv, TypeOK
<1>5. /\ notes' \in [Paths -> Notes \cup {None}]
      /\ \A j \in Items : Own(j) \subseteq Own(j)'
      /\ p \in Own(i)'
  BY <1>3, <1>4, WriteKeeps DEF IInv, TypeOK
<1>6. \A j \in Items : Kept(j) => Kept(j)'
  BY <1>5 DEF Kept
<1>7. UNCHANGED <<state, gate, review, org, hand, left>>
  BY DEF WriteNote
<1>8. TypeOK'
  <2>1. pass' \in Work({"idle", "pass", "save", "clean", "last", "failed"})
    BY <1>1, <1>2, <1>4 DEF IInv, TypeOK, Work
  <2>2. lost' \subseteq Items
    BY <1>1 DEF IInv, TypeOK
  <2> QED  BY <1>5, <1>7, <2>1, <2>2 DEF IInv, TypeOK, Done
<1>9. Written'
  BY <1>2, <1>4, <1>5 DEF IInv, TypeOK, Work, Written, Kept
<1> QED  BY <1>6, <1>7, <1>8, <1>9, Rest DEF IInv, Done

\* A save of the record at work, which has its note.
LEMMA SaveAsKeeps ==
  ASSUME IInv, NEW status \in {"pending", "done"}, SaveAs(status),
         pass.step \notin {"idle", "pass"},
         pass' \in Work({"idle", "pass", "save", "clean", "last", "failed"}),
         \/ pass'.step = "pass"
         \/ pass'.step = "clean" /\ UNCHANGED <<pass.item, pass.path>>
  PROVE  IInv'
<1>1. pass.item \in Items /\ pass.path \in Paths /\ Kept(pass.item) /\ org = Nobody
  BY DEF IInv, Written, SaveAs, StateLockFree
<1>2. /\ state' = [state EXCEPT ![pass.item] = [status |-> status, path |-> pass.path]]
      /\ UNCHANGED <<notes, gate, review, org, hand, lost, left>>
  BY DEF SaveAs, Record
<1>3. Done' \subseteq Done \cup {pass.item}
  BY <1>2 DEF IInv, TypeOK, Done
<1>4. TypeOK'
  <2>1. state' \in [Items -> [status : {"unknown", "pending", "done"}, path : Paths \cup {None}]]
    BY <1>1, <1>2 DEF IInv, TypeOK
  <2>2. \A i \in Done' : state'[i].path # None
    BY <1>1, <1>2, VaultNotesNone DEF IInv, TypeOK, Done
  <2> QED  BY <1>2, <2>1, <2>2 DEF IInv, TypeOK
<1>5. Written'
  BY <1>1, <1>2, SameNotes DEF Written
<1>6. Organized'
  BY <1>1, <1>2, NobodyType DEF Organized, Nobody
<1>7. Texts'
  BY <1>2 DEF IInv, Texts, HasText, HasPaths
<1>8. NotesKept'
  BY <1>1, <1>2, <1>3, SameNotes DEF IInv, NotesKept, Kept, Done
<1> QED  BY <1>4, <1>5, <1>6, <1>7, <1>8 DEF IInv

LEMMA SaveDoneKeeps == IInv /\ SaveDone => IInv'
<1> SUFFICES ASSUME IInv, SaveDone PROVE IInv'
  OBVIOUS
<1>1. /\ pass' = [pass EXCEPT !.step = "clean", !.done = TRUE]
      /\ pass.step = "save" /\ SaveAs("done")
  BY DEF SaveDone
<1>2. /\ pass' \in Work({"idle", "pass", "save", "clean", "last", "failed"})
      /\ pass'.step = "clean" /\ UNCHANGED <<pass.item, pass.path>>
  BY <1>1 DEF IInv, TypeOK, Work
<1> QED  BY <1>1, <1>2, SaveAsKeeps

LEMMA NextRecordType ==
  ASSUME TypeOK
  PROVE  /\ NextRecord \in Work({"idle", "pass", "save", "clean", "last", "failed"})
         /\ NextRecord.step = "pass"
BY DEF NextRecord, TypeOK, Work

LEMMA SaveLastKeeps == IInv /\ SaveLast => IInv'
<1> SUFFICES ASSUME IInv, SaveLast PROVE IInv'
  OBVIOUS
<1>1. pass' = NextRecord /\ pass.step = "last" /\ SaveAs("done")
  BY DEF SaveLast
<1> QED  BY <1>1, NextRecordType, SaveAsKeeps DEF IInv

LEMMA SaveFailedKeeps == IInv /\ SaveFailed => IInv'
<1> SUFFICES ASSUME IInv, SaveFailed PROVE IInv'
  OBVIOUS
<1>1. pass' = NextRecord /\ pass.step = "failed" /\ SaveAs("pending")
  BY DEF SaveFailed
<1> QED  BY <1>1, NextRecordType, SaveAsKeeps DEF IInv

LEMMA CleanUpKeeps == IInv /\ CleanUp => IInv'
<1> SUFFICES ASSUME IInv, CleanUp PROVE IInv'
  OBVIOUS
<1>1. /\ pass.step = "clean" /\ pass' = [pass EXCEPT !.step = "last"]
      /\ UNCHANGED <<state, gate, review, org, hand, left>>
  BY DEF CleanUp
<1>2. \/ UNCHANGED <<notes, lost>>
      \/ \E o \in Paths : /\ notes' = [notes EXCEPT ![o] = None]
                          /\ lost' = lost \cup {i \in Items : Own(i) = {o}}
  <2>1. pass.mem[pass.item] \in Paths \cup {None}
    BY <1>1 DEF IInv, Written, TypeOK, Work
  <2> QED  BY <2>1 DEF CleanUp
<1>3. /\ notes' \in [Paths -> Notes \cup {None}] /\ lost' \subseteq Items
      /\ \A i \in Items : Kept(i) => Kept(i)'
  <2>1. CASE UNCHANGED <<notes, lost>>
    BY <2>1, SameNotes DEF IInv, TypeOK
  <2>2. ASSUME NEW o \in Paths, notes' = [notes EXCEPT ![o] = None],
               lost' = lost \cup {i \in Items : Own(i) = {o}}
        PROVE  <1>3!:
    <3>1. ASSUME NEW i \in Items, Kept(i), i \notin lost' PROVE Own(i)' # {}
      <4>1. PICK q \in Own(i) : q # o
        BY <2>2, <3>1 DEF Kept
      <4>2. q \in Own(i)'
        BY <2>2, <4>1 DEF IInv, TypeOK, Own, Is
      <4> QED  BY <4>2
    <3> QED  BY <2>2, <3>1 DEF IInv, TypeOK, Kept
  <2> QED  BY <1>2, <2>1, <2>2
<1>4. TypeOK'
  <2>1. pass' \in Work({"idle", "pass", "save", "clean", "last", "failed"})
    BY <1>1 DEF IInv, TypeOK, Work
  <2> QED  BY <1>1, <1>3, <2>1 DEF IInv, TypeOK, Done
<1>5. Written'
  BY <1>1, <1>3 DEF IInv, TypeOK, Work, Written
<1> QED  BY <1>1, <1>3, <1>4, <1>5, Rest DEF IInv, Done

LEMMA SaveTimesOutKeeps == IInv /\ SaveTimesOut => IInv'
<1> SUFFICES ASSUME IInv, SaveTimesOut PROVE IInv'
  OBVIOUS
<1>1. /\ pass.step = "save" /\ pass' = [pass EXCEPT !.step = "failed"]
      /\ left' = [left EXCEPT !.faults = @ - 1] /\ left.faults > 0
      /\ UNCHANGED <<notes, state, gate, review, org, hand, lost>>
  BY DEF SaveTimesOut
<1>2. TypeOK'
  <2>1. pass' \in Work({"idle", "pass", "save", "clean", "last", "failed"})
    BY <1>1 DEF IInv, TypeOK, Work
  <2>2. left' \in [edits : 0 .. MaxEdits, faults : 0 .. MaxFaults]
    BY <1>1, VaultNotesAssumption DEF IInv, TypeOK
  <2> QED  BY <1>1, <2>1, <2>2 DEF IInv, TypeOK, Done
<1>3. Written'
  BY <1>1, SameNotes DEF IInv, TypeOK, Work, Written
<1> QED  BY <1>1, <1>2, <1>3, SameNotes, Rest DEF IInv, Done

LEMMA EndPassKeeps == IInv /\ EndPass => IInv'
<1> SUFFICES ASSUME IInv, EndPass PROVE IInv'
  OBVIOUS
<1>1. pass' = Nobody /\ UNCHANGED <<notes, state, gate, review, org, hand, lost, left>>
  BY DEF EndPass
<1>2. TypeOK'
  BY <1>1, NobodyType DEF IInv, TypeOK, Work, Done
<1>3. Written'
  BY <1>1, NobodyType DEF Written
<1> QED  BY <1>1, <1>2, <1>3, SameNotes, Rest DEF IInv, Done

LEMMA LinkChildrenKeeps == IInv /\ LinkChildren => IInv'
<1> SUFFICES ASSUME IInv, LinkChildren PROVE IInv'
  OBVIOUS
<1>1. \/ notes' = notes
      \/ \E c \in FoundNotes(Child, state[Child].path), p \in FoundNotes(Reel, state[Reel].path) :
           Write(p, [notes[p] EXCEPT !.gated = TRUE, !.wikilink = c.name])
  BY DEF LinkChildren
<1>2. /\ notes' \in [Paths -> Notes \cup {None}]
      /\ \A j \in Items : Own(j) \subseteq Own(j)'
  <2>1. CASE notes' = notes
    BY <2>1 DEF IInv, TypeOK, Own, Is
  <2>2. ASSUME NEW c \in FoundNotes(Child, state[Child].path),
               NEW p \in FoundNotes(Reel, state[Reel].path),
               Write(p, [notes[p] EXCEPT !.gated = TRUE, !.wikilink = c.name])
        PROVE  <1>2!:
    <3>1. /\ c \in Paths /\ p \in Paths /\ notes[p] \in Notes
      BY FoundIsNote, VaultNotesAssumption DEF IInv, TypeOK
    <3>2. c.name \in Names
      BY <3>1 DEF Paths
    <3>3. /\ [notes[p] EXCEPT !.gated = TRUE, !.wikilink = c.name] \in Notes
          /\ [notes[p] EXCEPT !.gated = TRUE, !.wikilink = c.name].id = notes[p].id
      BY <3>1, <3>2 DEF Notes
    <3> QED  BY <2>2, <3>1, <3>3, WriteKeeps DEF IInv, TypeOK
  <2> QED  BY <1>1, <2>1, <2>2
<1>3. pass' = Nobody /\ UNCHANGED <<state, gate, review, org, hand, lost, left>>
  BY DEF LinkChildren
<1>4. \A j \in Items : Kept(j) => Kept(j)'
  BY <1>2, <1>3 DEF Kept
<1>5. TypeOK'
  BY <1>2, <1>3, NobodyType DEF IInv, TypeOK, Work, Done
<1>6. Written'
  BY <1>3, NobodyType DEF Written
<1> QED  BY <1>3, <1>4, <1>5, <1>6, Rest DEF IInv, Done

LEMMA PassFailsKeeps == IInv /\ PassFails => IInv'
<1> SUFFICES ASSUME IInv, PassFails PROVE IInv'
  OBVIOUS
<1>1. /\ pass' = Nobody /\ left' = [left EXCEPT !.faults = @ - 1] /\ left.faults > 0
      /\ UNCHANGED <<notes, state, gate, review, org, hand, lost>>
  BY DEF PassFails
<1>2. TypeOK'
  BY <1>1, NobodyType, VaultNotesAssumption DEF IInv, TypeOK, Work, Done
<1>3. Written'
  BY <1>1, NobodyType DEF Written
<1> QED  BY <1>1, <1>2, <1>3, SameNotes, Rest DEF IInv, Done

--------------------------------------------------------------------------------
(* So does each step of a review, ... *)

\* A reviewer becomes something that has a text, or is not about to write one.
LEMMA BecomeKeeps ==
  ASSUME IInv, NEW r \in Reviewers, NEW work \in Work({"idle", "reviews", "judge", "rejudge"}),
         Become(r, work), work.step \in {"judge", "rejudge"} => HasText(work), HasPaths(work),
         notes' \in [Paths -> Notes \cup {None}], lost' \subseteq Items,
         gate' \in {gate, "rereviewed"}, \A i \in Items : Kept(i) => Kept(i)',
         left' \in [edits : 0 .. MaxEdits, faults : 0 .. MaxFaults],
         UNCHANGED <<state, pass, org, hand>>
  PROVE  IInv'
<1>1. review' = [review EXCEPT ![r] = work]
  BY DEF Become
<1>2. review' \in [Reviewers -> Work({"idle", "reviews", "judge", "rejudge"})]
  BY <1>1 DEF IInv, TypeOK
<1>3. TypeOK'
  BY <1>2 DEF IInv, TypeOK, Done
<1>4. Texts'
  <2>1. ASSUME NEW s \in Reviewers
        PROVE  /\ review'[s].step \in {"judge", "rejudge"} => HasText(review'[s])
               /\ HasPaths(review'[s])
    <3>1. CASE s = r
      BY <1>1, <3>1 DEF IInv, TypeOK
    <3>2. CASE s # r
      <4>1. review'[s] = review[s]
        BY <1>1, <3>2 DEF IInv, TypeOK
      <4> QED  BY <4>1 DEF IInv, Texts
    <3> QED  BY <3>1, <3>2
  <2> QED  BY <2>1 DEF IInv, Texts, HasText, HasPaths
<1> QED  BY <1>3, <1>4, Rest DEF IInv, Done

LEMMA StartReviewsKeeps == ASSUME NEW r \in Reviewers PROVE IInv /\ StartReviews(r) => IInv'
<1> SUFFICES ASSUME IInv, StartReviews(r) PROVE IInv'
  OBVIOUS
<1> DEFINE work == [Nobody EXCEPT !.step = "reviews", !.todo = Done, !.mem = Recorded]
<1>1. Become(r, work) /\ UNCHANGED <<notes, state, gate, pass, org, hand, lost, left>>
  BY DEF StartReviews
<1>2. work \in Work({"idle", "reviews", "judge", "rejudge"}) /\ work.step = "reviews"
  <2>1. Done \subseteq Items /\ Recorded \in [Items -> Paths \cup {None}]
    BY DEF IInv, TypeOK, Done, Recorded
  <2> QED  BY <2>1 DEF Work, Nobody
<1>3. HasPaths(work)
  BY DEF IInv, TypeOK, Recorded, Nobody, HasPaths, Done
<1> HIDE DEF work
<1>4. notes' \in [Paths -> Notes \cup {None}] /\ lost' \subseteq Items
      /\ left' \in [edits : 0 .. MaxEdits, faults : 0 .. MaxFaults]
      /\ \A i \in Items : Kept(i) => Kept(i)'
  BY <1>1, SameNotes DEF IInv, TypeOK
<1> QED  BY <1>1, <1>2, <1>3, <1>4, BecomeKeeps

\* A text is read where a note is.
LEMMA ReadKeeps ==
  ASSUME IInv, NEW r \in Reviewers, NEW step \in {"judge", "rejudge"},
         NEW p \in Paths, notes[p] \in Notes,
         Become(r, [review[r] EXCEPT !.step = step, !.path = p, !.text = notes[p]]),
         UNCHANGED <<notes, state, gate, pass, org, hand, lost, left>>
  PROVE  IInv'
<1> DEFINE work == [review[r] EXCEPT !.step = step, !.path = p, !.text = notes[p]]
<1>1. work \in Work({"idle", "reviews", "judge", "rejudge"}) /\ HasText(work)
  BY DEF IInv, TypeOK, Work, HasText
<1>2. HasPaths(work)
  BY DEF IInv, TypeOK, Work, Texts, HasPaths
<1>3. Become(r, work)
  OBVIOUS
<1> HIDE DEF work
<1>4. notes' \in [Paths -> Notes \cup {None}] /\ lost' \subseteq Items
      /\ left' \in [edits : 0 .. MaxEdits, faults : 0 .. MaxFaults]
      /\ \A i \in Items : Kept(i) => Kept(i)'
  BY SameNotes DEF IInv, TypeOK
<1> QED  BY <1>1, <1>2, <1>3, <1>4, BecomeKeeps

LEMMA ReadNoteKeeps == ASSUME NEW r \in Reviewers PROVE IInv /\ ReadNote(r) => IInv'
<1> SUFFICES ASSUME IInv, ReadNote(r) PROVE IInv'
  OBVIOUS
<1>1. PICK i \in review[r].todo :
        \E p \in ReviewPath(review[r].mem[i]) :
          Become(r, [review[r] EXCEPT !.step = "judge", !.path = p, !.text = notes[p]])
  BY DEF ReadNote
<1>. PICK p \in ReviewPath(review[r].mem[i]) :
        Become(r, [review[r] EXCEPT !.step = "judge", !.path = p, !.text = notes[p]])
  BY <1>1
<1>2. review[r].mem[i] \in Paths
  <2>1. review[r].mem[i] \in Paths \cup {None}
    BY DEF IInv, TypeOK, Work
  <2> QED  BY <2>1 DEF IInv, Texts, HasPaths
<1>3. p \in Paths /\ notes[p] \in Notes
  BY <1>2, VaultNotesNone DEF ReviewPath, Is, IInv, TypeOK
<1> QED  BY <1>3, ReadKeeps DEF ReadNote

LEMMA ReadDeliveredKeeps == ASSUME NEW r \in Reviewers PROVE IInv /\ ReadDelivered(r) => IInv'
<1> SUFFICES ASSUME IInv, ReadDelivered(r) PROVE IInv'
  OBVIOUS
<1>1. PICK p \in FoundNotes(Reel, review[r].mem[Reel]) :
        Become(r, [review[r] EXCEPT !.step = "rejudge", !.path = p, !.text = notes[p]])
  BY DEF ReadDelivered
<1>2. Reel \in Items /\ review[r].mem[Reel] \in Paths \cup {None}
  BY VaultNotesAssumption DEF IInv, TypeOK, Work
<1>3. p \in Paths /\ notes[p] \in Notes
  BY <1>2, FoundIsNote DEF IInv
<1> QED  BY <1>1, <1>3, ReadKeeps DEF ReadDelivered

\* A text is written back, or not, and the review goes on.
LEMMA ReviewedKeeps ==
  ASSUME IInv, NEW r \in Reviewers, Reviewed(r),
         PutBack(r) \/ UNCHANGED <<notes, lost>>, gate' \in {gate, "rereviewed"},
         left' \in [edits : 0 .. MaxEdits, faults : 0 .. MaxFaults],
         UNCHANGED <<state, pass, org, hand>>
  PROVE  IInv'
<1> DEFINE work == [review[r] EXCEPT !.step = "reviews", !.path = None, !.text = None]
<1>1. Become(r, work)
  BY DEF Reviewed
<1>2. work \in Work({"idle", "reviews", "judge", "rejudge"}) /\ work.step = "reviews"
  BY DEF IInv, TypeOK, Work
<1>3. HasPaths(work)
  BY DEF IInv, TypeOK, Work, Texts, HasPaths
<1>4. /\ notes' \in [Paths -> Notes \cup {None}] /\ lost' \subseteq Items
      /\ \A i \in Items : Kept(i) => Kept(i)'
  <2>1. CASE UNCHANGED <<notes, lost>>
    BY <2>1, SameNotes DEF IInv, TypeOK
  <2>2. CASE PutBack(r)
    <3>1. WriteBack(review[r].path, [review[r].text EXCEPT !.review = TRUE]) /\ HasText(review[r])
      BY <2>2 DEF PutBack, IInv, Texts
    <3>2. review[r].path \in Paths /\ [review[r].text EXCEPT !.review = TRUE] \in Notes
      BY <3>1 DEF HasText, Notes
    <3> QED  BY <3>1, <3>2, WriteBackKeeps DEF IInv, TypeOK
  <2> QED  BY <2>1, <2>2
<1> HIDE DEF work
<1> QED  BY <1>1, <1>2, <1>3, <1>4, BecomeKeeps

LEMMA WriteReviewKeeps == ASSUME NEW r \in Reviewers PROVE IInv /\ WriteReview(r) => IInv'
BY ReviewedKeeps DEF WriteReview, IInv, TypeOK

LEMMA ReviewFailsKeeps == ASSUME NEW r \in Reviewers PROVE IInv /\ ReviewFails(r) => IInv'
BY ReviewedKeeps DEF ReviewFails, IInv, TypeOK

LEMMA ReviewKilledKeeps == ASSUME NEW r \in Reviewers PROVE IInv /\ ReviewKilled(r) => IInv'
<1> SUFFICES ASSUME IInv, ReviewKilled(r) PROVE IInv'
  OBVIOUS
<1>1. left' \in [edits : 0 .. MaxEdits, faults : 0 .. MaxFaults]
  BY VaultNotesAssumption DEF ReviewKilled, IInv, TypeOK
<1> QED  BY <1>1, ReviewedKeeps DEF ReviewKilled

--------------------------------------------------------------------------------
(* ... of organize-vault, ... *)

LEMMA StartOrganizeKeeps == IInv /\ StartOrganize => IInv'
<1> SUFFICES ASSUME IInv, StartOrganize PROVE IInv'
  OBVIOUS
<1>1. UNCHANGED <<notes, state, gate, pass, review, hand, lost, left>>
      /\ org' = [Nobody EXCEPT !.step = "organize", !.todo = Done, !.mem = Recorded]
  BY DEF StartOrganize
<1>2. TypeOK'
  <2>1. Done \subseteq Items /\ Recorded \in [Items -> Paths \cup {None}]
    BY DEF IInv, TypeOK, Done, Recorded
  <2>2. org' \in Work({"idle", "organize"})
    BY <1>1, <2>1 DEF Work, Nobody
  <2> QED  BY <1>1, <2>2 DEF IInv, TypeOK, Done
<1>3. Organized'
  BY <1>1 DEF IInv, TypeOK, Organized, Done, Nobody, Recorded
<1>4. Done' = Done /\ \A i \in Items : Kept(i) => Kept(i)'
  BY <1>1, SameNotes DEF Done
<1> QED  BY <1>1, <1>2, <1>3, <1>4, Rest DEF IInv

LEMMA RenameKeeps == IInv /\ Rename => IInv'
<1> SUFFICES ASSUME IInv, Rename PROVE IInv'
  OBVIOUS
<1>1. PICK i \in org.todo :
        \/ ~Organizable(i) /\ org' = [org EXCEPT !.todo = @ \ {i}] /\ notes' = notes
        \/ /\ Organizable(i)
           /\ \E target \in NoteFilename(org.mem[i].folder, i, notes[org.mem[i]].title) :
                /\ notes' = [[notes EXCEPT ![org.mem[i]] = None]
                                     EXCEPT ![target] = notes[org.mem[i]]]
                /\ org' = [[org EXCEPT !.todo = @ \ {i}] EXCEPT !.mem[i] = target]
  BY DEF Rename
<1>2. UNCHANGED <<state, gate, pass, review, hand, lost, left>>
  BY DEF Rename
<1>3. /\ org \in Work({"organize"})
      /\ i \in Items /\ i \in Done /\ org.mem[i] \in Paths
      /\ org.todo \subseteq Done
      /\ \A j \in Done : org.mem[j] # None
  <2>1. org # Nobody
    BY NobodyType
  <2>2. /\ org.todo \subseteq Done /\ org.step = "organize"
        /\ \A j \in Done : org.mem[j] # None
    BY <2>1 DEF IInv, Organized
  <2>3. org \in Work({"organize"})
    BY <2>2 DEF IInv, TypeOK, Work
  <2>4. i \in Done /\ i \in Items
    BY <2>2 DEF Done
  <2>5. org.mem[i] \in Paths
    <3>1. org.mem \in [Items -> Paths \cup {None}]
      BY <2>3 DEF Work
    <3> QED  BY <2>2, <2>4, <3>1
  <2> QED  BY <2>2, <2>3, <2>4, <2>5
<1>4. CASE ~Organizable(i) /\ org' = [org EXCEPT !.todo = @ \ {i}] /\ notes' = notes
  <2>1. TypeOK'
    <3>1. org' \in Work({"idle", "organize"})
      BY <1>3, <1>4 DEF Work
    <3> QED  BY <1>2, <1>4, <3>1 DEF IInv, TypeOK, Done
  <2>2. Organized'
    BY <1>2, <1>3, <1>4 DEF Organized, Work, Done
  <2> QED  BY <1>2, <1>4, <2>1, <2>2, SameNotes, Rest DEF IInv, Done
<1>5. ASSUME Organizable(i),
             NEW target \in NoteFilename(org.mem[i].folder, i, notes[org.mem[i]].title),
             notes' = [[notes EXCEPT ![org.mem[i]] = None]
                              EXCEPT ![target] = notes[org.mem[i]]],
             org' = [[org EXCEPT !.todo = @ \ {i}] EXCEPT !.mem[i] = target]
      PROVE  IInv'
  <2>1. target \in Paths /\ (notes[target] = None \/ notes[target].id = i)
    BY <1>3, NameIsFree DEF IInv, TypeOK
  <2>2. Is(org.mem[i]) /\ notes[org.mem[i]].id = i
    BY <1>5 DEF Organizable
  <2>3. /\ notes' \in [Paths -> Notes \cup {None}]
        /\ \A j \in Items : Own(j) # {} => Own(j)' # {}
    BY <1>3, <1>5, <2>1, <2>2, MoveKeeps DEF IInv, TypeOK
  <2>4. \A j \in Items : Kept(j) => Kept(j)'
    BY <1>2, <2>3 DEF Kept
  <2>5. /\ org'.step = "organize" /\ org'.todo = org.todo \ {i}
        /\ org'.mem = [org.mem EXCEPT ![i] = target]
        /\ org' \in Work({"organize"})
    BY <1>3, <1>5, <2>1 DEF Work
  <2>6. TypeOK'
    BY <1>2, <2>3, <2>5 DEF IInv, TypeOK, Work, Done
  <2>7. Organized'
    <3>1. \A j \in Done : org'.mem[j] # None
      BY <1>3, <2>1, <2>5, VaultNotesNone DEF Work
    <3> QED  BY <1>2, <1>3, <2>5, <3>1 DEF Organized, Done
  <2> QED  BY <1>2, <2>4, <2>6, <2>7, Rest DEF IInv, Done
<1> QED  BY <1>1, <1>4, <1>5

LEMMA SaveRenamedKeeps == IInv /\ SaveRenamed => IInv'
<1> SUFFICES ASSUME IInv, SaveRenamed PROVE IInv'
  OBVIOUS
<1>1. /\ state' = [i \in Items |-> [state[i] EXCEPT !.path = org.mem[i]]]
      /\ org' = Nobody /\ org.step = "organize"
      /\ UNCHANGED <<notes, gate, pass, review, hand, lost, left>>
  BY DEF SaveRenamed
<1>2. Done' = Done
  BY <1>1 DEF IInv, TypeOK, Done
<1>3. TypeOK'
  <2>1. org.mem \in [Items -> Paths \cup {None}]
    BY DEF IInv, TypeOK, Work
  <2>2. state' \in [Items -> [status : {"unknown", "pending", "done"}, path : Paths \cup {None}]]
    BY <1>1, <2>1 DEF IInv, TypeOK
  <2>3. \A i \in Done' : state'[i].path # None
    BY <1>1, <1>2, NobodyType DEF IInv, Organized, TypeOK, Done
  <2> QED  BY <1>1, <2>2, <2>3, NobodyType DEF IInv, TypeOK, Work
<1>4. Organized'
  BY <1>1, NobodyType DEF Organized, Nobody
<1> QED  BY <1>1, <1>2, <1>3, <1>4, SameNotes, Rest DEF IInv

LEMMA OrganizeFailsKeeps == IInv /\ OrganizeFails => IInv'
<1> SUFFICES ASSUME IInv, OrganizeFails PROVE IInv'
  OBVIOUS
<1>1. /\ org' = Nobody /\ left' = [left EXCEPT !.faults = @ - 1] /\ left.faults > 0
      /\ UNCHANGED <<notes, state, gate, pass, review, hand, lost>>
  BY DEF OrganizeFails
<1>2. TypeOK'
  BY <1>1, NobodyType, VaultNotesAssumption DEF IInv, TypeOK, Work, Done
<1>3. Organized'
  BY <1>1, NobodyType DEF Organized, Nobody
<1> QED  BY <1>1, <1>2, <1>3, SameNotes, Rest DEF IInv, Done

--------------------------------------------------------------------------------
(* ... of the delivery, ... *)

LEMMA ReceiveLinkKeeps == IInv /\ ReceiveLink => IInv'
<1> SUFFICES ASSUME IInv, ReceiveLink PROVE IInv'
  OBVIOUS
<1>1. gate' = "link-received"
      /\ UNCHANGED <<notes, state, pass, review, org, hand, lost, left>>
  BY DEF ReceiveLink
<1>2. TypeOK'
  BY <1>1 DEF IInv, TypeOK, Done
<1> QED  BY <1>1, <1>2, SameNotes, Rest DEF IInv, Done

\* The delivery becomes something that has a text, or is not about to write one.
LEMMA HandKeeps ==
  ASSUME IInv, hand' \in Work({"idle", "wait", "write", "save"}),
         hand'.step = "write" => HasText(hand'),
         notes' \in [Paths -> Notes \cup {None}], lost' \subseteq Items,
         state' \in [Items -> [status : {"unknown", "pending", "done"}, path : Paths \cup {None}]],
         Done' = Done, \A i \in Items : state'[i].path = state[i].path,
         gate' \in {gate, "needs-rereview"},
         left' \in [edits : 0 .. MaxEdits, faults : 0 .. MaxFaults],
         \A i \in Items : Kept(i) => Kept(i)', UNCHANGED <<pass, review, org>>
  PROVE  IInv'
<1>1. TypeOK'
  <2>1. \A i \in Done' : state'[i].path # None
    BY DEF IInv, TypeOK, Done
  <2> QED  BY <2>1 DEF IInv, TypeOK
<1>2. Texts'
  BY DEF IInv, Texts, HasText, HasPaths
<1> QED  BY <1>1, <1>2, Rest DEF IInv

LEMMA StartDeliveryKeeps == IInv /\ StartDelivery => IInv'
<1> SUFFICES ASSUME IInv, StartDelivery PROVE IInv'
  OBVIOUS
<1>1. hand' = [Nobody EXCEPT !.step = "wait", !.mem = Recorded]
      /\ UNCHANGED <<notes, state, gate, pass, review, org, lost, left>>
  BY DEF StartDelivery
<1>2. hand' \in Work({"idle", "wait", "write", "save"}) /\ hand'.step = "wait"
  BY <1>1 DEF IInv, TypeOK, Work, Nobody, Recorded
<1> QED  BY <1>1, <1>2, SameNotes, HandKeeps DEF IInv, TypeOK, Done

LEMMA ReadReelKeeps == IInv /\ ReadReel => IInv'
<1> SUFFICES ASSUME IInv, ReadReel PROVE IInv'
  OBVIOUS
<1>1. /\ UNCHANGED <<notes, gate, pass, review, org, lost, left>>
      /\ state' = [state EXCEPT ![Child].status = Registered(@)]
      /\ \/ \E p \in FoundReel :
              hand' = [Nobody EXCEPT !.step = "write", !.path = p, !.text = notes[p]]
         \/ hand' = [Nobody EXCEPT !.step = "save"]
  BY DEF ReadReel
<1>2. /\ Done' = Done /\ \A i \in Items : state'[i].path = state[i].path
      /\ state' \in [Items -> [status : {"unknown", "pending", "done"}, path : Paths \cup {None}]]
  BY <1>1, VaultNotesAssumption, ZenonT(60) DEF IInv, TypeOK, Done, Registered
<1>3. /\ hand' \in Work({"idle", "wait", "write", "save"})
      /\ hand'.step = "write" => HasText(hand')
  <2>1. CASE hand' = [Nobody EXCEPT !.step = "save"]
    BY <2>1 DEF Work, Nobody
  <2>2. ASSUME NEW p \in FoundReel,
               hand' = [Nobody EXCEPT !.step = "write", !.path = p, !.text = notes[p]]
        PROVE  <1>3!:
    <3>1. hand.mem[Reel] \in Paths \cup {None}
      BY VaultNotesAssumption DEF IInv, TypeOK, Work
    <3>2. p \in Paths /\ notes[p] \in Notes
      BY <3>1, FoundIsNote, VaultNotesAssumption DEF FoundReel, IInv
    <3> QED  BY <2>2, <3>2 DEF Work, Nobody, HasText
  <2> QED  BY <1>1, <2>1, <2>2
<1> QED  BY <1>1, <1>2, <1>3, SameNotes, HandKeeps DEF IInv, TypeOK

LEMMA WriteSectionKeeps == IInv /\ WriteSection => IInv'
<1> SUFFICES ASSUME IInv, WriteSection PROVE IInv'
  OBVIOUS
<1> DEFINE note == [hand.text EXCEPT !.gated = TRUE, !.wikilink = None]
<1>1. WriteBack(hand.path, note) /\ UNCHANGED <<state, gate, pass, review, org, left>>
      /\ hand' = [Nobody EXCEPT !.step = "save"] /\ HasText(hand)
  BY DEF WriteSection, IInv, Texts
<1>2. note \in Notes /\ hand.path \in Paths
  BY <1>1 DEF HasText, Notes
<1>3. /\ notes' \in [Paths -> Notes \cup {None}] /\ lost' \subseteq Items
      /\ \A i \in Items : Kept(i) => Kept(i)'
  BY <1>1, <1>2, WriteBackKeeps DEF IInv, TypeOK
<1>4. hand' \in Work({"idle", "wait", "write", "save"}) /\ hand'.step # "write"
  BY <1>1 DEF Work, Nobody
<1> QED  BY <1>1, <1>3, <1>4, HandKeeps DEF IInv, TypeOK, Done

LEMMA SaveQueueKeeps == IInv /\ SaveQueue => IInv'
<1> SUFFICES ASSUME IInv, SaveQueue PROVE IInv'
  OBVIOUS
<1>1. gate' = "needs-rereview" /\ hand' = Nobody
      /\ UNCHANGED <<notes, state, pass, review, org, lost, left>>
  BY DEF SaveQueue
<1>2. hand' \in Work({"idle", "wait", "write", "save"}) /\ hand'.step # "write"
  BY <1>1, NobodyType DEF Work
<1> QED  BY <1>1, <1>2, SameNotes, HandKeeps DEF IInv, TypeOK, Done

LEMMA DeliveryKilledKeeps == IInv /\ DeliveryKilled => IInv'
<1> SUFFICES ASSUME IInv, DeliveryKilled PROVE IInv'
  OBVIOUS
<1>1. hand' = Nobody /\ left' = [left EXCEPT !.faults = @ - 1] /\ left.faults > 0
      /\ UNCHANGED <<notes, state, gate, pass, review, org, lost>>
  BY DEF DeliveryKilled
<1>2. hand' \in Work({"idle", "wait", "write", "save"}) /\ hand'.step # "write"
  BY <1>1, NobodyType DEF Work
<1>3. left' \in [edits : 0 .. MaxEdits, faults : 0 .. MaxFaults]
  BY <1>1, VaultNotesAssumption DEF IInv, TypeOK
<1> QED  BY <1>1, <1>2, <1>3, SameNotes, HandKeeps DEF IInv, TypeOK, Done

--------------------------------------------------------------------------------
(* ... and of the owner, who moves notes and edits their titles, but takes none away. *)

LEMMA EditKeeps ==
  ASSUME NEW p \in Paths, IInv, Edit(p),
         notes' \in [Paths -> Notes \cup {None}], \A i \in Items : Own(i) # {} => Own(i)' # {}
  PROVE  IInv'
<1>1. /\ left' = [left EXCEPT !.edits = @ - 1] /\ left.edits > 0
      /\ UNCHANGED <<state, gate, pass, review, org, hand, lost>>
  BY DEF Edit
<1>2. TypeOK'
  BY <1>1, VaultNotesAssumption DEF IInv, TypeOK, Done
<1>3. \A i \in Items : Kept(i) => Kept(i)'
  BY <1>1 DEF Kept
<1> QED  BY <1>1, <1>2, <1>3, Rest DEF IInv, Done

LEMMA RetitleKeeps == ASSUME NEW p \in Paths PROVE IInv /\ Retitle(p) => IInv'
<1> SUFFICES ASSUME IInv, Retitle(p) PROVE IInv'
  OBVIOUS
<1>1. PICK title \in Titles : Write(p, [notes[p] EXCEPT !.title = title])
  BY DEF Retitle
<1>2. notes[p] \in Notes
  BY DEF Retitle, Edit, Is, IInv, TypeOK
<1>3. /\ [notes[p] EXCEPT !.title = title] \in Notes
      /\ [notes[p] EXCEPT !.title = title].id = notes[p].id
  BY <1>2 DEF Notes
<1>4. /\ notes' \in [Paths -> Notes \cup {None}]
      /\ \A i \in Items : Own(i) \subseteq Own(i)'
  BY <1>1, <1>3, WriteKeeps DEF IInv, TypeOK
<1> QED  BY <1>4, EditKeeps DEF Retitle

LEMMA SortKeeps == ASSUME NEW p \in Paths PROVE IInv /\ Sort(p) => IInv'
<1> SUFFICES ASSUME IInv, Sort(p) PROVE IInv'
  OBVIOUS
<1>1. PICK folder \in Folders \ {Inbox} :
        /\ ~Is([p EXCEPT !.folder = folder])
        /\ notes' = [[notes EXCEPT ![p] = None] EXCEPT ![[p EXCEPT !.folder = folder]] = notes[p]]
  BY DEF Sort
<1> DEFINE q == [p EXCEPT !.folder = folder]
<1>2. Is(p) /\ q \in Paths /\ notes[q] = None
  BY <1>1 DEF Sort, Edit, Paths, Is
<1> HIDE DEF q
<1>3. notes' = [[notes EXCEPT ![p] = None] EXCEPT ![q] = notes[p]]
  BY <1>1 DEF q
<1>4. /\ notes' \in [Paths -> Notes \cup {None}]
      /\ \A i \in Items : Own(i) # {} => Own(i)' # {}
  BY <1>2, <1>3, MoveKeeps DEF IInv, TypeOK
<1> QED  BY <1>4, EditKeeps DEF Sort

--------------------------------------------------------------------------------

\* The inductive invariant: types, what the processes have in hand, and the notes kept.
THEOREM Invariance == Spec => []IInv
<1>1. Init => IInv
  <2> SUFFICES ASSUME Init PROVE IInv
    OBVIOUS
  <2> USE DEF Init
  <2>1. TypeOK
    BY NobodyType, VaultNotesAssumption DEF TypeOK, Work, Done
  <2>2. Written /\ Organized /\ Texts /\ NotesKept
    BY NobodyType DEF Written, Organized, Texts, NotesKept, Done, HasPaths
  <2> QED  BY <2>1, <2>2 DEF IInv
<1>2. IInv /\ [Next]_vars => IInv'
  <2> SUFFICES ASSUME IInv, [Next]_vars PROVE IInv'
    OBVIOUS
  <2>1. CASE UNCHANGED vars
    <3>1. TypeOK'
      BY <2>1 DEF vars, IInv, TypeOK, Done
    <3> QED  BY <2>1, <3>1, SameNotes, Rest DEF vars, IInv, Done
  <2>2. CASE Pass \/ SaveTimesOut \/ PassFails
    BY <2>2, StartPassKeeps, WriteNoteKeeps, SaveDoneKeeps, CleanUpKeeps, SaveLastKeeps,
       SaveFailedKeeps, LinkChildrenKeeps, EndPassKeeps, SaveTimesOutKeeps, PassFailsKeeps
       DEF Pass, Save
  <2>3. CASE \E r \in Reviewers : Review(r)
    BY <2>3, StartReviewsKeeps, ReadNoteKeeps, ReadDeliveredKeeps, WriteReviewKeeps,
       ReviewFailsKeeps, ReviewKilledKeeps DEF Review
  <2>4. CASE Organize \/ OrganizeFails
    BY <2>4, StartOrganizeKeeps, RenameKeeps, SaveRenamedKeeps, OrganizeFailsKeeps DEF Organize
  <2>5. CASE Delivery \/ ReceiveLink \/ DeliveryKilled
    BY <2>5, StartDeliveryKeeps, ReadReelKeeps, WriteSectionKeeps, SaveQueueKeeps,
       ReceiveLinkKeeps, DeliveryKilledKeeps DEF Delivery
  <2>6. CASE \E p \in Paths : Retitle(p) \/ Sort(p)
    BY <2>6, RetitleKeeps, SortKeeps
  <2> QED  BY <2>1, <2>2, <2>3, <2>4, <2>5, <2>6 DEF Next
<1> QED  BY <1>1, <1>2, PTL DEF Spec

\* Type correctness of the vault, state.json and the processes.
THEOREM TypeCorrect == Spec => []TypeOK
BY Invariance, PTL DEF IInv

\* New notes, links, renames, retitled and sorted notes, kills and failed saves take no finished
\* record's note, in whatever order they come; only a text written back to where it was read
\* does, and the removal of a note at its old path - for any vault, any number of reviewers,
\* edits and faults.
THEOREM NotesKeptHolds == Spec => []NotesKept
BY Invariance, PTL DEF IInv

================================================================================
