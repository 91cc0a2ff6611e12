-------------------------------- MODULE Worker --------------------------------
(***************************************************************************)
(* One worker pass over state.json: WorkerPipeline.run_once and every stage *)
(* of process_item, with what survives a crash (the records in state.json,  *)
(* the artifacts under data/tmp/<id>/, the notes in the vault, the lines of *)
(* needs-attention.txt) kept apart from what does not (the record object in *)
(* memory, the local variables).  Each save of the record is a step of its  *)
(* own that can time out on the state lock; a crash may come between any    *)
(* two steps.                                                               *)
(***************************************************************************)
EXTENDS Integers, Sequences

CONSTANTS
  Items,             \* content ids in state.json
  Contents,          \* non-empty texts a source can yield
  Titles,            \* titles enrichment can give (a note's file name)
  MaxAttempts,       \* retry.max_attempts
  Backoff,           \* retry.backoff_schedule_minutes
  Faults,            \* what can go wrong in this instance, see AllFaults
  ShippedProviders,  \* TRUE: enricher.py and image_describer.py; FALSE: the
                     \* EnrichmentProvider protocol of worker.py
  None               \* Python's None

\* What a stage can raise, by the classes the handler and the fallbacks tell
\* apart: a failed download may be refused, find the post gone or find no media;
\* an LLM failure is of the account or of the request; "unsupported" is asyncio's
\* NotImplementedError, "lock" a StateLockTimeout, "transient" all the rest.
Exceptions ==
  {"transient", "refused", "gone", "nomedia", "empty", "unsupported",
   "llm_account", "llm_request", "lock"}

\* The process may also crash, and the tmp sweep may remove an item's directory.
AllFaults == Exceptions \cup {"crash", "sweep"}

\* The values keep apart what the code keeps apart.  The schedule has at least one
\* step (config.py: min_length=1) and the budget at least one attempt.
ASSUME WorkerAssumption ==
  /\ MaxAttempts \in Nat \ {0}
  /\ Backoff \in Seq(Nat)
  /\ Len(Backoff) > 0
  /\ Faults \subseteq AllFaults
  /\ ShippedProviders \in BOOLEAN
  /\ None \notin Nat \cup Contents \cup Titles \cup Items \cup Exceptions
  /\ None \notin [of : Contents, title : Titles]
  /\ "empty" \notin Contents

VARIABLES
  store,      \* state.json: the record of each item
  tmp,        \* data/tmp/<id>/: the artifacts of each item
  vault,      \* titles of the note files that carry each item's content_id
  gaveUp,     \* items with a giving-up line since their last manual retry
  pc,         \* where the worker is
  todo,       \* items of this pass not yet picked up
  outage,     \* self._provider_outage
  cur,        \* the item in process_item, or None
  rec,        \* its record object in memory
  text,       \* local `transcript`
  enriched,   \* local `enrichment`
  exc,        \* the exception on its way to the handler
  stale,      \* local `previous_note_path`
  tries       \* history: attempts begun since the last manual retry, outages apart

durable == <<store, tmp, vault, gaveUp>>
locals == <<cur, rec, text, enriched, exc, stale>>
vars == <<store, tmp, vault, gaveUp, pc, todo, outage, cur, rec, text, enriched,
          exc, stale, tries>>

InFlight == {"downloading", "transcribing", "enriching", "writing_note"}
Terminal == {"done", "blocked", "failed_permanent"}
Statuses == {"pending", "failed"} \cup InFlight \cup Terminal
Stages == {"none", "downloaded", "transcribed", "enriched", "note_written"}

Enrichments == [of : Contents, title : Titles]

Records ==
  [kind : {"media", "text"}, status : Statuses, stage : Stages, attempts : Nat,
   wait : Nat \cup {None}, error : Exceptions \cup {None},
   note : Titles \cup {None}, skill : BOOLEAN]

\* "partial": files a download left behind without finishing.
Artifacts ==
  [media : {"none", "partial", "whole"}, text : Contents \cup {None},
   enriched : Enrichments \cup {None}]

NoArtifacts == [media |-> "none", text |-> None, enriched |-> None]

NewRecord(kind, status, stage) ==
  [kind |-> kind, status |-> status, stage |-> stage, attempts |-> 0,
   wait |-> None, error |-> None, note |-> None, skill |-> FALSE]

Idle == NewRecord("media", "pending", "none")

\* What registration leaves behind: a link (fetched as media or as text), one
\* refused by validation, a shared picture, a shared text.
Registrations ==
  {<<NewRecord(kind, status, "none"), NoArtifacts>> :
     kind \in {"media", "text"}, status \in {"pending", "blocked"}}
  \cup {<<NewRecord("media", "pending", "downloaded"),
          [NoArtifacts EXCEPT !.media = "whole"]>>}
  \cup {<<NewRecord("text", "pending", "transcribed"),
          [NoArtifacts EXCEPT !.text = c]>> : c \in Contents}

Init ==
  /\ \E reg \in [Items -> Registrations] :
       /\ store = [i \in Items |-> reg[i][1]]
       /\ tmp = [i \in Items |-> reg[i][2]]
  /\ vault = [i \in Items |-> {}]
  /\ gaveUp = {}
  /\ pc = "idle" /\ todo = {} /\ outage = FALSE
  /\ cur = None /\ rec = Idle /\ text = None /\ enriched = None
  /\ exc = None /\ stale = None
  /\ tries = [i \in Items |-> 0]
-------------------------------------------------------------------------------
\* One minute less until next_retry_at.
Older(w) == IF w = None \/ w = 0 THEN w ELSE w - 1

\* mutant of Actionable: a failed item whose time has come is not found
ActionableIfUnset ==
  {i \in Items : store[i].status \notin Terminal /\ store[i].wait = None}

\* What get_actionable_items returns.
Actionable ==
  {i \in Items : store[i].status \notin Terminal /\ store[i].wait \in {None, 0}}

\* The end of process_item, however it ends: its locals are gone.
Release ==
  /\ cur' = None /\ rec' = Idle /\ text' = None /\ enriched' = None
  /\ exc' = None /\ stale' = None

\* An exception leaves the try block for the handler.
Raise(e) ==
  /\ pc' = "handler"
  /\ exc' = e

\* The record's status is set in memory; the save is the next step.
Enter(status) ==
  /\ rec' = [rec EXCEPT !.status = status]
  /\ pc' = "mark"

SaveRecord == store' = [store EXCEPT ![cur] = rec]

\* run_once has the run lock: sweep old tmp directories, then take the snapshot
\* of actionable items this pass will process.
StartPass ==
  /\ pc = "idle"
  /\ \E swept \in SUBSET (IF "sweep" \in Faults THEN Items ELSE {}) :
       tmp' = [i \in Items |-> IF i \in swept THEN NoArtifacts ELSE tmp[i]]
  /\ todo' = Actionable
  /\ pc' = "pass"
  /\ UNCHANGED <<store, vault, gaveUp, outage, locals, tries>>

\* The queue is through, or a dead provider account stops the pass.
EndPass ==
  /\ pc = "pass"
  /\ todo = {} \/ outage
  /\ pc' = "idle"
  /\ todo' = {}
  /\ outage' = FALSE
  /\ UNCHANGED <<durable, locals, tries>>

\* mutant of NextItem: the loop does not look at the outage
NextItemAnyway(i) == pc = "pass" /\ i \in todo

\* The loop of _run_once_locked goes on with i.
NextItem(i) == pc = "pass" /\ ~outage /\ i \in todo

\* The artifacts found on disk stand for the stage they are the output of, if the
\* marker of the record vouches for them.
HasText(r, found) == r.stage \in {"transcribed", "enriched"} /\ found.text # None

\* mutant of HasEnrichment: the file alone is trusted
HasEnrichmentFile(r, found) == found.text # None /\ found.enriched # None

\* mutant of HasEnrichment: the marker is compared one stage late
HasEnrichmentLate(r, found) ==
  r.stage = "note_written" /\ found.text # None /\ found.enriched # None

HasEnrichment(r, found) ==
  r.stage = "enriched" /\ found.text # None /\ found.enriched # None

\* mutant of HasMedia: the files alone are trusted
HasMediaFile(r, found) == r.kind = "media" /\ found.media # "none"

HasMedia(r, found) ==
  /\ r.kind = "media"
  /\ r.stage \in {"downloaded", "transcribed", "enriched"}
  /\ found.media # "none"

\* process_item starts: what is already done is found on disk and skipped.
PickUp(i) ==
  /\ NextItem(i)
  /\ todo' = todo \ {i}
  /\ cur' = i
  /\ tries' = [tries EXCEPT ![i] = IF @ > MaxAttempts THEN @ ELSE @ + 1]
  /\ LET r == store[i]
         found == tmp[i]
         next == IF HasMedia(r, found) THEN "transcribing" ELSE "downloading"
     IN  /\ text' = IF HasText(r, found) THEN found.text ELSE None
         /\ enriched' = IF HasEnrichment(r, found) THEN found.enriched ELSE None
         /\ pc' = IF HasText(r, found) THEN "check" ELSE "mark"
         /\ rec' = IF HasText(r, found) THEN r ELSE [r EXCEPT !.status = next]
  /\ UNCHANGED <<durable, outage, exc, stale>>

\* update_record before a stage: the in-flight status reaches state.json.
Mark ==
  /\ pc = "mark"
  /\ SaveRecord
  /\ pc' = "work"
  /\ UNCHANGED <<tmp, vault, gaveUp, todo, outage, locals, tries>>

MarkTimesOut ==
  /\ pc = "mark" /\ "lock" \in Faults
  /\ Raise("lock")
  /\ UNCHANGED <<durable, todo, outage, cur, rec, text, enriched, stale, tries>>
-------------------------------------------------------------------------------
\* A failed download may try the page's text instead: at once when the post has
\* no media, for a failure that may pass only on the last attempt.
OnLastAttempt == rec.attempts + 1 >= MaxAttempts

TextFallbackAllowed(e) == e = "nomedia" \/ (e = "transient" /\ OnLastAttempt)

\* mutant of KeepText: an empty transcript is cached like any other
KeepAnyText(t) == tmp' = [tmp EXCEPT ![cur].text = t]

\* mutant of KeepText: the write of an empty transcript is merely skipped
KeepTextOrOld(t) ==
  tmp' = [tmp EXCEPT ![cur].text = IF t = "empty" THEN @ ELSE t]

\* A transcript is kept for the next attempt; an empty one removes the last.
KeepText(t) == tmp' = [tmp EXCEPT ![cur].text = IF t = "empty" THEN None ELSE t]

Working(status) == pc = "work" /\ rec.status = status

\* Both downloaders empty the item's directory before they start; for a text
\* link this is the media its page turned out to hold.
BeginDownload ==
  /\ Working("downloading")
  /\ pc' = "fetching"
  /\ \E left \in {"none", "partial"} :
       tmp' = [tmp EXCEPT ![cur] = [NoArtifacts EXCEPT !.media = left]]
  /\ UNCHANGED <<store, vault, gaveUp, todo, outage, locals, tries>>

\* All files are there.
Download ==
  /\ pc = "fetching"
  /\ tmp' = [tmp EXCEPT ![cur].media = "whole"]
  /\ rec' = [rec EXCEPT !.stage = "downloaded", !.status = "transcribing"]
  /\ pc' = "mark"
  /\ UNCHANGED <<store, vault, gaveUp, todo, outage, cur, text, enriched, exc, stale, tries>>

\* The download fails and no fallback applies, or the fallback comes up short:
\* the download's own error stands.
DownloadFails ==
  /\ pc = "fetching"
  /\ \E e \in Faults \cap {"transient", "refused", "gone", "nomedia", "unsupported"} :
       Raise(e)
  /\ UNCHANGED <<durable, todo, outage, cur, rec, text, enriched, stale, tries>>

\* The text of the page stands in for the media.
DownloadFallback ==
  /\ pc = "fetching"
  /\ \E e \in Faults \cap {"transient", "nomedia"} : TextFallbackAllowed(e)
  /\ \E c \in Contents : text' = c /\ KeepText(c)
  /\ rec' = [rec EXCEPT !.stage = "transcribed"]
  /\ pc' = "check"
  /\ UNCHANGED <<store, vault, gaveUp, todo, outage, cur, enriched, exc, stale, tries>>

\* A text link's page is read: live, or from the archive on the last attempt.
CaptureText ==
  /\ Working("downloading") /\ rec.kind = "text"
  /\ \E t \in Contents \cup (Faults \cap {"empty"}) : text' = t /\ KeepText(t)
  /\ rec' = [rec EXCEPT !.stage = "transcribed"]
  /\ pc' = "check"
  /\ UNCHANGED <<store, vault, gaveUp, todo, outage, cur, enriched, exc, stale, tries>>

CaptureFails ==
  /\ Working("downloading") /\ rec.kind = "text"
  /\ \E e \in Faults \cap {"transient", "unsupported"} : Raise(e)
  /\ UNCHANGED <<durable, todo, outage, cur, rec, text, enriched, stale, tries>>

\* Speech is transcribed, pictures are described, the caption is appended.
Extract ==
  /\ Working("transcribing")
  /\ \E t \in Contents \cup (Faults \cap {"empty"}) : text' = t /\ KeepText(t)
  /\ rec' = [rec EXCEPT !.stage = "transcribed"]
  /\ pc' = "check"
  /\ UNCHANGED <<store, vault, gaveUp, todo, outage, cur, enriched, exc, stale, tries>>

ExtractFails ==
  /\ Working("transcribing")
  /\ \E e \in Faults \cap {"transient", "unsupported", "llm_account", "llm_request"} :
       Raise(e)
  /\ UNCHANGED <<durable, todo, outage, cur, rec, text, enriched, stale, tries>>

\* There is something to enrich, or it has been enriched already.
CheckText ==
  /\ pc = "check" /\ text # "empty"
  /\ Enter(IF enriched = None THEN "enriching" ELSE "writing_note")
  /\ UNCHANGED <<durable, todo, outage, cur, text, enriched, exc, stale, tries>>

\* Media without words: the text of the post's page is tried.  A page that is a media
\* file itself, or embeds one, is streamed into the item's own directory, which is
\* emptied first, and nobody tells state.json: its marker still says "downloaded".
StreamPage ==
  /\ pc = "check" /\ text = "empty" /\ rec.kind = "media"
  /\ pc' = "streaming"
  /\ \E left \in {"none", "partial"} :
       tmp' = [tmp EXCEPT ![cur] = [NoArtifacts EXCEPT !.media = left]]
  /\ UNCHANGED <<store, vault, gaveUp, todo, outage, locals, tries>>

\* The page has words, which stand in for the media: those beside an embed that broke
\* off, or one that needed no streaming.
EmptyFallback ==
  /\ pc \in {"check", "streaming"} /\ text = "empty" /\ rec.kind = "media"
  /\ \E c \in Contents, media \in (IF pc = "check" THEN {tmp[cur].media} ELSE {"none"}) :
       text' = c /\ tmp' = [tmp EXCEPT ![cur].text = c, ![cur].media = media]
  /\ Enter("enriching")
  /\ UNCHANGED <<store, vault, gaveUp, todo, outage, cur, enriched, exc, stale, tries>>

\* It has none: the empty transcript's error stands.
EmptyFails ==
  /\ pc = "check" /\ text = "empty"
  /\ Raise("empty")
  /\ UNCHANGED <<durable, todo, outage, cur, rec, text, enriched, stale, tries>>

\* So it does when the stream breaks off, or brings the media of the page, which is no text.
StreamFails ==
  /\ pc = "streaming"
  /\ \E media \in {"none", "whole"} : tmp' = [tmp EXCEPT ![cur].media = media]
  /\ Raise("empty")
  /\ UNCHANGED <<store, vault, gaveUp, todo, outage, cur, rec, text, enriched, stale, tries>>

\* The model's answer is kept before the next stage is entered.
Enrich ==
  /\ Working("enriching")
  /\ \E t \in Titles :
       LET e == [of |-> text, title |-> t]
       IN  enriched' = e /\ tmp' = [tmp EXCEPT ![cur].enriched = e]
  /\ rec' = [rec EXCEPT !.stage = "enriched", !.status = "writing_note"]
  /\ pc' = "mark"
  /\ UNCHANGED <<store, vault, gaveUp, todo, outage, cur, text, exc, stale, tries>>

EnrichFails ==
  /\ Working("enriching")
  /\ \E e \in Faults \cap {"transient", "llm_account", "llm_request"} : Raise(e)
  /\ UNCHANGED <<durable, todo, outage, cur, rec, text, enriched, stale, tries>>

\* The record once its note is written: a clean slate.
DoneRecord ==
  [rec EXCEPT !.stage = "note_written", !.status = "done", !.note = enriched.title,
              !.skill = FALSE, !.error = None, !.attempts = 0, !.wait = None]

\* The note is in the vault and the record in memory says so; a file of the same
\* item and title is written over.
WriteNote ==
  /\ Working("writing_note")
  /\ vault' = [vault EXCEPT ![cur] = @ \cup {enriched.title}]
  /\ stale' = rec.note
  /\ rec' = DoneRecord
  /\ pc' = "commit"
  /\ UNCHANGED <<store, tmp, gaveUp, todo, outage, cur, text, enriched, exc, tries>>

WriteFails ==
  /\ Working("writing_note") /\ "transient" \in Faults
  /\ Raise("transient")
  /\ UNCHANGED <<durable, todo, outage, cur, rec, text, enriched, stale, tries>>

\* The commit point: done reaches state.json before the skill is attempted.
Commit ==
  /\ pc = "commit"
  /\ SaveRecord
  /\ pc' = "skill"
  /\ UNCHANGED <<tmp, vault, gaveUp, todo, outage, locals, tries>>

CommitTimesOut ==
  /\ pc = "commit" /\ "lock" \in Faults
  /\ Raise("lock")
  /\ UNCHANGED <<durable, todo, outage, cur, rec, text, enriched, stale, tries>>

\* A skill is written or not; its failure is caught and changes nothing else.
GenerateSkill ==
  /\ pc = "skill"
  /\ \E made \in BOOLEAN : rec' = [rec EXCEPT !.skill = made]
  /\ pc' = "clean"
  /\ UNCHANGED <<durable, todo, outage, cur, text, enriched, exc, stale, tries>>

\* mutant of Replaced: the new path is not compared with the old
ReplacedAlways == IF stale = None THEN {} ELSE {stale}

\* The note a new one replaces, if it has another file name.
Replaced == IF stale \in {None, rec.note} THEN {} ELSE {stale}

\* The item's directory goes, and the note this one replaces.
CleanUp ==
  /\ pc = "clean"
  /\ tmp' = [tmp EXCEPT ![cur] = NoArtifacts]
  /\ vault' = [vault EXCEPT ![cur] = @ \ Replaced]
  /\ pc' = "save"
  /\ UNCHANGED <<store, gaveUp, todo, outage, locals, tries>>
-------------------------------------------------------------------------------
\* mutant of HandledAs: a provider wraps the account failure of every model
HandledAsWrapped(e) == IF e = "llm_account" THEN "transient" ELSE e

\* The shipped providers re-raise an LlmCallError as a RuntimeError of their own,
\* which carries neither its status code nor its class.
HandledAs(e) ==
  IF ShippedProviders /\ e \in {"llm_account", "llm_request"} THEN "transient" ELSE e

\* Failures that waiting cannot cure.
IsTerminal(e) == e \in {"gone", "empty", "unsupported", "llm_request"}

\* The delay after the a-th charged failure: schedule[min(a, len) - 1].
Delay(a) == Backoff[IF a < Len(Backoff) THEN a ELSE Len(Backoff)]

\* mutant of BudgetSpent: one attempt too many
BudgetSpentLate == rec.attempts >= MaxAttempts

\* The failure about to be charged is the last the budget allows.
BudgetSpent == rec.attempts + 1 >= MaxAttempts

\* The record after an account failure: not charged, the shortest delay.
OutageRecord ==
  [rec EXCEPT !.status = "failed", !.wait = Backoff[1], !.error = exc]

\* mutant of GivenUpRecord: the retry time is not cleared
GivenUpRecordWaiting ==
  [rec EXCEPT !.status = "failed_permanent", !.attempts = @ + 1, !.error = exc]

\* The record of an item given up: charged, with no next attempt.
GivenUpRecord ==
  [rec EXCEPT !.status = "failed_permanent", !.attempts = @ + 1, !.wait = None,
              !.error = exc]

\* mutant of RetryRecord: the failure is not charged
RetryRecordFree ==
  [rec EXCEPT !.status = "failed", !.wait = Delay(rec.attempts + 1), !.error = exc]

\* The record of an item that gets another attempt: charged, waiting for it.
RetryRecord ==
  [rec EXCEPT !.status = "failed", !.attempts = @ + 1,
              !.wait = Delay(rec.attempts + 1), !.error = exc]

\* mutant of ReportGiveUp: an error that was reported before is not repeated
ReportNewError == gaveUp' = IF exc = rec.error THEN gaveUp ELSE gaveUp \cup {cur}

\* A line in needs-attention.txt says that the item is given up.
ReportGiveUp == gaveUp' = gaveUp \cup {cur}

\* History: an attempt that an outage ended does not count, however it is handled.
CountTry == tries' = [tries EXCEPT ![cur] = IF exc = "llm_account" THEN @ - 1 ELSE @]

\* The provider account is dead: nothing is charged, and the pass will stop.
HandleOutage ==
  /\ pc = "handler" /\ HandledAs(exc) = "llm_account"
  /\ outage' = TRUE
  /\ rec' = OutageRecord
  /\ CountTry
  /\ pc' = "save"
  /\ UNCHANGED <<durable, todo, cur, text, enriched, exc, stale>>

\* The item is given up: now, or because its budget is spent.  The line for the
\* operator is appended before the record is saved.
HandleGiveUp ==
  /\ pc = "handler" /\ HandledAs(exc) # "llm_account"
  /\ IsTerminal(HandledAs(exc)) \/ BudgetSpent
  /\ rec' = GivenUpRecord
  /\ ReportGiveUp
  /\ CountTry
  /\ pc' = "save"
  /\ UNCHANGED <<store, tmp, vault, todo, outage, cur, text, enriched, exc, stale>>

\* The item is charged and waits for its next attempt.
HandleRetryLater ==
  /\ pc = "handler" /\ HandledAs(exc) # "llm_account"
  /\ ~IsTerminal(HandledAs(exc)) /\ ~BudgetSpent
  /\ rec' = RetryRecord
  /\ CountTry
  /\ pc' = "save"
  /\ UNCHANGED <<durable, todo, outage, cur, text, enriched, exc, stale>>

\* The last save of process_item, after success and failure alike.
Save ==
  /\ pc = "save"
  /\ SaveRecord
  /\ pc' = "pass"
  /\ Release
  /\ UNCHANGED <<tmp, vault, gaveUp, todo, outage, tries>>

\* That save is outside the try block: its timeout ends the whole pass.
SaveTimesOut ==
  /\ pc = "save" /\ "lock" \in Faults
  /\ pc' = "idle" /\ todo' = {} /\ outage' = FALSE
  /\ Release
  /\ UNCHANGED <<durable, tries>>

\* The process is killed: only the files are left.
Crash ==
  /\ pc # "idle" /\ "crash" \in Faults
  /\ pc' = "idle" /\ todo' = {} /\ outage' = FALSE
  /\ Release
  /\ UNCHANGED <<durable, tries>>
-------------------------------------------------------------------------------
\* mutant of RetryTargets: `retry` takes items in any settled state
RetryTargetsSettled == {{i} : i \in {j \in Items : store[j].status \in Terminal}}

\* What the operator's `retry` names: one given-up item, or all of them.
RetryTargets ==
  LET givenUp == {i \in Items : store[i].status = "failed_permanent"}
  IN  ({{i} : i \in givenUp} \cup {givenUp}) \ {{}}

\* `cli retry`, from a process of its own, at any time.
Retry ==
  \E S \in RetryTargets :
    /\ store' = [i \in Items |->
                   IF i \in S
                     THEN [store[i] EXCEPT !.status = "pending", !.attempts = 0,
                                           !.wait = None, !.error = None]
                     ELSE store[i]]
    /\ gaveUp' = gaveUp \ S
    /\ tries' = [i \in Items |-> IF i \in S THEN 0 ELSE tries[i]]
    /\ UNCHANGED <<tmp, vault, pc, todo, outage, locals>>

\* A minute passes.  Not between a failure and its save, which waits seconds at
\* most for the state lock.
Tick ==
  /\ pc # "save"
  /\ store' = [i \in Items |-> [store[i] EXCEPT !.wait = Older(@)]]
  /\ UNCHANGED <<tmp, vault, gaveUp, pc, todo, outage, locals, tries>>

\* The steps of process_item.
ItemStep ==
  \/ Mark \/ MarkTimesOut
  \/ BeginDownload \/ Download \/ DownloadFails \/ DownloadFallback
  \/ CaptureText \/ CaptureFails
  \/ Extract \/ ExtractFails
  \/ CheckText \/ StreamPage \/ EmptyFallback \/ EmptyFails \/ StreamFails
  \/ Enrich \/ EnrichFails
  \/ WriteNote \/ WriteFails
  \/ Commit \/ CommitTimesOut
  \/ GenerateSkill \/ CleanUp
  \/ HandleOutage \/ HandleGiveUp \/ HandleRetryLater
  \/ Save \/ SaveTimesOut

PassStep == StartPass \/ EndPass \/ (\E i \in Items : PickUp(i)) \/ ItemStep

Next == PassStep \/ Crash \/ Retry \/ Tick

Spec == Init /\ [][Next]_vars

\* Passes are scheduled for ever (the nightly task, each webhook request), a
\* started pass runs on, and time passes.
Fairness == WF_vars(PassStep) /\ WF_vars(Tick)

FairSpec == Spec /\ Fairness
-------------------------------------------------------------------------------
\* Every variable holds what the code keeps in it, the record in memory at its
\* place in process_item included.
TypeOK ==
  /\ store \in [Items -> Records]
  /\ tmp \in [Items -> Artifacts]
  /\ vault \in [Items -> SUBSET Titles]
  /\ gaveUp \subseteq Items
  /\ pc \in {"idle", "pass", "mark", "work", "fetching", "check",
             "streaming", "commit", "skill", "clean", "handler", "save"}
  /\ todo \subseteq Items
  /\ outage \in BOOLEAN
  /\ cur \in Items \cup {None}
  /\ cur = None <=> pc \in {"idle", "pass"}
  /\ rec \in Records
  /\ text \in Contents \cup {"empty", None}
  /\ enriched \in Enrichments \cup {None}
  /\ exc \in Exceptions \cup {None}
  /\ stale \in Titles \cup {None}
  /\ tries \in [Items -> Int]

\* I3 of docs/formal-model.md: a failed item always has a time for its next
\* attempt, a settled one never has; in every state of state.json, whatever save
\* timed out or crash came between.
RetryWindow ==
  \A i \in Items :
    /\ store[i].status = "failed" => store[i].wait # None
    /\ store[i].status \in Terminal => store[i].wait = None

\* I4 of docs/formal-model.md: success clears the counter, the retry time and the
\* error; I6: only a done item names a skill.
SuccessResets ==
  \A i \in Items :
    /\ store[i].status = "done" =>
         store[i].attempts = 0 /\ store[i].wait = None /\ store[i].error = None
    /\ store[i].skill => store[i].status = "done"

\* The note a done item names is in the vault: the commit comes after the write,
\* and the cleanup of a replaced note never takes the current one.
DoneHasNote ==
  \A i \in Items : store[i].status = "done" => store[i].note \in vault[i]

\* The moment the pipeline gives up on an item always reaches needs-attention.txt
\* (worker.py:503-506), however often the same error was seen before and whatever
\* is killed around it.
GiveUpReported ==
  \A i \in Items : store[i].status = "failed_permanent" => i \in gaveUp

\* A note is written from one attempt's content: the enrichment that goes into it
\* was made from the transcript that goes into it, although each may come from a
\* cache of an attempt that died in a different place.
NoteMatchesText ==
  Working("writing_note") => enriched # None /\ enriched.of = text

\* An item given up for an empty transcript has no transcript in its cache, so
\* that the operator's retry really tries again (docstring of
\* _write_transcript_cache); an older one, kept by an attempt that died before its
\* stage was saved, included.
EmptyLeavesNoText ==
  \A i \in Items : store[i].error = "empty" => tmp[i].text = None

\* I5 of docs/formal-model.md, for an item no worker is busy with: at most one
\* note file carries its content_id.
OneNote ==
  \A i \in Items \ {cur} : \A a, b \in vault[i] : a = b

\* What is extracted is always a complete download, never what a failed or killed one
\* left in the directory.  Two things replace media that state.json still vouches for:
\* a sweep, and the page streamed after an empty transcript (StreamPage).
WholeMediaOnly ==
  Working("transcribing") => tmp[cur].media = "whole"

\* Proposition 5.1 of docs/formal-model.md: between two manual retries an item is
\* attempted at most MaxAttempts times, account outages apart.
BoundedAttempts ==
  \A i \in Items : tries[i] <= MaxAttempts

\* The proof of that proposition: every failure that is not the account's charges
\* the item one more attempt than state.json had.
FailuresAreCharged ==
  [][\A i \in Items :
       Save /\ cur = i /\ rec.status \in {"failed", "failed_permanent"}
         => \/ exc = "llm_account"
            \/ store'[i].attempts = store[i].attempts + 1]_vars

\* A dead provider account costs no item its budget (worker.py:471-478): an item is
\* given up for a failure waiting cannot cure, or after as many attempts as the
\* budget allows that ended otherwise than by an outage.
OutageIsHarmless ==
  \A i \in Items :
    store[i].status = "failed_permanent" =>
      IsTerminal(HandledAs(store[i].error)) \/ tries[i] >= MaxAttempts

\* Once the account is known to be dead, all the pass still saves is the failure
\* that said so: no other item is begun, charged or put back (worker.py:923-935).
OutageStopsPass ==
  [][outage /\ PassStep =>
       \A i \in Items :
         store'[i] # store[i] => i = cur /\ store'[i].status = "failed"]_vars

\* Every item is settled in the end: it becomes a note or is given up, and no
\* schedule of passes, delays and failures keeps it in between for ever.
EventuallySettled ==
  \A i \in Items :
    (store[i].status \notin Terminal) ~> (store[i].status \in Terminal)

\* The status, counter and retry-time columns behave as ItemLifecycle promises.
Lifecycle == INSTANCE ItemLifecycle WITH
  status <- [i \in Items |-> store[i].status],
  attempts <- [i \in Items |-> store[i].attempts],
  wait <- [i \in Items |-> store[i].wait]

\* Each step of the worker is a step of the published state machine of
\* docs/formal-model.md sections 4 and 5, or changes none of its columns.
ImplementsLifecycle == Lifecycle!Spec
-------------------------------------------------------------------------------
\* What the record in memory is allowed to be, by how far process_item has come:
\* the strengthening that makes the invariants above inductive.

\* An item a pass may still work on.
Open(r) == r.status \notin Terminal /\ r.wait \in {None, 0}

\* A record as the commit point leaves it.
DoneShape(r) ==
  r.status = "done" /\ r.attempts = 0 /\ r.wait = None /\ r.error = None

\* The counters a failure may be charged to: the saved one, or 0 after a note was
\* written (the reset precedes the save that may fail).
ChargedTo(r) == {r.attempts} \cup (IF r.status = "writing_note" THEN {0} ELSE {})

\* The three records the handler can produce from the saved one.
FailedShape(r, saved) ==
  /\ ~r.skill /\ r.error # None
  /\ \/ r.status = "failed" /\ r.attempts = saved.attempts /\ r.wait = Backoff[1]
     \/ \E a \in ChargedTo(saved) :
          /\ r.status = "failed" /\ a + 1 < MaxAttempts
          /\ r.attempts = a + 1 /\ r.wait = Delay(a + 1)
     \/ \E a \in ChargedTo(saved) :
          r.status = "failed_permanent" /\ r.attempts = a + 1 /\ r.wait = None

\* An enrichment behind the marker `enriched` is of the text beside it.
Matching(r, found) ==
  r.stage = "enriched" /\ found.enriched # None => found.enriched.of = found.text

\* Before the note: the record is the saved one but for status and stage, and what
\* has been produced is what the caches hold.
BeforeNote ==
  pc \in {"mark", "work", "fetching", "check", "streaming"} =>
    LET saved == store[cur] IN
    /\ Open(saved) /\ ~rec.skill
    /\ rec.attempts = saved.attempts /\ rec.wait = saved.wait /\ rec.error = saved.error
    /\ pc \in {"mark", "work", "fetching"} => rec.status \in InFlight
    /\ pc \in {"work", "fetching"} => saved.status = rec.status
    /\ pc = "fetching" => rec.status = "downloading"
    /\ pc = "check" => text # None
    /\ pc = "streaming" => text = "empty"
    /\ pc \in {"mark", "work", "fetching"} /\ rec.status \in {"downloading", "transcribing"} =>
         text = None /\ enriched = None
    /\ pc \in {"mark", "work"} /\ rec.status \in {"enriching", "writing_note"} =>
         text \in Contents
    /\ pc \in {"mark", "work"} /\ rec.status = "writing_note" => enriched # None
    /\ text # None => tmp[cur].text = IF text = "empty" THEN None ELSE text
    /\ enriched # None => tmp[cur].enriched = enriched /\ enriched.of = text
    /\ enriched = None /\ "enriched" \in {rec.stage, saved.stage} =>
         tmp[cur].enriched = None

\* From the note on, and in the handler.
AfterNote ==
  LET saved == store[cur] IN
  /\ pc = "commit" =>
       DoneShape(rec) /\ ~rec.skill /\ Open(saved) /\ saved.status = "writing_note"
  /\ pc \in {"skill", "clean"} => DoneShape(rec) /\ DoneShape(saved) /\ saved.note = rec.note
  /\ pc \in {"commit", "skill", "clean"} => rec.note \in vault[cur]
  /\ pc = "handler" =>
       /\ exc # None /\ ~rec.skill /\ Open(saved)
       /\ rec.attempts \in ChargedTo(saved)
       /\ exc = "llm_account" => rec.attempts = saved.attempts
       /\ exc = "empty" => tmp[cur].text = None
  /\ pc = "save" =>
       \/ DoneShape(rec) /\ DoneShape(saved) /\ rec.note \in vault[cur]
       \/ /\ Open(saved) /\ FailedShape(rec, saved)
          /\ rec.status = "failed_permanent" => cur \in gaveUp
          /\ rec.error = "empty" => rec.status = "failed_permanent" /\ tmp[cur].text = None

\* The record in memory fits the place the worker is at, the caches fit the
\* markers that vouch for them, and no pending item of the pass has been touched.
InMemory ==
  /\ BeforeNote /\ AfterNote
  /\ cur # None => Matching(rec, tmp[cur])
  /\ \A i \in Items :
       /\ Matching(store[i], tmp[i])
       /\ store[i].error = "empty" => store[i].status = "failed_permanent"
  /\ \A i \in todo : i # cur /\ Open(store[i])
===============================================================================
