# Verification of the Reel Knowledge Pipeline

The pipeline takes links to videos, posts and articles (and shared pictures or texts), downloads or
captures each one, turns it into text, enriches the text with a language model and writes one note
per item into an Obsidian vault. It runs unattended on one machine, as a webhook server and a set of
nightly tasks that share files and nothing else, and it must survive kills, dead providers and each
other. The TLA+ modules here model what decides whether an item is worked on, how often and by whom,
what is asked of other people's servers and how often, and what is left on disk when something goes
wrong.

Source paths are relative to `src/src/reel_pipeline/` unless they start with `scripts/` or `docs/`.

## 1. The system

| component | state it keeps | operations | hard about it | correct when |
|---|---|---|---|---|
| worker pipeline (`worker.py`) | `data/tmp/<id>/`, notes, skills, the record in memory | `run_once`, `process_item` (download, extract, enrich, note, skill, clean-up), the failure handler | a save may time out after each stage; a kill may come anywhere; caches of an attempt that died are reused | no item is lost, attempted too often, given up without saying so, or published from mixed caches |
| retry state machine (`models.py`, `worker.py`, `queue_manager.py`) | status, `attempt_count`, `next_retry_at` | charge, postpone, give up, outage, `retry` | budget and schedule of different lengths, failures after a success was recorded in memory | the published machine of `docs/formal-model.md` sections 4 and 5 |
| queue manager (`queue_manager.py`) | `state.json`, its lock, `queue.txt`, `needs-attention.txt`; per process: the parsed state, its stamp, rendered records | register, `update_record`, `reset_for_retry`, `get_actionable_items`, drain `queue.txt`, prune | a cache shared by reference, validated by a file stamp; unlocked reads; failed saves | the file is one table with atomic operations |
| webhook server (`webhook_server.py`) | two guards and two flags in memory | `POST /webhook`, background pass, background review chain | single flight with a "run again" flag, one thread per request | a request is followed by a pass that sees its item, and a note by a review |
| command line and start scripts (`cli.py`, `*.bat`) | none | `run-once`, `retry`, `organize-vault`, `comment-queue` | a process beside the server | no two passes share a record |
| recapture script (`scripts/recapture_carousels.py`) | a copy of the record | `process_item` on a done record, restore on failure | no run lock | as above |
| note writer (`obsidian_writer.py`), vault organizer (`vault_organizer.py`) | names and folders of notes | `write_note`, `organize_vault`, hubs | names are taken by title; notes move while others hold their paths | a record's note stays, and its path leads to it |
| review script (`scripts/review_new_reels.py`) | review blocks in notes, manifest | review, `write_review`, `rereview_delivered`, enqueue | writes back a text it read minutes before | nothing a note was given is lost for good |
| LLM client (`llm_client.py`) | time of the last call of each provider | `call_llm`, `describe_images`, `_throttle` | a waterfall of models inside tasks of several calls, with keys missing, rate limits and waits | no rung left out, no provider rushed, no endless wait |
| comment gate (`comment_gate.py`) | `comment_queue.json`, daily budget | enqueue, follow, comment, press, reply, poll, recheck, deliver | an outside effect that cannot be undone or asked for, and an answer that does not say whom it answers | never comments twice, never over budget, links reach the right note |
| downloader (`downloader.py`), text fetcher (`text_fetcher.py`) | files in `data/tmp/<id>/`, `attachments/` of the vault | ladders of sources | partial files of a source that broke off, refusals, names shared by documents | media is whole, a refusal is not gone round, attachments stay |
| enricher, image describer, transcriber, skill writer | none | the stages' calls | error classes | the class of the failure reaches the handler |
| validators, config, logging, ledger scripts | none, or reports | pure functions, single-shot reports | - | - |

They interact through files only. The webhook registers an item in `state.json` (through its own
queue manager) and starts a pass on a background thread; the nightly task starts one in a process of
its own. A pass takes the run lock, drains `queue.txt`, lists the actionable records and hands each
record object to `process_item`, which saves it before and after each stage under the state lock. The
review chain reads and rewrites the notes afterwards and queues the reels whose link a bot sends for a
comment; `comment-queue run` posts the comment, reads the answer and delivers its links: it registers
them like any other link and writes a section into the reel's note, which a later pass, after the
linked item is done, turns into wikilinks. An operator's `retry`, the recapture script and
`organize-vault` write records from yet other processes.

`PROJECT.json` lists the hazards this leads to, each at its line with the property that would catch it.

## 2. Plan

1. `ItemLifecycle`, `RetryTiming`: the retry state machine, what the worker promises of it. *Done.*
2. `Worker`: `process_item` and the pass loop, implementing `ItemLifecycle`. *Done.*
3. `Passes`: who runs passes, locks, guards and flags. *Done.*
4. `RecordStore`, `StateStore`: `state.json` as a table, and the cached, locked file that implements
   it. *Done.*
5. Proofs of the invariants of 1 to 4, of the history properties of 1 and 2, of both refinements, and of
   what the refinements carry over. *Done.*
6. `CommentGate`: the comment queue, from `enqueue` to delivery. *Done, proved.*
7. `LlmWaterfall`: the two waterfalls and the tasks that call them. *Done, proved.*
8. `MediaFetch`: the ladders of the downloader and the text fetcher. *Done, proved.*
9. `VaultNotes`: passes, reviews, organizer and delivery writing notes. *Done, proved.*
10. `Ingest` (`queue.txt`, `needs-attention.txt`) and `ReviewManifest`. *Dropped*: the code reads,
    changes and writes these files without a lock, so there is nothing it promises (section 7).

What is left beyond this plan is listed, with the reason, in section 7 and at the end of section 6.

## 3. Modules

### ItemLifecycle and RetryTiming

The abstract specification: three columns of `state.json` (`status`, `attempts`, `wait`) and one action
per kind of outcome - `Work` (an in-flight status is saved), `Finish` (DONE with a clean slate),
`Outage`, `Postpone`, `Exhaust`, `GiveUp` (the four branches of the failure handler), `Retry` (the
operator) and `Tick` (a minute passes). `wait` counts down to `next_retry_at` instead of comparing two
clock readings, which keeps the state space finite and loses nothing the code looks at. `ChargedTo`
holds the one surprise in the code: `attempt_count` is reset before the DONE save, so if that save
fails the failure is charged to 0 instead of the saved counter. `RetryTiming` adds a history variable,
the minutes since the first charged failure, to state that a budget is never spent early; the sum it is
measured by is written from the schedule (`Promised`) and not with the machine's own `Delay`, so that a
wrong clamp of the index would be seen.

### Worker

One pass over `state.json`. What survives a kill (`store`, `tmp`, `vault`, `gaveUp`) is kept apart from
what does not (`rec`, the record in memory; the locals `text`, `enriched`, `exc`, `stale`), and every
call of `update_record` is a step of its own that can time out on the state lock:

| in the code | in the module |
|---|---|
| `_run_once_locked`: sweep, list, loop, stop at outage | `StartPass`, `PickUp`, `EndPass` |
| `_cached_*_result` | `HasMedia`, `HasText`, `HasEnrichment`, used by `PickUp` |
| `update_record` before a stage | `Mark`, `MarkTimesOut` |
| downloading, page-text fallback, text links | `BeginDownload`, `Download`, `DownloadFails`, `DownloadFallback`, `CaptureText`, `CaptureFails` |
| transcription and image description | `Extract`, `ExtractFails` |
| empty transcript | `CheckText`, `StreamPage`, `EmptyFallback`, `EmptyFails`, `StreamFails` |
| enrichment | `Enrich`, `EnrichFails` |
| note, DONE save, skill, clean-up of what is replaced | `WriteNote`, `WriteFails`, `Commit`, `CommitTimesOut`, `GenerateSkill`, `CleanUp` |
| the `except` block | `HandleOutage`, `HandleGiveUp`, `HandleRetryLater` |
| the save after it | `Save`, `SaveTimesOut` |
| kill, `cli retry`, the clock | `Crash`, `Retry`, `Tick` |

Texts are model values, a note is its title (its file name), an exception is its class as far as the
handler and the fallbacks tell classes apart. `ShippedProviders` selects between the providers in the
repository, which re-raise every `LlmCallError` as a `RuntimeError` of their own, and any provider that
lets it pass (`EnrichmentProvider` in `worker.py` is a protocol). `tries` is a history variable.

### Passes

The processes that run passes: webhook threads with `_worker_lock`/`_rerun_requested` and
`_post_lock`/`_post_rerun`, nightly processes, and runs of the recapture script, with the run lock
between them. A pass takes an item in one step (`Begin`) and leaves it in another (`Finish`); what
happens in between is `Worker`. Each test and each set of a flag is a step of its own, so that threads
may interleave between them. `CrashServer` takes all threads and their in-memory guards; the operating
system releases the file lock.

### RecordStore and StateStore

`RecordStore` is what callers of `QueueManager` rely on: a table, and `Register`, `Update`, `Reset` and
`Repoint` (the paths of moved notes, all in one save) as atomic operations. `StateStore` is how it is done: one manager per pass, request or command, each with
`_cached_state`, `_cached_stamp` and `_record_json`; the unlocked read of `get_actionable_items`; the
record objects of a pass, which are objects of the cache for some records and no longer for others
after a reparse (`live`), so that changing one in memory may or may not change the cache; lock, load,
mutate, render, replace and unlock as separate steps; saves that fail before or after the texts are
rendered; managers that end anywhere. `MutateState` is `mutate_state`, whose caller changes several
records and which trusts no rendered text afterwards. `Store == INSTANCE RecordStore WITH db <- disk` is the refinement.

### CommentGate

`comment_gate.py` with what of the review script feeds it. The queue file (`disk`) is written whole; the
runner's copy (`q`) is what it acts on; `run` is where it is in `Runner`. The world is kept apart from
both: `posted` (our comments under a post), `sent` (keyword replies), `clicks` (of this budget day) and
`thread`, the messages of a creator, in which our comments are marked. `mark` is the place in it of the
reel's comment (`commented_at`), `marker` the last message seen before it (`dm_marker`).

| in the code | in the module |
|---|---|
| `enqueue`, `comment-queue link`, `rereview_delivered` | `Enqueue`, `HandOver`, `Rereview` |
| `comment-queue run` and `Runner.run`: load, act on what is due, poll, recheck, save, deliver | `StartRun`, `NextReel`, `EndActs`, `NextPoll`, `EndPolls`, `Recheck`, `EndRechecks`, `Save`, `Deliver` |
| `_act`: read the reel, one open reel a creator | `OpenReel`, `CreatorBusy` |
| `_follow`, `_comment`: write ahead, click, record the write, check | `Follow`, `Comment`, `Click`, `RecordWrite`, `CheckFollow`, `CheckComment` |
| `_poll_dm`, `_press_buttons`, `_reply_keyword`: button, keyword asked for, links, deadline | `Press`, `Reply`, `ReadAnswer`, `CheckAnswer`, `Wanted` |
| `_new_replies`, `_after_marker`: the messages that count | `Begin`, `Window`, `Windows` |
| `_own_window` | `OwnWindows` |
| `_fail`, the generic handler, `Halted`, `_recover` | `FailedBack`, `Failed`, `Raise`, `Halt`, `Recovered` |
| `write_wait`, `record_write`, `first_week`, `day_start` | `MayWrite`, `CommentCap`, `NewDay` |

A click and its record are two steps, with a crash or midnight possible between them. A link is the
place in the thread its message came at, so a link given to two reels can be told from two links. Whether the
page gives times, shows the marker, or opens the thread at all is free at every look, so a window begins at
the comment, up to two minutes before it, at the marker or at the first message. (The code looks once a poll
and after each of its writes; the module lets each step look anew, which only adds behaviours.)

### LlmWaterfall

One process calling models. `task` is what makes the calls (a description in batches, an enrichment,
a skill, a judgement that may be asked for twice, a night's filing in batches), `call` the call in
progress at a rung of a ladder. `PassOver` skips a rung without its key, `Throttle` and `Stamp` are
`_throttle`, `Limited` and `Again` the rate-limit loop (waiting on the last rung only), `Reply` has the
outcomes each provider's function can have (`Claude`, `Ollama`, ... `GeminiVision`), `Accept`, `Refuse`,
`RefuseAgain`, `Raise` and `End` are what the caller makes of them. `last` is `_last_call_at`; `asked`
and `slept` are history. Clocks count up to a provider's interval.

### MediaFetch

How a link's content is captured, for items taken one after the other. `at` is the source asked next,
`why` how the attempt came there (archive, fallback, second try, hop, what has been read and attached
so far), `dir` the media files in the item's directory, `files` the vault's attachments. `FirstSource`
is the dispatch of `worker.py`, `downloader.py` and `text_fetcher.py` over kinds of links; `RunGallery`
to `YtDlpEnds` are the downloader; `AskApi` to `Attached` the interfaces and what they save; `AskPage` to
`Lookup` the page, its embeds, streams and playlists, the browser and the archive. `FallsBack` is the
worker's page-text fallback, `NameFor` and `Attach` the choice of an attachment's name and its write.
What a site answers is free; the extraction of text, and which candidate of a page is tried, are data.

`refusal` is the set of those who have said no in the attempt, of five kinds: `"site"` is the last word
about the link (a downloader's, a post that is gone, a page's second 403 or its 401, 429, challenge or login
wall, an export's, a folder's or single file's), `"browser"` a first 403, after which `_open_stream` asks the
same URL again as a bot (`page_again`, `export_again`; for the parts of a stream both requests are in one
step), `"file"` one file of a folder, `"api"` GitHub's or Notion's interface, `"embed"` something embedded in
a page. No action reads it: the guards are the code's, and `MayAsk` says what they leave open after each kind.

### VaultNotes

The files of the vault and everyone who writes them, as processes of their own: a pass (`pass`),
reviewers (`review`), `organize-vault` (`org`), the delivery of links (`hand`); the owner retitles notes and
sorts them into folders. The server frees its worker lock before it starts the chain of review and
`organize-vault` (webhook_server.py:212-213), and the nightly tasks and `comment-queue run` come when they
come, so any of them may be at work beside any other. Only two locks keep them apart, and each module guard
is one of them: `RunLockFree` (a pass holds the run lock from beginning to end, a delivery and a review only
to write) and `StateLockFree` (`organize-vault` holds the lock of `state.json` from beginning to end, the
others for one save). Each process holds copies: of a path, a text, or the records read from `state.json`
(`mem`).

| in the code | in the module |
|---|---|
| `note_filename`, `find_note` | `NoteFilename`, `FoundNotes`, `ReviewPath` |
| `process_item` from the note on: write, DONE save, clean-up of the note before, last save | `WriteNote`, `SaveDone`, `CleanUp`, `SaveLast` |
| the DONE save times out, and the handler saves the record with its new path | `SaveTimesOut`, `SaveFailed` |
| the end of a pass: links if it has finished something | `LinkChildren`, `EndPass` |
| review: read `state.json`, read a note, judge, write it back, tell the queue | `StartReviews`, `ReadNote`/`ReadDelivered`, `WriteReview`, `ReviewFails`, `ReviewKilled` |
| `organize_vault` under `mutate_state` | `StartOrganize`, `Rename`, `SaveRenamed` |
| `deliver` and the save of its caller | `StartDelivery`, `ReadReel`, `WriteSection`, `SaveQueue` |
| kills and later time-outs | `PassFails`, `OrganizeFails`, `DeliveryKilled` |

`lost` is history: the records whose last note a text written back (`WriteBack`) or a clean-up has taken.

### MC modules

`MCWorker`, `MCRetryTiming`, `MCStateStore`, `MCCommentGate`, `MCLlmWaterfall`, `MCMediaFetch` and
`MCVaultNotes` hold the sequences, functions and symmetry sets a `.cfg` cannot write. The `...Proofs`
modules are section 6.

## 4. What the runs check

| run | checks | instance and why it is enough |
|---|---|---|
| `RetryTiming` | `GiveUpTakesTime` | two items (a manual retry of one or of both); budget 5 against an unequal, non-monotone schedule of 3, so the clamped index is used twice |
| `WorkerAll` | `TypeOK`, `RetryWindow`, `DoneHasNote`, `GiveUpReported`, `NoteMatchesText`, `EmptyLeavesNoText`, `ImplementsLifecycle` | one item, all failures, lock timeouts, crashes and sweeps; two texts and two titles, the least that tells an old cache from a new one; budget 3, schedule 2. Items meet only in the pass loop, which `WorkerCrash` covers |
| `WorkerCrash` | `OneNote`, `WholeMediaOnly`, `OutageIsHarmless`, `OutageStopsPass` | two items in one pass, transient failures, account outages and crashes, two titles, budget 2; items and titles are symmetric. Lock timeouts, sweeps and empty transcripts are left out because of section 5 |
| `WorkerSettles` | `BoundedAttempts`, `FailuresAreCharged`, `EventuallySettled` | one item and every failure that is the item's own, shipped providers, with fairness |
| `PassesLocks` | `TypeOK`, `PassesExclude`, `SnapshotFresh`, `Drained`, `Followed` | two requests and a nightly process that never stops, two items, two failures (of an attempt, a pass or a process) anywhere, lock timeouts |
| `PassesFlag` | `FlagsServed` | three requests (one runs, one sets the flag, one comes after) and a script, no nightly process: the flag alone must do it. Threads end, so the system may stop: deadlock is not checked |
| `StateStore` | `TypeOK`, `MutatesCurrent`, `ImplementsRecordStore` | a pass that goes on and two requests that come and go, two records with four values, five writes: two before, one between and two after a stale read |
| `CommentGate` | `TypeOK`, `SentOnce`, `OneThread`, `BudgetKept` | two reels of one creator, whose answers share a thread, two attempts each, one error, halt or kill anywhere, one comment and two writes a day, one press, one recheck: 11.9 million states. Creators do not meet except in the budget, which the two reels also compete for |
| `LlmWaterfall` | `TypeOK`, `GivenUpAfterAll`, `NoStall`, `CallsSpaced`, `EveryTaskEnds` | the kinds of provider of the shipped ladders, one twice in a row, one hosted rung without its key, local rungs last, three intervals and `Retry-After` at, above and far below the limit; tasks of up to two calls follow each other without end |
| `MediaFetch` | `TypeOK`, `NothingAfterNo`, `WholeMedia`, `AttachmentsKept` | one item with each kind of link, one with a Drive file, two documents under one name, two attempts, two embeds or files of a folder, kills anywhere: 7.0 million states. Every source has a rung before and after it in some link's ladder. Items are few, so the system stops when they are settled: deadlock is not checked |
| `VaultNotes` | `TypeOK`, `NotesKept`, `LinksReachNote` | a reel and its linked item with the same title, so their names collide; two folders, one reviewer, one edit of the owner and one fault anywhere: enough to move a note and give its name away while a text is held, and for both ways of section 5 in which a note is lost: 0.55 million states. With two faults it holds too (1.4 million states, four minutes) |
| `WorkerOutageShipped` | `OutageIsHarmless`, violated | see section 5 |

`CommentGate` does not check deadlock: when all reels are settled and nobody writes, nothing is left to
do. Every bound is a constant: `MaxAttempts`, `Backoff`, `MaxFailures`, `MaxWrites`, `MaxFaults`,
`MaxMessages`, `MaxEdits`, `MaxParts`, `MaxBatches`, `Suffixes`, and the sets of items, threads, texts and
titles. `tries` stops counting one above `MaxAttempts`, `since` at the sum the property is about. Values
are model values; `PROJECT.json` names for every property a mutant of the code's definition that the run
then finds (the definitions marked `mutant of` in the modules).

**Fairness.** `Worker!FairSpec` has weak fairness of the pass (the nightly task and each request start
one again and again, and a started pass runs on) and of the clock. Nothing forces `Crash`, `Retry` or
any failure to happen or not to happen. `Passes!FairSpec` has weak fairness of every thread and nightly
process (the operating system runs them; the nightly task is scheduled for ever) and of the retry time.
Nobody has to send a request, and a waiter for the run lock needs no more than weak fairness of its
process because it polls until it gets the lock or times out. `LlmWaterfall!FairSpec` has weak fairness
of a task that was begun (requests have a timeout) and of time; nobody has to begin one. In
`VaultNotes!FairSpec` a started pass goes on and one is started every night (weak fairness of `Pass`),
`organize-vault` ends, and the delivery goes on. Strong fairness says that a save, tried for five seconds
each time, gets the state lock some time (`Save`), that the delivery, tried every day and waiting ten minutes
for the run lock, gets it some time (`ReadReel`), and that now and then a pass finishes a record, if only one
the module does not speak of (`LinkChildren`): links are written by such passes only, so a link that is
lost to a review waits for the next item. Nothing is assumed of reviews, which may fail for ever. `StateStore`, `CommentGate` and `MediaFetch` have no fairness: in the last two
everything waits for other people.

## 5. Where the code departs from what it says

Found while modelling. The first has a run that shows the shortest way there; the others are described
here, and the runs leave out the fault that leads to them where it would hide everything else.

**Worker, retries, passes**

- **An account outage is charged after all** (`WorkerOutageShipped`). The handler tests for
  `LlmCallError`, but `enricher.py:101-102` and `image_describer.py:195-196` have made it a
  `RuntimeError` by then, so the branch that spares the item (worker.py:471-481) is never taken.
  With a provider that lets the error pass, `WorkerCrash` shows that the branch itself is right.
- Two notes for one item, against I5 of `docs/formal-model.md`: if both saves after the note time out,
  the record never learns its name. `OneNote` is checked without lock timeouts.
- A partial download taken for a whole one, against the comment at downloader.py:113-116: the marker
  `downloaded` outlives media the sweep has deleted.
- Torn media transcribed as the item's own, against "confirmed finished and safe to skip on retry"
  (models.py:36-41): after an empty transcript the page is fetched with the item's `content_id`
  (worker.py:385, 590), and a page that is or embeds a media file empties the item's directory and is
  streamed into it (text_fetcher.py:1801-1821) under the marker `downloaded`. Killed there, the next
  attempt takes the torn file for the download (`StreamPage`, `Crash`, `Extract`; one item with `"empty"`
  and `"crash"` in `Faults` is enough for TLC to show it). `WholeMediaOnly` is checked without sweeps
  and without empty transcripts; `WorkerAll` has both.
- A request nobody serves, against webhook_server.py:181-183: it comes between the last look at the
  flag and the release of the guard. `PassesLocks` shows that the nightly task makes up for it,
  `PassesFlag` that there is no other such window. The review chain has the same one at
  webhook_server.py:256-259.
- Two workers on one record, against `docs/formal-model.md:372-373`: the recapture script takes no run
  lock. `PassesExclude` excludes scripts.
- An attempt that ends with the process is not charged (only the handler counts), against
  Proposition 5.1 (`docs/formal-model.md:226-227`). `BoundedAttempts` is therefore checked without
  crashes.
- A lock timeout at the DONE save is charged to a counter already set to 0, against
  `docs/formal-model.md:230`. It is in `ChargedTo`, and `FailuresAreCharged` is checked without lock
  timeouts.
- A text link that turned out to be media is downloaded again after a failed extraction, although
  marker and media are there, against `docs/formal-model.md:280-283`.

**Comment gate**

- A save that fails after `_comment` has set COMMENTED or VERIFY_COMMENT in memory reaches the generic
  handler with neither status COMMENTING, so the reel goes back to its prior status and is commented on
  again, against the comment "never retry" at comment_gate.py:630. `SentOnce` is checked without failing
  saves (`"save"` in `Faults` shows it).
- A comment that was possibly posted at the last attempt ends as FAILED and its answer is never read.
- A click that dies before it is recorded is not in the budget (`lost` in `BudgetKept`).
- A link handed over while a review is written is marked REREVIEWED although the review has not seen it.
- A link sent for one reel can be delivered to a later reel of the creator too: when the messages bear no times
  and there is no marker of the comment (the thread could not be opened before it, comment_gate.py:683-688, or
  the page no longer shows it), `_new_replies` takes the whole thread (comment_gate.py:475-494); when they do,
  the two minutes before the comment. `OneThread` therefore speaks of links that came after both comments;
  that no link at all is shared is violated in a few steps.
- A record in VERIFY_COMMENT has no `commented_at`, so the window of an earlier reel of the creator may
  take its answers; `OneThread` speaks of comments seen to succeed.
- A hand-over killed between the note and the queue leaves the note ahead of the record (it is repeated).
- The design document says that the first visit fills in the keyword of a `needs-keyword` record
  (`docs/superpowers/specs/2026-09-26-comment-gated-links-design.md:67-70`); no run ever visits one.

**LLM client**

- Shares are to be kept local (enricher.py:99), but `describe_images` knows no such flag, and the judge
  and the filing of notes send the notes made of them to the hosted ladder.
- A reply with status 200 that is not JSON raises a `ValueError` that leaves the waterfall at once.
- The retries of a limited request are neither stamped nor spaced, hence `CallsSpaced` speaks of first
  requests.
- A last rung without a key makes the missing credential the error that is reported, and no rung ever
  waits for a rate limit, because only the last one does.

**Downloader and text fetcher**

- Two files of the same name in one Drive folder, when a third document has the plain name already, are
  both written to `<id>-<name>`: only the first name is looked at (text_fetcher.py:916).
  Both end in one note, which then has one of them twice; `AttachmentsKept` speaks of notes already written.
- A document with the same bytes is written over in place (text_fetcher.py:920), so a kill leaves the
  attachment of an earlier note torn; `AttachmentsKept` allows exactly that.
- When yt-dlp finds no media after gallery-dl did not either, the class of the error is lost and the
  page's text is taken on the last attempt only.

**Notes**

- **A finished note is overwritten by an older text.** A review looks up a path and reads the note, judges
  for minutes, and writes the whole text back without looking at what is there (review_new_reels.py:1544,
  1566-1573). Meanwhile the owner or `organize-vault` may move that note, and a pass, which runs beside
  the review when the next request comes (webhook_server.py:212-213), may give the name to another record
  and save that one as done: its note is then gone, and nothing makes it anew. A delivery does the same in a
  narrower window (comment_gate.py:1210-1212), when `organize-vault` or the owner moves the note between
  its two lines and another rename takes the name.
- **A finished note is removed as another's old one.** When the DONE save times out, the handler saves the
  record with the path of the note it has written (worker.py:417, 529). Move that note, let another record
  take the name, and the next attempt, which gets another name, removes what is at the old path
  (worker.py:764-777) without looking whose it is.
  `NotesKept` therefore speaks of all records but those in `lost`, which these two put there; without the
  exception TLC finds it violated.
- `find_note` (comment_gate.py:1165) and the review trust `note_path` without looking at `content_id`,
  although the organizer's comment (vault_organizer.py:46-60) describes that it may lead to another
  record's note: sort a note by hand, let a note of the same title take the name, and links and reviews go
  to the wrong one. `LinksReachNote` assumes this away (`Trusted`), and that neither note is lost.
- The last save of an attempt, after the skill was made, writes the path the note had before
  (worker.py:529): when `organize-vault` has renamed it in between, `state.json` leads nowhere.
- A link is written by a pass only if that pass finished something (worker.py:937): one that is lost to a
  review's old text, or whose pass was killed before it, waits for the next item of whatever kind.
- `note_filename` takes a file without `content_id` for free: a note written by hand under that name is
  overwritten.
- A rename that fails half-way through `organize_vault` leaves the notes renamed before it under their
  old paths in `state.json`, for good: the organizer skips paths that are not files. `find_note` still finds
  them.
- A review writes back the text it read before judging: a section delivered meanwhile is gone until the
  linked item is done and `link_children` writes it anew, and a note moved meanwhile is there twice.
- `deliver` reads the records and then waits up to ten minutes for the run lock (comment_gate.py:1199).

## 6. What is proved

All with TLAPS, for every number of items, processes and managers, every budget, schedule and ladder,
every set of faults, with no bound on the length of a behaviour other than `MaxFailures`, `MaxWrites`,
`MaxFaults` and their like, which are arbitrary. Where a property holds under some faults only (section
5), the theorem says which: one fault is excluded in `CommentGateProofs`, and up to two in each of the
history properties of `WorkerProofs`. Assumptions are the named `ASSUME`s of the modules: a budget of at
least one, a schedule of at least one delay (config.py requires both), kinds of process that do not
overlap, and values that are distinct.

- **ItemLifecycleProofs.** `TypeOK` (which bounds the counters by the budget), `RetryWindow`,
  `BudgetLeft` and `Settled`. The first three together are inductive: the retry window needs the
  types, the bound on the counter needs that an actionable item has an attempt left.
  On them rests `GiveUpTakesTime`, of `RetryTiming`. Its invariant `InTime` says that an item with `a`
  charged failures and `w` minutes still to wait has been at it for at least `DelaySum[a]` less `w`
  minutes; the clock stops at the whole sum, which no `DelaySum` exceeds, and an outage or an interrupted
  attempt only adds to the minutes. A recursive function is, by definition, some function that satisfies
  the equation, so `DelaySumAdds` and `DelaySumGrows` rest on a proof that there is one (`SumsExist`), by
  induction over the length of the schedule; `DelayAsPromised` is where the machine's index meets the
  schedule. The induction (`Induction`) is about a set of numbers, and
  comes from the library's theorem that `<` on `Nat` is well founded.
- **WorkerProofs.** `TypeOK`, `RetryWindow`, `SuccessResets`, `DoneHasNote`, `GiveUpReported`,
  `EmptyLeavesNoText` and `NoteMatchesText`. None is inductive: what is saved is the record in memory,
  so the invariant has to say what that record can be at each step of `process_item`. `BeforeNote`
  says that up to the note it is the saved record but for status and stage, and that the locals are
  what the caches hold; `AfterNote` lists the record of the commit point and the three records the
  handler can make; `Matching` says that an enrichment behind the marker `enriched` is of the
  transcript beside it, for the saved and for the remembered marker alike, which is why each `Keep`
  and each `tmp` write needs its case. The step lemmas are one per action of `Next`.
  On this invariant rests `ImplementsLifecycle` (a save is `Work`, `Finish` or one of the three outcomes,
  by what `BeforeNote` and `FailedShape` say of the record saved). The refinement is used: `Promises`
  is `ItemLifecycleProofs` with the columns of `store`, and its theorems hold of the worker. `SettledHolds`
  needs nothing more. For `GiveUpTakesTimeHolds` the worker gets a clock beside it (`Clocked`), a history
  variable that is read off each step and constrains none; worker and clock are then `RetryTiming` (`Timed`),
  and so the schedule is waited out by process_item itself, wherever it is killed and whatever
  saves time out, for every set of faults.
  Six properties look back further, each with an invariant of its own:

  | theorem | faults excluded | invariant |
  | --- | --- | --- |
  | `OneNoteHolds` | lock timeout, sweep | `Filed`: an item with a note that is not done has the enrichment the note was made from in its cache, behind the marker, and goes straight to writing it again (`Rewriting`) |
  | `WholeMediaOnlyHolds` | sweep, empty transcript | `Vouched`: who says `downloaded` or more has the whole media or a text; `Fetching`: while a download may be under way, nobody says so |
  | `OutageIsHarmlessHolds` | shipped providers | `Charged`: the counter is never ahead of the attempts that no outage ended |
  | `BoundedAttemptsHolds` | crash, lock timeout | `Tried`: no more attempts were begun than were charged, and the one under way |
  | `FailuresAreChargedHolds` | lock timeout | `Counting`: a failure is charged to the saved counter, not to the one a written note has reset |
  | `OutageStopsPassHolds` | none | `Stopping`: after an outage the worker only saves that failure and ends the pass |
- **PassesProofs.** `TypeOK`, `LocksHeld` and `PassesExclude` for any scripts; `OneWorker` and
  `SnapshotFresh` when there are none (section 5: the recapture
  script takes no run lock). The invariant adds to the locks
  that only a process at its place has an item or a list. `SnapshotFresh` needs more: the lists of
  processes and the items they hold are apart, because only one process is in a pass.
  `RequestsKept` is the part of `FlagsServed` that is safety: a request that sets a flag before the loop's
  last look at it stays with that loop until the loop takes it up, and only the end of the server
  takes it away (that the loop gets there is liveness, and stays with the run).
- **StateStoreProofs.** `TypeOK`, `MutatesCurrent`, `CacheIsFile`, and the refinement
  `Spec => ImplementsRecordStore`. The invariant (`Coherent`) speaks of one manager at a time: `Owns`
  ties its operation, its record in hand and the lock together; `Knows` says what its cache is worth -
  if its stamp is the file's, it agrees with the file except for the record in hand (`AgreesBut`), and
  once it has mutated it is exactly one operation of the table away from it (`Pending`). A write of
  another manager cannot break this, because whoever has not the lock then only knows an older stamp
  (`OthersCoherent`); so each action is checked for the one manager that moves (`OneMoves`).
  `RecordsKept` follows from the refinement: no registered record is ever missing from the file again,
  and two records change in one save only when both are registered or both started over.

- **CommentGateProofs.** `TypeOK`, `SentOnce`, `OneThread`, `BudgetKept`, each for a queue file that can
  be saved and a first week of at least a day: the theorems say so. The queue exists twice, and the argument is
  the same for both copies: `QueueOK` says of every record that nothing was posted while it is still to be
  acted on and that it has no links before its comment (`ItemOK`), and of every two of a creator that an
  open one is the newest (`Newest`) and that earlier ones have no links from after a later comment
  (`Ordered`). `Agree` says in what the copies may not differ; `ActOK`, `PollOK`, `ClickOK` and `Recorded` what
  is known of the record in hand at each step, above all that the write-ahead status is on disk before the
  click. A step puts at most one record into a copy, so each action needs little more than the new
  record's properties.
- **LlmWaterfallProofs.** `TypeOK`, `GivenUpAfterAll`, `CallsSpaced`, `NoStall`. `Climbed`: what was tried is exactly the
  rungs with a key below the present one; `Paced`: the stamps are the times of the requests, and who
  sleeps sleeps long enough. `NoStall` has an invariant of its own, `Rested`: what a call has slept, and the
  rest of its sleep, stays within the spacing of the rungs so far (`Spent`), and only on the last rung one
  longest wait for each retry may be added (`Waits`); the spacing of a ladder is a recursive function,
  treated as in `ItemLifecycleProofs`. One assumption is a fact of arithmetic the provers lack: that
  powers of 2 are natural numbers.
- **MediaFetchProofs.** `TypeOK`, `NothingAfterNo`, `WholeMedia`, `AttachmentsKept`. `NoHolds` says
  where an attempt can be after each kind of no: after the last one at its end, after a file's at the
  folder's other files, after an interface's or an embed's outside of any folder and of the direct sources,
  and with an embed still on the way (`hop`) or its page read as a fallback; a step keeps it if it `Leads`
  where the noes before it allow. `Clean` says what may lie in the directory while each source
  is at work; `Named` that the common name, once some note embeds it, has that document or a torn one, and
  that other names belong to one item. Most actions only choose the next source, for which
  `OnwardKeeps` and `QuietKeeps` suffice.
- **VaultNotesProofs.** `TypeOK`, `NotesKept`, for any number of reviewers and with no more said of the
  processes than the two locks say. A note goes to a name that is free or its record's own (`NameIsFree`), so
  new notes and renames take nobody's place (`WriteKeeps`, `MoveKeeps`); a text that is written back takes the
  place of what is there, and `WriteBackKeeps` says that exactly the records whose only note that was are
  lost. The invariant carries the note of the record at work from its write to its saves (`Written`), and
  that the organizer's list is still that of `state.json` (`Organized`).

Only model-checked: liveness (`EventuallySettled`, `Drained`, `Followed`, `FlagsServed`, `EveryTaskEnds`,
`LinksReachNote`), which the prover's backends do not reach. Every other property the passing runs check
is a theorem. The invariants of `ItemLifecycle`, and `SuccessResets`, `LocksHeld`, `OneWorker` and `CacheIsFile`,
are proved and have no run of their own; nor have `RequestsKept`, `RecordsKept` and the worker's
`GiveUpTakesTimeHolds` and `SettledHolds`, which say more of what `FlagsServed`, `ImplementsRecordStore` and
`ImplementsLifecycle` check.

## 7. What the models assume, and what is not modelled

- `StateStore` takes the stamp (modification time and size) of two different writes to differ. A
  writer that changes `state.json` in the same clock tick to the same size would not be noticed.
- `os.replace` is atomic, and the operating system releases a dead process's file lock.
- `Worker` runs alone but for `retry`; that passes exclude each other is `Passes`' business, that a
  save touches no other record is `StateStore`'s. A `retry` in the middle of an attempt of the same
  item cannot happen, because the item is not in `failed_permanent` then.
- No minute passes between a failure and its save (`Tick`): the save waits for the lock for seconds.
- The tmp sweep is a loss of an item's directory at the start of a pass, whatever its age.
- In `VaultNotes` the choice of a name and the write under it are one step, as are the reading of two notes
  and the write of a link, and the two look-ups and the rename of one note: milliseconds of a process that
  holds a lock, in which only one that does not hold it (`organize-vault` for the run lock, the owner) could
  come between, and then take the same name: `NotesKept` would not hold. Records that are done stay done; what `retry` and the recapture script do is not in it.
- In `CommentGate` one `comment-queue run` is at work at a time (it holds the queue's lock), the hours of
  pacing within a day are left out, and what the page shows is free: a comment may be visible or not
  whether or not it was posted.
- In `MediaFetch` a site may answer anything at any time; that the proxy setting may turn a request away
  is not modelled, nor the extraction of text from formats (`document_text.py`). The page fetched after an
  empty transcript (`worker.py:385`), into the directory of media that is already vouched for, is
  `Worker`'s `StreamPage`, not an attempt of this model.
- Not modelled because the code makes no promise: `queue.txt` and the pruning of `needs-attention.txt`
  (read, changed and written back without a lock; a line appended in between is lost), the review
  manifest (each process saves the one it loaded).
- Not modelled because they only append or report: the hubs of `auto_hub`, `find_duplicate_notes`, the queue
  page, `loop_digest`, `recheck_links`, `vet_repos`. Not modelled because there is no state in them:
  `validators.py`, prompts, parsing and rendering, `config.py`, `logging_setup.py`.
- Of the recapture script only that it processes records beside the passes; its restore of a record and
  the move of the note are left out.

## 8. Running it

`tlc -config WorkerCrash.cfg MCWorker.tla` (the module of each run is in `PROJECT.json`) and
`tlapm WorkerProofs.tla`. Each run takes less than two minutes with two workers, each proof module a few
minutes at most.
