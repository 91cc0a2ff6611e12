----------------------------- MODULE WorkerProofs -----------------------------
(***************************************************************************)
(* The invariants of the worker, that it implements ItemLifecycle and keeps *)
(* what is proved of that and of RetryTiming, and what it promises over     *)
(* several attempts, for every set of items, retry setting and selection of *)
(* faults, but for the faults a theorem says it excludes.                   *)
(***************************************************************************)
EXTENDS Worker, TLAPS

\* The invariants of state.json and its artifacts are inductive only together
\* with what the record in memory may be (InMemory).
DurableOK ==
  RetryWindow /\ SuccessResets /\ DoneHasNote /\ GiveUpReported /\ EmptyLeavesNoText

IInv == TypeOK /\ DurableOK /\ InMemory

\* The schedule has a delay for every charged failure (worker.py:490).
LEMMA DelayIsNat == \A a \in Nat \ {0} : Delay(a) \in Nat
BY WorkerAssumption DEF Delay

\* The shortest step of the schedule exists (worker.py:480).
LEMMA FirstDelayIsNat == Backoff[1] \in Nat
BY WorkerAssumption

\* Time passing keeps a retry time a retry time, and an unset one unset.
LEMMA OlderType ==
  \A w \in Nat \cup {None} :
    /\ Older(w) \in Nat \cup {None}
    /\ Older(w) = None <=> w = None
    /\ w \in {None, 0} => Older(w) = w
BY WorkerAssumption DEF Older

\* An item in process_item has a record of the declared type.
LEMMA CurrentItem ==
  ASSUME TypeOK, pc \notin {"idle", "pass"}
  PROVE  cur \in Items /\ cur # None /\ store[cur] \in Records /\ tmp[cur] \in Artifacts
BY DEF TypeOK

USE DEF InFlight, Terminal, Statuses, Stages, Exceptions

\* A new record has the declared type.
LEMMA NewRecordType ==
  ASSUME NEW kind \in {"media", "text"}, NEW status \in Statuses, NEW stage \in Stages
  PROVE  NewRecord(kind, status, stage) \in Records
BY DEF NewRecord, Records

LEMMA IdleType == Idle \in Records
BY NewRecordType DEF Idle

\* What registration writes is well formed, unfailed and not yet enriched
\* (queue_manager.py add_share, _register).
LEMMA RegistrationType ==
  ASSUME NEW reg \in Registrations
  PROVE  /\ reg[1] \in Records /\ reg[2] \in Artifacts
         /\ reg[1].status \in {"pending", "blocked"} /\ reg[1].wait = None
         /\ reg[1].error = None /\ ~reg[1].skill /\ reg[1].stage # "enriched"
<1>1. CASE \E kind \in {"media", "text"}, status \in {"pending", "blocked"} :
             reg = <<NewRecord(kind, status, "none"), NoArtifacts>>
  <2>1. PICK kind \in {"media", "text"}, status \in {"pending", "blocked"} :
               reg = <<NewRecord(kind, status, "none"), NoArtifacts>>
    BY <1>1
  <2>2. reg[1] \in Records
    BY <2>1, NewRecordType
  <2> QED
    BY <2>1, <2>2 DEF NewRecord, NoArtifacts, Artifacts
<1>2. CASE reg = <<NewRecord("media", "pending", "downloaded"),
                   [NoArtifacts EXCEPT !.media = "whole"]>>
  <2>1. reg[1] \in Records
    BY <1>2, NewRecordType
  <2> QED
    BY <1>2, <2>1 DEF NewRecord, NoArtifacts, Artifacts
<1>3. CASE \E c \in Contents :
             reg = <<NewRecord("text", "pending", "transcribed"),
                     [NoArtifacts EXCEPT !.text = c]>>
  <2>1. PICK c \in Contents : reg = <<NewRecord("text", "pending", "transcribed"),
                                      [NoArtifacts EXCEPT !.text = c]>>
    BY <1>3
  <2>2. reg[1] \in Records
    BY <2>1, NewRecordType
  <2> QED
    BY <2>1, <2>2 DEF NewRecord, NoArtifacts, Artifacts
<1> QED
  BY <1>1, <1>2, <1>3 DEF Registrations

LEMMA InitIInv == Init => IInv
<1> SUFFICES ASSUME Init PROVE IInv
  OBVIOUS
<1>1. PICK reg \in [Items -> Registrations] :
        /\ store = [i \in Items |-> reg[i][1]]
        /\ tmp = [i \in Items |-> reg[i][2]]
  BY DEF Init
<1>2. \A i \in Items : reg[i][1] \in Records /\ reg[i][2] \in Artifacts
  BY RegistrationType
<1>3. \A i \in Items :
        /\ reg[i][1].status \in {"pending", "blocked"} /\ reg[i][1].wait = None
        /\ reg[i][1].error = None /\ ~reg[i][1].skill
        /\ reg[i][1].stage # "enriched"
  BY RegistrationType
<1>4. TypeOK
  <2>1. store \in [Items -> Records] /\ tmp \in [Items -> Artifacts]
    BY <1>1, <1>2
  <2>2. tries \in [Items -> Int] /\ vault \in [Items -> SUBSET Titles]
    BY DEF Init
  <2> QED
    BY <2>1, <2>2, IdleType DEF Init, TypeOK
<1>5. DurableOK
  BY <1>1, <1>3, WorkerAssumption
  DEF DurableOK, RetryWindow, SuccessResets, DoneHasNote, GiveUpReported, EmptyLeavesNoText
<1>6. InMemory
  BY <1>1, <1>3, WorkerAssumption DEF Init, InMemory, BeforeNote, AfterNote, Matching
<1> QED
  BY <1>4, <1>5, <1>6 DEF IInv
-------------------------------------------------------------------------------
\* Leaving process_item, whatever happens to state.json.
LEMMA ReleaseType ==
  ASSUME Release
  PROVE  /\ cur' = None /\ rec' \in Records
         /\ text' \in Contents \cup {"empty", None}
         /\ enriched' \in Enrichments \cup {None}
         /\ exc' \in Exceptions \cup {None} /\ stale' \in Titles \cup {None}
BY IdleType DEF Release

LEMMA StepStartPass == IInv /\ StartPass => IInv'
<1> SUFFICES ASSUME IInv, StartPass PROVE IInv'
  OBVIOUS
<1>1. PICK swept \in SUBSET Items :
        tmp' = [i \in Items |-> IF i \in swept THEN NoArtifacts ELSE tmp[i]]
  BY DEF StartPass
<1>2. TypeOK'
  BY <1>1, WorkerAssumption
  DEF IInv, StartPass, TypeOK, Actionable, NoArtifacts, Artifacts, locals
<1>3. DurableOK'
  BY <1>1 DEF IInv, StartPass, NoArtifacts, DurableOK, RetryWindow, SuccessResets,
              DoneHasNote, GiveUpReported, EmptyLeavesNoText
<1>4. InMemory'
  BY <1>1, <1>2, WorkerAssumption DEF IInv, StartPass, NoArtifacts, TypeOK, InMemory, BeforeNote,
     AfterNote, Matching, Open, Actionable, locals
<1> QED
  BY <1>2, <1>3, <1>4 DEF IInv

LEMMA StepEndPass == IInv /\ EndPass => IInv'
<1> SUFFICES ASSUME IInv, EndPass PROVE IInv'
  OBVIOUS
<1>1. TypeOK'
  BY DEF IInv, EndPass, durable, locals, TypeOK
<1>2. DurableOK'
  BY DEF IInv, EndPass, durable, DurableOK, RetryWindow, SuccessResets, DoneHasNote,
         GiveUpReported, EmptyLeavesNoText
<1>3. InMemory'
  BY DEF IInv, TypeOK, EndPass, durable, locals, InMemory, BeforeNote, AfterNote, Matching
<1> QED
  BY <1>1, <1>2, <1>3 DEF IInv

\* A killed or aborted pass leaves the files as they were.
LEMMA StepCrash ==
  ASSUME IInv, Release, pc' = "idle", todo' = {}, outage' = FALSE, UNCHANGED <<durable, tries>>
  PROVE  IInv'
<1>1. TypeOK'
  BY ReleaseType DEF IInv, TypeOK, durable
<1>2. DurableOK'
  BY DEF IInv, durable, DurableOK, RetryWindow, SuccessResets, DoneHasNote, GiveUpReported,
         EmptyLeavesNoText
<1>3. InMemory'
  BY DEF IInv, durable, Release, InMemory, BeforeNote, AfterNote, Matching
<1> QED
  BY <1>1, <1>2, <1>3 DEF IInv

LEMMA StepPickUp == ASSUME NEW i \in Items PROVE IInv /\ PickUp(i) => IInv'
<1> SUFFICES ASSUME IInv, PickUp(i) PROVE IInv'
  OBVIOUS
<1> DEFINE r == store[i]
           found == tmp[i]
<1>1. r \in Records /\ found \in Artifacts /\ i \in todo /\ Open(r) /\ cur = None
  BY DEF IInv, PickUp, TypeOK, InMemory, NextItem
<1>2. /\ rec' \in Records /\ rec'.status \in Statuses
      /\ rec'.attempts = r.attempts /\ rec'.wait = r.wait /\ rec'.error = r.error
      /\ rec'.skill = r.skill /\ rec'.stage = r.stage
      /\ pc' = "mark" => rec'.status \in {"downloading", "transcribing"}
      /\ pc' \in {"check", "mark"}
  BY <1>1 DEF PickUp, Records
<1>3. /\ text' \in Contents \cup {None} /\ enriched' \in Enrichments \cup {None}
      /\ text' # None => text' = found.text
      /\ enriched' # None => enriched' = found.enriched /\ r.stage = "enriched" /\ text' = found.text
      /\ pc' = "check" <=> text' # None
      /\ enriched' # None => text' # None
      /\ r.stage = "enriched" /\ text' = None => found.text = None
      /\ r.stage = "enriched" /\ text' # None /\ enriched' = None => found.enriched = None
  BY <1>1, WorkerAssumption DEF PickUp, Artifacts, HasEnrichment, HasMedia, HasText, NextItem
<1>4. TypeOK'
  BY <1>1, <1>2, <1>3, WorkerAssumption
  DEF IInv, PickUp, TypeOK, durable, NextItem
<1>5. DurableOK'
  BY DEF IInv, PickUp, durable, DurableOK, RetryWindow, SuccessResets, DoneHasNote,
         GiveUpReported, EmptyLeavesNoText
<1>6. InMemory'
  <2>1. Matching(r, found) /\ ~r.skill
    BY <1>1 DEF IInv, InMemory, DurableOK, SuccessResets, Open
  <2>2. r.stage = "enriched" /\ enriched' = None => found.enriched = None
    BY <1>1, <1>3, <2>1, WorkerAssumption DEF Matching, Artifacts, Enrichments
  <2>3. enriched' # None => enriched'.of = text'
    BY <1>3, <2>1 DEF Matching
  <2>4. text' # "empty"
    BY <1>3, WorkerAssumption
  <2>5. UNCHANGED <<store, tmp>> /\ cur' = i /\ todo' = todo \ {i}
    BY DEF PickUp, durable
  <2>6. BeforeNote'
    BY <1>1, <1>2, <1>3, <2>1, <2>2, <2>3, <2>4, <2>5 DEF BeforeNote
  <2>7. AfterNote'
    BY <1>2 DEF AfterNote
  <2> QED
    BY <1>2, <2>1, <2>5, <2>6, <2>7 DEF IInv, InMemory, Matching
<1> QED
  BY <1>4, <1>5, <1>6 DEF IInv
-------------------------------------------------------------------------------
\* A step on the current item that saves nothing and touches at most its own
\* directory keeps what is durable.
LEMMA DurableKept ==
  ASSUME IInv, cur \in Items, Open(store[cur]), UNCHANGED <<store, vault, gaveUp>>,
         \A i \in Items \ {cur} : tmp'[i] = tmp[i]
  PROVE  DurableOK'
<1>1. store[cur].error # "empty"
  BY DEF IInv, InMemory, Open
<1> QED
  BY <1>1 DEF IInv, DurableOK, RetryWindow, SuccessResets, DoneHasNote, GiveUpReported,
              EmptyLeavesNoText

\* Such a step also keeps InMemory if the record in memory fits its new place.
LEMMA MemoryKept ==
  ASSUME IInv, cur \in Items, UNCHANGED <<store, todo, cur>>,
         \A i \in Items \ {cur} : tmp'[i] = tmp[i],
         Matching(store[cur], tmp'[cur]), Matching(rec', tmp'[cur]),
         BeforeNote', AfterNote'
  PROVE  InMemory'
BY DEF IInv, InMemory, Matching

\* What BeforeNote says at the places of a stage.
LEMMA AtStage ==
  ASSUME IInv, pc \in {"mark", "work", "fetching", "check", "streaming"}
  PROVE  /\ cur \in Items /\ cur # None
         /\ store[cur] \in Records /\ tmp[cur] \in Artifacts /\ rec \in Records
         /\ Open(store[cur]) /\ ~rec.skill
         /\ rec.attempts = store[cur].attempts /\ rec.wait = store[cur].wait
         /\ rec.error = store[cur].error /\ rec.error # "empty"
         /\ Matching(store[cur], tmp[cur]) /\ Matching(rec, tmp[cur])
BY CurrentItem DEF IInv, TypeOK, InMemory, BeforeNote, Open

\* Raising from a stage: the record is left as it is.
LEMMA StepRaise ==
  ASSUME IInv, pc \in {"mark", "work", "fetching", "check"},
         NEW e \in Exceptions, Raise(e), e = "empty" => tmp[cur].text = None,
         UNCHANGED <<durable, todo, outage, cur, rec, text, enriched, stale, tries>>
  PROVE  IInv'
<1>1. TypeOK'
  BY DEF IInv, TypeOK, Raise, durable
<1>2. DurableOK'
  BY AtStage, DurableKept DEF durable
<1>3. BeforeNote' /\ AfterNote'
  BY AtStage, WorkerAssumption DEF Raise, durable, BeforeNote, AfterNote, ChargedTo
<1>4. InMemory'
  BY <1>3, AtStage, MemoryKept DEF durable
<1> QED
  BY <1>1, <1>2, <1>4 DEF IInv

LEMMA StepFailures ==
  ASSUME IInv,
         MarkTimesOut \/ DownloadFails \/ CaptureFails \/ ExtractFails \/ EmptyFails
           \/ EnrichFails \/ WriteFails
  PROVE  IInv'
<1>1. CASE MarkTimesOut
  BY <1>1, StepRaise DEF MarkTimesOut
<1>2. CASE DownloadFails
  BY <1>2, StepRaise DEF DownloadFails
<1>3. CASE CaptureFails
  BY <1>3, StepRaise DEF CaptureFails, Working
<1>4. CASE ExtractFails
  BY <1>4, StepRaise DEF ExtractFails, Working
<1>5. CASE EmptyFails
  <2>1. tmp[cur].text = None
    BY <1>5, WorkerAssumption DEF EmptyFails, IInv, InMemory, BeforeNote
  <2> QED
    BY <1>5, <2>1, StepRaise DEF EmptyFails
<1>6. CASE EnrichFails
  BY <1>6, StepRaise DEF EnrichFails, Working
<1>7. CASE WriteFails
  BY <1>7, StepRaise DEF WriteFails, Working
<1> QED
  BY <1>1, <1>2, <1>3, <1>4, <1>5, <1>6, <1>7

\* The page's media go into the item's directory; its texts were gone already.
LEMMA StepStream == IInv /\ (StreamPage \/ StreamFails) => IInv'
<1> SUFFICES ASSUME IInv, StreamPage \/ StreamFails PROVE IInv'
  OBVIOUS
<1>0. /\ pc \in {"check", "streaming"} /\ pc' \in {"streaming", "handler"}
      /\ pc' = "handler" => exc' = "empty"
      /\ pc' = "streaming" => text = "empty"
      /\ UNCHANGED <<store, vault, gaveUp, todo, outage, cur, rec, text, enriched, stale, tries>>
  BY DEF StreamPage, StreamFails, Raise, locals
<1>1. text = "empty" /\ tmp[cur].text = None /\ enriched = None
  BY AtStage, WorkerAssumption
  DEF StreamPage, StreamFails, IInv, TypeOK, Enrichments, InMemory, BeforeNote
<1>2. PICK found \in Artifacts :
        /\ tmp' = [tmp EXCEPT ![cur] = found]
        /\ found.text = None /\ found.enriched \in {None, tmp[cur].enriched}
  <2>1. CASE StreamPage
    <3>1. PICK left \in {"none", "partial"} :
            tmp' = [tmp EXCEPT ![cur] = [NoArtifacts EXCEPT !.media = left]]
      BY <2>1 DEF StreamPage
    <3>2. /\ [NoArtifacts EXCEPT !.media = left] \in Artifacts
          /\ [NoArtifacts EXCEPT !.media = left].text = None
          /\ [NoArtifacts EXCEPT !.media = left].enriched = None
      BY DEF NoArtifacts, Artifacts
    <3> QED  BY <3>1, <3>2
  <2>2. CASE StreamFails
    <3>1. PICK media \in {"none", "whole"} :
            tmp' = [tmp EXCEPT ![cur] = [tmp[cur] EXCEPT !.media = media]]
      BY <2>2 DEF StreamFails
    <3>2. /\ [tmp[cur] EXCEPT !.media = media] \in Artifacts
          /\ [tmp[cur] EXCEPT !.media = media].text = None
          /\ [tmp[cur] EXCEPT !.media = media].enriched = tmp[cur].enriched
      BY <1>0, <1>1, AtStage DEF Artifacts
    <3> QED  BY <3>1, <3>2
  <2> QED  BY <2>1, <2>2
<1>3. /\ tmp' \in [Items -> Artifacts] /\ tmp'[cur] = found
      /\ \A i \in Items \ {cur} : tmp'[i] = tmp[i]
  BY <1>0, <1>2, AtStage DEF IInv, TypeOK
<1>4. TypeOK'
  BY <1>0, <1>3 DEF IInv, TypeOK, StreamPage, StreamFails, Raise, locals, Exceptions
<1>5. DurableOK'
  BY <1>0, <1>2, <1>3, AtStage, DurableKept
<1>6. BeforeNote' /\ AfterNote'
  <2>1. CASE pc' = "handler"
    BY <1>0, <1>2, <1>3, <2>1, AtStage, WorkerAssumption DEF BeforeNote, AfterNote, ChargedTo
  <2>2. CASE pc' = "streaming"
    <3>1. "enriched" \in {rec.stage, store[cur].stage} => tmp[cur].enriched = None
      BY <1>0, <1>1 DEF IInv, InMemory, BeforeNote
    <3>2. /\ Open(store'[cur'])
          /\ text' = "empty" /\ enriched' = None /\ tmp'[cur'].text = None
          /\ "enriched" \in {rec'.stage, store'[cur'].stage} => tmp'[cur'].enriched = None
      BY <1>0, <1>1, <1>2, <1>3, <2>2, <3>1, AtStage
    <3>3. BeforeNote'
      BY <1>0, <2>2, <3>2, AtStage DEF BeforeNote
    <3> QED  BY <2>2, <3>3 DEF AfterNote
  <2> QED  BY <1>0, <2>1, <2>2
<1>7. InMemory'
  <2>1. ASSUME NEW r, Matching(r, tmp[cur]) PROVE Matching(r, found)
    BY <1>1, <1>2, <2>1 DEF Matching
  <2>2. /\ Matching(store[cur], tmp'[cur]) /\ Matching(rec, tmp'[cur])
        /\ rec' = rec /\ store' = store
    BY <1>0, <1>3, <2>1, AtStage
  <2> QED  BY <1>0, <1>3, <1>6, <2>2, AtStage, MemoryKept
<1> QED
  BY <1>4, <1>5, <1>7 DEF IInv

LEMMA StepMark == IInv /\ Mark => IInv'
<1> SUFFICES ASSUME IInv, Mark PROVE IInv'
  OBVIOUS
<1>0. pc = "mark" /\ pc' = "work" /\ SaveRecord
      /\ UNCHANGED <<tmp, vault, gaveUp, todo, outage, cur, rec, text, enriched, exc, stale, tries>>
  BY DEF Mark, locals
<1>1. rec.status \in InFlight /\ store' = [store EXCEPT ![cur] = rec] /\ store'[cur] = rec
  BY <1>0, AtStage DEF SaveRecord, IInv, TypeOK, InMemory, BeforeNote
<1>2. TypeOK'
  BY <1>0, <1>1, AtStage DEF IInv, TypeOK
<1>3. \A i \in Items \ {cur} : store'[i] = store[i]
  BY <1>1, AtStage DEF IInv, TypeOK
<1>4. DurableOK'
  BY <1>0, <1>1, <1>3, AtStage DEF IInv, DurableOK, RetryWindow, SuccessResets, DoneHasNote,
     GiveUpReported, EmptyLeavesNoText
<1>5. Open(rec)
  BY <1>0, <1>1, AtStage DEF Open
<1>6. BeforeNote' /\ AfterNote'
  BY <1>0, <1>1, <1>5, AtStage DEF IInv, InMemory, BeforeNote, AfterNote
<1>7. InMemory'
  BY <1>0, <1>1, <1>3, <1>6, AtStage DEF IInv, InMemory, Matching
<1> QED
  BY <1>2, <1>4, <1>7 DEF IInv
-------------------------------------------------------------------------------
\* The stages that produce something: none saves, each leaves the record and the
\* caches in step with each other.
LEMMA StageType ==
  ASSUME TypeOK, pc \notin {"idle", "pass"}, NEW found \in Artifacts,
         tmp' = [tmp EXCEPT ![cur] = found]
  PROVE  /\ tmp' \in [Items -> Artifacts] /\ tmp'[cur] = found
         /\ \A i \in Items \ {cur} : tmp'[i] = tmp[i]
BY DEF TypeOK

LEMMA StepBeginDownload == IInv /\ BeginDownload => IInv'
<1> SUFFICES ASSUME IInv, BeginDownload PROVE IInv'
  OBVIOUS
<1>0. pc = "work" /\ pc' = "fetching" /\ rec.status = "downloading"
      /\ UNCHANGED <<store, vault, gaveUp, todo, outage, cur, rec, text, enriched, exc, stale, tries>>
  BY DEF BeginDownload, Working, locals
<1>1. PICK left \in {"none", "partial"} :
        tmp' = [tmp EXCEPT ![cur] = [NoArtifacts EXCEPT !.media = left]]
  BY DEF BeginDownload
<1>2. [NoArtifacts EXCEPT !.media = left] \in Artifacts
      /\ [NoArtifacts EXCEPT !.media = left].enriched = None
      /\ [NoArtifacts EXCEPT !.media = left].text = None
  BY DEF NoArtifacts, Artifacts
<1>3. /\ tmp' \in [Items -> Artifacts] /\ tmp'[cur].enriched = None /\ tmp'[cur].text = None
      /\ \A i \in Items \ {cur} : tmp'[i] = tmp[i]
  BY <1>0, <1>1, <1>2, StageType DEF IInv
<1>4. TypeOK'
  BY <1>0, <1>3 DEF IInv, TypeOK
<1>5. DurableOK'
  BY <1>0, <1>3, AtStage, DurableKept
<1>6. text = None /\ enriched = None
  BY <1>0 DEF IInv, InMemory, BeforeNote
<1>7. BeforeNote' /\ AfterNote'
  BY <1>0, <1>3, <1>6, AtStage DEF IInv, InMemory, BeforeNote, AfterNote
<1>8. InMemory'
  BY <1>0, <1>3, <1>7, AtStage, MemoryKept DEF Matching
<1> QED
  BY <1>4, <1>5, <1>8 DEF IInv

LEMMA StepDownload == IInv /\ Download => IInv'
<1> SUFFICES ASSUME IInv, Download PROVE IInv'
  OBVIOUS
<1>0. pc = "fetching" /\ pc' = "mark"
      /\ UNCHANGED <<store, vault, gaveUp, todo, outage, cur, text, enriched, exc, stale, tries>>
  BY DEF Download
<1>1. [tmp[cur] EXCEPT !.media = "whole"] \in Artifacts
      /\ tmp' = [tmp EXCEPT ![cur] = [tmp[cur] EXCEPT !.media = "whole"]]
  BY <1>0, AtStage DEF Download, Artifacts
<1>2. /\ tmp' \in [Items -> Artifacts]
      /\ tmp'[cur].enriched = tmp[cur].enriched /\ tmp'[cur].text = tmp[cur].text
      /\ \A i \in Items \ {cur} : tmp'[i] = tmp[i]
  BY <1>0, <1>1, StageType, AtStage DEF IInv, Artifacts
<1>3. /\ rec' \in Records /\ rec'.status = "transcribing" /\ rec'.stage = "downloaded"
      /\ rec'.attempts = rec.attempts /\ rec'.wait = rec.wait /\ rec'.error = rec.error
      /\ rec'.skill = rec.skill
  BY <1>0, AtStage DEF Download, Records
<1>4. TypeOK'
  BY <1>0, <1>2, <1>3 DEF IInv, TypeOK
<1>5. DurableOK'
  BY <1>0, <1>2, AtStage, DurableKept
<1>6. BeforeNote' /\ AfterNote'
  BY <1>0, <1>2, <1>3, AtStage DEF IInv, InMemory, BeforeNote, AfterNote
<1>7. InMemory'
  BY <1>0, <1>2, <1>3, <1>6, AtStage, MemoryKept DEF Matching
<1> QED
  BY <1>4, <1>5, <1>7 DEF IInv

\* A text, or an empty one, becomes the transcript of the item: by capture, by
\* extraction, or by one of the fallbacks, which may change the media beside it.
LEMMA StepFound ==
  ASSUME IInv, pc \in {"work", "fetching", "check", "streaming"}, enriched = None,
         NEW t \in Contents \cup {"empty"}, text' = t,
         NEW found \in Artifacts, tmp' = [tmp EXCEPT ![cur] = found],
         found.text = IF t = "empty" THEN None ELSE t, found.enriched = tmp[cur].enriched,
         rec' \in Records,
         rec'.attempts = rec.attempts, rec'.wait = rec.wait, rec'.error = rec.error,
         rec'.skill = rec.skill,
         rec'.stage = "enriched" => tmp[cur].enriched = None,
         store[cur].stage = "enriched" => tmp[cur].enriched = None,
         \/ pc' = "check"
         \/ pc' = "mark" /\ rec'.status = "enriching" /\ t # "empty",
         UNCHANGED <<store, vault, gaveUp, todo, outage, cur, enriched, exc, stale, tries>>
  PROVE  IInv'
<1>1. tmp'[cur] = found
  BY StageType, AtStage DEF IInv
<1>2. /\ tmp' \in [Items -> Artifacts]
      /\ tmp'[cur].enriched = tmp[cur].enriched
      /\ tmp'[cur].text = IF t = "empty" THEN None ELSE t
      /\ \A i \in Items \ {cur} : tmp'[i] = tmp[i]
  BY <1>1, StageType, AtStage DEF IInv
<1>3. TypeOK'
  BY <1>2, AtStage DEF IInv, TypeOK
<1>4. DurableOK'
  BY <1>2, AtStage, DurableKept
<1>5. BeforeNote' /\ AfterNote'
  BY <1>2, AtStage, WorkerAssumption DEF IInv, InMemory, BeforeNote, AfterNote
<1>6. InMemory'
  BY <1>2, <1>5, AtStage, MemoryKept DEF Matching
<1> QED
  BY <1>3, <1>4, <1>6 DEF IInv

\* The same for the steps that leave the media as they are.
LEMMA StepText ==
  ASSUME IInv, pc \in {"work", "fetching"}, enriched = None,
         NEW t \in Contents \cup {"empty"}, text' = t, KeepText(t),
         rec' \in Records,
         rec'.attempts = rec.attempts, rec'.wait = rec.wait, rec'.error = rec.error,
         rec'.skill = rec.skill,
         rec'.stage = "enriched" => tmp[cur].enriched = None,
         store[cur].stage = "enriched" => tmp[cur].enriched = None,
         pc' = "check",
         UNCHANGED <<store, vault, gaveUp, todo, outage, cur, enriched, exc, stale, tries>>
  PROVE  IInv'
<1> DEFINE found == [tmp[cur] EXCEPT !.text = IF t = "empty" THEN None ELSE t]
<1>1. /\ found \in Artifacts /\ tmp' = [tmp EXCEPT ![cur] = found]
      /\ found.text = IF t = "empty" THEN None ELSE t
      /\ found.enriched = tmp[cur].enriched
  BY AtStage DEF KeepText, Artifacts
<1> HIDE DEF found
<1> QED  BY <1>1, StepFound

LEMMA StepTexts ==
  ASSUME IInv, DownloadFallback \/ CaptureText \/ Extract \/ EmptyFallback
  PROVE  IInv'
<1>1. CASE DownloadFallback
  <2>1. PICK c \in Contents : text' = c /\ KeepText(c)
    BY <1>1 DEF DownloadFallback
  <2>2. pc = "fetching" /\ enriched = None
        /\ (store[cur].stage = "enriched" => tmp[cur].enriched = None)
    BY <1>1 DEF DownloadFallback, IInv, InMemory, BeforeNote
  <2>3. rec' = [rec EXCEPT !.stage = "transcribed"] /\ rec \in Records
    BY <1>1 DEF DownloadFallback, IInv, TypeOK
  <2> QED
    BY <1>1, <2>1, <2>2, <2>3, StepText DEF DownloadFallback, Records
<1>2. CASE CaptureText
  <2>1. PICK t \in Contents \cup {"empty"} : text' = t /\ KeepText(t)
    BY <1>2 DEF CaptureText
  <2>2. pc = "work" /\ enriched = None
        /\ (store[cur].stage = "enriched" => tmp[cur].enriched = None)
    BY <1>2 DEF CaptureText, Working, IInv, InMemory, BeforeNote
  <2>3. rec' = [rec EXCEPT !.stage = "transcribed"] /\ rec \in Records
    BY <1>2 DEF CaptureText, IInv, TypeOK
  <2> QED
    BY <1>2, <2>1, <2>2, <2>3, StepText DEF CaptureText, Records
<1>3. CASE Extract
  <2>1. PICK t \in Contents \cup {"empty"} : text' = t /\ KeepText(t)
    BY <1>3 DEF Extract
  <2>2. pc = "work" /\ enriched = None
        /\ (store[cur].stage = "enriched" => tmp[cur].enriched = None)
    BY <1>3 DEF Extract, Working, IInv, InMemory, BeforeNote
  <2>3. rec' = [rec EXCEPT !.stage = "transcribed"] /\ rec \in Records
    BY <1>3 DEF Extract, IInv, TypeOK
  <2> QED
    BY <1>3, <2>1, <2>2, <2>3, StepText DEF Extract, Records
<1>4. CASE EmptyFallback
  <2>0. tmp[cur] \in Artifacts
    BY <1>4, AtStage DEF EmptyFallback
  <2>1. PICK c \in Contents, media \in {"none", "partial", "whole"} :
          text' = c /\ tmp' = [tmp EXCEPT ![cur] = [tmp[cur] EXCEPT !.text = c, !.media = media]]
    BY <1>4, <2>0, ZenonT(60) DEF EmptyFallback, Artifacts
  <2> DEFINE found == [tmp[cur] EXCEPT !.text = c, !.media = media]
  <2>2. found \in Artifacts /\ found.text = c /\ found.enriched = tmp[cur].enriched
    BY <2>0 DEF Artifacts
  <2>3. pc \in {"check", "streaming"} /\ enriched = None
        /\ (rec.stage = "enriched" => tmp[cur].enriched = None)
        /\ (store[cur].stage = "enriched" => tmp[cur].enriched = None)
    BY <1>4, WorkerAssumption
    DEF EmptyFallback, IInv, TypeOK, Enrichments, InMemory, BeforeNote
  <2>4. rec' = [rec EXCEPT !.status = "enriching"] /\ pc' = "mark" /\ rec \in Records
    BY <1>4 DEF EmptyFallback, Enter, IInv, TypeOK
  <2>5. tmp' = [tmp EXCEPT ![cur] = found] /\ text' = c
    BY <2>1
  <2> HIDE DEF found
  <2> QED
    BY <1>4, <2>2, <2>3, <2>4, <2>5, StepFound, WorkerAssumption, ZenonT(60) DEF EmptyFallback, Records
<1> QED
  BY <1>1, <1>2, <1>3, <1>4

LEMMA StepCheckText == IInv /\ CheckText => IInv'
<1> SUFFICES ASSUME IInv, CheckText PROVE IInv'
  OBVIOUS
<1>0. pc = "check" /\ pc' = "mark" /\ text \in Contents
      /\ UNCHANGED <<store, tmp, vault, gaveUp, todo, outage, cur, text, enriched, exc, stale, tries>>
  BY DEF CheckText, Enter, durable, IInv, TypeOK, InMemory, BeforeNote
<1>1. /\ rec' \in Records /\ rec'.stage = rec.stage
      /\ rec'.attempts = rec.attempts /\ rec'.wait = rec.wait /\ rec'.error = rec.error
      /\ rec'.skill = rec.skill
      /\ rec'.status = IF enriched = None THEN "enriching" ELSE "writing_note"
  BY <1>0, AtStage DEF CheckText, Enter, Records
<1>2. TypeOK'
  BY <1>0, <1>1 DEF IInv, TypeOK
<1>3. DurableOK'
  BY <1>0, AtStage, DurableKept
<1>4. BeforeNote' /\ AfterNote'
  BY <1>0, <1>1, AtStage DEF IInv, InMemory, BeforeNote, AfterNote
<1>5. InMemory'
  BY <1>0, <1>1, <1>4, AtStage, MemoryKept DEF Matching
<1> QED
  BY <1>2, <1>3, <1>5 DEF IInv

LEMMA StepEnrich == IInv /\ Enrich => IInv'
<1> SUFFICES ASSUME IInv, Enrich PROVE IInv'
  OBVIOUS
<1>0. pc = "work" /\ pc' = "mark" /\ rec.status = "enriching"
      /\ UNCHANGED <<store, vault, gaveUp, todo, outage, cur, text, exc, stale, tries>>
  BY DEF Enrich, Working
<1>1. text \in Contents /\ text # "empty" /\ text # None /\ tmp[cur].text = text
  BY <1>0, WorkerAssumption DEF IInv, InMemory, BeforeNote
<1>2. PICK t \in Titles : /\ enriched' = [of |-> text, title |-> t]
                          /\ tmp' = [tmp EXCEPT ![cur].enriched = [of |-> text, title |-> t]]
  BY DEF Enrich
<1>3. enriched' \in Enrichments /\ enriched'.of = text
  BY <1>1, <1>2 DEF Enrichments
<1>4. [tmp[cur] EXCEPT !.enriched = enriched'] \in Artifacts
      /\ tmp' = [tmp EXCEPT ![cur] = [tmp[cur] EXCEPT !.enriched = enriched']]
  BY <1>0, <1>2, <1>3, AtStage DEF Artifacts
<1>5. /\ tmp' \in [Items -> Artifacts]
      /\ tmp'[cur].enriched = enriched' /\ tmp'[cur].text = tmp[cur].text
      /\ \A i \in Items \ {cur} : tmp'[i] = tmp[i]
  BY <1>0, <1>4, StageType, AtStage DEF IInv, Artifacts
<1>6. /\ rec' \in Records /\ rec'.status = "writing_note"
      /\ rec'.attempts = rec.attempts /\ rec'.wait = rec.wait /\ rec'.error = rec.error
      /\ rec'.skill = rec.skill
  BY <1>0, AtStage DEF Enrich, Records
<1>7. TypeOK'
  BY <1>0, <1>3, <1>5, <1>6 DEF IInv, TypeOK
<1>8. DurableOK'
  BY <1>0, <1>5, AtStage, DurableKept
<1>9. enriched' # None
  BY <1>3, WorkerAssumption DEF Enrichments
<1>10. BeforeNote' /\ AfterNote'
  BY <1>0, <1>1, <1>3, <1>5, <1>6, <1>9, AtStage DEF IInv, InMemory, BeforeNote, AfterNote
<1>11. InMemory'
  BY <1>0, <1>1, <1>3, <1>5, <1>6, <1>10, AtStage, MemoryKept DEF Matching
<1> QED
  BY <1>7, <1>8, <1>11 DEF IInv

LEMMA StepWriteNote == IInv /\ WriteNote => IInv'
<1> SUFFICES ASSUME IInv, WriteNote PROVE IInv'
  OBVIOUS
<1>0. pc = "work" /\ pc' = "commit" /\ rec.status = "writing_note" /\ cur \in Items
      /\ vault' = [vault EXCEPT ![cur] = @ \cup {enriched.title}] /\ stale' = rec.note
      /\ UNCHANGED <<store, tmp, gaveUp, todo, outage, cur, text, enriched, exc, tries>>
  BY AtStage DEF WriteNote, Working, DoneRecord
<1>1. enriched.title \in Titles /\ store[cur].status = "writing_note"
  BY <1>0 DEF IInv, TypeOK, InMemory, BeforeNote, Enrichments
<1>2. /\ rec' \in Records /\ DoneShape(rec') /\ ~rec'.skill
      /\ rec'.note = enriched.title /\ rec'.stage = "note_written"
  BY <1>0, <1>1, AtStage DEF WriteNote, Records, DoneShape, DoneRecord
<1>3. vault' \in [Items -> SUBSET Titles] /\ rec'.note \in vault'[cur]
      /\ \A i \in Items : vault[i] \subseteq vault'[i]
  BY <1>0, <1>1, <1>2 DEF IInv, TypeOK
<1>4. TypeOK'
  BY <1>0, <1>2, <1>3, AtStage DEF IInv, TypeOK, Records
<1>5. DurableOK'
  BY <1>0, <1>3 DEF IInv, DurableOK, RetryWindow, SuccessResets, DoneHasNote, GiveUpReported,
     EmptyLeavesNoText
<1>6. BeforeNote' /\ AfterNote'
  BY <1>0, <1>1, <1>2, <1>3, AtStage DEF BeforeNote, AfterNote
<1>7. InMemory'
  BY <1>0, <1>2, <1>6 DEF IInv, InMemory, Matching
<1> QED
  BY <1>4, <1>5, <1>7 DEF IInv

LEMMA StepCommit == IInv /\ Commit => IInv'
<1> SUFFICES ASSUME IInv, Commit PROVE IInv'
  OBVIOUS
<1>0. pc = "commit" /\ pc' = "skill" /\ cur \in Items
      /\ UNCHANGED <<tmp, vault, gaveUp, todo, outage, cur, rec, text, enriched, exc, stale, tries>>
  BY CurrentItem DEF Commit, locals, IInv
<1>1. /\ store' = [store EXCEPT ![cur] = rec] /\ store' \in [Items -> Records]
      /\ store'[cur] = rec /\ \A i \in Items \ {cur} : store'[i] = store[i]
  BY <1>0 DEF Commit, SaveRecord, IInv, TypeOK
<1>2. DoneShape(rec) /\ ~rec.skill /\ rec.note \in vault[cur]
  BY <1>0 DEF IInv, InMemory, AfterNote
<1>3. TypeOK'
  BY <1>0, <1>1 DEF IInv, TypeOK
<1>4. DurableOK'
  BY <1>0, <1>1, <1>2, WorkerAssumption DEF IInv, DurableOK, RetryWindow, SuccessResets, DoneHasNote,
     GiveUpReported, EmptyLeavesNoText, DoneShape
<1>5. InMemory'
  BY <1>0, <1>1, <1>2, WorkerAssumption
  DEF IInv, InMemory, BeforeNote, AfterNote, Matching, DoneShape
<1> QED
  BY <1>3, <1>4, <1>5 DEF IInv

LEMMA StepCommitTimesOut == IInv /\ CommitTimesOut => IInv'
<1> SUFFICES ASSUME IInv, CommitTimesOut PROVE IInv'
  OBVIOUS
<1>0. pc = "commit" /\ pc' = "handler" /\ exc' = "lock" /\ cur \in Items
      /\ UNCHANGED <<store, tmp, vault, gaveUp, todo, outage, cur, rec, text, enriched, stale, tries>>
  BY CurrentItem DEF CommitTimesOut, Raise, durable, IInv
<1>1. TypeOK'
  BY <1>0 DEF IInv, TypeOK
<1>2. DurableOK'
  BY <1>0 DEF IInv, DurableOK, RetryWindow, SuccessResets, DoneHasNote, GiveUpReported,
     EmptyLeavesNoText
<1>3. InMemory'
  BY <1>0, WorkerAssumption
  DEF IInv, InMemory, BeforeNote, AfterNote, Matching, DoneShape, ChargedTo
<1> QED
  BY <1>1, <1>2, <1>3 DEF IInv

LEMMA StepGenerateSkill == IInv /\ GenerateSkill => IInv'
<1> SUFFICES ASSUME IInv, GenerateSkill PROVE IInv'
  OBVIOUS
<1>0. pc = "skill" /\ pc' = "clean" /\ rec \in Records
      /\ UNCHANGED <<store, tmp, vault, gaveUp, todo, outage, cur, text, enriched, exc, stale, tries>>
  BY DEF GenerateSkill, durable, IInv, TypeOK
<1>1. /\ rec' \in Records /\ rec'.note = rec.note /\ rec'.stage = rec.stage
      /\ DoneShape(rec) => DoneShape(rec')
  BY <1>0 DEF GenerateSkill, Records, DoneShape
<1>2. TypeOK'
  BY <1>0, <1>1 DEF IInv, TypeOK
<1>3. DurableOK'
  BY <1>0 DEF IInv, DurableOK, RetryWindow, SuccessResets, DoneHasNote, GiveUpReported,
     EmptyLeavesNoText
<1>4. InMemory'
  BY <1>0, <1>1 DEF IInv, InMemory, BeforeNote, AfterNote, Matching
<1> QED
  BY <1>2, <1>3, <1>4 DEF IInv

LEMMA StepCleanUp == IInv /\ CleanUp => IInv'
<1> SUFFICES ASSUME IInv, CleanUp PROVE IInv'
  OBVIOUS
<1>0. pc = "clean" /\ pc' = "save" /\ cur \in Items
      /\ tmp' = [tmp EXCEPT ![cur] = NoArtifacts]
      /\ UNCHANGED <<store, gaveUp, todo, outage, cur, rec, text, enriched, exc, stale, tries>>
  BY CurrentItem DEF CleanUp, locals, IInv, Replaced
<1>1. NoArtifacts \in Artifacts /\ NoArtifacts.enriched = None /\ NoArtifacts.text = None
  BY DEF NoArtifacts, Artifacts
<1>2. /\ tmp' \in [Items -> Artifacts] /\ tmp'[cur] = NoArtifacts
      /\ \A i \in Items \ {cur} : tmp'[i] = tmp[i]
  BY <1>0, <1>1, StageType DEF IInv
<1>3. DoneShape(rec) /\ DoneShape(store[cur]) /\ store[cur].note = rec.note /\ rec.note \in vault[cur]
  BY <1>0 DEF IInv, InMemory, AfterNote
<1>4. /\ vault' \in [Items -> SUBSET Titles] /\ rec.note \in vault'[cur]
      /\ \A i \in Items \ {cur} : vault'[i] = vault[i]
  BY <1>0, <1>3 DEF CleanUp, IInv, TypeOK, Replaced
<1>5. TypeOK'
  BY <1>0, <1>2, <1>4 DEF IInv, TypeOK
<1>6. DurableOK'
  BY <1>0, <1>1, <1>2, <1>3, <1>4 DEF IInv, DurableOK, RetryWindow, SuccessResets, DoneHasNote,
     GiveUpReported, EmptyLeavesNoText
<1>7. InMemory'
  BY <1>0, <1>1, <1>2, <1>3, <1>4 DEF IInv, InMemory, BeforeNote, AfterNote, Matching
<1> QED
  BY <1>5, <1>6, <1>7 DEF IInv
-------------------------------------------------------------------------------
\* The fields the handler writes keep the record a record.
LEMMA HandledType ==
  ASSUME NEW r \in Records, NEW status \in Statuses, NEW n \in Nat,
         NEW w \in Nat \cup {None}, NEW e \in Exceptions
  PROVE  [r EXCEPT !.status = status, !.attempts = n, !.wait = w, !.error = e] \in Records
BY ZenonT(60) DEF Records

\* The handler leaves one of three records behind, and the line it owes.
LEMMA StepHandle ==
  ASSUME IInv, HandleOutage \/ HandleGiveUp \/ HandleRetryLater
  PROVE  IInv'
<1>0. /\ pc = "handler" /\ pc' = "save" /\ cur \in Items /\ rec \in Records
      /\ store[cur] \in Records
      /\ UNCHANGED <<store, tmp, vault, todo, cur, text, enriched, exc, stale>>
  BY CurrentItem DEF HandleOutage, HandleGiveUp, HandleRetryLater, durable, IInv, TypeOK
<1>1. /\ exc \in Exceptions /\ exc # None /\ ~rec.skill /\ Open(store[cur])
      /\ rec.attempts \in ChargedTo(store[cur])
      /\ (exc = "llm_account" => rec.attempts = store[cur].attempts)
      /\ (exc = "empty" => tmp[cur].text = None)
  BY <1>0 DEF IInv, TypeOK, InMemory, AfterNote
<1>tries. tries' \in [Items -> Int]
  BY <1>0 DEF HandleOutage, HandleGiveUp, HandleRetryLater, CountTry, IInv, TypeOK
<1>2. /\ rec' \in Records /\ FailedShape(rec', store[cur])
      /\ rec'.stage = rec.stage /\ rec'.error = exc
      /\ (rec'.status = "failed_permanent" => cur \in gaveUp')
      /\ (exc = "empty" => rec'.status = "failed_permanent")
      /\ gaveUp' \subseteq Items /\ gaveUp \subseteq gaveUp'
      /\ outage' \in BOOLEAN /\ tries' \in [Items -> Int]
  <2>1. CASE HandleOutage
    <3>1. exc = "llm_account" /\ gaveUp' = gaveUp
      BY <2>1, <1>1 DEF HandleOutage, HandledAs, durable
    <3>2. rec' = [rec EXCEPT !.status = "failed", !.wait = Backoff[1], !.error = exc]
      BY <2>1 DEF HandleOutage, OutageRecord
    <3>3. rec' \in Records
      BY <3>2, <1>0, <1>1, FirstDelayIsNat DEF Records
    <3>4. rec'.attempts = rec.attempts /\ rec'.wait = Backoff[1] /\ rec'.status = "failed"
          /\ rec'.error = exc /\ rec'.skill = rec.skill /\ rec'.stage = rec.stage
      BY <3>2, <1>0 DEF Records
    <3> QED
      BY <2>1, <3>1, <3>3, <3>4, <1>0, <1>1, <1>tries DEF HandleOutage, FailedShape, IInv, TypeOK
  <2>2. CASE HandleGiveUp
    <3>1. rec' = [rec EXCEPT !.status = "failed_permanent", !.attempts = @ + 1,
                             !.wait = None, !.error = exc]
      BY <2>2, Zenon DEF HandleGiveUp, GivenUpRecord
    <3>2. rec' \in Records
      <4>1. rec.attempts \in Nat /\ rec.attempts + 1 \in Nat
        BY <1>0 DEF Records
      <4> QED
        BY <3>1, <4>1, <1>0, <1>1, HandledType, ZenonT(60)
    <3>3. rec'.attempts = rec.attempts + 1 /\ rec'.wait = None /\ rec'.status = "failed_permanent"
          /\ rec'.error = exc /\ rec'.skill = rec.skill /\ rec'.stage = rec.stage
      BY <3>1, <1>0 DEF Records
    <3> QED
      BY <2>2, <3>2, <3>3, <1>0, <1>1, <1>tries
      DEF HandleGiveUp, FailedShape, IInv, TypeOK, ReportGiveUp
  <2>3. CASE HandleRetryLater
    <3>1. rec' = [rec EXCEPT !.status = "failed", !.attempts = @ + 1,
                             !.wait = Delay(rec.attempts + 1), !.error = exc]
          /\ exc # "empty" /\ gaveUp' = gaveUp /\ ~BudgetSpent
      BY <2>3 DEF HandleRetryLater, HandledAs, IsTerminal, durable, RetryRecord
    <3>2. Delay(rec.attempts + 1) \in Nat /\ rec.attempts + 1 < MaxAttempts
      <4>1. rec.attempts \in Nat
        BY <1>0 DEF Records
      <4>2. Delay(rec.attempts + 1) \in Nat
        BY <4>1, DelayIsNat
      <4>3. rec.attempts + 1 < MaxAttempts
        BY <4>1, <3>1, WorkerAssumption DEF BudgetSpent
      <4> QED
        BY <4>2, <4>3
    <3>3. rec' \in Records
      <4>1. rec.attempts \in Nat /\ rec.attempts + 1 \in Nat
        BY <1>0 DEF Records
      <4> QED
        BY <3>1, <3>2, <4>1, <1>0, <1>1, HandledType
    <3>4. rec'.attempts = rec.attempts + 1 /\ rec'.wait = Delay(rec.attempts + 1)
          /\ rec'.status = "failed" /\ rec'.error = exc /\ rec'.skill = rec.skill
          /\ rec'.stage = rec.stage
      BY <3>1, <1>0 DEF Records
    <3> QED
      BY <2>3, <3>1, <3>2, <3>3, <3>4, <1>0, <1>1, <1>tries DEF HandleRetryLater, FailedShape, IInv, TypeOK
  <2> QED
    BY <2>1, <2>2, <2>3
<1>3. TypeOK'
  BY <1>0, <1>2 DEF IInv, TypeOK
<1>4. DurableOK'
  BY <1>0, <1>2 DEF IInv, DurableOK, RetryWindow, SuccessResets, DoneHasNote, GiveUpReported,
     EmptyLeavesNoText
<1>5. BeforeNote' /\ AfterNote'
  BY <1>0, <1>1, <1>2 DEF BeforeNote, AfterNote
<1>6. InMemory'
  BY <1>0, <1>2, <1>5 DEF IInv, InMemory, Matching
<1> QED
  BY <1>3, <1>4, <1>6 DEF IInv

LEMMA StepSave == IInv /\ Save => IInv'
<1> SUFFICES ASSUME IInv, Save PROVE IInv'
  OBVIOUS
<1>0. pc = "save" /\ pc' = "pass" /\ cur \in Items /\ rec \in Records /\ Release
      /\ UNCHANGED <<tmp, vault, gaveUp, todo, outage, tries>>
  BY CurrentItem DEF Save, IInv, TypeOK
<1>1. /\ store' \in [Items -> Records] /\ store'[cur] = rec
      /\ \A i \in Items \ {cur} : store'[i] = store[i]
  BY <1>0 DEF Save, SaveRecord, IInv, TypeOK
<1>2. TypeOK'
  BY <1>0, <1>1, ReleaseType DEF IInv, TypeOK
<1>3. \/ DoneShape(rec) /\ rec.note \in vault[cur]
      \/ /\ ~rec.skill /\ rec.error # None
         /\ rec.status = "failed" => rec.wait # None
         /\ rec.status = "failed_permanent" => rec.wait = None /\ cur \in gaveUp
         /\ rec.status \in {"failed", "failed_permanent"}
         /\ rec.error = "empty" => rec.status = "failed_permanent" /\ tmp[cur].text = None
  <2>1. CASE Open(store[cur]) /\ FailedShape(rec, store[cur])
    <3>1. \A a \in ChargedTo(store[cur]) : Delay(a + 1) \in Nat
      BY <1>0, DelayIsNat DEF ChargedTo, IInv, TypeOK, Records
    <3> QED
      BY <1>0, <2>1, <3>1, FirstDelayIsNat, WorkerAssumption
      DEF FailedShape, IInv, InMemory, AfterNote, DoneShape
  <2> QED
    BY <1>0, <2>1 DEF IInv, InMemory, AfterNote
<1>4. DurableOK'
  <2> DEFINE Kept(i, r) ==
        /\ r.status = "failed" => r.wait # None
        /\ r.status \in Terminal => r.wait = None
        /\ r.status = "done" => r.attempts = 0 /\ r.wait = None /\ r.error = None
        /\ r.skill => r.status = "done"
        /\ r.status = "done" => r.note \in vault[i]
        /\ r.status = "failed_permanent" => i \in gaveUp
        /\ r.error = "empty" => tmp[i].text = None
  <2>1. \A i \in Items : Kept(i, store[i])
    BY DEF IInv, DurableOK, RetryWindow, SuccessResets, DoneHasNote, GiveUpReported, EmptyLeavesNoText
  <2>2. Kept(cur, rec)
    BY <1>3, WorkerAssumption DEF DoneShape
  <2> HIDE DEF Kept
  <2>3. \A i \in Items : Kept(i, store'[i])
    BY <1>0, <1>1, <2>1, <2>2
  <2> QED
    BY <1>0, <2>3 DEF Kept, DurableOK, RetryWindow, SuccessResets, DoneHasNote, GiveUpReported,
       EmptyLeavesNoText
<1>5. InMemory'
  <2>1. BeforeNote' /\ AfterNote' /\ cur' = None
    BY <1>0 DEF Release, BeforeNote, AfterNote
  <2>2. Matching(rec, tmp[cur]) /\ (rec.error = "empty" => rec.status = "failed_permanent")
    BY <1>0, <1>3, WorkerAssumption DEF IInv, TypeOK, InMemory, DoneShape
  <2>3. \A i \in Items : Matching(store'[i], tmp'[i])
                         /\ (store'[i].error = "empty" => store'[i].status = "failed_permanent")
    BY <1>0, <1>1, <2>2 DEF IInv, InMemory, Matching
  <2>4. \A i \in todo' : i # cur' /\ Open(store'[i])
    BY <1>0, <1>1, <2>1, WorkerAssumption DEF IInv, TypeOK, InMemory
  <2> QED
    BY <2>1, <2>3, <2>4 DEF InMemory, Matching
<1> QED
  BY <1>2, <1>4, <1>5 DEF IInv

\* The operator's retry names given-up items only, and none of them is in a pass.
LEMMA StepRetry == IInv /\ Retry => IInv'
<1> SUFFICES ASSUME IInv, Retry PROVE IInv'
  OBVIOUS
<1>1. PICK S \in RetryTargets :
        /\ store' = [i \in Items |->
                       IF i \in S
                         THEN [store[i] EXCEPT !.status = "pending", !.attempts = 0,
                                               !.wait = None, !.error = None]
                         ELSE store[i]]
        /\ gaveUp' = gaveUp \ S
        /\ tries' = [i \in Items |-> IF i \in S THEN 0 ELSE tries[i]]
        /\ UNCHANGED <<tmp, vault, pc, todo, outage, locals>>
  BY DEF Retry
<1>2. S \subseteq Items /\ \A i \in S : store[i].status = "failed_permanent"
  BY DEF RetryTargets
<1>3. \A i \in Items \ S : store'[i] = store[i]
  BY <1>1
<1>4. \A i \in S : /\ store'[i] \in Records /\ store'[i].status = "pending"
                   /\ store'[i].wait = None /\ store'[i].error = None
                   /\ store'[i].stage = store[i].stage /\ store'[i].skill = store[i].skill
  BY <1>1, <1>2 DEF IInv, TypeOK, Records
<1>5. store' \in [Items -> Records]
  BY <1>1, <1>2, <1>3, <1>4 DEF IInv, TypeOK
<1>6. UNCHANGED <<tmp, vault, pc, todo, outage, cur, rec, text, enriched, exc, stale>>
  BY <1>1 DEF locals
<1>7. tries' \in [Items -> Int] /\ gaveUp' \subseteq Items /\ gaveUp' = gaveUp \ S
  <2>1. /\ gaveUp' = gaveUp \ S
        /\ tries' = [i \in Items |-> IF i \in S THEN 0 ELSE tries[i]]
    BY <1>1
  <2> QED
    BY <2>1 DEF IInv, TypeOK
<1>8. TypeOK'
  BY <1>5, <1>6, <1>7 DEF IInv, TypeOK
<1>9. DurableOK'
  BY <1>2, <1>3, <1>4, <1>6, <1>7, WorkerAssumption DEF IInv, DurableOK, RetryWindow, SuccessResets,
     DoneHasNote, GiveUpReported, EmptyLeavesNoText
<1>10. pc \notin {"idle", "pass"} => cur \in Items \ S /\ store'[cur] = store[cur]
  BY <1>2, <1>3, CurrentItem DEF IInv, InMemory, BeforeNote, AfterNote, Open, DoneShape, TypeOK
<1>11. BeforeNote' /\ AfterNote'
  <2>1. BeforeNote'
    BY <1>6, <1>10 DEF IInv, InMemory, BeforeNote
  <2>2. AfterNote'
    BY <1>1, <1>6, <1>7, <1>10 DEF IInv, InMemory, AfterNote
  <2> QED  BY <2>1, <2>2
<1>12. \A i \in todo : i \notin S /\ i \in Items
  BY <1>2 DEF IInv, TypeOK, InMemory, Open
<1>13. InMemory'
  <2>1. \A i \in Items : Matching(store'[i], tmp'[i])
                         /\ (store'[i].error = "empty" => store'[i].status = "failed_permanent")
    BY <1>2, <1>3, <1>4, <1>6, WorkerAssumption DEF IInv, InMemory, Matching
  <2> QED
    BY <1>3, <1>6, <1>11, <1>12, <2>1 DEF IInv, InMemory, Matching
<1> QED
  BY <1>8, <1>9, <1>13 DEF IInv

\* A minute passing changes no status and no unset or elapsed retry time.
LEMMA StepTick == IInv /\ Tick => IInv'
<1> SUFFICES ASSUME IInv, Tick PROVE IInv'
  OBVIOUS
<1>1. /\ pc # "save"
      /\ store' = [i \in Items |-> [store[i] EXCEPT !.wait = Older(@)]]
      /\ UNCHANGED <<tmp, vault, gaveUp, pc, todo, outage, cur, rec, text, enriched,
                     exc, stale, tries>>
  BY DEF Tick, locals
<1>2. \A i \in Items :
        /\ store'[i] \in Records
        /\ store'[i].wait = Older(store[i].wait)
        /\ store'[i].status = store[i].status /\ store'[i].stage = store[i].stage
        /\ store'[i].attempts = store[i].attempts /\ store'[i].error = store[i].error
        /\ store'[i].note = store[i].note /\ store'[i].skill = store[i].skill
  BY <1>1, OlderType, ZenonT(60) DEF IInv, TypeOK, Records
<1>3. \A i \in Items : /\ store[i].wait \in {None, 0} => store'[i].wait = store[i].wait
                       /\ store'[i].wait = None <=> store[i].wait = None
  <2> SUFFICES ASSUME NEW i \in Items
               PROVE  /\ store[i].wait \in {None, 0} => store'[i].wait = store[i].wait
                      /\ store'[i].wait = None <=> store[i].wait = None
    OBVIOUS
  <2>1. store[i].wait \in Nat \cup {None}
    BY DEF IInv, TypeOK, Records
  <2> QED
    BY <1>2, <2>1, OlderType
<1>4. TypeOK'
  BY <1>1, <1>2, ZenonT(60) DEF IInv, TypeOK
<1>5. DurableOK'
  BY <1>1, <1>2, <1>3 DEF IInv, DurableOK, RetryWindow, SuccessResets, DoneHasNote,
     GiveUpReported, EmptyLeavesNoText
<1>6. \A i \in Items : /\ Open(store[i]) => Open(store'[i]) /\ store'[i].wait = store[i].wait
                       /\ DoneShape(store[i]) => DoneShape(store'[i])
                       /\ ChargedTo(store'[i]) = ChargedTo(store[i])
  BY <1>2, <1>3 DEF Open, DoneShape, ChargedTo
<1>7. pc \notin {"idle", "pass"} => cur \in Items
  BY CurrentItem DEF IInv
<1>8. BeforeNote'
  BY <1>1, <1>2, <1>6, <1>7 DEF IInv, InMemory, BeforeNote
<1>9. AfterNote'
  BY <1>1, <1>2, <1>6, <1>7 DEF IInv, InMemory, AfterNote
<1>10. InMemory'
  BY <1>1, <1>2, <1>6, <1>8, <1>9, ZenonT(60) DEF IInv, TypeOK, InMemory, Matching
<1> QED
  BY <1>4, <1>5, <1>10 DEF IInv
-------------------------------------------------------------------------------
LEMMA NextIInv == IInv /\ [Next]_vars => IInv'
<1> SUFFICES ASSUME IInv, [Next]_vars PROVE IInv'
  OBVIOUS
<1>1. CASE ItemStep
  BY <1>1, StepMark, StepFailures, StepBeginDownload, StepDownload, StepTexts, StepStream, StepCheckText,
     StepEnrich, StepWriteNote, StepCommit, StepCommitTimesOut, StepGenerateSkill,
     StepCleanUp, StepHandle, StepSave, StepCrash
  DEF ItemStep, SaveTimesOut
<1>2. CASE StartPass \/ EndPass \/ \E i \in Items : PickUp(i)
  BY <1>2, StepStartPass, StepEndPass, StepPickUp
<1>3. CASE Crash
  BY <1>3, StepCrash DEF Crash
<1>4. CASE Retry \/ Tick
  BY <1>4, StepRetry, StepTick
<1>5. CASE UNCHANGED vars
  BY <1>5 DEF vars, IInv, TypeOK, DurableOK, RetryWindow, SuccessResets, DoneHasNote,
     GiveUpReported, EmptyLeavesNoText, InMemory, BeforeNote, AfterNote, Matching
<1> QED
  BY <1>1, <1>2, <1>3, <1>4, <1>5 DEF Next, PassStep

\* The strengthened invariant holds in every state, for all constants.
THEOREM Invariance == Spec => []IInv
BY InitIInv, NextIInv, PTL DEF Spec

\* state.json, its artifacts and the worker's locals keep their types.
THEOREM TypeCorrect == Spec => []TypeOK
BY Invariance, PTL DEF IInv

\* I3 of docs/formal-model.md: a failed item has a retry time, a settled one none.
THEOREM RetryWindowHolds == Spec => []RetryWindow
BY Invariance, PTL DEF IInv, DurableOK

\* I4 and I6 of docs/formal-model.md: success resets, only done items name a skill.
THEOREM SuccessResetsHolds == Spec => []SuccessResets
BY Invariance, PTL DEF IInv, DurableOK

\* A done item's note is in the vault, whatever crashed or timed out around it.
THEOREM DoneHasNoteHolds == Spec => []DoneHasNote
BY Invariance, PTL DEF IInv, DurableOK

\* No item is given up without the line that tells the operator.
THEOREM GiveUpReportedHolds == Spec => []GiveUpReported
BY Invariance, PTL DEF IInv, DurableOK

\* An item given up for an empty transcript has none cached.
THEOREM EmptyLeavesNoTextHolds == Spec => []EmptyLeavesNoText
BY Invariance, PTL DEF IInv, DurableOK

\* A note's enrichment was made from the transcript it is written with, although
\* either may come from the cache of an attempt that died.
THEOREM NoteMatchesTextHolds == Spec => []NoteMatchesText
<1>1. IInv => NoteMatchesText
  BY DEF IInv, InMemory, BeforeNote, NoteMatchesText, Working
<1> QED
  BY <1>1, Invariance, PTL
-------------------------------------------------------------------------------
\* The three columns of ItemLifecycle after a save: the record's values are in.
LEMMA SavedColumns ==
  ASSUME TypeOK, cur \in Items, SaveRecord
  PROVE  /\ [i \in Items |-> store'[i].status]
              = [[i \in Items |-> store[i].status] EXCEPT ![cur] = rec.status]
         /\ [i \in Items |-> store'[i].attempts]
              = [[i \in Items |-> store[i].attempts] EXCEPT ![cur] = rec.attempts]
         /\ [i \in Items |-> store'[i].wait]
              = [[i \in Items |-> store[i].wait] EXCEPT ![cur] = rec.wait]
BY DEF TypeOK, SaveRecord

\* A column is as it was where the record in memory has the saved value.
LEMMA SameColumns ==
  ASSUME TypeOK, cur \in Items
  PROVE  /\ rec.status = store[cur].status =>
              [[i \in Items |-> store[i].status] EXCEPT ![cur] = rec.status]
                = [i \in Items |-> store[i].status]
         /\ rec.attempts = store[cur].attempts =>
              [[i \in Items |-> store[i].attempts] EXCEPT ![cur] = rec.attempts]
                = [i \in Items |-> store[i].attempts]
         /\ rec.wait = store[cur].wait =>
              [[i \in Items |-> store[i].wait] EXCEPT ![cur] = rec.wait]
                = [i \in Items |-> store[i].wait]
OBVIOUS

\* An item in process_item that is not settled is one a pass may take up.
LEMMA OpenIsActionable ==
  ASSUME cur \in Items, Open(store[cur])
  PROVE  Lifecycle!Actionable(cur)
BY DEF Open, Lifecycle!Actionable, Lifecycle!Terminal

\* What happens to the item in hand happens to an item.
LEMMA ItemIsNext ==
  ASSUME cur \in Items, Lifecycle!ItemNext(cur)
  PROVE  \E i \in Items : Lifecycle!ItemNext(i)
BY DEF Lifecycle!ItemNext, Lifecycle!Work, Lifecycle!Finish, Lifecycle!Outage,
   Lifecycle!Postpone, Lifecycle!Exhaust, Lifecycle!GiveUp, Lifecycle!StopAt,
   Lifecycle!Actionable, Lifecycle!ChargedTo

\* The save before a stage: nothing but the status changes.
LEMMA MarkIsWork == IInv /\ Mark => Lifecycle!Work(cur)
<1> SUFFICES ASSUME IInv, Mark PROVE Lifecycle!Work(cur)
  OBVIOUS
<1>1. cur \in Items /\ SaveRecord /\ TypeOK
  BY CurrentItem DEF IInv, Mark
<1>2. /\ Open(store[cur]) /\ rec.status \in InFlight
      /\ rec.attempts = store[cur].attempts /\ rec.wait = store[cur].wait
  BY DEF IInv, Mark, InMemory, BeforeNote
<1> QED
  BY <1>1, <1>2, SavedColumns, SameColumns, OpenIsActionable
  DEF Lifecycle!Work, Lifecycle!InFlight

\* The commit point, at an item whose last saved status is writing_note.
LEMMA CommitIsFinish == IInv /\ Commit => Lifecycle!Finish(cur)
<1> SUFFICES ASSUME IInv, Commit PROVE Lifecycle!Finish(cur)
  OBVIOUS
<1>1. cur \in Items /\ SaveRecord /\ TypeOK
  BY CurrentItem DEF IInv, Commit
<1>2. DoneShape(rec) /\ store[cur].status = "writing_note"
  BY DEF IInv, Commit, InMemory, AfterNote
<1> QED
  BY <1>1, <1>2, SavedColumns DEF Lifecycle!Finish, DoneShape

\* The counters a failure may be charged to are the same in both modules.
LEMMA SameCharges ==
  ASSUME cur \in Items PROVE Lifecycle!ChargedTo(cur) = ChargedTo(store[cur])
BY DEF Lifecycle!ChargedTo, ChargedTo

\* The last save: one of the handler's outcomes, or a success that is saved already.
LEMMA SaveIsOutcome ==
  IInv /\ Save => Lifecycle!ItemNext(cur) \/ UNCHANGED Lifecycle!lifecycleVars
<1> SUFFICES ASSUME IInv, Save
             PROVE  Lifecycle!ItemNext(cur) \/ UNCHANGED Lifecycle!lifecycleVars
  OBVIOUS
<1>1. cur \in Items /\ SaveRecord /\ TypeOK
  BY CurrentItem DEF IInv, Save
<1>2. \/ DoneShape(rec) /\ DoneShape(store[cur])
      \/ Open(store[cur]) /\ FailedShape(rec, store[cur])
  BY DEF IInv, Save, InMemory, AfterNote
<1>3. CASE DoneShape(rec) /\ DoneShape(store[cur])
  BY <1>1, <1>3, SavedColumns, SameColumns DEF DoneShape, Lifecycle!lifecycleVars
<1>4. CASE Open(store[cur]) /\ FailedShape(rec, store[cur])
  <2>1. Lifecycle!Actionable(cur)
    BY <1>1, <1>4, OpenIsActionable
  <2>2. CASE rec.status = "failed" /\ rec.attempts = store[cur].attempts /\ rec.wait = Backoff[1]
    <3>1. Lifecycle!Outage(cur)
      BY <1>1, <2>1, <2>2, SavedColumns, SameColumns DEF Lifecycle!Outage
    <3> QED  BY <3>1 DEF Lifecycle!ItemNext
  <2>3. ASSUME NEW a \in ChargedTo(store[cur]), rec.status = "failed", a + 1 < MaxAttempts,
               rec.attempts = a + 1, rec.wait = Delay(a + 1)
        PROVE  Lifecycle!ItemNext(cur)
    <3>1. a \in Nat
      BY <1>1 DEF TypeOK, Records, ChargedTo
    <3>2. ~Lifecycle!BudgetSpent(a) /\ Lifecycle!Delay(a + 1) = Delay(a + 1)
      BY <2>3, <3>1, WorkerAssumption DEF Lifecycle!BudgetSpent, Lifecycle!Delay, Delay
    <3>3. Lifecycle!Postpone(cur)
      BY <1>1, <2>1, <2>3, <3>2, SavedColumns, SameCharges, ZenonT(60) DEF Lifecycle!Postpone
    <3> QED  BY <3>3 DEF Lifecycle!ItemNext
  <2>4. ASSUME NEW a \in ChargedTo(store[cur]), rec.status = "failed_permanent",
               rec.attempts = a + 1, rec.wait = None
        PROVE  Lifecycle!ItemNext(cur)
    <3>1. Lifecycle!GiveUp(cur)
      BY <1>1, <2>1, <2>4, SavedColumns, SameCharges DEF Lifecycle!GiveUp, Lifecycle!StopAt
    <3> QED  BY <3>1 DEF Lifecycle!ItemNext
  <2> QED  BY <1>4, <2>2, <2>3, <2>4 DEF FailedShape
<1> QED  BY <1>2, <1>3, <1>4

\* The operator's retry names the same items in both modules.
LEMMA RetryIsRetry == IInv /\ Retry => Lifecycle!Retry
<1> SUFFICES ASSUME IInv, Retry PROVE Lifecycle!Retry
  OBVIOUS
<1>1. PICK S \in RetryTargets :
        store' = [i \in Items |->
                    IF i \in S
                      THEN [store[i] EXCEPT !.status = "pending", !.attempts = 0,
                                            !.wait = None, !.error = None]
                      ELSE store[i]]
  BY DEF Retry
<1>2. S \in Lifecycle!RetryTargets
  <2>1. {i \in Items : [j \in Items |-> store[j].status][i] = "failed_permanent"}
          = {i \in Items : store[i].status = "failed_permanent"}
    OBVIOUS
  <2> QED  BY <2>1 DEF RetryTargets, Lifecycle!RetryTargets
<1>3. ASSUME NEW i \in Items
      PROVE  /\ store'[i].status = IF i \in S THEN "pending" ELSE store[i].status
             /\ store'[i].attempts = IF i \in S THEN 0 ELSE store[i].attempts
             /\ store'[i].wait = IF i \in S THEN None ELSE store[i].wait
  BY <1>1 DEF IInv, TypeOK, Records
<1> QED
  BY <1>2, <1>3 DEF Lifecycle!Retry

\* A minute is a minute.
LEMMA TickIsTick == IInv /\ Tick => Lifecycle!Tick
<1> SUFFICES ASSUME IInv, Tick PROVE Lifecycle!Tick
  OBVIOUS
<1>1. ASSUME NEW i \in Items
      PROVE  /\ store'[i].status = store[i].status /\ store'[i].attempts = store[i].attempts
             /\ store'[i].wait = Older(store[i].wait)
  BY DEF Tick, IInv, TypeOK, Records
<1> QED
  BY <1>1 DEF Lifecycle!Tick, Lifecycle!Older, Older

\* No other step writes state.json.
LEMMA OthersLeaveStore ==
  ASSUME [Next]_vars, ~Mark, ~Commit, ~Save, ~Retry, ~Tick
  PROVE  store' = store
BY DEF Next, PassStep, ItemStep, vars, durable, StartPass, EndPass, PickUp, MarkTimesOut,
   BeginDownload, Download, DownloadFails, DownloadFallback, CaptureText, CaptureFails, Extract,
   ExtractFails, CheckText, StreamPage, EmptyFallback, EmptyFails,
         StreamFails, Enrich, EnrichFails, WriteNote, WriteFails,
   CommitTimesOut, GenerateSkill, CleanUp, HandleOutage, HandleGiveUp, HandleRetryLater,
   SaveTimesOut, Crash

\* What each step of the worker is to the columns.
LEMMA StepIsStep ==
  ASSUME IInv, [Next]_vars
  PROVE  \/ Tick /\ Lifecycle!Tick
         \/ /\ ~Tick
            /\ Lifecycle!Retry \/ \E i \in Items : Lifecycle!ItemNext(i)
         \/ ~Tick /\ UNCHANGED Lifecycle!lifecycleVars
<1>1. CASE Mark \/ Commit
  <2>1. cur \in Items
    BY <1>1, CurrentItem DEF IInv, Mark, Commit
  <2>2. Lifecycle!ItemNext(cur)
    BY <1>1, MarkIsWork, CommitIsFinish DEF Lifecycle!ItemNext
  <2> QED  BY <2>1, <2>2, ItemIsNext, TickIsTick
<1>2. CASE Save
  <2>1. cur \in Items
    BY <1>2, CurrentItem DEF IInv, Save
  <2> QED  BY <1>2, <2>1, ItemIsNext, SaveIsOutcome, TickIsTick
<1>3. CASE Retry \/ Tick
  BY <1>3, RetryIsRetry, TickIsTick
<1>4. CASE ~(Mark \/ Commit \/ Save \/ Retry \/ Tick)
  BY <1>4, OthersLeaveStore DEF Lifecycle!lifecycleVars
<1> QED  BY <1>1, <1>2, <1>3, <1>4

\* Registrations are its first states.
LEMMA InitIsInit == Init => Lifecycle!Init
<1> SUFFICES ASSUME Init PROVE Lifecycle!Init
  OBVIOUS
<1>1. PICK reg \in [Items -> Registrations] : store = [i \in Items |-> reg[i][1]]
  BY DEF Init
<1>2. ASSUME NEW i \in Items
      PROVE  /\ store[i].status \in {"pending", "blocked"}
             /\ store[i].attempts = 0 /\ store[i].wait = None
  BY <1>1 DEF Registrations, NewRecord
<1> QED  BY <1>2 DEF Lifecycle!Init

\* process_item, with its caches, fallbacks, failed saves and kills, does to the columns of
\* state.json what docs/formal-model.md sections 4 and 5 publish, and nothing else.
THEOREM Implements == Spec => ImplementsLifecycle
<1>1. IInv /\ [Next]_vars => [Lifecycle!Next]_(Lifecycle!lifecycleVars)
  BY StepIsStep DEF Lifecycle!Next
<1> QED
  BY <1>1, InitIsInit, Invariance, PTL DEF Spec, ImplementsLifecycle, Lifecycle!Spec
-------------------------------------------------------------------------------
(* What the published state machine promises of time, kept by the worker. *)

\* A clock beside the worker, as RetryTiming has one beside ItemLifecycle: minutes since the
\* first charged failure of each item's budget.
VARIABLE since

\* The theorems about ItemLifecycle and RetryTiming, of the columns of state.json.
Promises == INSTANCE ItemLifecycleProofs WITH
  status <- [i \in Items |-> store[i].status],
  attempts <- [i \in Items |-> store[i].attempts],
  wait <- [i \in Items |-> store[i].wait]

\* It is read off the worker and never in its way.
Clocked ==
  /\ since = [i \in Items |-> None]
  /\ [][since' = [i \in Items |-> IF Tick THEN Promises!OneMore(since[i]) ELSE Promises!Clock(i)]
       ]_<<vars, since>>

\* The clock of an item without a failure does not run.
AtRest ==
  /\ since = [i \in Items |-> since[i]]
  /\ \A i \in Items : store[i].status \in {"pending", "done", "blocked"} => since[i] = None

LEMMA PromisesApply == Promises!RetryAssumption
BY WorkerAssumption DEF Promises!RetryAssumption

LEMMA SameMachine ==
  /\ Lifecycle!Init <=> Promises!Init
  /\ Lifecycle!Tick <=> Promises!Tick
  /\ Lifecycle!Retry <=> Promises!Retry
  /\ \A i \in Items : Lifecycle!ItemNext(i) <=> Promises!ItemNext(i)
<1>1. (Lifecycle!Init <=> Promises!Init) /\ (Lifecycle!Tick <=> Promises!Tick)
  BY DEF Lifecycle!Init, Promises!Init, Lifecycle!Tick, Promises!Tick, Lifecycle!Older,
         Promises!Older
<1>2. Lifecycle!Retry <=> Promises!Retry
  BY DEF Lifecycle!Retry, Promises!Retry, Lifecycle!RetryTargets, Promises!RetryTargets
<1>3. ASSUME NEW i \in Items PROVE Lifecycle!ItemNext(i) <=> Promises!ItemNext(i)
  BY DEF Lifecycle!ItemNext, Promises!ItemNext, Lifecycle!Work, Promises!Work,
         Lifecycle!Finish, Promises!Finish, Lifecycle!Outage, Promises!Outage,
         Lifecycle!Postpone, Promises!Postpone, Lifecycle!Exhaust, Promises!Exhaust,
         Lifecycle!GiveUp, Promises!GiveUp, Lifecycle!StopAt, Promises!StopAt,
         Lifecycle!BudgetSpent, Promises!BudgetSpent, Lifecycle!ChargedTo, Promises!ChargedTo,
         Lifecycle!Actionable, Promises!Actionable, Lifecycle!Delay, Promises!Delay,
         Lifecycle!Terminal, Promises!Terminal, Lifecycle!InFlight, Promises!InFlight
<1> QED  BY <1>1, <1>2, <1>3

\* A step that leaves an item's status and counter alone leaves its clock alone.
LEMMA ClockStands ==
  ASSUME AtRest, NEW i \in Items, store'[i].status = store[i].status,
         store'[i].attempts = store[i].attempts, store[i].attempts \in Nat
  PROVE  Promises!Clock(i) = since[i]
BY DEF Promises!Clock, AtRest

\* The step of one item leaves the columns of the others alone.
LEMMA OneItemMoves ==
  ASSUME NEW i \in Items, Promises!ItemNext(i), NEW j \in Items, j # i
  PROVE  store'[j].status = store[j].status /\ store'[j].attempts = store[j].attempts
<1> DEFINE st == [k \in Items |-> store[k].status]
           at == [k \in Items |-> store[k].attempts]
<1>1. st'[j] = st[j] /\ at'[j] = at[j]
  BY DEF Promises!ItemNext, Promises!Work, Promises!Finish, Promises!Outage,
         Promises!Postpone, Promises!Exhaust, Promises!GiveUp, Promises!StopAt
<1> QED  BY <1>1

LEMMA ClockedStep ==
  ASSUME IInv, AtRest, [Next]_vars,
         since' = [i \in Items |-> IF Tick THEN Promises!OneMore(since[i]) ELSE Promises!Clock(i)]
  PROVE  AtRest' /\ [Promises!TimedNext]_(Promises!timedVars)
<1>1. CASE Tick
  <2>1. \A i \in Items : store'[i].status = store[i].status
    BY <1>1 DEF Tick, IInv, TypeOK, Records
  <2>2. AtRest'
    BY <1>1, <2>1 DEF AtRest, Promises!OneMore
  <2>3. Promises!Tick
    BY <1>1, TickIsTick, SameMachine
  <2> QED  BY <1>1, <2>2, <2>3 DEF Promises!TimedNext
<1>2. CASE ~Tick
  <2>1. since' = [i \in Items |-> Promises!Clock(i)]
    BY <1>2
  <2>2. AtRest'
    BY <2>1 DEF AtRest, Promises!Clock
  <2>3. CASE Lifecycle!Retry
    BY <2>1, <2>2, <2>3, SameMachine DEF Promises!TimedNext
  <2>4. ASSUME NEW i \in Items, Lifecycle!ItemNext(i)
        PROVE  Promises!TimedNext
    <3>1. Promises!ItemNext(i)
      BY <2>4, SameMachine
    <3>2. \A j \in Items \ {i} : Promises!Clock(j) = since[j]
      BY <3>1, OneItemMoves, ClockStands DEF IInv, TypeOK, Records
    <3>3. since' = [since EXCEPT ![i] = Promises!Clock(i)]
      BY <2>1, <3>2 DEF AtRest
    <3> QED  BY <3>1, <3>3 DEF Promises!TimedNext
  <2>5. CASE UNCHANGED Lifecycle!lifecycleVars
    <3>1. \A i \in Items : store'[i].status = store[i].status /\ store'[i].attempts = store[i].attempts
      BY <2>5 DEF Lifecycle!lifecycleVars
    <3>2. since' = since
      BY <2>1, <3>1, ClockStands DEF AtRest, IInv, TypeOK, Records
    <3> QED  BY <2>2, <2>5, <3>2 DEF Lifecycle!lifecycleVars, Promises!timedVars
  <2> QED  BY <1>2, <2>2, <2>3, <2>4, <2>5, StepIsStep
<1> QED  BY <1>1, <1>2

\* With its clock the worker is RetryTiming.
LEMMA Timed == Spec /\ Clocked => Promises!TimedSpec
<1>1. Init /\ since = [i \in Items |-> None] => AtRest /\ Promises!TimedInit
  BY InitIsInit, SameMachine DEF AtRest, Promises!TimedInit
<1>2. /\ IInv /\ AtRest /\ [Next]_vars
      /\ [since' = [i \in Items |-> IF Tick THEN Promises!OneMore(since[i]) ELSE Promises!Clock(i)]
           ]_<<vars, since>>
      => AtRest' /\ [Promises!TimedNext]_(Promises!timedVars)
  <2>1. AtRest /\ UNCHANGED <<vars, since>>
          => AtRest' /\ UNCHANGED Promises!timedVars
    BY DEF AtRest, vars, durable, Promises!timedVars
  <2> QED  BY <2>1, ClockedStep
<1> QED  BY <1>1, <1>2, Invariance, PTL DEF Spec, Clocked, Promises!TimedSpec

\* The budget of an item with failures that may pass is not spent before the delays of the
\* schedule have gone by (docs/formal-model.md:235-243), wherever the worker is killed, whatever
\* saves time out and whatever outages lie between.
THEOREM GiveUpTakesTimeHolds == Spec /\ Clocked => Promises!GiveUpTakesTime
BY Timed, PromisesApply, Promises!GiveUpTakesTimeHolds DEF Promises!GiveUpTakesTimeHolds

\* Done and blocked items stay that, and given-up ones are started over only by `retry`, with a
\* fresh budget, wherever the worker is killed and whatever saves time out.
THEOREM SettledHolds == Spec => Promises!Settled
<1>1. [Lifecycle!Next]_(Lifecycle!lifecycleVars) => [Promises!Next]_(Promises!lifecycleVars)
  BY SameMachine DEF Lifecycle!Next, Promises!Next, Lifecycle!lifecycleVars, Promises!lifecycleVars
<1>2. Spec => Promises!Spec
  BY <1>1, SameMachine, Implements, PTL DEF ImplementsLifecycle, Lifecycle!Spec, Promises!Spec
<1> QED  BY <1>2, PromisesApply, Promises!SettledHolds DEF Promises!SettledHolds
-------------------------------------------------------------------------------
(* What is charged and what is tried. *)

\* An item that is not settled has an attempt left, and was tried as often as it was
\* charged; the item in hand once more.
Charged ==
  /\ \A i \in Items : store[i].status \notin Terminal =>
       store[i].attempts < MaxAttempts /\ store[i].attempts <= tries[i]
  /\ pc \notin {"idle", "pass", "save"} /\ Open(store[cur]) => store[cur].attempts < tries[cur]
  /\ pc = "save" =>
       /\ rec.status = "failed" => rec.attempts < MaxAttempts /\ rec.attempts <= tries[cur]
       /\ rec.status = "failed_permanent" =>
            IsTerminal(HandledAs(rec.error)) \/ tries[cur] >= MaxAttempts

LEMMA InitCharged == Init => Charged /\ OutageIsHarmless
<1> SUFFICES ASSUME Init PROVE Charged /\ OutageIsHarmless
  OBVIOUS
<1>1. PICK reg \in [Items -> Registrations] : store = [i \in Items |-> reg[i][1]]
  BY DEF Init
<1>2. ASSUME NEW i \in Items
      PROVE  store[i].status \in {"pending", "blocked"} /\ store[i].attempts = 0
  BY <1>1 DEF Registrations, NewRecord
<1>3. /\ pc = "idle" /\ tries \in [Items -> Nat] /\ \A i \in Items : tries[i] = 0
      /\ MaxAttempts \in Nat \ {0}
  BY WorkerAssumption DEF Init
<1>4. Charged
  BY <1>2, <1>3 DEF Charged, Terminal
<1>5. OutageIsHarmless
  BY <1>2 DEF OutageIsHarmless
<1> QED  BY <1>4, <1>5

\* A step of process_item up to the handler.
LEMMA QuietCharges ==
  ASSUME Charged, OutageIsHarmless, pc \notin {"idle", "pass", "save"},
         pc' \notin {"idle", "pass", "save"}, store' = store, tries' = tries, cur' = cur
  PROVE  Charged' /\ OutageIsHarmless'
BY DEF Charged, OutageIsHarmless, Open

\* A save before it, of a record that was charged no more than the saved one.
LEMMA SavesCharge ==
  ASSUME IInv, Charged, OutageIsHarmless, Mark \/ Commit
  PROVE  Charged' /\ OutageIsHarmless'
<1>1. /\ cur \in Items /\ store' = [store EXCEPT ![cur] = rec]
      /\ tries' = tries /\ cur' = cur /\ pc' \in {"work", "skill"} /\ pc \in {"mark", "commit"}
      /\ rec' = rec
  BY CurrentItem DEF IInv, Mark, Commit, SaveRecord, locals
<1>2. store'[cur] = rec /\ \A i \in Items \ {cur} : store'[i] = store[i]
  BY <1>1 DEF IInv, TypeOK
<1>3. \/ DoneShape(rec)
      \/ rec.status \in InFlight /\ Open(store[cur]) /\ rec.attempts = store[cur].attempts
  BY <1>1 DEF IInv, InMemory, BeforeNote, AfterNote, Mark, Commit
<1> QED
  BY <1>1, <1>2, <1>3 DEF Charged, OutageIsHarmless, Open, DoneShape

\* The handler charges one attempt, unless the account is dead.
LEMMA HandlerCharges ==
  ASSUME IInv, Charged, OutageIsHarmless, ~ShippedProviders,
         HandleOutage \/ HandleGiveUp \/ HandleRetryLater
  PROVE  Charged' /\ OutageIsHarmless'
<1>1. /\ cur \in Items /\ cur' = cur /\ store' = store /\ pc = "handler" /\ pc' = "save"
      /\ exc \in Exceptions /\ HandledAs(exc) = exc
      /\ store[cur].attempts \in Nat /\ rec.attempts \in Nat /\ rec \in Records
      /\ tries \in [Items -> Int]
  BY CurrentItem DEF IInv, TypeOK, InMemory, AfterNote, HandleOutage, HandleGiveUp,
     HandleRetryLater, HandledAs, Records, durable
<1>2. /\ Open(store[cur]) /\ store[cur].attempts < tries[cur]
      /\ store[cur].attempts < MaxAttempts /\ rec.attempts \in ChargedTo(store[cur])
      /\ exc = "llm_account" => rec.attempts = store[cur].attempts
  BY <1>1 DEF IInv, InMemory, AfterNote, Charged, Open
<1>3. rec.attempts <= store[cur].attempts
  BY <1>1, <1>2 DEF ChargedTo
<1>4. tries' = [tries EXCEPT ![cur] = IF exc = "llm_account" THEN @ - 1 ELSE @]
  BY DEF HandleOutage, HandleGiveUp, HandleRetryLater, CountTry
<1>5. /\ tries'[cur] = IF exc = "llm_account" THEN tries[cur] - 1 ELSE tries[cur]
      /\ \A i \in Items \ {cur} : tries'[i] = tries[i]
  BY <1>1, <1>4
<1>6. tries'[cur] \in Int /\ tries'[cur] >= store[cur].attempts
  BY <1>1, <1>2, <1>5
<1>7. /\ rec'.status = "failed" => rec'.attempts < MaxAttempts /\ rec'.attempts <= tries'[cur]
      /\ rec'.status = "failed_permanent" =>
           IsTerminal(HandledAs(rec'.error)) \/ tries'[cur] >= MaxAttempts
  <2>1. CASE HandleOutage
    <3>1. rec'.status = "failed" /\ rec'.attempts = rec.attempts
      BY <1>1, <2>1 DEF HandleOutage, OutageRecord, Records
    <3> QED  BY <1>1, <1>2, <1>3, <1>6, <3>1, WorkerAssumption
  <2>2. CASE HandleGiveUp
    <3>1. rec'.status = "failed_permanent" /\ rec'.error = exc /\ exc # "llm_account"
      BY <1>1, <2>2 DEF HandleGiveUp, GivenUpRecord, Records
    <3>2. CASE rec.attempts + 1 >= MaxAttempts
      BY <1>1, <1>2, <1>3, <1>5, <3>1, <3>2, WorkerAssumption
    <3>3. CASE IsTerminal(exc)
      BY <1>1, <3>1, <3>3
    <3> QED  BY <1>1, <2>2, <3>2, <3>3 DEF HandleGiveUp, BudgetSpent
  <2>3. CASE HandleRetryLater
    <3>1. /\ rec'.status = "failed" /\ rec'.attempts = rec.attempts + 1
          /\ exc # "llm_account" /\ ~(rec.attempts + 1 >= MaxAttempts)
      BY <1>1, <2>3 DEF HandleRetryLater, RetryRecord, BudgetSpent, Records
    <3> QED  BY <1>1, <1>2, <1>3, <1>5, <3>1, WorkerAssumption
  <2> QED  BY <2>1, <2>2, <2>3
<1>8. \A i \in Items : store[i].status \notin Terminal =>
        store[i].attempts < MaxAttempts /\ store[i].attempts <= tries'[i]
  BY <1>2, <1>5, <1>6 DEF Charged
<1>9. \A i \in Items : store[i].status = "failed_permanent" => i # cur
  BY <1>2 DEF Open
<1> QED  BY <1>1, <1>5, <1>7, <1>8, <1>9 DEF Charged, OutageIsHarmless

\* The save after it.
LEMMA LastSaveCharges ==
  ASSUME IInv, Charged, OutageIsHarmless, Save
  PROVE  Charged' /\ OutageIsHarmless'
<1>1. /\ cur \in Items /\ store' = [store EXCEPT ![cur] = rec]
      /\ tries' = tries /\ pc' = "pass" /\ pc = "save"
  BY CurrentItem DEF IInv, Save, SaveRecord
<1>2. store'[cur] = rec /\ \A i \in Items \ {cur} : store'[i] = store[i]
  BY <1>1 DEF IInv, TypeOK
<1>3. DoneShape(rec) \/ rec.status \in {"failed", "failed_permanent"}
  BY <1>1 DEF IInv, InMemory, AfterNote, FailedShape
<1> QED  BY <1>1, <1>2, <1>3 DEF Charged, OutageIsHarmless, DoneShape

\* An attempt begins.
LEMMA PickUpCharges ==
  ASSUME IInv, Charged, OutageIsHarmless, NEW i \in Items, PickUp(i)
  PROVE  Charged' /\ OutageIsHarmless'
<1>1. /\ cur' = i /\ pc' \in {"check", "mark"} /\ store' = store
      /\ tries' = [tries EXCEPT ![i] = IF @ > MaxAttempts THEN @ ELSE @ + 1]
      /\ tries \in [Items -> Int]
  BY DEF PickUp, IInv, TypeOK, durable
<1>2. /\ tries'[i] = IF tries[i] > MaxAttempts THEN tries[i] ELSE tries[i] + 1
      /\ \A j \in Items \ {i} : tries'[j] = tries[j]
  BY <1>1
<1>3. /\ Open(store[i]) /\ store[i].attempts < MaxAttempts /\ store[i].attempts <= tries[i]
      /\ store[i].attempts \in Nat /\ tries[i] \in Int
  BY <1>1 DEF IInv, InMemory, TypeOK, Records, PickUp, NextItem, Charged, Open
<1>4. store[i].attempts < tries'[i] /\ tries[i] <= tries'[i] /\ tries'[i] \in Int
  BY <1>2, <1>3, WorkerAssumption
<1>5. \A j \in Items : store[j].status = "failed_permanent" => j # i
  BY <1>3 DEF Open
<1> QED  BY <1>1, <1>2, <1>3, <1>4, <1>5 DEF Charged, OutageIsHarmless

\* The operator starts the count again.
LEMMA RetryCharges ==
  ASSUME IInv, Charged, OutageIsHarmless, Retry
  PROVE  Charged' /\ OutageIsHarmless'
<1>1. PICK S \in RetryTargets :
        /\ store' = [i \in Items |->
                      IF i \in S
                        THEN [store[i] EXCEPT !.status = "pending", !.attempts = 0,
                                              !.wait = None, !.error = None]
                        ELSE store[i]]
        /\ tries' = [i \in Items |-> IF i \in S THEN 0 ELSE tries[i]]
        /\ UNCHANGED <<pc, cur, rec>>
  BY DEF Retry, locals
<1>2. S \subseteq Items /\ \A i \in S : store[i].status = "failed_permanent"
  BY DEF RetryTargets
<1>3. \A i \in Items : IF i \in S
        THEN store'[i].status = "pending" /\ store'[i].attempts = 0 /\ tries'[i] = 0
        ELSE store'[i] = store[i] /\ tries'[i] = tries[i]
  BY <1>1 DEF IInv, TypeOK, Records
<1>4. pc \notin {"idle", "pass"} => cur \in Items \ S
  BY <1>2, CurrentItem DEF IInv, TypeOK, InMemory, BeforeNote, AfterNote, Open, DoneShape
<1>5. OutageIsHarmless'
  BY <1>3 DEF OutageIsHarmless
<1>6. \A i \in Items : store'[i].status \notin Terminal =>
        store'[i].attempts < MaxAttempts /\ store'[i].attempts <= tries'[i]
  BY <1>3, WorkerAssumption DEF Charged
<1>7. pc \notin {"idle", "pass"} => store'[cur] = store[cur] /\ tries'[cur] = tries[cur]
  BY <1>3, <1>4
<1> QED  BY <1>1, <1>5, <1>6, <1>7 DEF Charged

LEMMA TickCharges ==
  ASSUME IInv, Charged, OutageIsHarmless, Tick
  PROVE  Charged' /\ OutageIsHarmless'
<1>1. pc # "save" /\ UNCHANGED <<pc, cur, tries, rec>>
  BY DEF Tick, locals
<1>2. \A i \in Items :
        /\ store'[i].status = store[i].status /\ store'[i].attempts = store[i].attempts
        /\ store'[i].error = store[i].error
        /\ store'[i].wait = Older(store[i].wait) /\ store[i].wait \in Nat \cup {None}
  BY DEF Tick, IInv, TypeOK, Records
<1>3. pc \notin {"idle", "pass"} => cur \in Items /\ (Open(store[cur]) \/ DoneShape(store[cur]))
  BY <1>1, CurrentItem DEF IInv, TypeOK, InMemory, BeforeNote, AfterNote
<1> QED  BY <1>1, <1>2, <1>3 DEF Charged, OutageIsHarmless, Open, DoneShape

\* Steps that neither charge nor save anything.
LEMMA OthersCharge ==
  ASSUME IInv, Charged, OutageIsHarmless, StartPass \/ EndPass \/ CleanUp \/ SaveTimesOut \/ Crash
  PROVE  Charged' /\ OutageIsHarmless'
<1>1. store' = store /\ tries' = tries
  BY DEF StartPass, EndPass, CleanUp, SaveTimesOut, Crash, durable
<1>2. pc' \in {"idle", "pass"} \/ (pc' = "save" /\ rec' = rec /\ cur' = cur /\ DoneShape(rec))
  BY DEF StartPass, EndPass, CleanUp, SaveTimesOut, Crash, locals, IInv, InMemory, AfterNote
<1> QED  BY <1>1, <1>2 DEF Charged, OutageIsHarmless, DoneShape

LEMMA NextCharges ==
  ASSUME IInv, Charged, OutageIsHarmless, ~ShippedProviders, [Next]_vars
  PROVE  Charged' /\ OutageIsHarmless'
<1>1. CASE ItemStep
  <2>1. CASE Mark \/ Commit
    BY <2>1, SavesCharge
  <2>2. CASE HandleOutage \/ HandleGiveUp \/ HandleRetryLater
    BY <2>2, HandlerCharges
  <2>3. CASE Save
    BY <2>3, LastSaveCharges
  <2>4. CASE CleanUp \/ SaveTimesOut
    BY <2>4, OthersCharge
  <2>5. CASE \/ MarkTimesOut \/ BeginDownload \/ Download \/ DownloadFails \/ DownloadFallback
             \/ CaptureText \/ CaptureFails \/ Extract \/ ExtractFails \/ CheckText
             \/ StreamPage \/ EmptyFallback \/ EmptyFails \/ StreamFails
             \/ Enrich \/ EnrichFails \/ WriteNote \/ WriteFails \/ CommitTimesOut \/ GenerateSkill
    <3>1. /\ pc \notin {"idle", "pass", "save"} /\ pc' \notin {"idle", "pass", "save"}
          /\ store' = store /\ tries' = tries /\ cur' = cur
      BY <2>5 DEF MarkTimesOut, BeginDownload, Download, DownloadFails, DownloadFallback,
         CaptureText, CaptureFails, Extract, ExtractFails, CheckText, StreamPage, EmptyFallback,
         EmptyFails, StreamFails, Enrich, EnrichFails, WriteNote, WriteFails, CommitTimesOut,
         GenerateSkill, Raise, Enter, Working, durable, locals
    <3> QED  BY <3>1, QuietCharges
  <2> QED  BY <1>1, <2>1, <2>2, <2>3, <2>4, <2>5 DEF ItemStep
<1>2. CASE StartPass \/ EndPass \/ Crash
  BY <1>2, OthersCharge
<1>3. ASSUME NEW i \in Items, PickUp(i) PROVE Charged' /\ OutageIsHarmless'
  BY <1>3, PickUpCharges
<1>4. CASE Retry \/ Tick
  BY <1>4, RetryCharges, TickCharges
<1>5. CASE UNCHANGED vars
  BY <1>5 DEF vars, Charged, OutageIsHarmless
<1> QED  BY <1>1, <1>2, <1>3, <1>4, <1>5 DEF Next, PassStep

\* A dead provider account costs no item its budget, whatever else fails and whoever is
\* killed, when the providers pass the failure on (the shipped ones do not).
THEOREM OutageIsHarmlessHolds == ~ShippedProviders => (Spec => []OutageIsHarmless)
<1> SUFFICES ASSUME ~ShippedProviders PROVE Spec => []OutageIsHarmless
  OBVIOUS
<1>1. IInv /\ Charged /\ OutageIsHarmless /\ [Next]_vars
        => (IInv /\ Charged /\ OutageIsHarmless)'
  BY NextIInv, NextCharges
<1> QED  BY <1>1, InitIInv, InitCharged, PTL DEF Spec
-------------------------------------------------------------------------------
(* Where every attempt ends in the handler or in a note. *)

Uninterrupted == {"crash", "lock"} \cap Faults = {}

\* An item was not tried more often than it was charged, the item in hand once more.
Tried ==
  /\ \A i \in Items : store[i].status \notin Terminal => store[i].attempts < MaxAttempts
  /\ \A i \in Items \ {cur} :
       tries[i] <= IF store[i].status \in Terminal THEN MaxAttempts ELSE store[i].attempts
  /\ pc \notin {"idle", "pass", "skill", "clean", "save"} =>
       tries[cur] <= store[cur].attempts + 1
  /\ pc \in {"skill", "clean"} => tries[cur] <= MaxAttempts
  /\ pc = "handler" => rec.attempts = store[cur].attempts
  /\ pc = "save" =>
       /\ rec.status \in {"failed", "failed_permanent", "done"}
       /\ tries[cur] <= IF rec.status = "failed" THEN rec.attempts ELSE MaxAttempts
       /\ rec.status = "failed" => rec.attempts < MaxAttempts

LEMMA InitTried == Init => Tried
<1> SUFFICES ASSUME Init PROVE Tried
  OBVIOUS
<1>1. PICK reg \in [Items -> Registrations] : store = [i \in Items |-> reg[i][1]]
  BY DEF Init
<1>2. ASSUME NEW i \in Items
      PROVE  store[i].status \in {"pending", "blocked"} /\ store[i].attempts = 0
  BY <1>1 DEF Registrations, NewRecord
<1> QED  BY <1>2, WorkerAssumption DEF Init, Tried

\* A step of process_item up to the handler.
LEMMA QuietTries ==
  ASSUME Tried, pc \notin {"idle", "pass", "skill", "clean", "save"},
         pc' \notin {"idle", "pass", "skill", "clean", "save"},
         pc' = "handler" => rec'.attempts = store[cur].attempts,
         store' = store, tries' = tries, cur' = cur
  PROVE  Tried'
BY DEF Tried

LEMMA MarkTries == ASSUME IInv, Tried, Mark PROVE Tried'
<1>1. /\ cur \in Items /\ store' = [store EXCEPT ![cur] = rec]
      /\ tries' = tries /\ cur' = cur /\ rec' = rec /\ pc = "mark" /\ pc' = "work"
  BY CurrentItem DEF IInv, Mark, SaveRecord, locals
<1>2. store'[cur] = rec /\ \A i \in Items \ {cur} : store'[i] = store[i]
  BY <1>1 DEF IInv, TypeOK
<1>3. Open(store[cur]) /\ rec.attempts = store[cur].attempts
  BY <1>1 DEF IInv, InMemory, BeforeNote
<1> QED  BY <1>1, <1>2, <1>3 DEF Tried, Open

LEMMA CommitTries == ASSUME IInv, Tried, Commit PROVE Tried'
<1>1. /\ cur \in Items /\ store' = [store EXCEPT ![cur] = rec]
      /\ tries' = tries /\ cur' = cur /\ rec' = rec /\ pc = "commit" /\ pc' = "skill"
      /\ tries \in [Items -> Int] /\ store[cur].attempts \in Nat
  BY CurrentItem DEF IInv, TypeOK, Records, Commit, SaveRecord, locals
<1>2. store'[cur] = rec /\ \A i \in Items \ {cur} : store'[i] = store[i]
  BY <1>1 DEF IInv, TypeOK
<1>3. Open(store[cur]) /\ DoneShape(rec)
  BY <1>1 DEF IInv, InMemory, AfterNote
<1>4. tries[cur] <= MaxAttempts
  BY <1>1, <1>3, WorkerAssumption DEF Tried, Open
<1> QED  BY <1>1, <1>2, <1>3, <1>4 DEF Tried, DoneShape

LEMMA HandlerTries ==
  ASSUME IInv, Tried, HandleOutage \/ HandleGiveUp \/ HandleRetryLater
  PROVE  Tried'
<1>1. /\ cur \in Items /\ cur' = cur /\ store' = store /\ pc = "handler" /\ pc' = "save"
      /\ exc \in Exceptions /\ tries \in [Items -> Int]
      /\ store[cur].attempts \in Nat /\ rec \in Records
  BY CurrentItem DEF IInv, TypeOK, InMemory, AfterNote, HandleOutage, HandleGiveUp,
     HandleRetryLater, Records, durable
<1>2. /\ store[cur].attempts < MaxAttempts /\ rec.attempts = store[cur].attempts
      /\ tries[cur] <= store[cur].attempts + 1
  BY <1>1 DEF IInv, InMemory, AfterNote, Tried, Open
<1>3. tries' = [tries EXCEPT ![cur] = IF exc = "llm_account" THEN @ - 1 ELSE @]
  BY DEF HandleOutage, HandleGiveUp, HandleRetryLater, CountTry
<1>4. /\ tries'[cur] = IF exc = "llm_account" THEN tries[cur] - 1 ELSE tries[cur]
      /\ \A i \in Items \ {cur} : tries'[i] = tries[i]
  BY <1>1, <1>3
<1>5. /\ rec'.status \in {"failed", "failed_permanent", "done"}
      /\ tries'[cur] <= IF rec'.status = "failed" THEN rec'.attempts ELSE MaxAttempts
      /\ rec'.status = "failed" => rec'.attempts < MaxAttempts
  <2>1. CASE HandleOutage
    <3>1. rec'.status = "failed" /\ rec'.attempts = rec.attempts /\ exc = "llm_account"
      BY <1>1, <2>1 DEF HandleOutage, OutageRecord, HandledAs, Records
    <3> QED  BY <1>1, <1>2, <1>4, <3>1
  <2>2. CASE HandleGiveUp
    <3>1. rec'.status = "failed_permanent"
      BY <1>1, <2>2 DEF HandleGiveUp, GivenUpRecord, Records
    <3> QED  BY <1>1, <1>2, <1>4, <3>1, WorkerAssumption
  <2>3. CASE HandleRetryLater
    <3>1. /\ rec'.status = "failed" /\ rec'.attempts = rec.attempts + 1
          /\ ~(rec.attempts + 1 >= MaxAttempts)
      BY <1>1, <2>3 DEF HandleRetryLater, RetryRecord, BudgetSpent, Records
    <3> QED  BY <1>1, <1>2, <1>4, <3>1, WorkerAssumption
  <2> QED  BY <2>1, <2>2, <2>3
<1>6. \A i \in Items \ {cur} :
        tries'[i] <= IF store'[i].status \in Terminal THEN MaxAttempts ELSE store'[i].attempts
  BY <1>1, <1>4 DEF Tried
<1>7. \A i \in Items : store'[i].status \notin Terminal => store'[i].attempts < MaxAttempts
  BY <1>1 DEF Tried
<1> QED  BY <1>1, <1>5, <1>6, <1>7 DEF Tried

LEMMA SaveTries == ASSUME IInv, Tried, Save PROVE Tried'
<1>1. /\ cur \in Items /\ store' = [store EXCEPT ![cur] = rec]
      /\ tries' = tries /\ pc' = "pass" /\ pc = "save" /\ cur' = None
  BY CurrentItem DEF IInv, Save, SaveRecord, Release
<1>2. store'[cur] = rec /\ \A i \in Items \ {cur} : store'[i] = store[i]
  BY <1>1 DEF IInv, TypeOK
<1>3. /\ rec.status \in {"failed", "failed_permanent", "done"}
      /\ rec.status = "failed" => rec.attempts < MaxAttempts
      /\ tries[cur] <= IF rec.status = "failed" THEN rec.attempts ELSE MaxAttempts
  BY <1>1 DEF Tried
<1>4. \A i \in Items : store'[i].status \notin Terminal => store'[i].attempts < MaxAttempts
  BY <1>2, <1>3 DEF Tried
<1>5. tries'[cur] <= IF store'[cur].status \in Terminal THEN MaxAttempts ELSE store'[cur].attempts
  BY <1>1, <1>2, <1>3
<1>6. ASSUME NEW i \in Items
      PROVE  tries'[i] <= IF store'[i].status \in Terminal THEN MaxAttempts ELSE store'[i].attempts
  BY <1>1, <1>2, <1>5 DEF Tried
<1> QED  BY <1>1, <1>4, <1>6 DEF Tried

LEMMA PickUpTries == ASSUME IInv, Tried, NEW i \in Items, PickUp(i) PROVE Tried'
<1>1. /\ cur' = i /\ pc = "pass" /\ pc' \in {"check", "mark"} /\ store' = store
      /\ tries' = [tries EXCEPT ![i] = IF @ > MaxAttempts THEN @ ELSE @ + 1]
      /\ tries \in [Items -> Int] /\ cur = None
  BY DEF PickUp, NextItem, IInv, TypeOK, durable
<1>2. /\ tries'[i] = IF tries[i] > MaxAttempts THEN tries[i] ELSE tries[i] + 1
      /\ \A j \in Items \ {i} : tries'[j] = tries[j]
  BY <1>1
<1>3. /\ Open(store[i]) /\ store[i].attempts < MaxAttempts /\ tries[i] <= store[i].attempts
      /\ store[i].attempts \in Nat /\ tries[i] \in Int
  BY <1>1, WorkerAssumption
  DEF IInv, InMemory, TypeOK, Records, PickUp, NextItem, Tried, Open
<1>4. tries'[i] <= store[i].attempts + 1
  BY <1>2, <1>3, WorkerAssumption
<1> QED  BY <1>1, <1>2, <1>3, <1>4, WorkerAssumption DEF Tried

LEMMA RetryTries == ASSUME IInv, Tried, Retry PROVE Tried'
<1>1. PICK S \in RetryTargets :
        /\ store' = [i \in Items |->
                      IF i \in S
                        THEN [store[i] EXCEPT !.status = "pending", !.attempts = 0,
                                              !.wait = None, !.error = None]
                        ELSE store[i]]
        /\ tries' = [i \in Items |-> IF i \in S THEN 0 ELSE tries[i]]
        /\ UNCHANGED <<pc, cur, rec>>
  BY DEF Retry, locals
<1>2. S \subseteq Items /\ \A i \in S : store[i].status = "failed_permanent"
  BY DEF RetryTargets
<1>3. \A i \in Items : IF i \in S
        THEN store'[i].status = "pending" /\ store'[i].attempts = 0 /\ tries'[i] = 0
        ELSE store'[i] = store[i] /\ tries'[i] = tries[i]
  BY <1>1 DEF IInv, TypeOK, Records
<1>4. pc \notin {"idle", "pass"} => cur \in Items \ S
  BY <1>2, CurrentItem DEF IInv, TypeOK, InMemory, BeforeNote, AfterNote, Open, DoneShape
<1>5. pc \notin {"idle", "pass"} => store'[cur] = store[cur] /\ tries'[cur] = tries[cur]
  BY <1>3, <1>4
<1>6. \A i \in Items : store'[i].status \notin Terminal => store'[i].attempts < MaxAttempts
  BY <1>3, WorkerAssumption DEF Tried
<1>7. \A i \in Items \ {cur} :
        tries'[i] <= IF store'[i].status \in Terminal THEN MaxAttempts ELSE store'[i].attempts
  BY <1>3, WorkerAssumption DEF Tried
<1> QED  BY <1>1, <1>5, <1>6, <1>7 DEF Tried

LEMMA TickTries == ASSUME IInv, Tried, Tick PROVE Tried'
<1>1. UNCHANGED <<pc, cur, tries, rec>>
  BY DEF Tick, locals
<1>2. \A i \in Items :
        store'[i].status = store[i].status /\ store'[i].attempts = store[i].attempts
  BY DEF Tick, IInv, TypeOK, Records
<1>3. pc \notin {"idle", "pass"} => cur \in Items
  BY CurrentItem DEF IInv
<1> QED  BY <1>1, <1>2, <1>3 DEF Tried

LEMMA NextTries == ASSUME IInv, Tried, Uninterrupted, [Next]_vars PROVE Tried'
<1>1. CASE ItemStep
  <2>1. CASE Mark \/ Commit \/ Save
    BY <2>1, MarkTries, CommitTries, SaveTries
  <2>2. CASE HandleOutage \/ HandleGiveUp \/ HandleRetryLater
    BY <2>2, HandlerTries
  <2>3. CASE MarkTimesOut \/ CommitTimesOut \/ SaveTimesOut
    BY <2>3 DEF MarkTimesOut, CommitTimesOut, SaveTimesOut, Uninterrupted
  <2>4. CASE \/ DownloadFails \/ CaptureFails \/ ExtractFails \/ EmptyFails \/ StreamFails
             \/ EnrichFails \/ WriteFails
    <3>1. /\ pc \in {"fetching", "work", "check", "streaming"} /\ pc' = "handler"
          /\ store' = store /\ tries' = tries /\ cur' = cur /\ rec' = rec
      BY <2>4 DEF DownloadFails, CaptureFails, ExtractFails, EmptyFails, StreamFails, EnrichFails,
         WriteFails, Raise, Working, durable
    <3> QED  BY <3>1, QuietTries DEF IInv, InMemory, BeforeNote
  <2>5. CASE \/ BeginDownload \/ Download \/ DownloadFallback \/ CaptureText \/ Extract
             \/ CheckText \/ StreamPage \/ EmptyFallback \/ Enrich \/ WriteNote
    <3>1. /\ pc \in {"fetching", "work", "check", "streaming"}
          /\ pc' \in {"fetching", "work", "check", "streaming", "mark", "commit"}
          /\ store' = store /\ tries' = tries /\ cur' = cur
      BY <2>5 DEF BeginDownload, Download, DownloadFallback, CaptureText, Extract, CheckText,
         StreamPage, EmptyFallback, Enrich, WriteNote, Enter, Working, durable, locals
    <3> QED  BY <3>1, QuietTries
  <2>6. CASE GenerateSkill \/ CleanUp
    <3>1. /\ pc \in {"skill", "clean"} /\ pc' \in {"clean", "save"}
          /\ store' = store /\ tries' = tries /\ cur' = cur
      BY <2>6 DEF GenerateSkill, CleanUp, durable, locals
    <3>2. rec'.status = "done" \/ pc' = "clean"
      BY <2>6 DEF GenerateSkill, CleanUp, locals, IInv, InMemory, AfterNote, DoneShape
    <3>3. tries'[cur'] <= MaxAttempts
      BY <3>1 DEF Tried
    <3>4. \A i \in Items \ {cur'} :
            tries'[i] <= IF store'[i].status \in Terminal THEN MaxAttempts ELSE store'[i].attempts
      BY <3>1 DEF Tried
    <3>5. \A i \in Items : store'[i].status \notin Terminal => store'[i].attempts < MaxAttempts
      BY <3>1 DEF Tried
    <3> QED  BY <3>1, <3>2, <3>3, <3>4, <3>5 DEF Tried
  <2> QED  BY <1>1, <2>1, <2>2, <2>3, <2>4, <2>5, <2>6 DEF ItemStep
<1>2. CASE StartPass \/ EndPass
  BY <1>2 DEF StartPass, EndPass, Tried, durable, locals
<1>3. CASE Crash
  BY <1>3 DEF Crash, Uninterrupted
<1>4. ASSUME NEW i \in Items, PickUp(i) PROVE Tried'
  BY <1>4, PickUpTries
<1>5. CASE Retry \/ Tick
  BY <1>5, RetryTries, TickTries
<1>6. CASE UNCHANGED vars
  BY <1>6 DEF vars, Tried
<1> QED  BY <1>1, <1>2, <1>3, <1>4, <1>5, <1>6 DEF Next, PassStep

\* Proposition 5.1 of docs/formal-model.md, where neither a kill nor a failed save lets an
\* attempt go uncharged: an item is tried MaxAttempts times at most, outages apart.
THEOREM BoundedAttemptsHolds == Uninterrupted => (Spec => []BoundedAttempts)
<1> SUFFICES ASSUME Uninterrupted PROVE Spec => []BoundedAttempts
  OBVIOUS
<1>1. IInv /\ Tried /\ [Next]_vars => (IInv /\ Tried)'
  BY NextIInv, NextTries
<1>2. IInv /\ Tried => BoundedAttempts
  <2> SUFFICES ASSUME IInv, Tried, NEW i \in Items PROVE tries[i] <= MaxAttempts
    BY DEF BoundedAttempts
  <2>1. tries[i] \in Int /\ store[i].attempts \in Nat /\ rec.attempts \in Nat
    BY DEF IInv, TypeOK, Records
  <2>2. CASE i # cur
    BY <2>1, <2>2, WorkerAssumption DEF Tried
  <2>3. CASE i = cur
    <3>1. pc \notin {"idle", "pass"} /\ MaxAttempts \in Nat
      BY <2>3, WorkerAssumption DEF IInv, TypeOK
    <3>2. pc \notin {"skill", "clean", "save"} => Open(store[cur])
      BY <3>1 DEF IInv, TypeOK, InMemory, BeforeNote, AfterNote
    <3>3. CASE pc \in {"skill", "clean"}
      BY <2>3, <3>3 DEF Tried
    <3>4. CASE pc = "save"
      BY <2>1, <2>3, <3>1, <3>4 DEF Tried
    <3>5. CASE pc \notin {"skill", "clean", "save"}
      <4>1. tries[i] <= store[i].attempts + 1 /\ store[i].attempts < MaxAttempts
        BY <2>3, <3>1, <3>2, <3>5 DEF Tried, Open
      <4> QED  BY <2>1, <3>1, <4>1
    <3> QED  BY <3>3, <3>4, <3>5
  <2> QED  BY <2>2, <2>3
<1> QED  BY <1>1, <1>2, InitIInv, InitTried, PTL DEF Spec
-------------------------------------------------------------------------------
(* What the last save of an attempt changes. *)

\* The counter in hand is the saved one until the handler charges it.
Counting ==
  /\ pc = "handler" => rec.attempts = store[cur].attempts
  /\ pc = "save" /\ rec.status \in {"failed", "failed_permanent"} =>
       exc = "llm_account" \/ rec.attempts = store[cur].attempts + 1

LEMMA NextCounting == ASSUME IInv, Counting, "lock" \notin Faults, [Next]_vars PROVE Counting'
<1>1. CASE HandleOutage \/ HandleGiveUp \/ HandleRetryLater
  <2>1. pc = "handler" /\ pc' = "save" /\ store' = store /\ cur' = cur /\ exc' = exc
        /\ rec \in Records
    BY <1>1 DEF IInv, TypeOK, HandleOutage, HandleGiveUp, HandleRetryLater, durable
  <2>2. HandleOutage => exc = "llm_account"
    BY DEF HandleOutage, HandledAs
  <2>3. HandleGiveUp \/ HandleRetryLater => rec'.attempts = rec.attempts + 1
    BY <2>1 DEF HandleGiveUp, HandleRetryLater, GivenUpRecord, RetryRecord, Records
  <2> QED  BY <1>1, <2>1, <2>2, <2>3 DEF Counting
<1>2. CASE \/ DownloadFails \/ CaptureFails \/ ExtractFails \/ EmptyFails \/ StreamFails
           \/ EnrichFails \/ WriteFails
  BY <1>2 DEF DownloadFails, CaptureFails, ExtractFails, EmptyFails, StreamFails, EnrichFails,
     WriteFails, Raise, Working, durable, IInv, InMemory, BeforeNote, Counting
<1>3. CASE CleanUp
  BY <1>3 DEF CleanUp, Counting, IInv, InMemory, AfterNote, DoneShape, locals
<1>4. CASE Retry \/ Tick \/ UNCHANGED vars
  <2>1. UNCHANGED <<pc, cur, rec, exc>>
    BY <1>4 DEF Retry, Tick, vars, locals
  <2>2. pc \in {"handler", "save"} => cur \in Items /\ store'[cur].attempts = store[cur].attempts
    <3>1. SUFFICES ASSUME pc \in {"handler", "save"}
                   PROVE  cur \in Items /\ store'[cur].attempts = store[cur].attempts
      OBVIOUS
    <3>2. cur \in Items /\ store[cur].status # "failed_permanent"
      BY <3>1, CurrentItem DEF IInv, InMemory, AfterNote, Open, DoneShape
    <3>3. CASE Retry
      BY <3>2, <3>3, ZenonT(60) DEF Retry, RetryTargets
    <3>4. CASE Tick
      BY <3>2, <3>4 DEF Tick, IInv, TypeOK, Records
    <3> QED  BY <1>4, <3>2, <3>3, <3>4 DEF vars
  <2> QED  BY <2>1, <2>2 DEF Counting
<1>5. CASE \/ StartPass \/ EndPass \/ (\E i \in Items : PickUp(i)) \/ Crash \/ Save \/ SaveTimesOut
           \/ Mark \/ Commit \/ BeginDownload \/ Download \/ DownloadFallback \/ CaptureText
           \/ Extract \/ CheckText \/ StreamPage \/ EmptyFallback \/ Enrich \/ WriteNote
           \/ GenerateSkill
  <2>1. pc' \notin {"handler", "save"}
    BY <1>5 DEF StartPass, EndPass, PickUp, Crash, Save, SaveTimesOut, Mark, Commit, BeginDownload,
       Download, DownloadFallback, CaptureText, Extract, CheckText, StreamPage, EmptyFallback,
       Enrich, WriteNote, GenerateSkill, Enter
  <2> QED  BY <2>1 DEF Counting
<1> QED
  BY <1>1, <1>2, <1>3, <1>4, <1>5 DEF Next, PassStep, ItemStep, MarkTimesOut, CommitTimesOut

\* Every failure that is not the account's charges its item one attempt more than
\* state.json had, as long as saves do not fail.
THEOREM FailuresAreChargedHolds == "lock" \notin Faults => (Spec => FailuresAreCharged)
<1> SUFFICES ASSUME "lock" \notin Faults PROVE Spec => FailuresAreCharged
  OBVIOUS
<1>1. Init => Counting
  BY DEF Init, Counting
<1>2. IInv /\ Counting /\ [Next]_vars => (IInv /\ Counting)'
  BY NextIInv, NextCounting
<1>3. ASSUME IInv, Counting, [Next]_vars
      PROVE  [\A i \in Items :
                Save /\ cur = i /\ rec.status \in {"failed", "failed_permanent"}
                  => \/ exc = "llm_account"
                     \/ store'[i].attempts = store[i].attempts + 1]_vars
  BY <1>3 DEF Save, SaveRecord, Counting, IInv, TypeOK
<1> QED  BY <1>1, <1>2, <1>3, InitIInv, PTL DEF Spec, FailuresAreCharged

\* After an outage the pass is in its last save, or over.
Stopping == outage => pc = "pass" \/ (pc = "save" /\ rec.status = "failed")

LEMMA NextStopping == ASSUME IInv, Stopping, [Next]_vars PROVE Stopping'
<1>1. CASE HandleOutage
  BY <1>1 DEF HandleOutage, OutageRecord, Stopping, IInv, TypeOK, Records
<1>2. CASE Save \/ SaveTimesOut \/ Crash \/ EndPass
  BY <1>2 DEF Save, SaveTimesOut, Crash, EndPass, Stopping
<1>3. CASE Retry \/ Tick \/ UNCHANGED vars
  BY <1>3 DEF Retry, Tick, vars, locals, Stopping
<1>4. CASE ~(HandleOutage \/ Save \/ SaveTimesOut \/ Crash \/ EndPass \/ Retry \/ Tick)
           /\ ~UNCHANGED vars
  <2>1. outage' = outage /\ ~outage
    BY <1>4 DEF Next, PassStep, ItemStep, StartPass, PickUp, NextItem, Mark, MarkTimesOut,
       BeginDownload, Download, DownloadFails, DownloadFallback, CaptureText, CaptureFails, Extract,
       ExtractFails, CheckText, StreamPage, EmptyFallback, EmptyFails,
         StreamFails, Enrich, EnrichFails, WriteNote,
       WriteFails, Commit, CommitTimesOut, GenerateSkill, CleanUp, HandleGiveUp, HandleRetryLater,
       Working, Stopping
  <2> QED  BY <2>1 DEF Stopping
<1> QED  BY <1>1, <1>2, <1>3, <1>4

\* Once the account is known to be dead, all the pass still saves is the failure that said
\* so (worker.py:923-935), for any number of items in the pass.
THEOREM OutageStopsPassHolds == Spec => OutageStopsPass
<1>1. Init => Stopping
  BY DEF Init, Stopping
<1>2. IInv /\ Stopping /\ [Next]_vars => (IInv /\ Stopping)'
  BY NextIInv, NextStopping
<1>3. ASSUME IInv, Stopping, [Next]_vars
      PROVE  [outage /\ PassStep =>
                \A i \in Items :
                  store'[i] # store[i] => i = cur /\ store'[i].status = "failed"]_vars
  <2> SUFFICES ASSUME outage, PassStep, NEW i \in Items, store'[i] # store[i]
               PROVE  i = cur /\ store'[i].status = "failed"
    OBVIOUS
  <2>1. pc = "pass" \/ (pc = "save" /\ rec.status = "failed")
    BY <1>3 DEF Stopping
  <2>2. Save
    <3>1. ~Save => store' = store
      BY <2>1 DEF PassStep, ItemStep, StartPass, EndPass, PickUp, Mark, MarkTimesOut, BeginDownload,
         Download, DownloadFails, DownloadFallback, CaptureText, CaptureFails, Extract,
         ExtractFails, CheckText, StreamPage, EmptyFallback, EmptyFails,
         StreamFails, Enrich, EnrichFails, WriteNote,
         WriteFails, Commit, CommitTimesOut, GenerateSkill, CleanUp, HandleOutage, HandleGiveUp,
         HandleRetryLater, SaveTimesOut, durable, Working
    <3> QED  BY <3>1
  <2> QED  BY <1>3, <2>1, <2>2 DEF Save, SaveRecord, IInv, TypeOK
<1> QED  BY <1>1, <1>2, <1>3, InitIInv, Invariance, PTL DEF Spec, OutageStopsPass
-------------------------------------------------------------------------------
(* What lies behind the markers of the stages. *)

Downloaded == {"downloaded", "transcribed", "enriched"}

\* A record that says its media was downloaded has all of it, or its text.
Behind(r, found) ==
  r.kind = "media" /\ r.stage \in Downloaded =>
    found.media = "whole" \/ (r.stage # "downloaded" /\ found.text # None)

\* While a download may be under way, no record says that it is done.
Fetching ==
  /\ pc \in {"mark", "work", "fetching"} /\ rec.status = "downloading" /\ rec.kind = "media" =>
       rec.stage \notin Downloaded /\ store[cur].stage = rec.stage
  /\ pc \in {"mark", "work"} /\ rec.status = "transcribing" => tmp[cur].media = "whole"
  /\ pc = "check" => rec.stage \in {"transcribed", "enriched"}
  /\ pc \in {"mark", "work"} /\ rec.status \in {"enriching", "writing_note"} =>
       rec.stage \in {"transcribed", "enriched"}
  /\ pc \in {"commit", "skill", "clean"} => rec.stage = "note_written"
  /\ pc \in {"skill", "clean"} => store[cur].stage = "note_written"

Vouched ==
  /\ \A i \in Items : Behind(store[i], tmp[i])
  /\ cur # None => Behind(rec, tmp[cur]) /\ rec.kind = store[cur].kind
  /\ Fetching

\* No transcript is empty.
Spoken == text # "empty" /\ pc # "streaming"

LEMMA InitVouched == Init => Vouched
<1> SUFFICES ASSUME Init PROVE Vouched
  OBVIOUS
<1>1. PICK reg \in [Items -> Registrations] :
        store = [i \in Items |-> reg[i][1]] /\ tmp = [i \in Items |-> reg[i][2]]
  BY DEF Init
<1>2. ASSUME NEW i \in Items PROVE Behind(reg[i][1], reg[i][2])
  BY DEF Registrations, NewRecord, NoArtifacts, Behind, Downloaded
<1> QED  BY <1>1, <1>2 DEF Init, Vouched, Fetching

\* A step of process_item that leaves the directory and state.json alone.
LEMMA QuietVouches ==
  ASSUME IInv, Vouched, store' = store, tmp' = tmp, cur' = cur,
         rec'.kind = rec.kind, rec'.stage = rec.stage, Fetching'
  PROVE  Vouched'
BY DEF Vouched, Behind

\* A step that changes the item's directory, on the way from one stage to the next.
LEMMA WorkVouches ==
  ASSUME IInv, Vouched, cur \in Items, store' = store, cur' = cur, rec'.kind = rec.kind,
         NEW found \in Artifacts, tmp' = [tmp EXCEPT ![cur] = found],
         Behind(store[cur], found), Behind(rec', found), Fetching'
  PROVE  Vouched'
<1>1. tmp'[cur] = found /\ \A i \in Items \ {cur} : tmp'[i] = tmp[i]
  BY DEF IInv, TypeOK
<1> QED  BY <1>1, CurrentItem DEF Vouched

LEMMA DownloadVouches ==
  ASSUME IInv, Vouched, BeginDownload \/ Download \/ DownloadFallback
  PROVE  Vouched'
<1>1. /\ cur \in Items /\ store' = store /\ cur' = cur /\ tmp[cur] \in Artifacts
      /\ pc \in {"work", "fetching"} /\ rec.status = "downloading" /\ rec \in Records
      /\ rec.kind = store[cur].kind /\ cur # None
  BY CurrentItem DEF IInv, TypeOK, InMemory, BeforeNote, BeginDownload, Download, DownloadFallback,
     Working, locals, Vouched
<1>2. rec.kind = "media" => rec.stage \notin Downloaded /\ store[cur].stage = rec.stage
  BY <1>1 DEF Vouched, Fetching
<1>3. CASE BeginDownload
  <2>1. PICK left \in {"none", "partial"} :
          tmp' = [tmp EXCEPT ![cur] = [NoArtifacts EXCEPT !.media = left]]
    BY <1>3 DEF BeginDownload
  <2>2. [NoArtifacts EXCEPT !.media = left] \in Artifacts
    BY <2>1 DEF NoArtifacts, Artifacts
  <2>3. rec' = rec /\ pc' = "fetching"
    BY <1>3 DEF BeginDownload, locals
  <2> QED  BY <1>1, <1>2, <2>1, <2>2, <2>3, WorkVouches DEF Behind, Fetching
<1>4. CASE Download
  <2>1. tmp' = [tmp EXCEPT ![cur] = [tmp[cur] EXCEPT !.media = "whole"]]
    BY <1>4 DEF Download
  <2>2. [tmp[cur] EXCEPT !.media = "whole"] \in Artifacts
        /\ [tmp[cur] EXCEPT !.media = "whole"].media = "whole"
    BY <1>1 DEF Artifacts
  <2>3. rec'.kind = rec.kind /\ rec'.status = "transcribing" /\ pc' = "mark"
    BY <1>1, <1>4 DEF Download, Records
  <2>4. tmp'[cur].media = "whole"
    BY <1>1, <2>1, <2>2 DEF IInv, TypeOK
  <2> QED  BY <1>1, <2>1, <2>2, <2>3, <2>4, WorkVouches DEF Behind, Fetching
<1>5. CASE DownloadFallback
  <2>1. PICK c \in Contents : tmp' = [tmp EXCEPT ![cur] = [tmp[cur] EXCEPT !.text = c]]
    BY <1>5, WorkerAssumption DEF DownloadFallback, KeepText
  <2>2. [tmp[cur] EXCEPT !.text = c] \in Artifacts /\ [tmp[cur] EXCEPT !.text = c].text # None
    BY <1>1, <2>1, WorkerAssumption DEF Artifacts
  <2>3. rec'.kind = rec.kind /\ rec'.stage = "transcribed" /\ pc' = "check"
    BY <1>1, <1>5 DEF DownloadFallback, Records
  <2> QED  BY <1>1, <1>2, <2>1, <2>2, <2>3, WorkVouches DEF Behind, Fetching
<1> QED  BY <1>3, <1>4, <1>5

LEMMA TextVouches ==
  ASSUME IInv, Vouched, Spoken, CaptureText \/ Extract \/ EmptyFallback \/ Enrich
  PROVE  Vouched'
<1>1. /\ cur \in Items /\ store' = store /\ cur' = cur /\ tmp[cur] \in Artifacts
      /\ rec \in Records /\ rec.kind = store[cur].kind /\ Behind(rec, tmp[cur])
      /\ Behind(store[cur], tmp[cur]) /\ text \in Contents \cup {"empty", None}
  BY CurrentItem DEF IInv, TypeOK, CaptureText, Extract, EmptyFallback, Enrich, Working, Vouched
<1>2. CASE CaptureText \/ Extract
  <2>1. PICK t \in Contents \cup {None} : tmp' = [tmp EXCEPT ![cur] = [tmp[cur] EXCEPT !.text = t]]
    BY <1>2 DEF CaptureText, Extract, KeepText
  <2>2. /\ [tmp[cur] EXCEPT !.text = t] \in Artifacts
        /\ [tmp[cur] EXCEPT !.text = t].media = tmp[cur].media
    BY <1>1, <2>1 DEF Artifacts
  <2>3. rec'.kind = rec.kind /\ rec'.stage = "transcribed" /\ pc' = "check"
    BY <1>1, <1>2 DEF CaptureText, Extract, Records
  <2>4. rec.kind = "text" \/ tmp[cur].media = "whole"
    BY <1>2 DEF CaptureText, Extract, Working, Vouched, Fetching
  <2> QED  BY <1>1, <2>1, <2>2, <2>3, <2>4, WorkVouches DEF Behind, Fetching
<1>3. CASE EmptyFallback
  BY <1>3 DEF EmptyFallback, Spoken
<1>4. CASE Enrich
  <2>1. PICK t \in Titles :
          /\ tmp' = [tmp EXCEPT ![cur] = [tmp[cur] EXCEPT !.enriched = [of |-> text, title |-> t]]]
    BY <1>4 DEF Enrich
  <2>2. text \in Contents
    BY <1>4 DEF Enrich, Working, IInv, InMemory, BeforeNote
  <2>3. /\ [tmp[cur] EXCEPT !.enriched = [of |-> text, title |-> t]] \in Artifacts
        /\ [tmp[cur] EXCEPT !.enriched = [of |-> text, title |-> t]].text = tmp[cur].text
        /\ [tmp[cur] EXCEPT !.enriched = [of |-> text, title |-> t]].media = tmp[cur].media
    BY <1>1, <2>2 DEF Artifacts, Enrichments
  <2>4. /\ rec'.kind = rec.kind /\ rec'.stage = "enriched" /\ rec'.status = "writing_note"
        /\ pc' = "mark" /\ rec.stage \in {"transcribed", "enriched"}
    BY <1>1, <1>4 DEF Enrich, Working, Records, Vouched, Fetching
  <2> QED  BY <1>1, <2>1, <2>3, <2>4, WorkVouches DEF Behind, Fetching, Downloaded
<1> QED  BY <1>2, <1>3, <1>4

\* A save, after which the file says what the record in memory says.
LEMMA SaveVouches == ASSUME IInv, Vouched, Mark \/ Commit \/ Save PROVE Vouched'
<1>1. /\ cur \in Items /\ cur # None /\ store' = [store EXCEPT ![cur] = rec] /\ tmp' = tmp
  BY CurrentItem DEF IInv, Mark, Commit, Save, SaveRecord
<1>2. store'[cur] = rec /\ \A i \in Items \ {cur} : store'[i] = store[i]
  BY <1>1 DEF IInv, TypeOK
<1>3. \A i \in Items : Behind(store'[i], tmp'[i])
  BY <1>1, <1>2 DEF Vouched
<1>4. CASE Mark
  <2>1. rec' = rec /\ cur' = cur /\ pc = "mark" /\ pc' = "work"
    BY <1>4 DEF Mark, locals
  <2> QED  BY <1>1, <1>2, <1>3, <2>1 DEF Vouched, Fetching
<1>5. CASE Commit
  <2>1. rec' = rec /\ cur' = cur /\ pc = "commit" /\ pc' = "skill"
    BY <1>5 DEF Commit, locals
  <2> QED  BY <1>1, <1>2, <1>3, <2>1 DEF Vouched, Fetching
<1>6. CASE Save
  BY <1>3, <1>6 DEF Save, Release, Vouched, Fetching
<1> QED  BY <1>4, <1>5, <1>6

\* What is found on disk is what the markers say, so nothing whole is fetched again.
LEMMA PickUpVouches == ASSUME IInv, Vouched, NEW i \in Items, PickUp(i) PROVE Vouched'
<1>1. /\ cur' = i /\ store' = store /\ tmp' = tmp /\ i # None /\ store[i] \in Records
      /\ pc' = IF HasText(store[i], tmp[i]) THEN "check" ELSE "mark"
      /\ rec' = IF HasText(store[i], tmp[i]) THEN store[i]
                ELSE [store[i] EXCEPT !.status = IF HasMedia(store[i], tmp[i])
                                                 THEN "transcribing" ELSE "downloading"]
  BY WorkerAssumption DEF PickUp, durable, IInv, TypeOK
<1>2. rec'.kind = store[i].kind /\ rec'.stage = store[i].stage
  BY <1>1 DEF Records
<1>3. Behind(store[i], tmp[i])
  BY DEF Vouched
<1>4. CASE HasText(store[i], tmp[i])
  BY <1>1, <1>2, <1>3, <1>4 DEF HasText, Vouched, Fetching, Behind
<1>5. CASE ~HasText(store[i], tmp[i]) /\ HasMedia(store[i], tmp[i])
  <2>1. rec'.status = "transcribing" /\ pc' = "mark" /\ tmp[i].media = "whole"
    BY <1>1, <1>3, <1>5 DEF HasText, HasMedia, Behind, Downloaded, Records
  <2> QED  BY <1>1, <1>2, <1>3, <2>1 DEF Vouched, Fetching, Behind
<1>6. CASE ~HasText(store[i], tmp[i]) /\ ~HasMedia(store[i], tmp[i])
  <2>1. /\ rec'.status = "downloading" /\ pc' = "mark"
        /\ store[i].kind = "media" => store[i].stage \notin Downloaded
    BY <1>1, <1>3, <1>6 DEF HasText, HasMedia, Behind, Downloaded, Records
  <2> QED  BY <1>1, <1>2, <1>3, <2>1 DEF Vouched, Fetching, Behind
<1> QED  BY <1>4, <1>5, <1>6

\* The directory goes when the record has another marker already.
LEMMA CleanUpVouches == ASSUME IInv, Vouched, CleanUp PROVE Vouched'
<1>1. /\ cur \in Items /\ store' = store /\ cur' = cur /\ rec' = rec
      /\ tmp' = [tmp EXCEPT ![cur] = NoArtifacts] /\ NoArtifacts \in Artifacts
      /\ pc = "clean" /\ pc' = "save"
  BY CurrentItem DEF IInv, CleanUp, locals, NoArtifacts, Artifacts
<1>2. rec.stage = "note_written" /\ store[cur].stage = "note_written"
  BY <1>1 DEF Vouched, Fetching
<1> QED  BY <1>1, <1>2, WorkVouches DEF Behind, Downloaded, Fetching

\* Retry and the clock change neither kind nor stage of a record.
LEMMA OutsideVouches == ASSUME IInv, Vouched, Retry \/ Tick PROVE Vouched'
<1>1. UNCHANGED <<tmp, pc, cur, rec>>
  BY DEF Retry, Tick, locals
<1>2. ASSUME NEW i \in Items
      PROVE  store'[i].kind = store[i].kind /\ store'[i].stage = store[i].stage
  <2>1. store[i] \in Records
    BY DEF IInv, TypeOK
  <2>2. CASE Retry
    <3>1. PICK S \in RetryTargets :
            store' = [j \in Items |->
                        IF j \in S
                          THEN [store[j] EXCEPT !.status = "pending", !.attempts = 0,
                                                !.wait = None, !.error = None]
                          ELSE store[j]]
      BY <2>2 DEF Retry
    <3> QED  BY <2>1, <3>1 DEF Records
  <2>3. CASE Tick
    BY <2>1, <2>3 DEF Tick, Records
  <2> QED  BY <2>2, <2>3
<1>3. cur # None => cur \in Items
  BY DEF IInv, TypeOK
<1>4. pc \notin {"idle", "pass"} => cur \in Items
  BY CurrentItem DEF IInv
<1> QED  BY <1>1, <1>2, <1>3, <1>4 DEF Vouched, Fetching, Behind

\* Steps that only choose where to go on.
LEMMA OthersVouch ==
  ASSUME IInv, Vouched,
         \/ MarkTimesOut \/ DownloadFails \/ CaptureFails \/ ExtractFails \/ CheckText
         \/ EmptyFails \/ EnrichFails \/ WriteNote \/ WriteFails \/ CommitTimesOut
         \/ GenerateSkill \/ HandleOutage \/ HandleGiveUp \/ HandleRetryLater
  PROVE  Vouched'
<1>0. store' = store /\ tmp' = tmp /\ cur' = cur /\ rec \in Records /\ cur # None
  BY CurrentItem
  DEF IInv, TypeOK, MarkTimesOut, DownloadFails, CaptureFails, ExtractFails, CheckText, EmptyFails,
     EnrichFails, WriteNote, WriteFails, CommitTimesOut, GenerateSkill, HandleOutage, HandleGiveUp,
     HandleRetryLater, durable, Working
<1>1. CASE MarkTimesOut \/ DownloadFails \/ CaptureFails \/ ExtractFails \/ EmptyFails
           \/ EnrichFails \/ WriteFails \/ CommitTimesOut
  <2>1. rec' = rec /\ pc' = "handler"
    BY <1>1 DEF MarkTimesOut, DownloadFails, CaptureFails, ExtractFails, EmptyFails, EnrichFails,
       WriteFails, CommitTimesOut, Raise
  <2> QED  BY <1>0, <2>1, QuietVouches DEF Fetching
<1>2. CASE HandleOutage \/ HandleGiveUp \/ HandleRetryLater
  <2>1. rec'.kind = rec.kind /\ rec'.stage = rec.stage /\ pc' = "save"
    BY <1>0, <1>2 DEF HandleOutage, HandleGiveUp, HandleRetryLater, OutageRecord, GivenUpRecord,
       RetryRecord, Records
  <2> QED  BY <1>0, <2>1, QuietVouches DEF Fetching
<1>3. CASE CheckText
  <2>1. /\ pc = "check" /\ pc' = "mark" /\ rec'.kind = rec.kind /\ rec'.stage = rec.stage
        /\ rec'.status \in {"enriching", "writing_note"}
    BY <1>0, <1>3 DEF CheckText, Enter, Records
  <2> QED  BY <1>0, <2>1, QuietVouches DEF Fetching, Vouched
<1>4. CASE WriteNote
  <2>1. rec'.kind = rec.kind /\ rec'.stage = "note_written" /\ pc' = "commit"
    BY <1>0, <1>4 DEF WriteNote, DoneRecord, Records
  <2> QED  BY <1>0, <2>1 DEF Vouched, Fetching, Behind, Downloaded
<1>5. CASE GenerateSkill
  <2>1. rec'.kind = rec.kind /\ rec'.stage = rec.stage /\ pc = "skill" /\ pc' = "clean"
    BY <1>0, <1>5 DEF GenerateSkill, Records
  <2> QED  BY <1>0, <2>1, QuietVouches DEF Fetching, Vouched
<1> QED  BY <1>1, <1>2, <1>3, <1>4, <1>5

\* Without empty transcripts no page is fetched over the media.
LEMMA NextSpoken == ASSUME IInv, Spoken, "empty" \notin Faults, [Next]_vars PROVE Spoken'
<1>1. ASSUME NEW i \in Items, PickUp(i) PROVE Spoken'
  BY <1>1, WorkerAssumption DEF PickUp, Spoken, IInv, TypeOK, Artifacts
<1>2. CASE ~\E i \in Items : PickUp(i)
  BY <1>2, WorkerAssumption
  DEF Spoken, Next, PassStep, ItemStep, StartPass, EndPass, Mark, MarkTimesOut, BeginDownload,
     Download, DownloadFails, DownloadFallback, CaptureText, CaptureFails, Extract, ExtractFails,
     CheckText, StreamPage, EmptyFallback, EmptyFails, StreamFails, Enrich, EnrichFails, WriteNote,
     WriteFails, Commit, CommitTimesOut, GenerateSkill, CleanUp, HandleOutage, HandleGiveUp,
     HandleRetryLater, Save, SaveTimesOut, Crash, Retry, Tick, Raise, Enter, Release, locals, vars
<1> QED  BY <1>1, <1>2

LEMMA NextVouches ==
  ASSUME IInv, Vouched, Spoken, "sweep" \notin Faults, [Next]_vars
  PROVE  Vouched'
<1>1. CASE StartPass \/ EndPass \/ SaveTimesOut \/ Crash
  <2>1. CASE StartPass
    <3>1. tmp' = tmp
      BY <2>1 DEF StartPass, IInv, TypeOK
    <3> QED  BY <2>1, <3>1 DEF StartPass, locals, Vouched, Fetching, IInv, TypeOK
  <2>2. CASE EndPass
    BY <2>2 DEF EndPass, durable, locals, Vouched, Fetching
  <2>3. CASE SaveTimesOut \/ Crash
    BY <2>3 DEF SaveTimesOut, Crash, Release, durable, Vouched, Fetching
  <2> QED  BY <1>1, <2>1, <2>2, <2>3
<1>2. CASE BeginDownload \/ Download \/ DownloadFallback
  BY <1>2, DownloadVouches
<1>3. CASE CaptureText \/ Extract \/ EmptyFallback \/ Enrich
  BY <1>3, TextVouches
<1>0. ~StreamPage /\ ~StreamFails
  BY DEF StreamPage, StreamFails, Spoken
<1>4. CASE Mark \/ Commit \/ Save
  BY <1>4, SaveVouches
<1>5. CASE CleanUp
  BY <1>5, CleanUpVouches
<1>6. ASSUME NEW i \in Items, PickUp(i) PROVE Vouched'
  BY <1>6, PickUpVouches
<1>7. CASE Retry \/ Tick
  BY <1>7, OutsideVouches
<1>8. CASE UNCHANGED vars
  BY <1>8 DEF vars, Vouched, Fetching
<1> QED
  BY <1>0, <1>1, <1>2, <1>3, <1>4, <1>5, <1>6, <1>7, <1>8, OthersVouch DEF Next, PassStep, ItemStep

\* What is extracted is always a complete download, never what a failed or killed one left
\* behind, as long as nothing empties the directory while its marker stays: neither the sweep
\* nor the fetch of the page after an empty transcript.
THEOREM WholeMediaOnlyHolds ==
  {"sweep", "empty"} \cap Faults = {} => (Spec => []WholeMediaOnly)
<1> SUFFICES ASSUME {"sweep", "empty"} \cap Faults = {} PROVE Spec => []WholeMediaOnly
  OBVIOUS
<1>1. IInv /\ Vouched /\ Spoken /\ [Next]_vars => (IInv /\ Vouched /\ Spoken)'
  BY NextIInv, NextVouches, NextSpoken
<1>2. IInv /\ Vouched => WholeMediaOnly
  BY DEF Vouched, Fetching, WholeMediaOnly, Working
<1>3. Init => Spoken
  BY WorkerAssumption DEF Init, Spoken
<1> QED  BY <1>1, <1>2, <1>3, InitIInv, InitVouched, PTL DEF Spec
-------------------------------------------------------------------------------
(* The notes of an item. *)

\* A done item has the note it names; another one has none, or the one an attempt wrote
\* that was killed before it could say so, under the title that is still in the cache.
Noted(r, found, titles) ==
  IF r.status = "done" THEN titles = {r.note}
  ELSE /\ r.note = None
       /\ titles # {} => /\ r.stage = "enriched" /\ found.text # None /\ found.enriched # None
                         /\ titles = {found.enriched.title}

\* An item that has a note already goes straight to writing it again.
Rewriting ==
  /\ pc \in {"check", "streaming", "handler"} => rec.status # "done"
  /\ pc \in {"check", "mark", "work"} /\ enriched # None => rec.stage = "enriched"
  /\ pc = "work" => store[cur].stage = rec.stage
  /\ pc \in {"check", "mark", "work", "fetching"} /\ vault[cur] # {} =>
       enriched # None /\ (pc = "check" \/ (pc # "fetching" /\ rec.status = "writing_note"))
  /\ pc \in {"commit", "skill", "clean"} => stale = None

Filed ==
  /\ \A i \in Items : Noted(store[i], tmp[i], vault[i])
  /\ cur # None => Noted(rec, tmp[cur], vault[cur])
  /\ Rewriting

LEMMA InitFiled == Init => Filed
<1> SUFFICES ASSUME Init PROVE Filed
  OBVIOUS
<1>1. PICK reg \in [Items -> Registrations] : store = [i \in Items |-> reg[i][1]]
  BY DEF Init
<1>2. ASSUME NEW i \in Items PROVE store[i].status # "done" /\ store[i].note = None
  BY <1>1 DEF Registrations, NewRecord
<1> QED  BY <1>2 DEF Init, Filed, Noted, Rewriting

\* A step of process_item that changes neither state.json nor the files.
LEMMA QuietFiles ==
  ASSUME IInv, Filed, store' = store, tmp' = tmp, vault' = vault, cur' = cur,
         cur # None => Noted(rec', tmp[cur], vault[cur]), Rewriting'
  PROVE  Filed'
BY DEF Filed

\* One that changes the item's directory before there is a note.
LEMMA WorkFiles ==
  ASSUME IInv, Filed, cur \in Items, store' = store, vault' = vault, cur' = cur,
         NEW found, tmp' = [tmp EXCEPT ![cur] = found], vault[cur] = {},
         rec'.status # "done", rec'.note = None, store[cur].status # "done", Rewriting'
  PROVE  Filed'
<1>1. \A i \in Items \ {cur} : tmp'[i] = tmp[i]
  BY DEF IInv, TypeOK
<1> QED  BY <1>1 DEF Filed, Noted

\* Where an attempt is before the note.
LEMMA Underway ==
  ASSUME IInv, Filed, pc \in {"check", "streaming", "mark", "work", "fetching"}
  PROVE  /\ cur \in Items /\ cur # None /\ rec \in Records
         /\ store[cur].status \notin Terminal /\ store[cur].note = None
         /\ Noted(store[cur], tmp[cur], vault[cur]) /\ Noted(rec, tmp[cur], vault[cur])
BY CurrentItem DEF IInv, TypeOK, InMemory, BeforeNote, Open, Filed, Noted

LEMMA FetchFiles ==
  ASSUME IInv, Filed,
         BeginDownload \/ Download \/ DownloadFallback \/ CaptureText \/ Extract \/ Enrich
  PROVE  Filed'
<1>1. /\ pc \in {"work", "fetching"} /\ rec.status \in {"downloading", "transcribing", "enriching"}
      /\ store' = store /\ vault' = vault /\ cur' = cur
  BY DEF BeginDownload, Download, DownloadFallback, CaptureText, Extract, Enrich, Working, locals,
     IInv, InMemory, BeforeNote
<1>2. /\ cur \in Items /\ rec \in Records /\ store[cur].status # "done" /\ vault[cur] = {}
      /\ rec.note = None
  BY <1>1, Underway DEF Filed, Rewriting, Noted
<1>3. \E found : tmp' = [tmp EXCEPT ![cur] = found]
  <2>1. CASE DownloadFallback \/ CaptureText \/ Extract
    BY <2>1 DEF DownloadFallback, CaptureText, Extract, KeepText
  <2>2. CASE BeginDownload \/ Download \/ Enrich
    BY <2>2 DEF BeginDownload, Download, Enrich
  <2> QED  BY <2>1, <2>2
<1>4. rec'.status # "done" /\ rec'.note = None
  BY <1>1, <1>2 DEF BeginDownload, Download, DownloadFallback, CaptureText, Extract, Enrich, Records,
     locals
<1>5. Rewriting'
  <2>1. CASE BeginDownload
    BY <1>1, <1>2, <2>1 DEF BeginDownload, Rewriting
  <2>2. CASE DownloadFallback \/ CaptureText \/ Extract \/ Download
    <3>1. enriched = None
      BY <1>1, <2>2 DEF DownloadFallback, CaptureText, Extract, Download, Working, IInv, InMemory,
         BeforeNote
    <3> QED
      BY <1>1, <1>2, <1>4, <2>2, <3>1
      DEF DownloadFallback, CaptureText, Extract, Download, Rewriting
  <2>3. CASE Enrich
    <3>1. rec'.stage = "enriched" /\ pc' = "mark"
      BY <1>2, <2>3 DEF Enrich, Records
    <3> QED  BY <1>1, <1>2, <3>1 DEF Rewriting
  <2> QED  BY <2>1, <2>2, <2>3, <1>3 DEF BeginDownload
<1> QED  BY <1>1, <1>2, <1>3, <1>4, <1>5, WorkFiles

\* A text, or the lack of one, is looked at.
LEMMA CheckFiles == ASSUME IInv, Filed, CheckText \/ EmptyFallback PROVE Filed'
<1>1. /\ pc \in {"check", "streaming"} /\ pc' = "mark" /\ store' = store /\ vault' = vault
      /\ cur' = cur /\ enriched' = enriched
      /\ CheckText => pc = "check"
  BY DEF CheckText, EmptyFallback, Enter, durable
<1>2. /\ cur \in Items /\ rec \in Records /\ store[cur].status # "done"
      /\ Noted(rec, tmp[cur], vault[cur])
      /\ pc = "check" => (enriched # None => rec.stage = "enriched")
      /\ pc = "check" => (vault[cur] # {} => enriched # None)
  BY <1>1, Underway DEF Filed, Rewriting
<1>3. CASE CheckText
  <2>1. /\ rec' = [rec EXCEPT !.status = IF enriched = None THEN "enriching" ELSE "writing_note"]
        /\ tmp' = tmp
    BY <1>3 DEF CheckText, Enter, durable
  <2>2. /\ rec'.status = IF enriched = None THEN "enriching" ELSE "writing_note"
        /\ rec'.stage = rec.stage /\ rec'.note = rec.note
    BY <1>2, <2>1 DEF Records
  <2>3. rec.status # "done"
    BY <1>1 DEF Filed, Rewriting
  <2>4. Noted(rec', tmp[cur], vault[cur])
    BY <1>2, <2>2, <2>3 DEF Noted
  <2>5. Rewriting'
    BY <1>1, <1>2, <1>3, <2>2 DEF Rewriting
  <2> QED  BY <1>1, <2>1, <2>4, <2>5, QuietFiles
<1>4. CASE EmptyFallback
  <2>1. /\ text = "empty" /\ text # None
        /\ rec' = [rec EXCEPT !.status = "enriching"] /\ pc' = "mark"
    BY <1>1, <1>4, WorkerAssumption DEF EmptyFallback, Enter, Exceptions
  <2>0. PICK c \in Contents, media \in {tmp[cur].media, "none"} :
          tmp' = [tmp EXCEPT ![cur] = [[tmp[cur] EXCEPT !.text = c] EXCEPT !.media = media]]
    BY <1>4 DEF EmptyFallback
  <2>2. tmp[cur].text = None /\ rec.status # "done"
    BY <1>1, <2>1, WorkerAssumption DEF IInv, InMemory, BeforeNote, Filed, Rewriting
  <2>3. vault[cur] = {} /\ rec.note = None
    BY <1>2, <2>2 DEF Noted
  <2>4. rec'.status = "enriching" /\ rec'.stage = rec.stage /\ rec'.note = rec.note
    BY <1>2, <2>1 DEF Records
  <2>5. enriched' = None
    BY <1>1, <1>4, WorkerAssumption DEF EmptyFallback, IInv, TypeOK, Enrichments, InMemory, BeforeNote
  <2> QED  BY <1>1, <1>2, <2>0, <2>1, <2>3, <2>4, <2>5, WorkFiles DEF Rewriting
<1> QED  BY <1>3, <1>4 DEF CheckText

\* The page's media change the directory of an item without a text, hence without a note.
LEMMA StreamFiles == ASSUME IInv, Filed, StreamPage \/ StreamFails PROVE Filed'
<1>1. /\ pc \in {"check", "streaming"} /\ pc' \in {"streaming", "handler"}
      /\ store' = store /\ vault' = vault /\ cur' = cur /\ rec' = rec
      /\ \E found : tmp' = [tmp EXCEPT ![cur] = found]
  BY DEF StreamPage, StreamFails, Raise, locals
<1>2. tmp[cur].text = None /\ rec.status # "done"
  <2>1. text = "empty" /\ text # None
    BY WorkerAssumption
    DEF StreamPage, StreamFails, IInv, InMemory, BeforeNote, Exceptions
  <2>2. tmp[cur].text = None
    BY <1>1, <2>1 DEF IInv, InMemory, BeforeNote
  <2> QED  BY <1>1, <2>2 DEF Filed, Rewriting
<1>3. /\ cur \in Items /\ vault[cur] = {} /\ rec.note = None /\ store[cur].status # "done"
  BY <1>1, <1>2, Underway DEF Noted
<1> QED  BY <1>1, <1>2, <1>3, WorkFiles DEF Rewriting

\* What is found on disk is what the note was written from.
LEMMA PickUpFiles == ASSUME IInv, Filed, NEW i \in Items, PickUp(i) PROVE Filed'
<1>1. /\ cur' = i /\ store' = store /\ tmp' = tmp /\ vault' = vault /\ store[i] \in Records
      /\ pc' = IF HasText(store[i], tmp[i]) THEN "check" ELSE "mark"
      /\ enriched' = IF HasEnrichment(store[i], tmp[i]) THEN tmp[i].enriched ELSE None
      /\ rec' = IF HasText(store[i], tmp[i]) THEN store[i]
                ELSE [store[i] EXCEPT !.status = IF HasMedia(store[i], tmp[i])
                                                 THEN "transcribing" ELSE "downloading"]
  BY DEF PickUp, durable, IInv, TypeOK
<1>2. Noted(store[i], tmp[i], vault[i]) /\ store[i].status # "done"
  BY DEF Filed, PickUp, NextItem, IInv, InMemory, Open
<1>3. vault[i] # {} => HasText(store[i], tmp[i]) /\ enriched' # None
  BY <1>1, <1>2 DEF Noted, HasText, HasEnrichment
<1>4. rec'.stage = store[i].stage /\ rec'.note = store[i].note /\ rec'.status # "done"
  BY <1>1, <1>2 DEF Records
<1>5. Noted(rec', tmp[i], vault[i])
  BY <1>2, <1>4 DEF Noted
<1>6. Rewriting'
  BY <1>1, <1>3, <1>4 DEF Rewriting, HasEnrichment
<1> QED  BY <1>1, <1>5, <1>6 DEF Filed

\* A save, after which the file says what the record in memory says.
LEMMA SaveFiles == ASSUME IInv, Filed, Mark \/ Commit \/ Save PROVE Filed'
<1>1. /\ cur \in Items /\ cur # None /\ store' = [store EXCEPT ![cur] = rec]
      /\ tmp' = tmp /\ vault' = vault
  BY CurrentItem DEF IInv, Mark, Commit, Save, SaveRecord
<1>2. store'[cur] = rec /\ \A i \in Items \ {cur} : store'[i] = store[i]
  BY <1>1 DEF IInv, TypeOK
<1>3. \A i \in Items : Noted(store'[i], tmp'[i], vault'[i])
  BY <1>1, <1>2 DEF Filed
<1>4. CASE Mark
  <2>1. rec' = rec /\ cur' = cur /\ enriched' = enriched /\ pc = "mark" /\ pc' = "work"
    BY <1>4 DEF Mark, locals
  <2> QED  BY <1>1, <1>2, <1>3, <2>1 DEF Filed, Rewriting
<1>5. CASE Commit
  <2>1. rec' = rec /\ cur' = cur /\ stale' = stale /\ pc = "commit" /\ pc' = "skill"
    BY <1>5 DEF Commit, locals
  <2> QED  BY <1>1, <1>2, <1>3, <2>1 DEF Filed, Rewriting
<1>6. CASE Save
  BY <1>3, <1>6 DEF Save, Release, Filed, Rewriting
<1> QED  BY <1>4, <1>5, <1>6

\* The note is written: the first one, or the same once more.
LEMMA WriteNoteFiles == ASSUME IInv, Filed, WriteNote PROVE Filed'
<1>1. /\ pc = "work" /\ pc' = "commit" /\ rec.status = "writing_note"
      /\ store' = store /\ tmp' = tmp /\ cur' = cur /\ stale' = rec.note
      /\ vault' = [vault EXCEPT ![cur] = @ \cup {enriched.title}]
  BY DEF WriteNote, Working
<1>2. /\ cur \in Items /\ cur # None /\ rec \in Records
      /\ Noted(store[cur], tmp[cur], vault[cur]) /\ Noted(rec, tmp[cur], vault[cur])
      /\ store[cur].status # "done"
  BY <1>1, Underway
<1>3. /\ enriched # None /\ tmp[cur].enriched = enriched /\ tmp[cur].text # None
      /\ store[cur].stage = "enriched"
  <2>1. enriched # None /\ tmp[cur].enriched = enriched /\ text \in Contents
        /\ tmp[cur].text = IF text = "empty" THEN None ELSE text
    BY <1>1, WorkerAssumption DEF IInv, InMemory, BeforeNote
  <2> QED  BY <1>1, <2>1, WorkerAssumption DEF Filed, Rewriting
<1>4. vault'[cur] = {enriched.title} /\ \A i \in Items \ {cur} : vault'[i] = vault[i]
  <2>1. vault'[cur] = vault[cur] \cup {enriched.title}
    BY <1>1, <1>2 DEF IInv, TypeOK
  <2>2. vault[cur] = {} \/ vault[cur] = {enriched.title}
    BY <1>2, <1>3 DEF Noted
  <2> QED  BY <1>1, <2>1, <2>2 DEF IInv, TypeOK
<1>5. rec'.status = "done" /\ rec'.note = enriched.title
  BY <1>2 DEF WriteNote, DoneRecord, Records
<1>6. rec.note = None
  BY <1>1, <1>2 DEF Noted
<1>7. Noted(rec', tmp'[cur], vault'[cur]) /\ Noted(store'[cur], tmp'[cur], vault'[cur])
  BY <1>1, <1>2, <1>3, <1>4, <1>5 DEF Noted
<1>8. Rewriting'
  BY <1>1, <1>6 DEF Rewriting
<1> QED  BY <1>1, <1>4, <1>7, <1>8 DEF Filed

\* The skill, and the cleanup that has no other note to remove.
LEMMA DoneFiles == ASSUME IInv, Filed, GenerateSkill \/ CleanUp PROVE Filed'
<1>0. /\ pc \in {"skill", "clean"} /\ store' = store /\ cur' = cur /\ stale' = stale
      /\ cur \in Items /\ cur # None /\ rec \in Records
  BY CurrentItem DEF IInv, TypeOK, GenerateSkill, CleanUp, locals, durable
<1>1. /\ stale = None /\ store[cur].status = "done" /\ rec.status = "done"
      /\ Noted(store[cur], tmp[cur], vault[cur]) /\ Noted(rec, tmp[cur], vault[cur])
  BY <1>0 DEF IInv, InMemory, AfterNote, DoneShape, Filed, Rewriting
<1>2. CASE GenerateSkill
  <2>1. rec'.status = rec.status /\ rec'.note = rec.note /\ rec'.stage = rec.stage
    BY <1>0, <1>2 DEF GenerateSkill, Records
  <2>2. tmp' = tmp /\ vault' = vault /\ pc' = "clean"
    BY <1>2 DEF GenerateSkill, durable
  <2> QED  BY <1>0, <1>1, <2>1, <2>2, QuietFiles DEF Noted, Rewriting
<1>3. CASE CleanUp
  <2>1. rec' = rec /\ pc' = "save" /\ tmp' = [tmp EXCEPT ![cur] = NoArtifacts]
    BY <1>3 DEF CleanUp, locals
  <2>2. vault' = vault
    BY <1>1, <1>3 DEF CleanUp, Replaced, IInv, TypeOK
  <2>3. \A i \in Items \ {cur} : tmp'[i] = tmp[i]
    BY <2>1 DEF IInv, TypeOK
  <2> QED  BY <1>0, <1>1, <2>1, <2>2, <2>3 DEF Filed, Noted, Rewriting
<1> QED  BY <1>2, <1>3

\* A failure leaves the notes and the marker alone.
LEMMA FailureFiles ==
  ASSUME IInv, Filed,
         \/ DownloadFails \/ CaptureFails \/ ExtractFails \/ EmptyFails \/ EnrichFails
         \/ WriteFails \/ HandleOutage \/ HandleGiveUp \/ HandleRetryLater
  PROVE  Filed'
<1>1. /\ store' = store /\ tmp' = tmp /\ vault' = vault /\ cur' = cur /\ rec \in Records
      /\ pc \in {"work", "fetching", "check", "handler"} /\ cur # None
      /\ rec' = rec \/ rec' \in {OutageRecord, GivenUpRecord, RetryRecord}
      /\ pc' = "save" \/ (pc' = "handler" /\ rec' = rec)
  BY CurrentItem
  DEF IInv, TypeOK, DownloadFails, CaptureFails, ExtractFails, EmptyFails, EnrichFails, WriteFails,
      HandleOutage, HandleGiveUp, HandleRetryLater, Raise, durable, Working
<1>2. rec.status # "done"
  BY <1>1 DEF Filed, Rewriting, IInv, InMemory, BeforeNote
<1>3. rec'.status # "done" /\ rec'.stage = rec.stage /\ rec'.note = rec.note
  BY <1>1, <1>2 DEF OutageRecord, GivenUpRecord, RetryRecord, Records
<1>4. Noted(rec', tmp[cur], vault[cur])
  BY <1>1, <1>2, <1>3 DEF Filed, Noted
<1> QED  BY <1>1, <1>3, <1>4, QuietFiles DEF Rewriting

\* Retry and the clock change no marker, and no record that is done.
LEMMA OutsideFiles == ASSUME IInv, Filed, Retry \/ Tick PROVE Filed'
<1>1. UNCHANGED <<tmp, vault, pc, cur, rec, enriched, stale>>
  BY DEF Retry, Tick, locals
<1>2. ASSUME NEW i \in Items
      PROVE  /\ store'[i].stage = store[i].stage /\ store'[i].note = store[i].note
             /\ store'[i].status = "done" <=> store[i].status = "done"
  <2>1. store[i] \in Records
    BY DEF IInv, TypeOK
  <2>2. CASE Retry
    <3>1. PICK S \in RetryTargets :
            store' = [j \in Items |->
                        IF j \in S
                          THEN [store[j] EXCEPT !.status = "pending", !.attempts = 0,
                                                !.wait = None, !.error = None]
                          ELSE store[j]]
      BY <2>2 DEF Retry
    <3>2. i \in S => store[i].status = "failed_permanent"
      BY <3>1 DEF RetryTargets
    <3> QED  BY <2>1, <3>1, <3>2 DEF Records
  <2>3. CASE Tick
    BY <2>1, <2>3 DEF Tick, Records
  <2> QED  BY <2>2, <2>3
<1>3. pc \notin {"idle", "pass"} => cur \in Items
  BY CurrentItem DEF IInv
<1> QED  BY <1>1, <1>2, <1>3 DEF Filed, Noted, Rewriting

LEMMA NextFiles ==
  ASSUME IInv, Filed, {"lock", "sweep"} \cap Faults = {}, [Next]_vars
  PROVE  Filed'
<1>1. CASE StartPass \/ EndPass \/ SaveTimesOut \/ Crash
  <2>1. UNCHANGED <<store, vault, tmp>>
    BY <1>1 DEF StartPass, EndPass, SaveTimesOut, Crash, durable, IInv, TypeOK
  <2>2. pc' \in {"idle", "pass"} /\ cur' = None
    BY <1>1 DEF StartPass, EndPass, SaveTimesOut, Crash, Release, locals, IInv, TypeOK
  <2> QED  BY <2>1, <2>2 DEF Filed, Rewriting
<1>2. CASE MarkTimesOut \/ CommitTimesOut
  BY <1>2 DEF MarkTimesOut, CommitTimesOut
<1>3. CASE UNCHANGED vars
  BY <1>3 DEF vars, Filed, Rewriting
<1>4. ASSUME NEW i \in Items, PickUp(i) PROVE Filed'
  BY <1>4, PickUpFiles
<1>5. CASE BeginDownload \/ Download \/ DownloadFallback \/ CaptureText \/ Extract \/ Enrich
  BY <1>5, FetchFiles
<1>6. CASE Mark \/ Commit \/ Save
  BY <1>6, SaveFiles
<1>7. CASE GenerateSkill \/ CleanUp
  BY <1>7, DoneFiles
<1>8. CASE \/ DownloadFails \/ CaptureFails \/ ExtractFails \/ EmptyFails \/ EnrichFails
           \/ WriteFails \/ HandleOutage \/ HandleGiveUp \/ HandleRetryLater
  BY <1>8, FailureFiles
<1> QED
  BY <1>1, <1>2, <1>3, <1>4, <1>5, <1>6, <1>7, <1>8, CheckFiles, StreamFiles, WriteNoteFiles,
     OutsideFiles
  DEF Next, PassStep, ItemStep

\* I5: an item no worker is busy with has at most one note, however often an attempt was
\* killed between writing the note and saying so, as long as no save of a finished note times
\* out and nothing sweeps the cache its title comes from.
THEOREM OneNoteHolds == {"lock", "sweep"} \cap Faults = {} => (Spec => []OneNote)
<1> SUFFICES ASSUME {"lock", "sweep"} \cap Faults = {} PROVE Spec => []OneNote
  OBVIOUS
<1>1. IInv /\ Filed /\ [Next]_vars => (IInv /\ Filed)'
  BY NextIInv, NextFiles
<1>2. IInv /\ Filed => OneNote
  BY DEF Filed, Noted, OneNote
<1> QED  BY <1>1, <1>2, InitIInv, InitFiled, PTL DEF Spec
===============================================================================
