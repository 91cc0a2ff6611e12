--------------------------- MODULE LlmWaterfallProofs ---------------------------
(***************************************************************************)
(* Proofs about LlmWaterfall for every ladder, every set of keys and every   *)
(* interval: types; calls of a provider are spaced; a call is given up only   *)
(* after every rung with a key; no call sleeps longer than its ladder allows. *)
(***************************************************************************)
EXTENDS LlmWaterfall, WellFoundedInduction, TLAPS

\* The rungs below k that a call asks.
Below(k) == {i \in DOMAIN Ladder : i < k /\ HasKey(Ladder[i])}

\* What has been tried when the call is at a rung.
Climbed ==
  /\ At("rung") => call.rung \in 1 .. Len(Ladder) + 1 /\ tried = Below(call.rung)
  /\ At("pace") =>
       /\ call.rung \in DOMAIN Ladder /\ HasKey(Provider) /\ tried = Below(call.rung)
  /\ call.step \in {"request", "backoff"} =>
       /\ call.rung \in DOMAIN Ladder /\ HasKey(Provider)
       /\ tried = Below(call.rung) \cup {call.rung}
  /\ At("backoff") => call.retry < Retries

\* The stamps are the times of the requests, and who waits for one waits long enough.
Paced ==
  /\ asked = last
  /\ At("pace") => last[Provider] = None \/ last[Provider] + call.left >= MinInterval[Provider]

\* Calls left and answers so far never exceed the batches.
Batched ==
  call.step \notin {"idle", "end"} => task.left > 0 /\ task.left + task.done <= MaxBatches

\* The types of the two records.
CallRecords ==
  [step : {"idle", "rung", "pace", "request", "backoff", "answer", "raise", "end"},
   rung : Nat, retry : 0 .. Retries, left : Nat, error : {"none", "credential", "call", "other"}]

TaskRecords ==
  [kind : Tasks \cup {"none"}, personal : BOOLEAN, left : 0 .. MaxBatches, done : 0 .. MaxBatches,
   end : {"none", "rejected", "result", "error"}]

IInv == TypeOK /\ Climbed /\ Paced /\ Batched /\ GivenUpAfterAll

LEMMA Constants ==
  /\ TextLadder \in Seq(Providers) /\ VisionLadder \in Seq(Providers)
  /\ MinInterval \in [Providers -> Nat] /\ Retries \in Nat /\ MaxBatches \in Nat \ {0}
  /\ Asked \subseteq Nat /\ None \notin Nat
BY LlmWaterfallAssumption

LEMMA LadderType == Ladder \in Seq(Providers)
<1>1. <<"ollama">> \in Seq(Providers)
  BY DEF Providers, Local
<1> QED  BY <1>1, Constants DEF Ladder

LEMMA RungsOfLadder ==
  /\ Len(Ladder) \in Nat /\ DOMAIN Ladder = 1 .. Len(Ladder)
  /\ \A i \in DOMAIN Ladder : Ladder[i] \in Providers
BY LadderType

\* A task keeps its ladder while it lasts.
LEMMA SameLadder ==
  ASSUME task'.kind = task.kind, task'.personal = task.personal
  PROVE  Ladder' = Ladder
BY DEF Ladder, LocalOnly

LEMMA FirstBelow == Below(1) = {}
BY RungsOfLadder DEF Below

LEMMA AllBelow ==
  \A k \in Nat : k > Len(Ladder) => Below(k) = {i \in DOMAIN Ladder : HasKey(Ladder[i])}
BY RungsOfLadder DEF Below

LEMMA NextBelow ==
  ASSUME NEW k \in DOMAIN Ladder
  PROVE  Below(k + 1) = IF HasKey(Ladder[k]) THEN Below(k) \cup {k} ELSE Below(k)
BY RungsOfLadder DEF Below

\* Within a call only its record and what it tried can lose their type.
LEMMA CallType ==
  ASSUME IInv, UNCHANGED <<task, last, asked, slept>>, call' \in CallRecords, tried' \subseteq Nat
  PROVE  TypeOK'
BY DEF IInv, TypeOK, CallRecords

LEMMA RecordTypes == IInv => call \in CallRecords /\ task \in TaskRecords
BY DEF IInv, TypeOK, CallRecords, TaskRecords

\* The records stay in their sets when a field is changed.
Steps == {"idle", "rung", "pace", "request", "backoff", "answer", "raise", "end"}
Errors == {"none", "credential", "call", "other"}
Ends == {"none", "rejected", "result", "error"}

LEMMA CallFields ==
  ASSUME NEW c \in CallRecords
  PROVE  /\ \A s \in Steps : [c EXCEPT !.step = s] \in CallRecords
         /\ \A k \in Nat : [c EXCEPT !.rung = k] \in CallRecords
         /\ \A k \in 0 .. Retries : [c EXCEPT !.retry = k] \in CallRecords
         /\ \A k \in Nat : [c EXCEPT !.left = k] \in CallRecords
         /\ \A e \in Errors : [c EXCEPT !.error = e] \in CallRecords
BY DEF CallRecords, Steps, Errors

LEMMA TaskFields ==
  ASSUME NEW c \in TaskRecords
  PROVE  /\ \A k \in 0 .. MaxBatches : [c EXCEPT !.left = k] \in TaskRecords
         /\ \A k \in 0 .. MaxBatches : [c EXCEPT !.done = k] \in TaskRecords
         /\ \A e \in Ends : [c EXCEPT !.end = e] \in TaskRecords
BY DEF TaskRecords, Ends

LEMMA LimitType ==
  ASSUME IInv, NEW wait \in LimitWaits
  PROVE  wait \in Nat
<1>1. call.retry \in 0 .. Retries
  BY DEF IInv, TypeOK
<1>2. 2 ^ call.retry \in Nat
  BY <1>1, LlmWaterfallAssumption
<1> QED  BY <1>2, Constants DEF LimitWaits

--------------------------------------------------------------------------------
(* The steps of a call. *)

\* What a step within a call leaves alone.
LEMMA WithinCall ==
  ASSUME IInv, UNCHANGED <<task, last, asked>>
  PROVE  /\ Ladder' = Ladder /\ task' = task
         /\ \A k : Below(k)' = Below(k)
         /\ last' \in Ages /\ asked' \in Ages /\ asked' = last'
BY SameLadder DEF IInv, TypeOK, Paced, Below

LEMMA PassOverKeeps == ASSUME IInv, PassOver PROVE IInv'
<1>1. /\ call.step = "rung" /\ call.rung \in DOMAIN Ladder /\ ~HasKey(Provider)
      /\ call.rung \in Nat /\ tried = Below(call.rung)
  BY RungsOfLadder DEF PassOver, At, IInv, Climbed
<1>2. /\ call' = [call EXCEPT !.rung = @ + 1, !.error = "credential"]
      /\ UNCHANGED <<task, last, asked, tried, slept>>
  BY DEF PassOver
<1>3. /\ call'.step = "rung" /\ call'.rung = call.rung + 1
      /\ call'.left = call.left /\ call'.retry = call.retry
  BY <1>1, <1>2 DEF IInv, TypeOK
<1>4. TypeOK'
  <2>1. [call EXCEPT !.rung = @ + 1, !.error = "credential"] \in CallRecords
    <3>1. call \in CallRecords /\ call.rung + 1 \in Nat /\ "credential" \in Errors
      BY <1>1, RecordTypes DEF Errors
    <3>2. [call EXCEPT !.rung = @ + 1] \in CallRecords
      BY <3>1, CallFields
    <3> QED  BY <3>1, <3>2, CallFields, Zenon
  <2> QED  BY <1>2, <2>1, CallType DEF IInv, TypeOK
<1>5. Climbed'
  <2>1. Below(call.rung + 1) = Below(call.rung)
    BY <1>1, NextBelow DEF Provider
  <2>2. Below(call.rung)' = Below(call.rung + 1) /\ Ladder' = Ladder
    BY <1>2, <1>3, SameLadder DEF Below
  <2> QED  BY <1>1, <1>2, <1>3, <2>1, <2>2, RungsOfLadder DEF Climbed, At
<1>6. Paced' /\ Batched' /\ GivenUpAfterAll'
  BY <1>1, <1>2, <1>3 DEF IInv, Paced, Batched, GivenUpAfterAll, At
<1> QED  BY <1>4, <1>5, <1>6 DEF IInv

LEMMA ThrottleKeeps == ASSUME IInv, Throttle PROVE IInv'
<1>1. /\ call.step = "rung" /\ call.rung \in DOMAIN Ladder /\ HasKey(Provider)
      /\ call.rung \in Nat /\ tried = Below(call.rung) /\ Provider \in Providers
  BY RungsOfLadder DEF Throttle, At, IInv, Climbed, Provider
<1>2. /\ call' = [call EXCEPT !.step = "pace", !.left = Spacing(Provider), !.retry = 0]
      /\ UNCHANGED <<task, last, asked, tried, slept>>
  BY DEF Throttle
<1>3. last \in Ages /\ MinInterval[Provider] \in Nat
  BY <1>1, Constants DEF IInv, TypeOK
<1>4. /\ Spacing(Provider) \in Nat
      /\ last[Provider] = None \/ last[Provider] + Spacing(Provider) >= MinInterval[Provider]
  BY <1>1, <1>3, Constants DEF Spacing, Ages
<1>5. /\ call'.step = "pace" /\ call'.rung = call.rung /\ call'.left = Spacing(Provider)
      /\ call'.retry = 0
  BY <1>2 DEF IInv, TypeOK
<1>6. TypeOK'
  <2>1. [call EXCEPT !.step = "pace", !.left = Spacing(Provider), !.retry = 0] \in CallRecords
    <3>1. call \in CallRecords /\ 0 \in 0 .. Retries /\ "pace" \in Steps
      BY RecordTypes, Constants DEF Steps
    <3>2. [call EXCEPT !.step = "pace"] \in CallRecords
      BY <3>1, CallFields
    <3>3. [call EXCEPT !.step = "pace", !.left = Spacing(Provider)] \in CallRecords
      BY <1>4, <3>2, CallFields, Zenon
    <3> QED  BY <3>1, <3>3, CallFields, Zenon
  <2> QED  BY <1>2, <2>1, CallType DEF IInv, TypeOK
<1>7. Climbed' /\ Provider' = Provider
  BY <1>1, <1>2, <1>5, WithinCall DEF Climbed, At, Provider, HasKey
<1>8. Paced' /\ Batched' /\ GivenUpAfterAll'
  BY <1>1, <1>2, <1>4, <1>5, <1>7 DEF IInv, Paced, Batched, GivenUpAfterAll, At
<1> QED  BY <1>6, <1>7, <1>8 DEF IInv

LEMMA StampKeeps == ASSUME IInv, Stamp PROVE IInv'
<1>1. /\ call.step = "pace" /\ call.rung \in DOMAIN Ladder /\ HasKey(Provider)
      /\ tried = Below(call.rung)
  BY DEF Stamp, At, IInv, Climbed
<1>2. /\ call' = [call EXCEPT !.step = "request"] /\ tried' = tried \cup {call.rung}
      /\ last' = [last EXCEPT ![Provider] = 0] /\ asked' = [asked EXCEPT ![Provider] = 0]
      /\ UNCHANGED <<task, slept>>
  BY DEF Stamp, Stamped
<1>3. call'.step = "request" /\ call'.rung = call.rung
  BY <1>2 DEF IInv, TypeOK
<1>4. TypeOK'
  <2>1. last' \in Ages /\ asked' \in Ages
    BY <1>2 DEF IInv, TypeOK, Ages
  <2>2. tried' \subseteq Nat
    BY <1>1, <1>2, RungsOfLadder DEF IInv, TypeOK
  <2> QED  BY <1>2, <2>1, <2>2 DEF IInv, TypeOK
<1>5. Climbed'
  BY <1>1, <1>2, <1>3, SameLadder DEF Climbed, At, Provider, HasKey, Below
<1>6. Paced' /\ Batched' /\ GivenUpAfterAll'
  BY <1>1, <1>2, <1>3 DEF IInv, Paced, Batched, GivenUpAfterAll, At
<1> QED  BY <1>4, <1>5, <1>6 DEF IInv

\* From a request to the next rung: this one has been tried.
LEMMA NextRungKeeps ==
  ASSUME IInv, At("request"), call' = NextRung, UNCHANGED <<task, last, asked, tried, slept>>
  PROVE  IInv'
<1>1. /\ call.rung \in DOMAIN Ladder /\ HasKey(Provider) /\ call.rung \in Nat
      /\ tried = Below(call.rung) \cup {call.rung}
  BY RungsOfLadder DEF At, IInv, Climbed
<1>2. call'.step = "rung" /\ call'.rung = call.rung + 1
  BY DEF NextRung, IInv, TypeOK
<1>3. TypeOK'
  <2>1. NextRung \in CallRecords
    <3>1. /\ call \in CallRecords /\ call.rung + 1 \in Nat /\ 0 \in 0 .. Retries
          /\ "rung" \in Steps /\ "call" \in Errors
      BY <1>1, RecordTypes, Constants DEF Steps, Errors
    <3>2. [call EXCEPT !.step = "rung"] \in CallRecords
      BY <3>1, CallFields
    <3>3. [call EXCEPT !.step = "rung", !.rung = @ + 1] \in CallRecords
      <4> DEFINE c == [call EXCEPT !.step = "rung"]
      <4>1. c.rung = call.rung
        BY <3>1 DEF CallRecords
      <4> QED  BY <3>1, <3>2, <4>1, CallFields, Zenon
    <3>4. [call EXCEPT !.step = "rung", !.rung = @ + 1, !.retry = 0] \in CallRecords
      BY <3>1, <3>3, CallFields, Zenon
    <3> QED  BY <3>1, <3>4, CallFields, Zenon DEF NextRung
  <2> QED  BY <2>1, CallType DEF IInv, TypeOK
<1>4. Climbed'
  <2>1. Below(call.rung + 1) = tried
    BY <1>1, NextBelow DEF Provider
  <2>2. Below(call.rung)' = Below(call.rung + 1) /\ Ladder' = Ladder
    BY <1>2, SameLadder DEF Below
  <2> QED  BY <1>1, <1>2, <2>1, <2>2, RungsOfLadder DEF Climbed, At
<1>5. Paced' /\ Batched' /\ GivenUpAfterAll'
  BY <1>2 DEF IInv, Paced, Batched, GivenUpAfterAll, At
<1> QED  BY <1>3, <1>4, <1>5 DEF IInv

LEMMA ReplyKeeps == ASSUME IInv, Reply PROVE IInv'
<1>1. At("request") /\ UNCHANGED <<task, last, asked, tried, slept>>
  BY DEF Reply
<1>2. call.rung \in DOMAIN Ladder /\ tried = Below(call.rung) \cup {call.rung} /\ HasKey(Provider)
  BY <1>1 DEF At, IInv, Climbed
<1>3. CASE call' = NextRung
  BY <1>1, <1>3, NextRungKeeps
<1>4. ASSUME MayRetry, NEW wait \in LimitWaits,
             call' = [call EXCEPT !.step = "backoff", !.left = wait]
      PROVE  IInv'
  <2>1. call'.step = "backoff" /\ call'.rung = call.rung /\ call'.retry = call.retry
    BY <1>4 DEF IInv, TypeOK
  <2>2. TypeOK'
    BY <1>1, <1>4, LimitType DEF IInv, TypeOK
  <2>3. Climbed'
    BY <1>1, <1>2, <1>4, <2>1, WithinCall DEF Climbed, At, Provider, HasKey, MayRetry
  <2>4. Paced' /\ Batched' /\ GivenUpAfterAll'
    BY <1>1, <2>1 DEF IInv, Paced, Batched, GivenUpAfterAll, At
  <2> QED  BY <2>2, <2>3, <2>4 DEF IInv
<1>5. CASE call' = [call EXCEPT !.step = "answer"]
  <2>1. call'.step = "answer"
    BY <1>5 DEF IInv, TypeOK
  <2> QED
    BY <1>1, <1>5, <2>1 DEF IInv, TypeOK, Climbed, Paced, Batched, GivenUpAfterAll, At
<1>6. CASE call' = [call EXCEPT !.step = "raise", !.error = "other"]
  <2>1. call'.step = "raise" /\ call'.error = "other"
    BY <1>6 DEF IInv, TypeOK
  <2> QED
    BY <1>1, <1>6, <2>1 DEF IInv, TypeOK, Climbed, Paced, Batched, GivenUpAfterAll, At
<1>7. CASE Limited
  BY <1>3, <1>4, <1>7 DEF Limited
<1> QED  BY <1>3, <1>5, <1>6, <1>7 DEF Reply

LEMMA AgainKeeps == ASSUME IInv, Again PROVE IInv'
<1>1. /\ call.step = "backoff" /\ call.retry < Retries
      /\ call' = [call EXCEPT !.step = "request", !.retry = @ + 1]
      /\ UNCHANGED <<task, last, asked, tried, slept>>
  BY DEF Again, At, IInv, Climbed
<1>2. call'.step = "request" /\ call'.rung = call.rung
  BY <1>1 DEF IInv, TypeOK
<1>3. TypeOK'
  <2>1. [call EXCEPT !.step = "request", !.retry = @ + 1] \in CallRecords
    <3>1. call \in CallRecords /\ call.retry + 1 \in 0 .. Retries /\ "request" \in Steps
      BY <1>1, RecordTypes, Constants DEF CallRecords, Steps
    <3>2. [call EXCEPT !.step = "request"] \in CallRecords
      BY <3>1, CallFields
    <3> DEFINE c == [call EXCEPT !.step = "request"]
    <3>3. c.retry = call.retry
      BY <3>1 DEF CallRecords
    <3> QED  BY <3>1, <3>2, <3>3, CallFields, Zenon
  <2> QED  BY <1>1, <2>1, CallType DEF IInv, TypeOK
<1>4. Climbed'
  BY <1>1, <1>2, WithinCall DEF IInv, Climbed, At, Provider, HasKey
<1>5. Paced' /\ Batched' /\ GivenUpAfterAll'
  BY <1>1, <1>2 DEF IInv, Paced, Batched, GivenUpAfterAll, At
<1> QED  BY <1>3, <1>4, <1>5 DEF IInv

LEMMA ExhaustedKeeps == ASSUME IInv, Exhausted PROVE IInv'
<1>1. /\ call.step = "rung" /\ call.rung > Len(Ladder) /\ call.rung \in Nat
      /\ tried = Below(call.rung) /\ call' = [call EXCEPT !.step = "raise"]
      /\ UNCHANGED <<task, last, asked, tried, slept>>
  BY RungsOfLadder DEF Exhausted, At, IInv, Climbed, TypeOK
<1>2. call'.step = "raise"
  BY <1>1 DEF IInv, TypeOK
<1>3. TypeOK'
  BY <1>1 DEF IInv, TypeOK
<1>4. GivenUpAfterAll'
  BY <1>1, WithinCall, AllBelow DEF GivenUpAfterAll, HasKey
<1>5. Climbed' /\ Paced' /\ Batched'
  BY <1>1, <1>2 DEF IInv, Climbed, Paced, Batched, At
<1> QED  BY <1>3, <1>4, <1>5 DEF IInv

--------------------------------------------------------------------------------
(* The steps of a task, and time. *)

\* A new call starts at the first rung with nothing tried.
LEMMA FreshKeeps ==
  ASSUME IInv, call' = NewCall, tried' = {}, slept' = 0, UNCHANGED <<last, asked>>,
         task' \in TaskRecords,
         task'.left > 0, task'.left + task'.done <= MaxBatches
  PROVE  IInv'
<1>1. call'.step = "rung" /\ call'.rung = 1
  BY DEF NewCall, NoCall
<1>2. TypeOK'
  <2>1. NewCall \in CallRecords
    <3>1. NoCall \in CallRecords /\ "rung" \in Steps /\ 1 \in Nat
      BY Constants DEF NoCall, CallRecords, Steps
    <3>2. [NoCall EXCEPT !.step = "rung"] \in CallRecords
      BY <3>1, CallFields
    <3> QED  BY <3>1, <3>2, CallFields, Zenon DEF NewCall
  <2> QED  BY <2>1 DEF IInv, TypeOK, CallRecords, TaskRecords
<1>3. Climbed'
  <2>1. Ladder' \in Seq(Providers)
    <3>1. <<"ollama">> \in Seq(Providers)
      BY DEF Providers, Local
    <3> QED  BY <3>1, Constants DEF Ladder
  <2> QED  BY <1>1, <2>1 DEF Climbed, At, Below
<1>4. Paced' /\ Batched' /\ GivenUpAfterAll'
  BY <1>1 DEF IInv, Paced, Batched, GivenUpAfterAll, At
<1> QED  BY <1>2, <1>3, <1>4 DEF IInv

\* A task or a call that is over.
LEMMA OverKeeps ==
  ASSUME IInv, call'.step \in {"idle", "end"}, UNCHANGED <<last, asked>>, TypeOK'
  PROVE  IInv'
BY DEF IInv, Climbed, Paced, Batched, GivenUpAfterAll, At

LEMMA StepEnds ==
  ASSUME IInv, call' = [call EXCEPT !.step = "end"], task' \in TaskRecords,
         tried' \subseteq Nat, slept' \in Nat, UNCHANGED <<last, asked>>
  PROVE  IInv'
<1>1. call' \in CallRecords /\ call'.step = "end"
  BY RecordTypes DEF CallRecords
<1>2. TypeOK'
  BY <1>1 DEF IInv, TypeOK, CallRecords, TaskRecords
<1> QED  BY <1>1, <1>2, OverKeeps

LEMMA BeginKeeps ==
  ASSUME IInv, NEW kind \in Tasks, NEW personal \in BOOLEAN, NEW batches \in 1 .. MaxBatches,
         Begin(kind, personal, batches)
  PROVE  IInv'
<1>1. task' = [kind |-> kind, personal |-> personal, left |-> batches, done |-> 0, end |-> "none"]
  BY DEF Begin
<1>2. task' \in TaskRecords
  BY <1>1, Constants DEF TaskRecords
<1> QED  BY <1>1, <1>2, FreshKeeps, Constants DEF Begin, NewCall

LEMMA UseKeeps == ASSUME IInv, Use PROVE IInv'
<1>1. /\ call.step = "answer" /\ tried' = {} /\ slept' = 0 /\ UNCHANGED <<last, asked>>
      /\ Accept \/ Refuse
  BY DEF Use, At
<1>2. /\ task.left > 0 /\ task.left + task.done <= MaxBatches /\ task.left \in 0 .. MaxBatches
      /\ task.done \in 0 .. MaxBatches /\ MaxBatches \in Nat
  BY <1>1, Constants DEF IInv, TypeOK, Batched
<1>3. CASE task' = [task EXCEPT !.left = @ - 1, !.done = @ + 1] /\ call' = NewCall /\ task.left > 1
  <2>1. task' \in TaskRecords /\ task'.left = task.left - 1 /\ task'.done = task.done + 1
    <3>1. task \in TaskRecords /\ task.left - 1 \in 0 .. MaxBatches /\ task.done + 1 \in 0 .. MaxBatches
      BY <1>2, <1>3, RecordTypes
    <3> DEFINE c == [task EXCEPT !.left = @ - 1]
    <3>2. c \in TaskRecords
      BY <3>1, TaskFields
    <3>3. c.done = task.done /\ c.left = task.left - 1
      BY <3>1 DEF TaskRecords
    <3>4. task' = [c EXCEPT !.done = task.done + 1]
      BY <1>3, <3>3, Zenon
    <3> HIDE DEF c
    <3>5. task' \in TaskRecords
      BY <3>1, <3>2, <3>4, TaskFields
    <3> QED  BY <3>2, <3>3, <3>4, <3>5 DEF TaskRecords
  <2> QED  BY <1>1, <1>2, <1>3, <2>1, FreshKeeps
<1>4. CASE task' = [task EXCEPT !.end = "rejected"] /\ call' = NewCall
  <2>1. task' \in TaskRecords /\ task'.left = task.left /\ task'.done = task.done
    BY <1>4, RecordTypes DEF TaskRecords
  <2> QED  BY <1>1, <1>2, <1>4, <2>1, FreshKeeps
<1>5. ASSUME call' = [call EXCEPT !.step = "end"],
             \/ task' = [task EXCEPT !.left = 0, !.done = @ + 1, !.end = "result"]
             \/ task' = [task EXCEPT !.end = "error"]
      PROVE  IInv'
  <2>1. CASE task' = [task EXCEPT !.end = "error"]
    BY <1>1, <1>5, <2>1, RecordTypes, StepEnds DEF TaskRecords
  <2>2. CASE task' = [task EXCEPT !.left = 0, !.done = @ + 1, !.end = "result"]
    <3> DEFINE c == [task EXCEPT !.left = 0]
               d == [c EXCEPT !.done = task.done + 1]
    <3>1. /\ task \in TaskRecords /\ 0 \in 0 .. MaxBatches /\ task.done + 1 \in 0 .. MaxBatches
          /\ "result" \in Ends
      BY <1>2, RecordTypes DEF Ends
    <3>2. c \in TaskRecords
      BY <3>1, TaskFields
    <3>3. c.done = task.done
      BY <3>1 DEF TaskRecords
    <3>4. task' = [d EXCEPT !.end = "result"]
      BY <2>2, <3>3, Zenon
    <3> HIDE DEF c
    <3>5. d \in TaskRecords
      BY <3>1, <3>2, TaskFields
    <3> HIDE DEF d
    <3>6. task' \in TaskRecords
      BY <3>1, <3>4, <3>5, TaskFields
    <3> QED  BY <1>1, <1>5, <3>6, StepEnds
  <2> QED  BY <1>5, <2>1, <2>2
<1> QED  BY <1>1, <1>2, <1>3, <1>4, <1>5 DEF Accept, Refuse

LEMMA RaiseKeeps == ASSUME IInv, Raise PROVE IInv'
<1>1. task' \in TaskRecords
  BY RecordTypes DEF Raise, TaskRecords
<1> QED  BY <1>1, StepEnds DEF Raise, IInv, TypeOK

LEMMA EndKeeps == ASSUME IInv, End PROVE IInv'
<1>1. NoCall \in CallRecords /\ Idle \in TaskRecords /\ NoCall.step = "idle"
  BY Constants DEF NoCall, Idle, CallRecords, TaskRecords
<1>2. TypeOK'
  BY <1>1 DEF End, IInv, TypeOK, CallRecords, TaskRecords
<1> QED  BY <1>1, <1>2, OverKeeps DEF End

LEMMA TickKeeps == ASSUME IInv, Tick PROVE IInv'
<1>1. /\ last' = Older(last) /\ asked' = Older(asked) /\ UNCHANGED <<task, tried>>
      /\ call' = IF call.left > 0 THEN [call EXCEPT !.left = @ - 1] ELSE call
  BY DEF Tick
<1>2. /\ call'.step = call.step /\ call'.rung = call.rung /\ call'.error = call.error
      /\ call'.left = (IF call.left > 0 THEN call.left - 1 ELSE call.left)
      /\ call'.retry = call.retry
  BY <1>1 DEF IInv, TypeOK
<1>3. TypeOK'
  <2>1. last' \in Ages /\ asked' \in Ages
    BY <1>1, Constants, SMTT(60) DEF IInv, TypeOK, Ages, Older
  <2> QED  BY <1>1, <2>1 DEF Tick, IInv, TypeOK
<1>4. Ladder' = Ladder /\ Provider' = Provider /\ \A k : Below(k)' = Below(k)
  BY <1>1, <1>2, SameLadder DEF Provider, Below
<1>5. Climbed'
  BY <1>1, <1>2, <1>4 DEF IInv, Climbed, At, HasKey
<1>6. Paced'
  <2>1. CASE call.step = "pace"
    <3>1. /\ Provider \in Providers /\ call.left \in Nat
          /\ last[Provider] \in Nat \cup {None} /\ MinInterval[Provider] \in Nat
      BY <2>1, RungsOfLadder, Constants DEF IInv, TypeOK, Ages, Climbed, At, Provider
    <3>2. last'[Provider] =
            IF last[Provider] = None \/ last[Provider] >= MinInterval[Provider]
            THEN last[Provider] ELSE last[Provider] + 1
      BY <1>1, <3>1 DEF Older
    <3> QED  BY <1>1, <1>2, <1>4, <2>1, <3>1, <3>2, Constants, SMTT(60) DEF IInv, Paced, At
  <2>2. CASE call.step # "pace"
    BY <1>1, <1>2, <2>2 DEF IInv, Paced, At
  <2> QED  BY <2>1, <2>2
<1>7. Batched' /\ GivenUpAfterAll'
  BY <1>1, <1>2, <1>4 DEF IInv, Batched, GivenUpAfterAll, At
<1> QED  BY <1>3, <1>5, <1>6, <1>7 DEF IInv

--------------------------------------------------------------------------------
(* The theorems. *)

LEMMA InitKeeps == Init => IInv
BY Constants
   DEF Init, IInv, TypeOK, Idle, NoCall, Ages, Climbed, Paced, Batched, GivenUpAfterAll, At

LEMMA NextKeeps == IInv /\ [Next]_vars => IInv'
<1> SUFFICES ASSUME IInv, [Next]_vars PROVE IInv'
  OBVIOUS
<1>1. CASE Step
  BY <1>1, PassOverKeeps, ThrottleKeeps, StampKeeps, ReplyKeeps, AgainKeeps, ExhaustedKeeps, UseKeeps,
     RaiseKeeps, EndKeeps DEF Step
<1>2. CASE UNCHANGED vars
  BY <1>2 DEF vars, IInv, TypeOK, Climbed, Paced, Batched, GivenUpAfterAll, At, Below, Ladder,
              LocalOnly, Provider, HasKey
<1> QED  BY <1>1, <1>2, BeginKeeps, TickKeeps DEF Next

\* The rungs tried, the stamps and the batches fit the step a call is at.
THEOREM Invariance == Spec => []IInv
BY InitKeeps, NextKeeps, PTL DEF Spec

\* Every variable keeps its type.
THEOREM TypeCorrect == Spec => []TypeOK
BY Invariance, PTL DEF IInv

\* A call is given up only after every rung with a key, on any ladder and with any keys.
THEOREM GivenUpAfterAllHolds == Spec => []GivenUpAfterAll
BY Invariance, PTL DEF IInv

\* Calls of a provider are spaced by its interval, on any ladder and after any outcome.
THEOREM CallsSpacedHolds == Spec => CallsSpaced
<1>1. ASSUME IInv, [Next]_vars
      PROVE  \A p \in Providers :
               asked'[p] = 0 /\ asked[p] # 0 => asked[p] = None \/ asked[p] >= MinInterval[p]
  <2> SUFFICES ASSUME NEW p \in Providers, asked'[p] = 0, asked[p] # 0
               PROVE  asked[p] = None \/ asked[p] >= MinInterval[p]
    OBVIOUS
  <2>1. asked[p] \in Nat \cup {None} /\ MinInterval[p] \in Nat
    BY <1>1, Constants DEF IInv, TypeOK, Ages
  <2>2. CASE asked' = asked
    BY <1>1, <2>2
  <2>3. CASE Stamp
    <3>1. p = Provider
      BY <1>1, <2>3 DEF Stamp, IInv, TypeOK, Ages
    <3> QED  BY <1>1, <2>1, <2>3, <3>1, Constants DEF Stamp, IInv, Paced, At
  <2>4. CASE Tick
    BY <1>1, <2>1, <2>4, Constants DEF Tick, Older
  <2> QED
    BY <1>1, <2>2, <2>3, <2>4
       DEF Next, Step, vars, Begin, PassOver, Throttle, Reply, Again, Exhausted, Use, Raise, End
<1> QED  BY <1>1, Invariance, PTL DEF Spec, CallsSpaced

--------------------------------------------------------------------------------
(* What spacing adds up to. *)

\* A set of natural numbers has a least element: there is no infinite descent.
Descent == {p \in Nat \X Nat : p[1] < p[2]}

LEMMA LeastElement ==
  ASSUME NEW T, T \subseteq Nat, T # {}
  PROVE  \E m \in T : \A n \in T : m <= n
<1>1. IsWellFoundedOn(Descent, Nat)
  BY NatLessThanWellFounded DEF OpToRel, Descent
<1>2. PICK m \in T : \A n \in T : ~ (<<n, m>> \in Descent)
  BY <1>1, WFMin
<1>3. ASSUME NEW n \in T PROVE m <= n
  <2>1. <<n, m>> \in Nat \X Nat /\ <<n, m>>[1] = n /\ <<n, m>>[2] = m
    OBVIOUS
  <2> QED  BY <1>2, <2>1 DEF Descent
<1> QED  BY <1>3

\* Induction along a ladder, about a set of rungs.
LEMMA Induction ==
  ASSUME NEW N \in Nat, NEW S, 0 \in S, \A n \in 0 .. N - 1 : n \in S => n + 1 \in S
  PROVE  0 .. N \subseteq S
<1> SUFFICES ASSUME (0 .. N) \ S # {} PROVE FALSE
  OBVIOUS
<1>1. PICK m \in (0 .. N) \ S : \A n \in (0 .. N) \ S : m <= n
  <2>1. (0 .. N) \ S \subseteq Nat
    OBVIOUS
  <2> QED  BY <2>1, LeastElement
<1>2. m # 0 /\ m - 1 \in 0 .. N - 1 /\ m - 1 \notin S
  BY <1>1
<1> QED  BY <1>1, <1>2

\* A function that adds up the intervals of a ladder, as far as rung n.
AddsUp(ladder, n, f) ==
  /\ f = [i \in 0 .. n |-> IF i = 0 THEN 0 ELSE f[i - 1] + MinInterval[ladder[i]]]
  /\ f \in [0 .. n -> Nat]

LEMMA IntervalType ==
  ASSUME NEW ladder \in Seq(Providers), NEW i \in 1 .. Len(ladder)
  PROVE  MinInterval[ladder[i]] \in Nat
<1>1. ladder[i] \in Providers
  OBVIOUS
<1> QED  BY <1>1, Constants

LEMMA SumsExist ==
  ASSUME NEW ladder \in Seq(Providers)
  PROVE  \A n \in 0 .. Len(ladder) : \E f : AddsUp(ladder, n, f)
<1> DEFINE S == {n \in 0 .. Len(ladder) : \E f : AddsUp(ladder, n, f)}
<1>0. Len(ladder) \in Nat
  OBVIOUS
<1>1. 0 \in S
  <2>1. AddsUp(ladder, 0, [i \in 0 .. 0 |-> 0])
    BY DEF AddsUp
  <2> QED  BY <1>0, <2>1
<1>2. ASSUME NEW n \in 0 .. Len(ladder) - 1, n \in S PROVE n + 1 \in S
  <2>1. PICK g : AddsUp(ladder, n, g)
    BY <1>2
  <2> DEFINE w == MinInterval[ladder[n + 1]]
             f == [i \in 0 .. n + 1 |-> IF i = n + 1 THEN g[n] + w ELSE g[i]]
  <2>2. w \in Nat
    BY <1>0, IntervalType
  <2>3. g \in [0 .. n -> Nat] /\ g[n] \in Nat
    BY <1>0, <2>1 DEF AddsUp
  <2>4. f \in [0 .. n + 1 -> Nat]
    BY <1>0, <2>2, <2>3
  <2>5. ASSUME NEW i \in 0 .. n + 1
        PROVE  f[i] = IF i = 0 THEN 0 ELSE f[i - 1] + MinInterval[ladder[i]]
    BY <1>0, <2>1, <2>3 DEF AddsUp
  <2>6. AddsUp(ladder, n + 1, f)
    BY <2>4, <2>5 DEF AddsUp
  <2> QED  BY <1>0, <2>6
<1> HIDE DEF S
<1>3. 0 .. Len(ladder) \subseteq S
  BY <1>0, <1>1, <1>2, Induction
<1> QED  BY <1>3 DEF S

\* The recursive definition defines what it says.
LEMMA SpacingsAdd ==
  ASSUME NEW ladder \in Seq(Providers)
  PROVE  /\ SpacingsOf(ladder) \in [0 .. Len(ladder) -> Nat]
         /\ SpacingsOf(ladder)[0] = 0
         /\ \A i \in 1 .. Len(ladder) :
              SpacingsOf(ladder)[i] = SpacingsOf(ladder)[i - 1] + MinInterval[ladder[i]]
<1> DEFINE s == SpacingsOf(ladder)
<1>0. Len(ladder) \in Nat
  OBVIOUS
<1>1. PICK f : AddsUp(ladder, Len(ladder), f)
  BY <1>0, SumsExist
<1>2. s = [i \in 0 .. Len(ladder) |-> IF i = 0 THEN 0 ELSE s[i - 1] + MinInterval[ladder[i]]]
  BY <1>1 DEF SpacingsOf, AddsUp
<1> HIDE DEF s
<1> DEFINE S == {n \in 0 .. Len(ladder) : s[n] \in Nat}
<1>3. 0 \in S
  BY <1>0, <1>2
<1>4. ASSUME NEW n \in 0 .. Len(ladder) - 1, n \in S PROVE n + 1 \in S
  <2>1. MinInterval[ladder[n + 1]] \in Nat
    BY <1>0, IntervalType
  <2>2. n + 1 \in 0 .. Len(ladder) /\ n + 1 # 0 /\ (n + 1) - 1 = n /\ s[n] \in Nat
    BY <1>0, <1>4
  <2>3. s[n + 1] = s[(n + 1) - 1] + MinInterval[ladder[n + 1]]
    BY <1>2, <2>2
  <2> QED  BY <2>1, <2>2, <2>3
<1> HIDE DEF S
<1>5. 0 .. Len(ladder) \subseteq S
  BY <1>0, <1>3, <1>4, Induction
<1>6. \A n \in 0 .. Len(ladder) : s[n] \in Nat
  BY <1>5 DEF S
<1>7. s[0] = 0 /\ s \in [0 .. Len(ladder) -> Nat]
  <2>1. 0 \in 0 .. Len(ladder)
    BY <1>0
  <2>2. s[0] = 0
    BY <1>2, <2>1
  <2> QED  BY <1>2, <1>6, <2>2, Zenon
<1>8. ASSUME NEW i \in 1 .. Len(ladder) PROVE s[i] = s[i - 1] + MinInterval[ladder[i]]
  BY <1>0, <1>2
<1> QED  BY <1>7, <1>8 DEF s

\* The further up, the more spacing.
LEMMA SpacingsGrow ==
  ASSUME NEW ladder \in Seq(Providers)
  PROVE  \A k \in 0 .. Len(ladder) : SpacingsOf(ladder)[k] <= SpacingsOf(ladder)[Len(ladder)]
<1> DEFINE s == SpacingsOf(ladder)
           n == Len(ladder)
           S == {d \in 0 .. n : s[n - d] <= s[n]}
<1>0. n \in Nat /\ s \in [0 .. n -> Nat] /\ \A i \in 1 .. n : s[i] = s[i - 1] + MinInterval[ladder[i]]
  BY SpacingsAdd
<1> HIDE DEF s
<1>1. 0 \in S
  BY <1>0
<1>2. ASSUME NEW d \in 0 .. n - 1, d \in S PROVE d + 1 \in S
  <2>1. n - d \in 1 .. n /\ (n - d) - 1 = n - (d + 1)
    BY <1>0
  <2>2. MinInterval[ladder[n - d]] \in Nat
    BY <2>1, IntervalType
  <2>3. s[n - d] = s[n - (d + 1)] + MinInterval[ladder[n - d]]
    BY <1>0, <2>1
  <2>4. s[n - (d + 1)] \in Nat /\ s[n] \in Nat
    <3>1. n - (d + 1) \in 0 .. n /\ n \in 0 .. n
      BY <1>0, <2>1
    <3> HIDE DEF n
    <3> QED  BY <1>0, <3>1
  <2>5. s[n - (d + 1)] <= s[n - d]
    <3> DEFINE a == s[n - (d + 1)]
               m == MinInterval[ladder[n - d]]
    <3>1. a \in Nat /\ m \in Nat /\ s[n - d] = a + m
      BY <2>2, <2>3, <2>4
    <3> HIDE DEF a, m
    <3>2. a <= a + m
      BY <3>1
    <3> QED  BY <3>1, <3>2 DEF a
  <2>6. s[n - d] \in Nat /\ s[n - d] <= s[n]
    BY <1>2, <2>2, <2>3, <2>4
  <2>7. d + 1 \in 0 .. n
    BY <1>0
  <2>8. s[n - (d + 1)] <= s[n]
    BY <2>4, <2>5, <2>6
  <2> QED  BY <2>7, <2>8
<1> HIDE DEF S
<1>3. 0 .. n \subseteq S
  BY <1>0, <1>1, <1>2, Induction
<1>4. ASSUME NEW k \in 0 .. n PROVE s[k] <= s[n]
  <2>1. n - k \in 0 .. n /\ n - (n - k) = k
    BY <1>0
  <2> QED  BY <1>3, <2>1 DEF S
<1> QED  BY <1>4 DEF s

--------------------------------------------------------------------------------
(* No call sleeps for longer than its ladder allows. *)

\* The spacing of the first k rungs, and the longest waits of r retries.
Spent(ladder, k) == SpacingsOf(ladder)[k]
Waits(r) == r * MaxWait

\* What the call has slept, and the rest of a sleep, by where it is.
Rested ==
  /\ call.step \notin {"pace", "backoff"} => call.left = 0
  /\ At("rung") /\ call.rung <= Len(Ladder) => slept <= Spent(Ladder, call.rung - 1)
  /\ At("pace") => slept + call.left <= Spent(Ladder, call.rung) /\ call.retry = 0
  /\ At("request") => slept <= Spent(Ladder, call.rung) + Waits(call.retry)
  /\ At("request") /\ call.rung # Len(Ladder) => call.retry = 0
  /\ At("backoff") =>
       call.rung = Len(Ladder) /\ slept + call.left <= Spent(Ladder, call.rung) + Waits(call.retry + 1)
  /\ slept <= Spent(Ladder, Len(Ladder)) + Waits(Retries)

LEMMA WaitsGrow ==
  ASSUME NEW r \in 0 .. Retries
  PROVE  Waits(r) \in Nat /\ Waits(r) <= Waits(Retries) /\ Waits(r + 1) = Waits(r) + MaxWait
<1>1. r \in Nat /\ Retries - r \in Nat /\ MaxWait \in Nat /\ Retries \in Nat
  BY LlmWaterfallAssumption
<1>2. (Retries - r) * MaxWait \in Nat /\ r * MaxWait \in Nat
  BY <1>1
<1>3. Retries * MaxWait = r * MaxWait + (Retries - r) * MaxWait
  BY <1>1
<1>4. (r + 1) * MaxWait = r * MaxWait + MaxWait
  BY <1>1
<1> QED  BY <1>1, <1>2, <1>3, <1>4 DEF Waits

LEMMA NoWaits == Waits(0) = 0 /\ MaxWait \in Nat
BY LlmWaterfallAssumption DEF Waits

LEMMA SpentGrows ==
  /\ Spent(Ladder, 0) = 0
  /\ \A k \in 0 .. Len(Ladder) :
       Spent(Ladder, k) \in Nat /\ Spent(Ladder, k) <= Spent(Ladder, Len(Ladder))
  /\ \A k \in 1 .. Len(Ladder) : Spent(Ladder, k) = Spent(Ladder, k - 1) + MinInterval[Ladder[k]]
BY LadderType, RungsOfLadder, SpacingsAdd, SpacingsGrow DEF Spent

\* What the proofs of the steps know of the state.
LEMMA AtRest ==
  ASSUME IInv, Rested
  PROVE  /\ Len(Ladder) \in Nat /\ call \in CallRecords /\ slept \in Nat
         /\ call.rung \in Nat /\ call.retry \in 0 .. Retries /\ call.left \in Nat
         /\ Waits(Retries) \in Nat /\ Retries \in Nat
         /\ Spent(Ladder, Len(Ladder)) \in Nat
         /\ call.step \in {"pace", "request", "backoff"} => call.rung \in 1 .. Len(Ladder)
<1>1. Retries \in 0 .. Retries /\ Len(Ladder) \in 0 .. Len(Ladder)
  BY Constants, RungsOfLadder
<1> QED
  BY <1>1, RungsOfLadder, RecordTypes, WaitsGrow, SpentGrows, Constants
     DEF CallRecords, IInv, TypeOK, Climbed, At

LEMMA PassOverRests == ASSUME IInv, Rested, PassOver PROVE Rested'
<1>1. /\ call.step = "rung" /\ call.rung \in 1 .. Len(Ladder) /\ Ladder' = Ladder
      /\ call' = [call EXCEPT !.rung = @ + 1, !.error = "credential"] /\ slept' = slept
  BY RungsOfLadder, SameLadder DEF PassOver, At, IInv, Climbed
<1>2. /\ call'.step = "rung" /\ call'.rung = call.rung + 1 /\ call'.left = call.left
  BY <1>1, AtRest DEF CallRecords
<1>3. slept <= Spent(Ladder, call.rung)
  <2>1. /\ MinInterval[Ladder[call.rung]] \in Nat /\ Spent(Ladder, call.rung - 1) \in Nat
        /\ call.rung - 1 \in 0 .. Len(Ladder)
    BY <1>1, AtRest, SpentGrows, LadderType, IntervalType, SMTT(60)
  <2> QED  BY <1>1, <2>1, AtRest, SpentGrows, SMTT(60) DEF Rested, At
<1> QED  BY <1>1, <1>2, <1>3, AtRest DEF Rested, At

LEMMA ThrottleRests == ASSUME IInv, Rested, Throttle PROVE Rested'
<1>1. /\ call.step = "rung" /\ call.rung \in 1 .. Len(Ladder) /\ Ladder' = Ladder
      /\ call' = [call EXCEPT !.step = "pace", !.left = Spacing(Provider), !.retry = 0]
      /\ slept' = slept
  BY RungsOfLadder, SameLadder DEF Throttle, At, IInv, Climbed
<1>2. /\ call'.step = "pace" /\ call'.rung = call.rung /\ call'.left = Spacing(Provider)
      /\ call'.retry = 0
  BY <1>1, AtRest DEF CallRecords
<1>3. /\ MinInterval[Provider] \in Nat /\ last[Provider] \in Nat \cup {None}
      /\ Spent(Ladder, call.rung - 1) \in Nat
      /\ Spent(Ladder, call.rung) = Spent(Ladder, call.rung - 1) + MinInterval[Provider]
  <2>1. call.rung - 1 \in 0 .. Len(Ladder) /\ Provider \in Providers
    BY <1>1, RungsOfLadder DEF Provider
  <2> QED  BY <1>1, <2>1, SpentGrows, Constants DEF Provider, IInv, TypeOK, Ages
<1>4. Spacing(Provider) \in Nat /\ Spacing(Provider) <= MinInterval[Provider]
  BY <1>3, Constants DEF Spacing
<1> QED  BY <1>1, <1>2, <1>3, <1>4, AtRest, SMTT(60) DEF Rested, At

LEMMA StampRests == ASSUME IInv, Rested, Stamp PROVE Rested'
<1>1. /\ call.step = "pace" /\ call.left = 0 /\ Ladder' = Ladder
      /\ call' = [call EXCEPT !.step = "request"] /\ slept' = slept
  BY SameLadder DEF Stamp, At
<1>2. /\ call'.step = "request" /\ call'.rung = call.rung /\ call'.left = 0
      /\ call'.retry = call.retry
  BY <1>1, AtRest DEF CallRecords
<1>3. slept <= Spent(Ladder, call.rung) /\ call.retry = 0 /\ Spent(Ladder, call.rung) \in Nat
  BY <1>1, AtRest, SpentGrows DEF Rested, At
<1> QED  BY <1>1, <1>2, <1>3, AtRest, NoWaits DEF Rested, At

LEMMA NextRungRests ==
  ASSUME IInv, Rested, At("request"), call' = NextRung, UNCHANGED <<task, slept>>
  PROVE  Rested'
<1>1. call.step = "request" /\ Ladder' = Ladder /\ slept' = slept /\ call.rung \in 1 .. Len(Ladder)
  BY SameLadder, AtRest DEF At
<1>2. call'.step = "rung" /\ call'.rung = call.rung + 1 /\ call'.left = call.left
  BY AtRest DEF NextRung, CallRecords
<1>3. call'.rung <= Len(Ladder) => slept <= Spent(Ladder, call'.rung - 1)
  <2> SUFFICES ASSUME call'.rung <= Len(Ladder) PROVE slept <= Spent(Ladder, call'.rung - 1)
    OBVIOUS
  <2>1. call.rung # Len(Ladder) /\ call'.rung - 1 = call.rung
    BY <1>1, <1>2, AtRest
  <2> QED  BY <1>1, <2>1, AtRest, SpentGrows, NoWaits DEF Rested, At
<1> QED  BY <1>1, <1>2, <1>3, AtRest DEF Rested, At

LEMMA ReplyRests == ASSUME IInv, Rested, Reply PROVE Rested'
<1>1. call.step = "request" /\ Ladder' = Ladder /\ UNCHANGED <<task, slept>>
  BY SameLadder DEF Reply, At
<1>2. CASE call' = NextRung
  BY <1>1, <1>2, NextRungRests DEF At
<1>3. ASSUME MayRetry, NEW wait \in LimitWaits, ~TooLong(wait),
             call' = [call EXCEPT !.step = "backoff", !.left = wait]
      PROVE  Rested'
  <2>1. /\ call'.step = "backoff" /\ call'.rung = call.rung /\ call'.retry = call.retry
        /\ call'.left = wait
    BY <1>3, AtRest DEF CallRecords
  <2>2. wait \in Nat /\ wait <= MaxWait /\ call.rung = Len(Ladder)
    BY <1>3, LimitType, NoWaits DEF TooLong, MayRetry
  <2>3. slept <= Spent(Ladder, call.rung) + Waits(call.retry)
    BY <1>1 DEF Rested, At
  <2>4. /\ Waits(call.retry) \in Nat /\ Waits(call.retry + 1) = Waits(call.retry) + MaxWait
        /\ Spent(Ladder, call.rung) \in Nat
    BY <2>2, AtRest, WaitsGrow, NoWaits
  <2>5. slept + wait <= Spent(Ladder, call.rung) + Waits(call.retry + 1)
    BY <2>2, <2>3, <2>4, AtRest, NoWaits
  <2> QED  BY <1>1, <2>1, <2>2, <2>5 DEF Rested, At
<1>4. CASE call' = [call EXCEPT !.step = "answer"]
  <2>1. call'.step = "answer" /\ call'.left = call.left
    BY <1>4, AtRest DEF CallRecords
  <2> QED  BY <1>1, <2>1 DEF Rested, At
<1>5. CASE call' = [call EXCEPT !.step = "raise", !.error = "other"]
  <2>1. call'.step = "raise" /\ call'.left = call.left
    BY <1>5, AtRest DEF CallRecords
  <2> QED  BY <1>1, <2>1 DEF Rested, At
<1>6. CASE Limited
  BY <1>2, <1>3, <1>6 DEF Limited
<1> QED  BY <1>2, <1>4, <1>5, <1>6 DEF Reply

LEMMA AgainRests == ASSUME IInv, Rested, Again PROVE Rested'
<1>1. /\ call.step = "backoff" /\ call.left = 0 /\ Ladder' = Ladder /\ slept' = slept
      /\ call' = [call EXCEPT !.step = "request", !.retry = @ + 1]
  BY SameLadder DEF Again, At
<1>2. /\ call'.step = "request" /\ call'.rung = call.rung /\ call'.left = 0
      /\ call'.retry = call.retry + 1
  BY <1>1, AtRest DEF CallRecords
<1>3. call.rung = Len(Ladder) /\ slept <= Spent(Ladder, call.rung) + Waits(call.retry + 1)
  <2>1. call.rung = Len(Ladder) /\ slept + 0 <= Spent(Ladder, call.rung) + Waits(call.retry + 1)
    BY <1>1 DEF Rested, At
  <2> QED  BY <2>1, AtRest
<1> QED  BY <1>1, <1>2, <1>3 DEF Rested, At

LEMMA ExhaustedRests == ASSUME IInv, Rested, Exhausted PROVE Rested'
<1>1. /\ call.step = "rung" /\ Ladder' = Ladder /\ slept' = slept
      /\ call' = [call EXCEPT !.step = "raise"]
  BY SameLadder DEF Exhausted, At
<1>2. call'.step = "raise" /\ call'.left = call.left
  BY <1>1, AtRest DEF CallRecords
<1> QED  BY <1>1, <1>2 DEF Rested, At

\* A new call, or none: nothing has been slept.
LEMMA FreshRests ==
  ASSUME slept' = 0, call' = NewCall \/ call' = NoCall
  PROVE  Rested'
<1>1. /\ call'.step \in {"rung", "idle"} /\ call'.left = 0
      /\ call'.step = "rung" => call'.rung = 1
  <2>1. CASE call' = NewCall
    BY <2>1 DEF NewCall, NoCall
  <2>2. CASE call' = NoCall
    BY <2>2 DEF NoCall
  <2> QED  BY <2>1, <2>2
<1>2. Spent(Ladder', 0) = 0 /\ Spent(Ladder', Len(Ladder')) + Waits(Retries) >= 0
  <2>1. Ladder' \in Seq(Providers)
    <3>1. <<"ollama">> \in Seq(Providers)
      BY DEF Providers, Local
    <3> QED  BY <3>1, Constants DEF Ladder
  <2>2. Len(Ladder') \in 0 .. Len(Ladder') /\ Retries \in 0 .. Retries
    BY <2>1, Constants
  <2>3. Spent(Ladder', 0) = 0 /\ Spent(Ladder', Len(Ladder')) \in Nat
    BY <2>1, <2>2, SpacingsAdd DEF Spent
  <2> QED  BY <2>2, <2>3, WaitsGrow
<1> QED  BY <1>1, <1>2 DEF Rested, At

\* A call that is over sleeps no more.
LEMMA OverRests ==
  ASSUME IInv, Rested, call.step \in {"answer", "raise"}, call' = [call EXCEPT !.step = "end"],
         slept' \in {0, slept},
         Spent(Ladder', Len(Ladder')) = Spent(Ladder, Len(Ladder))
  PROVE  Rested'
<1>1. call'.step = "end" /\ call'.left = 0
  BY AtRest DEF Rested, CallRecords
<1> QED  BY <1>1, AtRest DEF Rested, At

LEMMA UseRests == ASSUME IInv, Rested, Use PROVE Rested'
<1>1. call.step = "answer" /\ slept' = 0 /\ (Accept \/ Refuse)
  BY DEF Use, At
<1>2. CASE call' = NewCall
  BY <1>1, <1>2, FreshRests
<1>3. CASE call' = [call EXCEPT !.step = "end"]
  <2>1. task'.kind = task.kind /\ task'.personal = task.personal
    BY <1>1, RecordTypes DEF Accept, Refuse, TaskRecords
  <2> QED  BY <1>1, <1>3, <2>1, SameLadder, OverRests
<1> QED  BY <1>1, <1>2, <1>3 DEF Accept, Refuse

LEMMA RaiseRests == ASSUME IInv, Rested, Raise PROVE Rested'
<1>1. task'.kind = task.kind /\ task'.personal = task.personal
  BY RecordTypes DEF Raise, TaskRecords
<1> QED  BY <1>1, SameLadder, OverRests DEF Raise, At

\* A unit of time is a unit of a sleep, if one is left.
LEMMA TickRests == ASSUME IInv, Rested, Tick PROVE Rested'
<1>1. /\ call' = IF call.left > 0 THEN [call EXCEPT !.left = @ - 1] ELSE call
      /\ slept' = IF call.left > 0 THEN slept + 1 ELSE slept
      /\ Ladder' = Ladder
  BY SameLadder DEF Tick
<1>2. CASE call.left = 0
  BY <1>1, <1>2 DEF Rested, At
<1>3. CASE call.left > 0
  <2>1. /\ call'.step = call.step /\ call'.rung = call.rung /\ call'.retry = call.retry
        /\ call'.left = call.left - 1 /\ slept' = slept + 1
    BY <1>1, <1>3, AtRest DEF CallRecords
  <2>2. CASE call.step = "pace"
    <3>1. slept + call.left <= Spent(Ladder, call.rung) /\ call.retry = 0
      BY <2>2 DEF Rested, At
    <3>2. /\ Spent(Ladder, call.rung) \in Nat
          /\ Spent(Ladder, call.rung) <= Spent(Ladder, Len(Ladder))
      BY <2>2, AtRest, SpentGrows
    <3> QED  BY <1>1, <1>3, <2>1, <2>2, <3>1, <3>2, AtRest, SMTT(60) DEF Rested, At
  <2>3. CASE call.step = "backoff"
    <3>1. /\ call.rung = Len(Ladder)
          /\ slept + call.left <= Spent(Ladder, call.rung) + Waits(call.retry + 1)
      BY <2>3 DEF Rested, At
    <3>2. Waits(call.retry + 1) <= Waits(Retries) /\ Waits(call.retry + 1) \in Nat
      <4>1. call.retry + 1 \in 0 .. Retries
        BY <2>3, AtRest DEF IInv, Climbed, At
      <4> QED  BY <4>1, WaitsGrow
    <3> QED  BY <1>1, <1>3, <2>1, <2>3, <3>1, <3>2, AtRest, SMTT(60) DEF Rested, At
  <2> QED  BY <1>3, <2>2, <2>3 DEF Rested
<1> QED  BY <1>2, <1>3, AtRest

LEMMA InitRests == Init => Rested
<1> SUFFICES ASSUME Init PROVE Rested
  OBVIOUS
<1>1. call.step = "idle" /\ call.left = 0 /\ slept = 0
  BY DEF Init, NoCall
<1>2. Retries \in 0 .. Retries /\ Len(Ladder) \in 0 .. Len(Ladder)
  BY Constants, RungsOfLadder
<1> QED  BY <1>1, <1>2, SpentGrows, WaitsGrow DEF Rested, At

LEMMA NextRests == IInv /\ Rested /\ [Next]_vars => Rested'
<1> SUFFICES ASSUME IInv, Rested, [Next]_vars PROVE Rested'
  OBVIOUS
<1>1. CASE Step
  BY <1>1, PassOverRests, ThrottleRests, StampRests, ReplyRests, AgainRests, ExhaustedRests, UseRests,
     RaiseRests, FreshRests DEF Step, End
<1>2. CASE \E kind \in Tasks, personal \in BOOLEAN, batches \in 1 .. MaxBatches :
             Begin(kind, personal, batches)
  BY <1>2, FreshRests DEF Begin, NewCall
<1>3. CASE UNCHANGED vars
  BY <1>3, SameLadder DEF vars, Rested, At
<1> QED  BY <1>1, <1>2, <1>3, TickRests DEF Next

\* No call keeps the process asleep for longer than its rungs' spacing and the waits of one
\* rung, however long the providers ask to be waited for.
THEOREM NoStallHolds == Spec => []NoStall
<1>1. Rested => NoStall
  BY DEF Rested, NoStall, Spent, Waits
<1> QED  BY <1>1, InitRests, NextRests, Invariance, PTL DEF Spec

================================================================================
