------------------------------ MODULE LlmWaterfall ------------------------------
(***************************************************************************)
(* Calls of language models (llm_client.py) by one process. call_llm and    *)
(* describe_images try the rungs of a ladder of providers in order: a rung  *)
(* without a key is passed over, calls of a provider are spaced, and a rate  *)
(* limit is waited out on the last rung only. A task (a description in       *)
(* batches, an enrichment, a skill, a judgement with one second try, a batch *)
(* of notes for the hubs) makes one or more such calls. Time is counted in   *)
(* units of _RATE_LIMIT_BASE_WAIT; outside are the providers.                *)
(***************************************************************************)
EXTENDS Integers, Sequences, FiniteSets

CONSTANTS
  TextLadder, VisionLadder,  \* settings.llm.*_waterfall, or the one configured provider
  Keyed,                     \* hosted providers whose key is set
  MinInterval,               \* settings.llm.min_interval_seconds
  Retries,                   \* _RATE_LIMIT_RETRIES
  MaxWait,                   \* _RATE_LIMIT_MAX_WAIT
  Asked,                     \* delays a provider may ask for in Retry-After
  MaxBatches,                \* bound: calls a description or a night's filing is split into
  None

Hosted == {"anthropic", "groq", "gemini", "openrouter", "mistral"}
Local == {"ollama", "openai_compat"}
Providers == Hosted \cup Local
Tasks == {"describe", "enrich", "skill", "judge", "file"}

\* (The last conjunct is a fact of arithmetic, for provers that know nothing of powers.)
ASSUME LlmWaterfallAssumption ==
  /\ TextLadder \in Seq(Providers) /\ VisionLadder \in Seq(Providers)
  /\ Len(TextLadder) > 0 /\ Len(VisionLadder) > 0
  /\ Keyed \subseteq Hosted /\ MinInterval \in [Providers -> Nat]
  /\ Retries \in Nat /\ MaxWait \in Nat /\ Asked \subseteq Nat
  /\ MaxBatches \in Nat \ {0}
  /\ None \notin Nat
  /\ \A n \in 0 .. Retries : 2 ^ n \in Nat

VARIABLES
  task,     \* the task: its kind, whether its content is personal, calls left, answers so far
  call,     \* the call in progress: its step, rung, retries of the request, rest of a sleep
  last,     \* _last_call_at: time since the stamp of each provider, up to its interval
  asked,    \* time since a call's first request really went to each provider, likewise
  tried,    \* rungs this call has sent a request to
  slept     \* time this call has slept

vars == <<task, call, last, asked, tried, slept>>

Idle == [kind |-> "none", personal |-> FALSE, left |-> 0, done |-> 0, end |-> "none"]
NoCall == [step |-> "idle", rung |-> 0, retry |-> 0, left |-> 0, error |-> "none"]

Init ==
  /\ task = Idle /\ call = NoCall
  /\ last = [p \in Providers |-> None] /\ asked = [p \in Providers |-> None]
  /\ tried = {} /\ slept = 0

--------------------------------------------------------------------------------
(* What the functions of the providers make of an exchange *)

\* Every request may fail with an HTTP status or without one, be limited, or bring a body
\* that is no JSON: that is no httpx.HTTPError, so nothing here makes an LlmCallError of it.
Exchange == {"failed", "limited", "garbled"}

\* A text of blanks is an answer of Claude's; the others refuse an empty one, which is
\* also what a reasoning model leaves that ran out of tokens.
Claude == Exchange \cup {"text", "blank", "empty"}
Ollama == Exchange \cup {"text", "empty"}
Groq == Exchange \cup {"text", "reasoning"}
Chat == Exchange \cup {"text", "empty"}
Gemini == Exchange \cup {"text", "empty"}
OpenAiCompat == Exchange \cup {"text", "reasoning"}

\* With images one more thing happens before the request: they are read.
ClaudeVision == Claude \cup {"unreadable"}
OllamaVision == Ollama \cup {"unreadable"}
GroqVision == Groq \cup {"unreadable"}
MistralVision == Chat \cup {"unreadable"}
OpenRouterVision == Chat \cup {"unreadable"}
GeminiVision == Gemini \cup {"unreadable"}

TextReplies(p) ==
  CASE p = "anthropic" -> Claude
    [] p = "ollama" -> Ollama
    [] p = "groq" -> Groq
    [] p \in {"openrouter", "mistral"} -> Chat
    [] p = "gemini" -> Gemini
    [] p = "openai_compat" -> OpenAiCompat

VisionReplies(p) ==
  CASE p = "anthropic" -> ClaudeVision
    [] p = "ollama" -> OllamaVision
    [] p = "groq" -> GroqVision
    [] p = "mistral" -> MistralVision
    [] p = "openrouter" -> OpenRouterVision
    [] p = "gemini" -> GeminiVision
    [] p = "openai_compat" -> OpenAiCompat \cup {"unreadable"}

Replies(p) == IF task.kind = "describe" THEN VisionReplies(p) ELSE TextReplies(p)
Usable == {"text", "blank"}
Escaping == {"garbled", "unreadable"}

--------------------------------------------------------------------------------
(* The ladder *)

LocalOnly == task.personal /\ task.kind \in {"enrich", "skill"}

Ladder ==
  IF task.kind = "describe" THEN VisionLadder
  ELSE IF LocalOnly THEN <<"ollama">> ELSE TextLadder

Provider == Ladder[call.rung]
HasKey(p) == p \in Local \cup Keyed

\* _throttle: the rest of the interval since the last stamp.
Spacing(p) ==
  IF last[p] = None \/ last[p] >= MinInterval[p] THEN 0 ELSE MinInterval[p] - last[p]

\* _rate_limit_wait: what the provider asks for, else 1, 2, 4... units.
LimitWaits == Asked \cup {2 ^ call.retry}

\* mutant of MayRetry: every rung waits for its rate limit.
MayRetryAnywhere == call.retry < Retries

\* mutant of MayRetry: the counter is compared one too late.
MayRetryOnceMore == call.retry <= Retries /\ call.rung = Len(Ladder)

MayRetry == call.retry < Retries /\ call.rung = Len(Ladder)

At(step) == call.step = step

Begin(kind, personal, batches) ==
  /\ At("idle") /\ task = Idle
  /\ kind \notin {"describe", "file"} => batches = 1
  /\ task' = [kind |-> kind, personal |-> personal, left |-> batches, done |-> 0,
              end |-> "none"]
  /\ call' = [NoCall EXCEPT !.step = "rung", !.rung = 1]
  /\ tried' = {} /\ slept' = 0
  /\ UNCHANGED <<last, asked>>

\* mutant of PassOver: a missing key ends the call.
PassOverRaise ==
  /\ At("rung") /\ call.rung <= Len(Ladder) /\ ~HasKey(Provider)
  /\ call' = [call EXCEPT !.step = "raise", !.error = "credential"]
  /\ UNCHANGED <<task, last, asked, tried, slept>>

\* A rung without a key is remembered as the error and passed over.
PassOver ==
  /\ At("rung") /\ call.rung <= Len(Ladder) /\ ~HasKey(Provider)
  /\ call' = [call EXCEPT !.rung = @ + 1, !.error = "credential"]
  /\ UNCHANGED <<task, last, asked, tried, slept>>

Throttle ==
  /\ At("rung") /\ call.rung <= Len(Ladder) /\ HasKey(Provider)
  /\ call' = [call EXCEPT !.step = "pace", !.left = Spacing(Provider), !.retry = 0]
  /\ UNCHANGED <<task, last, asked, tried, slept>>

\* mutant of Stamped: only a call that had to wait is stamped.
StampedIfSlept(p) == IF slept > 0 THEN [last EXCEPT ![p] = 0] ELSE last

Stamped(p) == [last EXCEPT ![p] = 0]

\* The first request of a rung follows its stamp.
Stamp ==
  /\ At("pace") /\ call.left = 0
  /\ last' = Stamped(Provider) /\ asked' = [asked EXCEPT ![Provider] = 0]
  /\ tried' = tried \cup {call.rung}
  /\ call' = [call EXCEPT !.step = "request"]
  /\ UNCHANGED <<task, slept>>

\* An LlmCallError: on to the next rung.
NextRung == [call EXCEPT !.step = "rung", !.rung = @ + 1, !.retry = 0, !.error = "call"]

\* mutant of TooLong: as long as the provider asks.
NeverTooLong(wait) == FALSE

TooLong(wait) == wait > MaxWait

\* A rate limit is slept on, or is an error like others.
Limited ==
  \/ ~MayRetry /\ call' = NextRung
  \/ /\ MayRetry
     /\ \E wait \in LimitWaits :
          call' = IF TooLong(wait) THEN NextRung
                  ELSE [call EXCEPT !.step = "backoff", !.left = wait]

Reply ==
  /\ At("request")
  /\ \E reply \in Replies(Provider) :
       \/ reply = "limited" /\ Limited
       \/ reply \in Usable /\ call' = [call EXCEPT !.step = "answer"]
       \/ reply \in Escaping /\ call' = [call EXCEPT !.step = "raise", !.error = "other"]
       \/ /\ reply \notin Usable \cup Escaping \cup {"limited"}
          /\ call' = NextRung
  /\ UNCHANGED <<task, last, asked, tried, slept>>

\* The same request again: it is not stamped.
Again ==
  /\ At("backoff") /\ call.left = 0
  /\ call' = [call EXCEPT !.step = "request", !.retry = @ + 1]
  /\ UNCHANGED <<task, last, asked, tried, slept>>

\* After the last rung the last error is raised.
Exhausted ==
  /\ At("rung") /\ call.rung > Len(Ladder)
  /\ call' = [call EXCEPT !.step = "raise"]
  /\ UNCHANGED <<task, last, asked, tried, slept>>

--------------------------------------------------------------------------------
(* The tasks *)

NewCall == [NoCall EXCEPT !.step = "rung", !.rung = 1]

\* An answer that can be used: the next batch, or the result.
Accept ==
  IF task.left > 1
  THEN task' = [task EXCEPT !.left = @ - 1, !.done = @ + 1] /\ call' = NewCall
  ELSE task' = [task EXCEPT !.left = 0, !.done = @ + 1, !.end = "result"]
       /\ call' = [call EXCEPT !.step = "end"]

\* mutant of Refuse: the judge asks until the answer is valid.
RefuseAgain ==
  /\ task.kind # "skill"
  /\ IF task.kind = "judge"
     THEN task' = [task EXCEPT !.end = "rejected"] /\ call' = NewCall
     ELSE task' = [task EXCEPT !.end = "error"] /\ call' = [call EXCEPT !.step = "end"]

\* An answer that cannot: no JSON, a refusal, a verdict without its fields. The judge asks
\* once more; a skill is whatever came; notes filed by earlier batches stay filed.
Refuse ==
  /\ task.kind # "skill"
  /\ IF task.kind = "judge" /\ task.end = "none"
     THEN task' = [task EXCEPT !.end = "rejected"] /\ call' = NewCall
     ELSE task' = [task EXCEPT !.end = "error"] /\ call' = [call EXCEPT !.step = "end"]

Use ==
  /\ At("answer")
  /\ Accept \/ Refuse
  /\ tried' = {} /\ slept' = 0
  /\ UNCHANGED <<last, asked>>

\* The error leaves the task: as the task's own type if it was an LlmCallError.
Raise ==
  /\ At("raise")
  /\ task' = [task EXCEPT !.end = "error"]
  /\ call' = [call EXCEPT !.step = "end"]
  /\ UNCHANGED <<last, asked, tried, slept>>

End ==
  /\ At("end")
  /\ task' = Idle /\ call' = NoCall /\ tried' = {} /\ slept' = 0
  /\ UNCHANGED <<last, asked>>

\* A unit of time: stamps grow old, up to where nobody looks further; sleepers wake.
Older(ages) ==
  [p \in Providers |-> IF ages[p] = None \/ ages[p] >= MinInterval[p] THEN ages[p]
                       ELSE ages[p] + 1]

Tick ==
  /\ last' = Older(last) /\ asked' = Older(asked)
  /\ call' = IF call.left > 0 THEN [call EXCEPT !.left = @ - 1] ELSE call
  /\ slept' = IF call.left > 0 THEN slept + 1 ELSE slept
  /\ <<last, asked, call>>' # <<last, asked, call>>
  /\ UNCHANGED <<task, tried>>

Step ==
  \/ PassOver \/ Throttle \/ Stamp \/ Reply \/ Again \/ Exhausted \/ Use \/ Raise \/ End

Next ==
  \/ \E kind \in Tasks, personal \in BOOLEAN, batches \in 1 .. MaxBatches :
       Begin(kind, personal, batches)
  \/ Step
  \/ Tick

Spec == Init /\ [][Next]_vars

\* A task that was begun goes on - requests have a timeout - and time passes.
FairSpec == Spec /\ WF_vars(Step) /\ WF_vars(Tick)

--------------------------------------------------------------------------------
(* Properties *)

Ages == [Providers -> Nat \cup {None}]

TypeOK ==
  /\ task \in [kind : Tasks \cup {"none"}, personal : BOOLEAN, left : 0 .. MaxBatches,
               done : 0 .. MaxBatches, end : {"none", "rejected", "result", "error"}]
  /\ call \in [step : {"idle", "rung", "pace", "request", "backoff", "answer", "raise", "end"},
               rung : Nat, retry : 0 .. Retries, left : Nat,
               error : {"none", "credential", "call", "other"}]
  /\ last \in Ages /\ asked \in Ages
  /\ tried \subseteq Nat /\ slept \in Nat

\* Two calls of a provider are never closer than its interval, across rungs, calls and tasks
\* and whatever became of the one before. (The retries of a limited request are not spaced.)
CallsSpaced ==
  [][\A p \in Providers :
       asked'[p] = 0 /\ asked[p] # 0 => asked[p] = None \/ asked[p] >= MinInterval[p]]_vars

\* A call is given up only when every rung with a key has been asked - unless the answer
\* was no JSON or an image could not be read, which no rung is asked about again.
GivenUpAfterAll ==
  At("raise") /\ call.error # "other" => tried = {i \in DOMAIN Ladder : HasKey(Ladder[i])}

\* No call keeps the process asleep for longer than its rungs' spacing and the waits of one
\* rung: a provider that asks for a day is not waited for.
SpacingsOf(ladder) ==
  LET sum[i \in 0 .. Len(ladder)] ==
        IF i = 0 THEN 0 ELSE sum[i - 1] + MinInterval[ladder[i]]
  IN  sum

NoStall == slept <= SpacingsOf(Ladder)[Len(Ladder)] + Retries * MaxWait

\* Every task comes to an end.
EveryTaskEnds == (task # Idle) ~> (task = Idle)

================================================================================
