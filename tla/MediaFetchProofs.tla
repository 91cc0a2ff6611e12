--------------------------- MODULE MediaFetchProofs ---------------------------
(***************************************************************************)
(* Proofs about MediaFetch: types; what is asked after a no; media that is     *)
(* handed on is whole; an embedded attachment is not replaced. Most actions    *)
(* only choose the next source: for those it is enough to say where they lead  *)
(* (Onward, Leads) and what they leave in the directory (Clean).               *)
(***************************************************************************)
EXTENDS MediaFetch, TLAPS

\* Files of a folder are read at these steps; read and left never exceed the listing.
Filing == {"drive", "attach", "attaching", "next_file"}

Counted ==
  /\ why.left > 0 => at \in Filing
  /\ at = "folder" => why.read = 0
  /\ at = "next_file" => why.left > 0
  /\ why.read + why.left <= MaxParts + (IF at = "next_file" THEN 1 ELSE 0)

Open ==
  /\ cur # None => settled[cur] = "open"
  /\ \A i \in Items : settled[i] = "open" => tries[i] < MaxAttempts /\ embeds[i] = {}

\* Sources a link of their kind begins with, a page's, and those of what is embedded in it.
Direct == {"api", "export", "export_again", "folder", "drive", "next_file"}
Paging == {"page", "page_again", "lookup"}
Embedding == {"embeds", "saving", "streaming", "playlist", "parts"}

\* Where an attempt can be after each no. An embed is asked on the way (hop) until the page
\* of a failed post is read as a fallback.
NoHolds ==
  /\ "site" \in refusal => at \in {"failed", "gone"}
  /\ "browser" \in refusal => at \in {"page_again", "export_again"}
  /\ "file" \in refusal => at \in {"failed", "text"} \/ (at \in Filing /\ why.left > 0)
  /\ ("api" \in refusal \/ "embed" \in refusal) => at \notin Direct /\ why.left = 0
  /\ "embed" \in refusal /\ ~why.fallback =>
       at \notin Paging /\ (at \in Embedding => why.hop)
  /\ at = "embeds" => why.hop

\* What lies in the directory while a source is at work and when it is done.
Clean ==
  /\ at = "yt-dlp_runs" => dir[cur] \subseteq {Partial("yt-dlp")}
  /\ at = "streaming" => dir[cur] \subseteq {Partial("direct")}
  /\ at = "parts" => dir[cur] \subseteq {Partial("hls")}
  /\ WholeMedia

\* The attachments embedded so far, and those the attempt has made.
Embedded == why.made \cup UNION {embeds[i] : i \in Items}

\* An item's documents are under the common name, where nobody else's is from then on, or
\* under its own.
Named ==
  /\ at = "attaching" => why.name \in {"name", cur} /\ why.doc \in Docs
  /\ \A e \in why.made : e[1] \in {"name", cur}
  /\ \A i \in Items : \A e \in embeds[i] : e[1] \in {"name", i}
  /\ \A e \in Embedded :
       e[1] = "name" => /\ files["name"] \in {e[2], Torn}
                        /\ at = "attaching" /\ why.name = "name" => why.doc = e[2]

IInv == TypeOK /\ Counted /\ Open /\ NoHolds /\ Clean /\ Named

--------------------------------------------------------------------------------
(* Where the actions lead. *)

Working ==
  {"yt-dlp_runs", "streaming", "parts", "media", "attaching", "idle"}

Onward(made) ==
  /\ at' \in Steps /\ why' \in Ways /\ why'.made \subseteq made /\ Counted'

Over == {"idle", "failed", "gone", "text", "media"}
Again == {"page_again", "export_again"}

\* Nobody says no in the step, and a 403 asked again is answered.
Passed == refusal' \subseteq refusal \ {"browser"}

\* Where the step leads is open after the noes an attempt may have heard before it.
Leads ==
  /\ why.left > 0 => at' \in {"failed", "text"} \/ (at' \in Filing /\ why'.left > 0)
  /\ why.left = 0 => at' \notin Direct /\ why'.left = 0
  /\ ~why'.fallback /\ at' \in Paging \cup Embedding =>
       \/ at' \in Embedding /\ why'.hop
       \/ ~why.fallback /\ at \in Paging \cup {"api"}
       \/ ~why.fallback /\ at \in Embedding /\ ~why.hop
  /\ at' = "embeds" => why'.hop

LEMMA PassedHolds ==
  ASSUME IInv, at \notin Over, Passed, Leads
  PROVE  NoHolds' /\ refusal' \subseteq Refusers
<1>1. refusal' \subseteq Refusers
  BY DEF IInv, TypeOK, Passed
<1>2. why.left > 0 \/ why.left = 0
  BY DEF IInv, TypeOK, Ways
<1> QED  BY <1>1, <1>2 DEF IInv, NoHolds, Passed, Leads, Over, Direct, Filing, Paging, Embedding

LEMMA UnchangedPasses ==
  ASSUME IInv, at \notin Again, UNCHANGED refusal
  PROVE  Passed
BY DEF IInv, NoHolds, Passed, Again

\* A failed attempt asks nothing, whoever has said no.
LEMMA FailedHolds ==
  ASSUME IInv, at' \in {"failed", "gone"}, why' = Here, at \notin Filing \cup Over \/ at' = "failed",
         refusal' \subseteq (refusal \ {"browser"}) \cup {"site"}
  PROVE  NoHolds' /\ refusal' \subseteq Refusers
<1>1. refusal' \subseteq Refusers
  BY DEF IInv, TypeOK, Refusers
<1>2. why'.left = 0 /\ ~why'.fallback
  BY DEF Here
<1> QED  BY <1>1, <1>2 DEF IInv, NoHolds, Over, Direct, Filing, Paging, Embedding

\* A step that attaches nothing and settles nothing keeps the invariant if it leads onward.
LEMMA OnwardKeeps ==
  ASSUME IInv, at # "idle", Kept, Onward(why.made), at' \notin {"attaching", "idle"},
         dir' \in [Items -> SUBSET MediaFiles], refusal' \subseteq Refusers, NoHolds', Clean'
  PROVE  IInv'
<1> USE DEF IInv, Onward, Kept
<1>1. TypeOK'
  BY DEF TypeOK
<1>2. Open'
  BY DEF Open
<1>3. Named'
  BY DEF Named, Embedded
<1> QED  BY <1>1, <1>2, <1>3

\* ... and needs no word about the directory if no source is at work after it.
LEMMA QuietKeeps ==
  ASSUME IInv, at # "idle", Kept, Onward(why.made), at' \notin Working,
         dir' \in [Items -> SUBSET MediaFiles], refusal' \subseteq Refusers, NoHolds'
  PROVE  IInv'
BY OnwardKeeps DEF Working, Clean, WholeMedia

LEMMA HereType == Here \in Ways /\ Here.left = 0 /\ Here.read = 0 /\ Here.made = {}
BY MediaFetchAssumption DEF Here, Ways

LEMMA CurType == IInv /\ at # "idle" => cur \in Items
BY DEF IInv, TypeOK

\* how is a variant of why that keeps the count of the folder's files.
Variant(how) == how \in Ways /\ how.left = why.left /\ how.read = why.read

\* How a file of a folder leads to the next one.
LEMMA NextLeads ==
  ASSUME IInv, at \in Filing, at # "next_file", NEW how, Variant(how), how.left > 0,
         at' = "next_file", why' = [how EXCEPT !.read = @ + 1]
  PROVE  Onward(how.made)
<1>1. /\ how \in Ways /\ how.left \in 1 .. MaxParts /\ how.read \in 0 .. MaxParts
      /\ how.read + how.left <= MaxParts /\ MaxParts \in Nat
  BY MediaFetchAssumption DEF IInv, Variant, Counted, Ways
<1>2. why' \in Ways /\ why'.made = how.made
  BY <1>1 DEF Ways, Variant
<1>3. why'.left = how.left /\ why'.read = how.read + 1
  BY <1>1 DEF Ways
<1>4. Counted'
  BY <1>1, <1>3 DEF Counted, Filing
<1> QED  BY <1>2, <1>4 DEF Onward, Steps

\* A text, an error, another source: nothing is counted outside of a folder.
LEMMA PlainLeads ==
  ASSUME IInv, NEW how, how \in Ways, how.left = 0, how.read <= MaxParts,
         at' \in Steps \ {"next_file", "folder"}, why' = how
  PROVE  Onward(how.made)
BY MediaFetchAssumption DEF Counted, Onward, Ways

LEMMA FailLeads ==
  ASSUME IInv, Fail
  PROVE  Onward({}) /\ at' \notin Working /\ at' = "failed" /\ why' = Here /\ Leads
<1>1. at' = "failed" /\ why' = Here /\ why'.left = 0
  BY HereType DEF Fail, Go
<1>2. Onward({})
  BY <1>1, HereType, PlainLeads, MediaFetchAssumption DEF Steps
<1> QED  BY <1>1, <1>2 DEF Leads, Working, Direct, Filing, Paging, Embedding

LEMMA TextLeads ==
  ASSUME IInv, NEW how, Variant(how), at \in Filing \/ how.left = 0,
         at # "next_file", Text(how)
  PROVE  Onward(how.made) /\ at' \notin Working /\ Leads
<1> USE DEF Working
<1>0. /\ how \in Ways /\ how.left \in Nat /\ how.read <= MaxParts
      /\ how.left = why.left
  BY MediaFetchAssumption DEF Variant, Ways
<1>1. CASE how.left > 0
  <2>1. at' = "next_file" /\ why' = [how EXCEPT !.read = @ + 1]
    BY <1>1 DEF Text, Go
  <2>2. why'.left = how.left
    BY <1>0, <2>1 DEF Ways
  <2>3. Leads
    BY <1>0, <1>1, <2>1, <2>2 DEF Leads, Filing, Paging, Embedding
  <2> QED  BY <1>0, <1>1, <2>1, <2>3, NextLeads
<1>2. CASE how.left = 0 /\ Go("text", how)
  <2>1. Leads
    BY <1>0, <1>2 DEF Leads, Go, Direct, Paging, Embedding
  <2> QED  BY <1>0, <1>2, <2>1, PlainLeads DEF Go, Steps
<1>3. CASE Fail
  BY <1>3, FailLeads DEF Onward
<1> QED  BY <1>0, <1>1, <1>2, <1>3 DEF Text

LEMMA TextFailsLeads ==
  ASSUME IInv, at # "next_file", at # "folder", NEW eligible, TextFails(eligible)
  PROVE  /\ Onward(why.made) /\ at' \notin Working
         /\ at \notin Filing \cup {"api"} /\ ~eligible => at' = "failed" /\ why' = Here
         /\ (eligible => at \in Paging \/ (at \in Embedding /\ ~why.hop)) => Leads
<1> USE DEF Working
<1>0. /\ why \in Ways /\ why.left \in Nat /\ why.read \in Nat /\ why.read <= MaxParts
      /\ at \notin Filing => why.left = 0
  BY MediaFetchAssumption DEF IInv, TypeOK, Ways, Counted, Filing
<1>1. CASE at = "api"
  <2>1. why.left = 0 /\ at' = "page" /\ why' = why
    BY <1>0, <1>1 DEF TextFails, Go, Filing
  <2>2. Leads
    BY <1>1, <2>1 DEF Leads, Direct, Embedding
  <2> QED  BY <1>0, <1>1, <2>1, <2>2, PlainLeads DEF Steps, Filing
<1>2. CASE at # "api" /\ why.left > 0
  <2>1. at \in Filing /\ at' = "next_file" /\ why' = why
    BY <1>2 DEF TextFails, Go, IInv, Counted
  <2>2. Counted'
    BY <1>0, <1>2, <2>1, MediaFetchAssumption DEF IInv, Counted, Filing
  <2>3. Leads
    BY <1>2, <2>1 DEF Leads, Filing, Paging, Embedding
  <2> QED  BY <1>0, <2>1, <2>2, <2>3 DEF Onward, Steps
<1>3. CASE at # "api" /\ why.left = 0 /\ Fail
  BY <1>3, FailLeads DEF Onward
<1>4. CASE /\ at # "api" /\ why.left = 0 /\ eligible /\ ~why.fallback
           /\ Go("lookup", [why EXCEPT !.archived = TRUE])
  <2>1. /\ [why EXCEPT !.archived = TRUE] \in Ways
        /\ [why EXCEPT !.archived = TRUE].left = 0
        /\ [why EXCEPT !.archived = TRUE].read <= MaxParts
        /\ [why EXCEPT !.archived = TRUE].made = why.made
    BY <1>0, <1>4 DEF Ways
  <2>2. (at \in Paging \/ (at \in Embedding /\ ~why.hop)) => Leads
    BY <1>4, <2>1 DEF Leads, Go, Direct, Embedding
  <2> QED  BY <1>4, <2>1, <2>2, PlainLeads DEF Go, Steps
<1> QED  BY <1>0, <1>1, <1>2, <1>3, <1>4 DEF TextFails

LEMMA MediaLeads ==
  ASSUME IInv, at # "idle", at # "next_file", NEW how, Variant(how), at \in Filing \/ how.left = 0,
         NEW source \in Sources, NEW contents, contents = {Whole(source)}, Media(how, contents)
  PROVE  /\ Onward(how.made) /\ at' \notin Working \ {"media"}
         /\ dir' \in [Items -> SUBSET MediaFiles]
         /\ at' = "media" => dir'[cur] = {Whole(source)}
         /\ Leads
<1>0. /\ how \in Ways /\ how.left \in Nat /\ how.read <= MaxParts
      /\ how.left = why.left
  BY MediaFetchAssumption DEF Variant, Ways
<1>1. contents \in SUBSET MediaFiles
  BY DEF Whole, MediaFiles
<1>2. /\ dir' \in [Items -> SUBSET MediaFiles]
      /\ at' = "media" => dir'[cur] = {Whole(source)}
  BY <1>1, CurType DEF Media, Now, Go, Fail, IInv, TypeOK
<1>3. CASE how.left > 0
  <2>1. at' = "next_file" /\ why' = [how EXCEPT !.read = @ + 1]
    BY <1>3 DEF Media, Go
  <2>2. why'.left = how.left
    BY <1>0, <2>1 DEF Ways
  <2>3. Leads
    BY <1>0, <1>3, <2>1, <2>2 DEF Leads, Filing, Paging, Embedding
  <2> QED  BY <1>0, <1>2, <1>3, <2>1, <2>3, NextLeads DEF Working
<1>4. CASE how.left = 0 /\ Fail
  BY <1>2, <1>4, FailLeads DEF Onward, Working
<1>5. CASE how.left = 0 /\ Go("media", how)
  <2>1. Leads
    BY <1>0, <1>5 DEF Leads, Go, Direct, Paging, Embedding
  <2> QED  BY <1>0, <1>2, <1>5, <2>1, PlainLeads DEF Go, Steps, Working
<1> QED  BY <1>0, <1>2, <1>3, <1>4, <1>5 DEF Media

LEMMA DownloadFailsLeads ==
  ASSUME IInv, at \notin Filing, NEW error, DownloadFails(error)
  PROVE  /\ Onward({}) /\ at' \notin Working /\ Leads
         /\ error \in {"refused", "gone"} => at' \in {"failed", "gone"} /\ why' = Here
<1> USE DEF Working
<1>0. why.left = 0
  BY DEF IInv, TypeOK, Counted, Ways, Filing
<1>1. CASE Fail
  BY <1>1, FailLeads
<1>2. CASE error \notin {"refused", "gone"} /\ Go("page", [Here EXCEPT !.fallback = TRUE])
  <2>1. /\ [Here EXCEPT !.fallback = TRUE] \in Ways
        /\ [Here EXCEPT !.fallback = TRUE].left = 0
        /\ [Here EXCEPT !.fallback = TRUE].read <= MaxParts
        /\ [Here EXCEPT !.fallback = TRUE].made = {}
        /\ [Here EXCEPT !.fallback = TRUE].fallback
    <3>1. \A h \in Ways :
            /\ [h EXCEPT !.fallback = TRUE] \in Ways /\ [h EXCEPT !.fallback = TRUE].left = h.left
            /\ [h EXCEPT !.fallback = TRUE].read = h.read
            /\ [h EXCEPT !.fallback = TRUE].made = h.made
            /\ [h EXCEPT !.fallback = TRUE].fallback
      BY DEF Ways
    <3>2. 0 <= MaxParts
      BY MediaFetchAssumption
    <3> QED  BY <3>1, <3>2, HereType
  <2>2. Leads
    BY <1>0, <1>2, <2>1 DEF Leads, Go, Direct
  <2> QED  BY <1>2, <2>1, <2>2, PlainLeads DEF Go, Steps
<1>3. CASE Go("gone", Here)
  <2>1. Leads
    BY <1>0, <1>3, HereType DEF Leads, Go, Direct, Paging, Embedding
  <2>2. at' = "gone" /\ why' = Here
    BY <1>3 DEF Go
  <2>3. at' \in Steps \ {"next_file", "folder"} /\ Here.read <= MaxParts
    BY <2>2, HereType, MediaFetchAssumption DEF Steps
  <2>4. Onward({})
    BY <2>2, <2>3, HereType, PlainLeads
  <2> QED  BY <2>1, <2>2, <2>4
<1> QED  BY <1>1, <1>2, <1>3 DEF DownloadFails, FallsBack

--------------------------------------------------------------------------------
(* The steps that ask. *)

LEMMA BeginKeeps == ASSUME IInv, NEW i \in Items, Begin(i) PROVE IInv'
<1>1. /\ at' \in Steps \ (Working \cup {"next_file", "failed", "gone", "embeds"})
      /\ why' = Here /\ cur' = i /\ refusal' = {}
  <2>1. link[i] \in AllLinks
    BY MediaFetchAssumption DEF IInv, TypeOK
  <2>2. FirstSource[link[i]] \in Steps \ (Working \cup {"next_file", "failed", "gone", "embeds"})
    BY <2>1 DEF FirstSource, Steps, Working, AllLinks, MediaLinks, ApiLinks, DriveLinks
  <2> QED  BY <2>2 DEF Begin, Go
<1>2. UNCHANGED <<link, tries, settled, dir, files, embeds>> /\ settled[i] = "open"
  BY DEF Begin
<1>3. TypeOK'
  BY <1>1, <1>2, HereType, MediaFetchAssumption DEF IInv, TypeOK, Working
<1>4. Counted'
  BY <1>1, HereType, MediaFetchAssumption DEF Counted, Filing
<1>5. Open' /\ NoHolds' /\ Clean'
  BY <1>1, <1>2 DEF IInv, Open, NoHolds, Clean, WholeMedia, Working
<1>6. Named'
  BY <1>1, <1>2, HereType DEF IInv, Named, Embedded, Working
<1> QED  BY <1>3, <1>4, <1>5, <1>6 DEF IInv

\* An item's turn ends without an attachment: it failed, its post is gone, or it was killed.
LEMMA EndKeeps ==
  ASSUME IInv, cur' = None, at' = "idle", why' = Here, refusal' = {},
         UNCHANGED <<link, dir, files, embeds>>,
         tries' \in [Items -> 0 .. MaxAttempts],
         settled' \in [Items -> {"open", "text", "media", "given_up"}],
         \A i \in Items : settled'[i] = "open" => settled[i] = "open" /\ tries'[i] < MaxAttempts
  PROVE  IInv'
<1>1. TypeOK'
  BY HereType DEF IInv, TypeOK, Steps
<1>2. Counted'
  BY HereType, MediaFetchAssumption DEF Counted, Filing
<1>3. Open'
  BY DEF IInv, Open
<1>4. NoHolds' /\ Clean'
  BY DEF NoHolds, Clean, WholeMedia
<1>5. Named'
  BY HereType DEF IInv, Named, Embedded
<1> QED  BY <1>1, <1>2, <1>3, <1>4, <1>5 DEF IInv

LEMMA FailedKeeps == ASSUME IInv, Failed PROVE IInv'
<1>0. cur \in Items /\ settled[cur] = "open" /\ tries[cur] < MaxAttempts
  BY CurType, MediaFetchAssumption DEF IInv, Open, TypeOK, Failed, At
<1>1. tries' \in [Items -> 0 .. MaxAttempts]
  BY <1>0, MediaFetchAssumption DEF IInv, TypeOK, Failed
<1>2. settled' \in [Items -> {"open", "text", "media", "given_up"}]
  BY <1>0 DEF IInv, TypeOK, Failed
<1>3. \A i \in Items : settled'[i] = "open" => settled[i] = "open" /\ tries'[i] < MaxAttempts
  BY <1>0, MediaFetchAssumption DEF IInv, TypeOK, Open, Failed, LastAttempt
<1> QED  BY <1>1, <1>2, <1>3, EndKeeps DEF Failed, Go

LEMMA GoneKeeps == ASSUME IInv, Gone PROVE IInv'
<1>0. cur \in Items /\ settled[cur] = "open" /\ tries[cur] < MaxAttempts
  BY CurType, MediaFetchAssumption DEF IInv, Open, TypeOK, Gone, At
<1>1. tries' \in [Items -> 0 .. MaxAttempts]
  BY <1>0, MediaFetchAssumption DEF IInv, TypeOK, Gone
<1>2. settled' \in [Items -> {"open", "text", "media", "given_up"}]
  BY <1>0 DEF IInv, TypeOK, Gone
<1>3. \A i \in Items : settled'[i] = "open" => settled[i] = "open" /\ tries'[i] < MaxAttempts
  BY <1>0, MediaFetchAssumption DEF IInv, TypeOK, Open, Gone
<1> QED  BY <1>1, <1>2, <1>3, EndKeeps DEF Gone, Go

LEMMA CrashKeeps == ASSUME IInv, Crash PROVE IInv'
BY EndKeeps DEF IInv, TypeOK, Open, Crash, Go

LEMMA CapturedKeeps == ASSUME IInv, Captured PROVE IInv'
<1>0. cur \in Items /\ why \in Ways /\ why.made \in SUBSET (Names \X Docs)
  BY CurType DEF IInv, TypeOK, Captured, Ways
<1>1. TypeOK'
  BY <1>0, HereType DEF IInv, TypeOK, Captured, Go, Steps
<1>2. Counted'
  BY HereType, MediaFetchAssumption DEF Counted, Filing, Captured, Go
<1>3. Open'
  BY <1>0 DEF IInv, Open, TypeOK, Captured
<1>4. NoHolds' /\ Clean'
  BY DEF NoHolds, Clean, WholeMedia, Captured, Go
<1>5. Named'
  <2>1. at' = "idle" /\ why'.made = {} /\ files' = files
    BY HereType DEF Captured, Go
  <2>2. \A i \in Items : embeds'[i] = IF i = cur THEN why.made ELSE embeds[i]
    BY <1>0 DEF Captured, IInv, TypeOK
  <2>3. \A i \in Items : \A e \in embeds'[i] : e[1] \in {"name", i} /\ e \in Embedded
    BY <2>2 DEF IInv, Named, Embedded
  <2> QED  BY <2>1, <2>3 DEF IInv, Named, Embedded
<1> QED  BY <1>1, <1>2, <1>3, <1>4, <1>5 DEF IInv

--------------------------------------------------------------------------------
(* The steps that look for the content. *)

LEMMA SelfVariant == IInv => why \in Ways /\ Variant(why)
BY DEF IInv, TypeOK, Variant

\* Outside of a folder's files nothing is counted.
LEMMA Alone == IInv /\ at \notin Filing => why.left = 0 /\ why.read <= MaxParts
BY MediaFetchAssumption DEF IInv, TypeOK, Counted, Ways, Filing

LEMMA NowType ==
  ASSUME IInv, at # "idle", NEW contents \in SUBSET MediaFiles, Now(contents)
  PROVE  dir' \in [Items -> SUBSET MediaFiles] /\ dir'[cur] = contents
BY CurType DEF IInv, TypeOK, Now

LEMMA SourceFiles ==
  \A source \in Sources : {Whole(source)} \in SUBSET MediaFiles /\ {Partial(source)} \in SUBSET MediaFiles
BY DEF MediaFiles, Whole, Partial

\* A step that changes no more than the source asked next.
LEMMA TurnKeeps ==
  ASSUME IInv, at \notin Over, Kept, UNCHANGED dir, Passed,
         Onward(why.made), Leads, at' \notin Working
  PROVE  IInv'
BY PassedHolds, QuietKeeps DEF IInv, TypeOK, Over

\* A step to another source with another variant of why.
LEMMA GoLeads ==
  ASSUME IInv, at \notin Filing, NEW step \in Steps \ {"next_file", "folder"}, NEW how \in Ways,
         how.left = why.left, how.read = why.read, Go(step, how)
  PROVE  Onward(how.made)
BY Alone, PlainLeads DEF Go

\* Another source that is open after every no.
LEMMA FreeLeads ==
  ASSUME IInv, at \notin Filing, NEW step \in Steps \ (Direct \cup Paging \cup Embedding),
         NEW how, how.left = why.left, Go(step, how)
  PROVE  Leads
BY Alone DEF Go, Leads, Embedding

LEMMA MediaKeeps ==
  ASSUME IInv, at \notin Over \cup Again \cup Filing, NEW source \in Sources,
         Media(why, {Whole(source)}), UNCHANGED refusal, Kept
  PROVE  IInv'
<1>1. /\ Leads /\ Onward(why.made) /\ at' \notin Working \ {"media"}
      /\ dir' \in [Items -> SUBSET MediaFiles]
      /\ at' = "media" => dir'[cur] = {Whole(source)}
  BY SelfVariant, Alone, MediaLeads DEF Filing, Over
<1>2. Clean'
  BY <1>1 DEF Clean, WholeMedia, Working, Kept
<1>3. refusal' \subseteq Refusers /\ NoHolds'
  BY <1>1, UnchangedPasses, PassedHolds
<1> QED  BY <1>1, <1>2, <1>3, OnwardKeeps DEF Working, Over

LEMMA DownloadFailsKeeps ==
  ASSUME IInv, at \notin Over \cup Again \cup Filing, NEW error, DownloadFails(error),
         UNCHANGED dir, Kept,
         UNCHANGED refusal \/ (No("site") /\ error \in {"refused", "gone"})
  PROVE  IInv'
<1>1. Onward(why.made) /\ at' \notin Working /\ Leads
  BY DownloadFailsLeads DEF Onward
<1>2. CASE UNCHANGED refusal
  BY <1>1, <1>2, UnchangedPasses, TurnKeeps
<1>3. CASE No("site") /\ error \in {"refused", "gone"}
  <2>1. at' \in {"failed", "gone"} /\ why' = Here
    BY <1>3, DownloadFailsLeads
  <2>2. refusal' \subseteq (refusal \ {"browser"}) \cup {"site"}
    BY <1>3 DEF No, IInv, NoHolds, Again
  <2>3. NoHolds' /\ refusal' \subseteq Refusers
    BY <2>1, <2>2, FailedHolds
  <2> QED  BY <1>1, <2>3, QuietKeeps DEF IInv, TypeOK, Over
<1> QED  BY <1>2, <1>3

LEMMA RunGalleryKeeps == ASSUME IInv, RunGallery PROVE IInv'
<1>1. PICK all \in BOOLEAN : Go("gallery_runs", [why EXCEPT !.all = all])
  BY DEF RunGallery
<1>2. /\ [why EXCEPT !.all = all] \in Ways /\ [why EXCEPT !.all = all].left = why.left
      /\ [why EXCEPT !.all = all].read = why.read /\ [why EXCEPT !.all = all].made = why.made
  BY SelfVariant DEF Ways
<1>3. at = "gallery" /\ at' = "gallery_runs" /\ Kept
  BY <1>1 DEF RunGallery, At, Go
<1>4. Onward(why.made)
  BY <1>1, <1>2, <1>3, GoLeads DEF Filing, Steps
<1>5. dir' \in [Items -> SUBSET MediaFiles]
  BY <1>3, CurType, SourceFiles DEF RunGallery, Now, Cleared, IInv, TypeOK, Sources
<1>6. refusal' \subseteq Refusers /\ NoHolds'
  <2>1. Leads
    BY <1>1, <1>2, <1>3, FreeLeads DEF Steps, Filing, Direct, Paging, Embedding
  <2> QED  BY <1>3, <2>1, UnchangedPasses, PassedHolds DEF RunGallery, Again, Over
<1> QED  BY <1>3, <1>4, <1>5, <1>6, QuietKeeps DEF Working

LEMMA GalleryEndsKeeps == ASSUME IInv, GalleryEnds PROVE IInv'
<1>0. at = "gallery_runs" /\ Kept /\ at \notin Over \cup Again \cup Filing
  BY DEF GalleryEnds, At, Over, Again, Filing
<1>1. CASE Media(why, {Whole("gallery")}) /\ UNCHANGED refusal
  BY <1>0, <1>1, MediaKeeps DEF Sources
<1>2. CASE Go("gallery", [why EXCEPT !.all = TRUE]) /\ UNCHANGED <<dir, refusal>>
  <2>1. /\ [why EXCEPT !.all = TRUE] \in Ways /\ [why EXCEPT !.all = TRUE].left = why.left
        /\ [why EXCEPT !.all = TRUE].read = why.read /\ [why EXCEPT !.all = TRUE].made = why.made
    BY SelfVariant DEF Ways
  <2>2. Onward(why.made)
    BY <1>0, <1>2, <2>1, GoLeads DEF Steps
  <2>3. Leads
    BY <1>0, <1>2, <2>1, FreeLeads DEF Steps, Direct, Paging, Embedding
  <2> QED  BY <1>0, <1>2, <2>2, <2>3, UnchangedPasses, TurnKeeps DEF Go, Working
<1>3. CASE Go("yt-dlp", [why EXCEPT !.second = TRUE]) /\ UNCHANGED <<dir, refusal>>
  <2>1. /\ [why EXCEPT !.second = TRUE] \in Ways /\ [why EXCEPT !.second = TRUE].left = why.left
        /\ [why EXCEPT !.second = TRUE].read = why.read /\ [why EXCEPT !.second = TRUE].made = why.made
    BY SelfVariant DEF Ways
  <2>2. Onward(why.made)
    BY <1>0, <1>3, <2>1, GoLeads DEF Steps
  <2>3. Leads
    BY <1>0, <1>3, <2>1, FreeLeads DEF Steps, Direct, Paging, Embedding
  <2> QED  BY <1>0, <1>3, <2>2, <2>3, UnchangedPasses, TurnKeeps DEF Go, Working
<1>4. CASE No("site") /\ UNCHANGED dir /\ DownloadFails("refused")
  BY <1>0, <1>4, DownloadFailsKeeps
<1>5. CASE No("site") /\ UNCHANGED dir /\ DownloadFails("gone")
  BY <1>0, <1>5, DownloadFailsKeeps
<1> QED  BY <1>1, <1>2, <1>3, <1>4, <1>5 DEF GalleryEnds

LEMMA RunYtDlpKeeps == ASSUME IInv, RunYtDlp PROVE IInv'
<1>0. at = "yt-dlp" /\ Kept /\ Go("yt-dlp_runs", why)
  BY DEF RunYtDlp, At
<1>1. PICK written \in {{}, {Partial("yt-dlp")}} : Now(written)
  BY DEF RunYtDlp, Cleared
<1>2. dir' \in [Items -> SUBSET MediaFiles] /\ dir'[cur] \subseteq {Partial("yt-dlp")}
  BY <1>0, <1>1, NowType, SourceFiles DEF Sources
<1>3. Onward(why.made)
  BY <1>0, SelfVariant, GoLeads DEF Filing, Steps
<1>4. Clean'
  BY <1>0, <1>2 DEF Clean, WholeMedia, Go, Kept
<1>5. refusal' \subseteq Refusers /\ NoHolds'
  <2>1. Leads
    BY <1>0, FreeLeads DEF Steps, Filing, Direct, Paging, Embedding
  <2> QED  BY <1>0, <2>1, UnchangedPasses, PassedHolds DEF RunYtDlp, Again, Over
<1> QED  BY <1>0, <1>2, <1>3, <1>4, <1>5, OnwardKeeps DEF Go

LEMMA YtDlpEndsKeeps == ASSUME IInv, YtDlpEnds PROVE IInv'
<1>0. at = "yt-dlp_runs" /\ Kept /\ at \notin Over \cup Again \cup Filing
  BY DEF YtDlpEnds, At, Over, Again, Filing
<1>1. CASE /\ Media(why, (dir[cur] \ {Partial("yt-dlp")}) \cup {Whole("yt-dlp")})
           /\ UNCHANGED refusal
  <2>1. (dir[cur] \ {Partial("yt-dlp")}) \cup {Whole("yt-dlp")} = {Whole("yt-dlp")}
    BY <1>0 DEF IInv, Clean
  <2> QED  BY <1>0, <1>1, <2>1, MediaKeeps DEF Sources
<1>2. ASSUME NEW error \in {"no_media", "refused", "failed"},
             IF error = "refused" THEN No("site") ELSE UNCHANGED refusal,
             UNCHANGED dir, DownloadFails(ErrorOf(error))
      PROVE  IInv'
  BY <1>0, <1>2, DownloadFailsKeeps DEF ErrorOf
<1> QED  BY <1>1, <1>2 DEF YtDlpEnds

\* What a text or an error of one does when nothing else changes.
LEMMA TextKeeps ==
  ASSUME IInv, at \notin Over \cup {"next_file", "folder"}, Kept, UNCHANGED dir, Passed,
         NEW eligible, eligible => at \in Paging \/ (at \in Embedding /\ ~why.hop),
         Text(why) \/ TextFails(eligible) \/ Fail
  PROVE  IInv'
<1>1. Onward(why.made) /\ at' \notin Working /\ Leads
  BY SelfVariant, Alone, TextLeads, TextFailsLeads, FailLeads DEF Onward
<1> QED  BY <1>1, TurnKeeps

\* The last no: nothing is asked after it.
LEMMA LastNoKeeps ==
  ASSUME IInv, at \notin Over \cup Filing \cup {"api", "folder"}, Kept, UNCHANGED dir,
         refusal' \subseteq (refusal \ {"browser"}) \cup {"site"}, TextFails(FALSE)
  PROVE  IInv'
<1>1. Onward(why.made) /\ at' = "failed" /\ why' = Here
  BY TextFailsLeads DEF Filing
<1>2. NoHolds' /\ refusal' \subseteq Refusers
  BY <1>1, FailedHolds
<1> QED  BY <1>1, <1>2, QuietKeeps DEF IInv, TypeOK, Working, Over

\* At the beginning nobody has said no; of a folder only files have.
LEMMA Unheard ==
  ASSUME IInv
  PROVE  /\ at \in {"api", "export", "folder"} => refusal = {}
         /\ at = "drive" => refusal \subseteq (IF why.left > 0 THEN {"file"} ELSE {})
         /\ at = "export_again" => refusal \subseteq {"browser"}
BY DEF IInv, TypeOK, NoHolds, Refusers, Direct, Filing, Counted, Ways

LEMMA AskApiKeeps == ASSUME IInv, AskApi PROVE IInv'
<1>0. at = "api" /\ at \notin Over \cup Again /\ Kept /\ UNCHANGED dir /\ why.left = 0
  BY Alone DEF AskApi, At, Over, Again, Filing
<1>1. CASE UNCHANGED refusal
  BY <1>0, <1>1, UnchangedPasses, TextKeeps DEF AskApi
<1>2. CASE No("api") /\ (Text(why) \/ TextFails(FALSE))
  <2>1. Onward(why.made) /\ at' \notin Working /\ Leads
    BY <1>0, <1>2, SelfVariant, TextLeads, TextFailsLeads
  <2>2. refusal' \subseteq {"api"}
    BY <1>0, <1>2, Unheard DEF No
  <2>3. NoHolds' /\ refusal' \subseteq Refusers
    BY <1>0, <2>1, <2>2 DEF NoHolds, Leads, Refusers
  <2> QED  BY <1>0, <2>1, <2>3, QuietKeeps DEF IInv, TypeOK, Over
<1> QED  BY <1>1, <1>2 DEF AskApi, MaybeNo

LEMMA AskExportKeeps == ASSUME IInv, AskExport PROVE IInv'
<1>0. /\ at \in {"export", "export_again"} /\ Kept /\ UNCHANGED dir
      /\ at \notin Over \cup Filing \cup {"api", "folder", "next_file"}
  BY DEF AskExport, Over, Filing
<1>1. CASE At("export") /\ AsBot("export_again")
  <2>1. Onward(why.made) /\ at' \notin Working /\ at' = "export_again"
    BY <1>0, <1>1, SelfVariant, GoLeads DEF AsBot, Steps, Working, Go
  <2>2. refusal' \subseteq {"browser"}
    BY <1>1, Unheard DEF AsBot, No, At
  <2>3. NoHolds' /\ refusal' \subseteq Refusers
    BY <2>1, <2>2 DEF NoHolds, Refusers
  <2> QED  BY <1>0, <2>1, <2>3, QuietKeeps DEF IInv, TypeOK, Over
<1>2. CASE Answered /\ (Text(why) \/ TextFails(FALSE))
  BY <1>0, <1>2, TextKeeps DEF Answered, Passed
<1>3. CASE LastNo /\ TextFails(FALSE)
  BY <1>0, <1>3, LastNoKeeps DEF LastNo
<1> QED  BY <1>1, <1>2, <1>3 DEF AskExport

LEMMA AskDriveKeeps == ASSUME IInv, AskDrive PROVE IInv'
<1>0. at = "drive" /\ at \notin Over \cup Again /\ Kept /\ UNCHANGED dir
  BY DEF AskDrive, At, Over, Again
<1>1. CASE UNCHANGED refusal /\ (Text(why) \/ TextFails(FALSE))
  BY <1>0, <1>1, UnchangedPasses, TextKeeps
<1>2. CASE UNCHANGED refusal /\ Go("attach", why)
  <2>1. Counted'
    BY <1>0, <1>2 DEF IInv, Counted, Filing, Go
  <2>2. Onward(why.made) /\ at' \notin Working
    BY <1>2, <2>1, SelfVariant DEF Onward, Go, Steps, Working
  <2>3. Leads
    BY <1>2 DEF Leads, Go, Filing, Direct, Paging, Embedding
  <2> QED  BY <1>0, <1>2, <2>2, <2>3, UnchangedPasses, TurnKeeps
<1>3. CASE No(IF why.left > 0 THEN "file" ELSE "site") /\ TextFails(FALSE)
  <2>1. Onward(why.made) /\ at' \notin Working /\ Leads
    BY <1>0, <1>3, TextFailsLeads
  <2>2. IF why.left > 0 THEN at' = "next_file" ELSE at' = "failed"
    BY <1>0, <1>3 DEF TextFails, Fail, Go
  <2>3. refusal' \subseteq (IF why.left > 0 THEN {"file"} ELSE {"site"})
    BY <1>0, <1>3, Unheard DEF No
  <2>4. NoHolds' /\ refusal' \subseteq Refusers
    BY <2>1, <2>2, <2>3 DEF NoHolds, Leads, Refusers, Filing
  <2> QED  BY <1>0, <2>1, <2>4, QuietKeeps DEF IInv, TypeOK, Over
<1> QED  BY <1>1, <1>2, <1>3 DEF AskDrive, MaybeNo

LEMMA ListFolderKeeps == ASSUME IInv, ListFolder PROVE IInv'
<1>0. at = "folder" /\ at \notin Over \cup Filing /\ Kept /\ UNCHANGED dir /\ refusal = {}
  BY Unheard DEF ListFolder, At, Over, Filing
<1>1. CASE MaybeNo("site") /\ Fail
  <2>1. Onward(why.made) /\ at' = "failed" /\ why' = Here
    BY <1>1, FailLeads DEF Onward
  <2>2. NoHolds' /\ refusal' \subseteq Refusers
    BY <1>0, <1>1, <2>1, FailedHolds DEF MaybeNo, No
  <2> QED  BY <1>0, <2>1, <2>2, QuietKeeps DEF IInv, TypeOK, Working, Over
<1>2. ASSUME UNCHANGED refusal, NEW n \in 1 .. MaxParts, Go("drive", [why EXCEPT !.left = n])
      PROVE  IInv'
  <2>1. /\ [why EXCEPT !.left = n] \in Ways /\ [why EXCEPT !.left = n].left = n
        /\ [why EXCEPT !.left = n].read = 0 /\ [why EXCEPT !.left = n].made = why.made
    BY <1>0, SelfVariant, MediaFetchAssumption DEF Ways, IInv, Counted
  <2>2. Counted'
    BY <1>2, <2>1, MediaFetchAssumption DEF Counted, Filing, Go
  <2>3. Onward(why.made) /\ at' \notin Working
    BY <1>2, <2>1, <2>2 DEF Onward, Go, Steps, Working
  <2>4. NoHolds' /\ refusal' \subseteq Refusers
    BY <1>0, <1>2 DEF NoHolds, Go
  <2> QED  BY <1>0, <2>3, <2>4, QuietKeeps DEF IInv, TypeOK, Over
<1> QED  BY <1>1, <1>2 DEF ListFolder

LEMMA NextFileKeeps == ASSUME IInv, NextFile PROVE IInv'
<1>0. at = "next_file" /\ at \notin Over /\ Kept /\ UNCHANGED dir /\ Passed
  BY UnchangedPasses DEF NextFile, At, Over, Again
<1>1. why.left \in Nat /\ why.read \in 0 .. MaxParts /\ why.left > 0 /\ MaxParts \in Nat
      /\ why.read + why.left <= MaxParts + 1 /\ why.left <= MaxParts
  BY <1>0, SelfVariant, MediaFetchAssumption DEF IInv, Counted, Ways
<1>2. CASE why.left > 1 /\ Go("drive", [why EXCEPT !.left = @ - 1])
  <2>1. /\ [why EXCEPT !.left = @ - 1] \in Ways /\ [why EXCEPT !.left = @ - 1].left = why.left - 1
        /\ [why EXCEPT !.left = @ - 1].read = why.read /\ [why EXCEPT !.left = @ - 1].made = why.made
    BY <1>1, <1>2, SelfVariant DEF Ways
  <2>2. Counted'
    BY <1>1, <1>2, <2>1 DEF Counted, Filing, Go
  <2>3. Onward(why.made) /\ at' \notin Working
    BY <1>2, <2>1, <2>2 DEF Onward, Go, Steps, Working
  <2>4. Leads
    BY <1>1, <1>2, <2>1 DEF Leads, Go, Filing, Paging, Embedding
  <2> QED  BY <1>0, <2>3, <2>4, TurnKeeps
<1>3. CASE Go("text", [why EXCEPT !.left = 0])
  <2> DEFINE how == [why EXCEPT !.left = 0]
  <2>1. how \in Ways /\ how.left = 0 /\ how.read = why.read /\ how.made = why.made
    BY <1>1, SelfVariant DEF Ways
  <2>2. Onward(how.made)
    <3>1. at' \in Steps \ {"next_file", "folder"} /\ why' = how
      BY <1>3 DEF Go, Steps
    <3> HIDE DEF how
    <3> QED  BY <1>1, <2>1, <3>1, PlainLeads
  <2>3. Onward(why.made) /\ at' \notin Working /\ Leads
    BY <1>1, <1>3, <2>1, <2>2 DEF Go, Working, Leads, Paging, Embedding
  <2> QED  BY <1>0, <2>3, TurnKeeps
<1>4. CASE Fail
  BY <1>0, <1>4, TurnKeeps, FailLeads DEF Onward
<1> QED  BY <1>1, <1>2, <1>3, <1>4 DEF NextFile

--------------------------------------------------------------------------------
(* The steps at a page. *)

\* Another source, and nothing else.
LEMMA GoKeeps ==
  ASSUME IInv, at \notin Filing \cup Over, Kept, UNCHANGED dir, Passed,
         NEW step \in Steps \ (Working \cup Direct), NEW how \in Ways,
         how.left = why.left, how.read = why.read, how.made = why.made, how.fallback = why.fallback,
         step \in Paging \cup Embedding => at \in Paging \/ (step \in Embedding /\ how.hop),
         step = "embeds" => how.hop, Go(step, how)
  PROVE  IInv'
<1>1. Onward(why.made)
  BY GoLeads DEF Onward, Direct
<1>2. Leads
  BY Alone DEF Leads, Go
<1> QED  BY <1>1, <1>2, TurnKeeps DEF Go

LEMMA RefusedKeeps ==
  ASSUME IInv, at \notin Over \cup Filing \cup {"api", "folder"}, Kept, Refused
  PROVE  IInv'
BY LastNoKeeps DEF Refused, LastNo

LEMMA AskPageKeeps == ASSUME IInv, AskPage PROVE IInv'
<1>0. /\ at \in Paging \ {"lookup"} /\ Kept /\ why.archived \in BOOLEAN
      /\ at \notin Over \cup Filing \cup {"api", "folder", "next_file"}
  BY SelfVariant DEF AskPage, Ways, Paging, Over, Filing
<1>1. CASE At("page") /\ AsBot("page_again") /\ UNCHANGED dir
  <2>1. Onward(why.made) /\ at' \notin Working /\ at' = "page_again" /\ why' = why
    BY <1>0, <1>1, SelfVariant, GoLeads DEF AsBot, Steps, Working, Go
  <2>2. refusal' \subseteq refusal \cup {"browser"}
    BY <1>1 DEF AsBot, No
  <2>3. NoHolds' /\ refusal' \subseteq Refusers
    BY <1>1, <2>1, <2>2 DEF IInv, TypeOK, NoHolds, Refusers, At, Direct, Filing, Paging, Embedding
  <2> QED  BY <1>0, <1>1, <2>1, <2>3, QuietKeeps DEF IInv, TypeOK, Over
<1>2. CASE Answered /\ UNCHANGED dir /\ TextFails(~why.archived)
  BY <1>0, <1>2, TextKeeps DEF Answered, Passed
<1>3. CASE Answered /\ UNCHANGED dir /\ (Text(why) \/ TextFails(FALSE))
  BY <1>0, <1>3, TextKeeps DEF Answered, Passed
<1>4. CASE Answered /\ UNCHANGED dir /\ Go("lookup", [why EXCEPT !.archived = TRUE])
  <2>1. /\ [why EXCEPT !.archived = TRUE] \in Ways /\ [why EXCEPT !.archived = TRUE].left = why.left
        /\ [why EXCEPT !.archived = TRUE].read = why.read
        /\ [why EXCEPT !.archived = TRUE].made = why.made
        /\ [why EXCEPT !.archived = TRUE].fallback = why.fallback
    BY SelfVariant DEF Ways
  <2> QED  BY <1>0, <1>4, <2>1, GoKeeps DEF Answered, Passed, Working, Steps, Direct, Paging
<1>5. CASE Refused
  BY <1>0, <1>5, RefusedKeeps
<1>6. ASSUME Answered, UNCHANGED dir,
             NEW step \in {"attach", "saving", "playlist", "found"}, Go(step, why)
      PROVE  IInv'
  BY <1>0, <1>6, SelfVariant, GoKeeps DEF Answered, Passed, Working, Steps, Direct, Paging
<1>7. ASSUME Answered, UNCHANGED dir, NEW thin \in {"text", "shell"}, NEW n \in 0 .. MaxParts,
             Go("embeds", [why EXCEPT !.thin = thin, !.hop = TRUE, !.rest = n])
      PROVE  IInv'
  <2> DEFINE how == [why EXCEPT !.thin = thin, !.hop = TRUE, !.rest = n]
  <2>1. /\ how \in Ways /\ how.left = why.left /\ how.read = why.read /\ how.made = why.made
        /\ how.fallback = why.fallback /\ how.hop
    BY SelfVariant DEF Ways
  <2> HIDE DEF how
  <2> QED  BY <1>0, <1>7, <2>1, GoKeeps DEF how, Answered, Passed, Working, Steps, Direct
<1>8. CASE Answered /\ Routed
  BY <1>3, <1>6, <1>8 DEF Routed
<1>9. CASE Answered /\ Html
  BY <1>3, <1>7, <1>9 DEF Html
<1> QED  BY <1>1, <1>2, <1>4, <1>5, <1>8, <1>9 DEF AskPage

LEMMA FoundKeeps == ASSUME IInv, Found PROVE IInv'
<1>0. at = "found" /\ at \notin Over \cup Filing /\ Kept /\ UNCHANGED dir /\ Passed
  BY UnchangedPasses DEF Found, At, Over, Filing, Again
<1> DEFINE how == [Here EXCEPT !.found = TRUE]
<1>1. how \in Ways /\ how.left = 0 /\ how.read = 0 /\ how.made = {}
  <2>1. \A h \in Ways :
          /\ [h EXCEPT !.found = TRUE] \in Ways /\ [h EXCEPT !.found = TRUE].left = h.left
          /\ [h EXCEPT !.found = TRUE].read = h.read /\ [h EXCEPT !.found = TRUE].made = h.made
    BY DEF Ways
  <2> QED  BY <2>1, HereType
<1>2. PICK source \in {"gallery", "yt-dlp"} : Go(source, how)
  BY DEF Found
<1> HIDE DEF how
<1>3. Onward({})
  <2>1. 0 <= MaxParts /\ source \in Steps \ {"next_file", "folder"}
    BY MediaFetchAssumption DEF Steps
  <2> QED  BY <1>1, <1>2, <2>1, PlainLeads DEF Go
<1>4. Leads
  BY <1>0, <1>1, <1>2, Alone, FreeLeads DEF Steps, Direct, Paging, Embedding
<1> QED  BY <1>0, <1>2, <1>3, <1>4, TurnKeeps DEF Onward, Go, Working

\* A file is begun: its source is at work.
LEMMA WriteKeeps ==
  ASSUME IInv, at \in Embedding \ {"embeds"}, Kept, UNCHANGED refusal,
         \/ Now({Partial("direct")}) /\ Go("streaming", why)
         \/ Now({Partial("hls")}) /\ Go("parts", why)
  PROVE  IInv'
<1>0. at \notin Filing \cup Over \cup Again
  BY DEF Embedding, Filing, Over, Again
<1>1. Onward(why.made)
  BY <1>0, SelfVariant, GoLeads DEF Steps, Onward, Go
<1>2. dir' \in [Items -> SUBSET MediaFiles] /\ Clean'
  BY <1>0, NowType, SourceFiles DEF Sources, Clean, WholeMedia, Go, Kept, Over
<1>3. refusal' \subseteq Refusers /\ NoHolds'
  <2>1. Leads
    BY <1>0, Alone DEF Leads, Go, Embedding, Direct, Paging
  <2> QED  BY <1>0, <2>1, UnchangedPasses, PassedHolds
<1> QED  BY <1>0, <1>1, <1>2, <1>3, OnwardKeeps DEF Go, Over

\* What cannot be used leaves the directory as it is or drops the file.
LEMMA UnusableKeeps ==
  ASSUME IInv, at \in Embedding \ {"embeds"}, Kept, NEW eligible \in BOOLEAN, Unusable(eligible),
         UNCHANGED refusal \/ (StreamNo /\ ~eligible), dir' \in [Items -> SUBSET MediaFiles]
  PROVE  IInv'
<1>0. at \notin Filing \cup Over \cup Again \cup {"api", "folder", "next_file"} /\ why.left = 0
  BY Alone DEF Embedding, Filing, Over, Again
<1>1. CASE why.hop /\ Go("embeds", why)
  <2>1. Onward(why.made) /\ at' \notin Working
    BY <1>0, <1>1, SelfVariant, GoLeads DEF Steps, Go, Working
  <2>2. refusal' \subseteq refusal \cup {"embed"} /\ refusal' \subseteq Refusers
    BY <1>1 DEF StreamNo, MaybeNo, No, IInv, TypeOK, Refusers
  <2>3. NoHolds'
    BY <1>0, <1>1, <2>2 DEF Go, IInv, NoHolds, Direct, Paging, Embedding, Over, Again, Filing
  <2> QED  BY <1>0, <2>1, <2>2, <2>3, QuietKeeps DEF Over
<1>2. CASE ~why.hop /\ ~eligible /\ TextFails(FALSE)
  <2>1. Onward(why.made) /\ at' = "failed" /\ why' = Here
    BY <1>0, <1>2, TextFailsLeads
  <2>2. refusal' \subseteq (refusal \ {"browser"}) \cup {"site"}
    BY <1>0, <1>2 DEF StreamNo, MaybeNo, No, IInv, NoHolds, Again
  <2>3. NoHolds' /\ refusal' \subseteq Refusers
    BY <2>1, <2>2, FailedHolds
  <2> QED  BY <1>0, <2>1, <2>3, QuietKeeps DEF Working, Over
<1>3. CASE UNCHANGED refusal /\ ~why.hop /\ (TextFails(FALSE) \/ TextFails(eligible /\ ~why.archived))
  <2>1. Onward(why.made) /\ at' \notin Working /\ Leads
    BY <1>0, <1>3, TextFailsLeads
  <2>2. NoHolds' /\ refusal' \subseteq Refusers
    BY <1>0, <1>3, <2>1, UnchangedPasses, PassedHolds
  <2> QED  BY <1>0, <2>1, <2>2, QuietKeeps DEF Over
<1>4. ~eligible => (TextFails(eligible /\ ~why.archived) => TextFails(FALSE))
  OBVIOUS
<1> QED  BY <1>1, <1>2, <1>3, <1>4 DEF Unusable

LEMMA StreamedKeeps ==
  ASSUME IInv, at \in Embedding \ {"embeds"}, Kept, UNCHANGED refusal,
         NEW source \in Sources, dir[cur] \subseteq {Partial(source)}, Streamed(source)
  PROVE  IInv'
<1>1. (dir[cur] \ {Partial(source)}) \cup {Whole(source)} = {Whole(source)}
  OBVIOUS
<1> QED  BY <1>1, MediaKeeps DEF Streamed, Embedding, Over, Again, Filing

LEMMA StreamsKeep ==
  ASSUME IInv, Save \/ SaveEnds \/ AskPlaylist \/ PartsEnd
  PROVE  IInv'
<1>0. at \in Embedding \ {"embeds"} /\ at # "idle" /\ Kept
  BY DEF Save, SaveEnds, AskPlaylist, PartsEnd, At, Embedding
<1>1. CASE Save
  BY <1>0, <1>1, WriteKeeps DEF Save
<1>2. CASE SaveEnds
  <2>1. dir[cur] \subseteq {Partial("direct")} /\ UNCHANGED refusal
    BY <1>2 DEF SaveEnds, At, IInv, Clean
  <2>2. CASE Streamed("direct")
    BY <1>0, <2>1, <2>2, StreamedKeeps DEF Sources
  <2>3. CASE Now(Dropped("direct")) /\ Unusable(TRUE)
    <3>1. Dropped("direct") = {}
      BY <2>1 DEF Dropped
    <3> QED  BY <1>0, <2>1, <2>3, <3>1, NowType, UnusableKeeps
  <2> QED  BY <1>2, <2>2, <2>3 DEF SaveEnds
<1>3. CASE AskPlaylist
  <2>1. CASE StreamNo /\ UNCHANGED dir /\ Unusable(FALSE)
    BY <1>0, <2>1, UnusableKeeps DEF IInv, TypeOK
  <2>2. CASE UNCHANGED refusal /\ Now({Partial("hls")}) /\ Go("parts", why)
    BY <1>0, <2>2, WriteKeeps
  <2> QED  BY <1>3, <2>1, <2>2 DEF AskPlaylist
<1>4. CASE PartsEnd
  <2>1. dir[cur] \subseteq {Partial("hls")}
    BY <1>4 DEF PartsEnd, At, IInv, Clean
  <2>2. CASE UNCHANGED refusal /\ Streamed("hls")
    BY <1>0, <2>1, <2>2, StreamedKeeps DEF Sources
  <2>3. CASE StreamNo /\ Now(Dropped("hls")) /\ Unusable(FALSE)
    <3>1. Dropped("hls") = {}
      BY <2>1 DEF Dropped
    <3> QED  BY <1>0, <2>3, <3>1, NowType, UnusableKeeps
  <2> QED  BY <1>4, <2>2, <2>3 DEF PartsEnd
<1> QED  BY <1>1, <1>2, <1>3, <1>4

LEMMA NextEmbedKeeps == ASSUME IInv, NextEmbed PROVE IInv'
<1> DEFINE others == [why EXCEPT !.rest = @ - 1]
           none == [why EXCEPT !.hop = FALSE]
<1>0. /\ at = "embeds" /\ Kept /\ UNCHANGED dir /\ why.hop /\ why.left = 0
      /\ at \notin Over \cup Again \cup Filing \cup {"next_file", "folder"}
  BY Alone DEF NextEmbed, At, IInv, NoHolds, Over, Again, Filing
<1>1. why.rest > 0 =>
        /\ others \in Ways /\ others.left = why.left /\ others.read = why.read
        /\ others.made = why.made /\ others.fallback = why.fallback /\ others.hop = why.hop
  BY SelfVariant, MediaFetchAssumption DEF Ways
<1>2. /\ none \in Ways /\ none.left = why.left /\ none.read = why.read
      /\ none.made = why.made /\ none.fallback = why.fallback
  BY SelfVariant DEF Ways
<1> HIDE DEF others, none
<1>3. CASE /\ why.rest > 0 /\ UNCHANGED refusal
           /\ \E step \in {"saving", "playlist", "found"} : Go(step, others)
  BY <1>0, <1>1, <1>3, UnchangedPasses, GoKeeps DEF Working, Steps, Direct, Paging, Embedding
<1>4. CASE why.rest > 0 /\ MaybeNo("embed") /\ Go("embeds", others)
  <2>1. Onward(why.made) /\ at' \notin Working /\ at' = "embeds" /\ why' = others
    BY <1>0, <1>1, <1>4, GoLeads DEF Steps, Go, Working
  <2>2. refusal' \subseteq refusal \cup {"embed"} /\ refusal' \subseteq Refusers
    BY <1>4 DEF MaybeNo, No, IInv, TypeOK, Refusers
  <2>3. NoHolds'
    BY <1>0, <1>1, <1>4, <2>1, <2>2 DEF IInv, NoHolds, Direct, Paging, Embedding, Over, Again, Filing
  <2> QED  BY <1>0, <2>1, <2>2, <2>3, QuietKeeps DEF IInv, TypeOK, Over
<1>5. CASE UNCHANGED refusal /\ Fail
  BY <1>0, <1>5, UnchangedPasses, TextKeeps
<1>6. CASE UNCHANGED refusal /\ Text(none)
  <2>1. Onward(why.made) /\ at' \notin Working /\ Leads
    BY <1>0, <1>2, <1>6, TextLeads DEF Variant
  <2> QED  BY <1>0, <1>6, <2>1, UnchangedPasses, TurnKeeps
<1>7. CASE UNCHANGED refusal /\ Go("shell", none)
  BY <1>0, <1>2, <1>7, UnchangedPasses, GoKeeps DEF Working, Steps, Direct, Paging, Embedding
<1> QED  BY <1>3, <1>4, <1>5, <1>6, <1>7 DEF NextEmbed, others, none

LEMMA ShellsKeep ==
  ASSUME IInv, Shell \/ Render \/ Lookup
  PROVE  IInv'
<1>0. /\ at \in {"shell", "render", "lookup"} /\ Kept
      /\ at \notin Over \cup Again \cup Filing \cup {"api", "next_file", "folder"}
  BY DEF Shell, Render, Lookup, At, Over, Again, Filing
<1>1. CASE UNCHANGED <<dir, refusal>> /\ (Text(why) \/ TextFails(FALSE) \/ Fail)
  BY <1>0, <1>1, UnchangedPasses, TextKeeps
<1>2. CASE /\ UNCHANGED <<dir, refusal>>
           /\ (at = "shell" /\ Go("render", why)) \/ (at = "lookup" /\ Go("page", why))
  BY <1>0, <1>2, UnchangedPasses, SelfVariant, GoKeeps
     DEF Working, Steps, Direct, Paging, Embedding
<1>3. CASE Refused
  BY <1>0, <1>3, RefusedKeeps
<1> QED  BY <1>1, <1>2, <1>3 DEF Shell, Render, Lookup, At

--------------------------------------------------------------------------------
(* Attachments. *)

LEMMA Distinct ==
  /\ None \notin Docs /\ Torn \notin Docs /\ Torn # None
  /\ "name" \notin Items
BY MediaFetchAssumption

\* Everything embedded is a document under a name.
LEMMA EmbeddedType == IInv => Embedded \subseteq Names \X Docs
BY SelfVariant DEF IInv, TypeOK, Embedded, Ways

LEMMA AttachKeeps == ASSUME IInv, Attach PROVE IInv'
<1>0. at = "attach" /\ cur \in Items /\ at' = "attaching"
  BY CurType DEF Attach, At, Go
<1>1. PICK doc \in Docs :
        /\ files' = [files EXCEPT ![NameFor(doc)] = Torn]
        /\ Go("attaching", [why EXCEPT !.name = NameFor(doc), !.doc = doc])
  BY DEF Attach
<1> DEFINE how == [why EXCEPT !.name = NameFor(doc), !.doc = doc]
<1>2. NameFor(doc) \in {"name", cur} /\ NameFor(doc) \in Names
  BY <1>0 DEF NameFor, Names
<1>3. /\ how \in Ways /\ how.left = why.left /\ how.read = why.read /\ how.made = why.made
      /\ how.name = NameFor(doc) /\ how.doc = doc
  BY <1>2, SelfVariant DEF Ways
<1>4. why' = how
  BY <1>1 DEF Go
<1> HIDE DEF how
<1>5. UNCHANGED <<link, tries, settled, cur, dir, refusal, embeds>>
  BY DEF Attach
<1>6. TypeOK'
  BY <1>0, <1>1, <1>2, <1>3, <1>4, <1>5 DEF IInv, TypeOK, Steps
<1>7. Counted'
  BY <1>0, <1>3, <1>4 DEF IInv, Counted, Filing
<1>8. Open' /\ NoHolds' /\ Clean'
  <2>1. NoHolds'
    BY <1>0, <1>3, <1>4, <1>5
       DEF IInv, TypeOK, Ways, NoHolds, Direct, Paging, Embedding, Filing
  <2> QED  BY <1>0, <1>5, <2>1 DEF IInv, Open, Clean, WholeMedia
<1>9. Named'
  <2>1. Embedded' = Embedded
    BY <1>3, <1>4, <1>5 DEF Embedded
  <2>2. ASSUME NEW e \in Embedded, e[1] = "name"
        PROVE  files'["name"] \in {e[2], Torn} /\ (NameFor(doc) = "name" => doc = e[2])
    <3>1. e[2] \in Docs /\ files["name"] \in {e[2], Torn} /\ files \in [Names -> Docs \cup {None, Torn}]
      BY <2>2, EmbeddedType DEF IInv, Named, TypeOK
    <3>2. CASE NameFor(doc) = "name"
      BY <1>0, <1>1, <1>2, <3>1, <3>2, Distinct DEF NameFor
    <3>3. CASE NameFor(doc) # "name"
      BY <1>1, <3>1, <3>3 DEF Names
    <3> QED  BY <3>2, <3>3
  <2>3. \A e \in why'.made : e[1] \in {"name", cur'}
    BY <1>3, <1>4, <1>5 DEF IInv, Named
  <2>4. \A i \in Items : \A e \in embeds'[i] : e[1] \in {"name", i}
    BY <1>5 DEF IInv, Named
  <2> QED  BY <1>2, <1>3, <1>4, <1>5, <2>1, <2>2, <2>3, <2>4 DEF Named
<1> QED  BY <1>6, <1>7, <1>8, <1>9 DEF IInv

LEMMA AttachedKeeps == ASSUME IInv, Attached PROVE IInv'
<1> DEFINE how == [why EXCEPT !.name = None, !.doc = None, !.made = @ \cup {<<why.name, why.doc>>}]
<1>0. /\ at = "attaching" /\ cur \in Items /\ why.name \in {"name", cur} /\ why.doc \in Docs
      /\ why \in Ways /\ why.name \in Names
  BY CurType, SelfVariant DEF Attached, At, IInv, Named, Names
<1>1. Variant(how) /\ how.made = why.made \cup {<<why.name, why.doc>>}
  <2> DEFINE made == why.made \cup {<<why.name, why.doc>>}
  <2>1. made \in SUBSET (Names \X Docs)
    BY <1>0 DEF Ways
  <2>2. how = [why EXCEPT !.name = None, !.doc = None, !.made = made]
    OBVIOUS
  <2> HIDE DEF how, made
  <2>3. how \in Ways /\ how.left = why.left /\ how.read = why.read /\ how.made = made
    BY <1>0, <2>1, <2>2 DEF Ways
  <2> QED  BY <2>3 DEF Variant, made
<1>2. (Text(how) /\ UNCHANGED dir) \/ Media(how, {Whole("scan")})
  BY DEF Attached
<1>3. /\ UNCHANGED <<link, tries, settled, cur, refusal, embeds>>
      /\ files' = [files EXCEPT ![why.name] = why.doc]
  BY DEF Attached
<1> HIDE DEF how
<1>4. /\ Onward(how.made) /\ at' \notin Working \ {"media"}
      /\ dir' \in [Items -> SUBSET MediaFiles]
      /\ at' = "media" => dir'[cur] = {Whole("scan")}
      /\ Leads
  <2>1. CASE Text(how) /\ UNCHANGED dir
    BY <1>0, <1>1, <2>1, TextLeads DEF Filing, Working, IInv, TypeOK
  <2>2. CASE Media(how, {Whole("scan")})
    BY <1>0, <1>1, <2>2, MediaLeads DEF Filing, Sources
  <2> QED  BY <1>2, <2>1, <2>2
<1>5. TypeOK'
  <2>1. files' \in [Names -> Docs \cup {None, Torn}]
    BY <1>0, <1>3 DEF IInv, TypeOK
  <2> QED  BY <1>0, <1>3, <1>4, <2>1 DEF IInv, TypeOK, Onward, Working
<1>6. Counted'
  BY <1>4 DEF Onward
<1>7. Open' /\ NoHolds'
  <2>1. NoHolds'
    BY <1>0, <1>3, <1>4, UnchangedPasses, PassedHolds DEF Again, Over
  <2> QED  BY <1>0, <1>3, <2>1 DEF IInv, Open
<1>8. Clean'
  BY <1>3, <1>4 DEF Clean, WholeMedia, Working, Sources
<1>9. Named'
  <2>1. ASSUME NEW e \in Embedded'
        PROVE  e \in Embedded \/ e = <<why.name, why.doc>>
    BY <1>1, <1>3, <1>4 DEF Embedded, Onward
  <2>2. ASSUME NEW e \in Embedded', e[1] = "name"
        PROVE  files'["name"] \in {e[2], Torn}
    <3>1. CASE e = <<why.name, why.doc>>
      BY <1>0, <1>3, <2>2, <3>1 DEF IInv, TypeOK
    <3>2. CASE e \in Embedded
      BY <1>0, <1>3, <2>2, <3>2 DEF IInv, TypeOK, Named, Names
    <3> QED  BY <2>1, <3>1, <3>2
  <2>3. \A e \in why'.made : e[1] \in {"name", cur'}
    BY <1>0, <1>1, <1>3, <1>4 DEF IInv, Named, Onward
  <2>4. \A i \in Items : \A e \in embeds'[i] : e[1] \in {"name", i}
    BY <1>3 DEF IInv, Named
  <2> QED  BY <1>4, <2>2, <2>3, <2>4 DEF Named, Working
<1> QED  BY <1>5, <1>6, <1>7, <1>8, <1>9 DEF IInv

--------------------------------------------------------------------------------
(* The theorems. *)

LEMMA InitKeeps == Init => IInv
<1> SUFFICES ASSUME Init PROVE IInv
  OBVIOUS
<1>1. TypeOK
  <2>1. tries \in [Items -> 0 .. MaxAttempts] /\ link \in Links
    BY MediaFetchAssumption DEF Init
  <2>2. settled \in [Items -> {"open", "text", "media", "given_up"}] /\ dir \in [Items -> SUBSET MediaFiles]
    BY DEF Init
  <2>3. files \in [Names -> Docs \cup {None, Torn}] /\ embeds \in [Items -> SUBSET (Names \X Docs)]
    BY DEF Init
  <2> QED  BY <2>1, <2>2, <2>3, HereType DEF Init, TypeOK, Steps
<1>2. Counted /\ Open /\ NoHolds /\ Clean
  BY HereType, MediaFetchAssumption DEF Init, Counted, Open, NoHolds, Clean, WholeMedia, Filing
<1>3. Named
  BY HereType DEF Init, Named, Embedded
<1> QED  BY <1>1, <1>2, <1>3 DEF IInv

LEMMA StutterKeeps == ASSUME IInv, UNCHANGED vars PROVE IInv'
BY DEF vars, IInv, TypeOK, Counted, Open, NoHolds, Clean, WholeMedia, Named, Embedded

LEMMA NextKeeps == IInv /\ [Next]_vars => IInv'
<1> SUFFICES ASSUME IInv, [Next]_vars PROVE IInv'
  OBVIOUS
<1>1. CASE \E i \in Items : Begin(i)
  BY <1>1, BeginKeeps
<1>2. CASE Failed \/ Gone \/ Captured \/ Crash
  BY <1>2, FailedKeeps, GoneKeeps, CapturedKeeps, CrashKeeps
<1>3. CASE RunGallery \/ GalleryEnds \/ RunYtDlp \/ YtDlpEnds
  BY <1>3, RunGalleryKeeps, GalleryEndsKeeps, RunYtDlpKeeps, YtDlpEndsKeeps
<1>4. CASE AskApi \/ AskExport \/ ListFolder \/ NextFile \/ AskDrive
  BY <1>4, AskApiKeeps, AskExportKeeps, ListFolderKeeps, NextFileKeeps, AskDriveKeeps
<1>5. CASE Attach \/ Attached
  BY <1>5, AttachKeeps, AttachedKeeps
<1>6. CASE AskPage \/ Found \/ Save \/ SaveEnds \/ AskPlaylist \/ PartsEnd
  BY <1>6, AskPageKeeps, FoundKeeps, StreamsKeep
<1>7. CASE NextEmbed \/ Shell \/ Render \/ Lookup
  BY <1>7, NextEmbedKeeps, ShellsKeep
<1>8. CASE UNCHANGED vars
  BY <1>8, StutterKeeps
<1> QED  BY <1>1, <1>2, <1>3, <1>4, <1>5, <1>6, <1>7, <1>8 DEF Next, Step

\* The directory, the counts of a folder's files and the names of the attachments fit the
\* step a capture is at, at every step of every attempt.
THEOREM Invariance == Spec => []IInv
BY InitKeeps, NextKeeps, PTL DEF Spec

\* Every variable keeps its type.
THEOREM TypeCorrect == Spec => []TypeOK
BY Invariance, PTL DEF IInv

\* For any links and any answers: after the last no about a link an attempt asks nothing, after
\* a 403 only the same as a bot, after one of a folder's files only the others, after an
\* interface's never that or a document's again, after an embed's not the page or the archive
\* before the fallback of a failed post.
THEOREM NothingAfterNoHolds == Spec => []NothingAfterNo
<1>1. IInv => NothingAfterNo
  <2> SUFFICES ASSUME IInv, at \in Asking, NEW no \in refusal
               PROVE  at \in MayAsk(no)
    BY DEF NothingAfterNo
  <2>1. no \in Refusers
    BY DEF IInv, TypeOK
  <2>2. CASE no \in {"site", "browser", "file"}
    BY <2>2 DEF IInv, NoHolds, Asking, MayAsk, Filing
  <2>3. CASE no \in {"api", "embed"}
    BY <2>3 DEF IInv, NoHolds, Asking, MayAsk, Direct, Paging
  <2> QED  BY <2>1, <2>2, <2>3 DEF Refusers
<1> QED  BY <1>1, Invariance, PTL

\* Media that is handed on is one source's, and whole, whatever attempts and kills came before.
THEOREM WholeMediaHolds == Spec => []WholeMedia
<1>1. IInv => WholeMedia
  BY DEF IInv, Clean
<1> QED  BY <1>1, Invariance, PTL

\* No step puts another document under a name some note embeds.
THEOREM AttachmentsKeptHolds == Spec => AttachmentsKept
<1>1. ASSUME IInv, [Next]_vars
      PROVE  \A i \in Items : \A embed \in embeds[i] :
               files'[embed[1]] \in {files[embed[1]], Torn, embed[2]}
  <2> SUFFICES ASSUME NEW i \in Items, NEW embed \in embeds[i]
               PROVE  files'[embed[1]] \in {files[embed[1]], Torn, embed[2]}
    OBVIOUS
  <2>1. embed[1] \in {"name", i} /\ embed[1] \in Names /\ embed \in Embedded
    BY <1>1 DEF IInv, Named, Names, Embedded
  <2>2. CASE UNCHANGED files
    BY <2>2
  <2>3. CASE Attach
    BY <1>1, <2>1, <2>3 DEF Attach, IInv, TypeOK
  <2>4. CASE Attached
    <3>1. /\ at = "attaching" /\ cur \in Items /\ why.name \in {"name", cur}
          /\ files' = [files EXCEPT ![why.name] = why.doc] /\ files \in [Names -> Docs \cup {None, Torn}]
      BY <1>1, <2>4, CurType DEF Attached, At, IInv, Named, TypeOK
    <3>2. CASE embed[1] # why.name
      BY <2>1, <3>1, <3>2
    <3>3. CASE embed[1] = why.name /\ why.name = "name"
      BY <1>1, <2>1, <3>1, <3>3 DEF IInv, Named
    <3>4. CASE embed[1] = why.name /\ why.name # "name"
      \* A document under an item's own name is its own, but an open item's note embeds nothing.
      BY <1>1, <2>1, <3>1, <3>4, Distinct DEF IInv, Open, TypeOK
    <3> QED  BY <3>2, <3>3, <3>4
  <2> QED
    BY <1>1, <2>2, <2>3, <2>4
       DEF Next, Step, vars, Kept, Begin, Failed, Gone, Captured, Crash, RunGallery, GalleryEnds,
           RunYtDlp, YtDlpEnds, AskApi, AskExport, ListFolder, NextFile, AskDrive, AskPage, Found, Save,
           SaveEnds, AskPlaylist, PartsEnd, NextEmbed, Shell, Render, Lookup
<1> QED  BY <1>1, Invariance, PTL DEF Spec, AttachmentsKept

================================================================================
