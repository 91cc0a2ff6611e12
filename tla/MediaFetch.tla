------------------------------- MODULE MediaFetch -------------------------------
(***************************************************************************)
(* How the content of a link is captured (downloader.py, text_fetcher.py    *)
(* and the steps of worker.py that choose between them). An attempt asks a   *)
(* source, then by what came back another one: gallery-dl, yt-dlp, the       *)
(* interfaces of GitHub, Notion and Drive, the page, what is embedded in it, *)
(* a browser, the archive. Media is collected in the item's tmp directory,   *)
(* documents are saved among the vault's attachments. Items are captured one  *)
(* after the other; the process may be killed between any two steps.         *)
(* Outside are the sites; a note is written of what was captured at once.    *)
(***************************************************************************)
EXTENDS Integers, Sequences, FiniteSets

CONSTANTS
  Items,
  Links,         \* the kinds of links the items may have: functions from Items to AllLinks
  Listed,        \* kinds of links in text_capture.media_text_fallback_domains
  Docs,          \* contents of documents
  MaxAttempts,   \* settings.retry.max_attempts
  RenderEnabled, \* text_capture.render_fallback.enabled
  MaxParts,      \* bound: embeds looked at in a page, files read of a folder
  None, Torn

MediaLinks == {"instagram", "video"}
ApiLinks == {"github", "notion"}
DriveLinks == {"drive_file", "drive_folder"}
AllLinks == MediaLinks \cup ApiLinks \cup DriveLinks \cup {"google_doc", "page"}

ASSUME MediaFetchAssumption ==
  /\ Links \subseteq [Items -> AllLinks] /\ Listed \subseteq MediaLinks
  /\ MaxAttempts \in Nat \ {0} /\ MaxParts \in Nat \ {0}
  /\ RenderEnabled \in BOOLEAN
  /\ None \notin Docs \cup Items /\ "name" \notin Items /\ Torn \notin Docs \cup {None}

VARIABLES
  link,     \* the kind of each item's link
  tries,    \* failed attempts of each item
  settled,  \* what became of each item
  cur,      \* the item in process_item
  at,       \* the source that is asked next, or the step inside one
  why,      \* how the attempt came there
  dir,      \* data/tmp/<content_id>: the media files in it
  refusal,  \* who has said no in this attempt
  files,    \* the vault's attachments by name
  embeds    \* the attachments the note of an item embeds, with what it was made from

vars == <<link, tries, settled, cur, at, why, dir, refusal, files, embeds>>

Sources == {"gallery", "yt-dlp", "direct", "hls", "scan"}
MediaFiles == [by : Sources, whole : BOOLEAN]
Partial(source) == [by |-> source, whole |-> FALSE]
Whole(source) == [by |-> source, whole |-> TRUE]

\* A file keeps its name, or gets the item's id before it.
Names == {"name"} \cup Items

\* "site": the last word about the link; "browser": a 403 that is asked again as a bot.
Refusers == {"site", "browser", "api", "file", "embed"}

Here == [archived |-> FALSE, fallback |-> FALSE, found |-> FALSE,
         second |-> FALSE, all |-> FALSE, hop |-> FALSE, thin |-> "text",
         left |-> 0, read |-> 0, rest |-> 0, name |-> None, doc |-> None, made |-> {}]

Init ==
  /\ link \in Links
  /\ tries = [i \in Items |-> 0] /\ settled = [i \in Items |-> "open"]
  /\ cur = None /\ at = "idle" /\ why = Here
  /\ dir = [i \in Items |-> {}] /\ refusal = {}
  /\ files = [n \in Names |-> None] /\ embeds = [i \in Items |-> {}]

At(step) == at = step
Go(step, how) == at' = step /\ why' = how

\* mutant of LastAttempt: off by one.
LastAttemptLate == tries[cur] >= MaxAttempts

\* _on_last_attempt; the same count ends an item in QueueManager._fail.
LastAttempt == tries[cur] + 1 >= MaxAttempts

\* Where process_item and the two dispatchers send a link.
FirstSource ==
  [l \in AllLinks |->
     CASE l = "instagram" -> "gallery" [] l = "video" -> "yt-dlp"
       [] l \in ApiLinks -> "api" [] l = "drive_file" -> "drive"
       [] l = "drive_folder" -> "folder" [] l = "google_doc" -> "export"
       [] l = "page" -> "page"]

Begin(i) ==
  /\ At("idle") /\ settled[i] = "open"
  /\ cur' = i /\ refusal' = {}
  /\ Go(FirstSource[link[i]], Here)
  /\ UNCHANGED <<link, tries, settled, dir, files, embeds>>

--------------------------------------------------------------------------------
(* How an attempt ends *)

Fail == Go("failed", Here)
Now(contents) == dir' = [dir EXCEPT ![cur] = contents]

Failed ==
  /\ At("failed")
  /\ tries' = [tries EXCEPT ![cur] = @ + 1]
  /\ settled' = [settled EXCEPT ![cur] = IF LastAttempt THEN "given_up" ELSE @]
  /\ cur' = None /\ Go("idle", Here) /\ refusal' = {}
  /\ UNCHANGED <<link, dir, files, embeds>>

\* The post is gone: a terminal failure, the retries are not spent.
Gone ==
  /\ At("gone")
  /\ settled' = [settled EXCEPT ![cur] = "given_up"]
  /\ tries' = [tries EXCEPT ![cur] = @ + 1]
  /\ cur' = None /\ Go("idle", Here) /\ refusal' = {}
  /\ UNCHANGED <<link, dir, files, embeds>>

\* The note embeds what this attempt attached; with it the tmp directory is removed.
Captured ==
  /\ at \in {"text", "media"}
  /\ settled' = [settled EXCEPT ![cur] = at]
  /\ embeds' = [embeds EXCEPT ![cur] = why.made]
  /\ dir' = [dir EXCEPT ![cur] = {}]
  /\ cur' = None /\ Go("idle", Here) /\ refusal' = {}
  /\ UNCHANGED <<link, tries, files>>

\* A text: of a folder's file, of the page a failed download fell back to, or of the item.
\* A fallback's text counts from _MEDIA_TEXT_FALLBACK_MIN_CHARS on.
Text(how) ==
  IF how.left > 0 THEN Go("next_file", [how EXCEPT !.read = @ + 1])
  ELSE \/ Go("text", how)
       \/ how.fallback /\ Fail

\* MediaFound with media in the directory. A folder's note cannot become images as well:
\* they are removed; and a fallback wanted a text.
Media(how, contents) ==
  IF how.left > 0
  THEN Now({}) /\ Go("next_file", [how EXCEPT !.read = @ + 1])
  ELSE Now(contents) /\ IF how.fallback THEN Fail ELSE Go("media", how)

\* A TextFetchError. After GitHub's or Notion's interface the page is asked; a file of a
\* folder is noted and skipped; a failed archive or fallback leaves the first error. A site
\* that failed, rather than refused, is looked up in the archive on the last attempt.
TextFails(eligible) ==
  IF at = "api" THEN Go("page", why)
  ELSE IF why.left > 0 THEN Go("next_file", why)
  ELSE IF eligible /\ LastAttempt /\ ~why.fallback /\ ~why.archived
       THEN Go("lookup", [why EXCEPT !.archived = TRUE])
       ELSE Fail

\* mutant of FallsBack: a refusal is an error like others.
FallsBackAlways(error) == (error = "no_media" \/ LastAttempt) /\ link[cur] \in Listed

\* _text_fallback_allowed, and the hosts it is configured for. The page behind a found URL
\* is on a host of its own.
FallsBack(error) ==
  /\ error \notin {"refused", "gone"}
  /\ error = "no_media" \/ LastAttempt
  /\ link[cur] \in Listed \/ why.found

DownloadFails(error) ==
  \/ /\ FallsBack(error)
     /\ Go("page", [Here EXCEPT !.fallback = TRUE])
  \/ /\ ~FallsBack(error) \/ why.found
     /\ IF error = "gone" THEN Go("gone", Here) ELSE Fail

--------------------------------------------------------------------------------
(* Downloads *)

\* mutant of Cleared: only Instagram's downloader empties the directory.
ClearedForGallery(source) == IF source = "gallery" THEN {} ELSE dir[cur]

Cleared(source) == {}

Kept == UNCHANGED <<link, tries, settled, cur, files, embeds>>

No(who) == refusal' = refusal \cup {who}
MaybeNo(who) == UNCHANGED refusal \/ No(who)

\* gallery-dl runs, on the one picture of the link's index or on the whole post, and writes
\* as it goes.
RunGallery ==
  /\ At("gallery")
  /\ \E range \in {FALSE} \cup {~why.all} :
       /\ \E written \in {{}, {Partial("gallery")}} : Now(Cleared("gallery") \cup written)
       /\ Go("gallery_runs", [why EXCEPT !.all = ~range])
  /\ UNCHANGED refusal /\ Kept

\* An index past the post's end finds nothing; the whole post is asked once more.
GalleryEnds ==
  /\ At("gallery_runs")
  /\ \/ Media(why, {Whole("gallery")}) /\ UNCHANGED refusal
     \/ ~why.all /\ Go("gallery", [why EXCEPT !.all = TRUE]) /\ UNCHANGED <<dir, refusal>>
     \/ \* failed, or no file at all
        Go("yt-dlp", [why EXCEPT !.second = TRUE]) /\ UNCHANGED <<dir, refusal>>
     \/ No("site") /\ UNCHANGED dir /\ DownloadFails("refused")
     \/ No("site") /\ UNCHANGED dir /\ DownloadFails("gone")
  /\ Kept

RunYtDlp ==
  /\ At("yt-dlp")
  /\ \E written \in {{}, {Partial("yt-dlp")}} : Now(Cleared("yt-dlp") \cup written)
  /\ Go("yt-dlp_runs", why)
  /\ UNCHANGED refusal /\ Kept

\* After gallery-dl both errors are in one message: a refusal is still seen in it, that
\* there was no media is not.
ErrorOf(error) == IF why.second /\ error = "no_media" THEN "failed" ELSE error

YtDlpEnds ==
  /\ At("yt-dlp_runs")
  /\ \/ /\ Media(why, (dir[cur] \ {Partial("yt-dlp")}) \cup {Whole("yt-dlp")})
        /\ UNCHANGED refusal
     \/ \E error \in {"no_media", "refused", "failed"} :
          /\ IF error = "refused" THEN No("site") ELSE UNCHANGED refusal
          /\ UNCHANGED dir /\ DownloadFails(ErrorOf(error))
  /\ Kept

--------------------------------------------------------------------------------
(* Interfaces of particular sites *)

\* A repository's metadata and readme; a page in chunks, of which the first must come. An
\* answer that is no JSON is no TextFetchError.
AskApi ==
  /\ At("api")
  /\ \/ MaybeNo("api") /\ (Text(why) \/ TextFails(FALSE))
     \/ UNCHANGED refusal /\ Fail
  /\ UNCHANGED dir /\ Kept

\* _open_stream: a 403 is asked once more, as a bot, and what comes then counts.
AsBot(step) == Go(step, why) /\ No("browser")
Answered == refusal' = refusal \ {"browser"}
LastNo == refusal' = (refusal \ {"browser"}) \cup (IF why.archived THEN {} ELSE {"site"})

\* The public export of a Google document; a private one brings a sign-in page.
AskExport ==
  /\ at \in {"export", "export_again"}
  /\ \/ At("export") /\ AsBot("export_again")
     \/ Answered /\ (Text(why) \/ TextFails(FALSE))
     \/ LastNo /\ TextFails(FALSE)
  /\ UNCHANGED dir /\ Kept

\* The files at the top of a folder, up to a limit.
ListFolder ==
  /\ At("folder")
  /\ \/ UNCHANGED refusal /\ \E n \in 1 .. MaxParts : Go("drive", [why EXCEPT !.left = n])
     \/ MaybeNo("site") /\ Fail
  /\ UNCHANGED dir /\ Kept

\* One section per file, until the last; the folder has failed if none could be read.
NextFile ==
  /\ At("next_file")
  /\ IF why.left > 1 THEN Go("drive", [why EXCEPT !.left = @ - 1])
     ELSE IF why.read > 0 THEN Go("text", [why EXCEPT !.left = 0]) ELSE Fail
  /\ UNCHANGED <<dir, refusal>> /\ Kept

\* A document of text, a binary one, or an error; the form of the virus warning is followed
\* within the same step. Of a folder, one file's refusal is noted like any error.
AskDrive ==
  /\ At("drive")
  /\ \/ UNCHANGED refusal /\ Text(why)
     \/ UNCHANGED refusal /\ Go("attach", why)
     \/ MaybeNo(IF why.left > 0 THEN "file" ELSE "site") /\ TextFails(FALSE)
  /\ UNCHANGED dir /\ Kept

--------------------------------------------------------------------------------
(* Attachments *)

\* mutant of NameFor: the newest document gets the name.
NameForAny(doc) == "name"

\* Another file of that name keeps it.
NameFor(doc) == IF files["name"] \in {None, doc} THEN "name" ELSE cur

\* The file is written in place, also over one with the same bytes.
Attach ==
  /\ At("attach")
  /\ \E doc \in Docs :
       /\ files' = [files EXCEPT ![NameFor(doc)] = Torn]
       /\ Go("attaching", [why EXCEPT !.name = NameFor(doc), !.doc = doc])
  /\ UNCHANGED <<link, tries, settled, cur, dir, refusal, embeds>>

\* With or without a text in it, or as a scan, whose pages are images to describe.
Attached ==
  /\ At("attaching")
  /\ files' = [files EXCEPT ![why.name] = why.doc]
  /\ LET how == [why EXCEPT !.name = None, !.doc = None, !.made = @ \cup {<<why.name, why.doc>>}]
     IN  \/ Text(how) /\ UNCHANGED dir
         \/ Media(how, {Whole("scan")})
  /\ UNCHANGED <<link, tries, settled, cur, refusal, embeds>>

--------------------------------------------------------------------------------
(* Pages *)

\* A 401, a second 403, a 429, a challenge, a login wall - of the site, not of the archive.
Refused == LastNo /\ UNCHANGED dir /\ TextFails(FALSE)

\* What a response can be that is neither HTML nor a reason to fail.
Routed ==
  \/ UNCHANGED dir /\ Text(why)
  \/ UNCHANGED dir /\ Go("attach", why)
  \/ UNCHANGED dir /\ Go("saving", why)
  \/ UNCHANGED dir /\ Go("playlist", why)
  \/ UNCHANGED dir /\ ~why.archived /\ ~why.fallback /\ Go("found", why)
  \/ UNCHANGED dir /\ TextFails(FALSE)

\* HTML with enough text, or too little: then its embeds are looked at first.
Html ==
  \/ UNCHANGED dir /\ Text(why)
  \/ \E thin \in {"text", "shell"}, n \in 0 .. MaxParts :
       UNCHANGED dir /\ Go("embeds", [why EXCEPT !.thin = thin, !.hop = TRUE, !.rest = n])

\* A page is unreachable or fails, is gone, refuses or comes.
AskPage ==
  /\ at \in {"page", "page_again"}
  /\ \/ At("page") /\ AsBot("page_again") /\ UNCHANGED dir
     \/ Answered /\ UNCHANGED dir /\ TextFails(~why.archived)
     \/ /\ ~why.archived
        /\ Answered /\ UNCHANGED dir /\ Go("lookup", [why EXCEPT !.archived = TRUE])
     \/ Refused
     \/ Answered /\ (Routed \/ Html)
  /\ Kept

\* A redirect or an embed leads to a host of the downloaders.
Found ==
  /\ At("found")
  /\ \E source \in {"gallery", "yt-dlp"} :
       Go(source, [Here EXCEPT !.found = TRUE])
  /\ UNCHANGED <<dir, refusal>> /\ Kept

\* A media file is streamed into a fresh directory. If it breaks off or grows too large it
\* is deleted; of an embed the next one is tried, else the page has failed.
Save ==
  /\ At("saving")
  /\ Now({Partial("direct")}) /\ Go("streaming", why)
  /\ UNCHANGED refusal /\ Kept

\* eligible: the connection broke off.
Unusable(eligible) ==
  IF why.hop THEN Go("embeds", why)
  ELSE TextFails(FALSE) \/ TextFails(eligible /\ ~why.archived)

\* The file is unlinked when the stream breaks off.
Dropped(source) == dir[cur] \ {Partial(source)}

Streamed(source) == Media(why, (dir[cur] \ {Partial(source)}) \cup {Whole(source)})

SaveEnds ==
  /\ At("streaming")
  /\ \/ Streamed("direct")
     \/ Now(Dropped("direct")) /\ Unusable(TRUE)
  /\ UNCHANGED refusal /\ Kept

\* A stream: its playlist, the lowest rendition's, and the parts of that in one file. Each
\* of them may be refused (the second request as a bot is within the step).
StreamNo == MaybeNo(IF why.hop THEN "embed" ELSE "site")

AskPlaylist ==
  /\ At("playlist")
  /\ \/ StreamNo /\ UNCHANGED dir /\ Unusable(FALSE)
     \/ UNCHANGED refusal /\ Now({Partial("hls")}) /\ Go("parts", why)
  /\ Kept

PartsEnd ==
  /\ At("parts")
  /\ \/ UNCHANGED refusal /\ Streamed("hls")
     \/ StreamNo /\ Now(Dropped("hls")) /\ Unusable(FALSE)
  /\ Kept

\* The next embed: a post of the downloaders, a file, a stream, or nothing usable; those of
\* an embedded page are counted with the others. After the last the thin text stands, or
\* the shell is rendered.
NextEmbed ==
  /\ At("embeds")
  /\ LET others == [why EXCEPT !.rest = @ - 1]
         none == [why EXCEPT !.hop = FALSE] IN
     \/ why.rest > 0 /\ UNCHANGED refusal /\ Go("saving", others)
     \/ why.rest > 0 /\ UNCHANGED refusal /\ Go("playlist", others)
     \/ why.rest > 0 /\ MaybeNo("embed") /\ Go("embeds", others)
     \/ why.rest > 0 /\ UNCHANGED refusal /\ IF why.fallback THEN Fail ELSE Go("found", others)
     \/ why.rest = 0 /\ why.thin = "text" /\ UNCHANGED refusal /\ Text(none)
     \/ why.rest = 0 /\ why.thin = "shell" /\ UNCHANGED refusal /\ Go("shell", none)
  /\ UNCHANGED dir /\ Kept

\* A page without content of its own: rendered, unless it is archived or that is turned off,
\* then its title and description, if it has any.
Shell ==
  /\ At("shell")
  /\ IF why.archived \/ ~RenderEnabled THEN Text(why) \/ TextFails(FALSE)
     ELSE Go("render", why)
  /\ UNCHANGED <<dir, refusal>> /\ Kept

Render ==
  /\ At("render")
  /\ \/ UNCHANGED <<dir, refusal>> /\ (Text(why) \/ TextFails(FALSE))
     \/ Refused
  /\ Kept

\* The archive's newest snapshot, if the link may be told to it and there is one.
Lookup ==
  /\ At("lookup")
  /\ Go("page", why) \/ Fail
  /\ UNCHANGED <<dir, refusal>> /\ Kept

\* The process is killed: what was written stays.
Crash ==
  /\ cur # None
  /\ cur' = None /\ Go("idle", Here) /\ refusal' = {}
  /\ UNCHANGED <<link, tries, settled, dir, files, embeds>>

Step ==
  \/ Failed \/ Gone \/ Captured
  \/ RunGallery \/ GalleryEnds \/ RunYtDlp \/ YtDlpEnds
  \/ AskApi \/ AskExport \/ ListFolder \/ NextFile \/ AskDrive
  \/ Attach \/ Attached
  \/ AskPage \/ Found \/ Save \/ SaveEnds \/ AskPlaylist \/ PartsEnd
  \/ NextEmbed \/ Shell \/ Render \/ Lookup

Next == (\E i \in Items : Begin(i)) \/ Step \/ Crash

Spec == Init /\ [][Next]_vars

--------------------------------------------------------------------------------
(* Properties *)

Steps ==
  {"idle", "failed", "gone", "text", "media", "gallery", "gallery_runs", "yt-dlp",
   "yt-dlp_runs", "api", "export", "folder", "next_file", "drive", "attach", "attaching",
   "page", "page_again", "export_again", "found", "saving", "streaming", "playlist", "parts",
   "embeds", "shell", "render", "lookup"}

Asking ==
  {"gallery", "yt-dlp", "api", "export", "export_again", "folder", "next_file", "drive", "page",
   "page_again", "found", "saving", "playlist", "embeds", "shell", "render", "lookup"}

Ways ==
  [archived : BOOLEAN, fallback : BOOLEAN, found : BOOLEAN,
   second : BOOLEAN, all : BOOLEAN, hop : BOOLEAN, thin : {"text", "shell"},
   left : 0 .. MaxParts, read : 0 .. MaxParts, rest : 0 .. MaxParts,
   name : Names \cup {None}, doc : Docs \cup {None}, made : SUBSET (Names \X Docs)]

TypeOK ==
  /\ link \in Links /\ tries \in [Items -> 0 .. MaxAttempts]
  /\ settled \in [Items -> {"open", "text", "media", "given_up"}]
  /\ cur \in Items \cup {None} /\ at \in Steps /\ why \in Ways
  /\ cur = None <=> at = "idle"
  /\ dir \in [Items -> SUBSET MediaFiles] /\ refusal \subseteq Refusers
  /\ files \in [Names -> Docs \cup {None, Torn}]
  /\ embeds \in [Items -> SUBSET (Names \X Docs)]

\* What may still be asked after a no. After the last one about the link - of a downloader,
\* a post that is gone, a page, its rendering, an export, a file or a folder - nothing.
\* After a 403 the same once more, as a bot. After one file's of a folder the other files.
\* After an interface's the page, and what that leads to. After an embed's the other
\* embeds, what the page says, its rendering - but neither the page again nor the archive,
\* unless the post behind another embed failed and its own page is read.
MayAsk(no) ==
  LET page == Asking \ {"api", "export", "export_again", "folder", "drive", "next_file"}
  IN  CASE no = "site" -> {}
        [] no = "browser" -> {"page_again", "export_again"}
        [] no = "file" -> {"drive", "next_file"}
        [] no = "api" -> page
        [] no = "embed" -> IF why.fallback THEN page ELSE page \ {"page", "page_again", "lookup"}

\* Whoever says no in an attempt - a 401, 403 or 429, a challenge, a login wall, a post that
\* is gone - is not gone round: through page, archive, browser, second tool, fallback and
\* folder, only what MayAsk names is still asked.
NothingAfterNo == at \in Asking => \A no \in refusal : at \in MayAsk(no)

\* Media that is handed on is complete, and all of it of one source: nothing of an earlier
\* attempt, of the tool tried first, or of an embed that broke off is among it.
WholeMedia ==
  at = "media" => \E source \in Sources : dir[cur] = {Whole(source)}

\* An attachment some note embeds is never replaced by another document, whatever names
\* documents have, and whoever is killed while writing (that may leave it torn: a document
\* with the same bytes is written over it in place).
AttachmentsKept ==
  [][\A i \in Items : \A embed \in embeds[i] :
       files'[embed[1]] \in {files[embed[1]], Torn, embed[2]}]_vars

================================================================================
