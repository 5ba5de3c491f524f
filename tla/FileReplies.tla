----------------------------- MODULE FileReplies -----------------------------
(***************************************************************************)
(* reply_file_to_user of ChannelHub and of the drivers that have it: QQ    *)
(* uploads from a URL, inline or in the parts the platform plans, Feishu,  *)
(* Slack and WeClaw upload and then post a message, Telegram and Discord   *)
(* post the bytes with the message. A request that fails may have been     *)
(* carried out.                                                            *)
(***************************************************************************)
EXTENDS Naturals, Sequences, FiniteSets

CONSTANTS
  Total,     \* bytes of the file
  MaxParts,  \* bound: parts of QQ's plan
  Retries    \* QQ_CHUNK_UPLOAD_MAX_RETRIES, and WeClaw's three attempts less one

ASSUME FileConstants == Total \in Nat \ {0} /\ MaxParts \in Nat /\ Retries \in Nat

VARIABLES
  driver,
  payload,   \* "url", or bytes, "small" enough for one request of QQ or "large"
  wanted,    \* 1 if there is a caption
  step,      \* the request under way
  plan,      \* QQ: the parts' block sizes, 0 if missing
  lacking,   \* QQ: the parts of the plan without part_index or presigned_url
  block,     \* QQ: the plan's own block_size, 0 if missing
  part,      \* QQ: the part being sent
  offset,    \* QQ: where it ends
  slice,     \* QQ: its bytes
  tries,     \* attempt
  late,      \* QQ: the window for upload_part_finish has passed
  have,      \* the bytes the platform holds
  finished,  \* QQ: the parts the platform has accepted
  posts,     \* messages with the file
  captions,
  misses,    \* history: how often the request under way has failed
  final      \* history: a request failed that is not tried again

input == <<driver, payload, wanted>>
upload == <<plan, lacking, block, part, offset, slice, late, finished>>
shown == <<have, posts, captions>>
counts == <<tries, misses>>
vars == <<input, step, upload, shown, counts, final>>

Drivers == {"qq", "feishu", "slack", "weclaw", "telegram", "discord"}
File == 1..Total
Plans == UNION {[1..n -> 0..Total] : n \in 0..MaxParts}

\* The first step: what QQ and Telegram take from a URL or in one piece they do
\* not resolve.
First(d, p) ==
  CASE d = "qq" -> IF p = "large" THEN "prepare" ELSE "files"
    [] d = "telegram" -> "announce"
    [] OTHER -> "resolve"

Init ==
  /\ driver \in Drivers
  /\ payload \in {"url", "small", "large"}
  /\ wanted \in {0, 1}
  /\ step = First(driver, payload)
  /\ plan = <<>>
  /\ lacking = {}
  /\ block = 0
  /\ part = 1
  /\ offset = 0
  /\ slice = {}
  /\ tries = 0
  /\ late = FALSE
  /\ have = {}
  /\ finished = {}
  /\ posts = 0
  /\ captions = 0
  /\ misses = 0
  /\ final = FALSE

\* `?` on a request that failed.
GiveUp ==
  /\ step' = "error"
  /\ final' = TRUE

\* The next request begins with a fresh counter.
Enter(next) ==
  /\ step' = next
  /\ tries' = 0
  /\ misses' = 0
  /\ UNCHANGED final

\* The retry loops: give up after the last attempt.
Again(missed) ==
  /\ misses' = IF missed THEN misses + 1 ELSE misses
  /\ IF tries >= Retries
       THEN step' = "error" /\ UNCHANGED tries
       ELSE tries' = tries + 1 /\ UNCHANGED step
  /\ UNCHANGED final

\* resolve_to_bytes: a download may fail; bytes are there.
Resolve ==
  /\ step = "resolve"
  /\ \/ Enter(IF driver = "discord" THEN "announce" ELSE IF driver = "feishu" THEN "upload" ELSE "ask")
     \/ payload = "url" /\ GiveUp /\ UNCHANGED counts
  /\ UNCHANGED <<input, upload, shown>>

\* Slack's upload URL; WeClaw's upload parameter, for which a context token must
\* be there.
AskForUpload ==
  /\ step = "ask"
  /\ \/ Enter(IF driver = "slack" THEN "upload" ELSE "cdn")
     \/ GiveUp /\ UNCHANGED counts
  /\ UNCHANGED <<input, upload, shown>>

\* The bytes in one request: Feishu's image or file, Slack's PUT, and QQ's /files
\* with a URL or the bytes inline.
UploadAtOnce ==
  /\ step \in {"upload", "files"}
  /\ \/ Enter("announce") /\ have' = File
     \/ GiveUp /\ have' \in {have, File} /\ UNCHANGED counts
  /\ UNCHANGED <<input, upload, posts, captions>>

\* upload_to_cdn: three attempts, but a client error or a reply without the
\* parameter ends it.
UploadToCdn ==
  /\ step = "cdn"
  /\ \/ Enter("announce") /\ have' = File
     \/ Again(TRUE) /\ have' \in {have, File}
     \/ GiveUp /\ have' \in {have, File} /\ UNCHANGED counts
  /\ UNCHANGED <<input, upload, posts, captions>>

(* ---- QQ's upload in parts ---- *)

BlockSize(i) == IF plan[i] > 0 THEN plan[i] ELSE block

\* upload_prepare: the platform plans the parts; what a part must say is looked for
\* when it is its turn.
Prepare ==
  /\ step = "prepare"
  /\ \/ /\ plan' \in Plans
        /\ lacking' \in SUBSET DOMAIN plan'
        /\ block' \in 0..Total
        /\ Enter(IF plan' = <<>> THEN "complete" ELSE "part")
     \/ GiveUp /\ UNCHANGED <<plan, lacking, block, counts>>
  /\ UNCHANGED <<input, part, offset, slice, late, finished, shown>>

\* Mutant: the end of the file is forgotten.
Lesser_First(a, b) == a

Lesser(a, b) == IF a < b THEN a ELSE b

Unusable(i) == i \in lacking \/ BlockSize(i) = 0

\* Mutant: a slice leaves its last byte to the next.
Slice_Short ==
  /\ step = "part"
  /\ IF Unusable(part) \/ offset >= Total
       THEN step' = "error" /\ UNCHANGED <<offset, slice, counts, final>>
       ELSE /\ offset' = Lesser(offset + BlockSize(part), Total)
            /\ slice' = (offset + 1)..(offset' - 1)
            /\ Enter("put")
  /\ UNCHANGED <<input, plan, lacking, block, part, late, finished, shown>>

\* The next slice, unless the part says too little or the file is used up.
Slice ==
  /\ step = "part"
  /\ IF Unusable(part) \/ offset >= Total
       THEN step' = "error" /\ UNCHANGED <<offset, slice, counts, final>>
       ELSE /\ offset' = Lesser(offset + BlockSize(part), Total)
            /\ slice' = (offset + 1)..offset'
            /\ Enter("put")
  /\ UNCHANGED <<input, plan, lacking, block, part, late, finished, shown>>

PutPart ==
  /\ step = "put"
  /\ \/ Enter("finish") /\ have' = have \cup slice
     \/ Again(TRUE) /\ have' \in {have, have \cup slice}
  /\ UNCHANGED <<input, upload, posts, captions>>

\* upload_part_finish: accepted; still being verified, and asked again while the
\* window is open; or refused.
PartFinish ==
  /\ step = "finish"
  /\ \/ /\ Enter(IF part < Len(plan) THEN "part" ELSE "complete")
        /\ finished' = finished \cup {part}
        /\ part' = part + 1
        /\ late' = FALSE
     \/ late /\ step' = "error" /\ UNCHANGED <<finished, part, late, counts, final>>
     \/ GiveUp /\ UNCHANGED <<finished, part, late, counts>>
  /\ UNCHANGED <<input, plan, lacking, block, offset, slice, shown>>

\* The deadline of part_finish.
WindowPasses ==
  /\ step = "finish"
  /\ ~late
  /\ late' = TRUE
  /\ UNCHANGED <<input, step, plan, lacking, block, part, offset, slice, finished, shown, counts, final>>

\* /files with the upload's id. The platform knows the file's size and digests and
\* refuses what is not all there; the driver tries again all the same.
AllThere == have = File /\ finished = DOMAIN plan

Complete ==
  /\ step = "complete"
  /\ \/ AllThere /\ Enter("announce")
     \/ Again(AllThere)
  /\ UNCHANGED <<input, upload, shown>>

(* ---- the message ---- *)

\* Feishu and WeClaw post the caption as a message of its own; Telegram and
\* Discord post the bytes with the message.
CaptionApart == driver \in {"feishu", "weclaw"}
Announced ==
  /\ posts' = posts + 1
  /\ captions' = IF CaptionApart THEN captions ELSE wanted
  /\ have' = IF driver \in {"telegram", "discord"} THEN File ELSE have

\* Mutant: a message that failed is posted again.
Announce_Again ==
  /\ step = "announce"
  /\ \/ Announced /\ Enter(IF CaptionApart /\ wanted = 1 THEN "caption" ELSE "ok")
     \/ (Announced \/ UNCHANGED shown) /\ Again(TRUE)
  /\ UNCHANGED <<input, upload>>

Announce ==
  /\ step = "announce"
  /\ \/ Announced /\ Enter(IF CaptionApart /\ wanted = 1 THEN "caption" ELSE "ok")
     \/ (Announced \/ UNCHANGED shown) /\ GiveUp /\ UNCHANGED counts
  /\ UNCHANGED <<input, upload>>

Caption ==
  /\ step = "caption"
  /\ \/ Enter("ok") /\ captions' = 1
     \/ GiveUp /\ captions' \in {0, 1} /\ UNCHANGED counts
  /\ UNCHANGED <<input, upload, have, posts>>

(* ---- the drivers ---- *)

Qq == driver = "qq" /\ (UploadAtOnce \/ Prepare \/ Slice \/ PutPart \/ PartFinish \/ Complete \/ Announce)
Feishu == driver = "feishu" /\ (Resolve \/ UploadAtOnce \/ Announce \/ Caption)
Slack == driver = "slack" /\ (Resolve \/ AskForUpload \/ UploadAtOnce \/ Announce)
Weclaw == driver = "weclaw" /\ (Resolve \/ AskForUpload \/ UploadToCdn \/ Announce \/ Caption)
Telegram == driver = "telegram" /\ Announce
Discord == driver = "discord" /\ (Resolve \/ Announce)

Step == Qq \/ Feishu \/ Slack \/ Weclaw \/ Telegram \/ Discord

Next == Step \/ WindowPasses

Spec == Init /\ [][Next]_vars

\* Requests are answered or fail.
FairSpec == Spec /\ WF_vars(Step)

(* ---- properties ---- *)

TypeOK ==
  /\ driver \in Drivers
  /\ payload \in {"url", "small", "large"}
  /\ wanted \in {0, 1}
  /\ step \in {"resolve", "ask", "upload", "files", "cdn", "prepare", "part", "put", "finish",
               "complete", "announce", "caption", "ok", "error"}
  /\ plan \in Plans
  /\ lacking \subseteq DOMAIN plan
  /\ block \in 0..Total
  /\ part \in 1..(Len(plan) + 1)
  /\ offset \in 0..Total
  /\ slice \subseteq File
  /\ tries \in 0..Retries
  /\ late \in BOOLEAN
  /\ have \subseteq File
  /\ finished \subseteq DOMAIN plan
  /\ posts \in 0..1
  /\ captions \in 0..wanted
  /\ misses \in 0..(Retries + 1)
  /\ final \in BOOLEAN

\* The bytes that the first i parts ask for.
Sent(i) == Cardinality({b \in (1..i) \X (1..Total) : b[2] <= BlockSize(b[1])})

\* A plan the code can follow: every part has its index, its URL and a size, none
\* begins behind the end of the file, together they hold it.
Sound ==
  /\ \A i \in DOMAIN plan : ~Unusable(i) /\ Sent(i - 1) < Total
  /\ Sent(Len(plan)) >= Total

\* An upload gives up for a reason: a request failed that is not tried again or
\* failed more often than it is tried again, the window for a part passed, or the
\* plan does not fit the file. A file sent by a sound plan is never refused for a
\* byte that is missing.
FailsForAReason ==
  step = "error" => final \/ misses > Retries \/ late \/ (driver = "qq" /\ ~Sound)

\* The promise of a file reply, of whatever bytes the payload gave.
Reply == INSTANCE FileReply WITH
  outcome <- IF step \in {"ok", "error"} THEN step ELSE "none"

KeepsPromise == Reply!Spec
=============================================================================
