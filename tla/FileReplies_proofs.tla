-------------------------- MODULE FileReplies_proofs --------------------------
(***************************************************************************)
(* Proofs about file replies (reply_file_to_user), for files of any size,  *)
(* plans of any number of parts and any number of retries: types, why an   *)
(* upload gives up, and the safety half of the refinement of FileReply.    *)
(*                                                                         *)
(* The inductive invariant FileInv counts the failures of a request that   *)
(* is tried again (RetryInv), follows QQ's offset along the plan with the  *)
(* bytes behind it (PartInv), and says what the chat shows in each step    *)
(* (ShownInv).                                                             *)
(***************************************************************************)
EXTENDS FileReplies, FiniteSetTheorems, TLAPS

\* Where the first i parts end, as the driver cuts the file.
Cut(i) == Lesser(Sent(i), Total)

\* Each failure was followed by an attempt, at /files as long as all is there.
RetryInv ==
  /\ step # "error" => misses <= tries
  /\ step \in {"cdn", "put"} \/ (step = "complete" /\ AllThere) => misses = tries

\* QQ's loop over the parts: those before `part` are accepted, and the platform has
\* all bytes up to where they end.
PartInv ==
  /\ step = "prepare" => part = 1 /\ offset = 0 /\ finished = {} /\ plan = <<>>
  /\ step \in {"part", "put", "finish"} => part \in DOMAIN plan /\ finished = 1..(part - 1)
  /\ step = "part" => offset = Cut(part - 1) /\ 1..offset \subseteq have
  /\ step \in {"put", "finish"} =>
       /\ offset = Cut(part)
       /\ 1..Cut(part - 1) \subseteq have
       /\ slice = (Cut(part - 1) + 1)..offset
  /\ step = "finish" => 1..offset \subseteq have
  /\ step = "complete" =>
       offset = Cut(Len(plan)) /\ 1..offset \subseteq have /\ finished = DOMAIN plan

\* Nothing is shown before the message is posted, which carries the whole file.
ShownInv ==
  /\ step \notin {"caption", "ok", "error"} => posts = 0 /\ captions = 0
  /\ step = "announce" => have = File \/ driver \in {"telegram", "discord"}
  /\ step = "caption" => posts = 1 /\ captions = 0 /\ wanted = 1
  /\ step = "ok" => posts = 1 /\ captions = wanted
  /\ posts > 0 => have = File
  /\ captions > 0 => posts > 0

\* The inductive invariant.
FileInv == TypeOK /\ FailsForAReason /\ RetryInv /\ PartInv /\ ShownInv

-----------------------------------------------------------------------------
(* ---- the plan ---- *)

\* A function on 1..n is a sequence.
LEMMA IsSequence ==
  ASSUME NEW S, NEW n \in Nat, NEW s \in [1..n -> S]
  PROVE  s \in Seq(S) /\ Len(s) = n
  OBVIOUS

\* A plan is a sequence of sizes.
LEMMA PlanFacts ==
  ASSUME TypeOK
  PROVE  /\ Len(plan) \in Nat /\ DOMAIN plan = 1..Len(plan)
         /\ \A i \in DOMAIN plan : plan[i] \in 0..Total
         /\ \A i \in DOMAIN plan : BlockSize(i) \in 0..Total
         /\ Total \in Nat \ {0} /\ Retries \in Nat
<1>1. PICK n \in 0..MaxParts : plan \in [1..n -> 0..Total]
  BY DEF TypeOK, Plans
<1>2. n \in Nat /\ MaxParts \in Nat
  BY FileConstants
<1>3. plan \in Seq(0..Total) /\ Len(plan) = n
  BY <1>1, <1>2, IsSequence
<1>4. Len(plan) \in Nat /\ DOMAIN plan = 1..Len(plan) /\ \A i \in DOMAIN plan : plan[i] \in 0..Total
  BY <1>1, <1>2, <1>3
<1>5. Total \in Nat \ {0} /\ Retries \in Nat /\ block \in 0..Total
  BY FileConstants DEF TypeOK
<1> QED
  BY <1>4, <1>5 DEF BlockSize

\* The bytes of the first i parts, one by one.
Bytes(i) == {b \in (1..i) \X (1..Total) : b[2] <= BlockSize(b[1])}

\* They are finitely many.
LEMMA BytesFinite ==
  ASSUME NEW i \in Nat
  PROVE  IsFiniteSet(Bytes(i)) /\ Sent(i) = Cardinality(Bytes(i)) /\ Sent(i) \in Nat
<1>1. IsFiniteSet(1..i) /\ IsFiniteSet(1..Total)
  BY FS_Interval, FileConstants
<1>2. IsFiniteSet((1..i) \X (1..Total))
  BY <1>1, FS_Product
<1>3. Bytes(i) \subseteq (1..i) \X (1..Total)
  BY DEF Bytes
<1>4. IsFiniteSet(Bytes(i))
  BY <1>2, <1>3, FS_Subset
<1>5. Sent(i) = Cardinality(Bytes(i))
  BY DEF Sent, Bytes
<1> QED
  BY <1>4, <1>5, FS_CardinalityType

\* Sent adds up the sizes.
LEMMA SentAddsUp ==
  ASSUME TypeOK
  PROVE  /\ Sent(0) = 0
         /\ \A i \in DOMAIN plan : Sent(i) = Sent(i - 1) + BlockSize(i) /\ Sent(i - 1) \in Nat /\ Sent(i) \in Nat
<1>1. Sent(0) = 0
  <2>1. Bytes(0) = {}
    <3>1. 1..0 = {}
      OBVIOUS
    <3> QED
      BY <3>1 DEF Bytes
  <2> QED
    BY <2>1, BytesFinite, FS_EmptySet
<1>2. ASSUME NEW i \in DOMAIN plan
      PROVE  Sent(i) = Sent(i - 1) + BlockSize(i) /\ Sent(i - 1) \in Nat /\ Sent(i) \in Nat
  <2> DEFINE own == {i} \X (1..BlockSize(i))
  <2>1. i \in Nat /\ i - 1 \in Nat /\ i >= 1 /\ BlockSize(i) \in 0..Total /\ Total \in Nat /\ BlockSize(i) \in Nat
    BY PlanFacts
  <2>2. IsFiniteSet(own) /\ Cardinality(own) = BlockSize(i)
    <3>1. IsFiniteSet(1..BlockSize(i)) /\ Cardinality(1..BlockSize(i)) = BlockSize(i)
      <4> DEFINE k == BlockSize(i)
      <4>1. k \in Nat
        BY <2>1
      <4> HIDE DEF k
      <4>2. IsFiniteSet(1..k) /\ Cardinality(1..k) = k
        BY <4>1, FS_Interval
      <4> QED
        BY <4>2 DEF k
    <3>2. IsFiniteSet({i}) /\ Cardinality({i}) = 1
      BY FS_Singleton
    <3>3. IsFiniteSet(own) /\ Cardinality(own) = Cardinality({i}) * Cardinality(1..BlockSize(i))
      BY <3>1, <3>2, FS_Product
    <3> QED
      BY <2>1, <3>1, <3>2, <3>3
  <2>3. Bytes(i) = Bytes(i - 1) \cup own
    <3>1. \A b \in Bytes(i) : b \in Bytes(i - 1) \/ b \in own
      <4>1. TAKE b \in Bytes(i)
      <4>2. PICK j \in 1..i, n \in 1..Total : b = <<j, n>> /\ n <= BlockSize(j)
        BY DEF Bytes
      <4>3. CASE j = i
        BY <2>1, <4>2, <4>3
      <4>4. CASE j # i
        BY <2>1, <4>2, <4>4 DEF Bytes
      <4> QED
        BY <4>3, <4>4
    <3>2. \A b \in Bytes(i - 1) : b \in Bytes(i)
      BY <2>1 DEF Bytes
    <3>3. \A b \in own : b \in Bytes(i)
      BY <2>1 DEF Bytes
    <3> QED
      BY <3>1, <3>2, <3>3
  <2>4. Bytes(i - 1) \cap own = {}
    BY <2>1 DEF Bytes
  <2>5. IsFiniteSet(Bytes(i - 1)) /\ Sent(i - 1) = Cardinality(Bytes(i - 1)) /\ Sent(i - 1) \in Nat
    BY <2>1, BytesFinite
  <2>6. Sent(i) = Cardinality(Bytes(i)) /\ Sent(i) \in Nat
    BY <2>1, BytesFinite
  <2>7. Cardinality(Bytes(i - 1) \cup own) = Cardinality(Bytes(i - 1)) + Cardinality(own) - Cardinality({})
    BY <2>2, <2>4, <2>5, FS_Union
  <2> QED
    BY <2>1, <2>2, <2>3, <2>5, <2>6, <2>7, FS_EmptySet
<1> QED
  BY <1>1, <1>2

\* A cut lies within the file, the first one at its start.
LEMMA CutFacts ==
  ASSUME TypeOK
  PROVE  /\ Cut(0) = 0
         /\ \A i \in DOMAIN plan :
              /\ Cut(i) = Lesser(Cut(i - 1) + BlockSize(i), Total)
              /\ Cut(i - 1) \in 0..Total /\ Cut(i) \in 0..Total /\ Cut(i - 1) <= Cut(i)
              /\ Sent(i - 1) < Total => Cut(i - 1) < Total
         /\ Sent(Len(plan)) >= Total => Cut(Len(plan)) = Total
<1>1. Total \in Nat \ {0} /\ Sent(0) = 0
  BY PlanFacts, SentAddsUp
<1>2. Cut(0) = 0
  BY <1>1 DEF Cut, Lesser
<1>3. ASSUME NEW i \in DOMAIN plan
      PROVE  /\ Cut(i) = Lesser(Cut(i - 1) + BlockSize(i), Total)
             /\ Cut(i - 1) \in 0..Total /\ Cut(i) \in 0..Total /\ Cut(i - 1) <= Cut(i)
             /\ Sent(i - 1) < Total => Cut(i - 1) < Total
  <2>1. Sent(i) = Sent(i - 1) + BlockSize(i) /\ Sent(i - 1) \in Nat /\ Sent(i) \in Nat /\ BlockSize(i) \in Nat
    BY SentAddsUp, PlanFacts
  <2> QED
    BY <1>1, <2>1 DEF Cut, Lesser
<1>4. ASSUME Sent(Len(plan)) >= Total PROVE Cut(Len(plan)) = Total
  <2>1. Sent(Len(plan)) \in Nat
    BY PlanFacts, BytesFinite
  <2> QED
    BY <1>1, <1>4, <2>1 DEF Cut, Lesser
<1> QED
  BY <1>2, <1>3, <1>4

-----------------------------------------------------------------------------
(* ---- what a step does to the promise and to the counters ---- *)

\* A step before the end, after which the platform has and shows no less.
Onward ==
  /\ step \notin {"ok", "error"} /\ wanted' = wanted
  /\ have \subseteq have' /\ posts <= posts' /\ captions <= captions'

\* Such a step is one of FileReply's.
LEMMA OnwardProceeds ==
  ASSUME TypeOK, TypeOK', ShownInv', Onward
  PROVE  Reply!Proceed
<1>1. posts' \in posts..1 /\ captions' \in captions..wanted
  BY SMTT(30) DEF TypeOK, Onward
<1>2. /\ posts' > 0 => have' = File
      /\ captions' > 0 => posts' > 0
      /\ step' = "ok" => posts' = 1 /\ captions' = wanted
  BY DEF ShownInv, Onward
<1>3. have' \subseteq File
  BY DEF TypeOK
<1> QED
  BY <1>1, <1>2, <1>3 DEF Reply!Proceed, Onward

\* What each action has to show.
Kept == FileInv' /\ Onward

\* The parts that a step with no error leaves to be shown.
LEMMA NoError ==
  ASSUME step' # "error"
  PROVE  FailsForAReason'
  BY DEF FailsForAReason

\* Entering a request resets its counters.
LEMMA Entered ==
  ASSUME TypeOK, NEW next, Enter(next), next # "error"
  PROVE  /\ RetryInv' /\ FailsForAReason'
         /\ step' = next /\ tries' \in 0..Retries /\ misses' \in 0..(Retries + 1) /\ final' \in BOOLEAN
<1>1. step' = next /\ tries' = 0 /\ misses' = 0 /\ final' = final
  BY DEF Enter
<1>2. Retries \in Nat
  BY FileConstants
<1> QED
  BY <1>1, <1>2 DEF RetryInv, FailsForAReason, TypeOK

\* A request that fails for good gives the reason.
LEMMA GivenUp ==
  ASSUME TypeOK, GiveUp, UNCHANGED counts
  PROVE  /\ RetryInv' /\ FailsForAReason'
         /\ step' = "error" /\ tries' \in 0..Retries /\ misses' \in 0..(Retries + 1) /\ final' \in BOOLEAN
  BY DEF GiveUp, counts, RetryInv, FailsForAReason, TypeOK

\* So does one that is not tried once more.
LEMMA TriedAgain ==
  ASSUME TypeOK, Again(TRUE), misses = tries
  PROVE  /\ step' = step \/ (step' = "error" /\ FailsForAReason')
         /\ step' # "error" => misses' = tries'
         /\ tries' \in 0..Retries /\ misses' \in 0..(Retries + 1) /\ final' \in BOOLEAN
<1>1. Retries \in Nat /\ tries \in 0..Retries /\ final \in BOOLEAN
  BY FileConstants DEF TypeOK
<1>2. misses' = misses + 1 /\ final' = final
  BY DEF Again
<1>3. CASE tries >= Retries
  BY <1>1, <1>2, <1>3 DEF Again, FailsForAReason
<1>4. CASE ~(tries >= Retries)
  BY <1>1, <1>2, <1>4 DEF Again
<1> QED
  BY <1>3, <1>4

-----------------------------------------------------------------------------
(* ---- every driver's requests ---- *)

\* resolve_to_bytes.
LEMMA ResolveKeeps ==
  ASSUME FileInv, Resolve
  PROVE  Kept
<1> USE DEF FileInv
<1>1. /\ step = "resolve" /\ UNCHANGED input /\ UNCHANGED upload /\ UNCHANGED shown
  BY DEF Resolve
<1>2. /\ RetryInv' /\ FailsForAReason' /\ tries' \in 0..Retries /\ misses' \in 0..(Retries + 1) /\ final' \in BOOLEAN
      /\ step' \in {"announce", "upload", "ask", "error"} /\ (step' = "announce" => driver = "discord")
  BY Entered, GivenUp DEF Resolve
<1>3. TypeOK'
  BY <1>1, <1>2 DEF TypeOK, input, upload, shown, BlockSize
<1>4. PartInv'
  BY <1>2 DEF PartInv
<1>5. ShownInv'
  BY <1>1, <1>2 DEF ShownInv, input, shown
<1> QED
  BY <1>1, <1>2, <1>3, <1>4, <1>5 DEF Kept, Onward, shown, input, TypeOK

\* getUploadURLExternal and getuploadurl.
LEMMA AskKeeps ==
  ASSUME FileInv, AskForUpload
  PROVE  Kept
<1> USE DEF FileInv
<1>1. /\ step = "ask" /\ UNCHANGED input /\ UNCHANGED upload /\ UNCHANGED shown
  BY DEF AskForUpload
<1>2. /\ RetryInv' /\ FailsForAReason' /\ tries' \in 0..Retries /\ misses' \in 0..(Retries + 1) /\ final' \in BOOLEAN
      /\ step' \in {"upload", "cdn", "error"}
  BY Entered, GivenUp DEF AskForUpload
<1>3. TypeOK'
  BY <1>1, <1>2 DEF TypeOK, input, upload, shown
<1>4. PartInv'
  BY <1>2 DEF PartInv
<1>5. ShownInv'
  BY <1>1, <1>2 DEF ShownInv, input, shown
<1> QED
  BY <1>1, <1>2, <1>3, <1>4, <1>5 DEF Kept, Onward, shown, input, TypeOK

\* The bytes in one request.
LEMMA UploadKeeps ==
  ASSUME FileInv, UploadAtOnce
  PROVE  Kept
<1> USE DEF FileInv
<1>1. /\ step \in {"upload", "files"} /\ UNCHANGED input /\ UNCHANGED upload /\ UNCHANGED <<posts, captions>>
      /\ have' \in {have, File}
  BY DEF UploadAtOnce
<1>2. /\ RetryInv' /\ FailsForAReason' /\ tries' \in 0..Retries /\ misses' \in 0..(Retries + 1) /\ final' \in BOOLEAN
      /\ step' \in {"announce", "error"} /\ (step' = "announce" => have' = File)
  BY Entered, GivenUp DEF UploadAtOnce
<1>3. TypeOK'
  BY <1>1, <1>2 DEF TypeOK, input, upload
<1>4. PartInv'
  BY <1>2 DEF PartInv
<1>5. ShownInv'
  BY <1>1, <1>2 DEF ShownInv, input
<1> QED
  BY <1>1, <1>2, <1>3, <1>4, <1>5 DEF Kept, Onward, input, TypeOK

\* upload_to_cdn with its three attempts.
LEMMA CdnKeeps ==
  ASSUME FileInv, UploadToCdn
  PROVE  Kept
<1> USE DEF FileInv
<1>1. /\ step = "cdn" /\ UNCHANGED input /\ UNCHANGED upload /\ UNCHANGED <<posts, captions>>
      /\ have' \in {have, File} /\ misses = tries
  BY DEF UploadToCdn, RetryInv
<1>2. /\ FailsForAReason' /\ tries' \in 0..Retries /\ misses' \in 0..(Retries + 1) /\ final' \in BOOLEAN
      /\ step' \in {"announce", "cdn", "error"} /\ (step' = "announce" => have' = File) /\ RetryInv'
  <2>1. CASE Enter("announce") /\ have' = File
    BY <2>1, Entered
  <2>2. CASE Again(TRUE)
    BY <1>1, <2>2, TriedAgain, NoError DEF RetryInv, TypeOK
  <2>3. CASE GiveUp /\ UNCHANGED counts
    BY <2>3, GivenUp
  <2> QED
    BY <2>1, <2>2, <2>3 DEF UploadToCdn
<1>3. TypeOK'
  BY <1>1, <1>2 DEF TypeOK, input, upload
<1>4. PartInv'
  BY <1>2 DEF PartInv
<1>5. ShownInv'
  BY <1>1, <1>2 DEF ShownInv, input
<1> QED
  BY <1>1, <1>2, <1>3, <1>4, <1>5 DEF Kept, Onward, input, TypeOK

\* The message with the file.
LEMMA AnnounceKeeps ==
  ASSUME FileInv, Announce
  PROVE  Kept
<1> USE DEF FileInv
<1>1. /\ step = "announce" /\ UNCHANGED input /\ UNCHANGED upload /\ posts = 0 /\ captions = 0
      /\ wanted \in {0, 1}
  BY DEF Announce, ShownInv, TypeOK
<1>2. \/ posts' = 1 /\ captions' = (IF CaptionApart THEN 0 ELSE wanted) /\ have' = File
      \/ posts' = 0 /\ captions' = 0 /\ have' = have
  <2>1. CASE Announced
    BY <1>1, <2>1 DEF Announced, ShownInv
  <2> QED
    BY <1>1, <2>1 DEF Announce, shown
<1>3. /\ RetryInv' /\ FailsForAReason' /\ tries' \in 0..Retries /\ misses' \in 0..(Retries + 1) /\ final' \in BOOLEAN
      /\ step' \in {"caption", "ok", "error"}
      /\ step' # "error" => posts' = 1 /\ step' = IF CaptionApart /\ wanted = 1 THEN "caption" ELSE "ok"
  BY <1>1, Entered, GivenUp DEF Announce, Announced
<1>4. TypeOK'
  BY <1>1, <1>2, <1>3 DEF TypeOK, input, upload
<1>5. PartInv'
  BY <1>3 DEF PartInv
<1>6. ShownInv'
  BY <1>1, <1>2, <1>3 DEF ShownInv, input
<1>7. have \subseteq have'
  BY <1>2 DEF TypeOK
<1> QED
  BY <1>1, <1>2, <1>3, <1>4, <1>5, <1>6, <1>7 DEF Kept, Onward, input

\* The caption as a message of its own.
LEMMA CaptionKeeps ==
  ASSUME FileInv, Caption
  PROVE  Kept
<1> USE DEF FileInv
<1>1. /\ step = "caption" /\ UNCHANGED input /\ UNCHANGED upload /\ UNCHANGED <<have, posts>>
      /\ posts = 1 /\ captions = 0 /\ wanted = 1 /\ captions' \in {0, 1}
  BY DEF Caption, ShownInv
<1>2. /\ RetryInv' /\ FailsForAReason' /\ tries' \in 0..Retries /\ misses' \in 0..(Retries + 1) /\ final' \in BOOLEAN
      /\ step' \in {"ok", "error"} /\ (step' = "ok" => captions' = 1)
  BY Entered, GivenUp DEF Caption
<1>3. TypeOK'
  BY <1>1, <1>2 DEF TypeOK, input, upload
<1>4. PartInv'
  BY <1>2 DEF PartInv
<1>5. ShownInv'
  BY <1>1, <1>2 DEF ShownInv, input
<1> QED
  BY <1>1, <1>2, <1>3, <1>4, <1>5 DEF Kept, Onward, input

-----------------------------------------------------------------------------
(* ---- QQ's upload in parts ---- *)

\* The cuts stay where the plan has them.
LEMMA PlanSame ==
  ASSUME UNCHANGED <<plan, lacking, block>>
  PROVE  /\ \A i : BlockSize(i)' = BlockSize(i) /\ Sent(i)' = Sent(i) /\ Cut(i)' = Cut(i)
         /\ Sound' <=> Sound
<1>1. \A i : BlockSize(i)' = BlockSize(i)
  BY DEF BlockSize
<1>2. \A i : Sent(i)' = Sent(i)
  BY <1>1 DEF Sent
<1> QED
  BY <1>1, <1>2 DEF Cut, Sound, Unusable

\* upload_prepare brings the plan.
LEMMA PrepareKeeps ==
  ASSUME FileInv, Prepare
  PROVE  Kept
<1> USE DEF FileInv
<1>1. /\ step = "prepare" /\ UNCHANGED input /\ UNCHANGED <<part, offset, slice, late, finished>> /\ UNCHANGED shown
      /\ part = 1 /\ offset = 0 /\ finished = {} /\ plan = <<>>
  BY DEF Prepare, PartInv
<1>2. /\ RetryInv' /\ FailsForAReason' /\ tries' \in 0..Retries /\ misses' \in 0..(Retries + 1) /\ final' \in BOOLEAN
      /\ step' \in {"complete", "part", "error"}
      /\ step' # "error" => step' = IF plan' = <<>> THEN "complete" ELSE "part"
      /\ plan' \in Plans /\ lacking' \subseteq DOMAIN plan' /\ block' \in 0..Total
  <2>1. CASE plan' \in Plans /\ lacking' \in SUBSET DOMAIN plan' /\ block' \in 0..Total
             /\ Enter(IF plan' = <<>> THEN "complete" ELSE "part")
    BY <2>1, Entered
  <2>2. CASE GiveUp /\ UNCHANGED <<plan, lacking, block, counts>>
    BY <2>2, GivenUp DEF TypeOK
  <2> QED
    BY <2>1, <2>2 DEF Prepare
<1>3. TypeOK'
  <2>1. PICK n \in 0..MaxParts : plan' \in [1..n -> 0..Total]
    BY <1>2 DEF Plans
  <2>2. n \in Nat
    BY FileConstants
  <2>3. Len(plan') = n
    BY <2>1, <2>2, IsSequence
  <2>4. part' \in 1..(Len(plan') + 1) /\ finished' \subseteq DOMAIN plan'
    BY <1>1, <2>2, <2>3
  <2> QED
    BY <1>1, <1>2, <2>4 DEF TypeOK, input, shown
<1>4. PartInv'
  <2>1. Len(plan') \in Nat /\ DOMAIN plan' = 1..Len(plan') /\ Cut(0)' = 0
    <3>1. PICK n \in 0..MaxParts : plan' \in [1..n -> 0..Total]
      BY <1>2 DEF Plans
    <3>2. n \in Nat /\ Len(plan') = n
      BY <3>1, FileConstants, IsSequence
    <3>3. Sent(0)' = Cardinality({})
      <4>1. 1..0 = {}
        OBVIOUS
      <4> QED
        BY <4>1 DEF Sent
    <3>4. Cut(0)' = 0
      BY <3>3, FS_EmptySet, FileConstants DEF Cut, Lesser
    <3> QED
      BY <3>1, <3>2, <3>4
  <2>2. plan' = <<>> => Len(plan') = 0 /\ DOMAIN plan' = {}
    BY <2>1
  <2>3. plan' # <<>> => 1 \in DOMAIN plan'
    <3>1. PICK n \in 0..MaxParts : plan' \in [1..n -> 0..Total]
      BY <1>2 DEF Plans
    <3>2. n \in Nat /\ Len(plan') = n
      BY <3>1, FileConstants, IsSequence
    <3>3. CASE n = 0
      BY <3>1, <3>3
    <3>4. CASE n # 0
      BY <2>1, <3>2, <3>4
    <3> QED
      BY <3>3, <3>4
  <2>4. CASE step' = "complete"
    BY <1>1, <1>2, <2>1, <2>2, <2>4 DEF PartInv
  <2>5. CASE step' = "part"
    BY <1>1, <1>2, <2>1, <2>3, <2>5 DEF PartInv
  <2>6. CASE step' = "error"
    BY <2>6 DEF PartInv
  <2> QED
    BY <1>2, <2>4, <2>5, <2>6
<1>5. ShownInv'
  BY <1>1, <1>2 DEF ShownInv, input, shown
<1> QED
  BY <1>1, <1>2, <1>3, <1>4, <1>5 DEF Kept, Onward, input, shown, TypeOK

\* The next slice begins where the last one ended, or the plan was unsound.
LEMMA SliceKeeps ==
  ASSUME FileInv, Slice, driver = "qq"
  PROVE  Kept
<1> USE DEF FileInv
<1>1. /\ step = "part" /\ UNCHANGED input /\ UNCHANGED <<plan, lacking, block, part, late, finished>> /\ UNCHANGED shown
      /\ part \in DOMAIN plan /\ finished = 1..(part - 1) /\ offset = Cut(part - 1) /\ 1..offset \subseteq have
  BY DEF Slice, PartInv
<1>2. /\ part \in Nat /\ part >= 1 /\ BlockSize(part) \in 0..Total /\ Total \in Nat
      /\ Cut(part) = Lesser(Cut(part - 1) + BlockSize(part), Total)
      /\ Cut(part - 1) \in 0..Total /\ Cut(part) \in 0..Total
      /\ Sent(part - 1) < Total => Cut(part - 1) < Total
  BY <1>1, PlanFacts, CutFacts
<1>3. \A i : BlockSize(i)' = BlockSize(i) /\ Cut(i)' = Cut(i)
  BY <1>1, PlanSame
<1>4. Sound' <=> Sound
  BY <1>1, PlanSame
<1>5. CASE Unusable(part) \/ offset >= Total
  <2>1. step' = "error" /\ UNCHANGED <<offset, slice, counts, final>>
    BY <1>5 DEF Slice
  <2>2. ~Sound
    BY <1>1, <1>2, <1>5 DEF Sound
  <2>3. FailsForAReason'
    BY <1>1, <1>4, <2>1, <2>2 DEF FailsForAReason, input
  <2>4. TypeOK'
    BY <1>1, <2>1 DEF TypeOK, input, shown, counts
  <2>5. RetryInv' /\ PartInv' /\ ShownInv'
    BY <1>1, <2>1 DEF RetryInv, PartInv, ShownInv, input, shown
  <2> QED
    BY <1>1, <2>3, <2>4, <2>5 DEF Kept, Onward, input, shown, TypeOK
<1>6. CASE ~(Unusable(part) \/ offset >= Total)
  <2>1. /\ offset' = Lesser(offset + BlockSize(part), Total) /\ slice' = (offset + 1)..offset' /\ Enter("put")
    BY <1>6 DEF Slice
  <2>2. /\ RetryInv' /\ FailsForAReason' /\ step' = "put" /\ tries' \in 0..Retries /\ misses' \in 0..(Retries + 1)
        /\ final' \in BOOLEAN
    BY <2>1, Entered
  <2>3. offset' = Cut(part) /\ offset' \in 0..Total
    BY <1>1, <1>2, <2>1
  <2>4. slice' \subseteq File
    BY <1>1, <1>2, <2>1, <2>3 DEF File
  <2>5. TypeOK'
    BY <1>1, <2>2, <2>3, <2>4 DEF TypeOK, input, shown
  <2>6. PartInv'
    BY <1>1, <1>3, <2>1, <2>2, <2>3 DEF PartInv, shown
  <2>7. ShownInv'
    BY <1>1, <2>2 DEF ShownInv, input, shown
  <2> QED
    BY <1>1, <2>2, <2>5, <2>6, <2>7 DEF Kept, Onward, input, shown, TypeOK
<1> QED
  BY <1>5, <1>6

\* A part is sent, or sent again.
LEMMA PutKeeps ==
  ASSUME FileInv, PutPart
  PROVE  Kept
<1> USE DEF FileInv
<1>1. /\ step = "put" /\ UNCHANGED input /\ UNCHANGED <<plan, lacking, block, part, offset, slice, late, finished>>
      /\ UNCHANGED <<posts, captions>> /\ have' \in {have, have \cup slice} /\ misses = tries
      /\ part \in DOMAIN plan /\ finished = 1..(part - 1) /\ offset = Cut(part)
      /\ 1..Cut(part - 1) \subseteq have /\ slice = (Cut(part - 1) + 1)..offset
  BY DEF PutPart, PartInv, RetryInv, upload
<1>2. /\ FailsForAReason' /\ tries' \in 0..Retries /\ misses' \in 0..(Retries + 1) /\ final' \in BOOLEAN
      /\ step' \in {"finish", "put", "error"} /\ (step' = "finish" => have' = have \cup slice) /\ RetryInv'
  <2>1. CASE Enter("finish") /\ have' = have \cup slice
    BY <2>1, Entered
  <2>2. CASE Again(TRUE)
    BY <1>1, <2>2, TriedAgain, NoError DEF RetryInv, TypeOK
  <2> QED
    BY <2>1, <2>2 DEF PutPart
<1>3. TypeOK'
  BY <1>1, <1>2 DEF TypeOK, input
<1>4. Cut(part - 1) \in 0..Total /\ Cut(part) \in 0..Total /\ Total \in Nat
  BY <1>1, CutFacts, PlanFacts
<1>5. \A i : Cut(i)' = Cut(i)
  BY <1>1, PlanSame
<1>6. step' = "finish" => 1..offset \subseteq have'
  <2> SUFFICES ASSUME step' = "finish", NEW b \in 1..offset PROVE b \in have'
    OBVIOUS
  <2>1. b \in 1..Cut(part - 1) \/ b \in (Cut(part - 1) + 1)..offset
    BY <1>1, <1>4
  <2> QED
    BY <1>1, <1>2, <2>1
<1>7. PartInv'
  BY <1>1, <1>2, <1>5, <1>6 DEF PartInv
<1>8. ShownInv'
  BY <1>1, <1>2 DEF ShownInv, input
<1> QED
  BY <1>1, <1>2, <1>3, <1>7, <1>8 DEF Kept, Onward, input, TypeOK

\* A part is accepted, refused or too late.
LEMMA FinishKeeps ==
  ASSUME FileInv, PartFinish
  PROVE  Kept
<1> USE DEF FileInv
<1>1. /\ step = "finish" /\ UNCHANGED input /\ UNCHANGED <<plan, lacking, block, offset, slice>> /\ UNCHANGED shown
      /\ part \in DOMAIN plan /\ finished = 1..(part - 1) /\ offset = Cut(part) /\ 1..offset \subseteq have
      /\ misses <= tries
  BY DEF PartFinish, PartInv, RetryInv
<1>2. Len(plan) \in Nat /\ DOMAIN plan = 1..Len(plan) /\ part \in Nat /\ part >= 1 /\ part <= Len(plan)
  BY <1>1, PlanFacts
<1>3. \A i : Cut(i)' = Cut(i)
  BY <1>1, PlanSame
<1>4. CASE /\ Enter(IF part < Len(plan) THEN "part" ELSE "complete")
           /\ finished' = finished \cup {part} /\ part' = part + 1 /\ late' = FALSE
  <2>1. /\ RetryInv' /\ FailsForAReason' /\ step' = (IF part < Len(plan) THEN "part" ELSE "complete")
        /\ tries' \in 0..Retries /\ misses' \in 0..(Retries + 1) /\ final' \in BOOLEAN
    BY <1>4, Entered
  <2>2. finished' = 1..(part' - 1) /\ part' \in 1..(Len(plan) + 1) /\ part' - 1 = part
    BY <1>1, <1>2, <1>4
  <2>3. TypeOK'
    BY <1>1, <1>2, <1>4, <2>1, <2>2 DEF TypeOK, input, shown
  <2>4. PartInv'
    <3>1. CASE part < Len(plan)
      <4>1. step' = "part" /\ part' \in DOMAIN plan'
        BY <1>1, <1>2, <2>1, <2>2, <3>1
      <4> QED
        BY <1>1, <1>3, <2>2, <4>1 DEF PartInv, shown
    <3>2. CASE ~(part < Len(plan))
      <4>1. step' = "complete"
        BY <2>1, <3>2
      <4>2. part = Len(plan)
        <5>1. PICK l \in Nat, i \in Nat : l = Len(plan) /\ i = part
          BY <1>2
        <5>2. i <= l /\ ~(i < l)
          BY <1>2, <3>2, <5>1
        <5> QED
          BY <5>1, <5>2
      <4> QED
        BY <1>1, <1>2, <1>3, <2>2, <4>1, <4>2 DEF PartInv, shown
    <3> QED
      BY <3>1, <3>2
  <2>5. ShownInv'
    BY <1>1, <2>1 DEF ShownInv, input, shown
  <2> QED
    BY <1>1, <2>1, <2>3, <2>4, <2>5 DEF Kept, Onward, input, shown, TypeOK
<1>5. CASE late /\ step' = "error" /\ UNCHANGED <<finished, part, late, counts, final>>
  <2>1. TypeOK'
    BY <1>1, <1>5 DEF TypeOK, input, shown, counts
  <2>2. FailsForAReason' /\ RetryInv' /\ PartInv' /\ ShownInv'
    BY <1>1, <1>5 DEF FailsForAReason, RetryInv, PartInv, ShownInv, input, shown
  <2> QED
    BY <1>1, <2>1, <2>2 DEF Kept, Onward, input, shown, TypeOK
<1>6. CASE GiveUp /\ UNCHANGED <<finished, part, late, counts>>
  <2>1. /\ RetryInv' /\ FailsForAReason' /\ step' = "error"
        /\ tries' \in 0..Retries /\ misses' \in 0..(Retries + 1) /\ final' \in BOOLEAN
    BY <1>6, GivenUp
  <2>2. TypeOK'
    BY <1>1, <1>6, <2>1 DEF TypeOK, input, shown
  <2>3. PartInv' /\ ShownInv'
    BY <1>1, <2>1 DEF PartInv, ShownInv, input, shown
  <2> QED
    BY <1>1, <2>1, <2>2, <2>3 DEF Kept, Onward, input, shown, TypeOK
<1> QED
  BY <1>4, <1>5, <1>6 DEF PartFinish

\* The upload is completed: by a sound plan all is there.
LEMMA CompleteKeeps ==
  ASSUME FileInv, Complete, driver = "qq"
  PROVE  Kept
<1> USE DEF FileInv
<1>1. /\ step = "complete" /\ UNCHANGED input /\ UNCHANGED upload /\ UNCHANGED shown
      /\ UNCHANGED <<plan, lacking, block>> /\ UNCHANGED <<have, finished>>
      /\ offset = Cut(Len(plan)) /\ 1..offset \subseteq have /\ finished = DOMAIN plan
      /\ misses <= tries /\ (AllThere => misses = tries)
  BY DEF Complete, PartInv, RetryInv, upload, shown
<1>2. AllThere' <=> AllThere
  BY <1>1 DEF AllThere
<1>3. Sound => AllThere
  <2>1. Sound => Cut(Len(plan)) = Total
    BY CutFacts DEF Sound
  <2> QED
    BY <1>1, <2>1 DEF AllThere, File, TypeOK
<1>4. Sound' <=> Sound
  BY <1>1, PlanSame
<1>5. /\ FailsForAReason' /\ tries' \in 0..Retries /\ misses' \in 0..(Retries + 1) /\ final' \in BOOLEAN
      /\ step' \in {"announce", "complete", "error"} /\ (step' = "announce" => have = File) /\ RetryInv'
  <2>1. CASE AllThere /\ Enter("announce")
    BY <2>1, Entered DEF AllThere
  <2>2. CASE AllThere /\ Again(TRUE)
    BY <1>1, <2>2, TriedAgain, NoError DEF RetryInv, TypeOK
  <2>3. CASE ~AllThere /\ Again(FALSE)
    <3>1. Retries \in Nat /\ tries \in 0..Retries /\ misses \in 0..(Retries + 1) /\ final' = final /\ misses' = misses
      BY <2>3, FileConstants DEF TypeOK, Again
    <3>2. CASE tries >= Retries
      <4>1. step' = "error" /\ tries' = tries
        BY <2>3, <3>2 DEF Again
      <4> QED
        BY <1>1, <1>3, <1>4, <2>3, <3>1, <4>1 DEF FailsForAReason, RetryInv, TypeOK, input
    <3>3. CASE ~(tries >= Retries)
      <4>1. step' = "complete" /\ tries' = tries + 1
        BY <1>1, <2>3, <3>3 DEF Again
      <4> QED
        BY <1>1, <1>2, <2>3, <3>1, <3>3, <4>1, NoError DEF RetryInv, TypeOK
    <3> QED
      BY <3>2, <3>3
  <2>4. Again(AllThere) => (AllThere /\ Again(TRUE)) \/ (~AllThere /\ Again(FALSE))
    BY DEF Again
  <2> QED
    BY <2>1, <2>2, <2>3, <2>4 DEF Complete
<1>6. TypeOK'
  BY <1>1, <1>5 DEF TypeOK, input, upload, shown
<1>7. \A i : Cut(i)' = Cut(i)
  BY <1>1, PlanSame
<1>8. PartInv'
  BY <1>1, <1>5, <1>7 DEF PartInv, upload, shown
<1>9. ShownInv'
  BY <1>1, <1>5 DEF ShownInv, input, shown
<1> QED
  BY <1>1, <1>5, <1>6, <1>8, <1>9 DEF Kept, Onward, input, shown, TypeOK

\* The deadline of part_finish.
LEMMA WindowKeeps ==
  ASSUME FileInv, WindowPasses
  PROVE  Kept
<1> USE DEF FileInv
<1>1. /\ step = "finish" /\ step' = step /\ late' = TRUE /\ UNCHANGED input /\ UNCHANGED shown
      /\ UNCHANGED <<plan, lacking, block, part, offset, slice, finished, counts, final>>
  BY DEF WindowPasses
<1>2. \A i : Cut(i)' = Cut(i)
  BY <1>1, PlanSame
<1>3. TypeOK'
  BY <1>1 DEF TypeOK, input, shown, counts
<1>4. FailsForAReason' /\ RetryInv' /\ PartInv' /\ ShownInv'
  BY <1>1, <1>2 DEF FailsForAReason, RetryInv, PartInv, ShownInv, input, shown, counts
<1> QED
  BY <1>1, <1>3, <1>4 DEF Kept, Onward, input, shown, TypeOK

-----------------------------------------------------------------------------
(* ---- all drivers ---- *)

\* A reply begins with nothing sent.
LEMMA FileInvStarts == Init => FileInv /\ Reply!Init
<1> SUFFICES ASSUME Init PROVE FileInv /\ Reply!Init
  OBVIOUS
<1>1. /\ driver \in Drivers /\ payload \in {"url", "small", "large"} /\ wanted \in {0, 1}
      /\ step \in {"prepare", "files", "announce", "resolve"}
      /\ step = "announce" => driver \in {"telegram", "discord"}
  BY DEF Init, First, Drivers
<1>2. /\ plan = <<>> /\ lacking = {} /\ block = 0 /\ part = 1 /\ offset = 0 /\ slice = {} /\ tries = 0 /\ late = FALSE /\ have = {}
      /\ finished = {} /\ posts = 0 /\ captions = 0 /\ misses = 0 /\ final = FALSE
  BY DEF Init
<1>3. Total \in Nat /\ MaxParts \in Nat /\ Retries \in Nat
  BY FileConstants
<1>4. plan \in Plans /\ Len(plan) = 0 /\ DOMAIN plan = {}
  <2>1. <<>> \in [1..0 -> 0..Total] /\ 0 \in 0..MaxParts
    BY <1>3
  <2> QED
    BY <1>2, <2>1 DEF Plans
<1>5. TypeOK
  <2>1. /\ part \in 1..(Len(plan) + 1) /\ offset \in 0..Total /\ block \in 0..Total
        /\ tries \in 0..Retries /\ misses \in 0..(Retries + 1)
    BY <1>2, <1>3, <1>4
  <2>2. slice \subseteq File /\ have \subseteq File /\ finished \subseteq DOMAIN plan /\ lacking \subseteq DOMAIN plan
    BY <1>2
  <2>3. posts \in 0..1 /\ captions \in 0..wanted
    BY <1>1, <1>2
  <2>4. step \in {"resolve", "ask", "upload", "files", "cdn", "prepare", "part", "put", "finish",
                  "complete", "announce", "caption", "ok", "error"}
    BY <1>1
  <2>5. late \in BOOLEAN /\ final \in BOOLEAN
    BY <1>2
  <2> QED
    BY <1>1, <1>4, <2>1, <2>2, <2>3, <2>4, <2>5 DEF TypeOK
<1>6. FailsForAReason /\ RetryInv /\ PartInv /\ ShownInv
  BY <1>1, <1>2 DEF FailsForAReason, RetryInv, PartInv, ShownInv
<1> QED
  BY <1>1, <1>2, <1>5, <1>6 DEF FileInv, Reply!Init

\* Every step of every driver keeps the invariant and is one of the promise's.
LEMMA FileStepKeeps ==
  ASSUME FileInv, [Next]_vars
  PROVE  FileInv' /\ [Reply!Proceed]_(Reply!vars)
<1>1. CASE UNCHANGED vars
  <2>1. UNCHANGED <<plan, lacking, block>>
    BY <1>1 DEF vars, upload
  <2>2. \A i : Cut(i)' = Cut(i)
    BY <2>1, PlanSame
  <2>3. Sound' <=> Sound
    BY <2>1, PlanSame
  <2>4. TypeOK' /\ FailsForAReason' /\ RetryInv' /\ PartInv' /\ ShownInv'
    BY <1>1, <2>2, <2>3
    DEF FileInv, vars, input, upload, shown, counts, TypeOK, FailsForAReason, RetryInv, AllThere, PartInv, ShownInv
  <2> QED
    BY <1>1, <2>4 DEF FileInv, Reply!vars, vars, input, shown
<1>2. CASE Next
  <2>1. Kept
    BY <1>2, ResolveKeeps, AskKeeps, UploadKeeps, CdnKeeps, AnnounceKeeps, CaptionKeeps, PrepareKeeps, SliceKeeps,
       PutKeeps, FinishKeeps, CompleteKeeps, WindowKeeps
    DEF Next, Step, Qq, Feishu, Slack, Weclaw, Telegram, Discord
  <2> QED
    BY <2>1, OnwardProceeds DEF Kept, FileInv
<1> QED
  BY <1>1, <1>2

\* The inductive invariant holds throughout.
LEMMA FileInvariant == Spec => []FileInv
  BY FileInvStarts, FileStepKeeps, PTL DEF Spec

\* The type invariant: slices and offset stay within the file, parts within the plan,
\* attempts within their number, and a message and its caption are posted at most once
\* (reply_file_to_user of the drivers).
THEOREM FileTypeCorrect == Spec => []TypeOK
<1>1. FileInv => TypeOK
  BY DEF FileInv
<1> QED
  BY <1>1, FileInvariant, PTL

\* An upload gives up only for a request that failed for good or too often, a window
\* that passed or a plan that does not fit the file: cut by a sound plan of any sizes,
\* missing or too long a last one included, no byte is left out (qq_bot.rs
\* qq_upload_chunked_bytes, weclaw.rs upload_to_cdn).
THEOREM GivesUpForAReason == Spec => []FailsForAReason
<1>1. FileInv => FailsForAReason
  BY DEF FileInv
<1> QED
  BY <1>1, FileInvariant, PTL

\* The safety half of KeepsPromise: every driver's reply starts as FileReply does, and
\* each of its steps is one of FileReply's, so that a message with the file is posted
\* once, when the platform has all of it, and Ok means that it was.
THEOREM RefinesFilePromise == Spec => Reply!Init /\ [][Reply!Proceed]_(Reply!vars)
<1>1. Init => Reply!Init
  BY FileInvStarts
<1>2. FileInv /\ [Next]_vars => [Reply!Proceed]_(Reply!vars)
  BY FileStepKeeps
<1> QED
  BY <1>1, <1>2, FileInvariant, PTL DEF Spec
=============================================================================
