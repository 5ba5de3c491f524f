------------------------- MODULE InboundPumps_proofs -------------------------
(***************************************************************************)
(* Proofs about inbound delivery (start_pump of the drivers and the        *)
(* webhooks of dispatch_webhook), for any set of drivers, any number of    *)
(* messages, faults and redeliveries and any backoff.                      *)
(*                                                                         *)
(* The inductive invariant PumpInv has a part for each way in which a      *)
(* platform hands messages over. A driver that acknowledges (Slack,        *)
(* DingTalk, Feishu) reads the frames of a connection in the order they    *)
(* were sent, so that all that is older than a message it emits was dealt  *)
(* with or is sent again; Discord's frames are numbered upwards; the long  *)
(* polls hold the newest messages behind their cursor; a webhook emits     *)
(* before it answers.                                                      *)
(***************************************************************************)
EXTENDS InboundPumps, FiniteSetTheorems, TLAPS

\* The numbers of s grow.
Increasing(s) == \A i, j \in DOMAIN s : i < j => s[i] < s[j]

\* The ith frame on the wire is a message, or a piece of one.
IsMessage(i) == wire[i].kind = "msg"

\* What the platform has no more to do about, but to send it once more than it need.
Dealt == settled \cup excused

\* A frame that the platform can send.
Sensible(f) ==
  /\ IF f.kind = "msg" THEN f.m \in Written /\ f.piece \in Whole(f.m) ELSE f.m = 0
  /\ f.kind \in {"hello", "beat"} => driver = "discord"

\* All that waits to be read is of that kind.
AllSensible == \A i \in DOMAIN wire : Sensible(wire[i])

\* Where a socket pump stands in each phase: a message is in hand from its
\* acknowledgement to its handling, and there is a connection only while it is read.
SocketInv ==
  /\ pc \in {"top", "fetch", "dial", "reading", "ack", "lookup", "forward", "sleep", "stopped"}
  /\ IF pc \in {"ack", "lookup", "forward"} THEN \E m \in Written : hand = <<m>> ELSE hand = <<>>
  /\ pc \in {"top", "fetch", "dial", "sleep", "stopped"} =>
       /\ link = "none" /\ wire = <<>> /\ sent = {}
       /\ \A m \in Messages : pending[m] = {}
  /\ AllSensible

\* Discord's events are numbered upwards, on the wire and behind what was emitted.
DiscordInv ==
  /\ hand = <<>>
  /\ Increasing(emitted)
  /\ \A i, j \in DOMAIN wire : i < j /\ IsMessage(i) /\ IsMessage(j) => wire[i].m < wire[j].m
  /\ \A i \in DOMAIN wire : IsMessage(i) => \A n \in Range(emitted) : n < wire[i].m

\* All that is missing of m is among the first frames of the wire.
ToCome(m, before) == \A p \in Whole(m) \ pending[m] : \E j \in 1..before : wire[j] = Piece(m, p)

\* All that is older than an emitted message was dealt with.
EmittedBehind == \A n \in Range(emitted) : \A m \in 1..n : m \in Dealt

\* All that is older than the message in hand was dealt with, and so is that message once
\* it is acknowledged; unless it is a copy, it is newer than all that was emitted.
HandSound ==
  \A n \in Range(hand) :
    /\ n \in sent
    /\ \A m \in 1..(n - 1) : m \in Dealt
    /\ n \in Dealt \/ pc = "ack"
    /\ n \in excused \/ \A k \in Range(emitted) : k < n

\* A message whose pieces are gathered (Feishu) is incomplete.
PendingSound ==
  \A m \in Messages : pending[m] \subseteq Whole(m) /\ pending[m] # Whole(m) /\ (pending[m] # {} => m \in sent)

\* The platform sends the oldest unsettled message first.
SentInOrder == \A m \in sent : \A k \in 1..(m - 1) : k \in settled \cup sent

\* A frame that is on its way was sent on this connection, and is a copy if its message is
\* settled.
WireSent == \A i \in DOMAIN wire : IsMessage(i) => wire[i].m \in sent /\ (wire[i].m \in settled => wire[i].m \in excused)

\* A frame of a message that was sent once has not been read.
WireFresh ==
  \A i \in DOMAIN wire : IsMessage(i) /\ wire[i].m \notin excused =>
    /\ wire[i].piece \notin pending[wire[i].m]
    /\ wire[i].m \notin Range(hand)
    /\ \A j \in DOMAIN wire : wire[j] = wire[i] => j = i

\* All that is older than a message on the wire is dealt with, in hand or before it.
InTurn ==
  \A i \in DOMAIN wire : IsMessage(i) =>
    \A k \in 1..(wire[i].m - 1) : k \in Dealt \cup Range(hand) \/ ToCome(k, i - 1)

\* All that was sent on a connection that is up is dealt with, in hand or to be read.
AllToCome == link = "up" => \A m \in sent : m \in Dealt \cup Range(hand) \/ ToCome(m, Len(wire))

\* The parts for a driver that acknowledges each message.
AckedInv ==
  EmittedBehind /\ HandSound /\ PendingSound /\ SentInOrder /\ WireSent /\ WireFresh /\ InTurn /\ AllToCome

\* What is confirmed or behind the offset was handled, and nothing else but copies of it;
\* the batch in hand follows what is confirmed without a gap.
TelegramInv ==
  /\ pc \in {"top", "polling", "forward", "sleep", "stopped"}
  /\ stored = 0
  /\ settled \cup 1..cursor \subseteq Handled
  /\ Handled \subseteq settled \cup 1..cursor \cup excused
  /\ \A n \in Handled : 1..n \subseteq Handled
  /\ IF pc = "forward"
       THEN /\ hand # <<>> /\ Increasing(hand)
            /\ 1..cursor \subseteq settled
            /\ Range(hand) \cap settled = {}
            /\ 1..Last(hand) \subseteq settled \cup Range(hand)
       ELSE hand = <<>>

\* What is settled lies behind the saved buffer; what lies behind the one in memory was
\* handled, was lost in a crash or is in hand.
WeclawInv ==
  /\ pc \in {"top", "polling", "persist", "forward", "sleep", "stopped"}
  /\ settled = 1..stored
  /\ 1..cursor \subseteq Written
  /\ 1..cursor \subseteq Handled \cup lost \cup Range(hand)
  /\ 1..cursor \subseteq Dealt \cup (IF pc = "persist" THEN Range(hand) ELSE {})
  /\ \A n \in Range(emitted) : 1..n \subseteq Dealt
  /\ IF pc \in {"persist", "forward"}
       THEN /\ hand # <<>> /\ Increasing(hand) /\ Last(hand) = cursor
            /\ \A m \in Range(hand) \ excused : \A n \in Range(emitted) : n < m
       ELSE hand = <<>>

\* Nothing is emitted but what is answered for, or sent once more.
WecomInv ==
  /\ pc = "stopped" /\ hand = <<>>
  /\ Range(emitted) \subseteq Dealt

\* The inductive invariant.
PumpInv ==
  /\ TypeSafe
  /\ driver \in Drivers
  /\ driver \notin Sockets => beats = {}
  /\ SettledIsHandled
  /\ InOrderOnce
  /\ driver \in Sockets => SocketInv
  /\ driver = "discord" => DiscordInv
  /\ driver \in Acked => AckedInv
  /\ driver = "telegram" => TelegramInv
  /\ driver = "weclaw" => WeclawInv
  /\ driver = "wecom" => WecomInv

-----------------------------------------------------------------------------
(* ---- sequences, batches and frames ---- *)

\* What a sequence holds.
LEMMA RangeFacts ==
  ASSUME NEW S, NEW s \in Seq(S)
  PROVE  /\ Range(s) \subseteq S
         /\ \A x : x \in Range(s) <=> \E i \in 1..Len(s) : s[i] = x
         /\ s = <<>> => Range(s) = {}
         /\ Len(s) \in Nat /\ DOMAIN s = 1..Len(s)
  BY DEF Range

\* A sequence of one.
LEMMA RangeOfOne ==
  ASSUME NEW x
  PROVE  Range(<<x>>) = {x} /\ Head(<<x>>) = x /\ Last(<<x>>) = x /\ <<x>> # <<>>
  BY DEF Range, Last

\* The empty sequence holds nothing.
LEMMA RangeOfEmpty == Range(<<>>) = {}
  BY DEF Range

\* Append.
LEMMA RangeOfAppend ==
  ASSUME NEW S, NEW s \in Seq(S), NEW x \in S
  PROVE  /\ Append(s, x) \in Seq(S)
         /\ Range(Append(s, x)) = Range(s) \cup {x}
         /\ Len(Append(s, x)) = Len(s) + 1
         /\ Append(s, x)[Len(s) + 1] = x
         /\ \A i \in 1..Len(s) : Append(s, x)[i] = s[i]
<1> DEFINE t == Append(s, x)
<1>1. t \in Seq(S) /\ Len(t) = Len(s) + 1 /\ t[Len(s) + 1] = x /\ \A i \in 1..Len(s) : t[i] = s[i]
  OBVIOUS
<1>2. DOMAIN t = 1..(Len(s) + 1) /\ DOMAIN s = 1..Len(s) /\ Len(s) \in Nat
  BY <1>1
<1> HIDE DEF t
<1>3. \A y : y \in Range(t) <=> y \in Range(s) \/ y = x
  <2> TAKE y
  <2>1. y \in Range(t) => y \in Range(s) \/ y = x
    BY <1>1, <1>2 DEF Range
  <2>2. y \in Range(s) => y \in Range(t)
    <3>1. \A i \in 1..Len(s) : i \in 1..(Len(s) + 1)
      BY <1>2
    <3> QED
      BY <1>1, <1>2, <3>1 DEF Range
  <2>3. x \in Range(t)
    <3>1. Len(s) + 1 \in 1..(Len(s) + 1)
      BY <1>2
    <3> QED
      BY <1>1, <1>2, <3>1 DEF Range
  <2> QED
    BY <2>1, <2>2, <2>3
<1> QED
  BY <1>1, <1>3 DEF t

\* Concatenation.
LEMMA RangeOfConcat ==
  ASSUME NEW S, NEW s \in Seq(S), NEW t \in Seq(S)
  PROVE  /\ s \o t \in Seq(S)
         /\ Len(s \o t) = Len(s) + Len(t)
         /\ Range(s \o t) = Range(s) \cup Range(t)
         /\ \A i \in 1..Len(s) : (s \o t)[i] = s[i]
         /\ \A i \in 1..Len(t) : (s \o t)[Len(s) + i] = t[i]
<1> DEFINE u == s \o t
<1>1. u \in Seq(S) /\ Len(u) = Len(s) + Len(t) /\ \A i \in 1..Len(s) : u[i] = s[i]
  OBVIOUS
<1>2. \A i \in 1..Len(t) : u[Len(s) + i] = t[i]
  OBVIOUS
<1>3. /\ DOMAIN u = 1..(Len(s) + Len(t)) /\ DOMAIN s = 1..Len(s) /\ Len(s) \in Nat
      /\ DOMAIN t = 1..Len(t) /\ Len(t) \in Nat
  BY <1>1
<1> HIDE DEF u
<1>4. \A y : y \in Range(u) <=> y \in Range(s) \/ y \in Range(t)
  <2> TAKE y
  <2>1. ASSUME NEW i \in DOMAIN u, u[i] = y PROVE y \in Range(s) \/ y \in Range(t)
    <3>1. CASE i \in 1..Len(s)
      BY <1>1, <1>3, <2>1, <3>1 DEF Range
    <3>2. CASE i \notin 1..Len(s)
      <4>1. PICK j \in 1..Len(t) : i = Len(s) + j
        <5>1. i - Len(s) \in 1..Len(t) /\ i = Len(s) + (i - Len(s))
          BY <1>3, <3>2
        <5> QED
          BY <5>1
      <4> QED
        BY <1>2, <1>3, <2>1, <4>1 DEF Range
    <3> QED
      BY <3>1, <3>2
  <2>2. y \in Range(s) => y \in Range(u)
    <3>1. \A i \in 1..Len(s) : i \in DOMAIN u
      BY <1>3
    <3> QED
      BY <1>1, <1>3, <3>1 DEF Range
  <2>3. y \in Range(t) => y \in Range(u)
    <3>1. \A i \in 1..Len(t) : Len(s) + i \in DOMAIN u
      BY <1>3
    <3> QED
      BY <1>2, <1>3, <3>1 DEF Range
  <2> QED
    BY <2>1, <2>2, <2>3 DEF Range
<1> QED
  BY <1>1, <1>2, <1>4 DEF u

\* Tail shifts by one.
LEMMA TailFacts ==
  ASSUME NEW S, NEW s \in Seq(S), s # <<>>
  PROVE  /\ Tail(s) \in Seq(S) /\ Len(s) \in Nat /\ Len(s) >= 1
         /\ Len(Tail(s)) = Len(s) - 1
         /\ DOMAIN Tail(s) = 1..(Len(s) - 1) /\ DOMAIN s = 1..Len(s)
         /\ \A i \in 1..(Len(s) - 1) : Tail(s)[i] = s[i + 1] /\ i + 1 \in 1..Len(s)
         /\ Head(s) = s[1] /\ Head(s) \in S /\ 1 \in 1..Len(s)
         /\ \A j \in 1..Len(s) : j = 1 \/ (j - 1 \in 1..(Len(s) - 1) /\ s[j] = Tail(s)[j - 1])
<1>1. Tail(s) \in Seq(S) /\ Len(s) \in Nat /\ Len(s) >= 1 /\ Len(Tail(s)) = Len(s) - 1
      /\ Head(s) = s[1] /\ Head(s) \in S /\ 1 \in 1..Len(s)
  OBVIOUS
<1>2. DOMAIN Tail(s) = 1..(Len(s) - 1) /\ DOMAIN s = 1..Len(s)
  BY <1>1
<1>3. \A i \in 1..(Len(s) - 1) : Tail(s)[i] = s[i + 1] /\ i + 1 \in 1..Len(s)
  OBVIOUS
<1>4. ASSUME NEW j \in 1..Len(s), j # 1 PROVE j - 1 \in 1..(Len(s) - 1) /\ s[j] = Tail(s)[j - 1]
  <2>1. j - 1 \in 1..(Len(s) - 1) /\ (j - 1) + 1 = j
    BY <1>1, <1>4
  <2> QED
    BY <1>3, <2>1
<1> QED
  BY <1>1, <1>2, <1>3, <1>4

\* InOrder sorts a set, and leaves none of it out.
LEMMA InOrderFacts ==
  ASSUME NEW S, IsFiniteSet(S), NEW s \in InOrder(S)
  PROVE  s \in Seq(S) /\ Range(s) = S /\ Increasing(s)
<1> DEFINE n == Cardinality(S)
<1>1. n \in Nat
  BY FS_CardinalityType
<1>2. s \in [1..n -> S] /\ (\A i, j \in 1..n : i # j => s[i] # s[j]) /\ Increasing(s)
  BY DEF InOrder, SetToSeqs, Increasing
<1>3. s \in Seq(S) /\ Range(s) \subseteq S
  BY <1>1, <1>2 DEF Range
<1>4. s \in Injection(1..n, S)
  BY <1>2 DEF Injection, IsInjective
<1>5. IsFiniteSet(1..n) /\ Cardinality(1..n) = n
  BY <1>1, FS_Interval
<1>6. s \in Surjection(1..n, S)
  BY <1>4, <1>5, FS_Injection
<1>7. S \subseteq Range(s)
  BY <1>2, <1>6 DEF Surjection, Range
<1> QED
  BY <1>2, <1>3, <1>7

\* A message has one piece or two.
LEMMA WholeFacts ==
  ASSUME NEW m \in Messages
  PROVE  Whole(m) \subseteq {0, 1} /\ 0 \in Whole(m) /\ IsFiniteSet(Whole(m))
<1>1. Sum[m] \in {1, 2}
  BY SumConstant DEF Messages
<1>2. (0..0) = {0} /\ (0..1) = {0, 1}
  OBVIOUS
<1>3. Whole(m) = 0..0 \/ Whole(m) = 0..1
  <2>1. PICK k \in {1, 2} : k = IF driver = "feishu" THEN Sum[m] ELSE 1
    BY <1>1
  <2>2. Whole(m) = 0..(k - 1)
    BY <2>1 DEF Whole
  <2>3. 1 - 1 = 0 /\ 2 - 1 = 1
    OBVIOUS
  <2>4. CASE k = 1
    BY <2>2, <2>3, <2>4
  <2>5. CASE k = 2
    BY <2>2, <2>3, <2>5
  <2> QED
    BY <2>1, <2>4, <2>5
<1>4. IsFiniteSet(0..0) /\ IsFiniteSet(0..1)
  <2>1. 0 \in Int /\ 1 \in Int
    OBVIOUS
  <2> QED
    BY <2>1, FS_Interval, Zenon
<1> QED
  BY <1>2, <1>3, <1>4, Zenon

\* The frames of a message are its pieces, each once.
LEMMA FramesFacts ==
  ASSUME NEW m \in Messages, NEW f \in Frames(m)
  PROVE  /\ f \in Seq(Frame)
         /\ \A i \in DOMAIN f : \E p \in Whole(m) : f[i] = Piece(m, p)
         /\ \A i, j \in DOMAIN f : f[i] = f[j] => i = j
         /\ \A p \in Whole(m) : \E i \in DOMAIN f : f[i] = Piece(m, p)
         /\ Whole(m) \subseteq {0, 1} /\ 0 \in Whole(m)
<1>1. Whole(m) \subseteq {0, 1} /\ 0 \in Whole(m) /\ IsFiniteSet(Whole(m))
  BY WholeFacts
<1> DEFINE n == Cardinality(Whole(m))
<1>2. n \in Nat
  BY <1>1, FS_CardinalityType
<1>3. PICK o \in [1..n -> Whole(m)] : f = [i \in DOMAIN o |-> Piece(m, o[i])] /\ (\A i, j \in 1..n : i # j => o[i] # o[j])
  BY DEF Frames, SetToSeqs
<1> HIDE DEF n
<1>4. DOMAIN f = 1..n /\ \A i \in 1..n : f[i] = Piece(m, o[i]) /\ o[i] \in Whole(m)
  BY <1>3
<1>5. \A p \in Whole(m) : Piece(m, p) \in Frame /\ Piece(m, p).piece = p
  BY <1>1 DEF Piece, Frame, Messages
<1>6. f \in Seq(Frame)
  BY <1>2, <1>3, <1>4, <1>5
<1>7. \A i, j \in DOMAIN f : f[i] = f[j] => i = j
  BY <1>3, <1>4, <1>5
<1>8. o \in Injection(1..n, Whole(m))
  BY <1>3 DEF Injection, IsInjective
<1>9. IsFiniteSet(1..n) /\ Cardinality(1..n) = n
  BY <1>2, FS_Interval
<1>10. o \in Surjection(1..n, Whole(m))
  BY <1>1, <1>8, <1>9, FS_Injection DEF n
<1>11. \A p \in Whole(m) : \E i \in DOMAIN f : f[i] = Piece(m, p)
  BY <1>4, <1>10 DEF Surjection
<1> QED
  BY <1>1, <1>4, <1>6, <1>7, <1>11

-----------------------------------------------------------------------------
(* ---- the socket pumps: types, and where each phase stands ---- *)

\* What the invariant says of every socket pump.
Socketed == driver \in Sockets /\ TypeOK /\ SocketInv

\* Messages are numbered from 1.
LEMMA WrittenFacts ==
  ASSUME FeedTypeOK
  PROVE  /\ Written = 1..Len(kinds) /\ Len(kinds) \in Nat
         /\ Written \subseteq Messages /\ Messages \subseteq Nat /\ 0 \notin Messages
         /\ \A m \in Written : \A k \in 1..m : k \in Written
         /\ \A m \in Messages : m \in Nat /\ m >= 1
<1>1. kinds \in Seq(Kinds) /\ Len(kinds) <= MaxMessages /\ MaxMessages \in Nat
  BY FeedConstants DEF FeedTypeOK
<1>2. Written = 1..Len(kinds) /\ Len(kinds) \in Nat
  BY <1>1 DEF Written
<1> QED
  BY <1>1, <1>2 DEF Messages

\* Where a pump goes when a connection has ended.
LEMMA AfterConnectionFacts ==
  ASSUME Socketed, NEW well, AfterConnection(well)
  PROVE  pc' \in {"top", "stopped", "sleep"} /\ backoff' \in 0..MaxBackoff /\ lost' \subseteq settled
<1>1. backoff' \in 0..MaxBackoff
  BY FeedConstants DEF Socketed, TypeOK, FeedTypeOK, AfterConnection, FeishuEnded, Redial, Doubled
<1>2. pc' \in {"top", "stopped", "sleep"}
  BY DEF AfterConnection, FeishuEnded, Redial
<1>3. lost' \subseteq settled
  BY DEF Socketed, TypeOK, FeedTypeOK, AfterConnection, LostBut
<1> QED
  BY <1>1, <1>2, <1>3

\* A connection that is gone leaves nothing behind but Discord's stray heartbeat.
LEMMA GoneTyped ==
  ASSUME Socketed, ConnectionGone, driver' = driver, FeedTypeOK',
         pc' \in {"top", "stopped", "sleep"}, hand' = <<>>,
         beats' \subseteq {"stray"}, beats' # {} => driver = "discord",
         resumable' \in BOOLEAN, botKnown' \in BOOLEAN
  PROVE  Socketed'
<1>1. wire' = <<>> /\ sent' = {} /\ link' = "none" /\ closing' = FALSE /\ asked' = "none"
      /\ pending' = [m \in Messages |-> {}]
  BY DEF ConnectionGone
<1>2. TypeOK'
  <2>1. wire' \in Seq(Frame)' /\ pending' \in [Messages -> SUBSET {0, 1}]'
    BY <1>1 DEF Messages
  <2>2. "own" \notin beats' /\ beats' \subseteq {"own", "stray"} /\ ("stray" \in beats' => driver' = "discord")
    OBVIOUS
  <2>3. sent' \subseteq Written' /\ closing' \in BOOLEAN /\ asked' \in {"none", "identify", "resume"}
        /\ link' \in {"none", "up", "severed"}
    BY <1>1
  <2> QED
    BY <2>1, <2>2, <2>3 DEF TypeOK
<1>3. SocketInv'
  BY <1>1 DEF SocketInv, AllSensible
<1>4. driver' \in Sockets'
  BY DEF Socketed, Sockets
<1> QED
  BY <1>2, <1>3, <1>4 DEF Socketed

\* A connection that ends between two messages.
LEMMA EndedTyped ==
  ASSUME Socketed, NEW well, Ended(well), driver' = driver, hand = <<>>,
         UNCHANGED <<kinds, settled, hand, emitted, skipped, excused, cancelled, crashed, botKnown>>,
         faults' \in 0..MaxFaults, resumable' \in BOOLEAN
  PROVE  Socketed'
<1>1. ConnectionGone /\ AfterConnection(well) /\ beats' = beats \ {"own"}
  BY DEF Ended, NoConnection
<1>2. pc' \in {"top", "stopped", "sleep"} /\ backoff' \in 0..MaxBackoff /\ lost' \subseteq settled
  BY <1>1, AfterConnectionFacts
<1>3. FeedTypeOK'
  BY <1>2 DEF Socketed, TypeOK, FeedTypeOK, Written
<1>4. beats' \subseteq {"stray"} /\ (beats' # {} => driver = "discord")
  BY <1>1 DEF Socketed, TypeOK
<1>5. hand' = <<>> /\ botKnown' \in BOOLEAN
  BY DEF Socketed, TypeOK
<1> QED
  BY <1>1, <1>2, <1>3, <1>4, <1>5, GoneTyped

\* A send that fails (Discord).
LEMMA SendFailsTyped ==
  ASSUME Socketed, NEW left, SendFails(left), driver' = driver, hand = <<>>,
         UNCHANGED <<kinds, settled, hand, emitted, skipped, excused, cancelled, crashed, faults, resumable, botKnown>>,
         left \subseteq {"stray"}, driver = "discord"
  PROVE  Socketed'
<1>1. ConnectionGone /\ AfterConnection(FALSE) /\ beats' = left
  BY DEF SendFails
<1>2. pc' \in {"top", "stopped", "sleep"} /\ backoff' \in 0..MaxBackoff /\ lost' \subseteq settled
  BY <1>1, AfterConnectionFacts, Zenon
<1>3. FeedTypeOK'
  BY <1>2 DEF Socketed, TypeOK, FeedTypeOK, Written
<1>5. hand' = <<>> /\ botKnown' \in BOOLEAN /\ resumable' \in BOOLEAN
  BY DEF Socketed, TypeOK
<1> QED
  BY <1>1, <1>2, <1>3, <1>5, GoneTyped

\* A frame stays sensible while users write.
LEMMA SensibleKept ==
  ASSUME driver' = driver, Written \subseteq Written'
  PROVE  \A f : Sensible(f) => Sensible(f)'
  BY DEF Sensible, Whole

\* A wire of sensible frames.
LEMMA WireSensible ==
  ASSUME driver' = driver, Written \subseteq Written', \A i \in DOMAIN wire' : Sensible(wire'[i])
  PROVE  AllSensible'
  BY DEF Sensible, AllSensible, Whole

\* The wire when a frame is read,
LEMMA WireTail ==
  ASSUME Socketed, wire # <<>>
  PROVE  /\ Tail(wire) \in Seq(Frame) /\ \A i \in DOMAIN Tail(wire) : Sensible(Tail(wire)[i])
         /\ Head(wire) = wire[1] /\ Head(wire) \in Frame /\ Sensible(Head(wire))
         /\ Len(wire) \in Nat \ {0} /\ DOMAIN wire = 1..Len(wire) /\ DOMAIN Tail(wire) = 1..(Len(wire) - 1)
         /\ Len(Tail(wire)) = Len(wire) - 1 /\ 1 \in 1..Len(wire)
         /\ \A i \in 1..(Len(wire) - 1) : Tail(wire)[i] = wire[i + 1] /\ i + 1 \in 1..Len(wire)
         /\ \A j \in 1..Len(wire) : j = 1 \/ (j - 1 \in 1..(Len(wire) - 1) /\ wire[j] = Tail(wire)[j - 1])
<1>1. wire \in Seq(Frame) /\ \A i \in DOMAIN wire : Sensible(wire[i])
  BY DEF Socketed, TypeOK, SocketInv, AllSensible
<1>2. /\ Tail(wire) \in Seq(Frame) /\ Len(wire) \in Nat /\ Len(wire) >= 1
      /\ Len(Tail(wire)) = Len(wire) - 1
      /\ DOMAIN Tail(wire) = 1..(Len(wire) - 1) /\ DOMAIN wire = 1..Len(wire)
      /\ \A i \in 1..(Len(wire) - 1) : Tail(wire)[i] = wire[i + 1] /\ i + 1 \in 1..Len(wire)
      /\ Head(wire) = wire[1] /\ Head(wire) \in Frame /\ 1 \in 1..Len(wire)
      /\ \A j \in 1..Len(wire) : j = 1 \/ (j - 1 \in 1..(Len(wire) - 1) /\ wire[j] = Tail(wire)[j - 1])
  BY <1>1, TailFacts
<1> HIDE DEF Sensible
<1>3. \A i \in DOMAIN Tail(wire) : Sensible(Tail(wire)[i])
  BY <1>1, <1>2
<1>4. Sensible(Head(wire))
  BY <1>1, <1>2
<1>5. Len(wire) \in Nat \ {0}
  BY <1>2
<1> QED
  BY <1>2, <1>3, <1>4, <1>5

\* when a message is sent,
LEMMA WireConcat ==
  ASSUME Socketed, NEW t \in Seq(Frame), \A i \in DOMAIN t : Sensible(t[i])
  PROVE  /\ wire \o t \in Seq(Frame)
         /\ \A i \in DOMAIN (wire \o t) : Sensible((wire \o t)[i])
         /\ Len(wire) \in Nat /\ Len(t) \in Nat /\ DOMAIN wire = 1..Len(wire) /\ DOMAIN t = 1..Len(t)
         /\ Len(wire \o t) = Len(wire) + Len(t) /\ DOMAIN (wire \o t) = 1..(Len(wire) + Len(t))
         /\ \A i \in 1..Len(wire) : (wire \o t)[i] = wire[i] /\ i \in DOMAIN (wire \o t)
         /\ \A i \in 1..Len(t) : (wire \o t)[Len(wire) + i] = t[i] /\ Len(wire) + i \in DOMAIN (wire \o t)
         /\ \A i \in DOMAIN (wire \o t) :
              i \in 1..Len(wire) \/ (i - Len(wire) \in 1..Len(t) /\ i = Len(wire) + (i - Len(wire)) /\ Len(wire) <= i - 1)
<1> DEFINE u == wire \o t
<1>1. wire \in Seq(Frame) /\ \A i \in DOMAIN wire : Sensible(wire[i])
  BY DEF Socketed, TypeOK, SocketInv, AllSensible
<1>2. /\ u \in Seq(Frame) /\ Len(u) = Len(wire) + Len(t)
      /\ \A i \in 1..Len(wire) : u[i] = wire[i]
      /\ \A i \in 1..Len(t) : u[Len(wire) + i] = t[i]
  BY <1>1, RangeOfConcat
<1>3. /\ Len(wire) \in Nat /\ Len(t) \in Nat /\ DOMAIN wire = 1..Len(wire) /\ DOMAIN t = 1..Len(t)
      /\ DOMAIN u = 1..(Len(wire) + Len(t))
  BY <1>1, <1>2
<1> HIDE DEF u
<1>4. /\ \A i \in 1..Len(wire) : i \in DOMAIN u
      /\ \A i \in 1..Len(t) : Len(wire) + i \in DOMAIN u
      /\ \A i \in DOMAIN u :
              i \in 1..Len(wire) \/ (i - Len(wire) \in 1..Len(t) /\ i = Len(wire) + (i - Len(wire)) /\ Len(wire) <= i - 1)
  BY <1>3
<1>5. \A i \in DOMAIN u : Sensible(u[i])
  <2> TAKE i \in DOMAIN u
  <2>1. CASE i \in 1..Len(wire)
    BY <1>1, <1>2, <1>3, <2>1
  <2>2. CASE i \notin 1..Len(wire)
    <3>1. i - Len(wire) \in 1..Len(t) /\ u[i] = t[i - Len(wire)]
      BY <1>2, <1>4, <2>2
    <3> QED
      BY <1>3, <3>1
  <2> QED
    BY <2>1, <2>2
<1> QED
  BY <1>2, <1>3, <1>4, <1>5 DEF u

\* when a single frame is sent,
LEMMA WireAppend ==
  ASSUME Socketed, NEW f \in Frame, Sensible(f)
  PROVE  /\ Append(wire, f) \in Seq(Frame)
         /\ \A i \in DOMAIN Append(wire, f) : Sensible(Append(wire, f)[i])
         /\ Len(wire) \in Nat /\ DOMAIN wire = 1..Len(wire)
         /\ Len(Append(wire, f)) = Len(wire) + 1 /\ DOMAIN Append(wire, f) = 1..(Len(wire) + 1)
         /\ \A i \in 1..Len(wire) : Append(wire, f)[i] = wire[i] /\ i \in 1..(Len(wire) + 1)
         /\ Append(wire, f)[Len(wire) + 1] = f
         /\ \A i \in 1..(Len(wire) + 1) : i \in 1..Len(wire) \/ i = Len(wire) + 1
<1> DEFINE u == Append(wire, f)
<1>1. wire \in Seq(Frame) /\ \A i \in DOMAIN wire : Sensible(wire[i])
  BY DEF Socketed, TypeOK, SocketInv, AllSensible
<1>2. /\ u \in Seq(Frame) /\ Len(u) = Len(wire) + 1 /\ u[Len(wire) + 1] = f
      /\ \A i \in 1..Len(wire) : u[i] = wire[i]
  BY <1>1, RangeOfAppend
<1>3. Len(wire) \in Nat /\ DOMAIN wire = 1..Len(wire) /\ DOMAIN u = 1..(Len(wire) + 1)
  BY <1>1, <1>2
<1> HIDE DEF u
<1>4. /\ \A i \in 1..Len(wire) : i \in 1..(Len(wire) + 1)
      /\ \A i \in 1..(Len(wire) + 1) : i \in 1..Len(wire) \/ i = Len(wire) + 1
  BY <1>3
<1>5. \A i \in DOMAIN u : Sensible(u[i])
  <2> TAKE i \in DOMAIN u
  <2>1. CASE i \in 1..Len(wire)
    BY <1>1, <1>2, <1>3, <2>1
  <2>2. CASE i = Len(wire) + 1
    BY <1>2, <2>2
  <2> QED
    BY <1>3, <1>4, <2>1, <2>2
<1> QED
  BY <1>2, <1>3, <1>4, <1>5 DEF u

\* and when it is cut.
LEMMA WireCut ==
  ASSUME Socketed, NEW n \in 0..Len(wire)
  PROVE  /\ SubSeq(wire, 1, n) \in Seq(Frame)
         /\ Len(SubSeq(wire, 1, n)) = n /\ DOMAIN SubSeq(wire, 1, n) = 1..n
         /\ Len(wire) \in Nat /\ DOMAIN wire = 1..Len(wire)
         /\ \A i \in 1..n : SubSeq(wire, 1, n)[i] = wire[i] /\ i \in 1..Len(wire)
         /\ \A i \in 1..n : Sensible(SubSeq(wire, 1, n)[i])
<1>1. wire \in Seq(Frame) /\ \A i \in DOMAIN wire : Sensible(wire[i])
  BY DEF Socketed, TypeOK, SocketInv, AllSensible
<1>2. Len(wire) \in Nat /\ DOMAIN wire = 1..Len(wire)
  BY <1>1
<1>3. SubSeq(wire, 1, n) \in Seq(Frame) /\ Len(SubSeq(wire, 1, n)) = n
  BY <1>1, <1>2
<1>4. \A i \in 1..n : SubSeq(wire, 1, n)[i] = wire[i] /\ i \in 1..Len(wire)
  BY <1>1, <1>2
<1>5. DOMAIN SubSeq(wire, 1, n) = 1..n
  BY <1>3
<1> QED
  BY <1>1, <1>2, <1>3, <1>4, <1>5

\* The two forms of frames.
LEMMA FrameForms ==
  /\ \A kind \in Control : Plain(kind) \in Frame /\ Plain(kind).kind = kind /\ Plain(kind).m = 0 /\ Plain(kind).kind # "msg"
  /\ \A m, p : Piece(m, p).kind = "msg" /\ Piece(m, p).m = m /\ Piece(m, p).piece = p
  /\ \A m \in Messages : \A p \in {0, 1} : Piece(m, p) \in Frame
  /\ \A f \in Frame : f.kind = "msg" => f = Piece(f.m, f.piece)
  /\ \A f \in Frame : f.kind \in Control \cup {"msg"} /\ f.piece \in {0, 1} /\ f.m \in Messages \cup {0}
  BY DEF Plain, Piece, Frame, Control

\* A step between two connections.
LEMMA Shift ==
  ASSUME Socketed, driver' = driver, UNCHANGED <<messages, cancelled, crashed, socket>>,
         faults' \in 0..MaxFaults, backoff' \in 0..MaxBackoff,
         pc \in {"top", "fetch", "sleep"}, pc' \in {"top", "fetch", "dial", "sleep", "stopped"}
  PROVE  Socketed'
<1>1. FeedTypeOK'
  BY DEF Socketed, TypeOK, FeedTypeOK, Written, messages
<1>2. TypeOK'
  BY <1>1 DEF Socketed, TypeOK, socket, conn, Written, messages
<1>3. SocketInv'
  <2>1. AllSensible'
    BY DEF AllSensible, SocketInv, Socketed, Sensible, Whole, socket, conn, Written, messages
  <2>2. hand = <<>> /\ hand' = <<>>
    BY DEF SocketInv, Socketed, messages
  <2> QED
    BY <2>1, <2>2 DEF SocketInv, Socketed, socket, conn
<1> QED
  BY <1>2, <1>3 DEF Socketed

\* The steps before a connection is made.
LEMMA PollingTyped ==
  ASSUME Socketed, Top \/ Fetch \/ Sleep, driver' = driver
  PROVE  Socketed'
<1>1. backoff \in 0..MaxBackoff /\ faults \in 0..MaxFaults /\ MaxBackoff \in Nat /\ MaxFaults \in Nat
  BY FeedConstants DEF Socketed, TypeOK, FeedTypeOK
<1>2. CASE Top
  BY <1>1, <1>2, Shift DEF Top
<1>3. CASE Sleep
  BY <1>1, <1>3, Shift DEF Sleep
<1>4. CASE Fetch
  <2>1. Found \/ NotFound
    BY <1>4 DEF Fetch, DiscoverGateway, FetchSocketUrl, OpenConnection, Discover
  <2>2. CASE Found
    BY <1>1, <2>2, Shift DEF Found
  <2>3. CASE NotFound
    <3>1. backoff' \in 0..MaxBackoff /\ faults' \in 0..MaxFaults
      BY <1>1, <2>3 DEF NotFound, Doubled, Fault
    <3> QED
      BY <3>1, <2>3, Shift DEF NotFound
  <2> QED
    BY <2>1, <2>2, <2>3
<1> QED
  BY <1>2, <1>3, <1>4

\* A connection is made, or not.
LEMMA DialTyped ==
  ASSUME Socketed, Dial, driver' = driver
  PROVE  Socketed'
<1>1. hand = <<>> /\ sent = {} /\ backoff \in 0..MaxBackoff /\ faults \in 0..MaxFaults /\ MaxBackoff \in Nat /\ MaxFaults \in Nat
  BY FeedConstants DEF Socketed, TypeOK, FeedTypeOK, SocketInv, Dial
<1>2. CASE Fault /\ Ended(FALSE)
  <2>1. faults' \in 0..MaxFaults /\ resumable' \in BOOLEAN
    BY <1>1, <1>2 DEF Fault, Dial, Socketed, TypeOK
  <2>2. UNCHANGED <<kinds, settled, hand, emitted, skipped, excused, cancelled, crashed, botKnown>>
    BY DEF Dial
  <2>3. Ended(FALSE)
    BY <1>2
  <2> QED
    BY <1>1, <2>1, <2>2, <2>3, EndedTyped, Zenon
<1>3. CASE ~(Fault /\ Ended(FALSE))
  <2>1. /\ pc' = "reading" /\ link' = "up"
        /\ wire' = IF driver = "discord" THEN <<Plain("hello")>> ELSE <<>>
        /\ beats' = IF driver = "feishu" THEN beats \cup {"own"} ELSE beats
        /\ UNCHANGED <<sent, closing, asked, pending, backoff, lost, faults>>
        /\ UNCHANGED <<kinds, settled, hand, emitted, skipped, excused, cancelled, crashed, resumable, botKnown>>
    BY <1>3, Zenon DEF Dial
  <2>2. FeedTypeOK'
    BY <2>1 DEF Socketed, TypeOK, FeedTypeOK, Written
  <2>3. wire' \in Seq(Frame) /\ AllSensible'
    <3>1. CASE driver = "discord"
      <4>1. Plain("hello") \in Frame /\ Plain("hello").kind = "hello" /\ Plain("hello").m = 0
        BY FrameForms DEF Control
      <4>2. wire' = <<Plain("hello")>>
        BY <2>1, <3>1
      <4>3. Sensible(Plain("hello"))
        BY <4>1, <3>1 DEF Sensible
      <4> HIDE DEF Sensible
      <4>4. \A i \in DOMAIN wire' : wire'[i] = Plain("hello")
        BY <4>2
      <4>5. wire' \in Seq(Frame)
        BY <4>1, <4>2
      <4>6. Written' = Written
        BY <2>1 DEF Written
      <4> QED
        BY <4>3, <4>4, <4>5, <4>6, WireSensible
    <3>2. CASE driver # "discord"
      <4>1. wire' = <<>>
        BY <2>1, <3>2
      <4> QED
        BY <4>1 DEF AllSensible
    <3> QED
      BY <3>1, <3>2
  <2>4. TypeOK'
    <3>1. "stray" \in beats' => driver' = "discord"
      BY <2>1 DEF Socketed, TypeOK
    <3>2. beats' \subseteq {"own", "stray"}
      BY <2>1 DEF Socketed, TypeOK
    <3>3. pending' \in [Messages -> SUBSET {0, 1}]' /\ wire' \in Seq(Frame)'
      BY <2>1, <2>3 DEF Socketed, TypeOK, Messages, Frame, Control
    <3>4. link' \in {"none", "up", "severed"} /\ sent' \subseteq Written' /\ closing' \in BOOLEAN
          /\ asked' \in {"none", "identify", "resume"} /\ resumable' \in BOOLEAN /\ botKnown' \in BOOLEAN
      BY <1>1, <2>1 DEF Socketed, TypeOK
    <3> QED
      BY <2>1, <2>2, <3>1, <3>2, <3>3, <3>4 DEF TypeOK
  <2>5. SocketInv'
    BY <1>1, <2>1, <2>3 DEF SocketInv
  <2> QED
    BY <2>4, <2>5 DEF Socketed
<1> QED
  BY <1>2, <1>3

\* A connection is left (cancelled), or ends.
LEMMA StopsTyped ==
  ASSUME Socketed, StopReading \/ LinkEnds, driver' = driver
  PROVE  Socketed'
<1>1. hand = <<>> /\ faults \in 0..MaxFaults /\ resumable \in BOOLEAN
  BY DEF Socketed, TypeOK, FeedTypeOK, SocketInv, StopReading, LinkEnds
<1>2. CASE StopReading
  <2>1. Ended(TRUE) /\ UNCHANGED <<kinds, settled, hand, emitted, skipped, excused, cancelled, crashed, botKnown>>
        /\ faults' = faults /\ resumable' = resumable
    BY <1>2 DEF StopReading
  <2> QED
    BY <1>1, <2>1, EndedTyped
<1>3. CASE LinkEnds
  <2>1. UNCHANGED <<kinds, settled, hand, emitted, skipped, excused, cancelled, crashed, botKnown>>
        /\ faults' = faults /\ resumable' = FALSE
    BY <1>3 DEF LinkEnds
  <2>2. PICK well \in BOOLEAN : Ended(well)
    BY <1>3 DEF LinkEnds
  <2>3. faults' \in 0..MaxFaults /\ resumable' \in BOOLEAN
    BY <1>1, <2>1
  <2> QED
    BY <1>1, <2>1, <2>2, <2>3, EndedTyped
<1> QED
  BY <1>2, <1>3

\* A frame was read, and reading goes on.
LEMMA OnwardTyped ==
  ASSUME Socketed, driver' = driver, pc = "reading", pc' = "reading",
         UNCHANGED <<kinds, settled, excused, cancelled, crashed, faults, botKnown>>,
         UNCHANGED <<link, sent, backoff, lost, resumable, hand>>,
         wire' \in Seq(Frame), \A i \in DOMAIN wire' : Sensible(wire'[i]),
         closing' \in BOOLEAN, asked' \in {"none", "identify", "resume"},
         pending' \in [Messages -> SUBSET {0, 1}],
         emitted' \in Seq(Written), skipped' \subseteq Written,
         beats' \subseteq {"own", "stray"}, "stray" \in beats' => driver = "discord"
  PROVE  Socketed'
<1>1. FeedTypeOK'
  BY DEF Socketed, TypeOK, FeedTypeOK, Written
<1>2. TypeOK'
  BY <1>1 DEF Socketed, TypeOK, Frame, Control, Messages, Written
<1>3. AllSensible'
  BY WireSensible DEF Written
<1>4. hand' = <<>>
  BY DEF Socketed, SocketInv
<1>5. SocketInv'
  BY <1>3, <1>4 DEF SocketInv
<1> QED
  BY <1>2, <1>5 DEF Socketed

\* Every way to read a frame (the select! loops of the drivers).
LEMMA ReadTyped ==
  ASSUME Socketed, Read, driver' = driver
  PROVE  Socketed'
<1> DEFINE frame == Head(wire)
<1>1. /\ pc = "reading" /\ wire # <<>>
      /\ UNCHANGED <<kinds, settled, excused, cancelled, crashed, faults, botKnown>>
  BY DEF Read
<1>2. \/ ReadEnd(frame) \/ ReadFatal(frame) \/ ReadHello(frame) \/ ReadBeat(frame)
      \/ HandleEnvelope(frame) \/ HandleDispatch(frame) \/ ReadPiece(frame)
  BY Zenon DEF Read
<1>3. /\ hand = <<>> /\ faults \in 0..MaxFaults /\ resumable \in BOOLEAN /\ closing \in BOOLEAN
      /\ asked \in {"none", "identify", "resume"} /\ pending \in [Messages -> SUBSET {0, 1}]
      /\ emitted \in Seq(Written) /\ skipped \subseteq Written
      /\ beats \subseteq {"own", "stray"} /\ ("stray" \in beats => driver = "discord")
      /\ wire \in Seq(Frame) /\ botKnown \in BOOLEAN /\ FeedTypeOK
  BY <1>1 DEF Socketed, TypeOK, FeedTypeOK, SocketInv
<1>4. /\ Tail(wire) \in Seq(Frame) /\ \A i \in DOMAIN Tail(wire) : Sensible(Tail(wire)[i])
      /\ frame \in Frame /\ Sensible(frame)
  BY <1>1, WireTail
<1>5. frame.kind = "msg" => frame.m \in Written /\ frame.piece \in Whole(frame.m)
  BY <1>4 DEF Sensible
<1>6. frame.kind \in {"hello", "beat"} => driver = "discord"
  BY <1>4 DEF Sensible
<1>7. Detached \subseteq {"own", "stray"} /\ "own" \notin Detached
  BY <1>3 DEF Detached
<1> HIDE DEF frame
<1>8. CASE ReadEnd(frame)
  <2>1. Ended(TRUE) /\ UNCHANGED <<emitted, skipped, hand>> /\ resumable' \in BOOLEAN
    BY <1>8 DEF ReadEnd
  <2>2. UNCHANGED <<kinds, settled, hand, emitted, skipped, excused, cancelled, crashed, botKnown>> /\ faults' \in 0..MaxFaults
    BY <1>1, <1>3, <2>1
  <2> QED
    BY <1>3, <2>1, <2>2, EndedTyped, Zenon
<1>9. CASE ReadFatal(frame)
  <2>1. /\ NoConnection /\ lost' = LostBut(<<>>) /\ pc' = "stopped"
        /\ UNCHANGED <<backoff, resumable, emitted, skipped, hand>>
    BY <1>9 DEF ReadFatal
  <2>2. lost' \subseteq settled
    BY <1>3, <2>1 DEF FeedTypeOK, LostBut
  <2>3. FeedTypeOK'
    BY <1>1, <1>3, <2>1, <2>2 DEF FeedTypeOK, Written
  <2>4. ConnectionGone /\ beats' = beats \ {"own"}
    BY <2>1 DEF NoConnection
  <2>5. beats' \subseteq {"stray"} /\ (beats' # {} => driver = "discord")
    BY <1>3, <2>4
  <2> QED
    BY <1>1, <1>3, <2>1, <2>3, <2>4, <2>5, GoneTyped
<1>10. CASE ReadHello(frame)
  <2>1. driver = "discord"
    BY <1>6, <1>10 DEF ReadHello
  <2>2. UNCHANGED <<resumable, emitted, skipped, hand>>
    BY <1>10 DEF ReadHello
  <2>3. CASE SendFails(Detached \cup {"stray"})
    <3>1. Detached \cup {"stray"} \subseteq {"stray"}
      BY <1>7
    <3>2. UNCHANGED <<kinds, settled, hand, emitted, skipped, excused, cancelled, crashed, faults, resumable, botKnown>>
      BY <1>1, <2>2
    <3> QED
      BY <1>3, <2>1, <2>3, <3>1, <3>2, SendFailsTyped
  <2>4. CASE ~SendFails(Detached \cup {"stray"})
    <3>1. /\ asked' = IF asked = "none" THEN "identify" ELSE asked
          /\ beats' = Detached \cup {"own"}
          /\ wire' = Tail(wire)
          /\ UNCHANGED <<link, sent, closing, pending, pc, backoff, lost>>
      BY <1>10, <2>4 DEF ReadHello
    <3>2. asked' \in {"none", "identify", "resume"} /\ beats' \subseteq {"own", "stray"}
      BY <1>3, <1>7, <3>1
    <3>3. closing' \in BOOLEAN /\ pending' \in [Messages -> SUBSET {0, 1}] /\ emitted' \in Seq(Written) /\ skipped' \subseteq Written
      BY <1>3, <2>2, <3>1
    <3>4. wire' \in Seq(Frame) /\ \A i \in DOMAIN wire' : Sensible(wire'[i])
      BY <1>4, <3>1
    <3>5. pc' = "reading" /\ UNCHANGED <<link, sent, backoff, lost, resumable, hand>>
      BY <1>1, <2>2, <3>1
    <3> QED
      BY <1>1, <2>1, <3>2, <3>3, <3>4, <3>5, OnwardTyped
  <2> QED
    BY <2>3, <2>4
<1>11. CASE ReadBeat(frame)
  <2>1. driver = "discord"
    BY <1>6, <1>11 DEF ReadBeat
  <2>2. UNCHANGED <<resumable, emitted, skipped, hand>>
    BY <1>11 DEF ReadBeat
  <2>3. CASE SendFails(Detached)
    <3>1. Detached \subseteq {"stray"}
      BY <1>7
    <3>2. UNCHANGED <<kinds, settled, hand, emitted, skipped, excused, cancelled, crashed, faults, resumable, botKnown>>
      BY <1>1, <2>2
    <3> QED
      BY <1>3, <2>1, <2>3, <3>1, <3>2, SendFailsTyped
  <2>4. CASE ~SendFails(Detached)
    <3>1. /\ wire' = Tail(wire)
          /\ UNCHANGED <<link, sent, closing, asked, pending, beats, pc, backoff, lost>>
      BY <1>11, <2>4 DEF ReadBeat
    <3>3. /\ closing' \in BOOLEAN /\ pending' \in [Messages -> SUBSET {0, 1}] /\ emitted' \in Seq(Written)
          /\ skipped' \subseteq Written /\ asked' \in {"none", "identify", "resume"} /\ beats' \subseteq {"own", "stray"}
      BY <1>3, <2>2, <3>1
    <3>4. wire' \in Seq(Frame) /\ \A i \in DOMAIN wire' : Sensible(wire'[i])
      BY <1>4, <3>1
    <3>5. pc' = "reading" /\ UNCHANGED <<link, sent, backoff, lost, resumable, hand>>
      BY <1>1, <2>2, <3>1
    <3> QED
      BY <1>1, <2>1, <3>3, <3>4, <3>5, OnwardTyped
  <2> QED
    BY <2>3, <2>4
<1>12. CASE HandleEnvelope(frame)
  <2>1. /\ closing' = TRUE /\ wire' = Tail(wire)
        /\ UNCHANGED <<link, sent, asked, pending, beats, pc, backoff, lost, resumable, emitted, skipped, hand>>
    BY <1>12 DEF HandleEnvelope
  <2>2. /\ closing' \in BOOLEAN /\ pending' \in [Messages -> SUBSET {0, 1}] /\ emitted' \in Seq(Written)
        /\ skipped' \subseteq Written /\ asked' \in {"none", "identify", "resume"}
        /\ beats' \subseteq {"own", "stray"} /\ ("stray" \in beats' => driver = "discord")
    BY <1>3, <2>1
  <2>3. wire' \in Seq(Frame) /\ \A i \in DOMAIN wire' : Sensible(wire'[i])
    BY <1>4, <2>1
  <2>4. pc' = "reading" /\ UNCHANGED <<link, sent, backoff, lost, resumable, hand>>
    BY <1>1, <2>1
  <2> QED
    BY <1>1, <2>2, <2>3, <2>4, OnwardTyped
<1>13. CASE HandleDispatch(frame)
  <2>1. /\ frame.kind = "msg" /\ driver = "discord" /\ wire' = Tail(wire)
        /\ UNCHANGED <<link, sent, closing, asked, pending, beats, pc, backoff, lost, resumable, hand>>
    BY <1>13 DEF HandleDispatch
  <2>2. frame.m \in Written
    BY <1>5, <2>1
  <2>3. emitted' \in Seq(Written) /\ skipped' \subseteq Written
    <3>1. \/ emitted' = Append(emitted, frame.m) /\ skipped' = skipped
          \/ emitted' = emitted /\ skipped' = skipped \cup {frame.m}
      BY <1>13 DEF HandleDispatch
    <3>2. Append(emitted, frame.m) \in Seq(Written)
      BY <1>3, <2>2, RangeOfAppend
    <3> QED
      BY <1>3, <2>2, <3>1, <3>2
  <2>4. /\ closing' \in BOOLEAN /\ pending' \in [Messages -> SUBSET {0, 1}]
        /\ asked' \in {"none", "identify", "resume"} /\ beats' \subseteq {"own", "stray"}
    BY <1>3, <2>1
  <2>5. wire' \in Seq(Frame) /\ \A i \in DOMAIN wire' : Sensible(wire'[i])
    BY <1>4, <2>1
  <2>6. pc' = "reading" /\ UNCHANGED <<link, sent, backoff, lost, resumable, hand>>
    BY <1>1, <2>1
  <2> QED
    BY <1>1, <2>1, <2>3, <2>4, <2>5, <2>6, OnwardTyped
<1>14. CASE ReadPiece(frame)
  <2>1. /\ frame.kind = "msg" /\ driver # "discord" /\ Push(frame.m, frame.piece) /\ wire' = Tail(wire)
        /\ UNCHANGED <<link, sent, closing, asked, beats, backoff, lost, resumable, emitted, skipped>>
    BY <1>14 DEF ReadPiece
  <2>2. frame.m \in Written /\ frame.m \in Messages /\ frame.piece \in {0, 1}
    BY <1>3, <1>4, <1>5, <2>1, WrittenFacts, FrameForms
  <2> DEFINE got == pending[frame.m] \cup {frame.piece}
  <2>3. got \in SUBSET {0, 1}
    BY <1>3, <2>2
  <2>4. \/ hand' = <<frame.m>> /\ pc' = "ack" /\ pending' = [pending EXCEPT ![frame.m] = {}]
        \/ pending' = [pending EXCEPT ![frame.m] = got] /\ UNCHANGED <<hand, pc>>
    BY <2>1 DEF Push
  <2> HIDE DEF got
  <2>5. pending' \in [Messages -> SUBSET {0, 1}]
    BY <1>3, <2>2, <2>3, <2>4
  <2>6. wire' \in Seq(Frame) /\ \A i \in DOMAIN wire' : Sensible(wire'[i])
    BY <1>4, <2>1
  <2>7. CASE hand' = <<frame.m>> /\ pc' = "ack"
    <3>1. FeedTypeOK'
      BY <1>1, <1>3, <2>1, <2>2, <2>7 DEF FeedTypeOK, Written
    <3>2. TypeOK'
      BY <1>1, <2>1, <2>5, <2>6, <2>7, <3>1 DEF Socketed, TypeOK, Frame, Control, Messages, Written
    <3>3. Written' = Written
      BY <1>1 DEF Written
    <3>4. AllSensible'
      BY <2>6, <3>3, WireSensible
    <3>5. SocketInv'
      BY <2>2, <2>7, <3>3, <3>4 DEF SocketInv
    <3> QED
      BY <3>2, <3>5 DEF Socketed
  <2>8. CASE UNCHANGED <<hand, pc>>
    <3>1. /\ closing' \in BOOLEAN /\ emitted' \in Seq(Written) /\ skipped' \subseteq Written
          /\ asked' \in {"none", "identify", "resume"}
          /\ beats' \subseteq {"own", "stray"} /\ ("stray" \in beats' => driver = "discord")
      BY <1>3, <2>1
    <3>2. pc' = "reading" /\ UNCHANGED <<link, sent, backoff, lost, resumable, hand>>
      BY <1>1, <2>1, <2>8
    <3> QED
      BY <1>1, <2>5, <2>6, <3>1, <3>2, OnwardTyped
  <2> QED
    BY <2>4, <2>7, <2>8
<1> QED
  BY <1>2, <1>8, <1>9, <1>10, <1>11, <1>12, <1>13, <1>14

\* What is emitted of the messages in hand, in their order.
LEMMA EmitFacts ==
  ASSUME FeedTypeOK, NEW F, EmitHand(F)
  PROVE  /\ hand' = <<>> /\ skipped' = skipped \cup (Range(hand) \ F)
         /\ emitted' \in Seq(Written) /\ skipped' \subseteq Written
         /\ Range(emitted') = Range(emitted) \cup (Range(hand) \cap F)
         /\ Handled' = Handled \cup Range(hand)
         /\ \E batch \in Seq(Written) :
              emitted' = emitted \o batch /\ Range(batch) = Range(hand) \cap F /\ Increasing(batch)
<1>1. hand' = <<>> /\ skipped' = skipped \cup (Range(hand) \ F)
  BY DEF EmitHand
<1>2. hand \in Seq(Written) /\ emitted \in Seq(Written) /\ skipped \subseteq Written
  BY DEF FeedTypeOK
<1>3. Range(hand) \subseteq Written
  BY <1>2, RangeFacts
<1>4. IsFiniteSet(Range(hand) \cap F)
  <2>1. Len(kinds) \in Int /\ 1 \in Int /\ Written = 1..Len(kinds)
    BY WrittenFacts
  <2>2. IsFiniteSet(Written)
    BY <2>1, FS_Interval, Zenon
  <2>3. Range(hand) \cap F \subseteq Written
    BY <1>3
  <2> QED
    BY <2>2, <2>3, FS_Subset
<1>5. PICK batch \in InOrder(Range(hand) \cap F) : emitted' = emitted \o batch
  BY DEF EmitHand
<1>6. batch \in Seq(Range(hand) \cap F) /\ Range(batch) = Range(hand) \cap F /\ Increasing(batch)
  BY <1>4, <1>5, InOrderFacts
<1>7. batch \in Seq(Written)
  BY <1>3, <1>6
<1>8. emitted' \in Seq(Written) /\ Range(emitted') = Range(emitted) \cup Range(batch)
  BY <1>2, <1>5, <1>7, RangeOfConcat
<1>9. Handled' = Handled \cup Range(hand)
  BY <1>1, <1>6, <1>8 DEF Handled
<1> QED
  BY <1>1, <1>2, <1>3, <1>5, <1>6, <1>7, <1>8, <1>9

\* The steps from the acknowledgement of a message to its handling.
LEMMA HandlingTyped ==
  ASSUME Socketed, Ack \/ EnsureBotOpenId \/ EmitEventsApi \/ HandleFrame \/ HandleBinary, driver' = driver
  PROVE  Socketed'
<1>1. FeedTypeOK /\ hand \in Seq(Written) /\ settled \subseteq Written /\ excused \subseteq Written
  BY DEF Socketed, TypeOK, FeedTypeOK
<1>2. Range(hand) \subseteq Written
  BY <1>1, RangeFacts
<1>3. CASE Ack
  <2>1. pc = "ack" /\ pc' \in {"lookup", "forward"}
    BY <1>3 DEF Ack
  <2>2. UNCHANGED <<kinds, hand, emitted, skipped, lost, backoff, cancelled, crashed, faults, socket>>
    BY <1>3 DEF Ack
  <2>3. settled' \subseteq Written /\ excused' \subseteq Written /\ settled \subseteq settled'
    BY <1>1, <1>2, <1>3 DEF Ack
  <2>4. FeedTypeOK'
    BY <1>1, <2>1, <2>2, <2>3 DEF FeedTypeOK, Written
  <2>5. TypeOK'
    BY <2>1, <2>2, <2>4 DEF Socketed, TypeOK, socket, conn, Frame, Control, Messages, Written
  <2>6. AllSensible'
    BY <2>2, WireSensible DEF Socketed, SocketInv, AllSensible, socket, conn, Written
  <2>7. SocketInv'
    <3>1. \E m \in Written' : hand' = <<m>>
      BY <2>1, <2>2 DEF Socketed, SocketInv, Written
    <3> QED
      BY <2>1, <2>6, <3>1 DEF SocketInv
  <2> QED
    BY <2>5, <2>7 DEF Socketed
<1>4. CASE EnsureBotOpenId
  <2>1. pc = "lookup" /\ pc' = "forward" /\ botKnown' \in BOOLEAN
        /\ UNCHANGED <<messages, backoff, cancelled, crashed, faults, conn, resumable>>
    BY <1>4 DEF EnsureBotOpenId, Socketed, TypeOK
  <2>4. FeedTypeOK'
    BY <1>1, <2>1 DEF FeedTypeOK, Written, messages
  <2>5. TypeOK'
    BY <2>1, <2>4 DEF Socketed, TypeOK, messages, conn, Frame, Control, Messages, Written
  <2>6. AllSensible'
    BY <2>1, WireSensible DEF Socketed, SocketInv, AllSensible, messages, conn, Written
  <2>7. SocketInv'
    <3>1. \E m \in Written' : hand' = <<m>>
      BY <2>1 DEF Socketed, SocketInv, Written, messages
    <3> QED
      BY <2>1, <2>6, <3>1 DEF SocketInv
  <2> QED
    BY <2>5, <2>7 DEF Socketed
<1>5. CASE EmitEventsApi \/ HandleFrame \/ HandleBinary
  <2>1. PICK m \in Range(hand), forwards \in BOOLEAN : Forward(m, forwards)
    <3>1. ASSUME NEW m \in Range(hand), Forward(m, kinds[m] # "skip")
          PROVE  \E n \in Range(hand), forwards \in BOOLEAN : Forward(n, forwards)
      <4> DEFINE f == kinds[m] # "skip"
      <4>1. f \in BOOLEAN
        OBVIOUS
      <4>2. Forward(m, f)
        BY <3>1
      <4> QED
        BY <4>1, <4>2, Zenon
    <3>2. ASSUME NEW m \in Range(hand), NEW forwards \in ShouldForward(m), Forward(m, forwards)
          PROVE  \E n \in Range(hand), f \in BOOLEAN : Forward(n, f)
      <4>1. forwards \in BOOLEAN
        BY DEF ShouldForward
      <4> QED
        BY <3>2, <4>1, Zenon
    <3> QED
      BY <1>5, <3>1, <3>2, Zenon DEF EmitEventsApi, HandleFrame, HandleBinary
  <2>2. pc = "forward" /\ pc' = "reading" /\ EmitHand(IF forwards THEN {m} ELSE {})
        /\ UNCHANGED <<kinds, settled, lost, excused, backoff, cancelled, crashed, faults, socket>>
    BY <2>1 DEF Forward
  <2>3. hand' = <<>> /\ emitted' \in Seq(Written) /\ skipped' \subseteq Written
    BY <1>1, <2>2, EmitFacts
  <2>4. FeedTypeOK'
    BY <1>1, <2>2, <2>3 DEF FeedTypeOK, Written
  <2>5. TypeOK'
    BY <2>2, <2>4 DEF Socketed, TypeOK, socket, conn, Frame, Control, Messages, Written
  <2>6. AllSensible'
    BY <2>2, WireSensible DEF Socketed, SocketInv, AllSensible, socket, conn, Written
  <2>7. SocketInv'
    BY <2>2, <2>3, <2>6 DEF SocketInv
  <2> QED
    BY <2>5, <2>7 DEF Socketed
<1> QED
  BY <1>3, <1>4, <1>5

\* The heartbeat tasks, and deactivate.
LEMMA BesideTyped ==
  ASSUME Socketed, BeatCancelled \/ BeatFails \/ (CancelPump /\ UNCHANGED socket), driver' = driver
  PROVE  Socketed'
<1>1. /\ UNCHANGED <<messages, pc, backoff, crashed, faults, link, wire, sent, closing, asked, pending, resumable, botKnown>>
      /\ cancelled' \in BOOLEAN /\ beats' \subseteq beats
  BY DEF BeatCancelled, BeatFails, CancelPump, feed, task, messages, socket, conn, Socketed, TypeOK, FeedTypeOK
<1>2. FeedTypeOK'
  BY <1>1 DEF Socketed, TypeOK, FeedTypeOK, Written, messages
<1>3. TypeOK'
  BY <1>1, <1>2 DEF Socketed, TypeOK, messages, Frame, Control, Messages, Written
<1>4. AllSensible'
  BY <1>1, WireSensible DEF Socketed, SocketInv, AllSensible, messages, Written
<1>5. SocketInv'
  BY <1>1, <1>4 DEF Socketed, SocketInv, messages, Written
<1> QED
  BY <1>3, <1>5 DEF Socketed

\* A step of the platform or of a user.
LEMMA OutsideTyped ==
  ASSUME Socketed, driver' = driver, FeedTypeOK', Written \subseteq Written',
         UNCHANGED <<hand, pc, closing, asked, pending, beats, resumable, botKnown>>,
         wire' \in Seq(Frame), AllSensible', sent' \subseteq Written',
         \/ link = "up" /\ link' \in {"up", "severed"}
         \/ link' = link /\ wire' = wire /\ sent' = sent
  PROVE  Socketed'
<1>1. link' \in {"none", "up", "severed"}
  BY DEF Socketed, TypeOK
<1>2. TypeOK'
  BY <1>1 DEF Socketed, TypeOK, Frame, Control, Messages
<1>3. pc' \in {"ack", "lookup", "forward"} => \E m \in Written' : hand' = <<m>>
  BY DEF Socketed, SocketInv
<1>4. pc' \in {"top", "fetch", "dial", "sleep", "stopped"} =>
        link' = "none" /\ wire' = <<>> /\ sent' = {} /\ \A m \in Messages : pending'[m] = {}
  BY DEF Socketed, SocketInv
<1>5. SocketInv'
  BY <1>3, <1>4 DEF Socketed, SocketInv, Messages
<1> QED
  BY <1>2, <1>5 DEF Socketed

\* A user writes the next message.
LEMMA PostedFacts ==
  ASSUME FeedTypeOK, NEW kind \in Kinds, Posted(kind), driver' = driver
  PROVE  /\ kinds' \in Seq(Kinds) /\ Len(kinds') = Len(kinds) + 1 /\ Len(kinds') <= MaxMessages
         /\ Written' = 1..(Len(kinds) + 1) /\ Written \subseteq Written' /\ Len(kinds') \in Written'
         /\ Len(kinds') \in Messages /\ Len(kinds') \notin Written
         /\ \A m \in Written : m < Len(kinds')
         /\ \A m \in Written' : m \in Written \/ m = Len(kinds')
<1>1. kinds \in Seq(Kinds) /\ Len(kinds) < MaxMessages /\ kinds' = Append(kinds, kind) /\ MaxMessages \in Nat
  BY FeedConstants DEF FeedTypeOK, Posted, Write
<1>2. kinds' \in Seq(Kinds) /\ Len(kinds') = Len(kinds) + 1 /\ Len(kinds) \in Nat
  BY <1>1
<1>3. Written = 1..Len(kinds) /\ Written' = 1..(Len(kinds) + 1)
  BY <1>1, <1>2 DEF Written
<1> QED
  BY <1>1, <1>2, <1>3 DEF Messages

\* It is sent at once by Discord, and by nobody else.
LEMMA PostedTyped ==
  ASSUME Socketed, NEW kind \in Kinds, Posted(kind), driver' = driver
  PROVE  Socketed'
<1> DEFINE n == Len(kinds')
<1>0. FeedTypeOK /\ wire \in Seq(Frame) /\ AllSensible
  BY DEF Socketed, TypeOK, SocketInv
<1>1. /\ kinds' \in Seq(Kinds) /\ n <= MaxMessages /\ Written \subseteq Written' /\ n \in Written' /\ n \in Messages
  BY <1>0, PostedFacts, Zenon
<1>2. UNCHANGED <<hand, emitted, skipped, excused, pc, backoff, cancelled, crashed, faults>>
      /\ UNCHANGED <<link, sent, closing, asked, pending, beats, resumable, botKnown>>
  BY DEF Posted, task
<1>3. \/ UNCHANGED <<settled, lost, wire>>
      \/ driver = "discord" /\ settled' = settled \cup {n} /\ lost' = lost /\ wire' = Append(wire, Piece(n, 0)) /\ link = "up"
      \/ driver = "discord" /\ settled' = settled \cup {n} /\ lost' = lost \cup {n} /\ wire' = wire
  BY DEF Posted
<1> HIDE DEF n
<1>4. settled' \subseteq Written' /\ lost' \subseteq settled'
  BY <1>0, <1>1, <1>3 DEF FeedTypeOK
<1>5. Seq(Written) \subseteq Seq(Written')
  BY <1>1
<1>6. FeedTypeOK'
  BY <1>0, <1>1, <1>2, <1>4, <1>5 DEF FeedTypeOK, n
<1>7. wire' \in Seq(Frame) /\ AllSensible'
  <2>1. CASE wire' = wire
    <3>1. \A i \in DOMAIN wire : Sensible(wire[i])
      BY <1>0 DEF AllSensible
    <3> QED
      BY <1>0, <1>1, <2>1, <3>1, WireSensible
  <2>2. CASE wire' = Append(wire, Piece(n, 0)) /\ driver = "discord"
    <3> DEFINE f == Piece(n, 0)
    <3>1. f \in Frame /\ f.kind = "msg" /\ f.m = n /\ f.piece = 0
      BY <1>1, FrameForms
    <3>2. 0 \in Whole(n)
      BY <2>2 DEF Whole
    <3> HIDE DEF f
    <3>3. /\ wire' \in Seq(Frame) /\ wire'[Len(wire) + 1] = f /\ \A i \in 1..Len(wire) : wire'[i] = wire[i]
          /\ DOMAIN wire' = 1..(Len(wire) + 1) /\ DOMAIN wire = 1..Len(wire) /\ Len(wire) \in Nat
      <4>1. wire' = Append(wire, f)
        BY <2>2 DEF f
      <4>2. /\ wire' \in Seq(Frame) /\ wire'[Len(wire) + 1] = f /\ \A i \in 1..Len(wire) : wire'[i] = wire[i]
            /\ Len(wire') = Len(wire) + 1
        BY <1>0, <3>1, <4>1, RangeOfAppend
      <4> QED
        BY <1>0, <4>2
    <3>4. \A i \in DOMAIN wire' : wire'[i] = f \/ (i \in DOMAIN wire /\ wire'[i] = wire[i])
      BY <3>3
    <3>5. \A i \in DOMAIN wire : Sensible(wire[i])
      BY <1>0 DEF AllSensible
    <3>6. \A g : Sensible(g) =>
              /\ IF g.kind = "msg" THEN g.m \in Written' /\ g.piece \in Whole(g.m)' ELSE g.m = 0
              /\ g.kind \in {"hello", "beat"} => driver' = "discord"
      BY <1>1 DEF Sensible, Whole
    <3>7. /\ IF f.kind = "msg" THEN f.m \in Written' /\ f.piece \in Whole(f.m) ELSE f.m = 0
          /\ f.kind \in {"hello", "beat"} => driver' = "discord"
      BY <1>1, <2>2, <3>1, <3>2
    <3>8. \A i \in DOMAIN wire' :
              /\ IF wire'[i].kind = "msg" THEN wire'[i].m \in Written' /\ wire'[i].piece \in Whole(wire'[i].m) ELSE wire'[i].m = 0
              /\ wire'[i].kind \in {"hello", "beat"} => driver' = "discord"
      <4> TAKE i \in DOMAIN wire'
      <4>1. CASE wire'[i] = f
        BY <3>7, <4>1
      <4>2. CASE i \in DOMAIN wire /\ wire'[i] = wire[i]
        <5>1. Sensible(wire[i])
          BY <3>5, <4>2
        <5> QED
          BY <1>1, <4>2, <5>1 DEF Sensible
      <4> QED
        BY <3>4, <4>1, <4>2
    <3> QED
      BY <3>3, <3>8 DEF AllSensible, Sensible, Whole
  <2> QED
    BY <1>3, <2>1, <2>2 DEF n
<1>8. sent' \subseteq Written' /\ link' = link
  BY <1>1, <1>2 DEF Socketed, TypeOK
<1>9. (link = "up" /\ link' = "up") \/ wire' = wire
  BY <1>3, <1>8
<1> QED
  BY <1>1, <1>2, <1>6, <1>7, <1>8, <1>9, OutsideTyped

\* The frames of a written message are sensible.
LEMMA FramesSensible ==
  ASSUME Socketed, NEW m \in Written, NEW f \in Frames(m)
  PROVE  f \in Seq(Frame) /\ \A i \in DOMAIN f : Sensible(f[i])
<1>1. m \in Messages
  BY WrittenFacts DEF Socketed, TypeOK
<1>2. /\ f \in Seq(Frame)
      /\ \A i \in DOMAIN f : \E p \in Whole(m) : f[i] = Piece(m, p)
  BY <1>1, FramesFacts
<1>3. \A p \in Whole(m) : Sensible(Piece(m, p))
  BY FrameForms DEF Sensible
<1> QED
  BY <1>2, <1>3

\* A message is sent, or sent again.
LEMMA DeliveryTyped ==
  ASSUME Socketed, driver' = driver, Deliver \/ Redeliver
  PROVE  Socketed'
<1>0. FeedTypeOK /\ sent \subseteq Written
  BY DEF Socketed, TypeOK
<1>1. PICK m \in Written :
        /\ \E frames \in Frames(m) : wire' = wire \o frames
        /\ sent' \in {sent, sent \cup {m}} /\ excused' \in {excused, excused \cup {m}}
  BY <1>0 DEF Deliver, Redeliver, feed, messages
<1>2. PICK frames \in Frames(m) : wire' = wire \o frames
  BY <1>1
<1>3. wire' \in Seq(Frame) /\ \A i \in DOMAIN wire' : Sensible(wire'[i])
  BY <1>2, FramesSensible, WireConcat
<1>4. /\ link = "up" /\ link' = link
      /\ UNCHANGED <<kinds, settled, hand, emitted, skipped, lost, pc, backoff, cancelled, crashed>>
      /\ UNCHANGED <<closing, asked, pending, beats, resumable, botKnown>>
      /\ faults' \in 0..MaxFaults
  <2>1. CASE Deliver
    BY <1>0, <2>1 DEF Deliver, feed, messages, task, FeedTypeOK
  <2>2. CASE Redeliver
    <3>1. faults' \in 0..MaxFaults
      BY <1>0, <2>2, FeedConstants DEF Redeliver, Fault, FeedTypeOK
    <3> QED
      BY <2>2, <3>1 DEF Redeliver
  <2> QED
    BY <2>1, <2>2
<1>5. Written' = Written
  BY <1>4 DEF Written
<1>6. FeedTypeOK'
  BY <1>0, <1>1, <1>4, <1>5 DEF FeedTypeOK
<1>7. AllSensible'
  BY <1>3, <1>5, WireSensible
<1>8. sent' \subseteq Written'
  BY <1>0, <1>1, <1>5
<1> QED
  BY <1>3, <1>4, <1>5, <1>6, <1>7, <1>8, OutsideTyped

\* A connection is cut or closed by the platform, or it sends something else.
LEMMA TroubleTyped ==
  ASSUME Socketed, driver' = driver, Sever \/ AnswerClose \/ \E kind \in Control : SendControl(kind)
  PROVE  Socketed'
<1>0. FeedTypeOK /\ sent \subseteq Written /\ faults \in 0..MaxFaults /\ MaxFaults \in Nat
  BY FeedConstants DEF Socketed, TypeOK, FeedTypeOK
<1>1. /\ UNCHANGED <<kinds, settled, hand, emitted, skipped, excused, pc, backoff, cancelled, crashed>>
      /\ UNCHANGED <<sent, closing, asked, pending, beats, resumable, botKnown>>
      /\ link = "up" /\ link' \in {"up", "severed"}
  BY DEF Sever, AnswerClose, SendControl, feed, messages, task
<1>2. faults' \in 0..MaxFaults
  BY <1>0 DEF Sever, AnswerClose, SendControl, feed, task, Fault
<1>3. lost' \subseteq settled
  BY <1>0 DEF Sever, AnswerClose, SendControl, feed, messages, LostBut, FeedTypeOK
<1>4. Written' = Written
  BY <1>1 DEF Written
<1>5. FeedTypeOK'
  BY <1>0, <1>1, <1>2, <1>3, <1>4 DEF FeedTypeOK
<1>6. wire' \in Seq(Frame) /\ \A i \in DOMAIN wire' : Sensible(wire'[i])
  <2>1. CASE Sever
    <3>1. PICK n \in 0..Len(wire) : wire' = SubSeq(wire, 1, n)
      BY <2>1 DEF Sever
    <3> QED
      BY <3>1, WireCut
  <2>2. CASE AnswerClose
    <3>1. Plain("close") \in Frame /\ Plain("close").kind = "close" /\ Plain("close").m = 0
      BY FrameForms DEF Control
    <3>2. Sensible(Plain("close"))
      BY <3>1 DEF Sensible
    <3>3. wire' = Append(wire, Plain("close"))
      BY <2>2 DEF AnswerClose
    <3> QED
      BY <3>1, <3>2, <3>3, WireAppend
  <2>3. ASSUME NEW kind \in Control, SendControl(kind)
        PROVE  wire' \in Seq(Frame) /\ \A i \in DOMAIN wire' : Sensible(wire'[i])
    <3>1. Plain(kind) \in Frame /\ Plain(kind).kind = kind /\ Plain(kind).m = 0 /\ kind # "msg"
      BY FrameForms
    <3>2. kind \in {"hello", "beat"} => driver = "discord"
      BY <2>3 DEF SendControl
    <3>3. Sensible(Plain(kind))
      BY <3>1, <3>2 DEF Sensible
    <3>4. wire' = Append(wire, Plain(kind))
      BY <2>3 DEF SendControl
    <3> QED
      BY <3>1, <3>3, <3>4, WireAppend
  <2> QED
    BY <2>1, <2>2, <2>3
<1>7. AllSensible'
  BY <1>4, <1>6, WireSensible
<1> QED
  BY <1>0, <1>1, <1>4, <1>5, <1>6, <1>7, OutsideTyped

\* The process is restarted.
LEMMA RestartTyped ==
  ASSUME Socketed, driver' = driver, Restart
  PROVE  Socketed'
<1>1. /\ ConnectionGone /\ beats' = {} /\ resumable' = FALSE /\ botKnown' \in BOOLEAN /\ excused' = excused
      /\ crashed' = TRUE /\ hand' = <<>> /\ lost' = lost \cup (settled \ Handled) /\ pc' = "top" /\ backoff' = 0
      /\ UNCHANGED <<kinds, settled, emitted, skipped, cancelled>> /\ Fault
  BY DEF Restart, RestartTask
<1>2. faults' \in 0..MaxFaults /\ 0 \in 0..MaxBackoff
  BY <1>1, FeedConstants DEF Fault, Socketed, TypeOK, FeedTypeOK
<1>3. FeedTypeOK'
  BY <1>1, <1>2 DEF Socketed, TypeOK, FeedTypeOK, Written
<1>4. beats' \subseteq {"stray"} /\ (beats' # {} => driver = "discord") /\ resumable' \in BOOLEAN
  BY <1>1
<1>5. pc' \in {"top", "stopped", "sleep"}
  BY <1>1
<1> QED
  BY <1>1, <1>3, <1>4, <1>5, GoneTyped

\* Every step keeps what holds of all socket pumps.
LEMMA SocketedKept ==
  ASSUME Socketed, driver' = driver,
         Pump \/ BeatCancelled \/ BeatFails \/ Platform \/ Trouble \/ (\E kind \in Kinds : Posted(kind))
           \/ (CancelPump /\ UNCHANGED socket)
  PROVE  Socketed'
  BY PollingTyped, DialTyped, StopsTyped, ReadTyped, HandlingTyped, BesideTyped, PostedTyped, DeliveryTyped,
     TroubleTyped, RestartTyped
  DEF Pump, Platform, Trouble

-----------------------------------------------------------------------------
(* ---- the drivers that acknowledge ---- *)

\* The kinds of values of a socket pump.
LEMMA SocketFacts ==
  ASSUME Socketed
  PROVE  /\ FeedTypeOK /\ wire \in Seq(Frame) /\ Len(wire) \in Nat /\ DOMAIN wire = 1..Len(wire)
         /\ \A i \in DOMAIN wire : wire[i] \in Frame /\ Sensible(wire[i])
         /\ \A i \in DOMAIN wire : IsMessage(i) =>
              wire[i].m \in Written /\ wire[i].m \in Messages /\ wire[i].piece \in Whole(wire[i].m) /\ wire[i] = Piece(wire[i].m, wire[i].piece)
         /\ hand \in Seq(Written) /\ emitted \in Seq(Written) /\ Range(hand) \subseteq Written /\ Range(emitted) \subseteq Written
         /\ sent \subseteq Written /\ settled \subseteq Written /\ Written \subseteq Messages /\ Messages \subseteq Nat
         /\ pending \in [Messages -> SUBSET {0, 1}] /\ excused \subseteq Written /\ skipped \subseteq Written /\ lost \subseteq settled
         /\ Written = 1..Len(kinds) /\ Len(kinds) \in Nat
<1>1. FeedTypeOK /\ wire \in Seq(Frame) /\ AllSensible /\ hand \in Seq(Written) /\ emitted \in Seq(Written)
      /\ sent \subseteq Written /\ settled \subseteq Written /\ pending \in [Messages -> SUBSET {0, 1}]
      /\ excused \subseteq Written /\ skipped \subseteq Written /\ lost \subseteq settled
  BY DEF Socketed, TypeOK, FeedTypeOK, SocketInv
<1>2. Len(wire) \in Nat /\ DOMAIN wire = 1..Len(wire)
  BY <1>1
<1>3. Written \subseteq Messages /\ Messages \subseteq Nat /\ Written = 1..Len(kinds) /\ Len(kinds) \in Nat
  BY <1>1, WrittenFacts
<1>4. Range(hand) \subseteq Written /\ Range(emitted) \subseteq Written
  BY <1>1, RangeFacts
<1>5. \A i \in DOMAIN wire : wire[i] \in Frame /\ Sensible(wire[i])
  BY <1>1, <1>2 DEF AllSensible
<1>6. ASSUME NEW i \in DOMAIN wire, IsMessage(i)
      PROVE  wire[i].m \in Written /\ wire[i].m \in Messages /\ wire[i].piece \in Whole(wire[i].m) /\ wire[i] = Piece(wire[i].m, wire[i].piece)
  BY <1>3, <1>5, <1>6, FrameForms DEF IsMessage, Sensible
<1> QED
  BY <1>1, <1>2, <1>3, <1>4, <1>5, <1>6

\* Without a connection nothing is on the wire, sent or half gathered.
LEMMA AckedGone ==
  ASSUME Socketed, AckedInv, driver' = driver, ConnectionGone, hand' = <<>>, UNCHANGED <<settled, excused, emitted>>
  PROVE  AckedInv'
<1>1. wire' = <<>> /\ sent' = {} /\ link' = "none" /\ pending' = [m \in Messages |-> {}]
  BY DEF ConnectionGone
<1>2. Range(hand') = {}
  BY RangeOfEmpty
<1>3. EmittedBehind' /\ HandSound' /\ SentInOrder' /\ AllToCome'
  BY <1>1, <1>2 DEF AckedInv, EmittedBehind, HandSound, SentInOrder, AllToCome, Dealt
<1>4. DOMAIN wire' = {}
  BY <1>1
<1>5. WireSent' /\ WireFresh' /\ InTurn'
  BY <1>4 DEF WireSent, WireFresh, InTurn
<1>6. \A m \in Messages : 0 \in Whole(m)'
  BY WholeFacts DEF Whole
<1>7. PendingSound'
  BY <1>1, <1>6 DEF PendingSound, Messages
<1> QED
  BY <1>3, <1>5, <1>7 DEF AckedInv

\* A step that touches neither messages nor frames.
LEMMA AckedSame ==
  ASSUME Socketed, AckedInv, driver' = driver, UNCHANGED <<settled, excused, emitted, hand, wire, sent, pending>>,
         link' = link \/ sent = {}, pc' = pc \/ pc # "ack"
  PROVE  AckedInv'
<1>1. EmittedBehind' /\ HandSound' /\ SentInOrder' /\ PendingSound' /\ WireSent' /\ WireFresh'
  BY DEF AckedInv, EmittedBehind, HandSound, SentInOrder, Dealt, PendingSound, Whole, WireSent, WireFresh, IsMessage, Messages
<1>2. \A m, n : ToCome(m, n) => ToCome(m, n)'
  BY DEF ToCome, Whole
<1>3. InTurn'
  BY <1>2 DEF AckedInv, InTurn, Dealt, IsMessage
<1>4. AllToCome'
  BY <1>2 DEF AckedInv, AllToCome, Dealt
<1> QED
  BY <1>1, <1>3, <1>4 DEF AckedInv

\* The acknowledgement settles the message in hand.
LEMMA AckKeeps ==
  ASSUME Socketed, AckedInv, driver' = driver, Ack
  PROVE  AckedInv'
<1>1. /\ pc = "ack" /\ UNCHANGED <<emitted, hand, wire, sent, pending, link>>
      /\ Dealt' = Dealt \cup Range(hand) /\ settled \subseteq settled' /\ excused \subseteq excused'
      /\ settled' \subseteq settled \cup Range(hand)
  BY DEF Ack, socket, conn, Dealt
<1>2. \A m, n : ToCome(m, n) => ToCome(m, n)'
  BY <1>1 DEF ToCome, Whole
<1>3. EmittedBehind' /\ HandSound'
  BY <1>1 DEF AckedInv, EmittedBehind, HandSound
<1>4. PendingSound' /\ SentInOrder'
  BY <1>1 DEF AckedInv, PendingSound, SentInOrder, Messages, Whole
<1>5. WireSent'
  BY <1>1 DEF AckedInv, WireSent, WireFresh, IsMessage
<1>6. WireFresh'
  BY <1>1 DEF AckedInv, WireFresh, IsMessage
<1>7. InTurn'
  BY <1>1, <1>2 DEF AckedInv, InTurn, IsMessage
<1>8. AllToCome'
  BY <1>1, <1>2 DEF AckedInv, AllToCome
<1> QED
  BY <1>3, <1>4, <1>5, <1>6, <1>7, <1>8 DEF AckedInv

\* The message in hand is emitted, or skipped.
LEMMA ForwardKeeps ==
  ASSUME Socketed, AckedInv, driver' = driver, NEW m \in Range(hand), NEW forwards \in BOOLEAN, Forward(m, forwards)
  PROVE  AckedInv'
<1>1. /\ pc = "forward" /\ EmitHand(IF forwards THEN {m} ELSE {}) /\ UNCHANGED <<settled, excused, wire, sent, pending, link>>
  BY DEF Forward, socket, conn
<1>2. hand' = <<>> /\ Range(emitted') \subseteq Range(emitted) \cup Range(hand)
  BY <1>1, EmitFacts, SocketFacts
<1>3. Range(hand') = {}
  BY <1>2, RangeOfEmpty
<1>4. PICK n \in Written : hand = <<n>>
  BY <1>1 DEF Socketed, SocketInv
<1>5. Range(hand) = {n} /\ n \in Nat /\ n >= 1
  BY <1>4, RangeOfOne, SocketFacts, WrittenFacts
<1>6. n \in Dealt /\ \A k \in 1..(n - 1) : k \in Dealt
  BY <1>1, <1>5 DEF AckedInv, HandSound
<1>7. \A k \in 1..n : k \in Dealt
  BY <1>5, <1>6
<1>8. Dealt' = Dealt
  BY <1>1 DEF Dealt
<1>9. EmittedBehind' /\ HandSound'
  BY <1>2, <1>3, <1>5, <1>7, <1>8 DEF AckedInv, EmittedBehind, HandSound
<1>10. \A k, j : ToCome(k, j) => ToCome(k, j)'
  BY <1>1 DEF ToCome, Whole
<1>11. PendingSound' /\ SentInOrder' /\ WireSent'
  BY <1>1 DEF AckedInv, PendingSound, SentInOrder, Messages, Whole, WireSent, IsMessage
<1>12. WireFresh'
  BY <1>1, <1>3 DEF AckedInv, WireFresh, IsMessage
<1>13. InTurn'
  BY <1>1, <1>5, <1>6, <1>8, <1>10 DEF AckedInv, InTurn, IsMessage
<1>14. AllToCome'
  BY <1>1, <1>5, <1>6, <1>8, <1>10 DEF AckedInv, AllToCome
<1> QED
  BY <1>9, <1>11, <1>12, <1>13, <1>14 DEF AckedInv

\* What is to come is still to come if nothing before it changes.
LEMMA ToComeAgrees ==
  ASSUME driver' = driver, pending' = pending, NEW n, \A i \in 1..n : wire'[i] = wire[i], NEW k, ToCome(k, n)
  PROVE  ToCome(k, n)'
  BY DEF ToCome, Whole

\* A frame that is no message is sent.
LEMMA AppendKeeps ==
  ASSUME Socketed, AckedInv, driver' = driver, NEW f \in Frame, Sensible(f), f.kind # "msg",
         wire' = Append(wire, f), UNCHANGED <<settled, excused, emitted, hand, sent, pending, pc>>,
         link = "up", link' \in {"up", "severed"}
  PROVE  AckedInv'
<1>1. /\ Len(wire) \in Nat /\ DOMAIN wire = 1..Len(wire)
      /\ Len(wire') = Len(wire) + 1 /\ DOMAIN wire' = 1..(Len(wire) + 1)
      /\ \A i \in 1..Len(wire) : wire'[i] = wire[i] /\ i \in 1..(Len(wire) + 1)
      /\ wire'[Len(wire) + 1] = f
      /\ \A i \in 1..(Len(wire) + 1) : i \in 1..Len(wire) \/ i = Len(wire) + 1
  BY WireAppend
<1>2. \A i \in DOMAIN wire' : IsMessage(i)' => i \in 1..Len(wire) /\ IsMessage(i) /\ wire'[i] = wire[i]
  BY <1>1 DEF IsMessage
<1>3. EmittedBehind' /\ HandSound' /\ PendingSound' /\ SentInOrder'
  BY DEF AckedInv, EmittedBehind, HandSound, SentInOrder, Dealt, PendingSound, Whole, Messages
<1>4. WireSent'
  BY <1>1, <1>2 DEF AckedInv, WireSent
<1>5. WireFresh'
  <2> SUFFICES ASSUME NEW i \in DOMAIN wire', IsMessage(i)', wire'[i].m \notin excused
               PROVE  /\ wire'[i].piece \notin pending[wire'[i].m]
                      /\ wire'[i].m \notin Range(hand)
                      /\ \A j \in DOMAIN wire' : wire'[j] = wire'[i] => j = i
    BY DEF WireFresh
  <2>1. i \in 1..Len(wire) /\ IsMessage(i) /\ wire'[i] = wire[i]
    BY <1>2
  <2>2. /\ wire[i].piece \notin pending[wire[i].m]
        /\ wire[i].m \notin Range(hand)
        /\ \A j \in DOMAIN wire : wire[j] = wire[i] => j = i
    BY <1>1, <2>1 DEF AckedInv, WireFresh
  <2>3. ASSUME NEW j \in DOMAIN wire', wire'[j] = wire'[i] PROVE j = i
    <3>1. wire'[j].kind = "msg"
      BY <2>1, <2>3 DEF IsMessage
    <3>2. j \in 1..Len(wire) /\ wire'[j] = wire[j]
      BY <1>1, <3>1
    <3> QED
      BY <1>1, <2>1, <2>2, <2>3, <3>2
  <2> QED
    BY <2>1, <2>2, <2>3
<1>6. InTurn'
  <2> SUFFICES ASSUME NEW i \in DOMAIN wire', IsMessage(i)', NEW k \in 1..(wire'[i].m - 1)
               PROVE  k \in Dealt \cup Range(hand) \/ ToCome(k, i - 1)'
    BY DEF InTurn, Dealt
  <2>1. i \in 1..Len(wire) /\ IsMessage(i) /\ wire'[i] = wire[i]
    BY <1>2
  <2>2. k \in Dealt \cup Range(hand) \/ ToCome(k, i - 1)
    BY <1>1, <2>1 DEF AckedInv, InTurn
  <2>3. \A j \in 1..(i - 1) : wire'[j] = wire[j]
    <3>1. \A j \in 1..(i - 1) : j \in 1..Len(wire)
      BY <1>1, <2>1
    <3> QED
      BY <1>1, <3>1
  <2> QED
    BY <2>2, <2>3, ToComeAgrees
<1>7. AllToCome'
  <2> SUFFICES ASSUME NEW m \in sent PROVE m \in Dealt \cup Range(hand) \/ ToCome(m, Len(wire))'
    BY DEF AllToCome, Dealt
  <2>1. m \in Dealt \cup Range(hand) \/ ToCome(m, Len(wire))
    BY DEF AckedInv, AllToCome
  <2>2. ToCome(m, Len(wire)) => ToCome(m, Len(wire) + 1)
    BY <1>1 DEF ToCome
  <2> QED
    BY <1>1, <2>1 DEF ToCome, Whole
<1> QED
  BY <1>3, <1>4, <1>5, <1>6, <1>7 DEF AckedInv

\* A cut connection loses frames: nothing new will be sent on it, and what is still on
\* its way has all that is older before it.
LEMMA SeverKeeps ==
  ASSUME Socketed, AckedInv, driver' = driver, Sever
  PROVE  AckedInv'
<1>1. PICK n \in 0..Len(wire) : wire' = SubSeq(wire, 1, n)
  BY DEF Sever
<1>2. /\ Len(wire) \in Nat /\ DOMAIN wire = 1..Len(wire) /\ DOMAIN wire' = 1..n
      /\ \A i \in 1..n : wire'[i] = wire[i] /\ i \in 1..Len(wire)
  BY <1>1, WireCut
<1>3. link' = "severed" /\ UNCHANGED <<settled, excused, emitted, hand, sent, pending, pc>>
  BY DEF Sever
<1>4. EmittedBehind' /\ HandSound' /\ PendingSound' /\ SentInOrder'
  BY <1>3 DEF AckedInv, EmittedBehind, HandSound, SentInOrder, Dealt, PendingSound, Whole, Messages
<1>5. \A i \in DOMAIN wire' : i \in DOMAIN wire /\ wire'[i] = wire[i] /\ (IsMessage(i)' => IsMessage(i))
  BY <1>2 DEF IsMessage
<1>6. WireSent'
  BY <1>3, <1>5 DEF AckedInv, WireSent
<1>7. WireFresh'
  BY <1>3, <1>5 DEF AckedInv, WireFresh
<1>8. InTurn'
  <2> SUFFICES ASSUME NEW i \in DOMAIN wire', IsMessage(i)', NEW k \in 1..(wire'[i].m - 1)
               PROVE  k \in Dealt \cup Range(hand) \/ ToCome(k, i - 1)'
    BY <1>3 DEF InTurn, Dealt
  <2>1. k \in Dealt \cup Range(hand) \/ ToCome(k, i - 1)
    BY <1>5 DEF AckedInv, InTurn
  <2>2. \A j \in 1..(i - 1) : wire'[j] = wire[j]
    <3>1. \A j \in 1..(i - 1) : j \in 1..n
      BY <1>2
    <3> QED
      BY <1>2, <3>1
  <2> QED
    BY <1>3, <2>1, <2>2, ToComeAgrees
<1>9. AllToCome'
  BY <1>3 DEF AllToCome
<1> QED
  BY <1>4, <1>6, <1>7, <1>8, <1>9 DEF AckedInv

\* Frames of one more message, or of one that is sent again.
LEMMA DeliveryKeeps ==
  ASSUME Socketed, AckedInv, driver' = driver, link = "up", link' = "up",
         UNCHANGED <<settled, emitted, hand, pending, pc>>,
         NEW m \in Written \ settled, NEW frames \in Frames(m), wire' = wire \o frames,
         sent' = sent \cup {m},
         \/ m \notin sent /\ excused' = excused
         \/ m \in sent /\ excused' = excused \cup {m},
         \A k \in 1..(m - 1) : k \in settled \cup sent
  PROVE  AckedInv'
<1>a. PICK l \in Nat : l = Len(wire)
  BY SocketFacts
<1>0. m \in Messages /\ m \in Nat
  BY SocketFacts
<1>1. /\ frames \in Seq(Frame) /\ \A i \in DOMAIN frames : Sensible(frames[i])
      /\ \A i \in DOMAIN frames : \E p \in Whole(m) : frames[i] = Piece(m, p)
      /\ \A i, j \in DOMAIN frames : frames[i] = frames[j] => i = j
      /\ \A p \in Whole(m) : \E i \in DOMAIN frames : frames[i] = Piece(m, p)
  BY <1>0, FramesSensible, FramesFacts
<1>2. /\ l \in Nat /\ Len(frames) \in Nat /\ DOMAIN wire = 1..l /\ DOMAIN frames = 1..Len(frames)
      /\ Len(wire') = l + Len(frames) /\ DOMAIN wire' = 1..(l + Len(frames))
      /\ \A i \in 1..l : wire'[i] = wire[i] /\ i \in DOMAIN wire'
      /\ \A i \in 1..Len(frames) : wire'[l + i] = frames[i] /\ l + i \in DOMAIN wire'
      /\ \A i \in DOMAIN wire' :
           i \in 1..l \/ (i - l \in 1..Len(frames) /\ i = l + (i - l) /\ l <= i - 1)
  BY <1>1, <1>a, WireConcat
<1>3. \A i \in DOMAIN wire' : i \notin 1..l =>
         wire'[i].kind = "msg" /\ wire'[i].m = m /\ wire'[i].piece \in Whole(m) /\ wire'[i] = frames[i - l] /\ i - l \in DOMAIN frames
  <2> TAKE i \in DOMAIN wire'
  <2> HAVE i \notin 1..l
  <2>1. i - l \in DOMAIN frames /\ wire'[i] = frames[i - l]
    BY <1>2
  <2>2. PICK p \in Whole(m) : frames[i - l] = Piece(m, p)
    BY <1>1, <2>1
  <2> QED
    BY <2>1, <2>2, FrameForms
<1>4. \A i \in 1..l : wire'[i] = wire[i] /\ i \in DOMAIN wire /\ (IsMessage(i)' => IsMessage(i))
  BY <1>2 DEF IsMessage
<1>5. EmittedBehind' /\ HandSound' /\ PendingSound'
  BY DEF AckedInv, EmittedBehind, HandSound, Dealt, PendingSound, Whole, Messages
<1>6. SentInOrder'
  BY DEF AckedInv, SentInOrder
<1>7. WireSent'
  <2> SUFFICES ASSUME NEW i \in DOMAIN wire', IsMessage(i)'
               PROVE  wire'[i].m \in sent' /\ (wire'[i].m \in settled => wire'[i].m \in excused')
    BY DEF WireSent
  <2>1. CASE i \in 1..l
    BY <1>4, <2>1 DEF AckedInv, WireSent
  <2>2. CASE i \notin 1..l
    BY <1>3, <2>2
  <2> QED
    BY <2>1, <2>2
<1>8. WireFresh'
  <2> SUFFICES ASSUME NEW i \in DOMAIN wire', IsMessage(i)', wire'[i].m \notin excused'
               PROVE  /\ wire'[i].piece \notin pending[wire'[i].m]
                      /\ wire'[i].m \notin Range(hand)
                      /\ \A j \in DOMAIN wire' : wire'[j] = wire'[i] => j = i
    BY DEF WireFresh
  <2>1. CASE i \in 1..l
    <3>1. wire'[i] = wire[i] /\ i \in DOMAIN wire /\ IsMessage(i) /\ wire[i].m \notin excused
      BY <1>4, <2>1
    <3>2. /\ wire[i].piece \notin pending[wire[i].m]
          /\ wire[i].m \notin Range(hand)
          /\ \A j \in DOMAIN wire : wire[j] = wire[i] => j = i
      BY <3>1 DEF AckedInv, WireFresh
    <3>3. wire[i].m # m
      BY <3>1 DEF AckedInv, WireSent
    <3>4. ASSUME NEW j \in DOMAIN wire', wire'[j] = wire'[i] PROVE j = i
      <4>1. j \in 1..l
        BY <1>3, <3>1, <3>3, <3>4
      <4> QED
        BY <1>4, <3>1, <3>2, <3>4, <4>1
    <3> QED
      BY <3>1, <3>2, <3>4
  <2>2. CASE i \notin 1..l
    <3>1. wire'[i].m = m /\ m \notin sent /\ wire'[i] = frames[i - l] /\ i - l \in DOMAIN frames
      BY <1>3, <2>2
    <3>2. pending[m] = {} /\ m \notin Range(hand)
      BY <1>0, <3>1 DEF AckedInv, PendingSound, HandSound
    <3>3. ASSUME NEW j \in DOMAIN wire', wire'[j] = wire'[i] PROVE j = i
      <4>1. CASE j \in 1..l
        <5>1. wire[j].m = m /\ IsMessage(j) /\ j \in DOMAIN wire
          BY <1>3, <1>4, <2>2, <3>3, <4>1 DEF IsMessage
        <5> QED
          BY <3>1, <5>1 DEF AckedInv, WireSent
      <4>2. CASE j \notin 1..l
        <5>1. frames[j - l] = frames[i - l] /\ j - l \in DOMAIN frames
          BY <1>3, <3>1, <3>3, <4>2
        <5>2. j - l = i - l
          BY <1>1, <3>1, <5>1
        <5> QED
          BY <1>2, <5>2
      <4> QED
        BY <4>1, <4>2
    <3> QED
      BY <3>1, <3>2, <3>3
  <2> QED
    BY <2>1, <2>2
<1>9. \A k \in 1..(m - 1) : k \in Dealt \cup Range(hand) \/ ToCome(k, l)
  BY <1>a DEF AckedInv, AllToCome, Dealt
<1>10. \A k, n : (\A j \in 1..n : j \in 1..l) /\ ToCome(k, n) => ToCome(k, n)'
  <2> SUFFICES ASSUME NEW k, NEW n, \A j \in 1..n : j \in 1..l, ToCome(k, n) PROVE ToCome(k, n)'
    OBVIOUS
  <2>1. \A j \in 1..n : wire'[j] = wire[j]
    BY <1>4
  <2> QED
    BY <2>1, ToComeAgrees
<1>11. InTurn'
  <2> SUFFICES ASSUME NEW i \in DOMAIN wire', IsMessage(i)', NEW k \in 1..(wire'[i].m - 1)
               PROVE  k \in Dealt' \cup Range(hand) \/ ToCome(k, i - 1)'
    BY DEF InTurn
  <2>0. Dealt \subseteq Dealt'
    BY DEF Dealt
  <2>1. CASE i \in 1..l
    <3>1. k \in Dealt \cup Range(hand) \/ ToCome(k, i - 1)
      BY <1>4, <2>1 DEF AckedInv, InTurn
    <3>2. \A j \in 1..(i - 1) : j \in 1..l
      BY <1>2, <2>1
    <3> QED
      BY <1>10, <2>0, <3>1, <3>2
  <2>2. CASE i \notin 1..l
    <3>1. k \in Dealt \cup Range(hand) \/ ToCome(k, l)
      BY <1>3, <1>9, <2>2
    <3>2. ToCome(k, l) => ToCome(k, l)'
      BY <1>10
    <3>3. l \in Nat /\ i - 1 \in Int /\ l <= i - 1
      BY <1>2, <2>2
    <3>4. \A j \in 1..l : j \in 1..(i - 1)
      BY <3>3
    <3>5. ToCome(k, l)' => ToCome(k, i - 1)'
      BY <3>4 DEF ToCome
    <3> QED
      BY <2>0, <3>1, <3>2, <3>5
  <2> QED
    BY <2>1, <2>2
<1>12. AllToCome'
  <2> SUFFICES ASSUME NEW k \in sent' PROVE k \in Dealt' \cup Range(hand) \/ ToCome(k, Len(wire))'
    BY DEF AllToCome
  <2>1. \A j \in 1..l : j \in 1..(l + Len(frames))
    BY <1>2
  <2>2. CASE k \in sent
    <3>1. k \in Dealt \cup Range(hand) \/ ToCome(k, l)
      BY <1>a, <2>2 DEF AckedInv, AllToCome
    <3>2. ToCome(k, l) => ToCome(k, l)'
      BY <1>10
    <3>3. ToCome(k, l)' => ToCome(k, Len(wire))'
      BY <1>2, <2>1 DEF ToCome
    <3> QED
      BY <3>1, <3>2, <3>3 DEF Dealt
  <2>3. CASE k = m
    <3>1. \A p \in Whole(m) : \E j \in 1..(l + Len(frames)) : wire'[j] = Piece(m, p)
      BY <1>1, <1>2
    <3>2. Whole(m)' = Whole(m)
      BY DEF Whole
    <3> QED
      BY <1>2, <2>3, <3>1, <3>2 DEF ToCome
  <2> QED
    BY <2>2, <2>3
<1> QED
  BY <1>5, <1>6, <1>7, <1>8, <1>11, <1>12 DEF AckedInv

\* The platform sends the oldest unsettled message,
LEMMA DeliverKeeps ==
  ASSUME Socketed, AckedInv, driver' = driver, Deliver
  PROVE  AckedInv'
<1>1. PICK m \in Written \ (settled \cup sent) :
        /\ \A n \in Written \ (settled \cup sent) : m <= n
        /\ \E frames \in Frames(m) : wire' = wire \o frames
        /\ sent' = sent \cup {m}
  BY DEF Deliver
<1>2. PICK frames \in Frames(m) : wire' = wire \o frames
  BY <1>1
<1>3. link = "up" /\ link' = "up" /\ UNCHANGED <<settled, emitted, hand, pending, pc, excused>>
  BY DEF Deliver, feed, messages, task
<1>4. ASSUME NEW k \in 1..(m - 1) PROVE k \in settled \cup sent
  <2>1. k \in Written /\ ~(m <= k)
    BY SocketFacts
  <2> QED
    BY <1>1, <2>1
<1>5. m \in Written \ settled /\ m \notin sent
  BY <1>1
<1> QED
  BY <1>1, <1>2, <1>3, <1>4, <1>5, DeliveryKeeps

\* or sends one once more that was not acknowledged in time.
LEMMA RedeliverKeeps ==
  ASSUME Socketed, AckedInv, driver' = driver, Redeliver
  PROVE  AckedInv'
<1>1. PICK m \in sent \ settled :
       /\ excused' = excused \cup {m}
       /\ \E frames \in Frames(m) : wire' = wire \o frames
  BY DEF Redeliver
<1>2. PICK frames \in Frames(m) : wire' = wire \o frames
  BY <1>1
<1>3. link = "up" /\ link' = "up" /\ UNCHANGED <<settled, emitted, hand, pending, pc, sent>>
  BY DEF Redeliver
<1>4. \A k \in 1..(m - 1) : k \in settled \cup sent
  BY <1>1 DEF AckedInv, SentInOrder
<1>5. m \in Written \ settled /\ m \in sent /\ sent' = sent \cup {m}
  BY <1>1, <1>3, SocketFacts
<1> QED
  BY <1>1, <1>2, <1>3, <1>4, <1>5, DeliveryKeeps

\* What is on the wire behind its head is there when the head is gone.
LEMMA TailAgrees ==
  ASSUME Socketed, wire # <<>>, wire' = Tail(wire), NEW x, x # wire[1], NEW n \in 0..Len(wire),
         \E j \in 1..n : wire[j] = x
  PROVE  \E j \in 1..(n - 1) : wire'[j] = x
<1>1. /\ Len(wire) \in Nat \ {0}
      /\ \A j \in 1..Len(wire) : j = 1 \/ (j - 1 \in 1..(Len(wire) - 1) /\ wire[j] = Tail(wire)[j - 1])
  BY WireTail
<1>2. PICK j \in 1..n : wire[j] = x
  OBVIOUS
<1>3. j \in 1..Len(wire) /\ j # 1 /\ j - 1 \in 1..(n - 1)
  BY <1>1, <1>2
<1> QED
  BY <1>1, <1>2, <1>3

\* The frame at the head is read: what is to come of the others is still to come.
LEMMA EnvelopeKeeps ==
  ASSUME Socketed, AckedInv, driver' = driver, wire # <<>>, wire' = Tail(wire), wire[1].kind # "msg",
         UNCHANGED <<settled, excused, emitted, hand, sent, pending, link, pc>>
  PROVE  AckedInv'
<1>a. PICK l \in Nat : l = Len(wire)
  BY SocketFacts
<1>1. /\ l >= 1 /\ DOMAIN wire = 1..l /\ DOMAIN wire' = 1..(l - 1) /\ Len(wire') = l - 1
      /\ \A i \in 1..(l - 1) : wire'[i] = wire[i + 1] /\ i + 1 \in 1..l
  BY <1>a, WireTail
<1>2. EmittedBehind' /\ HandSound' /\ SentInOrder' /\ PendingSound'
  BY DEF AckedInv, EmittedBehind, HandSound, SentInOrder, Dealt, PendingSound, Whole, Messages
<1>3. \A i \in DOMAIN wire' : i + 1 \in DOMAIN wire /\ wire'[i] = wire[i + 1] /\ (IsMessage(i)' => IsMessage(i + 1))
  BY <1>1 DEF IsMessage
<1>4. WireSent'
  BY <1>3 DEF AckedInv, WireSent
<1>5. WireFresh'
  <2> SUFFICES ASSUME NEW i \in DOMAIN wire', IsMessage(i)', wire'[i].m \notin excused
               PROVE  /\ wire'[i].piece \notin pending[wire'[i].m]
                      /\ wire'[i].m \notin Range(hand)
                      /\ \A j \in DOMAIN wire' : wire'[j] = wire'[i] => j = i
    BY DEF WireFresh
  <2>1. /\ wire[i + 1].piece \notin pending[wire[i + 1].m]
        /\ wire[i + 1].m \notin Range(hand)
        /\ \A j \in DOMAIN wire : wire[j] = wire[i + 1] => j = i + 1
    BY <1>3 DEF AckedInv, WireFresh
  <2>2. ASSUME NEW j \in DOMAIN wire', wire'[j] = wire'[i] PROVE j = i
    <3>1. j + 1 = i + 1
      BY <1>3, <2>1, <2>2
    <3> QED
      BY <1>1, <3>1
  <2> QED
    BY <1>3, <2>1, <2>2
<1>6. ASSUME NEW k, NEW n \in 0..l, ToCome(k, n) PROVE ToCome(k, n - 1)'
  <2> SUFFICES ASSUME NEW p \in Whole(k) \ pending[k] PROVE \E j \in 1..(n - 1) : wire'[j] = Piece(k, p)
    BY DEF ToCome, Whole
  <2>1. \E j \in 1..n : wire[j] = Piece(k, p)
    BY <1>6 DEF ToCome
  <2>2. Piece(k, p) # wire[1]
    BY FrameForms
  <2> QED
    BY <1>a, <2>1, <2>2, TailAgrees
<1>7. InTurn'
  <2> SUFFICES ASSUME NEW i \in DOMAIN wire', IsMessage(i)', NEW k \in 1..(wire'[i].m - 1)
               PROVE  k \in Dealt \cup Range(hand) \/ ToCome(k, i - 1)'
    BY DEF InTurn, Dealt
  <2>1. k \in Dealt \cup Range(hand) \/ ToCome(k, (i + 1) - 1)
    BY <1>3 DEF AckedInv, InTurn
  <2>2. i \in 0..l /\ (i + 1) - 1 = i
    BY <1>1
  <2> QED
    BY <1>6, <2>1, <2>2
<1>8. AllToCome'
  <2> SUFFICES ASSUME link = "up", NEW m \in sent PROVE m \in Dealt \cup Range(hand) \/ ToCome(m, l - 1)'
    BY <1>1 DEF AllToCome, Dealt, ToCome
  <2>1. m \in Dealt \cup Range(hand) \/ ToCome(m, l)
    BY <1>a DEF AckedInv, AllToCome
  <2>2. l \in 0..l
    OBVIOUS
  <2> QED
    BY <1>6, <2>1, <2>2
<1> QED
  BY <1>2, <1>4, <1>5, <1>7, <1>8 DEF AckedInv

\* A piece is read: it is gathered, or it completes its message, which is then in hand with
\* all that is older dealt with.
LEMMA PieceKeeps ==
  ASSUME Socketed, AckedInv, driver' = driver, pc = "reading", wire # <<>>, ReadPiece(Head(wire)),
         UNCHANGED <<settled, excused>>
  PROVE  AckedInv'
<1>a. PICK l \in Nat : l = Len(wire)
  BY SocketFacts
<1>b. PICK m, p : m = Head(wire).m /\ p = Head(wire).piece
  OBVIOUS
<1>1. /\ l >= 1 /\ DOMAIN wire = 1..l /\ DOMAIN Tail(wire) = 1..(l - 1) /\ Len(Tail(wire)) = l - 1
      /\ \A i \in 1..(l - 1) : Tail(wire)[i] = wire[i + 1] /\ i + 1 \in 1..l
      /\ Head(wire) = wire[1] /\ 1 \in 1..l
  BY <1>a, WireTail
<1>2. /\ Head(wire).kind = "msg" /\ Push(m, p) /\ wire' = Tail(wire)
      /\ UNCHANGED <<link, sent, emitted>>
  BY <1>b DEF ReadPiece
<1>3. IsMessage(1) /\ m = wire[1].m /\ p = wire[1].piece
  BY <1>1, <1>2, <1>b DEF IsMessage
<1>4. m \in Written /\ m \in Messages /\ m \in Nat /\ m >= 1 /\ p \in Whole(m) /\ wire[1] = Piece(m, p)
  <2>1. m \in Written /\ m \in Messages /\ p \in Whole(m) /\ wire[1] = Piece(m, p)
    BY <1>1, <1>3, SocketFacts
  <2> QED
    BY <2>1, SocketFacts, WrittenFacts
<1>5. hand = <<>> /\ Range(hand) = {}
  BY RangeOfEmpty DEF Socketed, SocketInv
<1>6. PICK got : got = pending[m] \cup {p}
  OBVIOUS
<1>7. \/ got = Whole(m) /\ hand' = <<m>> /\ pc' = "ack" /\ pending' = [pending EXCEPT ![m] = {}]
      \/ got # Whole(m) /\ pending' = [pending EXCEPT ![m] = got] /\ UNCHANGED <<hand, pc>>
  BY <1>2, <1>6 DEF Push
<1>8. /\ pending \in [Messages -> SUBSET {0, 1}]
      /\ \A k \in Messages : k # m => pending'[k] = pending[k]
      /\ pending'[m] \in {{}, got}
      /\ got = Whole(m) \/ pending'[m] = got
  BY <1>4, <1>7, SocketFacts
<1>9. /\ got = Whole(m) => Range(hand') = {m} /\ pc' = "ack"
      /\ got # Whole(m) => hand' = hand
      /\ Range(hand') \subseteq {m}
  BY <1>5, <1>7, RangeOfOne
<1>10. m \in sent /\ (m \in settled => m \in excused)
  BY <1>1, <1>3 DEF AckedInv, WireSent
<1>11. ASSUME NEW k \in 1..(m - 1) PROVE k \in Dealt
  <2>1. k \in Dealt \/ ToCome(k, 0)
    <3>1. k \in Dealt \cup Range(hand) \/ ToCome(k, 1 - 1)
      BY <1>1, <1>3 DEF AckedInv, InTurn
    <3>2. 1 - 1 = 0
      OBVIOUS
    <3> QED
      BY <1>5, <3>1, <3>2
  <2>2. k \in Messages
    BY <1>4, FeedConstants DEF Messages
  <2>3. ~ToCome(k, 0)
    <3>1. pending[k] \subseteq Whole(k) /\ pending[k] # Whole(k)
      BY <2>2 DEF AckedInv, PendingSound
    <3>2. PICK q \in Whole(k) : q \notin pending[k]
      BY <3>1
    <3> QED
      BY <3>2 DEF ToCome
  <2> QED
    BY <2>1, <2>3
<1>12. EmittedBehind'
  BY <1>2 DEF AckedInv, EmittedBehind, Dealt
<1>13. m \in excused \/ \A k \in Range(emitted) : k < m
  <2> SUFFICES ASSUME m \notin excused, NEW k \in Range(emitted) PROVE k < m
    OBVIOUS
  <2>1. m \notin Dealt
    BY <1>10 DEF Dealt
  <2>2. k \in Nat
    BY SocketFacts
  <2>3. ~(m \in 1..k)
    BY <2>1 DEF AckedInv, EmittedBehind
  <2> QED
    BY <1>4, <2>2, <2>3
<1>14. HandSound'
  BY <1>2, <1>9, <1>10, <1>11, <1>13 DEF HandSound, Dealt, AckedInv
<1>15. PendingSound'
  <2> SUFFICES ASSUME NEW k \in Messages
               PROVE  pending'[k] \subseteq Whole(k) /\ pending'[k] # Whole(k) /\ (pending'[k] # {} => k \in sent)
    BY <1>2 DEF PendingSound, Whole, Messages
  <2>1. CASE k # m
    BY <1>8, <2>1 DEF AckedInv, PendingSound
  <2>2. CASE k = m
    <3>1. got \subseteq Whole(m)
      BY <1>4, <1>6 DEF AckedInv, PendingSound
    <3>2. 0 \in Whole(m)
      BY <1>4, WholeFacts
    <3>3. pending'[m] = {} \/ (pending'[m] = got /\ got # Whole(m))
      BY <1>4, <1>7, <1>8
    <3> QED
      BY <1>10, <2>2, <3>1, <3>2, <3>3
  <2> QED
    BY <2>1, <2>2
<1>16. SentInOrder'
  BY <1>2 DEF AckedInv, SentInOrder
<1>17. /\ DOMAIN wire' = 1..(l - 1) /\ Len(wire') = l - 1
       /\ \A i \in DOMAIN wire' : i + 1 \in DOMAIN wire /\ wire'[i] = wire[i + 1] /\ (IsMessage(i)' => IsMessage(i + 1)) /\ i + 1 # 1
  BY <1>1, <1>2 DEF IsMessage
<1>18. WireSent'
  BY <1>2, <1>17 DEF AckedInv, WireSent
<1>19. WireFresh'
  <2> SUFFICES ASSUME NEW i \in DOMAIN wire', IsMessage(i)', wire'[i].m \notin excused
               PROVE  /\ wire'[i].piece \notin pending'[wire'[i].m]
                      /\ wire'[i].m \notin Range(hand')
                      /\ \A j \in DOMAIN wire' : wire'[j] = wire'[i] => j = i
    BY DEF WireFresh
  <2>1. /\ i + 1 \in DOMAIN wire /\ IsMessage(i + 1) /\ wire'[i] = wire[i + 1]
        /\ wire[i + 1].piece \notin pending[wire[i + 1].m]
        /\ wire[i + 1].m \notin Range(hand)
        /\ \A j \in DOMAIN wire : wire[j] = wire[i + 1] => j = i + 1
    BY <1>17 DEF AckedInv, WireFresh
  <2>2. ASSUME NEW j \in DOMAIN wire', wire'[j] = wire'[i] PROVE j = i
    <3>1. j + 1 = i + 1
      BY <1>17, <2>1, <2>2
    <3> QED
      BY <1>17, <3>1
  <2>3. CASE wire[i + 1].m # m
    <3>1. wire[i + 1].m \in Messages
      BY <2>1, SocketFacts
    <3> QED
      BY <1>8, <1>9, <2>1, <2>2, <2>3, <3>1
  <2>4. CASE wire[i + 1].m = m
    <3>1. wire[i + 1] = Piece(m, wire[i + 1].piece) /\ wire[i + 1].piece \in Whole(m)
      BY <2>1, <2>4, SocketFacts
    <3>2. wire[1] # wire[i + 1]
      BY <1>1, <1>17, <2>1
    <3>3. wire[i + 1].piece # p
      BY <1>4, <3>1, <3>2
    <3>4. wire[i + 1].piece \notin got
      BY <1>6, <2>1, <2>4, <3>3
    <3>5. got # Whole(m)
      BY <3>1, <3>4
    <3>6. wire'[i].piece \notin pending'[m] /\ hand' = hand
      BY <1>8, <1>9, <2>1, <3>4, <3>5
    <3> QED
      BY <2>1, <2>2, <2>4, <3>6
  <2> QED
    BY <2>3, <2>4
<1>20. ASSUME NEW k \in Messages, NEW n \in 0..l, ToCome(k, n) PROVE k \in Range(hand') \/ ToCome(k, n - 1)'
  <2> SUFFICES ASSUME k \notin Range(hand'), NEW q \in Whole(k) \ pending'[k] PROVE \E j \in 1..(n - 1) : wire'[j] = Piece(k, q)
    BY DEF ToCome, Whole
  <2>1. q \notin pending[k] /\ ~(k = m /\ q = p)
    <3>1. CASE k # m
      BY <1>8, <3>1
    <3>2. CASE k = m
      <4>1. got # Whole(m)
        BY <1>9, <3>2
      <4>2. pending'[m] = got
        BY <1>8, <4>1
      <4> QED
        BY <1>6, <3>2, <4>2
    <3> QED
      BY <3>1, <3>2
  <2>2. \E j \in 1..n : wire[j] = Piece(k, q)
    BY <1>20, <2>1 DEF ToCome
  <2>3. Piece(k, q) # wire[1]
    <3>1. Piece(k, q).m = k /\ Piece(k, q).piece = q /\ Piece(m, p).m = m /\ Piece(m, p).piece = p
      BY FrameForms
    <3> QED
      BY <1>4, <2>1, <3>1
  <2> QED
    BY <1>2, <1>a, <2>2, <2>3, TailAgrees
<1>21. InTurn'
  <2> SUFFICES ASSUME NEW i \in DOMAIN wire', IsMessage(i)', NEW k \in 1..(wire'[i].m - 1)
               PROVE  k \in Dealt \cup Range(hand') \/ ToCome(k, i - 1)'
    BY DEF InTurn, Dealt
  <2>1. k \in Dealt \/ ToCome(k, (i + 1) - 1)
    BY <1>5, <1>17 DEF AckedInv, InTurn
  <2>2. i \in 0..l /\ (i + 1) - 1 = i
    BY <1>17
  <2>3. k \in Messages
    <3>1. wire[i + 1].m \in Messages
      BY <1>17, SocketFacts
    <3> QED
      BY <1>17, <3>1, FeedConstants DEF Messages
  <2> QED
    BY <1>20, <2>1, <2>2, <2>3
<1>22. AllToCome'
  <2> SUFFICES ASSUME link = "up", NEW k \in sent PROVE k \in Dealt \cup Range(hand') \/ ToCome(k, l - 1)'
    BY <1>2, <1>17 DEF AllToCome, Dealt, ToCome
  <2>1. k \in Dealt \/ ToCome(k, l)
    BY <1>a, <1>5 DEF AckedInv, AllToCome
  <2>2. l \in 0..l /\ k \in Messages
    BY SocketFacts
  <2> QED
    BY <1>20, <2>1, <2>2
<1> QED
  BY <1>12, <1>14, <1>15, <1>16, <1>18, <1>19, <1>21, <1>22 DEF AckedInv

\* Nothing is emitted.
LEMMA OrderSame ==
  ASSUME InOrderOnce, driver' = driver, emitted' = emitted, excused \subseteq excused'
  PROVE  InOrderOnce'
  BY DEF InOrderOnce, HasPump

\* Nothing is settled or handled.
LEMMA SettledSame ==
  ASSUME SettledIsHandled, driver' = driver, driver # "discord",
         UNCHANGED <<settled, emitted, skipped, hand, lost, crashed>>
  PROVE  SettledIsHandled'
  BY DEF SettledIsHandled, Handled

\* A batch behind what has been emitted.
LEMMA BatchInOrder ==
  ASSUME InOrderOnce, driver' = driver, excused' = excused, emitted \in Seq(Written), Written \subseteq Nat,
         NEW batch \in Seq(Written), Increasing(batch), emitted' = emitted \o batch,
         \A n \in Range(batch) : n \in excused \/ \A k \in Range(emitted) : k < n
  PROVE  InOrderOnce'
<1>1. /\ Len(emitted) \in Nat /\ Len(batch) \in Nat
      /\ DOMAIN emitted = 1..Len(emitted) /\ DOMAIN batch = 1..Len(batch)
      /\ emitted' \in Seq(Written) /\ Len(emitted') = Len(emitted) + Len(batch)
      /\ \A i \in 1..Len(emitted) : emitted'[i] = emitted[i]
      /\ \A i \in 1..Len(batch) : emitted'[Len(emitted) + i] = batch[i]
  BY RangeOfConcat, RangeFacts
<1>2. DOMAIN emitted' = 1..(Len(emitted) + Len(batch))
  BY <1>1
<1>3. \A i \in DOMAIN emitted' : i \in DOMAIN emitted \/ (i - Len(emitted) \in DOMAIN batch /\ emitted'[i] = batch[i - Len(emitted)])
  <2> TAKE i \in DOMAIN emitted'
  <2>1. i \in 1..Len(emitted) \/ (i - Len(emitted) \in 1..Len(batch) /\ Len(emitted) + (i - Len(emitted)) = i)
    BY <1>1, <1>2
  <2> QED
    BY <1>1, <2>1
<1> SUFFICES ASSUME NEW i \in DOMAIN emitted', NEW j \in DOMAIN emitted', i < j
             PROVE  \/ emitted'[i] < emitted'[j]
                    \/ ~HasPump /\ emitted'[i] # emitted'[j]
                    \/ emitted'[j] \in excused
  BY DEF InOrderOnce, HasPump
<1>4. CASE j \in DOMAIN emitted
  <2>1. i \in DOMAIN emitted
    BY <1>1, <1>2, <1>4
  <2> QED
    BY <1>1, <1>4, <2>1 DEF InOrderOnce
<1>5. CASE j \notin DOMAIN emitted /\ i \in DOMAIN emitted
  <2>1. emitted'[j] \in Range(batch) /\ emitted'[i] \in Range(emitted)
    BY <1>1, <1>3, <1>5 DEF Range
  <2> QED
    BY <2>1
<1>6. CASE j \notin DOMAIN emitted /\ i \notin DOMAIN emitted
  <2>1. /\ i - Len(emitted) \in DOMAIN batch /\ emitted'[i] = batch[i - Len(emitted)]
        /\ j - Len(emitted) \in DOMAIN batch /\ emitted'[j] = batch[j - Len(emitted)]
    BY <1>3, <1>6
  <2>2. i - Len(emitted) < j - Len(emitted)
    BY <1>1, <1>2
  <2>3. batch[i - Len(emitted)] < batch[j - Len(emitted)]
    BY <2>1, <2>2 DEF Increasing
  <2> QED
    BY <2>1, <2>3
<1> QED
  BY <1>4, <1>5, <1>6

\* The invariant of a driver that acknowledges.
AckedAll == driver \in Acked /\ Socketed /\ AckedInv /\ SettledIsHandled /\ InOrderOnce

\* The connection is gone.
LEMMA AckedGoneAll ==
  ASSUME AckedAll, driver' = driver, ConnectionGone, hand = <<>>, hand' = <<>>,
         UNCHANGED <<settled, excused, emitted, skipped, lost, crashed>>
  PROVE  AckedInv' /\ SettledIsHandled' /\ InOrderOnce'
<1>1. AckedInv'
  BY AckedGone DEF AckedAll
<1>2. SettledIsHandled'
  BY SettledSame DEF AckedAll, Acked
<1>3. InOrderOnce'
  BY OrderSame DEF AckedAll
<1> QED
  BY <1>1, <1>2, <1>3

\* Neither messages nor frames change.
LEMMA AckedSameAll ==
  ASSUME AckedAll, driver' = driver,
         UNCHANGED <<settled, excused, emitted, skipped, lost, crashed, hand, wire, sent, pending>>,
         link' = link \/ sent = {}, pc' = pc \/ pc # "ack"
  PROVE  AckedInv' /\ SettledIsHandled' /\ InOrderOnce'
<1>1. AckedInv'
  BY AckedSame DEF AckedAll
<1>2. SettledIsHandled'
  BY SettledSame DEF AckedAll, Acked
<1>3. InOrderOnce'
  BY OrderSame DEF AckedAll
<1> QED
  BY <1>1, <1>2, <1>3

\* The connection ends.
LEMMA AckedEnds ==
  ASSUME AckedAll, driver' = driver, hand = <<>>, NEW well, Ended(well),
         UNCHANGED <<settled, excused, emitted, skipped, crashed, hand>>
  PROVE  AckedInv' /\ SettledIsHandled' /\ InOrderOnce'
<1>1. ConnectionGone /\ lost' = lost /\ hand' = <<>>
  BY DEF Ended, NoConnection, AfterConnection, LostBut, AckedAll, Acked
<1> QED
  BY <1>1, AckedGoneAll

\* A frame is read.
LEMMA AckedReads ==
  ASSUME AckedAll, driver' = driver, Read
  PROVE  AckedInv' /\ SettledIsHandled' /\ InOrderOnce'
<1> DEFINE frame == Head(wire)
<1>0. Socketed /\ driver # "discord" /\ AckedInv
  BY DEF AckedAll, Acked
<1>1. /\ pc = "reading" /\ wire # <<>>
      /\ UNCHANGED <<kinds, settled, excused, cancelled, crashed, faults, botKnown>>
  BY DEF Read
<1>2. \/ ReadEnd(frame) \/ ReadFatal(frame) \/ ReadHello(frame) \/ ReadBeat(frame)
      \/ HandleEnvelope(frame) \/ HandleDispatch(frame) \/ ReadPiece(frame)
  BY Zenon DEF Read
<1>3. frame.kind \notin {"hello", "beat"} /\ frame = wire[1]
  BY <1>0, <1>1, WireTail DEF Sensible
<1>4. hand = <<>>
  BY <1>0, <1>1 DEF Socketed, SocketInv
<1>5. CASE ReadEnd(frame)
  <2>1. Ended(TRUE) /\ UNCHANGED <<emitted, skipped, hand>>
    BY <1>5 DEF ReadEnd
  <2> QED
    BY <1>1, <1>4, <2>1, AckedEnds
<1>6. CASE ReadFatal(frame)
  <2>1. ConnectionGone /\ lost' = lost /\ UNCHANGED <<emitted, skipped, hand>>
    BY <1>0, <1>6 DEF ReadFatal, NoConnection, LostBut
  <2> QED
    BY <1>1, <1>4, <2>1, AckedGoneAll
<1>7. CASE HandleEnvelope(frame)
  <2>1. /\ wire' = Tail(wire) /\ wire[1].kind # "msg"
        /\ UNCHANGED <<emitted, hand, sent, pending, link, pc, skipped, lost>>
    BY <1>3, <1>7 DEF HandleEnvelope
  <2>2. AckedInv'
    BY <1>0, <1>1, <2>1, EnvelopeKeeps
  <2>3. SettledIsHandled'
    BY <1>0, <1>1, <2>1, SettledSame DEF AckedAll
  <2>4. InOrderOnce'
    BY <1>0, <1>1, <2>1, OrderSame DEF AckedAll
  <2> QED
    BY <2>2, <2>3, <2>4
<1>8. CASE ReadPiece(frame)
  <2>1. AckedInv'
    BY <1>0, <1>1, <1>8, PieceKeeps
  <2>2. UNCHANGED <<lost, emitted, skipped>>
    BY <1>8 DEF ReadPiece
  <2>3. InOrderOnce'
    BY <1>0, <1>1, <2>2, OrderSame DEF AckedAll
  <2>4. Range(hand) = {}
    BY <1>4, RangeOfEmpty
  <2>5. SettledIsHandled'
    BY <1>0, <1>1, <2>2, <2>4 DEF AckedAll, SettledIsHandled, Handled
  <2> QED
    BY <2>1, <2>3, <2>5
<1>9. ~ReadHello(frame) /\ ~ReadBeat(frame) /\ ~HandleDispatch(frame)
  BY <1>0, <1>3 DEF ReadHello, ReadBeat, HandleDispatch
<1> QED
  BY <1>2, <1>5, <1>6, <1>7, <1>8, <1>9

\* A message is emitted or skipped: it is newer than all that was, or a copy.
LEMMA AckedForwards ==
  ASSUME AckedAll, driver' = driver, NEW m \in Range(hand), NEW forwards \in BOOLEAN, Forward(m, forwards)
  PROVE  AckedInv' /\ SettledIsHandled' /\ InOrderOnce'
<1>0. Socketed /\ driver # "discord" /\ AckedInv /\ FeedTypeOK
  BY SocketFacts DEF AckedAll, Acked
<1>1. AckedInv'
  BY <1>0, ForwardKeeps
<1>2. /\ EmitHand(IF forwards THEN {m} ELSE {}) /\ UNCHANGED <<settled, excused, lost, crashed>>
  BY DEF Forward
<1>3. Handled' = Handled \cup Range(hand)
  BY <1>0, <1>2, EmitFacts
<1>4. SettledIsHandled'
  BY <1>0, <1>2, <1>3 DEF AckedAll, SettledIsHandled
<1>5. PICK batch \in Seq(Written) : emitted' = emitted \o batch /\ Range(batch) \subseteq Range(hand) /\ Increasing(batch)
  BY <1>0, <1>2, EmitFacts
<1>6. \A n \in Range(batch) : n \in excused \/ \A k \in Range(emitted) : k < n
  BY <1>0, <1>5 DEF AckedInv, HandSound
<1>7. emitted \in Seq(Written) /\ Written \subseteq Nat
  BY <1>0, SocketFacts
<1>8. InOrderOnce'
  BY <1>2, <1>5, <1>6, <1>7, BatchInOrder DEF AckedAll
<1> QED
  BY <1>1, <1>4, <1>8

\* Every step of Slack, DingTalk and Feishu.
LEMMA AckedKept ==
  ASSUME AckedAll, driver' = driver,
         Pump \/ BeatCancelled \/ BeatFails \/ Platform \/ Trouble \/ (\E kind \in Kinds : Posted(kind))
           \/ (CancelPump /\ UNCHANGED socket)
  PROVE  AckedInv' /\ SettledIsHandled' /\ InOrderOnce'
<1>0. Socketed /\ driver # "discord" /\ AckedInv
  BY DEF AckedAll, Acked
<1>1. CASE Top \/ Sleep \/ Fetch \/ EnsureBotOpenId
  <2>1. UNCHANGED <<messages, crashed, conn>> /\ pc # "ack"
    BY <1>1 DEF Top, Sleep, Fetch, DiscoverGateway, FetchSocketUrl, OpenConnection, Discover, Found, NotFound, EnsureBotOpenId, socket
  <2> QED
    BY <2>1, AckedSameAll DEF messages, conn
<1>2. CASE Dial
  <2>1. hand = <<>> /\ sent = {} /\ wire = <<>> /\ pc # "ack"
    BY <1>0, <1>2 DEF Dial, Socketed, SocketInv
  <2>2. UNCHANGED <<kinds, settled, hand, emitted, skipped, excused, cancelled, crashed>>
    BY <1>2 DEF Dial
  <2>3. CASE Ended(FALSE)
    BY <2>1, <2>2, <2>3, AckedEnds
  <2>4. CASE ~Ended(FALSE)
    <3>1. wire' = <<>> /\ UNCHANGED <<sent, pending, lost>>
      BY <1>0, <1>2, <2>4 DEF Dial
    <3> QED
      BY <2>1, <2>2, <3>1, AckedSameAll
  <2> QED
    BY <2>3, <2>4
<1>3. CASE StopReading \/ LinkEnds
  <2>1. hand = <<>> /\ \E well \in BOOLEAN : Ended(well)
    BY <1>0, <1>3 DEF StopReading, LinkEnds, Socketed, SocketInv
  <2>2. UNCHANGED <<settled, hand, emitted, skipped, excused, crashed>>
    BY <1>3 DEF StopReading, LinkEnds
  <2> QED
    BY <2>1, <2>2, AckedEnds
<1>4. CASE Read
  BY <1>4, AckedReads
<1>5. CASE Ack
  <2>1. AckedInv'
    BY <1>0, <1>5, AckKeeps
  <2>2. UNCHANGED <<hand, emitted, skipped, lost, crashed>> /\ excused \subseteq excused' /\ settled' \subseteq settled \cup Range(hand)
    BY <1>5 DEF Ack
  <2>3. SettledIsHandled'
    BY <1>0, <2>2 DEF AckedAll, SettledIsHandled, Handled
  <2>4. InOrderOnce'
    BY <2>2, OrderSame DEF AckedAll
  <2> QED
    BY <2>1, <2>3, <2>4
<1>6. CASE EmitEventsApi \/ HandleFrame \/ HandleBinary
  <2>1. PICK m \in Range(hand), forwards \in BOOLEAN : Forward(m, forwards)
    <3>1. ASSUME NEW m \in Range(hand), Forward(m, kinds[m] # "skip")
          PROVE  \E n \in Range(hand), forwards \in BOOLEAN : Forward(n, forwards)
      <4> DEFINE f == kinds[m] # "skip"
      <4>1. f \in BOOLEAN
        OBVIOUS
      <4>2. Forward(m, f)
        BY <3>1
      <4> QED
        BY <4>1, <4>2, Zenon
    <3>2. ASSUME NEW m \in Range(hand), NEW forwards \in ShouldForward(m), Forward(m, forwards)
          PROVE  \E n \in Range(hand), f \in BOOLEAN : Forward(n, f)
      <4>1. forwards \in BOOLEAN
        BY DEF ShouldForward
      <4> QED
        BY <3>2, <4>1, Zenon
    <3> QED
      BY <1>6, <3>1, <3>2, Zenon DEF EmitEventsApi, HandleFrame, HandleBinary
  <2> QED
    BY <2>1, AckedForwards
<1>7. CASE BeatCancelled \/ BeatFails \/ (CancelPump /\ UNCHANGED socket)
  <2>1. UNCHANGED <<messages, crashed, pc, link, wire, sent, pending>>
    BY <1>7 DEF BeatCancelled, BeatFails, CancelPump, feed, task, socket, conn
  <2> QED
    BY <2>1, AckedSameAll DEF messages
<1>8. CASE Deliver \/ Redeliver
  <2>1. AckedInv'
    BY <1>0, <1>8, DeliverKeeps, RedeliverKeeps
  <2>2. UNCHANGED <<settled, hand, emitted, skipped, lost, crashed>> /\ excused \subseteq excused'
    BY <1>8 DEF Deliver, Redeliver, feed, messages, task
  <2>3. SettledIsHandled'
    BY <1>0, <2>2, SettledSame DEF AckedAll
  <2>4. InOrderOnce'
    BY <2>2, OrderSame DEF AckedAll
  <2> QED
    BY <2>1, <2>3, <2>4
<1>9. CASE Sever
  <2>1. AckedInv'
    BY <1>0, <1>9, SeverKeeps
  <2>2. UNCHANGED <<settled, hand, emitted, skipped, excused, lost, crashed>>
    BY <1>0, <1>9 DEF Sever, LostBut
  <2>3. SettledIsHandled'
    BY <1>0, <2>2, SettledSame DEF AckedAll
  <2>4. InOrderOnce'
    BY <2>2, OrderSame DEF AckedAll
  <2> QED
    BY <2>1, <2>3, <2>4
<1>10. CASE AnswerClose \/ \E kind \in Control : SendControl(kind)
  <2>1. PICK f \in Frame : wire' = Append(wire, f) /\ Sensible(f) /\ f.kind # "msg"
    <3>1. CASE AnswerClose
      <4>1. Plain("close") \in Frame /\ Plain("close").kind = "close" /\ Plain("close").m = 0
        BY FrameForms DEF Control
      <4>2. Sensible(Plain("close"))
        BY <4>1 DEF Sensible
      <4>3. wire' = Append(wire, Plain("close"))
        BY <3>1 DEF AnswerClose
      <4> QED
        BY <4>1, <4>2, <4>3
    <3>2. ASSUME NEW kind \in Control, SendControl(kind)
          PROVE  \E f \in Frame : wire' = Append(wire, f) /\ Sensible(f) /\ f.kind # "msg"
      <4>1. Plain(kind) \in Frame /\ Plain(kind).kind = kind /\ Plain(kind).m = 0 /\ kind # "msg"
        BY FrameForms
      <4>2. kind \in {"hello", "beat"} => driver = "discord"
        BY <3>2 DEF SendControl
      <4>3. Sensible(Plain(kind))
        BY <4>1, <4>2 DEF Sensible
      <4>4. wire' = Append(wire, Plain(kind))
        BY <3>2 DEF SendControl
      <4> QED
        BY <4>1, <4>3, <4>4
    <3> QED
      BY <1>10, <3>1, <3>2
  <2>2. /\ UNCHANGED <<settled, hand, emitted, skipped, excused, lost, crashed, sent, pending, pc>>
        /\ link = "up" /\ link' \in {"up", "severed"}
    BY <1>10 DEF AnswerClose, SendControl, feed, messages, task
  <2>3. AckedInv'
    BY <1>0, <2>1, <2>2, AppendKeeps
  <2>4. SettledIsHandled'
    BY <1>0, <2>2, SettledSame DEF AckedAll
  <2>5. InOrderOnce'
    BY <2>2, OrderSame DEF AckedAll
  <2> QED
    BY <2>3, <2>4, <2>5
<1>11. CASE Restart
  <2>1. /\ ConnectionGone /\ excused' = excused
        /\ crashed' = TRUE /\ hand' = <<>> /\ lost' = lost \cup (settled \ Handled)
        /\ UNCHANGED <<settled, emitted, skipped>>
    BY <1>11 DEF Restart, RestartTask
  <2>2. AckedInv'
    BY <1>0, <2>1, AckedGone
  <2>3. SettledIsHandled'
    BY <1>0, <2>1 DEF AckedAll, SettledIsHandled, Handled, Acked, Sockets
  <2>4. InOrderOnce'
    BY <2>1, OrderSame DEF AckedAll
  <2> QED
    BY <2>2, <2>3, <2>4
<1>12. CASE \E kind \in Kinds : Posted(kind)
  <2>1. UNCHANGED <<settled, lost, wire, hand, emitted, skipped, excused, crashed, pc, link, sent, pending>>
    BY <1>0, <1>12 DEF Posted, task
  <2> QED
    BY <2>1, AckedSameAll
<1> QED
  BY <1>1, <1>2, <1>3, <1>4, <1>5, <1>6, <1>7, <1>8, <1>9, <1>10, <1>11, <1>12 DEF Pump, Platform, Trouble

-----------------------------------------------------------------------------
(* ---- Discord ---- *)

\* The invariant of Discord.
DiscordAll == driver = "discord" /\ Socketed /\ DiscordInv /\ SettledIsHandled

\* Messages on the wire come in order and behind what has been emitted.
OnwardOrder(w) ==
  /\ \A i, j \in DOMAIN w : i < j /\ w[i].kind = "msg" /\ w[j].kind = "msg" => w[i].m < w[j].m
  /\ \A i \in DOMAIN w : w[i].kind = "msg" => \A n \in Range(emitted) : n < w[i].m

\* DiscordInv, told with OnwardOrder.
LEMMA DiscordReading == DiscordInv <=> (hand = <<>> /\ Increasing(emitted) /\ OnwardOrder(wire))
  BY DEF DiscordInv, OnwardOrder, IsMessage

\* What grows is in order, and has nothing twice.
LEMMA DiscordOrder ==
  ASSUME Increasing(emitted)'
  PROVE  InOrderOnce'
  BY DEF Increasing, InOrderOnce

\* Discord settles what it sends: it is handled, lost or on the wire.
LEMMA DiscordSettles ==
  ASSUME driver = "discord", driver' = driver, settled' \ (Handled' \cup lost') \subseteq OnWire(wire)'
  PROVE  SettledIsHandled'
  BY DEF SettledIsHandled

\* With the connection its frames are gone, and counted as lost.
LEMMA DiscordGone ==
  ASSUME DiscordAll, driver' = driver, wire' = <<>>, hand' = <<>>, UNCHANGED <<settled, emitted, skipped>>,
         lost' = LostBut(<<>>) \/ lost' = lost \cup (settled \ Handled)
  PROVE  DiscordInv' /\ SettledIsHandled' /\ InOrderOnce'
<1>1. DOMAIN wire' = {}
  OBVIOUS
<1>2. DiscordInv'
  BY <1>1 DEF DiscordAll, DiscordInv, Increasing
<1>3. OnWire(<<>>) = {}
  BY DEF OnWire
<1>4. settled' \ (Handled' \cup lost') = {}
  BY <1>3 DEF LostBut, DiscordAll, Handled
<1>5. SettledIsHandled'
  BY <1>4, DiscordSettles DEF DiscordAll
<1> QED
  BY <1>2, <1>5, DiscordOrder DEF DiscordInv

\* Neither messages nor frames change.
LEMMA DiscordSame ==
  ASSUME DiscordAll, driver' = driver, UNCHANGED <<settled, emitted, skipped, hand, lost, wire>>
  PROVE  DiscordInv' /\ SettledIsHandled' /\ InOrderOnce'
<1>1. DiscordInv'
  BY DEF DiscordAll, DiscordInv, Increasing, IsMessage
<1>2. Range(hand) = {}
  BY RangeOfEmpty DEF DiscordAll, DiscordInv
<1>3. OnWire(wire)' = OnWire(wire) /\ Handled' = Handled
  BY DEF OnWire, Handled
<1>4. SettledIsHandled'
  <2>1. settled \ (Handled \cup lost) \subseteq OnWire(wire)
    BY <1>2 DEF DiscordAll, SettledIsHandled
  <2> QED
    BY <1>3, <2>1, DiscordSettles DEF DiscordAll
<1> QED
  BY <1>1, <1>4, DiscordOrder DEF DiscordInv

\* A frame is read: it is no message, is skipped, or is emitted.
LEMMA DiscordTail ==
  ASSUME DiscordAll, driver' = driver, wire # <<>>, wire' = Tail(wire),
         UNCHANGED <<settled, hand, lost>>,
         \/ wire[1].kind # "msg" /\ UNCHANGED <<emitted, skipped>>
         \/ wire[1].kind = "msg" /\ emitted' = emitted /\ skipped' = skipped \cup {wire[1].m}
         \/ wire[1].kind = "msg" /\ emitted' = Append(emitted, wire[1].m) /\ skipped' = skipped
  PROVE  DiscordInv' /\ SettledIsHandled' /\ InOrderOnce'
<1>a. PICK l \in Nat : l = Len(wire)
  BY SocketFacts DEF DiscordAll
<1>b. PICK m : m = wire[1].m
  OBVIOUS
<1>1. /\ l >= 1 /\ DOMAIN wire = 1..l /\ DOMAIN wire' = 1..(l - 1) /\ 1 \in 1..l
      /\ \A i \in 1..(l - 1) : wire'[i] = wire[i + 1] /\ i + 1 \in 1..l
      /\ \A j \in 1..l : j = 1 \/ (j - 1 \in 1..(l - 1) /\ wire[j] = wire'[j - 1])
  BY <1>a, WireTail DEF DiscordAll
<1>2. /\ emitted \in Seq(Written) /\ Range(emitted) \subseteq Written /\ settled \subseteq Written
      /\ Written \subseteq Nat /\ 0 \notin Written
      /\ \A i \in DOMAIN wire : wire[i].m \in Nat /\ (wire[i].kind = "msg" => wire[i].m \in Written)
      /\ (wire[1].kind = "msg" => m \in Written) /\ (wire[1].kind # "msg" => m = 0)
  <2>1. Socketed
    BY DEF DiscordAll
  <2>2. \A i \in DOMAIN wire : Sensible(wire[i])
    BY <2>1, SocketFacts
  <2>3. 0 \notin Written
    BY <2>1, SocketFacts, WrittenFacts
  <2>4. emitted \in Seq(Written) /\ Range(emitted) \subseteq Written /\ settled \subseteq Written /\ Written \subseteq Nat
    BY <2>1, SocketFacts
  <2>5. \A i \in DOMAIN wire : (wire[i].kind = "msg" => wire[i].m \in Written) /\ (wire[i].kind # "msg" => wire[i].m = 0)
    BY <2>2 DEF Sensible
  <2>6. (wire[1].kind = "msg" => m \in Written) /\ (wire[1].kind # "msg" => m = 0)
    BY <1>1, <1>b, <2>5
  <2>7. ASSUME NEW i \in DOMAIN wire PROVE wire[i].m \in Nat
    <3>1. CASE wire[i].kind = "msg"
      BY <2>4, <2>5, <3>1
    <3>2. CASE wire[i].kind # "msg"
      BY <2>5, <3>2
    <3> QED
      BY <3>1, <3>2
  <2> QED
    BY <2>3, <2>4, <2>5, <2>6, <2>7
<1>3. Increasing(emitted) /\ hand = <<>> /\ OnwardOrder(wire)
  BY DiscordReading DEF DiscordAll
<1>4. wire[1].kind = "msg" => \A n \in Range(emitted) : n < m
  BY <1>1, <1>3, <1>b DEF OnwardOrder
<1>5. \A i \in DOMAIN wire' : wire[1].kind = "msg" /\ wire'[i].kind = "msg" => m < wire'[i].m
  BY <1>1, <1>3, <1>b DEF OnwardOrder
<1>6. \/ emitted' = emitted
      \/ wire[1].kind = "msg" /\ emitted' = Append(emitted, m)
  BY <1>b
<1>7. Range(emitted') \subseteq Range(emitted) \cup {m} /\ Increasing(emitted)'
  <2>1. CASE emitted' = emitted
    BY <1>3, <2>1 DEF Increasing
  <2>2. CASE wire[1].kind = "msg" /\ emitted' = Append(emitted, m)
    <3>1. /\ emitted' \in Seq(Written) /\ Range(emitted') = Range(emitted) \cup {m}
          /\ Len(emitted') = Len(emitted) + 1 /\ emitted'[Len(emitted) + 1] = m
          /\ \A i \in 1..Len(emitted) : emitted'[i] = emitted[i]
          /\ Len(emitted) \in Nat /\ DOMAIN emitted = 1..Len(emitted)
      BY <1>2, <2>2, RangeOfAppend, RangeFacts
    <3>2. DOMAIN emitted' = 1..(Len(emitted) + 1)
      BY <3>1
    <3>3. ASSUME NEW i \in DOMAIN emitted', NEW j \in DOMAIN emitted', i < j PROVE emitted'[i] < emitted'[j]
      <4>1. i \in 1..Len(emitted)
        BY <3>1, <3>2, <3>3
      <4>2. CASE j \in 1..Len(emitted)
        BY <1>3, <3>1, <3>3, <4>1, <4>2 DEF Increasing
      <4>3. CASE j = Len(emitted) + 1
        <5>1. emitted[i] \in Range(emitted)
          BY <3>1, <4>1 DEF Range
        <5> QED
          BY <1>4, <2>2, <3>1, <4>1, <4>3, <5>1
      <4> QED
        BY <3>1, <3>2, <4>2, <4>3
    <3>4. Increasing(emitted)'
      BY <3>3 DEF Increasing
    <3> QED
      BY <3>1, <3>4
  <2> QED
    BY <1>6, <2>1, <2>2
<1>8. OnwardOrder(wire)'
  <2>1. ASSUME NEW i \in DOMAIN wire', NEW j \in DOMAIN wire', i < j, wire'[i].kind = "msg", wire'[j].kind = "msg"
        PROVE  wire'[i].m < wire'[j].m
    BY <1>1, <1>3, <2>1 DEF OnwardOrder
  <2>2. ASSUME NEW i \in DOMAIN wire', wire'[i].kind = "msg", NEW n \in Range(emitted') PROVE n < wire'[i].m
    <3>1. CASE n \in Range(emitted)
      BY <1>1, <1>3, <2>2, <3>1 DEF OnwardOrder
    <3>2. CASE n \notin Range(emitted)
      <4>1. n = m /\ wire[1].kind = "msg"
        BY <1>6, <1>7, <3>2
      <4> QED
        BY <1>5, <2>2, <4>1
    <3> QED
      BY <3>1, <3>2
  <2> QED
    BY <2>1, <2>2 DEF OnwardOrder
<1>9. DiscordInv'
  BY <1>3, <1>7, <1>8 DEF DiscordInv, OnwardOrder, IsMessage
<1>10. settled \ (Handled \cup lost) \subseteq OnWire(wire)
  <2>1. Range(hand) = {}
    BY <1>3, RangeOfEmpty
  <2> QED
    BY <2>1 DEF DiscordAll, SettledIsHandled
<1>11. OnWire(wire) \subseteq OnWire(wire)' \cup {m}
  <2> SUFFICES ASSUME NEW j \in DOMAIN wire PROVE wire[j].m \in OnWire(wire)' \cup {m}
    BY DEF OnWire
  <2>1. CASE j = 1
    BY <1>b, <2>1
  <2>2. CASE j # 1
    BY <1>1, <2>2 DEF OnWire
  <2> QED
    BY <2>1, <2>2
<1>12. Handled \subseteq Handled' /\ (wire[1].kind = "msg" => m \in Handled')
  <2>1. CASE emitted' = emitted
    BY <1>b, <2>1 DEF Handled
  <2>2. CASE wire[1].kind = "msg" /\ emitted' = Append(emitted, m) /\ skipped' = skipped
    <3>1. Range(emitted') = Range(emitted) \cup {m}
      BY <1>2, <2>2, RangeOfAppend
    <3> QED
      BY <2>2, <3>1 DEF Handled
  <2>3. CASE wire[1].kind = "msg" /\ skipped' = skipped \cup {m} /\ emitted' = emitted
    BY <2>3 DEF Handled
  <2>4. CASE wire[1].kind # "msg"
    BY <2>4 DEF Handled
  <2> QED
    BY <1>b, <2>2, <2>3, <2>4
<1>13. SettledIsHandled'
  <2>1. settled' \ (Handled' \cup lost') \subseteq OnWire(wire)'
    BY <1>2, <1>10, <1>11, <1>12
  <2> QED
    BY <2>1, DiscordSettles DEF DiscordAll
<1> QED
  BY <1>7, <1>9, <1>13, DiscordOrder

\* A frame that is no message is sent, or a message that nobody sent before.
LEMMA DiscordAppend ==
  ASSUME DiscordAll, driver' = driver, NEW f, wire' = Append(wire, f), UNCHANGED <<emitted, skipped, hand, lost>>,
         \/ f.kind # "msg" /\ settled' = settled
         \/ f.kind = "msg" /\ f.m \in Nat /\ (\A n \in Written : n < f.m) /\ settled' = settled \cup {f.m}
  PROVE  DiscordInv' /\ SettledIsHandled' /\ InOrderOnce'
<1>a. PICK l \in Nat : l = Len(wire)
  BY SocketFacts DEF DiscordAll
<1>1. /\ DOMAIN wire = 1..l /\ DOMAIN wire' = 1..(l + 1) /\ wire'[l + 1] = f
      /\ \A i \in 1..l : wire'[i] = wire[i] /\ i \in 1..(l + 1)
      /\ \A i \in 1..(l + 1) : i \in 1..l \/ i = l + 1
  <2>1. wire \in Seq(Frame)
    BY SocketFacts DEF DiscordAll
  <2>2. wire \in Seq(Frame \cup {f}) /\ f \in Frame \cup {f}
    BY <2>1
  <2>3. Len(wire') = l + 1 /\ wire'[l + 1] = f /\ (\A i \in 1..l : wire'[i] = wire[i]) /\ wire' \in Seq(Frame \cup {f})
    BY <1>a, <2>2, RangeOfAppend
  <2> QED
    BY <1>a, <2>1, <2>3
<1>2. /\ Range(emitted) \subseteq Written
      /\ \A i \in DOMAIN wire : wire[i].kind = "msg" => wire[i].m \in Written
  BY SocketFacts DEF DiscordAll, Sensible
<1>3. Increasing(emitted) /\ hand = <<>> /\ OnwardOrder(wire) /\ Range(hand) = {}
  BY DiscordReading, RangeOfEmpty DEF DiscordAll
<1>4. OnwardOrder(wire)'
  <2>1. ASSUME NEW i \in DOMAIN wire', NEW j \in DOMAIN wire', i < j, wire'[i].kind = "msg", wire'[j].kind = "msg"
        PROVE  wire'[i].m < wire'[j].m
    <3>1. i \in 1..l
      BY <1>1, <2>1
    <3>2. CASE j \in 1..l
      BY <1>1, <1>3, <2>1, <3>1, <3>2 DEF OnwardOrder
    <3>3. CASE j = l + 1
      BY <1>1, <1>2, <2>1, <3>1, <3>3
    <3> QED
      BY <1>1, <3>2, <3>3
  <2>2. ASSUME NEW i \in DOMAIN wire', wire'[i].kind = "msg", NEW n \in Range(emitted') PROVE n < wire'[i].m
    <3>1. CASE i \in 1..l
      BY <1>1, <1>3, <2>2, <3>1 DEF OnwardOrder
    <3>2. CASE i = l + 1
      BY <1>1, <1>2, <2>2, <3>2
    <3> QED
      BY <1>1, <3>1, <3>2
  <2> QED
    BY <2>1, <2>2 DEF OnwardOrder
<1>5. Increasing(emitted)'
  BY <1>3 DEF Increasing
<1>6. DiscordInv'
  BY <1>3, <1>4, <1>5 DEF DiscordInv, OnwardOrder, IsMessage
<1>7. OnWire(wire) \subseteq OnWire(wire)' /\ f.m \in OnWire(wire)'
  <2>1. \A i \in DOMAIN wire : wire[i].m \in OnWire(wire)'
    BY <1>1 DEF OnWire
  <2>2. l + 1 \in DOMAIN wire'
    BY <1>1
  <2>3. f.m \in OnWire(wire)'
    BY <1>1, <2>2 DEF OnWire
  <2> QED
    BY <2>1, <2>3 DEF OnWire
<1>8. settled \ (Handled \cup lost) \subseteq OnWire(wire)
  BY <1>3 DEF DiscordAll, SettledIsHandled
<1>9. Handled' = Handled
  BY DEF Handled
<1>10. settled' \ (Handled' \cup lost') \subseteq OnWire(wire)'
  BY <1>7, <1>8, <1>9
<1> QED
  BY <1>5, <1>6, <1>10, DiscordOrder, DiscordSettles DEF DiscordAll

\* A cut connection loses frames.
LEMMA DiscordSever ==
  ASSUME DiscordAll, driver' = driver, Sever
  PROVE  DiscordInv' /\ SettledIsHandled' /\ InOrderOnce'
<1>1. PICK n \in 0..Len(wire) : wire' = SubSeq(wire, 1, n)
  BY DEF Sever
<1>2. DOMAIN wire' = 1..n /\ DOMAIN wire = 1..Len(wire) /\ \A i \in 1..n : wire'[i] = wire[i] /\ i \in 1..Len(wire)
  BY <1>1, WireCut DEF DiscordAll
<1>3. UNCHANGED <<settled, hand, emitted, skipped>> /\ lost' = lost \cup (settled \ (Handled \cup OnWire(wire')))
  BY DEF Sever, LostBut, DiscordAll
<1>4. DiscordInv'
  BY <1>2, <1>3 DEF DiscordAll, DiscordInv, Increasing, IsMessage
<1>5. OnWire(wire)' = OnWire(wire') /\ Handled' = Handled
  BY <1>3 DEF OnWire, Handled
<1>6. settled' \ (Handled' \cup lost') \subseteq OnWire(wire)'
  BY <1>3, <1>5
<1> QED
  BY <1>4, <1>6, DiscordOrder, DiscordSettles DEF DiscordAll, DiscordInv

\* The connection ends.
LEMMA DiscordEnds ==
  ASSUME DiscordAll, driver' = driver, NEW well, Ended(well), UNCHANGED <<settled, emitted, skipped, hand>>
  PROVE  DiscordInv' /\ SettledIsHandled' /\ InOrderOnce'
<1>1. wire' = <<>> /\ lost' = LostBut(<<>>)
  BY DEF Ended, NoConnection, AfterConnection, ConnectionGone
<1>2. hand' = <<>>
  BY DEF DiscordAll, DiscordInv
<1> QED
  BY <1>1, <1>2, DiscordGone

\* A frame is read (connect_and_run).
LEMMA DiscordReads ==
  ASSUME DiscordAll, driver' = driver, Read
  PROVE  DiscordInv' /\ SettledIsHandled' /\ InOrderOnce'
<1> DEFINE frame == Head(wire)
<1>0. Socketed /\ driver = "discord" /\ hand = <<>>
  BY DEF DiscordAll, DiscordInv
<1>1. /\ wire # <<>>
      /\ UNCHANGED <<kinds, settled, excused, cancelled, crashed, faults, botKnown>>
  BY DEF Read
<1>2. \/ ReadEnd(frame) \/ ReadFatal(frame) \/ ReadHello(frame) \/ ReadBeat(frame)
      \/ HandleEnvelope(frame) \/ HandleDispatch(frame) \/ ReadPiece(frame)
  BY Zenon DEF Read
<1>3. frame = wire[1]
  BY <1>0, <1>1, WireTail
<1>4. CASE ReadEnd(frame)
  <2>1. Ended(TRUE) /\ UNCHANGED <<emitted, skipped, hand>>
    BY <1>4 DEF ReadEnd
  <2> QED
    BY <1>1, <2>1, DiscordEnds
<1>5. ASSUME NEW left, SendFails(left), UNCHANGED <<emitted, skipped, hand>>
      PROVE  DiscordInv' /\ SettledIsHandled' /\ InOrderOnce'
  <2>1. wire' = <<>> /\ lost' = LostBut(<<>>)
    BY <1>5 DEF SendFails, AfterConnection, ConnectionGone
  <2> QED
    BY <1>0, <1>1, <1>5, <2>1, DiscordGone
<1>6. CASE ReadFatal(frame)
  <2>1. wire' = <<>> /\ lost' = LostBut(<<>>) /\ UNCHANGED <<emitted, skipped, hand>>
    BY <1>6 DEF ReadFatal, NoConnection, ConnectionGone
  <2> QED
    BY <1>0, <1>1, <2>1, DiscordGone
<1>7. CASE ReadHello(frame)
  <2>1. UNCHANGED <<emitted, skipped, hand>> /\ wire[1].kind # "msg"
    BY <1>3, <1>7 DEF ReadHello
  <2>2. CASE SendFails(Detached \cup {"stray"})
    BY <1>5, <2>1, <2>2
  <2>3. CASE ~SendFails(Detached \cup {"stray"})
    <3>1. wire' = Tail(wire) /\ lost' = lost
      BY <1>7, <2>3 DEF ReadHello
    <3> QED
      BY <1>1, <2>1, <3>1, DiscordTail
  <2> QED
    BY <2>2, <2>3
<1>8. CASE ReadBeat(frame)
  <2>1. UNCHANGED <<emitted, skipped, hand>> /\ wire[1].kind # "msg"
    BY <1>3, <1>8 DEF ReadBeat
  <2>2. CASE SendFails(Detached)
    BY <1>5, <2>1, <2>2
  <2>3. CASE ~SendFails(Detached)
    <3>1. wire' = Tail(wire) /\ lost' = lost
      BY <1>8, <2>3 DEF ReadBeat
    <3> QED
      BY <1>1, <2>1, <3>1, DiscordTail
  <2> QED
    BY <2>2, <2>3
<1>9. CASE HandleDispatch(frame)
  <2>1. wire[1].kind = "msg" /\ wire' = Tail(wire) /\ UNCHANGED <<hand, lost>>
    BY <1>3, <1>9 DEF HandleDispatch
  <2>2. \/ emitted' = emitted /\ skipped' = skipped \cup {wire[1].m}
        \/ emitted' = Append(emitted, wire[1].m) /\ skipped' = skipped
    BY <1>3, <1>9 DEF HandleDispatch
  <2> QED
    BY <1>1, <2>1, <2>2, DiscordTail
<1>10. ~HandleEnvelope(frame) /\ ~ReadPiece(frame)
  BY <1>0 DEF HandleEnvelope, ReadPiece
<1> QED
  BY <1>2, <1>4, <1>6, <1>7, <1>8, <1>9, <1>10

\* Every step of Discord.
LEMMA DiscordKept ==
  ASSUME DiscordAll, driver' = driver,
         Pump \/ BeatCancelled \/ BeatFails \/ Platform \/ Trouble \/ (\E kind \in Kinds : Posted(kind))
           \/ (CancelPump /\ UNCHANGED socket)
  PROVE  DiscordInv' /\ SettledIsHandled' /\ InOrderOnce'
<1>0. Socketed /\ driver = "discord" /\ hand = <<>>
  BY DEF DiscordAll, DiscordInv
<1>1. CASE Top \/ Sleep \/ Fetch
  <2>1. UNCHANGED <<messages, socket>>
    BY <1>1 DEF Top, Sleep, Fetch, DiscoverGateway, FetchSocketUrl, OpenConnection, Discover, Found, NotFound
  <2> QED
    BY <2>1, DiscordSame DEF messages, socket, conn
<1>2. CASE Dial
  <2>1. UNCHANGED <<kinds, settled, hand, emitted, skipped>>
    BY <1>2 DEF Dial
  <2>2. CASE Ended(FALSE)
    BY <2>1, <2>2, DiscordEnds
  <2>3. CASE ~Ended(FALSE)
    <3>1. wire = <<>>
      BY <1>0, <1>2 DEF Dial, Socketed, SocketInv
    <3>2. lost' = lost /\ wire' = <<Plain("hello")>>
      BY <1>0, <1>2, <2>3 DEF Dial
    <3>3. wire' = Append(wire, Plain("hello"))
      BY <3>1, <3>2
    <3>4. Plain("hello").kind # "msg"
      BY FrameForms DEF Control
    <3> QED
      BY <2>1, <3>2, <3>3, <3>4, DiscordAppend
  <2> QED
    BY <2>2, <2>3
<1>3. CASE StopReading \/ LinkEnds
  <2>1. \E well \in BOOLEAN : Ended(well)
    BY <1>3 DEF StopReading, LinkEnds
  <2>2. UNCHANGED <<settled, hand, emitted, skipped>>
    BY <1>3 DEF StopReading, LinkEnds
  <2> QED
    BY <2>1, <2>2, DiscordEnds
<1>4. CASE Read
  BY <1>4, DiscordReads
<1>5. ~Ack /\ ~EnsureBotOpenId
  BY <1>0 DEF Ack, EnsureBotOpenId, Socketed, SocketInv
<1>6. ~EmitEventsApi /\ ~HandleFrame /\ ~HandleBinary /\ ~Deliver /\ ~Redeliver
  BY <1>0 DEF EmitEventsApi, HandleFrame, HandleBinary, Deliver, Redeliver, Acked
<1>7. CASE BeatCancelled \/ BeatFails \/ (CancelPump /\ UNCHANGED socket)
  <2>1. UNCHANGED <<messages, wire>>
    BY <1>7 DEF BeatCancelled, BeatFails, CancelPump, feed, socket, conn
  <2> QED
    BY <2>1, DiscordSame DEF messages
<1>8. CASE Sever
  BY <1>8, DiscordSever
<1>9. CASE AnswerClose \/ \E kind \in Control : SendControl(kind)
  <2>1. PICK kind \in Control : wire' = Append(wire, Plain(kind))
    BY <1>9 DEF AnswerClose, SendControl, Control
  <2>2. UNCHANGED <<settled, hand, emitted, skipped, lost>>
    BY <1>9 DEF AnswerClose, SendControl, feed, messages
  <2>3. Plain(kind).kind # "msg"
    BY FrameForms
  <2> QED
    BY <2>1, <2>2, <2>3, DiscordAppend
<1>10. CASE Restart
  <2>1. /\ wire' = <<>> /\ hand' = <<>> /\ lost' = lost \cup (settled \ Handled)
        /\ UNCHANGED <<settled, emitted, skipped>>
    BY <1>10 DEF Restart, RestartTask, ConnectionGone
  <2> QED
    BY <2>1, DiscordGone
<1>11. ASSUME NEW kind \in Kinds, Posted(kind) PROVE DiscordInv' /\ SettledIsHandled' /\ InOrderOnce'
  <2>1. PICK n : n = Len(kinds')
    OBVIOUS
  <2>2. n \in Messages /\ n \in Nat /\ \A m \in Written : m < n
    BY <1>0, <1>11, <2>1, PostedFacts, SocketFacts
  <2>3. UNCHANGED <<hand, emitted, skipped>> /\ settled' = settled \cup {n}
    BY <1>0, <1>11, <2>1 DEF Posted
  <2>4. CASE lost' = lost /\ wire' = Append(wire, Piece(n, 0))
    <3>1. Piece(n, 0).kind = "msg" /\ Piece(n, 0).m = n
      BY FrameForms
    <3> QED
      BY <2>2, <2>3, <2>4, <3>1, DiscordAppend
  <2>5. CASE lost' = lost \cup {n} /\ wire' = wire
    <3>1. DiscordInv'
      BY <2>3, <2>5 DEF DiscordAll, DiscordInv, Increasing, IsMessage
    <3>2. settled \ (Handled \cup lost) \subseteq OnWire(wire)
      BY <1>0, RangeOfEmpty DEF DiscordAll, SettledIsHandled
    <3>3. Handled' = Handled /\ OnWire(wire)' = OnWire(wire)
      BY <2>3, <2>5 DEF Handled, OnWire
    <3>4. settled' \ (Handled' \cup lost') \subseteq OnWire(wire)'
      BY <2>3, <2>5, <3>2, <3>3
    <3> QED
      BY <1>0, <3>1, <3>4, DiscordOrder, DiscordSettles DEF DiscordInv
  <2> QED
    BY <1>0, <1>11, <2>1, <2>4, <2>5 DEF Posted
<1> QED
  BY <1>1, <1>2, <1>3, <1>4, <1>5, <1>6, <1>7, <1>8, <1>9, <1>10, <1>11 DEF Pump, Platform, Trouble

-----------------------------------------------------------------------------
(* ---- the long polls ---- *)

\* The type invariants of the instances, in InboundPumps' own terms.
LEMMA InstanceTypes ==
  /\ Poll!TypeOK <=> FeedTypeOK /\ cursor \in 0..MaxMessages /\ stored \in 0..cursor
  /\ Hook!TypeOK <=> FeedTypeOK /\ posts \in [Messages -> 0..MaxPosts]
  BY DEF Poll!TypeOK, Poll!FeedTypeOK, Poll!Written, Poll!Kinds, Hook!TypeOK, Hook!FeedTypeOK, Hook!Written, Hook!Kinds,
     Hook!Messages, Messages, FeedTypeOK, Written, Kinds

\* LongPoll's operators are those of InboundPumps,
LEMMA PollOperators ==
  /\ Poll!Written = Written /\ Poll!Handled = Handled /\ (Poll!Fault <=> Fault)
  /\ (Poll!RestartTask <=> RestartTask)
  /\ \A S : Poll!InOrder(S) = InOrder(S)
  /\ Poll!messages = messages
<1>1. Poll!Written = Written /\ Poll!Handled = Handled /\ (Poll!Fault <=> Fault)
  BY DEF Poll!Written, Written, Poll!Handled, Handled, Poll!Fault, Fault, Poll!Range, Range
<1>2. Poll!RestartTask <=> RestartTask
  BY <1>1 DEF Poll!RestartTask, RestartTask
<1>c. \A S : Poll!Cardinality(S) = Cardinality(S)
  BY Zenon DEF Poll!Cardinality, Cardinality
<1>3. \A S : Poll!InOrder(S) = InOrder(S)
  BY <1>c DEF Poll!InOrder, InOrder, Poll!SetToSeqs, SetToSeqs
<1>4. Poll!messages = messages
  BY DEF Poll!messages, messages
<1> QED
  BY <1>1, <1>2, <1>3, <1>4

\* also the one that emits,
LEMMA PollEmits ==
  ASSUME NEW F, Poll!EmitHand(F)
  PROVE  EmitHand(F)
  BY PollOperators DEF Poll!EmitHand, EmitHand, Poll!Range, Range

\* and WebhookInbound's are, too.
LEMMA HookOperators == Hook!Written = Written /\ Hook!Handled = Handled /\ (Hook!Fault <=> Fault)
  BY DEF Hook!Written, Written, Hook!Handled, Handled, Hook!Fault, Fault, Hook!Range, Range

\* The last of growing numbers is the greatest.
LEMMA LastFacts ==
  ASSUME NEW S, S \subseteq Nat, NEW s \in Seq(S), s # <<>>, Increasing(s)
  PROVE  Last(s) \in Range(s) /\ Last(s) \in S /\ \A n \in Range(s) : n <= Last(s)
<1>1. Len(s) \in Nat /\ Len(s) >= 1 /\ DOMAIN s = 1..Len(s) /\ Len(s) \in DOMAIN s /\ Last(s) = s[Len(s)]
      /\ \A i \in DOMAIN s : s[i] \in S
  BY DEF Last
<1>2. Last(s) \in Range(s) /\ Last(s) \in S
  BY <1>1 DEF Range
<1>3. ASSUME NEW i \in DOMAIN s PROVE s[i] <= Last(s)
  <2>1. i = Len(s) \/ i < Len(s)
    BY <1>1
  <2>2. s[i] \in Nat /\ s[Len(s)] \in Nat
    BY <1>1
  <2>3. CASE i = Len(s)
    BY <1>1, <2>2, <2>3
  <2>4. CASE i < Len(s)
    <3>1. s[i] < s[Len(s)]
      BY <1>1, <2>4 DEF Increasing
    <3> QED
      BY <1>1, <2>2, <3>1
  <2> QED
    BY <2>1, <2>3, <2>4
<1> QED
  BY <1>2, <1>3 DEF Range

\* An answer to a poll: everything new up to some message.
LEMMA BatchFacts ==
  ASSUME FeedTypeOK, NEW new, new \subseteq Written, Poll!Batch(new)
  PROVE  /\ hand' \in Seq(Written) /\ hand' # <<>> /\ Increasing(hand)'
         /\ Range(hand') \subseteq new
         /\ Last(hand') \in new
         /\ \A m \in new : m <= Last(hand') => m \in Range(hand')
         /\ \A n \in Range(hand') : n <= Last(hand')
<1>1. PICK n \in new : hand' \in InOrder({m \in new : m <= n})
  BY PollOperators DEF Poll!Batch
<1>2. Written \subseteq Nat /\ IsFiniteSet(Written) /\ Written = 1..Len(kinds) /\ Len(kinds) \in Nat
  <2>1. Len(kinds) \in Int /\ 1 \in Int /\ Written = 1..Len(kinds)
    BY WrittenFacts
  <2>2. IsFiniteSet(Written)
    BY <2>1, FS_Interval, Zenon
  <2> QED
    BY <2>1, <2>2, WrittenFacts
<1>3. PICK S : S = {m \in new : m <= n}
  OBVIOUS
<1>4. S \subseteq Written /\ IsFiniteSet(S) /\ S \subseteq Nat /\ n \in S
  <2>0. n \in new /\ n \in Nat /\ n <= n
    BY <1>1, <1>2
  <2>1. S \subseteq Written /\ n \in S
    BY <1>3, <2>0
  <2> QED
    BY <1>2, <2>1, FS_Subset
<1>5. PICK s \in InOrder(S) : s = hand'
  BY <1>1, <1>3
<1>6. s \in Seq(S) /\ Range(s) = S /\ Increasing(s)
  BY <1>4, InOrderFacts
<1>7. s # <<>>
  BY <1>4, <1>6, RangeOfEmpty
<1>8. Last(s) \in S /\ \A k \in S : k <= Last(s)
  BY <1>4, <1>6, <1>7, LastFacts
<1>9. Last(s) = n
  <2>1. Last(s) <= n /\ n <= Last(s) /\ n \in Nat /\ Last(s) \in Nat
    BY <1>3, <1>4, <1>8
  <2> QED
    BY <2>1
<1>10. s \in Seq(Written)
  <2>1. \A T, U : T \subseteq U => Seq(T) \subseteq Seq(U)
    OBVIOUS
  <2> QED
    BY <1>4, <1>6, <2>1, Zenon
<1>11. Increasing(hand)'
  BY <1>5, <1>6 DEF Increasing
<1>12. Last(s) \in new /\ Range(s) \subseteq new /\ \A m \in new : m <= Last(s) => m \in Range(s)
  BY <1>3, <1>6, <1>8, <1>9
<1> QED
  BY <1>5, <1>6, <1>7, <1>8, <1>10, <1>11, <1>12

\* What the pumps without a socket have in common.
Polled ==
  /\ FeedTypeOK
  /\ cursor \in 0..MaxMessages
  /\ stored \in 0..cursor
  /\ SettledIsHandled
  /\ InOrderOnce

\* The kinds of values of such a pump.
LEMMA PolledFacts ==
  ASSUME Polled
  PROVE  /\ Written = 1..Len(kinds) /\ Len(kinds) \in Nat /\ Written \subseteq Messages /\ Messages \subseteq Nat
         /\ hand \in Seq(Written) /\ emitted \in Seq(Written) /\ Range(hand) \subseteq Written /\ Range(emitted) \subseteq Written
         /\ Handled \subseteq Written /\ settled \subseteq Written /\ excused \subseteq Written /\ skipped \subseteq Written
         /\ cursor \in Nat /\ stored \in Nat /\ MaxMessages \in Nat /\ Messages = 1..MaxMessages
         /\ lost \subseteq settled
<1>1. FeedTypeOK /\ hand \in Seq(Written) /\ emitted \in Seq(Written) /\ settled \subseteq Written
      /\ excused \subseteq Written /\ skipped \subseteq Written /\ lost \subseteq settled
  BY DEF Polled, FeedTypeOK
<1>2. Range(hand) \subseteq Written /\ Range(emitted) \subseteq Written
  BY <1>1, RangeFacts
<1>3. Handled \subseteq Written
  BY <1>1, <1>2 DEF Handled
<1>4. cursor \in Nat /\ stored \in Nat /\ MaxMessages \in Nat /\ Messages = 1..MaxMessages
  BY FeedConstants DEF Polled, Messages
<1> QED
  BY <1>1, <1>2, <1>3, <1>4, WrittenFacts

\* The invariant of Telegram.
TelegramAll == driver = "telegram" /\ Polled /\ TelegramInv

\* Telegram loses nothing: what is confirmed was handled.
LEMMA TelegramLosesNothing ==
  ASSUME TelegramAll
  PROVE  lost = {} /\ settled \subseteq Handled
  BY DEF TelegramAll, Polled, SettledIsHandled, TelegramInv

\* So SettledIsHandled holds.
LEMMA TelegramSettles ==
  ASSUME driver = "telegram", driver' = driver, settled' \subseteq Handled', lost' = {}
  PROVE  SettledIsHandled'
  BY DEF SettledIsHandled

\* Steps that leave the messages alone, but for a confirmation.
LEMMA TelegramConfirms ==
  ASSUME TelegramAll, driver' = driver, UNCHANGED <<kinds, hand, emitted, skipped, lost, excused, cancelled, crashed, cursor, stored>>,
         settled' \in {settled, settled \cup 1..cursor}, pc # "forward",
         pc' \in {"top", "polling", "sleep", "stopped"}, backoff' = backoff, faults' \in 0..MaxFaults
  PROVE  Polled' /\ TelegramInv'
<1>1. settled' \subseteq Written /\ settled \subseteq settled' /\ settled' \subseteq settled \cup 1..cursor
  BY PolledFacts DEF TelegramAll, TelegramInv
<1>2. FeedTypeOK'
  BY <1>1 DEF TelegramAll, Polled, FeedTypeOK, Written
<1>3. Handled' = Handled
  BY DEF Handled
<1>4. TelegramInv'
  BY <1>1, <1>3 DEF TelegramAll, TelegramInv
<1>5. SettledIsHandled'
  BY <1>4, TelegramSettles, TelegramLosesNothing DEF TelegramAll, TelegramInv
<1>6. InOrderOnce'
  BY OrderSame DEF TelegramAll, Polled
<1> QED
  BY <1>2, <1>4, <1>5, <1>6 DEF Polled, TelegramAll

\* getUpdates with the offset confirms what lies before it, and answers what follows.
LEMMA TelegramAnswers ==
  ASSUME TelegramAll, driver' = driver, Poll!TelegramAnswer
  PROVE  Polled' /\ TelegramInv'
<1>1. /\ settled' = settled \cup 1..cursor /\ pc' = "forward" /\ Poll!Batch(Written \ (settled \cup 1..cursor))
      /\ UNCHANGED <<kinds, emitted, skipped, lost, excused, backoff, cancelled, crashed, faults, cursor, stored>>
  BY PollOperators DEF Poll!TelegramAnswer, Poll!Confirmed
<1>2. PICK new : new = Written \ (settled \cup 1..cursor)
  OBVIOUS
<1>3. /\ hand' \in Seq(Written) /\ hand' # <<>> /\ Increasing(hand)'
      /\ Range(hand') \subseteq new
      /\ Last(hand') \in new
      /\ \A m \in new : m <= Last(hand') => m \in Range(hand')
  BY <1>1, <1>2, BatchFacts DEF TelegramAll, Polled
<1>4. settled' \subseteq Written
  BY <1>1, PolledFacts DEF TelegramAll, TelegramInv
<1>5. FeedTypeOK'
  BY <1>1, <1>3, <1>4 DEF TelegramAll, Polled, FeedTypeOK, Written
<1>6. Handled' = Handled
  BY <1>1 DEF Handled
<1>7. 1..Last(hand') \subseteq settled' \cup Range(hand')
  <2> SUFFICES ASSUME NEW m \in 1..Last(hand'), m \notin settled' PROVE m \in Range(hand')
    OBVIOUS
  <2>0. Last(hand') \in 1..Len(kinds) /\ Len(kinds) \in Nat /\ Written = 1..Len(kinds)
    BY <1>2, <1>3, PolledFacts DEF TelegramAll
  <2>1. m \in Written /\ m <= Last(hand')
    BY <2>0
  <2> QED
    BY <1>1, <1>2, <1>3, <2>1
<1>8. Range(hand') \cap settled' = {}
  BY <1>1, <1>2, <1>3
<1>9. TelegramInv'
  BY <1>1, <1>3, <1>6, <1>7, <1>8 DEF TelegramAll, TelegramInv
<1>10. SettledIsHandled'
  BY <1>1, <1>9, TelegramSettles, TelegramLosesNothing DEF TelegramAll, TelegramInv
<1>11. InOrderOnce'
  BY <1>1, OrderSame DEF TelegramAll, Polled
<1> QED
  BY <1>1, <1>5, <1>9, <1>10, <1>11 DEF Polled, TelegramAll

\* The batch is emitted and the offset set behind it.
LEMMA TelegramForwards ==
  ASSUME TelegramAll, driver' = driver, Poll!TelegramForward
  PROVE  Polled' /\ TelegramInv'
<1>0. PICK F : EmitHand(F)
  BY PollEmits DEF Poll!TelegramForward
<1>1. /\ cursor' = Last(hand) /\ pc = "forward" /\ pc' = "top"
      /\ UNCHANGED <<kinds, settled, lost, excused, backoff, cancelled, crashed, faults, stored>>
  BY DEF Poll!TelegramForward, Poll!Last, Last
<1>2. /\ hand' = <<>> /\ emitted' \in Seq(Written) /\ skipped' \subseteq Written
      /\ Handled' = Handled \cup Range(hand)
  BY <1>0, EmitFacts DEF TelegramAll, Polled
<1>3. /\ hand # <<>> /\ Increasing(hand) /\ 1..cursor \subseteq settled /\ Range(hand) \cap settled = {}
      /\ 1..Last(hand) \subseteq settled \cup Range(hand)
  BY <1>1 DEF TelegramAll, TelegramInv
<1>4. Last(hand) \in Written /\ \A n \in Range(hand) : n <= Last(hand)
  BY <1>3, LastFacts, PolledFacts DEF TelegramAll
<1>5. PICK c \in Nat : c = Last(hand)
  BY <1>4, PolledFacts DEF TelegramAll
<1>6. Range(hand) \subseteq 1..c
  BY <1>4, <1>5, PolledFacts DEF TelegramAll
<1>7. FeedTypeOK'
  BY <1>1, <1>2 DEF TelegramAll, Polled, FeedTypeOK, Written
<1>8. cursor' \in 0..MaxMessages /\ stored' \in 0..cursor'
  <2>1. c \in 1..MaxMessages
    BY <1>4, <1>5, PolledFacts DEF TelegramAll
  <2>2. stored = 0
    BY DEF TelegramAll, TelegramInv
  <2> QED
    BY <1>1, <1>5, <2>1, <2>2
<1>9. TelegramInv'
  <2>1. settled \cup 1..c \subseteq Handled'
    BY <1>2, <1>3, <1>5 DEF TelegramAll, TelegramInv
  <2>2. Handled' \subseteq settled \cup 1..c \cup excused
    BY <1>2, <1>3, <1>6 DEF TelegramAll, TelegramInv
  <2>3. ASSUME NEW n \in Handled' PROVE 1..n \subseteq Handled'
    <3>1. CASE n \in Handled
      BY <1>2, <3>1 DEF TelegramAll, TelegramInv
    <3>2. CASE n \in Range(hand)
      <4>1. n \in 1..c
        BY <1>6, <3>2
      <4>2. 1..n \subseteq 1..c
        BY <1>5, <4>1
      <4> QED
        BY <2>1, <4>2
    <3> QED
      BY <1>2, <3>1, <3>2
  <2> QED
    BY <1>1, <1>2, <1>5, <2>1, <2>2, <2>3 DEF TelegramAll, TelegramInv
<1>10. SettledIsHandled'
  BY <1>1, <1>9, TelegramSettles, TelegramLosesNothing DEF TelegramAll, TelegramInv
<1>11. PICK batch \in Seq(Written) : emitted' = emitted \o batch /\ Range(batch) \subseteq Range(hand) /\ Increasing(batch)
  BY <1>0, EmitFacts DEF TelegramAll, Polled
<1>12. ASSUME NEW n \in Range(hand), n \notin excused, NEW k \in Range(emitted) PROVE k < n
  <2>1. k \in Handled /\ k \in Nat /\ n \in Nat /\ n >= 1 /\ n \notin settled /\ n \notin 1..cursor
    BY <1>3, <1>6, <1>12, PolledFacts DEF Handled, TelegramAll
  <2>2. n \notin Handled
    BY <1>12, <2>1 DEF TelegramAll, TelegramInv
  <2>3. ~(n \in 1..k)
    BY <2>1, <2>2 DEF TelegramAll, TelegramInv
  <2> QED
    BY <2>1, <2>3
<1>13. InOrderOnce'
  <2>1. \A n \in Range(batch) : n \in excused \/ \A k \in Range(emitted) : k < n
    BY <1>11, <1>12
  <2>2. emitted \in Seq(Written) /\ Written \subseteq Nat
    BY PolledFacts DEF TelegramAll
  <2> QED
    BY <1>1, <1>11, <2>1, <2>2, BatchInOrder DEF TelegramAll, Polled
<1> QED
  BY <1>7, <1>8, <1>9, <1>10, <1>13 DEF Polled

\* A restart forgets the offset: what was handled since is sent once more.
LEMMA TelegramRestarts ==
  ASSUME TelegramAll, driver' = driver, Poll!TelegramRestart
  PROVE  Polled' /\ TelegramInv'
<1>1. /\ cursor' = 0 /\ excused' = excused \cup (Handled \ settled) /\ stored' = stored
      /\ Fault /\ crashed' = TRUE /\ hand' = <<>> /\ lost' = lost \cup (settled \ Handled) /\ pc' = "top" /\ backoff' = 0
      /\ UNCHANGED <<kinds, settled, emitted, skipped, cancelled>>
  BY PollOperators DEF Poll!TelegramRestart, RestartTask
<1>2. lost' = {} /\ stored = 0 /\ settled \subseteq Handled
  BY <1>1, TelegramLosesNothing DEF TelegramAll, TelegramInv
<1>3. faults' \in 0..MaxFaults /\ 0 \in 0..MaxBackoff /\ 0 \in 0..MaxMessages
  BY <1>1, FeedConstants DEF Fault, TelegramAll, Polled, FeedTypeOK
<1>4. excused' \subseteq Written
  BY <1>1, PolledFacts DEF TelegramAll
<1>5. FeedTypeOK'
  BY <1>1, <1>2, <1>3, <1>4 DEF TelegramAll, Polled, FeedTypeOK, Written
<1>6. Handled' = Handled
  BY <1>1 DEF Handled
<1>7. (1..cursor)' = {}
  BY <1>1
<1>8. TelegramInv'
  BY <1>1, <1>2, <1>6, <1>7 DEF TelegramAll, TelegramInv
<1>9. SettledIsHandled'
  BY <1>1, <1>2, <1>6, TelegramSettles DEF TelegramAll
<1>10. InOrderOnce'
  BY <1>1, OrderSame DEF TelegramAll, Polled
<1>11. cursor' \in 0..MaxMessages /\ stored' \in 0..cursor'
  BY <1>1, <1>2, <1>3
<1> QED
  BY <1>5, <1>8, <1>9, <1>10, <1>11 DEF Polled

\* Every step of Telegram's pump.
LEMMA TelegramKept ==
  ASSUME TelegramAll, driver' = driver,
         Poll!Telegram \/ Poll!PollFails(Poll!Confirmed) \/ Poll!TelegramRestart
           \/ (CancelPump /\ UNCHANGED polls)
  PROVE  Polled' /\ TelegramInv'
<1>0. FeedTypeOK /\ faults \in 0..MaxFaults /\ MaxFaults \in Nat /\ cancelled \in BOOLEAN
  BY FeedConstants DEF TelegramAll, Polled, FeedTypeOK
<1>1. CASE Poll!Top \/ Poll!Sleep(FALSE)
  BY <1>0, <1>1, TelegramConfirms DEF Poll!Top, Poll!Sleep, Poll!messages
<1>2. CASE Poll!PollCancelled(Poll!Confirmed)
  BY <1>0, <1>2, TelegramConfirms DEF Poll!PollCancelled, Poll!Confirmed
<1>5. CASE Poll!AnswerEmpty(Poll!Confirmed, Poll!Confirmed)
  BY <1>0, <1>5, TelegramConfirms DEF Poll!AnswerEmpty, Poll!Confirmed
<1>3. CASE Poll!PollFails(Poll!Confirmed)
  <2>1. faults' \in 0..MaxFaults
    BY <1>0, <1>3 DEF Poll!PollFails, Poll!Fault
  <2> QED
    BY <1>3, <2>1, TelegramConfirms DEF Poll!PollFails, Poll!Confirmed
<1>4. CASE CancelPump /\ UNCHANGED polls
  <2>1. UNCHANGED <<messages, pc, backoff, crashed, faults, polls>> /\ cancelled' = TRUE
    BY <1>4 DEF CancelPump
  <2>2. FeedTypeOK'
    BY <1>0, <2>1 DEF FeedTypeOK, Written, messages
  <2>3. Handled' = Handled
    BY <2>1 DEF Handled, messages
  <2>4. TelegramInv' /\ cursor' = cursor /\ stored' = stored
    BY <2>1, <2>3 DEF TelegramAll, TelegramInv, messages, polls, Increasing
  <2>5. SettledIsHandled'
    BY <2>1, <2>4, TelegramSettles, TelegramLosesNothing DEF TelegramAll, TelegramInv, messages
  <2>6. InOrderOnce'
    BY <2>1, OrderSame DEF TelegramAll, Polled, messages
  <2> QED
    BY <2>2, <2>4, <2>5, <2>6 DEF Polled, TelegramAll
<1> QED
  BY <1>1, <1>2, <1>3, <1>4, <1>5, TelegramAnswers, TelegramForwards, TelegramRestarts DEF Poll!Telegram

\* The invariant of WeClaw.
WeclawAll == driver = "weclaw" /\ Polled /\ WeclawInv

\* What is settled lies behind the saved buffer: it was handled, or lost in a crash.
LEMMA WeclawSettles ==
  ASSUME driver = "weclaw", driver' = driver, WeclawInv', stored' \in 0..cursor', cursor' \in Nat,
         lost' # {} => crashed'
  PROVE  SettledIsHandled'
<1>1. settled' = 1..stored' /\ 1..cursor' \subseteq Handled' \cup lost' \cup Range(hand')
  BY DEF WeclawInv
<1>2. 1..stored' \subseteq 1..cursor'
  <2>1. PICK a, b : a = stored' /\ b = cursor'
    OBVIOUS
  <2>2. b \in Nat /\ a \in 0..b
    BY <2>1
  <2>3. 1..a \subseteq 1..b
    BY <2>2
  <2> QED
    BY <2>1, <2>3
<1> QED
  BY <1>1, <1>2 DEF SettledIsHandled

\* Steps that leave messages and buffer alone.
LEMMA WeclawSame ==
  ASSUME WeclawAll, driver' = driver,
         UNCHANGED <<kinds, settled, hand, emitted, skipped, lost, excused, crashed, cursor, stored>>,
         pc' = pc \/ (pc \notin {"persist", "forward"} /\ pc' \in {"top", "polling", "sleep", "stopped"}),
         backoff' = backoff, faults' \in 0..MaxFaults, cancelled' \in BOOLEAN
  PROVE  Polled' /\ WeclawInv'
<1>1. pc' \in {"top", "polling", "persist", "forward", "sleep", "stopped"}
  BY DEF WeclawAll, WeclawInv
<1>2. FeedTypeOK'
  BY <1>1 DEF WeclawAll, Polled, FeedTypeOK, Written
<1>3. Handled' = Handled /\ Dealt' = Dealt /\ Written' = Written
  BY DEF Handled, Dealt, Written
<1>4. WeclawInv'
  BY <1>1, <1>3 DEF WeclawAll, WeclawInv, Increasing
<1>5. SettledIsHandled'
  BY SettledSame DEF WeclawAll, Polled
<1>6. InOrderOnce'
  BY OrderSame DEF WeclawAll, Polled
<1> QED
  BY <1>2, <1>4, <1>5, <1>6 DEF Polled, WeclawAll

\* getupdates answers what lies behind the buffer, and the next buffer.
LEMMA WeclawAnswers ==
  ASSUME WeclawAll, driver' = driver, Poll!WeclawAnswer
  PROVE  Polled' /\ WeclawInv'
<1>1. /\ pc = "polling" /\ pc' = "persist" /\ Poll!Batch({m \in Written : m > cursor}) /\ cursor' = Last(hand')
      /\ UNCHANGED <<kinds, settled, emitted, skipped, lost, excused, backoff, cancelled, crashed, faults, stored>>
  BY PollOperators DEF Poll!WeclawAnswer, Poll!Last, Last
<1>2. PICK new : new = {m \in Written : m > cursor}
  OBVIOUS
<1>3. PICK c : c = Last(hand')
  OBVIOUS
<1>4. /\ hand' \in Seq(Written) /\ hand' # <<>> /\ Increasing(hand)'
      /\ Range(hand') \subseteq new
      /\ c \in new
      /\ \A m \in new : m <= c => m \in Range(hand')
  BY <1>1, <1>2, <1>3, BatchFacts DEF WeclawAll, Polled
<1>5. hand = <<>> /\ Range(hand) = {}
  BY <1>1, RangeOfEmpty DEF WeclawAll, WeclawInv
<1>6. Written = 1..Len(kinds) /\ Len(kinds) \in Nat /\ cursor \in Nat /\ c \in Written /\ c > cursor /\ c \in Nat
      /\ Written \subseteq 1..MaxMessages
  BY <1>2, <1>4, PolledFacts DEF WeclawAll
<1>7. FeedTypeOK'
  BY <1>1, <1>4 DEF WeclawAll, Polled, FeedTypeOK, Written
<1>8. cursor' \in 0..MaxMessages /\ stored' \in 0..cursor' /\ cursor' \in Nat
  <2>1. stored \in 0..cursor
    BY DEF WeclawAll, Polled
  <2>2. c \in 0..MaxMessages /\ stored \in 0..c
    <3>1. c \in 1..MaxMessages
      BY <1>6
    <3> QED
      BY <1>6, <2>1, <3>1
  <2> QED
    BY <1>1, <1>3, <1>6, <2>2
<1>9. 1..c \subseteq Written
  BY <1>6
<1>10. ASSUME NEW m \in 1..c PROVE m \in 1..cursor \/ m \in Range(hand')
  <2>1. CASE m <= cursor
    BY <1>6, <2>1
  <2>2. CASE ~(m <= cursor)
    <3>1. m \in new /\ m <= c
      BY <1>2, <1>6, <1>9, <2>2
    <3> QED
      BY <1>4, <3>1
  <2> QED
    BY <2>1, <2>2
<1>11. Handled' = Handled /\ Dealt' = Dealt /\ Written' = Written
  BY <1>1 DEF Handled, Dealt, Written
<1>12. 1..c \subseteq Handled \cup lost \cup Range(hand')
  BY <1>5, <1>10 DEF WeclawAll, WeclawInv
<1>13. 1..c \subseteq Dealt \cup Range(hand')
  BY <1>1, <1>10 DEF WeclawAll, WeclawInv
<1>14. ASSUME NEW m \in Range(hand') \ excused, NEW n \in Range(emitted) PROVE n < m
  <2>1. m \in Nat /\ m > cursor /\ m >= 1 /\ n \in Nat
    BY <1>2, <1>4, <1>6, PolledFacts DEF WeclawAll
  <2>2. m \notin settled
    <3>1. settled = 1..stored /\ stored \in 0..cursor
      BY DEF WeclawAll, WeclawInv, Polled
    <3> QED
      BY <1>6, <2>1, <3>1
  <2>3. ~(m \in 1..n)
    BY <1>14, <2>2 DEF WeclawAll, WeclawInv, Dealt
  <2> QED
    BY <2>1, <2>3
<1>15. WeclawInv'
  BY <1>1, <1>3, <1>4, <1>9, <1>11, <1>12, <1>13, <1>14 DEF WeclawAll, WeclawInv
<1>16. lost' # {} => crashed'
  BY <1>1 DEF WeclawAll, Polled, SettledIsHandled
<1>17. SettledIsHandled'
  BY <1>8, <1>15, <1>16, WeclawSettles DEF WeclawAll
<1>18. InOrderOnce'
  BY <1>1, OrderSame DEF WeclawAll, Polled
<1> QED
  BY <1>7, <1>8, <1>15, <1>17, <1>18 DEF Polled

\* The buffer is saved before its messages are handled.
LEMMA WeclawPersists ==
  ASSUME WeclawAll, driver' = driver, Poll!Persist
  PROVE  Polled' /\ WeclawInv'
<1>0. faults \in 0..MaxFaults /\ MaxFaults \in Nat /\ stored \in 0..cursor /\ cursor \in 0..MaxMessages /\ cursor \in Nat
  BY FeedConstants, PolledFacts DEF WeclawAll, Polled, FeedTypeOK
<1>1. /\ pc = "persist" /\ pc' = "forward"
      /\ UNCHANGED <<kinds, hand, emitted, skipped, lost, backoff, cancelled, crashed, cursor>>
  BY DEF Poll!Persist
<1>2. \/ stored' = cursor /\ settled' = 1..cursor /\ excused' = excused /\ faults' = faults
      \/ Poll!Fault /\ excused' = excused \cup Range(hand) /\ stored' = stored /\ settled' = settled
  BY DEF Poll!Persist, Poll!Range, Range
<1>3. faults' \in 0..MaxFaults
  BY <1>0, <1>2 DEF Poll!Fault
<1>4. settled = 1..stored /\ 1..cursor \subseteq Written /\ 1..cursor \subseteq Dealt \cup Range(hand)
  BY <1>1 DEF WeclawAll, WeclawInv
<1>5. settled \subseteq settled' /\ settled' \subseteq Written /\ excused \subseteq excused' /\ excused' \subseteq Written
  <2>1. 1..stored \subseteq 1..cursor
    BY <1>0
  <2>2. settled \subseteq Written /\ excused \subseteq Written /\ Range(hand) \subseteq Written
    BY PolledFacts DEF WeclawAll
  <2> QED
    BY <1>2, <1>4, <2>1, <2>2
<1>6. FeedTypeOK'
  BY <1>1, <1>3, <1>5 DEF WeclawAll, Polled, FeedTypeOK, Written
<1>7. Handled' = Handled /\ Dealt \subseteq Dealt' /\ Written' = Written
  BY <1>1, <1>5 DEF Handled, Dealt, Written
<1>8. 1..cursor \subseteq Dealt'
  BY <1>2, <1>4 DEF Dealt
<1>9. settled' = 1..stored'
  BY <1>2, <1>4
<1>10. WeclawInv'
  BY <1>1, <1>5, <1>7, <1>8, <1>9 DEF WeclawAll, WeclawInv, Increasing
<1>11. cursor' \in 0..MaxMessages /\ stored' \in 0..cursor' /\ cursor' \in Nat
  <2>1. cursor \in 0..cursor
    BY <1>0
  <2> QED
    BY <1>0, <1>1, <1>2, <2>1
<1>12. lost' # {} => crashed'
  BY <1>1 DEF WeclawAll, Polled, SettledIsHandled
<1>13. SettledIsHandled'
  BY <1>10, <1>11, <1>12, WeclawSettles DEF WeclawAll
<1>14. InOrderOnce'
  BY <1>1, <1>5, OrderSame DEF WeclawAll, Polled
<1> QED
  BY <1>6, <1>10, <1>11, <1>13, <1>14 DEF Polled

\* The messages are handled.
LEMMA WeclawForwards ==
  ASSUME WeclawAll, driver' = driver, Poll!WeclawForward
  PROVE  Polled' /\ WeclawInv'
<1>0. PICK F : EmitHand(F)
  BY PollEmits DEF Poll!WeclawForward
<1>1. /\ pc = "forward" /\ pc' = "top"
      /\ UNCHANGED <<kinds, settled, lost, excused, backoff, cancelled, crashed, faults, cursor, stored>>
  BY DEF Poll!WeclawForward
<1>2. /\ hand' = <<>> /\ emitted' \in Seq(Written) /\ skipped' \subseteq Written
      /\ Handled' = Handled \cup Range(hand) /\ Range(emitted') \subseteq Range(emitted) \cup Range(hand)
  BY <1>0, EmitFacts DEF WeclawAll, Polled
<1>3. /\ hand # <<>> /\ Increasing(hand) /\ Last(hand) = cursor
      /\ \A m \in Range(hand) \ excused : \A n \in Range(emitted) : n < m
      /\ 1..cursor \subseteq Dealt
  BY <1>1 DEF WeclawAll, WeclawInv
<1>4. \A n \in Range(hand) : n <= cursor /\ n \in Nat
  BY <1>3, LastFacts, PolledFacts DEF WeclawAll
<1>5. cursor \in 0..MaxMessages /\ stored \in 0..cursor /\ cursor \in Nat
  BY PolledFacts DEF WeclawAll, Polled
<1>6. FeedTypeOK'
  BY <1>1, <1>2 DEF WeclawAll, Polled, FeedTypeOK, Written
<1>7. Dealt' = Dealt /\ Written' = Written
  BY <1>1 DEF Dealt, Written
<1>8. ASSUME NEW n \in Range(emitted') PROVE 1..n \subseteq Dealt
  <2>1. CASE n \in Range(emitted)
    BY <2>1 DEF WeclawAll, WeclawInv
  <2>2. CASE n \in Range(hand)
    <3>1. 1..n \subseteq 1..cursor
      BY <1>4, <1>5, <2>2
    <3> QED
      BY <1>3, <3>1
  <2> QED
    BY <1>2, <2>1, <2>2
<1>9. 1..cursor \subseteq Handled' \cup lost
  BY <1>2 DEF WeclawAll, WeclawInv
<1>10. WeclawInv'
  BY <1>1, <1>2, <1>3, <1>7, <1>8, <1>9 DEF WeclawAll, WeclawInv
<1>11. lost' # {} => crashed'
  BY <1>1 DEF WeclawAll, Polled, SettledIsHandled
<1>12. SettledIsHandled'
  BY <1>1, <1>5, <1>10, <1>11, WeclawSettles DEF WeclawAll
<1>13. PICK batch \in Seq(Written) : emitted' = emitted \o batch /\ Range(batch) \subseteq Range(hand) /\ Increasing(batch)
  BY <1>0, EmitFacts DEF WeclawAll, Polled
<1>14. InOrderOnce'
  <2>1. \A n \in Range(batch) : n \in excused \/ \A k \in Range(emitted) : k < n
    BY <1>3, <1>13
  <2>2. emitted \in Seq(Written) /\ Written \subseteq Nat
    BY PolledFacts DEF WeclawAll
  <2> QED
    BY <1>1, <1>13, <2>1, <2>2, BatchInOrder DEF WeclawAll, Polled
<1> QED
  BY <1>1, <1>5, <1>6, <1>10, <1>12, <1>14 DEF Polled

\* A restart loses what is in hand, and goes on from the saved buffer.
LEMMA WeclawRestarts ==
  ASSUME WeclawAll, driver' = driver, Poll!WeclawRestart
  PROVE  Polled' /\ WeclawInv'
<1>1. /\ cursor' = stored /\ UNCHANGED <<excused, stored>>
      /\ Fault /\ crashed' = TRUE /\ hand' = <<>> /\ lost' = lost \cup (settled \ Handled) /\ pc' = "top" /\ backoff' = 0
      /\ UNCHANGED <<kinds, settled, emitted, skipped, cancelled>>
  BY PollOperators DEF Poll!WeclawRestart, RestartTask
<1>2. faults' \in 0..MaxFaults /\ 0 \in 0..MaxBackoff
  BY <1>1, FeedConstants DEF Fault, WeclawAll, Polled, FeedTypeOK
<1>3. FeedTypeOK'
  BY <1>1, <1>2 DEF WeclawAll, Polled, FeedTypeOK, Written
<1>4. Handled' = Handled /\ Dealt' = Dealt /\ Written' = Written
  BY <1>1 DEF Handled, Dealt, Written
<1>5. settled = 1..stored /\ settled \subseteq Written /\ stored \in Nat /\ stored \in 0..MaxMessages
  <2>1. stored \in 0..cursor /\ cursor \in 0..MaxMessages /\ MaxMessages \in Nat
    BY PolledFacts DEF WeclawAll, Polled
  <2>2. stored \in 0..MaxMessages
    BY <2>1
  <2> QED
    BY <2>2, PolledFacts DEF WeclawAll, WeclawInv
<1>6. WeclawInv'
  <2>1. 1..stored \subseteq Handled \cup lost'
    BY <1>1, <1>5
  <2>2. 1..stored \subseteq Dealt
    BY <1>5 DEF Dealt
  <2>3. settled' = 1..stored' /\ 1..cursor' \subseteq Written' /\ 1..cursor' \subseteq Handled' \cup lost' \cup Range(hand')
    BY <1>1, <1>4, <1>5, <2>1
  <2>4. pc' = "top" /\ hand' = <<>> /\ 1..cursor' \subseteq Dealt'
    BY <1>1, <1>4, <2>2
  <2>5. \A n \in Range(emitted') : 1..n \subseteq Dealt'
    BY <1>1, <1>4 DEF WeclawAll, WeclawInv
  <2> QED
    BY <2>3, <2>4, <2>5 DEF WeclawInv
<1>7. cursor' \in 0..MaxMessages /\ stored' \in 0..cursor' /\ cursor' \in Nat
  BY <1>1, <1>5
<1>8. SettledIsHandled'
  BY <1>1, <1>6, <1>7, WeclawSettles DEF WeclawAll
<1>9. InOrderOnce'
  BY <1>1, OrderSame DEF WeclawAll, Polled
<1> QED
  BY <1>3, <1>6, <1>7, <1>8, <1>9 DEF Polled

\* Every step of WeClaw's pump.
LEMMA WeclawKept ==
  ASSUME WeclawAll, driver' = driver,
         Poll!Weclaw \/ Poll!PollFails(settled) \/ Poll!WeclawRestart
           \/ (CancelPump /\ UNCHANGED polls)
  PROVE  Polled' /\ WeclawInv'
<1>0. FeedTypeOK /\ faults \in 0..MaxFaults /\ MaxFaults \in Nat /\ cancelled \in BOOLEAN
  BY FeedConstants DEF WeclawAll, Polled, FeedTypeOK
<1>1. CASE Poll!Top \/ Poll!Sleep(TRUE)
  BY <1>0, <1>1, WeclawSame DEF Poll!Top, Poll!Sleep, Poll!messages
<1>2. CASE Poll!PollCancelled(settled)
  BY <1>0, <1>2, WeclawSame DEF Poll!PollCancelled
<1>5. CASE Poll!AnswerEmpty(1..cursor, settled)
  BY <1>0, <1>5, WeclawSame DEF Poll!AnswerEmpty
<1>3. CASE Poll!PollFails(settled)
  <2>1. faults' \in 0..MaxFaults
    BY <1>0, <1>3 DEF Poll!PollFails, Poll!Fault
  <2> QED
    BY <1>0, <1>3, <2>1, WeclawSame DEF Poll!PollFails
<1>4. CASE CancelPump /\ UNCHANGED polls
  <2>1. UNCHANGED <<messages, pc, backoff, crashed, faults, polls>> /\ cancelled' = TRUE
    BY <1>4 DEF CancelPump
  <2> QED
    BY <1>0, <2>1, WeclawSame DEF messages, polls
<1> QED
  BY <1>1, <1>2, <1>3, <1>4, <1>5, WeclawAnswers, WeclawPersists, WeclawForwards, WeclawRestarts DEF Poll!Weclaw

-----------------------------------------------------------------------------
(* ---- the webhook, and a pump that has no socket ---- *)

\* The invariant of WeCom.
WecomAll == driver = "wecom" /\ Polled /\ WecomInv /\ posts \in [Messages -> 0..MaxPosts]

\* A callback is handled and answered; the platform may not see the answer.
LEMMA WecomDispatches ==
  ASSUME WecomAll, driver' = driver, NEW m \in Messages, Hook!DispatchWebhook(m), UNCHANGED <<cursor, stored>>
  PROVE  Polled' /\ WecomInv' /\ posts' \in [Messages -> 0..MaxPosts]
<1>0. /\ FeedTypeOK /\ faults \in 0..MaxFaults /\ MaxFaults \in Nat /\ MaxPosts \in Nat /\ emitted \in Seq(Written)
      /\ settled \subseteq Written /\ excused \subseteq Written /\ skipped \subseteq Written /\ lost \subseteq settled
      /\ Written \subseteq Messages
  BY FeedConstants, PostsConstant, PolledFacts DEF WecomAll, Polled, FeedTypeOK
<1>1. m \in Written \ settled /\ posts[m] < MaxPosts /\ posts' = [posts EXCEPT ![m] = @ + 1]
  BY HookOperators DEF Hook!DispatchWebhook, Hook!Post
<1>2. \/ emitted' = emitted /\ skipped' = skipped \cup {m}
      \/ emitted' = Append(emitted, m) /\ skipped' = skipped
  BY DEF Hook!DispatchWebhook, Hook!ParseWebhook
<1>3. \/ settled' = settled \cup {m} /\ UNCHANGED <<excused, faults>>
      \/ Fault /\ excused' = excused \cup {m} /\ settled' \in {settled, settled \cup {m}}
  BY HookOperators DEF Hook!DispatchWebhook, Hook!Answered, Hook!AnswerLost
<1>4. UNCHANGED <<kinds, hand, pc, backoff, cancelled, crashed, lost>>
  BY DEF Hook!DispatchWebhook, Hook!Answered, Hook!AnswerLost
<1>5. posts' \in [Messages -> 0..MaxPosts]
  <2>1. posts[m] + 1 \in 0..MaxPosts
    BY <1>0, <1>1 DEF WecomAll
  <2> QED
    BY <1>1, <2>1 DEF WecomAll
<1>6. faults' \in 0..MaxFaults
  BY <1>0, <1>3 DEF Fault
<1>7. emitted' \in Seq(Written) /\ Range(emitted') \subseteq Range(emitted) \cup {m} /\ m \in Handled' /\ Handled \subseteq Handled'
  <2>1. CASE emitted' = emitted /\ skipped' = skipped \cup {m}
    BY <1>0, <2>1 DEF Handled
  <2>2. CASE emitted' = Append(emitted, m) /\ skipped' = skipped
    <3>1. emitted' \in Seq(Written) /\ Range(emitted') = Range(emitted) \cup {m}
      BY <1>0, <1>1, <2>2, RangeOfAppend
    <3> QED
      BY <2>2, <3>1 DEF Handled
  <2> QED
    BY <1>2, <2>1, <2>2
<1>8. settled \subseteq settled' /\ settled' \subseteq settled \cup {m} /\ excused \subseteq excused' /\ excused' \subseteq excused \cup {m}
      /\ m \in settled' \cup excused'
  BY <1>3
<1>9. FeedTypeOK'
  <2>1. skipped' \subseteq Written /\ settled' \subseteq Written /\ excused' \subseteq Written /\ lost' \subseteq settled'
    BY <1>0, <1>1, <1>2, <1>4, <1>8
  <2> QED
    BY <1>0, <1>4, <1>6, <1>7, <2>1 DEF FeedTypeOK, Written
<1>10. WecomInv'
  BY <1>4, <1>7, <1>8 DEF WecomAll, WecomInv, Dealt
<1>11. SettledIsHandled'
  <2>1. settled \subseteq Handled \cup lost
    BY RangeOfEmpty DEF WecomAll, WecomInv, Polled, SettledIsHandled
  <2>2. settled' \subseteq Handled' \cup lost'
    BY <1>4, <1>7, <1>8, <2>1
  <2> QED
    BY <2>2 DEF SettledIsHandled, WecomAll
<1>12. InOrderOnce'
  <2>1. CASE emitted' = emitted
    BY <1>8, <2>1, OrderSame DEF WecomAll, Polled
  <2>2. CASE emitted' = Append(emitted, m)
    <3>1. /\ Len(emitted) \in Nat /\ DOMAIN emitted = 1..Len(emitted)
          /\ Len(emitted') = Len(emitted) + 1 /\ emitted'[Len(emitted) + 1] = m
          /\ \A i \in 1..Len(emitted) : emitted'[i] = emitted[i]
      BY <1>0, <1>1, <2>2, RangeOfAppend, RangeFacts
    <3>2. DOMAIN emitted' = 1..(Len(emitted) + 1)
      BY <1>7, <3>1
    <3>3. ASSUME NEW i \in DOMAIN emitted', NEW j \in DOMAIN emitted', i < j
          PROVE  emitted'[i] # emitted'[j] \/ emitted'[j] \in excused'
      <4>1. i \in 1..Len(emitted) /\ (j \in 1..Len(emitted) \/ j = Len(emitted) + 1)
        BY <3>1, <3>2, <3>3
      <4>2. CASE j \in 1..Len(emitted)
        <5>1. emitted[i] < emitted[j] \/ emitted[i] # emitted[j] \/ emitted[j] \in excused
          BY <3>1, <3>3, <4>1, <4>2 DEF WecomAll, Polled, InOrderOnce
        <5>2. emitted[i] \in Nat /\ emitted[j] \in Nat
          BY <1>0, <3>1, <4>1, <4>2, WrittenFacts
        <5> QED
          BY <1>8, <3>1, <4>1, <4>2, <5>1, <5>2
      <4>3. CASE j = Len(emitted) + 1
        <5>1. emitted'[i] \in Range(emitted)
          BY <3>1, <4>1 DEF Range
        <5>2. m \in Range(emitted) => m \in excused
          BY <1>1 DEF WecomAll, WecomInv, Dealt
        <5> QED
          BY <1>8, <3>1, <4>3, <5>1, <5>2
      <4> QED
        BY <4>1, <4>2, <4>3
    <3> QED
      BY <3>3 DEF InOrderOnce, HasPump, WecomAll
  <2> QED
    BY <1>2, <2>1, <2>2
<1> QED
  BY <1>5, <1>9, <1>10, <1>11, <1>12 DEF Polled, WecomAll

\* A request that is not accepted.
LEMMA WecomRefuses ==
  ASSUME WecomAll, driver' = driver, NEW m \in Messages, Hook!RequestRefused(m), UNCHANGED <<cursor, stored>>
  PROVE  Polled' /\ WecomInv' /\ posts' \in [Messages -> 0..MaxPosts]
<1>0. /\ FeedTypeOK /\ faults \in 0..MaxFaults /\ MaxFaults \in Nat /\ MaxPosts \in Nat
      /\ settled \subseteq Written /\ lost \subseteq settled
  BY FeedConstants, PostsConstant, PolledFacts DEF WecomAll, Polled, FeedTypeOK
<1>1. m \in Written \ settled /\ posts[m] < MaxPosts /\ posts' = [posts EXCEPT ![m] = @ + 1]
  BY HookOperators DEF Hook!RequestRefused, Hook!Post
<1>2. \/ settled' = settled \cup {m} /\ lost' = lost \cup ({m} \ Handled)
      \/ settled' = settled /\ lost' = lost
  BY HookOperators DEF Hook!RequestRefused
<1>3. Fault /\ UNCHANGED <<kinds, hand, emitted, skipped, excused, pc, backoff, cancelled, crashed>>
  BY HookOperators DEF Hook!RequestRefused
<1>4. posts' \in [Messages -> 0..MaxPosts]
  <2>1. posts[m] + 1 \in 0..MaxPosts
    BY <1>0, <1>1 DEF WecomAll
  <2> QED
    BY <1>1, <2>1 DEF WecomAll
<1>5. faults' \in 0..MaxFaults
  BY <1>0, <1>3 DEF Fault
<1>6. FeedTypeOK'
  <2>1. settled' \subseteq Written /\ lost' \subseteq settled'
    BY <1>0, <1>1, <1>2
  <2> QED
    BY <1>0, <1>3, <1>5, <2>1 DEF FeedTypeOK, Written
<1>7. WecomInv'
  BY <1>2, <1>3 DEF WecomAll, WecomInv, Dealt
<1>8. SettledIsHandled'
  <2>1. settled \subseteq Handled \cup lost
    BY RangeOfEmpty DEF WecomAll, WecomInv, Polled, SettledIsHandled
  <2>2. Handled' = Handled
    BY <1>3 DEF Handled
  <2>3. settled' \subseteq Handled' \cup lost'
    BY <1>2, <2>1, <2>2
  <2> QED
    BY <2>3 DEF SettledIsHandled, WecomAll
<1>9. InOrderOnce'
  BY <1>3, OrderSame DEF WecomAll, Polled
<1> QED
  BY <1>4, <1>6, <1>7, <1>8, <1>9 DEF Polled, WecomAll

\* A user writes to a channel that is polled or posted to, or nothing happens.
LEMMA PolledSame ==
  ASSUME Polled, driver' = driver, driver # "discord", kinds' \in Seq(Kinds), Len(kinds') <= MaxMessages,
         Written \subseteq Written',
         UNCHANGED <<settled, hand, emitted, skipped, lost, excused, pc, backoff, crashed, faults, cursor, stored>>,
         cancelled' \in BOOLEAN
  PROVE  /\ Polled'
         /\ driver = "telegram" /\ TelegramInv => TelegramInv'
         /\ driver = "weclaw" /\ WeclawInv => WeclawInv'
         /\ WecomInv => WecomInv'
<1>1. Seq(Written) \subseteq Seq(Written')
  OBVIOUS
<1>2. FeedTypeOK'
  BY <1>1 DEF Polled, FeedTypeOK
<1>3. Handled' = Handled /\ Dealt' = Dealt
  BY DEF Handled, Dealt
<1>4. SettledIsHandled' /\ InOrderOnce'
  BY SettledSame, OrderSame DEF Polled
<1>5. driver = "telegram" /\ TelegramInv => TelegramInv'
  BY <1>3 DEF TelegramInv, Increasing
<1>6. driver = "weclaw" /\ WeclawInv => WeclawInv'
  BY <1>3 DEF WeclawInv, Increasing
<1>7. WecomInv => WecomInv'
  BY <1>3 DEF WecomInv
<1> QED
  BY <1>2, <1>4, <1>5, <1>6, <1>7 DEF Polled

\* Every step of WeCom's callback.
LEMMA WecomKept ==
  ASSUME WecomAll, driver' = driver,
         \/ (\E m \in Messages : Hook!DispatchWebhook(m) \/ Hook!RequestRefused(m)) /\ UNCHANGED <<cursor, stored>>
         \/ CancelPump /\ UNCHANGED polls
  PROVE  Polled' /\ WecomInv' /\ posts' \in [Messages -> 0..MaxPosts]
<1>1. CASE (\E m \in Messages : Hook!DispatchWebhook(m) \/ Hook!RequestRefused(m)) /\ UNCHANGED <<cursor, stored>>
  BY <1>1, WecomDispatches, WecomRefuses
<1>2. CASE CancelPump /\ UNCHANGED polls
  <2>1. UNCHANGED <<messages, pc, backoff, crashed, faults, polls>> /\ cancelled' = TRUE
    BY <1>2 DEF CancelPump
  <2>2. kinds' \in Seq(Kinds) /\ Len(kinds') <= MaxMessages /\ Written' = Written
    BY <2>1 DEF WecomAll, Polled, FeedTypeOK, messages, Written
  <2>3. Polled' /\ WecomInv'
    BY <2>1, <2>2, PolledSame DEF WecomAll, messages, polls
  <2> QED
    BY <2>1, <2>3 DEF WecomAll, polls
<1> QED
  BY <1>1, <1>2

-----------------------------------------------------------------------------
(* ---- the pumps together ---- *)

\* The steps of a socket pump and around it.
SocketMoves ==
  Pump \/ BeatCancelled \/ BeatFails \/ Platform \/ Trouble \/ (\E kind \in Kinds : Posted(kind))
    \/ (CancelPump /\ UNCHANGED socket)

\* A channel starts with nothing written.
LEMMA InvStarts == InitPump => PumpInv
<1> SUFFICES ASSUME InitPump PROVE PumpInv
  OBVIOUS
<1>1. /\ kinds = <<>> /\ settled = {} /\ hand = <<>> /\ emitted = <<>> /\ skipped = {} /\ lost = {} /\ excused = {}
      /\ backoff = 0 /\ cancelled = FALSE /\ crashed = FALSE /\ faults = 0
      /\ link = "none" /\ wire = <<>> /\ sent = {} /\ closing = FALSE /\ asked = "none" /\ resumable = FALSE
      /\ pending = [m \in Messages |-> {}] /\ beats = {} /\ botKnown \in BOOLEAN
      /\ driver \in Drivers /\ cursor = 0 /\ stored = 0 /\ posts = [m \in Messages |-> 0]
      /\ pc = IF HasPump THEN "top" ELSE "stopped"
  BY DEF InitPump, Init, FeedInit, Poll!Init, Hook!Init, Hook!Messages, Messages
<1>2. pc \in {"top", "stopped"} /\ (driver # "wecom" => pc = "top") /\ (driver = "wecom" => pc = "stopped")
  BY <1>1 DEF HasPump
<1>3. MaxMessages \in Nat /\ MaxFaults \in Nat /\ MaxBackoff \in Nat /\ MaxPosts \in Nat
  BY FeedConstants, PostsConstant
<1>4. /\ DOMAIN <<>> = {} /\ Range(<<>>) = {} /\ 1..0 = {} /\ Handled = {} /\ Dealt = {} /\ Written = {}
  BY <1>1, RangeOfEmpty DEF Handled, Dealt, Written
<1>5. FeedTypeOK
  <2>1. kinds \in Seq(Kinds) /\ Len(kinds) <= MaxMessages /\ hand \in Seq(Written) /\ emitted \in Seq(Written)
    BY <1>1, <1>3
  <2>2. backoff \in 0..MaxBackoff /\ faults \in 0..MaxFaults
    BY <1>1, <1>3
  <2> QED
    BY <1>1, <1>2, <2>1, <2>2 DEF FeedTypeOK
<1>6. TypeOK
  <2>1. wire \in Seq(Frame) /\ sent \subseteq Written
    BY <1>1
  <2>2. pending \in [Messages -> SUBSET {0, 1}]
    BY <1>1
  <2>3. beats \subseteq {"own", "stray"} /\ ~("own" \in beats) /\ ~("stray" \in beats)
    BY <1>1
  <2>4. /\ link \in {"none", "up", "severed"} /\ asked \in {"none", "identify", "resume"}
        /\ closing \in BOOLEAN /\ resumable \in BOOLEAN /\ botKnown \in BOOLEAN
    BY <1>1
  <2> QED
    BY <1>5, <2>1, <2>2, <2>3, <2>4, Zenon DEF TypeOK
<1>7. TypeSafe
  <2>1. cursor \in 0..MaxMessages /\ stored \in 0..cursor /\ posts \in [Messages -> 0..MaxPosts]
    BY <1>1, <1>3
  <2> QED
    BY <1>5, <1>6, <2>1, InstanceTypes DEF TypeSafe
<1>8. SettledIsHandled /\ InOrderOnce
  BY <1>1, <1>4 DEF SettledIsHandled, InOrderOnce
<1>9. SocketInv \/ driver = "wecom"
  BY <1>1, <1>2, <1>4 DEF SocketInv, AllSensible
<1>10. DiscordInv
  BY <1>1, <1>4 DEF DiscordInv, Increasing
<1>11. driver \in Acked => AckedInv
  <2>1. EmittedBehind /\ HandSound /\ SentInOrder /\ AllToCome /\ WireSent /\ WireFresh /\ InTurn
    BY <1>1, <1>4 DEF EmittedBehind, HandSound, SentInOrder, AllToCome, WireSent, WireFresh, InTurn
  <2>2. PendingSound
    BY <1>1, WholeFacts DEF PendingSound
  <2> QED
    BY <2>1, <2>2 DEF AckedInv
<1>12. driver = "telegram" => TelegramInv
  BY <1>1, <1>2, <1>4 DEF TelegramInv
<1>13. driver = "weclaw" => WeclawInv
  BY <1>1, <1>2, <1>4 DEF WeclawInv
<1>14. driver = "wecom" => WecomInv
  BY <1>1, <1>2, <1>4 DEF WecomInv
<1> QED
  BY <1>1, <1>7, <1>8, <1>9, <1>10, <1>11, <1>12, <1>13, <1>14 DEF PumpInv, Sockets

\* The socket pumps keep the invariant.
LEMMA SocketsKeep ==
  ASSUME PumpInv, driver \in Sockets, SocketMoves, UNCHANGED <<polls, driver>>
  PROVE  PumpInv'
<1>1. Socketed /\ driver' = driver
  BY DEF PumpInv, Socketed, TypeSafe
<1>2. Socketed'
  BY <1>1, SocketedKept DEF SocketMoves
<1>3. TypeSafe'
  <2>1. FeedTypeOK' /\ TypeOK'
    BY <1>2 DEF Socketed, TypeOK
  <2>2. cursor' \in 0..MaxMessages /\ stored' \in 0..cursor' /\ posts' \in [Messages -> 0..MaxPosts]
    BY InstanceTypes DEF PumpInv, TypeSafe, polls
  <2>3. Poll!TypeOK' <=> FeedTypeOK' /\ cursor' \in 0..MaxMessages /\ stored' \in 0..cursor'
    BY DEF Poll!TypeOK, Poll!FeedTypeOK, Poll!Written, Poll!Kinds, FeedTypeOK, Written, Kinds
  <2>4. Hook!TypeOK' <=> FeedTypeOK' /\ posts' \in [Messages -> 0..MaxPosts]
    BY DEF Hook!TypeOK, Hook!FeedTypeOK, Hook!Written, Hook!Kinds, Hook!Messages, Messages, FeedTypeOK, Written, Kinds
  <2> QED
    BY <2>1, <2>2, <2>3, <2>4 DEF TypeSafe
<1>4. /\ driver' \in Drivers /\ SocketInv' /\ driver \notin {"telegram", "weclaw", "wecom"}
  BY <1>2 DEF PumpInv, Socketed, Sockets
<1>5. CASE driver = "discord"
  <2>1. DiscordAll
    BY <1>1, <1>5 DEF DiscordAll, PumpInv
  <2>2. DiscordInv' /\ SettledIsHandled' /\ InOrderOnce'
    BY <1>1, <2>1, DiscordKept DEF SocketMoves
  <2> QED
    BY <1>1, <1>3, <1>4, <1>5, <2>2 DEF PumpInv, Acked, Sockets
<1>6. CASE driver # "discord"
  <2>1. AckedAll
    BY <1>1, <1>6 DEF AckedAll, PumpInv, Acked
  <2>2. AckedInv' /\ SettledIsHandled' /\ InOrderOnce'
    BY <1>1, <2>1, AckedKept DEF SocketMoves
  <2> QED
    BY <1>1, <1>3, <1>4, <1>6, <2>2 DEF PumpInv
<1> QED
  BY <1>5, <1>6

\* What the invariant says of a pump without a socket.
LEMMA WithoutSocket ==
  ASSUME PumpInv, driver \notin Sockets
  PROVE  /\ Polled /\ TypeOK /\ beats = {} /\ posts \in [Messages -> 0..MaxPosts]
         /\ driver = "telegram" => TelegramAll
         /\ driver = "weclaw" => WeclawAll
         /\ driver = "wecom" => WecomAll
         /\ driver \in {"telegram", "weclaw", "wecom"} /\ driver # "discord"
<1>1. Polled /\ TypeOK /\ beats = {} /\ posts \in [Messages -> 0..MaxPosts]
  BY InstanceTypes DEF PumpInv, TypeSafe, Polled
<1>2. driver \in {"telegram", "weclaw", "wecom"} /\ driver # "discord"
  BY DriversConstant DEF PumpInv, Sockets
<1> QED
  BY <1>1, <1>2 DEF PumpInv, TelegramAll, WeclawAll, WecomAll

\* And what such a pump has to show.
LEMMA WithoutSocketKeeps ==
  ASSUME PumpInv, driver \notin Sockets, driver' = driver, UNCHANGED socket, Written \subseteq Written',
         Polled', posts' \in [Messages -> 0..MaxPosts],
         driver = "telegram" => TelegramInv',
         driver = "weclaw" => WeclawInv',
         driver = "wecom" => WecomInv'
  PROVE  PumpInv'
<1>1. TypeOK /\ beats = {} /\ FeedTypeOK' /\ cursor' \in 0..MaxMessages /\ stored' \in 0..cursor'
  BY WithoutSocket DEF Polled
<1>2. TypeOK'
  BY <1>1 DEF TypeOK, socket, conn, Messages, Frame, Control
<1>3. Poll!TypeOK' <=> FeedTypeOK' /\ cursor' \in 0..MaxMessages /\ stored' \in 0..cursor'
  BY DEF Poll!TypeOK, Poll!FeedTypeOK, Poll!Written, Poll!Kinds, FeedTypeOK, Written, Kinds
<1>4. Hook!TypeOK' <=> FeedTypeOK' /\ posts' \in [Messages -> 0..MaxPosts]
  BY DEF Hook!TypeOK, Hook!FeedTypeOK, Hook!Written, Hook!Kinds, Hook!Messages, Messages, FeedTypeOK, Written, Kinds
<1>5. TypeSafe'
  BY <1>1, <1>2, <1>3, <1>4 DEF TypeSafe
<1>6. driver' \in Drivers /\ beats' = {} /\ SettledIsHandled' /\ InOrderOnce'
  BY <1>1 DEF PumpInv, socket, conn, Polled
<1> QED
  BY <1>5, <1>6 DEF PumpInv, Acked, Sockets

\* Every step keeps the invariant.
LEMMA NextKeeps == PumpInv /\ [Next]_vars => PumpInv'
<1> SUFFICES ASSUME PumpInv, [Next]_vars PROVE PumpInv'
  OBVIOUS
<1>1. driver' = driver
  BY DEF Next, Step, BesideStep, Serve, Fails, User, Cancel, vars, svars
<1>2. CASE driver \in Sockets
  <2>0. driver \notin {"telegram", "weclaw", "wecom"}
    BY <1>2 DEF Sockets
  <2>1. CASE Next
    <3>1. SocketMoves /\ UNCHANGED polls
      BY <2>0, <2>1 DEF Next, Step, BesideStep, Serve, Fails, User, Cancel, SocketMoves
    <3> QED
      BY <1>1, <1>2, <3>1, SocketsKeep
  <2>2. CASE UNCHANGED vars
    <3>1. UNCHANGED <<kinds, settled, hand, emitted, skipped, lost, excused, pc, backoff, cancelled, crashed, faults>>
          /\ UNCHANGED <<link, wire, sent, closing, asked, pending, beats, resumable, botKnown, cursor, stored, posts, driver>>
      BY <2>2 DEF vars, svars, feed, messages, task, socket, conn, polls
    <3>2. Socketed
      BY <1>2 DEF PumpInv, Socketed, TypeSafe
    <3>3. FeedTypeOK' /\ Written' = Written
      BY <3>1, <3>2 DEF Socketed, TypeOK, FeedTypeOK, Written
    <3>4. AllSensible'
      BY <3>1, <3>2, <3>3, WireSensible DEF Socketed, SocketInv, AllSensible
    <3>5. wire' \in Seq(Frame) /\ sent' \subseteq Written'
      BY <3>1, <3>2, <3>3 DEF Socketed, TypeOK
    <3>6. Socketed'
      BY <3>1, <3>2, <3>3, <3>4, <3>5, OutsideTyped
    <3>7. SettledIsHandled' /\ InOrderOnce' /\ (driver = "discord" => DiscordInv') /\ (driver \in Acked => AckedInv')
      <4>1. CASE driver = "discord"
        <5>1. DiscordAll
          BY <3>2, <4>1 DEF DiscordAll, PumpInv
        <5> QED
          BY <3>1, <4>1, <5>1, DiscordSame DEF Acked
      <4>2. CASE driver # "discord"
        <5>1. AckedAll
          BY <1>2, <3>2, <4>2 DEF AckedAll, PumpInv, Acked
        <5> QED
          BY <3>1, <4>2, <5>1, AckedSameAll
      <4> QED
        BY <4>1, <4>2
    <3>8. TypeSafe'
      <4>1. FeedTypeOK' /\ TypeOK'
        BY <3>6 DEF Socketed, TypeOK
      <4>2. cursor' \in 0..MaxMessages /\ stored' \in 0..cursor' /\ posts' \in [Messages -> 0..MaxPosts]
        BY <3>1, InstanceTypes DEF PumpInv, TypeSafe
      <4>3. Poll!TypeOK' <=> FeedTypeOK' /\ cursor' \in 0..MaxMessages /\ stored' \in 0..cursor'
        BY DEF Poll!TypeOK, Poll!FeedTypeOK, Poll!Written, Poll!Kinds, FeedTypeOK, Written, Kinds
      <4>4. Hook!TypeOK' <=> FeedTypeOK' /\ posts' \in [Messages -> 0..MaxPosts]
        BY DEF Hook!TypeOK, Hook!FeedTypeOK, Hook!Written, Hook!Kinds, Hook!Messages, Messages, FeedTypeOK, Written, Kinds
      <4> QED
        BY <4>1, <4>2, <4>3, <4>4 DEF TypeSafe
    <3> QED
      BY <1>1, <1>2, <2>0, <3>1, <3>6, <3>7, <3>8 DEF PumpInv, Socketed
  <2> QED
    BY <2>1, <2>2
<1>3. CASE driver \notin Sockets
  <2>0. /\ Polled /\ posts \in [Messages -> 0..MaxPosts]
        /\ driver = "telegram" => TelegramAll
        /\ driver = "weclaw" => WeclawAll
        /\ driver = "wecom" => WecomAll
        /\ driver \in {"telegram", "weclaw", "wecom"} /\ driver # "discord"
    BY <1>3, WithoutSocket
  <2>1. ASSUME kinds' \in Seq(Kinds), Len(kinds') <= MaxMessages, Written \subseteq Written',
               UNCHANGED <<settled, hand, emitted, skipped, lost, excused, task, socket, polls>>
        PROVE  PumpInv'
    <3>1. Polled' /\ (driver = "telegram" => TelegramInv') /\ (driver = "weclaw" => WeclawInv') /\ (driver = "wecom" => WecomInv')
      <4>1. cancelled' \in BOOLEAN
        BY <2>0, <2>1 DEF task, Polled, FeedTypeOK
      <4> QED
        BY <1>1, <2>0, <2>1, <4>1, PolledSame DEF task, polls, TelegramAll, WeclawAll, WecomAll
    <3>2. posts' \in [Messages -> 0..MaxPosts]
      BY <2>0, <2>1 DEF polls
    <3> QED
      BY <1>1, <1>3, <2>1, <3>1, <3>2, WithoutSocketKeeps
  <2>2. CASE UNCHANGED vars
    <3>1. UNCHANGED <<settled, hand, emitted, skipped, lost, excused, task, socket, polls>> /\ kinds' = kinds
      BY <2>2 DEF vars, svars, feed, messages
    <3>2. kinds \in Seq(Kinds) /\ Len(kinds) <= MaxMessages
      BY <2>0 DEF Polled, FeedTypeOK
    <3>3. Written' = Written
      BY <3>1 DEF Written
    <3> QED
      BY <2>1, <3>1, <3>2, <3>3
  <2>3. CASE User
    <3>1. PICK kind \in Kinds : Posted(kind)
      BY <2>3 DEF User
    <3>2. UNCHANGED <<settled, hand, emitted, skipped, lost, excused, task, socket, polls>>
      <4>1. UNCHANGED <<settled, lost, wire, hand, emitted, skipped, excused, task, link, sent, closing, asked, pending, beats, resumable, botKnown>>
        BY <2>0, <3>1 DEF Posted
      <4> QED
        BY <2>3, <4>1 DEF User, socket, conn
    <3>3. kinds' \in Seq(Kinds) /\ Len(kinds') <= MaxMessages /\ Written \subseteq Written'
      BY <1>1, <2>0, <3>1, PostedFacts DEF Polled
    <3> QED
      BY <2>1, <3>2, <3>3
  <2>4. CASE Step \/ BesideStep \/ Serve \/ Fails \/ Cancel
    <3>1. Written' = Written
      <4>1. kinds' = kinds
        BY <1>3, <2>0, <2>4 DEF Step, BesideStep, Serve, Fails, Cancel, CancelPump, messages,
           Poll!Telegram, Poll!Weclaw, Poll!PollFails, Poll!TelegramRestart, Poll!WeclawRestart, Poll!RestartTask,
           Poll!Top, Poll!Sleep, Poll!TelegramAnswer, Poll!TelegramForward, Poll!PollCancelled, Poll!AnswerEmpty, Poll!WeclawAnswer,
           Poll!Persist, Poll!WeclawForward, Poll!messages, Hook!DispatchWebhook, Hook!RequestRefused
      <4> QED
        BY <4>1 DEF Written
    <3>2. CASE driver = "telegram"
      <4>1. /\ \/ Poll!Telegram \/ Poll!PollFails(Poll!Confirmed) \/ Poll!TelegramRestart
               \/ CancelPump /\ UNCHANGED polls
            /\ UNCHANGED <<socket, posts>>
        BY <2>4, <3>2 DEF Step, BesideStep, Serve, Fails, Cancel, Sockets, polls
      <4>2. Polled' /\ TelegramInv'
        BY <1>1, <2>0, <3>2, <4>1, TelegramKept
      <4> QED
        BY <1>1, <1>3, <2>0, <3>1, <3>2, <4>1, <4>2, WithoutSocketKeeps
    <3>3. CASE driver = "weclaw"
      <4>1. /\ \/ Poll!Weclaw \/ Poll!PollFails(settled) \/ Poll!WeclawRestart
               \/ CancelPump /\ UNCHANGED polls
            /\ UNCHANGED <<socket, posts>>
        BY <2>4, <3>3 DEF Step, BesideStep, Serve, Fails, Cancel, Sockets, polls
      <4>2. Polled' /\ WeclawInv'
        BY <1>1, <2>0, <3>3, <4>1, WeclawKept
      <4> QED
        BY <1>1, <1>3, <2>0, <3>1, <3>3, <4>1, <4>2, WithoutSocketKeeps
    <3>4. CASE driver = "wecom"
      <4>1. /\ \/ (\E m \in Messages : Hook!DispatchWebhook(m) \/ Hook!RequestRefused(m)) /\ UNCHANGED <<cursor, stored>>
               \/ CancelPump /\ UNCHANGED polls
            /\ UNCHANGED socket
        BY <2>4, <3>4 DEF Step, BesideStep, Serve, Fails, Cancel, Sockets
      <4>2. Polled' /\ WecomInv' /\ posts' \in [Messages -> 0..MaxPosts]
        BY <1>1, <2>0, <3>4, <4>1, WecomKept
      <4> QED
        BY <1>1, <1>3, <3>1, <3>4, <4>1, <4>2, WithoutSocketKeeps
    <3> QED
      BY <2>0, <3>2, <3>3, <3>4
  <2> QED
    BY <2>2, <2>3, <2>4 DEF Next
<1> QED
  BY <1>2, <1>3

\* The inductive invariant holds throughout.
LEMMA PumpInvariant == Spec => []PumpInv
  BY InvStarts, NextKeeps, PTL DEF Spec

\* The type invariants of the socket pumps, the long polls and the webhook together: among
\* others a pump without a socket keeps no heartbeat, and only Discord can leave one behind
\* (discord.rs spawns a second one when it reads a second Hello).
THEOREM InboundTypeCorrect == Spec => []TypeSafe
<1>1. PumpInv => TypeSafe
  BY DEF PumpInv
<1> QED
  BY <1>1, PumpInvariant, PTL

\* What the platform will not send again was handled, is in hand or (Discord) on its way, or
\* is lost in a way the code admits: for Slack, DingTalk and Feishu by a crash between
\* acknowledgement and event, for WeClaw by one between the saved buffer and the event, for
\* Discord with the connection it was sent on, for WeCom when every request was refused, and
\* for Telegram never; however messages, faults, restarts and redeliveries interleave
\* (start_pump of the drivers, dispatch_webhook).
THEOREM SettledAlwaysHandled == Spec => []SettledIsHandled
<1>1. PumpInv => SettledIsHandled
  BY DEF PumpInv
<1> QED
  BY <1>1, PumpInvariant, PTL

\* Of two emitted messages the older was emitted first, or the other was sent again by the
\* platform; a webhook's come in any order, but none twice unless it was sent again
\* (start_pump of the drivers, dispatch_webhook).
THEOREM EmittedInOrderOnce == Spec => []InOrderOnce
<1>1. PumpInv => InOrderOnce
  BY DEF PumpInv
<1> QED
  BY <1>1, PumpInvariant, PTL
=============================================================================
