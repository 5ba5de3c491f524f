------------------------- MODULE ReplyDrivers_proofs -------------------------
(***************************************************************************)
(* Proofs about streamed replies (reply_to_user_streaming of the QQ and    *)
(* the Feishu driver and of the drivers that cannot stream), for answers   *)
(* of any length, channels of any capacity and any number of chunks.       *)
(*                                                                         *)
(* The inductive invariant ReplyInv has a part for the loop that all share *)
(* (FeedInv: last_sent, the pending chunk and the channel hold growing     *)
(* texts that end in the newest one, and nothing follows a terminal chunk) *)
(* and a part per driver for what the platform has. The last theorem is    *)
(* the safety half of the refinement of StreamedReply.                     *)
(***************************************************************************)
EXTENDS ReplyDrivers, TLAPS

\* The text the loop works on: that of the pending chunk, else the one sent last.
Current == IF pending.none THEN lastSent ELSE pending.text

\* From last_sent through the pending chunk and the channel the texts grow, up to the
\* newest one, and a terminal chunk is the last.
FeedInv ==
  /\ FeedTypeOK
  /\ pending.none => pending = NoChunk
  /\ lastSent <= Current
  /\ \A i \in DOMAIN queue : Current <= queue[i].text
  /\ \A i, j \in DOMAIN queue : i <= j => queue[i].text <= queue[j].text
  /\ written = IF queue = <<>> THEN Current ELSE queue[Len(queue)].text
  /\ \A i \in DOMAIN queue : queue[i].terminal => i = Len(queue) /\ terminal # NoTerminal
  /\ pending.terminal => queue = <<>> /\ terminal # NoTerminal

\* Chunks that were received or wait, and are not flushed yet.
Held == Len(queue) + (IF pending.none THEN 0 ELSE 1)

\* The bubble shows last_sent; each request is paid for by a chunk, but for the one that
\* closes the stream; a reply that ended shows all and is closed, or has shown nothing.
QqInv ==
  /\ Qq!TypeOK
  /\ NoCard
  /\ phase \in {"wait", "flush"} => ~pending.none
  /\ phase = "recv" => pending.none
  /\ phase = "wait" => ~pending.terminal
  /\ ~Over => /\ shown = lastSent
              /\ posts + Held <= chunks
              /\ ~done
              /\ ~flushed => lastSent = 0
  /\ shown <= written
  /\ phase = "ended" => shown = written /\ (done \/ shown = 0)

\* Where the card is in each phase. It shows last_sent once it is published, and it is
\* closed by the last request only.
FeishuInv ==
  /\ Feishu!TypeOK
  /\ NoStream /\ shown = 0
  /\ phase \in {"first", "recv", "close"} => pending.none
  /\ phase \in {"create", "publish", "initial", "wait", "flush"} => ~pending.none
  /\ phase = "wait" => ~pending.terminal
  /\ phase \in {"first", "create"} => card = "none" /\ content = 0
  /\ phase \in {"first", "create", "publish", "initial"} => lastSent = 0
  /\ phase \in {"publish", "initial"} => content = pending.text
  /\ phase = "publish" => card = "hidden"
  /\ phase \in {"initial", "recv", "wait", "flush", "close"} => card = "streaming"
  /\ phase \in {"recv", "wait", "flush", "close"} => content = lastSent
  /\ phase = "close" => Finished /\ queue = <<>>
  /\ phase # "failed" => accepted = seq
  /\ card = "closed" => Over
  /\ content <= written
  /\ phase = "ended" => \/ card = "closed" /\ content = written
                        \/ card = "none" /\ content = 0 /\ written = 0

\* Nothing is shown before the end, and the end is not reached before the caller's.
OneShotInv ==
  /\ OneShot!TypeOK
  /\ NoStream /\ NoCard
  /\ lastSent = 0
  /\ phase = "recv" => ~pending.terminal
  /\ phase = "flush" => Finished /\ queue = <<>>
  /\ ~Over => shown = 0
  /\ shown <= written
  /\ phase = "ended" => shown = written

\* The inductive invariant.
ReplyInv ==
  /\ driver \in {"qq", "feishu", "oneshot"}
  /\ FeedInv
  /\ driver = "qq" => QqInv
  /\ driver = "feishu" => FeishuInv
  /\ driver = "oneshot" => OneShotInv

-----------------------------------------------------------------------------
(* ---- the operators of the instances are ReplyDrivers' own ---- *)

\* The loop that QqReply instantiates.
LEMMA QqFeed ==
  /\ Qq!Receive(TRUE) <=> Receive(TRUE)
  /\ Qq!Receive(FALSE) <=> Receive(FALSE)
  /\ Qq!WaitReceive <=> WaitReceive
  /\ Qq!EndWait <=> EndWait
  /\ Qq!Skip <=> Skip
  /\ Qq!SenderGone <=> SenderGone
  /\ Qq!FeedTypeOK <=> FeedTypeOK
  /\ Qq!Duplicate <=> Duplicate
<1> USE DEF Qq!feed, feed, Qq!Newest, Newest, Qq!Last, Last, Qq!NoChunk, NoChunk
<1>1. Qq!Receive(TRUE) <=> Receive(TRUE)
  BY DEF Qq!Receive, Receive
<1>2. Qq!Receive(FALSE) <=> Receive(FALSE)
  BY DEF Qq!Receive, Receive
<1>3. Qq!WaitReceive <=> WaitReceive
  BY DEF Qq!WaitReceive, WaitReceive
<1>4. Qq!EndWait <=> EndWait
  BY DEF Qq!EndWait, EndWait
<1>5. Qq!Skip <=> Skip
  BY DEF Qq!Skip, Skip, Qq!Duplicate, Duplicate
<1>6. Qq!SenderGone <=> SenderGone
  BY DEF Qq!SenderGone, SenderGone
<1>7. Qq!FeedTypeOK <=> FeedTypeOK
  BY DEF Qq!FeedTypeOK, FeedTypeOK, Qq!Chunk, Chunk, Qq!Texts, Texts, Qq!NoTerminal, NoTerminal
<1>8. Qq!Duplicate <=> Duplicate
  BY DEF Qq!Duplicate, Duplicate
<1> QED
  BY <1>1, <1>2, <1>3, <1>4, <1>5, <1>6, <1>7, <1>8

\* The loop that FeishuCard instantiates.
LEMMA FeishuFeed ==
  /\ Feishu!Receive(FALSE) <=> Receive(FALSE)
  /\ Feishu!WaitReceive <=> WaitReceive
  /\ Feishu!EndWait <=> EndWait
  /\ Feishu!Skip <=> Skip
  /\ Feishu!SenderGone <=> SenderGone
  /\ Feishu!FeedTypeOK <=> FeedTypeOK
  /\ Feishu!Duplicate <=> Duplicate
<1> USE DEF Feishu!feed, feed, Feishu!Newest, Newest, Feishu!Last, Last, Feishu!NoChunk, NoChunk
<1>1. Feishu!Receive(FALSE) <=> Receive(FALSE)
  BY DEF Feishu!Receive, Receive
<1>2. Feishu!WaitReceive <=> WaitReceive
  BY DEF Feishu!WaitReceive, WaitReceive
<1>3. Feishu!EndWait <=> EndWait
  BY DEF Feishu!EndWait, EndWait
<1>4. Feishu!Skip <=> Skip
  BY DEF Feishu!Skip, Skip, Feishu!Duplicate, Duplicate
<1>5. Feishu!SenderGone <=> SenderGone
  BY DEF Feishu!SenderGone, SenderGone
<1>6. Feishu!FeedTypeOK <=> FeedTypeOK
  BY DEF Feishu!FeedTypeOK, FeedTypeOK, Feishu!Chunk, Chunk, Feishu!Texts, Texts, Feishu!NoTerminal, NoTerminal
<1>7. Feishu!Duplicate <=> Duplicate
  BY DEF Feishu!Duplicate, Duplicate
<1> QED
  BY <1>1, <1>2, <1>3, <1>4, <1>5, <1>6, <1>7

\* What OneShotReply takes from the loop.
LEMMA OneShotFeed ==
  /\ OneShot!SenderGone <=> SenderGone
  /\ OneShot!FeedTypeOK <=> FeedTypeOK
<1> USE DEF OneShot!feed, feed, OneShot!Newest, Newest, OneShot!Last, Last, OneShot!NoChunk, NoChunk
<1>1. OneShot!SenderGone <=> SenderGone
  BY DEF OneShot!SenderGone, SenderGone
<1>2. OneShot!FeedTypeOK <=> FeedTypeOK
  BY DEF OneShot!FeedTypeOK, FeedTypeOK, OneShot!Chunk, Chunk, OneShot!Texts, Texts, OneShot!NoTerminal, NoTerminal
<1> QED
  BY <1>1, <1>2

-----------------------------------------------------------------------------
(* ---- the loop that the drivers share ---- *)

\* The kinds of values around the channel.
LEMMA QueueFacts ==
  ASSUME FeedInv
  PROVE  /\ queue \in Seq(Chunk) /\ Len(queue) \in Nat
         /\ DOMAIN queue = 1..Len(queue)
         /\ MaxText \in Nat /\ lastSent \in Nat /\ Current \in Nat /\ written \in Nat
         /\ \A i \in 1..Len(queue) : queue[i] \in Chunk
         /\ NoChunk \notin Chunk /\ NoChunk.none /\ ~NoChunk.terminal
         /\ pending.none <=> pending = NoChunk
         /\ \A c \in Chunk : c.text \in Texts /\ c.text \in Nat /\ c.terminal \in BOOLEAN /\ ~c.none
         /\ Texts \subseteq Nat
<1>1. queue \in Seq(Chunk) /\ Len(queue) \in Nat /\ DOMAIN queue = 1..Len(queue)
  BY DEF FeedInv, FeedTypeOK
<1>2. MaxText \in Nat /\ Texts \subseteq Nat
  BY FeedConstants DEF Texts
<1>3. \A c \in Chunk : c.text \in Texts /\ c.text \in Nat /\ c.terminal \in BOOLEAN /\ ~c.none
  BY <1>2 DEF Chunk
<1>4. NoChunk.none /\ ~NoChunk.terminal /\ NoChunk.text = 0
  BY DEF NoChunk
<1>5. NoChunk \notin Chunk
  BY <1>3, <1>4
<1>6. pending.none <=> pending = NoChunk
  BY <1>4 DEF FeedInv
<1>7. lastSent \in Nat /\ written \in Nat
  BY <1>2 DEF FeedInv, FeedTypeOK
<1>8. Current \in Nat
  BY <1>3, <1>6, <1>7 DEF Current, FeedInv, FeedTypeOK
<1> QED
  BY <1>1, <1>2, <1>3, <1>4, <1>5, <1>6, <1>7, <1>8

\* Coalescing (try_recv until the channel is empty) keeps the last chunk.
LEMMA NewestIsLast ==
  ASSUME FeedInv, queue # <<>>
  PROVE  /\ Newest(Head(queue), Tail(queue)) = queue[Len(queue)]
         /\ \A c : Newest(c, queue) = queue[Len(queue)]
         /\ Len(queue) \in DOMAIN queue /\ 1 \in DOMAIN queue
<1>1. PICK k \in Nat : k + 1 = Len(queue)
  <2>1. Len(queue) \in Nat /\ Len(queue) # 0
    BY QueueFacts
  <2>2. Len(queue) - 1 \in Nat /\ (Len(queue) - 1) + 1 = Len(queue)
    BY <2>1
  <2> QED
    BY <2>2
<1>2. CASE k = 0
  BY <1>1, <1>2, QueueFacts DEF Newest, Last
<1>3. CASE k # 0
  BY <1>1, <1>3, QueueFacts, SMTT(30) DEF Newest, Last
<1> QED
  BY <1>2, <1>3, <1>1

\* The loop may take all that waits and keep the last,
LEMMA TakeAllKeepsFeed ==
  ASSUME FeedInv, queue # <<>>, pending' = queue[Len(queue)], queue' = <<>>,
         UNCHANGED <<open, chunks, written, terminal, lastSent>>, window' \in BOOLEAN
  PROVE  FeedInv' /\ ~pending'.none /\ Held' <= Held
<1>1. Len(queue) \in DOMAIN queue
  BY NewestIsLast
<1>2. pending' \in Chunk /\ ~pending'.none /\ Current' = queue[Len(queue)].text
  BY <1>1, QueueFacts DEF Current
<1>3. FeedTypeOK'
  BY <1>2, FeedConstants DEF FeedInv, FeedTypeOK
<1>4. lastSent' <= Current'
  <2>1. lastSent <= Current /\ Current <= queue[Len(queue)].text
    BY <1>1 DEF FeedInv
  <2>2. PICK n \in Nat : n = queue[Len(queue)].text
    BY <1>1, QueueFacts
  <2>3. lastSent <= n
    BY <2>1, <2>2, QueueFacts
  <2> QED
    BY <1>2, <2>2, <2>3
<1>5. written' = Current'
  BY <1>2 DEF FeedInv
<1>6. pending'.terminal => terminal' # NoTerminal
  BY <1>1 DEF FeedInv
<1>7. Held' = 1 /\ 1 <= Held
  BY <1>2, NewestIsLast, QueueFacts DEF Held
<1>8. DOMAIN queue' = {}
  OBVIOUS
<1> QED
  BY <1>2, <1>3, <1>4, <1>5, <1>6, <1>7, <1>8 DEF FeedInv

\* or take the first chunk only.
LEMMA TakeHeadKeepsFeed ==
  ASSUME FeedInv, queue # <<>>, pending' = Head(queue), queue' = Tail(queue),
         UNCHANGED <<open, chunks, written, terminal, lastSent>>, window' \in BOOLEAN
  PROVE  FeedInv' /\ ~pending'.none /\ Held' <= Held
<1>1. PICK k \in Nat : k + 1 = Len(queue)
  <2>1. Len(queue) \in Nat /\ Len(queue) # 0
    BY QueueFacts
  <2>2. Len(queue) - 1 \in Nat /\ (Len(queue) - 1) + 1 = Len(queue)
    BY <2>1
  <2> QED
    BY <2>2
<1>2. /\ queue' \in Seq(Chunk) /\ Len(queue') = k /\ DOMAIN queue' = 1..k
      /\ \A i \in 1..k : queue'[i] = queue[i + 1] /\ i + 1 \in DOMAIN queue
      /\ pending' = queue[1] /\ 1 \in DOMAIN queue
  BY <1>1, QueueFacts
<1>3. pending' \in Chunk /\ ~pending'.none /\ Current' = queue[1].text
  BY <1>2, QueueFacts DEF Current
<1>4. FeedTypeOK'
  <2>1. Len(queue') <= Capacity
    BY <1>1, <1>2, FeedConstants DEF FeedInv, FeedTypeOK
  <2> QED
    BY <1>2, <1>3, <2>1 DEF FeedInv, FeedTypeOK
<1>5. lastSent' <= Current'
  <2>1. lastSent <= Current /\ Current <= queue[1].text
    BY <1>2 DEF FeedInv
  <2>2. PICK n \in Nat : n = queue[1].text
    BY <1>2, QueueFacts
  <2>3. lastSent <= n
    BY <2>1, <2>2, QueueFacts
  <2> QED
    BY <1>3, <2>2, <2>3
<1>6. \A i \in DOMAIN queue' : Current' <= queue'[i].text
  <2> SUFFICES ASSUME NEW i \in 1..k PROVE Current' <= queue[i + 1].text
    BY <1>2
  <2>1. 1 <= i + 1 /\ i + 1 \in DOMAIN queue
    BY <1>2
  <2> QED
    BY <1>2, <1>3, <2>1 DEF FeedInv
<1>7. \A i, j \in DOMAIN queue' : i <= j => queue'[i].text <= queue'[j].text
  <2> SUFFICES ASSUME NEW i \in 1..k, NEW j \in 1..k, i <= j PROVE queue[i + 1].text <= queue[j + 1].text
    BY <1>2
  <2>1. i + 1 <= j + 1 /\ i + 1 \in DOMAIN queue /\ j + 1 \in DOMAIN queue
    BY <1>2
  <2> QED
    BY <2>1 DEF FeedInv
<1>8. written' = IF queue' = <<>> THEN Current' ELSE queue'[Len(queue')].text
  <2>1. written = queue[k + 1].text
    BY <1>1 DEF FeedInv
  <2>2. CASE k = 0
    <3>1. queue' = <<>>
      BY <1>2, <2>2
    <3> QED
      BY <1>3, <2>1, <2>2, <3>1
  <2>3. CASE k # 0
    <3>1. k \in 1..k
      BY <2>3
    <3>2. queue' # <<>>
      BY <1>2, <2>3
    <3> QED
      BY <1>2, <2>1, <3>1, <3>2
  <2> QED
    BY <2>2, <2>3
<1>9. \A i \in DOMAIN queue' : queue'[i].terminal => i = Len(queue') /\ terminal' # NoTerminal'
  <2> SUFFICES ASSUME NEW i \in 1..k, queue[i + 1].terminal PROVE i = k /\ terminal # NoTerminal
    BY <1>2 DEF NoTerminal
  <2>1. i + 1 \in DOMAIN queue
    BY <1>2
  <2>2. i + 1 = k + 1 /\ terminal # NoTerminal
    BY <1>1, <2>1 DEF FeedInv
  <2> QED
    BY <2>2
<1>10. pending'.terminal => queue' = <<>> /\ terminal' # NoTerminal'
  <2> SUFFICES ASSUME queue[1].terminal PROVE queue' = <<>> /\ terminal # NoTerminal
    BY <1>2 DEF NoTerminal
  <2>1. 1 = k + 1 /\ terminal # NoTerminal
    BY <1>1, <1>2 DEF FeedInv
  <2> QED
    BY <1>2, <2>1
<1>11. Held' <= Held
  <2>1. Held' = k + 1
    BY <1>2, <1>3 DEF Held
  <2>2. k + 1 <= Held
    BY <1>1, QueueFacts DEF Held
  <2> QED
    BY <2>1, <2>2
<1> QED
  BY <1>3, <1>4, <1>5, <1>6, <1>7, <1>8, <1>9, <1>10, <1>11 DEF FeedInv

\* The sender may go, and the window may open and close.
LEMMA StillKeepsFeed ==
  ASSUME FeedInv, UNCHANGED <<queue, chunks, written, terminal, pending, lastSent>>,
         open' \in BOOLEAN, window' \in BOOLEAN
  PROVE  FeedInv' /\ Held' = Held
<1>1. FeedTypeOK'
  BY DEF FeedInv, FeedTypeOK
<1>2. Current' = Current /\ Held' = Held
  BY DEF Current, Held
<1> QED
  BY <1>1, <1>2 DEF FeedInv

\* recv and the drain after it: there is a pending chunk from then on.
LEMMA ReceiveKeepsFeed ==
  ASSUME FeedInv, NEW first \in BOOLEAN, Receive(first)
  PROVE  FeedInv' /\ ~pending'.none /\ Held' <= Held
         /\ phase' = (IF pending'.terminal THEN "flush" ELSE "wait")
<1>1. queue # <<>> /\ pending' = queue[Len(queue)] /\ queue' = <<>>
  BY NewestIsLast DEF Receive
<1>2. window' \in BOOLEAN
  BY DEF Receive, FeedInv, FeedTypeOK
<1>3. phase' = (IF pending'.terminal THEN "flush" ELSE "wait") /\ UNCHANGED <<open, chunks, written, terminal, lastSent>>
  BY DEF Receive
<1> QED
  BY <1>1, <1>2, <1>3, TakeAllKeepsFeed

\* A chunk that arrives in the window; a terminal one ends the wait.
LEMMA WaitReceiveKeepsFeed ==
  ASSUME FeedInv, WaitReceive
  PROVE  FeedInv' /\ ~pending'.none /\ Held' <= Held
         /\ (phase' = "flush" \/ (phase' = "wait" /\ ~pending'.terminal))
<1>1. queue # <<>> /\ phase = "wait" /\ UNCHANGED <<open, chunks, written, terminal, lastSent, window>>
  BY DEF WaitReceive
<1>2. window' \in BOOLEAN
  BY <1>1 DEF FeedInv, FeedTypeOK
<1>3. CASE Head(queue).terminal
  <2>1. pending' = queue[Len(queue)] /\ queue' = <<>> /\ phase' = "flush"
    BY <1>1, <1>3, NewestIsLast DEF WaitReceive
  <2> QED
    BY <1>1, <1>2, <2>1, TakeAllKeepsFeed
<1>4. CASE ~Head(queue).terminal
  <2>1. pending' = Head(queue) /\ queue' = Tail(queue) /\ phase' = "wait"
    BY <1>1, <1>4 DEF WaitReceive
  <2> QED
    BY <1>1, <1>2, <1>4, <2>1, TakeHeadKeepsFeed
<1> QED
  BY <1>3, <1>4

\* The end of the window; what waits replaces the pending chunk.
LEMMA EndWaitKeepsFeed ==
  ASSUME FeedInv, ~pending.none, EndWait
  PROVE  FeedInv' /\ ~pending'.none /\ Held' <= Held /\ phase' = "flush"
<1>1. phase' = "flush" /\ queue' = <<>> /\ UNCHANGED <<open, chunks, written, terminal, lastSent, window>>
  BY DEF EndWait
<1>2. window' \in BOOLEAN
  BY <1>1 DEF FeedInv, FeedTypeOK
<1>3. CASE queue = <<>>
  <2>1. pending' = pending /\ queue' = queue
    BY <1>1, <1>3 DEF EndWait, Newest
  <2>2. open' \in BOOLEAN
    BY <1>1 DEF FeedInv, FeedTypeOK
  <2>3. FeedInv' /\ Held' = Held
    BY <1>1, <1>2, <2>1, <2>2, StillKeepsFeed
  <2>4. Held \in Nat
    BY QueueFacts DEF Held
  <2> QED
    BY <1>1, <2>1, <2>3, <2>4
<1>4. CASE queue # <<>>
  <2>1. pending' = queue[Len(queue)]
    BY <1>4, NewestIsLast DEF EndWait
  <2> QED
    BY <1>1, <1>2, <1>4, <2>1, TakeAllKeepsFeed
<1> QED
  BY <1>3, <1>4

\* A flush was answered: its text is last_sent, and one chunk less is held.
LEMMA SettleKeepsFeed ==
  ASSUME FeedInv, ~pending.none, UNCHANGED feed, window' \in BOOLEAN, pending' = NoChunk,
         lastSent' = pending.text
  PROVE  FeedInv' /\ pending'.none /\ lastSent' = Current /\ Held' + 1 <= Held
<1>1. pending' = NoChunk /\ pending'.none /\ Current' = pending.text /\ Current = pending.text /\ ~pending'.terminal
  BY DEF NoChunk, Current
<1>2. UNCHANGED <<queue, open, chunks, written, terminal>>
  BY DEF feed
<1>3. pending.text \in Texts
  BY QueueFacts DEF FeedInv, FeedTypeOK
<1>4. FeedTypeOK'
  BY <1>1, <1>2, <1>3 DEF FeedInv, FeedTypeOK
<1>5. lastSent' <= Current'
  <2>1. PICK n \in Nat : n = pending.text
    BY <1>3, QueueFacts
  <2> QED
    BY <1>1, <2>1
<1>6. Held' + 1 <= Held
  <2>1. PICK n \in Nat : n = Len(queue)
    BY QueueFacts
  <2>2. Held' = n /\ Held = n + 1
    BY <1>1, <1>2, <2>1 DEF Held
  <2> QED
    BY <2>1, <2>2
<1> QED
  BY <1>1, <1>2, <1>4, <1>5, <1>6 DEF FeedInv

\* A duplicate text is dropped; last_sent keeps its value.
LEMMA SkipKeepsFeed ==
  ASSUME FeedInv, ~pending.none, Skip
  PROVE  FeedInv' /\ pending'.none /\ lastSent' = lastSent /\ Held' <= Held /\ phase' = "recv"
<1>1. UNCHANGED feed /\ pending' = NoChunk /\ lastSent' = lastSent /\ lastSent' = pending.text /\ window' = window /\ phase' = "recv"
  BY DEF Skip, Duplicate
<1>2. window' \in BOOLEAN
  BY <1>1 DEF FeedInv, FeedTypeOK
<1>3. FeedInv' /\ pending'.none /\ Held' + 1 <= Held
  BY <1>1, <1>2, SettleKeepsFeed
<1>4. PICK n \in Nat : n = Len(queue)
  BY QueueFacts
<1>5. Held = n + 1
  BY <1>4 DEF Held
<1>6. Held' = n + 0
  BY <1>1, <1>3, <1>4 DEF Held, feed
<1>7. Held' <= Held
  BY <1>5, <1>6
<1> QED
  BY <1>1, <1>3, <1>7

\* A send appends a text that is at least as long, and no send follows a terminal one.
LEMMA ProduceKeepsFeed ==
  ASSUME FeedInv, Produce
  PROVE  FeedInv' /\ Held' = Held + 1 /\ chunks' = chunks + 1 /\ written <= written'
<1>1. PICK t \in written..MaxText, last \in BOOLEAN :
       /\ queue' = Append(queue, [text |-> t, terminal |-> last, none |-> FALSE])
       /\ written' = t
       /\ terminal' = IF last THEN t ELSE terminal
  BY DEF Produce
<1>2. /\ terminal = NoTerminal /\ Len(queue) < Capacity /\ chunks < MaxChunks /\ chunks' = chunks + 1
      /\ UNCHANGED <<open, loop>>
  BY DEF Produce
<1>3. PICK c \in Chunk : c = [text |-> t, terminal |-> last, none |-> FALSE]
  <2>1. written \in Nat /\ MaxText \in Nat
    BY QueueFacts
  <2>2. t \in Texts
    BY <2>1 DEF Texts
  <2>3. [text |-> t, terminal |-> last, none |-> FALSE] \in Chunk
    BY <2>2 DEF Chunk
  <2> QED
    BY <2>3
<1>4. PICK k \in Nat : k = Len(queue)
  BY QueueFacts
<1>5. /\ queue' \in Seq(Chunk) /\ Len(queue') = k + 1 /\ DOMAIN queue' = 1..(k + 1)
      /\ queue'[k + 1] = c /\ \A i \in 1..k : queue'[i] = queue[i] /\ i \in DOMAIN queue
      /\ queue' # <<>>
  BY <1>1, <1>3, <1>4, QueueFacts
<1>6. t \in Texts /\ t \in Nat /\ c.text = t /\ c.terminal = last
  BY <1>1, <1>3, QueueFacts, FeedConstants DEF Texts
<1>7. FeedTypeOK'
  <2>1. Len(queue') <= Capacity
    BY <1>2, <1>4, <1>5, FeedConstants
  <2>2. chunks' \in 0..MaxChunks
    BY <1>2, FeedConstants DEF FeedInv, FeedTypeOK
  <2>3. terminal' \in Texts \cup {NoTerminal}
    BY <1>1, <1>2, <1>6
  <2> QED
    BY <1>1, <1>2, <1>5, <1>6, <2>1, <2>2, <2>3 DEF FeedInv, FeedTypeOK, loop, NoTerminal, Chunk, NoChunk
<1>8. \A i \in 1..k : queue[i].text <= t
  <2> SUFFICES ASSUME NEW i \in 1..k PROVE queue[i].text <= t
    OBVIOUS
  <2>1. k \in 1..k /\ i <= k /\ queue # <<>>
    BY <1>4
  <2>2. written = queue[k].text /\ queue[i].text <= queue[k].text
    BY <1>4, <1>5, <2>1 DEF FeedInv
  <2> QED
    BY <1>1, <1>4, <2>1, <2>2, QueueFacts
<1>9. Current <= t
  <2>1. CASE queue = <<>>
    BY <1>1, <2>1, QueueFacts DEF FeedInv
  <2>2. CASE queue # <<>>
    <3>1. k \in 1..k
      BY <1>4, <2>2
    <3>2. Current <= queue[k].text /\ queue[k].text <= t
      BY <1>5, <1>8, <3>1 DEF FeedInv
    <3> QED
      BY <1>4, <1>6, <3>1, <3>2, QueueFacts
  <2> QED
    BY <2>1, <2>2
<1>10. Current' = Current
  BY <1>2 DEF Current, loop
<1>11. pending.none
       \/ ~pending.terminal
  BY <1>2 DEF FeedInv
<1>12. ~pending'.terminal
  BY <1>2, QueueFacts DEF FeedInv, loop
<1>13. \A i \in DOMAIN queue' : Current' <= queue'[i].text
  <2> SUFFICES ASSUME NEW i \in 1..(k + 1) PROVE Current <= queue'[i].text
    BY <1>5, <1>10
  <2>1. CASE i = k + 1
    BY <1>5, <1>6, <1>9, <2>1
  <2>2. CASE i # k + 1
    <3>1. i \in 1..k
      BY <2>2
    <3> QED
      BY <1>5, <3>1 DEF FeedInv
  <2> QED
    BY <2>1, <2>2
<1>14. \A i, j \in DOMAIN queue' : i <= j => queue'[i].text <= queue'[j].text
  <2> SUFFICES ASSUME NEW i \in 1..(k + 1), NEW j \in 1..(k + 1), i <= j PROVE queue'[i].text <= queue'[j].text
    BY <1>5
  <2>1. CASE j = k + 1 /\ i = k + 1
    BY <1>5, <1>6, <2>1
  <2>2. CASE j = k + 1 /\ i \in 1..k
    BY <1>5, <1>6, <1>8, <2>2
  <2>3. CASE j \in 1..k /\ i \in 1..k
    BY <1>5, <2>3 DEF FeedInv
  <2> QED
    BY <2>1, <2>2, <2>3
<1>15. written' = IF queue' = <<>> THEN Current' ELSE queue'[Len(queue')].text
  BY <1>1, <1>5, <1>6
<1>16. \A i \in DOMAIN queue' : queue'[i].terminal => i = Len(queue') /\ terminal' # NoTerminal'
  <2> SUFFICES ASSUME NEW i \in 1..(k + 1), queue'[i].terminal PROVE i = k + 1 /\ terminal' # NoTerminal
    BY <1>5 DEF NoTerminal
  <2>1. CASE i = k + 1
    <3>1. terminal' = t
      BY <1>1, <1>5, <1>6, <2>1
    <3>2. t # NoTerminal
      BY <1>6, FeedConstants DEF NoTerminal, Texts
    <3> QED
      BY <2>1, <3>1, <3>2
  <2>2. CASE i # k + 1
    <3>1. i \in 1..k
      BY <2>2
    <3> QED
      BY <1>2, <1>5, <3>1 DEF FeedInv
  <2> QED
    BY <2>1, <2>2
<1>17. Held' = Held + 1
  <2>1. PICK h \in Nat : h = IF pending.none THEN 0 ELSE 1
    OBVIOUS
  <2>2. Held = k + h /\ Held' = (k + 1) + h
    BY <1>2, <1>4, <1>5, <2>1 DEF Held, loop
  <2> QED
    BY <2>2
<1>18. written <= written'
  BY <1>1, QueueFacts
<1>19. (pending.none => pending = NoChunk)' /\ lastSent' <= Current'
  BY <1>2, <1>10 DEF FeedInv, loop, NoChunk
<1> QED
  BY <1>2, <1>7, <1>12, <1>13, <1>14, <1>15, <1>16, <1>17, <1>18, <1>19 DEF FeedInv

\* The same kinds of values after a step.
LEMMA PrimedFacts ==
  ASSUME FeedInv'
  PROVE  Held' \in Nat /\ written' \in Nat /\ lastSent' \in Nat
<1>1. MaxText \in Nat /\ Texts \subseteq Nat
  BY FeedConstants DEF Texts
<1>2. queue' \in Seq(Chunk) /\ Len(queue') \in Nat
  BY DEF FeedInv, FeedTypeOK
<1>3. written' \in Nat /\ lastSent' \in Nat
  BY <1>1 DEF FeedInv, FeedTypeOK
<1>4. PICK n \in Nat : n = Len(queue')
  BY <1>2
<1>5. Held' = n + (IF pending'.none THEN 0 ELSE 1)
  BY <1>4 DEF Held
<1> QED
  BY <1>3, <1>5

\* The loop is never ahead of the caller, and is level with it when the channel is empty.
LEMMA CurrentIsWritten ==
  ASSUME FeedInv
  PROVE  /\ Current <= written /\ lastSent <= Current /\ lastSent <= written
         /\ queue = <<>> => Current = written
         /\ Held \in Nat /\ chunks \in Nat /\ chunks <= MaxChunks /\ MaxChunks \in Nat
         /\ Current \in Texts /\ written \in Texts
<1>1. queue = <<>> => Current = written
  BY DEF FeedInv
<1>2. queue # <<>> => Current <= written
  BY NewestIsLast DEF FeedInv
<1>3. lastSent <= Current
  BY DEF FeedInv
<1>4. Current <= written
  BY <1>1, <1>2, QueueFacts
<1>5. lastSent <= written
  BY <1>3, <1>4, QueueFacts
<1>6. Held \in Nat
  BY QueueFacts DEF Held
<1>7. chunks \in Nat /\ chunks <= MaxChunks /\ MaxChunks \in Nat
  BY FeedConstants DEF FeedInv, FeedTypeOK
<1>8. written \in Texts
  BY DEF FeedInv, FeedTypeOK
<1>9. Current \in Texts
  <2>1. Current \in Nat /\ written \in Nat /\ written <= MaxText /\ MaxText \in Nat
    BY <1>8, QueueFacts DEF Texts
  <2> QED
    BY <1>4, <2>1 DEF Texts
<1> QED
  BY <1>1, <1>3, <1>4, <1>5, <1>6, <1>7, <1>8, <1>9 DEF FeedInv

\* The outcome is told by the phase.
LEMMA OutcomeOfPhase ==
  /\ Outcome = "live" <=> ~Over
  /\ Outcome = "complete" <=> phase = "ended"
  /\ Outcome = "failed" <=> phase = "failed"
  /\ Outcome' = "live" <=> ~Over'
  /\ Outcome' = "complete" <=> phase' = "ended"
  /\ Outcome' = "failed" <=> phase' = "failed"
  BY DEF Outcome, Over

\* A step that changes neither what is seen nor what was written.
LEMMA StepStutters ==
  ASSUME UNCHANGED <<written, open, terminal>>, Visible' = Visible, ~Over, ~Over'
  PROVE  UNCHANGED Reply!vars
<1>1. Outcome' = Outcome
  BY OutcomeOfPhase
<1>2. Finished' = Finished
  BY DEF Finished, NoTerminal
<1> QED
  BY <1>1, <1>2 DEF Reply!vars

\* A step that shows more, and no more than was written.
LEMMA StepShows ==
  ASSUME UNCHANGED <<written, open, terminal>>, Visible' \in Visible..written, ~Over, ~Over'
  PROVE  Reply!Next
<1>1. Outcome' = Outcome /\ Outcome = "live"
  BY OutcomeOfPhase
<1>2. Finished' = Finished
  BY DEF Finished, NoTerminal
<1> QED
  BY <1>1, <1>2 DEF Reply!Next, Reply!Show

\* A step that ends a finished reply and shows all of it.
LEMMA StepCompletes ==
  ASSUME UNCHANGED <<written, open, terminal>>, Visible' = written, ~Over, phase' = "ended", Finished
  PROVE  Reply!Next
<1>1. Outcome' = "complete" /\ Outcome = "live"
  BY OutcomeOfPhase
<1>2. Finished' = Finished
  BY DEF Finished, NoTerminal
<1> QED
  BY <1>1, <1>2 DEF Reply!Next, Reply!Complete

\* A step that fails the reply, carried out or not.
LEMMA StepFails ==
  ASSUME UNCHANGED <<written, open, terminal>>, Visible' \in Visible..written, ~Over, phase' = "failed"
  PROVE  Reply!Next
<1>1. Outcome' = "failed" /\ Outcome = "live"
  BY OutcomeOfPhase
<1>2. Finished' = Finished
  BY DEF Finished, NoTerminal
<1> QED
  BY <1>1, <1>2 DEF Reply!Next, Reply!Fail

-----------------------------------------------------------------------------
(* ---- QqReply ---- *)

\* QqReply's type invariant, in ReplyDrivers' own terms.
LEMMA QqTyped ==
  /\ Qq!TypeOK <=> /\ FeedTypeOK
                   /\ phase \in {"recv", "wait", "flush", "ended", "failed"}
                   /\ flushed \in BOOLEAN /\ shown \in Texts /\ done \in BOOLEAN
                   /\ posts \in 0..MaxChunks + 1
  /\ Qq!TypeOK' <=> /\ FeedTypeOK'
                    /\ phase' \in {"recv", "wait", "flush", "ended", "failed"}
                    /\ flushed' \in BOOLEAN /\ shown' \in Texts /\ done' \in BOOLEAN
                    /\ posts' \in 0..MaxChunks + 1
<1> USE DEF Qq!FeedTypeOK, FeedTypeOK, Qq!Chunk, Chunk, Qq!Texts, Texts, Qq!NoTerminal, NoTerminal,
            Qq!NoChunk, NoChunk
<1>1. Qq!TypeOK <=> /\ FeedTypeOK
                    /\ phase \in {"recv", "wait", "flush", "ended", "failed"}
                    /\ flushed \in BOOLEAN /\ shown \in Texts /\ done \in BOOLEAN
                    /\ posts \in 0..MaxChunks + 1
  BY Zenon DEF Qq!TypeOK
<1>2. Qq!TypeOK' <=> /\ FeedTypeOK'
                     /\ phase' \in {"recv", "wait", "flush", "ended", "failed"}
                     /\ flushed' \in BOOLEAN /\ shown' \in Texts /\ done' \in BOOLEAN
                     /\ posts' \in 0..MaxChunks + 1
  BY Zenon DEF Qq!TypeOK
<1> QED
  BY <1>1, <1>2

\* The loop's steps without a request.
LEMMA QqWaits ==
  ASSUME QqInv, FeedInv, FeedInv', ~Over, driver = "qq",
         UNCHANGED <<driver, flushed, shown, done, posts, chunks, written, open, terminal, lastSent>>,
         UNCHANGED feishuVars,
         Held' <= Held, phase' \in {"recv", "wait", "flush"},
         phase' \in {"wait", "flush"} => ~pending'.none,
         phase' = "recv" => pending'.none,
         phase' = "wait" => ~pending'.terminal
  PROVE  QqInv' /\ UNCHANGED Reply!vars
<1>1. FeedTypeOK' /\ FeedTypeOK
  BY DEF FeedInv
<1>2. Qq!TypeOK'
  BY <1>1, QqTyped DEF QqInv
<1>3. NoCard'
  BY DEF QqInv, NoCard, feishuVars
<1>4. ~Over'
  BY DEF Over
<1>5. posts' + Held' <= chunks'
  <2>1. PICK h \in Nat : h = Held'
    BY PrimedFacts
  <2>2. PICK p \in Nat : p = posts
    BY QqTyped DEF QqInv
  <2>3. p + h <= chunks
    BY <2>1, <2>2, CurrentIsWritten DEF QqInv
  <2> QED
    BY <2>1, <2>2, <2>3
<1>6. shown' = lastSent' /\ ~done' /\ (~flushed' => lastSent' = 0) /\ shown' <= written'
  BY DEF QqInv
<1>7. phase' # "ended"
  BY <1>4 DEF Over
<1>8. UNCHANGED Reply!vars
  BY <1>4, StepStutters DEF Visible
<1> QED
  BY <1>2, <1>3, <1>4, <1>5, <1>6, <1>7, <1>8 DEF QqInv

\* A step that ends the reply, well or not.
LEMMA QqEnds ==
  ASSUME QqInv, FeedInv, FeedInv', ~Over, driver = "qq",
         UNCHANGED <<driver, written, open, terminal>>, UNCHANGED feishuVars,
         flushed' \in BOOLEAN, shown' \in Texts, done' \in BOOLEAN,
         posts' = posts \/ posts' = posts + 1,
         shown <= shown', shown' <= written',
         \/ phase' = "failed"
         \/ phase' = "ended" /\ Finished /\ shown' = written /\ (done' \/ shown' = 0)
  PROVE  QqInv' /\ Reply!Next
<1>1. FeedTypeOK' /\ FeedTypeOK
  BY DEF FeedInv
<1>2. posts' \in 0..MaxChunks + 1
  <2>1. PICK p \in Nat : p = posts /\ p <= MaxChunks
    <3>1. PICK p \in Nat : p = posts
      BY QqTyped DEF QqInv
    <3>2. p + Held <= chunks
      BY <3>1 DEF QqInv
    <3> QED
      BY <3>1, <3>2, CurrentIsWritten
  <2>2. PICK q \in Nat : q = posts' /\ q <= MaxChunks + 1
    <3>1. posts' = p \/ posts' = p + 1
      BY <2>1
    <3>2. p + 1 <= MaxChunks + 1 /\ p <= MaxChunks + 1 /\ p + 1 \in Nat
      BY <2>1, CurrentIsWritten
    <3> QED
      BY <3>1, <3>2
  <2> QED
    BY <2>2, CurrentIsWritten
<1>3. Qq!TypeOK'
  BY <1>1, <1>2, QqTyped
<1>4. NoCard' /\ Over'
  BY DEF QqInv, NoCard, feishuVars, Over
<1>5. QqInv'
  BY <1>3, <1>4 DEF QqInv
<1>6. Visible = shown /\ Visible' = shown'
  BY DEF Visible
<1>7. Visible' \in Visible..written
  <2>1. PICK s \in Nat : s = shown'
    BY QueueFacts
  <2>2. shown \in Nat /\ written \in Nat
    BY QqTyped, QueueFacts DEF QqInv
  <2>3. shown <= s /\ s <= written
    BY <2>1
  <2>4. s \in shown..written
    BY <2>1, <2>2, <2>3
  <2> QED
    BY <1>6, <2>1, <2>4
<1>8. Reply!Next
  BY <1>6, <1>7, StepFails, StepCompletes
<1> QED
  BY <1>5, <1>8

\* Every step of QqBotDriver::reply_to_user_streaming keeps the invariant, is one of the
\* promise's, and is taken before the reply is over.
LEMMA QqKeeps ==
  ASSUME driver = "qq", FeedInv, QqInv, Qq!Driver, UNCHANGED <<driver, feishuVars>>
  PROVE  FeedInv' /\ QqInv' /\ ~Over /\ (Reply!Next \/ UNCHANGED Reply!vars)
<1> USE DEF Qq!feed, feed
<1>0. ~Over
  <2>1. phase \in {"recv", "wait", "flush"}
    BY DEF Qq!Driver, Qq!Receive, Qq!WaitReceive, Qq!EndWait, Qq!Skip, Qq!PostAnswered, Qq!PostFails,
           Qq!CloseOut, Qq!CloseOutFails, Qq!NothingToClose, Qq!SenderGone
  <2> QED
    BY <2>1 DEF Over
<1>1. shown = lastSent /\ ~done /\ (~flushed => lastSent = 0) /\ NoCard
  BY <1>0 DEF QqInv
<1>2. flushed \in BOOLEAN /\ shown \in Texts /\ done \in BOOLEAN /\ posts \in Nat /\ pending.terminal \in BOOLEAN
  <2>1. pending.terminal \in BOOLEAN
    <3>1. NoChunk.terminal = FALSE
      BY DEF NoChunk
    <3>2. pending = NoChunk \/ pending \in Chunk
      BY DEF FeedInv, FeedTypeOK
    <3> QED
      BY <3>1, <3>2, QueueFacts
  <2> QED
    BY <2>1, QqTyped DEF QqInv
<1>3. CASE Qq!Receive(~flushed) /\ UNCHANGED <<flushed, Qq!platform>>
  <2>1. PICK first \in BOOLEAN : Receive(first)
    BY <1>2, <1>3, QqFeed
  <2>2. FeedInv' /\ ~pending'.none /\ Held' <= Held /\ phase' = (IF pending'.terminal THEN "flush" ELSE "wait")
    BY <2>1, ReceiveKeepsFeed
  <2>3. UNCHANGED <<chunks, written, open, terminal, lastSent>>
    BY <2>1 DEF Receive
  <2> QED
    BY <1>0, <1>3, <2>2, <2>3, QqWaits DEF Qq!platform, feishuVars
<1>4. CASE Qq!WaitReceive /\ UNCHANGED <<flushed, Qq!platform>>
  <2>1. WaitReceive
    BY <1>4, QqFeed
  <2>2. FeedInv' /\ ~pending'.none /\ Held' <= Held
        /\ (phase' = "flush" \/ (phase' = "wait" /\ ~pending'.terminal))
    BY <2>1, WaitReceiveKeepsFeed
  <2>3. UNCHANGED <<chunks, written, open, terminal, lastSent>>
    BY <2>1 DEF WaitReceive
  <2> QED
    BY <1>0, <1>4, <2>2, <2>3, QqWaits DEF Qq!platform, feishuVars
<1>5. CASE Qq!EndWait /\ UNCHANGED <<flushed, Qq!platform>>
  <2>1. EndWait /\ ~pending.none
    BY <1>5, QqFeed DEF EndWait, QqInv
  <2>2. FeedInv' /\ ~pending'.none /\ Held' <= Held /\ phase' = "flush"
    BY <2>1, EndWaitKeepsFeed
  <2>3. UNCHANGED <<chunks, written, open, terminal, lastSent>>
    BY <2>1 DEF EndWait
  <2> QED
    BY <1>0, <1>5, <2>2, <2>3, QqWaits DEF Qq!platform, feishuVars
<1>6. CASE Qq!Skip /\ UNCHANGED <<flushed, Qq!platform>>
  <2>1. Skip /\ ~pending.none
    BY <1>6, QqFeed DEF Skip, QqInv
  <2>2. FeedInv' /\ pending'.none /\ lastSent' = lastSent /\ Held' <= Held /\ phase' = "recv"
    BY <2>1, SkipKeepsFeed
  <2>3. UNCHANGED <<chunks, written, open, terminal>>
    BY <2>1 DEF Skip
  <2> QED
    BY <1>0, <1>6, <2>2, <2>3, QqWaits DEF Qq!platform, feishuVars
<1>7. CASE Qq!PostAnswered
  <2>1. /\ phase = "flush" /\ shown' = pending.text /\ done' = (done \/ pending.terminal)
        /\ posts' = posts + 1 /\ flushed' = TRUE
        /\ lastSent' = pending.text /\ pending' = NoChunk /\ window' = TRUE
        /\ phase' = (IF pending.terminal THEN "ended" ELSE "recv") /\ UNCHANGED feed
    BY <1>7 DEF Qq!PostAnswered, Qq!Delivered, Qq!Flushed, Qq!NoChunk, NoChunk
  <2>2. ~pending.none /\ Current = pending.text
    BY <2>1 DEF QqInv, Current
  <2>3. FeedInv' /\ pending'.none /\ lastSent' = Current /\ Held' + 1 <= Held
    BY <2>1, <2>2, SettleKeepsFeed
  <2>4. UNCHANGED <<chunks, written, open, terminal>>
    BY <2>1
  <2>5. shown' \in Texts /\ shown <= shown' /\ shown' <= written'
    BY <1>1, <2>1, <2>2, <2>4, CurrentIsWritten
  <2>6. CASE pending.terminal
    <3>1. queue = <<>> /\ Finished
      BY <2>6 DEF FeedInv, Finished
    <3>2. shown' = written /\ done' /\ phase' = "ended"
      BY <2>1, <2>2, <2>6, <3>1, CurrentIsWritten
    <3> QED
      BY <1>0, <1>2, <2>1, <2>3, <2>4, <2>5, <3>1, <3>2, QqEnds DEF feishuVars
  <2>7. CASE ~pending.terminal
    <3>1. phase' = "recv" /\ ~done' /\ ~Over' /\ done' \in BOOLEAN
      BY <1>1, <2>1, <2>7 DEF Over
    <3>2. posts' + Held' <= chunks' /\ posts' \in 0..MaxChunks + 1
      <4>1. PICK h \in Nat : h = Held'
        BY <2>3, PrimedFacts
      <4>2. PICK p \in Nat : p = posts
        BY <1>2
      <4>3. p + Held <= chunks
        BY <1>0, <4>2 DEF QqInv
      <4>4. h + 1 <= Held
        BY <2>3, <4>1
      <4>5. (p + 1) + h <= chunks /\ p + 1 \in 0..MaxChunks + 1
        BY <4>3, <4>4, CurrentIsWritten
      <4> QED
        BY <2>1, <2>4, <4>1, <4>2, <4>5
    <3>3. Qq!TypeOK'
      BY <2>1, <2>3, <2>5, <3>1, <3>2, QqTyped DEF FeedInv
    <3>4. NoCard'
      BY <1>1 DEF NoCard, feishuVars
    <3>5. QqInv'
      BY <2>1, <2>3, <2>5, <3>1, <3>2, <3>3, <3>4 DEF QqInv
    <3>6. Visible' \in Visible..written
      <4>1. Visible = lastSent /\ Visible' = Current
        BY <1>1, <2>1, <2>2 DEF Visible
      <4>2. Current \in lastSent..written
        BY CurrentIsWritten, QueueFacts
      <4> QED
        BY <4>1, <4>2
    <3>7. Reply!Next
      BY <1>0, <2>4, <3>1, <3>6, StepShows
    <3> QED
      BY <1>0, <2>3, <3>5, <3>7
  <2> QED
    BY <2>6, <2>7
<1>8. ASSUME NEW text, NEW isDone \in BOOLEAN, Qq!Fails(text, isDone),
             text \in Texts, shown <= text, text <= written
      PROVE  FeedInv' /\ QqInv' /\ Reply!Next
  <2>1. phase' = "failed" /\ UNCHANGED <<queue, chunks, written, open, terminal, pending, lastSent, window, flushed>>
    BY <1>8 DEF Qq!Fails
  <2>2. FeedInv'
    <3>1. open' \in BOOLEAN /\ window' \in BOOLEAN
      BY <2>1 DEF FeedInv, FeedTypeOK
    <3> QED
      BY <2>1, <3>1, StillKeepsFeed
  <2>3. CASE Qq!Delivered(text, isDone)
    <3>1. shown' = text /\ done' = (done \/ isDone) /\ posts' = posts + 1
      BY <2>3 DEF Qq!Delivered
    <3> QED
      BY <1>0, <1>2, <1>8, <2>1, <2>2, <3>1, QqEnds DEF feishuVars
  <2>4. CASE UNCHANGED Qq!platform
    <3>1. UNCHANGED <<shown, done, posts>>
      BY <2>4 DEF Qq!platform
    <3>2. shown <= shown /\ shown <= written
      BY <1>1, CurrentIsWritten, QueueFacts
    <3> QED
      BY <1>0, <1>2, <2>1, <2>2, <3>1, <3>2, QqEnds DEF feishuVars
  <2> QED
    BY <1>8, <2>3, <2>4 DEF Qq!Fails
<1>9. CASE Qq!PostFails
  <2>1. Qq!Fails(pending.text, pending.terminal) /\ phase = "flush"
    BY <1>9 DEF Qq!PostFails
  <2>2. Current = pending.text
    BY <2>1 DEF QqInv, Current
  <2> QED
    BY <1>0, <1>1, <1>2, <1>8, <2>1, <2>2, CurrentIsWritten
<1>10. Qq!SenderGone => /\ queue = <<>> /\ phase = "recv" /\ Finished /\ lastSent = written
                        /\ lastSent \in Texts /\ lastSent <= lastSent /\ lastSent <= written
  <2> SUFFICES ASSUME Qq!SenderGone
               PROVE  /\ queue = <<>> /\ phase = "recv" /\ Finished /\ lastSent = written
                      /\ lastSent \in Texts /\ lastSent <= lastSent /\ lastSent <= written
    OBVIOUS
  <2>1. queue = <<>> /\ phase = "recv" /\ Finished
    BY DEF Qq!SenderGone, Finished
  <2>2. Current = lastSent
    BY <2>1 DEF QqInv, Current
  <2> QED
    BY <2>1, <2>2, CurrentIsWritten, QueueFacts
<1>11. CASE Qq!CloseOutFails
  BY <1>0, <1>1, <1>8, <1>10, <1>11 DEF Qq!CloseOutFails
<1>12. ASSUME Qq!SenderGone, UNCHANGED <<queue, chunks, written, open, terminal, pending, lastSent, window, flushed>>
       PROVE  FeedInv'
  <2>1. open' \in BOOLEAN /\ window' \in BOOLEAN
    BY <1>12 DEF FeedInv, FeedTypeOK
  <2> QED
    BY <1>12, <2>1, StillKeepsFeed
<1>13. CASE Qq!CloseOut
  <2>1. /\ Qq!SenderGone /\ shown' = lastSent /\ done' = (done \/ TRUE) /\ posts' = posts + 1 /\ phase' = "ended"
        /\ UNCHANGED <<queue, chunks, written, open, terminal, pending, lastSent, window, flushed>>
    BY <1>13 DEF Qq!CloseOut, Qq!Delivered
  <2>2. FeedInv'
    BY <1>12, <2>1
  <2> QED
    BY <1>0, <1>1, <1>2, <1>10, <2>1, <2>2, QqEnds DEF feishuVars
<1>14. CASE Qq!NothingToClose
  <2>1. /\ Qq!SenderGone /\ UNCHANGED <<shown, done, posts>> /\ ~flushed /\ phase' = "ended"
        /\ UNCHANGED <<queue, chunks, written, open, terminal, pending, lastSent, window, flushed>>
    BY <1>14 DEF Qq!NothingToClose, Qq!platform
  <2>2. FeedInv'
    BY <1>12, <2>1
  <2>3. shown' = written /\ shown' = 0 /\ shown <= shown'
    BY <1>1, <1>10, <2>1
  <2> QED
    BY <1>0, <1>1, <1>2, <1>10, <2>1, <2>2, <2>3, QqEnds DEF feishuVars
<1> QED
  BY <1>0, <1>3, <1>4, <1>5, <1>6, <1>7, <1>9, <1>11, <1>13, <1>14 DEF Qq!Driver

-----------------------------------------------------------------------------
(* ---- FeishuCard ---- *)

\* FeishuCard's type invariant, in ReplyDrivers' own terms.
LEMMA FeishuTyped ==
  /\ Feishu!TypeOK <=> /\ FeedTypeOK
                       /\ phase \in {"first", "create", "publish", "initial", "recv", "wait", "flush",
                                     "close", "ended", "failed"}
                       /\ seq \in Nat /\ card \in {"none", "hidden", "streaming", "closed"}
                       /\ content \in Texts /\ accepted \in Nat /\ received \in Nat
  /\ Feishu!TypeOK' <=> /\ FeedTypeOK'
                        /\ phase' \in {"first", "create", "publish", "initial", "recv", "wait", "flush",
                                       "close", "ended", "failed"}
                        /\ seq' \in Nat /\ card' \in {"none", "hidden", "streaming", "closed"}
                        /\ content' \in Texts /\ accepted' \in Nat /\ received' \in Nat
<1> USE DEF Feishu!FeedTypeOK, FeedTypeOK, Feishu!Chunk, Chunk, Feishu!Texts, Texts, Feishu!NoTerminal,
            NoTerminal, Feishu!NoChunk, NoChunk
<1>1. Feishu!TypeOK <=> /\ FeedTypeOK
                        /\ phase \in {"first", "create", "publish", "initial", "recv", "wait", "flush",
                                      "close", "ended", "failed"}
                        /\ seq \in Nat /\ card \in {"none", "hidden", "streaming", "closed"}
                        /\ content \in Texts /\ accepted \in Nat /\ received \in Nat
  BY Zenon DEF Feishu!TypeOK
<1>2. Feishu!TypeOK' <=> /\ FeedTypeOK'
                         /\ phase' \in {"first", "create", "publish", "initial", "recv", "wait", "flush",
                                        "close", "ended", "failed"}
                         /\ seq' \in Nat /\ card' \in {"none", "hidden", "streaming", "closed"}
                         /\ content' \in Texts /\ accepted' \in Nat /\ received' \in Nat
  BY Zenon DEF Feishu!TypeOK
<1> QED
  BY <1>1, <1>2

\* The card as each phase of FeishuBotDriver::reply_to_user_streaming finds it.
CardFits ==
  /\ phase \in {"first", "create"} => card = "none" /\ content = 0
  /\ phase \in {"publish", "initial"} => content = pending.text
  /\ phase = "publish" => card = "hidden"
  /\ phase \in {"initial", "recv", "wait", "flush", "close"} => card = "streaming"
  /\ phase \in {"recv", "wait", "flush", "close"} => content = lastSent
  /\ phase # "failed" => accepted = seq

\* A step after which the reply goes on.
LEMMA FeishuLive ==
  ASSUME FeishuInv, FeedInv, FeedInv', ~Over, driver = "feishu",
         UNCHANGED <<driver, qqVars, written, open, terminal>>,
         phase' \in {"first", "create", "publish", "initial", "recv", "wait", "flush", "close"},
         phase' \in {"first", "recv", "close"} => pending'.none,
         phase' \in {"create", "publish", "initial", "wait", "flush"} => ~pending'.none,
         phase' = "wait" => ~pending'.terminal,
         phase' \in {"first", "create", "publish", "initial"} => lastSent' = 0,
         phase' = "close" => Finished /\ queue' = <<>>,
         CardFits', card' \in {"none", "hidden", "streaming"},
         seq' \in Nat, accepted' \in Nat, received' \in Nat, content' \in Texts,
         content' <= written, Visible' \in Visible..written
  PROVE  FeishuInv' /\ Reply!Next
<1>1. Feishu!TypeOK'
  BY FeishuTyped DEF FeedInv
<1>2. ~Over'
  BY DEF Over
<1>3. NoStream' /\ shown' = 0
  BY DEF FeishuInv, NoStream, qqVars
<1>4. Finished' = Finished
  BY DEF Finished, NoTerminal
<1>5. phase' # "ended" /\ card' # "closed" /\ content' <= written'
  BY <1>2 DEF Over
<1>6. FeishuInv'
  BY <1>1, <1>3, <1>4, <1>5 DEF FeishuInv, CardFits
<1>7. Reply!Next
  BY <1>2, StepShows
<1> QED
  BY <1>6, <1>7

\* A request that fails, carried out or not.
LEMMA FeishuFails ==
  ASSUME FeishuInv, FeedInv, FeedInv', ~Over, driver = "feishu",
         UNCHANGED <<driver, qqVars, written, open, terminal>>,
         phase' = "failed", card' \in {"none", "hidden", "streaming", "closed"},
         seq' \in Nat, accepted' \in Nat, received' \in Nat, content' \in Texts,
         content' <= written, Visible' \in Visible..written
  PROVE  FeishuInv' /\ Reply!Next
<1>1. Feishu!TypeOK'
  BY FeishuTyped DEF FeedInv
<1>2. Over'
  BY DEF Over
<1>3. NoStream' /\ shown' = 0
  BY DEF FeishuInv, NoStream, qqVars
<1>4. FeishuInv'
  BY <1>1, <1>2, <1>3 DEF FeishuInv
<1>5. Reply!Next
  BY StepFails
<1> QED
  BY <1>4, <1>5

\* The end, with the card closed or never created.
LEMMA FeishuEnds ==
  ASSUME FeishuInv, FeedInv, FeedInv', ~Over, driver = "feishu", Finished,
         UNCHANGED <<driver, qqVars, written, open, terminal>>,
         phase' = "ended", content' \in Texts, seq' \in Nat, accepted' = seq', received' \in Nat,
         content' = written,
         \/ card' = "closed"
         \/ card' = "none" /\ written = 0 
  PROVE  FeishuInv' /\ Reply!Next
<1>1. Feishu!TypeOK'
  BY FeishuTyped DEF FeedInv
<1>2. Over'
  BY DEF Over
<1>3. NoStream' /\ shown' = 0
  BY DEF FeishuInv, NoStream, qqVars
<1>4. content' <= written'
  BY CurrentIsWritten, QueueFacts
<1>5. FeishuInv'
  BY <1>1, <1>2, <1>3, <1>4 DEF FeishuInv
<1>6. Visible' = written
  BY DEF Visible
<1>7. Reply!Next
  BY <1>6, StepCompletes
<1> QED
  BY <1>5, <1>7

\* What SequenceGrows says of a step.
NumberGrows ==
  received' # received => accepted' > accepted

\* The steps of stream_card_updates without a request.
LEMMA FeishuLoops ==
  ASSUME FeishuInv, FeedInv, FeedInv', ~Over, driver = "feishu",
         UNCHANGED <<driver, qqVars, written, open, terminal, lastSent, feishuVars>>,
         phase \in {"recv", "wait", "flush"}, phase' \in {"recv", "wait", "flush"},
         phase' \in {"wait", "flush"} => ~pending'.none,
         phase' = "recv" => pending'.none,
         phase' = "wait" => ~pending'.terminal
  PROVE  FeishuInv' /\ Reply!Next /\ NumberGrows
<1>1. /\ seq \in Nat /\ accepted \in Nat /\ received \in Nat /\ content \in Texts /\ card = "streaming"
      /\ content = lastSent /\ accepted = seq /\ content <= written
  BY FeishuTyped DEF FeishuInv, Over
<1>2. UNCHANGED <<seq, card, content, accepted, received>>
  BY DEF feishuVars
<1>3. Visible' \in Visible..written
  <2>1. Visible = content /\ Visible' = content
    BY <1>1, <1>2 DEF Visible
  <2> QED
    BY <1>1, <2>1, QueueFacts
<1>4. CardFits'
  BY <1>1, <1>2 DEF CardFits
<1>5. FeishuInv' /\ Reply!Next
  BY <1>1, <1>2, <1>3, <1>4, FeishuLive
<1> QED
  BY <1>1, <1>2, <1>5 DEF NumberGrows

\* Every step of FeishuBotDriver::reply_to_user_streaming keeps the invariant, is one of
\* the promise's, and a numbered request carries a higher number.
LEMMA FeishuKeeps ==
  ASSUME driver = "feishu", FeedInv, FeishuInv, Feishu!Driver, UNCHANGED <<driver, qqVars>>
  PROVE  FeedInv' /\ FeishuInv' /\ ~Over /\ Reply!Next /\ NumberGrows
<1> USE DEF Feishu!feed, feed
<1>0. ~Over
  <2>1. phase \in {"first", "create", "publish", "initial", "recv", "wait", "flush", "close"}
    BY DEF Feishu!Driver, Feishu!First, Feishu!NoReply, Feishu!CreateCard, Feishu!PostCard, Feishu!InitialUpdate,
           Feishu!Receive, Feishu!WaitReceive, Feishu!EndWait, Feishu!Skip, Feishu!Update, Feishu!FinalUpdate,
           Feishu!SenderGone, Feishu!Close
  <2> QED
    BY <2>1 DEF Over
<1>1. /\ seq \in Nat /\ accepted \in Nat /\ received \in Nat /\ content \in Texts /\ accepted = seq /\ content <= written
      /\ card \in {"none", "hidden", "streaming"} /\ content \in Nat /\ written \in Nat
  <2>1. /\ seq \in Nat /\ accepted \in Nat /\ received \in Nat /\ content \in Texts
        /\ card \in {"none", "hidden", "streaming", "closed"}
    BY FeishuTyped DEF FeishuInv
  <2>2. accepted = seq /\ content <= written /\ card # "closed"
    BY <1>0 DEF FeishuInv, Over
  <2> QED
    BY <2>1, <2>2, QueueFacts
<1>2. Visible = IF card = "streaming" THEN content ELSE 0
  BY <1>1 DEF Visible
<1>3. ~pending.none => Current = pending.text /\ pending.text \in Texts /\ pending.text \in Nat
                       /\ lastSent <= pending.text /\ pending.text <= written
  BY CurrentIsWritten, QueueFacts DEF Current
<1>4. PICK s \in Nat : s = seq
  BY <1>1
<1>5. ASSUME UNCHANGED <<queue, chunks, written, open, terminal, pending, lastSent, window>>
      PROVE  FeedInv'
  <2>1. open' \in BOOLEAN /\ window' \in BOOLEAN
    BY <1>5 DEF FeedInv, FeedTypeOK
  <2> QED
    BY <1>5, <2>1, StillKeepsFeed
<1>6. CASE Feishu!First
  <2>1. /\ phase = "first" /\ queue # <<>> /\ pending' = Head(queue) /\ queue' = Tail(queue) /\ phase' = "create"
        /\ UNCHANGED <<open, chunks, written, terminal, lastSent, window, seq, card, content, accepted, received>>
    BY <1>6 DEF Feishu!First, Feishu!platform
  <2>2. window' \in BOOLEAN
    BY <2>1 DEF FeedInv, FeedTypeOK
  <2>3. FeedInv' /\ ~pending'.none
    BY <2>1, <2>2, TakeHeadKeepsFeed
  <2>4. card = "none" /\ content = 0 /\ lastSent = 0
    BY <2>1 DEF FeishuInv
  <2>5. CardFits'
    BY <1>1, <2>1, <2>4 DEF CardFits
  <2>6. Visible' \in Visible..written
    <3>1. Visible' = 0 /\ Visible = 0
      BY <2>1, <2>4 DEF Visible
    <3> QED
      BY <1>1, <3>1
  <2>7. FeishuInv' /\ Reply!Next
    BY <1>0, <1>1, <2>1, <2>3, <2>4, <2>5, <2>6, FeishuLive
  <2> QED
    BY <1>0, <2>1, <2>3, <2>4, <2>7 DEF NumberGrows
<1>7. CASE Feishu!NoReply
  <2>1. /\ phase = "first" /\ queue = <<>> /\ ~open /\ phase' = "ended"
        /\ UNCHANGED <<queue, open, chunks, written, terminal, pending, lastSent, window, seq, card, content, accepted, received>>
    BY <1>7 DEF Feishu!NoReply, Feishu!platform
  <2>2. card = "none" /\ content = 0 /\ lastSent = 0 /\ pending.none
    BY <2>1 DEF FeishuInv
  <2>3. FeedInv'
    BY <1>5, <2>1
  <2>4. written = 0 /\ Finished
    BY <2>1, <2>2, CurrentIsWritten DEF Current, Finished
  <2>5. FeishuInv' /\ Reply!Next
    BY <1>0, <1>1, <2>1, <2>2, <2>3, <2>4, FeishuEnds
  <2> QED
    BY <1>0, <2>1, <2>2, <2>3, <2>5 DEF NumberGrows
<1>8. ASSUME UNCHANGED <<queue, open, chunks, written, terminal, pending, lastSent, window, seq>>, phase' = "failed",
             card' \in {"none", "hidden", "streaming", "closed"}, accepted' \in Nat, received' \in Nat, content' \in Texts,
             content' <= written, Visible' \in Visible..written
      PROVE  FeedInv' /\ FeishuInv' /\ Reply!Next
  <2>1. FeedInv'
    BY <1>5, <1>8
  <2> QED
    BY <1>0, <1>1, <1>8, <2>1, FeishuFails
<1>9. ASSUME UNCHANGED <<queue, open, chunks, written, terminal, pending, lastSent, window, seq, card, content, accepted, received>>,
             phase' = "failed"
      PROVE  FeedInv' /\ FeishuInv' /\ Reply!Next /\ NumberGrows
  <2>1. Visible' \in Visible..written
    <3>1. Visible' = Visible /\ Visible \in Nat /\ Visible <= written
      BY <1>1, <1>2, <1>9 DEF Visible
    <3> QED
      BY <1>1, <3>1
  <2> QED
    BY <1>1, <1>8, <1>9, <2>1 DEF NumberGrows
<1>10. CASE Feishu!CreateCard
  <2>1. phase = "create" /\ card = "none" /\ content = 0 /\ ~pending.none /\ lastSent = 0 /\ Visible = 0
    BY <1>2, <1>10 DEF Feishu!CreateCard, FeishuInv
  <2>2. CASE Feishu!Creates(pending.text) /\ phase' = "publish" /\ UNCHANGED <<feed, pending, lastSent, window, seq>>
    <3>1. /\ card' = "hidden" /\ content' = pending.text /\ phase' = "publish"
          /\ UNCHANGED <<queue, open, chunks, written, terminal, pending, lastSent, window, seq, accepted, received>>
      BY <2>2 DEF Feishu!Creates
    <3>2. FeedInv'
      BY <1>5, <3>1
    <3>3. Visible' \in Visible..written
      <4>1. Visible' = 0
        BY <3>1 DEF Visible
      <4> QED
        BY <1>1, <2>1, <4>1
    <3>4. CardFits'
      BY <1>1, <3>1 DEF CardFits
    <3>5. FeishuInv' /\ Reply!Next
      BY <1>0, <1>1, <1>3, <2>1, <3>1, <3>2, <3>3, <3>4, FeishuLive
    <3> QED
      BY <1>0, <2>1, <3>1, <3>2, <3>5 DEF NumberGrows
  <2>3. CASE Feishu!FailsAfter(Feishu!Creates(pending.text))
    <3>1. /\ phase' = "failed" /\ UNCHANGED <<queue, open, chunks, written, terminal, pending, lastSent, window, seq>>
          /\ Feishu!Creates(pending.text) \/ UNCHANGED <<card, content, accepted, received>>
      BY Zenon, <2>3 DEF Feishu!FailsAfter, Feishu!platform
    <3>2. CASE Feishu!Creates(pending.text)
      <4>1. card' = "hidden" /\ content' = pending.text /\ accepted' = accepted /\ received' = received
        BY <3>2 DEF Feishu!Creates
      <4>2. Visible' \in Visible..written
        <5>1. Visible' = 0
          BY <4>1 DEF Visible
        <5> QED
          BY <1>1, <2>1, <5>1
      <4>3. FeedInv' /\ FeishuInv' /\ Reply!Next
        BY <1>1, <1>3, <1>8, <2>1, <3>1, <4>1, <4>2
      <4> QED
        BY <1>0, <2>1, <4>1, <4>3 DEF NumberGrows
    <3>3. CASE UNCHANGED <<card, content, accepted, received>>
      BY <1>0, <1>9, <3>1, <3>3
    <3> QED
      BY <3>1, <3>2, <3>3
  <2> QED
    BY <1>10, <2>2, <2>3 DEF Feishu!CreateCard
<1>11. CASE Feishu!PostCard
  <2>1. phase = "publish" /\ card = "hidden" /\ content = pending.text /\ ~pending.none /\ lastSent = 0 /\ Visible = 0
    BY <1>2, <1>11 DEF Feishu!PostCard, FeishuInv
  <2>2. ASSUME card' = "streaming", content' = content PROVE Visible' \in Visible..written
    <3>1. Visible' = content
      BY <2>2 DEF Visible
    <3> QED
      BY <1>1, <2>1, <3>1
  <2>3. CASE Feishu!Publishes /\ phase' = "initial" /\ UNCHANGED <<feed, pending, lastSent, window, seq>>
    <3>1. /\ card' = "streaming" /\ content' = content /\ phase' = "initial"
          /\ UNCHANGED <<queue, open, chunks, written, terminal, pending, lastSent, window, seq, accepted, received>>
      BY <2>3 DEF Feishu!Publishes
    <3>2. FeedInv'
      BY <1>5, <3>1
    <3>3. CardFits'
      BY <1>1, <2>1, <3>1 DEF CardFits
    <3>4. FeishuInv' /\ Reply!Next
      BY <1>0, <1>1, <2>1, <2>2, <3>1, <3>2, <3>3, FeishuLive
    <3> QED
      BY <1>0, <2>1, <3>1, <3>2, <3>4 DEF NumberGrows
  <2>4. CASE Feishu!FailsAfter(Feishu!Publishes)
    <3>1. /\ phase' = "failed" /\ UNCHANGED <<queue, open, chunks, written, terminal, pending, lastSent, window, seq>>
          /\ Feishu!Publishes \/ UNCHANGED <<card, content, accepted, received>>
      BY Zenon, <2>4 DEF Feishu!FailsAfter, Feishu!platform
    <3>2. CASE Feishu!Publishes
      <4>1. card' = "streaming" /\ content' = content /\ accepted' = accepted /\ received' = received
        BY <3>2 DEF Feishu!Publishes
      <4>2. FeedInv' /\ FeishuInv' /\ Reply!Next
        BY <1>1, <1>8, <2>1, <2>2, <3>1, <4>1
      <4> QED
        BY <1>0, <2>1, <4>1, <4>2 DEF NumberGrows
    <3>3. CASE UNCHANGED <<card, content, accepted, received>>
      BY <1>0, <1>9, <3>1, <3>3
    <3> QED
      BY <3>1, <3>2, <3>3
  <2> QED
    BY <1>11, <2>3, <2>4 DEF Feishu!PostCard
<1>12. ASSUME NEW text \in Texts, Feishu!Updates(text), text \in Nat, Visible <= text, text <= written, card = "streaming"
       PROVE  /\ content' = text /\ card' = "streaming" /\ accepted' = seq + 1 /\ accepted' \in Nat /\ received' \in Nat
              /\ Visible' \in Visible..written /\ NumberGrows
  <2>1. content' = text /\ card' = "streaming" /\ accepted' = seq + 1 /\ received' = received + 1
    BY <1>12 DEF Feishu!Updates, Feishu!Numbered
  <2>2. accepted' = s + 1
    BY <1>4, <2>1
  <2>3. accepted' \in Nat /\ received' \in Nat /\ accepted' > accepted
    <3>1. s + 1 \in Nat /\ s + 1 > s /\ accepted = s
      BY <1>1, <1>4
    <3> QED
      BY <1>1, <2>1, <2>2, <3>1
  <2>4. Visible' = text
    BY <2>1 DEF Visible
  <2>5. text \in Visible..written
    BY <1>1, <1>2, <1>12
  <2> QED
    BY <2>1, <2>3, <2>4, <2>5 DEF NumberGrows
<1>13. ASSUME NEW text \in Texts, text \in Nat, Visible <= text, text <= written, card = "streaming",
              Feishu!FailsAfter(Feishu!Updates(text))
       PROVE  FeedInv' /\ FeishuInv' /\ Reply!Next /\ NumberGrows
  <2>1. /\ phase' = "failed" /\ UNCHANGED <<queue, open, chunks, written, terminal, pending, lastSent, window, seq>>
        /\ Feishu!Updates(text) \/ UNCHANGED <<card, content, accepted, received>>
    BY Zenon, <1>13 DEF Feishu!FailsAfter, Feishu!platform
  <2>2. CASE Feishu!Updates(text)
    BY <1>8, <1>12, <1>13, <2>1, <2>2
  <2>3. CASE UNCHANGED <<card, content, accepted, received>>
    BY <1>9, <2>1, <2>3
  <2> QED
    BY <2>1, <2>2, <2>3
<1>14. ASSUME phase \in {"initial", "flush"}
       PROVE  /\ card = "streaming" /\ ~pending.none /\ content <= pending.text /\ Visible <= pending.text
              /\ pending.text \in Texts /\ pending.text \in Nat /\ pending.text <= written
  <2>1. card = "streaming" /\ ~pending.none /\ (content = pending.text \/ content = lastSent)
    BY <1>14 DEF FeishuInv
  <2>2. content <= pending.text
    BY <1>1, <1>3, <2>1
  <2> QED
    BY <1>2, <1>3, <2>1, <2>2
<1>15. ASSUME phase \in {"initial", "flush"}, Feishu!Updates(pending.text), seq' = seq + 1,
              Feishu!Flushed(IF pending.terminal THEN "close" ELSE "recv"), UNCHANGED feed
       PROVE  FeedInv' /\ FeishuInv' /\ Reply!Next /\ NumberGrows
  <2>1. /\ content' = pending.text /\ card' = "streaming" /\ accepted' = seq + 1 /\ accepted' \in Nat /\ received' \in Nat
        /\ Visible' \in Visible..written /\ NumberGrows
    BY <1>12, <1>14, <1>15
  <2>2. /\ lastSent' = pending.text /\ pending' = NoChunk /\ window' = TRUE
        /\ phase' = (IF pending.terminal THEN "close" ELSE "recv")
        /\ UNCHANGED <<queue, open, chunks, written, terminal>>
    BY <1>15 DEF Feishu!Flushed, Feishu!NoChunk, NoChunk
  <2>3. FeedInv' /\ pending'.none
    BY <1>14, <1>15, <2>2, SettleKeepsFeed
  <2>4. phase' = "close" => Finished /\ queue' = <<>>
    BY <2>2 DEF FeedInv, Finished
  <2>5. accepted' = seq' /\ seq' \in Nat
    BY <1>15, <2>1
  <2>6. CardFits'
    BY <2>1, <2>2, <2>5 DEF CardFits
  <2>7. /\ phase' \in {"close", "recv"}
        /\ phase' \notin {"create", "publish", "initial", "wait", "flush"}
        /\ phase' # "wait" /\ phase' \notin {"first", "create", "publish", "initial"}
        /\ content' \in Texts /\ content' <= written
        /\ UNCHANGED <<driver, qqVars, written, open, terminal>>
    BY <1>14, <1>15, <2>1, <2>2
  <2>8. FeishuInv' /\ Reply!Next
    BY <1>0, <2>1, <2>3, <2>4, <2>5, <2>6, <2>7, FeishuLive
  <2> QED
    BY <2>1, <2>3, <2>8
<1>16. CASE Feishu!InitialUpdate
  BY <1>0, <1>13, <1>14, <1>15, <1>16 DEF Feishu!InitialUpdate
<1>17. CASE Feishu!Update
  BY <1>0, <1>13, <1>14, <1>15, <1>17 DEF Feishu!Update
<1>18. CASE Feishu!Receive(FALSE) /\ UNCHANGED <<seq, Feishu!platform>>
  <2>1. Receive(FALSE)
    BY Zenon, <1>18, FeishuFeed
  <2>2. FeedInv' /\ ~pending'.none /\ phase' = (IF pending'.terminal THEN "flush" ELSE "wait")
    BY <2>1, ReceiveKeepsFeed
  <2>3. UNCHANGED <<written, open, terminal, lastSent>> /\ phase = "recv"
    BY <2>1 DEF Receive
  <2> QED
    BY <1>0, <1>18, <2>2, <2>3, FeishuLoops DEF Feishu!platform, feishuVars
<1>19. CASE Feishu!WaitReceive /\ UNCHANGED <<seq, Feishu!platform>>
  <2>1. WaitReceive
    BY <1>19, FeishuFeed
  <2>2. FeedInv' /\ ~pending'.none /\ (phase' = "flush" \/ (phase' = "wait" /\ ~pending'.terminal))
    BY <2>1, WaitReceiveKeepsFeed
  <2>3. UNCHANGED <<written, open, terminal, lastSent>> /\ phase = "wait"
    BY <2>1 DEF WaitReceive
  <2> QED
    BY <1>0, <1>19, <2>2, <2>3, FeishuLoops DEF Feishu!platform, feishuVars
<1>20. CASE Feishu!EndWait /\ UNCHANGED <<seq, Feishu!platform>>
  <2>1. EndWait /\ ~pending.none
    BY <1>20, FeishuFeed DEF EndWait, FeishuInv
  <2>2. FeedInv' /\ ~pending'.none /\ phase' = "flush"
    BY <2>1, EndWaitKeepsFeed
  <2>3. UNCHANGED <<written, open, terminal, lastSent>> /\ phase = "wait"
    BY <2>1 DEF EndWait
  <2> QED
    BY <1>0, <1>20, <2>2, <2>3, FeishuLoops DEF Feishu!platform, feishuVars
<1>21. CASE Feishu!Skip /\ UNCHANGED <<seq, Feishu!platform>>
  <2>1. Skip /\ ~pending.none
    BY <1>21, FeishuFeed DEF Skip, FeishuInv
  <2>2. FeedInv' /\ pending'.none /\ lastSent' = lastSent /\ phase' = "recv"
    BY <2>1, SkipKeepsFeed
  <2>3. UNCHANGED <<written, open, terminal>> /\ phase = "flush"
    BY <2>1 DEF Skip
  <2> QED
    BY <1>0, <1>21, <2>2, <2>3, FeishuLoops DEF Feishu!platform, feishuVars
<1>22. CASE Feishu!FinalUpdate
  <2>1. phase = "recv" /\ queue = <<>> /\ Finished /\ card = "streaming" /\ content = lastSent /\ pending.none
    BY <1>22 DEF Feishu!FinalUpdate, Feishu!SenderGone, FeishuInv, Finished
  <2>2. lastSent \in Texts /\ lastSent \in Nat /\ Visible <= lastSent /\ lastSent <= written
    <3>1. Visible = lastSent
      BY <1>2, <2>1
    <3> QED
      BY <1>1, <2>1, <3>1
  <2>3. CASE Feishu!Updates(lastSent) /\ seq' = seq + 1 /\ phase' = "close" /\ UNCHANGED <<feed, pending, lastSent, window>>
    <3>1. /\ content' = lastSent /\ card' = "streaming" /\ accepted' = seq + 1 /\ accepted' \in Nat /\ received' \in Nat
          /\ Visible' \in Visible..written /\ NumberGrows
      BY <1>12, <2>1, <2>2, <2>3
    <3>2. FeedInv' /\ UNCHANGED <<queue, open, chunks, written, terminal, pending, lastSent, window>>
      BY <1>5, <2>3
    <3>3. accepted' = seq' /\ seq' \in Nat
      BY <2>3, <3>1
    <3>4. CardFits'
      BY <2>3, <3>1, <3>2, <3>3 DEF CardFits
    <3>5. FeishuInv' /\ Reply!Next
      BY <1>0, <2>1, <2>2, <2>3, <3>1, <3>2, <3>3, <3>4, FeishuLive
    <3> QED
      BY <1>0, <3>1, <3>2, <3>5
  <2>4. CASE Feishu!FailsAfter(Feishu!Updates(lastSent))
    BY <1>0, <1>13, <2>1, <2>2, <2>4
  <2> QED
    BY <1>0, <1>22, <2>3, <2>4 DEF Feishu!FinalUpdate
<1>23. CASE Feishu!Close
  <2>1. phase = "close" /\ queue = <<>> /\ Finished /\ card = "streaming" /\ content = lastSent /\ pending.none
    BY <1>23 DEF Feishu!Close, FeishuInv
  <2>2. content = written /\ Visible = written
    BY <1>2, <2>1, CurrentIsWritten DEF Current
  <2>3. ASSUME Feishu!Closes
        PROVE  card' = "closed" /\ content' = content /\ accepted' = seq + 1 /\ accepted' \in Nat /\ received' \in Nat /\ NumberGrows
    <3>1. card' = "closed" /\ content' = content /\ accepted' = seq + 1 /\ received' = received + 1
      BY <2>3 DEF Feishu!Closes, Feishu!Numbered
    <3>2. accepted' = s + 1
      BY <1>4, <3>1
    <3>3. accepted' \in Nat /\ received' \in Nat /\ accepted' > accepted
      <4>1. s + 1 \in Nat /\ s + 1 > s /\ accepted = s
        BY <1>1, <1>4
      <4> QED
        BY <1>1, <3>1, <3>2, <4>1
    <3> QED
      BY <3>1, <3>3 DEF NumberGrows
  <2>4. CASE Feishu!Closes /\ seq' = seq + 1 /\ phase' = "ended" /\ UNCHANGED <<feed, pending, lastSent, window>>
    <3>1. card' = "closed" /\ content' = content /\ accepted' = seq + 1 /\ accepted' \in Nat /\ received' \in Nat /\ NumberGrows
      BY <2>3, <2>4
    <3>2. FeedInv' /\ UNCHANGED <<queue, open, chunks, written, terminal, pending, lastSent, window>>
      BY <1>5, <2>4
    <3>3. accepted' = seq' /\ seq' \in Nat
      BY <2>4, <3>1
    <3>4. FeishuInv' /\ Reply!Next
      BY <1>0, <1>1, <2>1, <2>2, <2>4, <3>1, <3>2, <3>3, FeishuEnds
    <3> QED
      BY <1>0, <3>1, <3>2, <3>4
  <2>5. CASE Feishu!FailsAfter(Feishu!Closes)
    <3>1. /\ phase' = "failed" /\ UNCHANGED <<queue, open, chunks, written, terminal, pending, lastSent, window, seq>>
          /\ Feishu!Closes \/ UNCHANGED <<card, content, accepted, received>>
      BY Zenon, <2>5 DEF Feishu!FailsAfter, Feishu!platform
    <3>2. CASE Feishu!Closes
      <4>1. card' = "closed" /\ content' = content /\ accepted' \in Nat /\ received' \in Nat /\ NumberGrows
        BY <2>3, <3>2
      <4>2. Visible' \in Visible..written
        <5>1. Visible' = content
          BY <4>1 DEF Visible
        <5> QED
          BY <1>1, <2>2, <5>1
      <4>3. FeedInv' /\ FeishuInv' /\ Reply!Next
        BY <1>1, <1>8, <2>2, <3>1, <4>1, <4>2
      <4> QED
        BY <1>0, <4>1, <4>3
    <3>3. CASE UNCHANGED <<card, content, accepted, received>>
      BY <1>0, <1>9, <3>1, <3>3
    <3> QED
      BY <3>1, <3>2, <3>3
  <2> QED
    BY <1>23, <2>4, <2>5 DEF Feishu!Close
<1> QED
  BY <1>0, <1>6, <1>7, <1>10, <1>11, <1>16, <1>17, <1>18, <1>19, <1>20, <1>21, <1>22, <1>23 DEF Feishu!Driver

-----------------------------------------------------------------------------
(* ---- OneShotReply, the timer and the caller ---- *)

\* OneShotReply's type invariant, in ReplyDrivers' own terms.
LEMMA OneShotTyped ==
  /\ OneShot!TypeOK <=> FeedTypeOK /\ phase \in {"recv", "flush", "ended", "failed"} /\ shown \in Texts
  /\ OneShot!TypeOK' <=> FeedTypeOK' /\ phase' \in {"recv", "flush", "ended", "failed"} /\ shown' \in Texts
<1> USE DEF OneShot!FeedTypeOK, FeedTypeOK, OneShot!Chunk, Chunk, OneShot!Texts, Texts, OneShot!NoTerminal,
            NoTerminal, OneShot!NoChunk, NoChunk
<1>1. OneShot!TypeOK <=> FeedTypeOK /\ phase \in {"recv", "flush", "ended", "failed"} /\ shown \in Texts
  BY Zenon DEF OneShot!TypeOK
<1>2. OneShot!TypeOK' <=> FeedTypeOK' /\ phase' \in {"recv", "flush", "ended", "failed"} /\ shown' \in Texts
  BY Zenon DEF OneShot!TypeOK
<1> QED
  BY <1>1, <1>2

\* Every step of a driver that collects and sends once keeps the invariant and is one of
\* the promise's.
LEMMA OneShotKeeps ==
  ASSUME driver = "oneshot", FeedInv, OneShotInv, OneShot!Driver,
         UNCHANGED <<driver, flushed, done, posts, feishuVars>>
  PROVE  FeedInv' /\ OneShotInv' /\ ~Over /\ (Reply!Next \/ UNCHANGED Reply!vars)
<1> USE DEF OneShot!feed, feed
<1>0. ~Over
  <2>1. phase \in {"recv", "flush"}
    BY DEF OneShot!Driver, OneShot!Collect, OneShot!HungUp, OneShot!Reply, OneShot!SenderGone
  <2> QED
    BY <2>1 DEF Over
<1>1. /\ NoStream' /\ NoCard' /\ lastSent = 0 /\ shown = 0 /\ shown \in Texts /\ written \in Nat
      /\ Visible = 0 /\ Visible' = shown'
  <2>1. NoStream' /\ NoCard'
    BY DEF OneShotInv, NoStream, NoCard, feishuVars
  <2>2. lastSent = 0 /\ shown = 0 /\ shown \in Texts
    BY <1>0, OneShotTyped DEF OneShotInv
  <2> QED
    BY <2>1, <2>2, QueueFacts DEF Visible
<1>2. CASE OneShot!Collect
  <2>1. /\ phase = "recv" /\ queue # <<>> /\ pending' = Head(queue) /\ queue' = Tail(queue)
        /\ phase' = (IF pending'.terminal THEN "flush" ELSE "recv")
        /\ UNCHANGED <<open, chunks, written, terminal, lastSent, window, shown>>
    BY <1>2 DEF OneShot!Collect
  <2>2. window' \in BOOLEAN
    BY <2>1 DEF FeedInv, FeedTypeOK
  <2>3. FeedInv'
    BY <2>1, <2>2, TakeHeadKeepsFeed
  <2>4. phase' = "flush" => Finished' /\ queue' = <<>>
    BY <2>1, <2>3 DEF FeedInv, Finished
  <2>5. phase' = "recv" => ~pending'.terminal
    BY <2>1
  <2>6. phase' \in {"recv", "flush"} /\ ~Over'
    BY <2>1 DEF Over
  <2>7. OneShot!TypeOK'
    BY <1>1, <2>1, <2>3, <2>6, OneShotTyped DEF FeedInv
  <2>8. OneShotInv'
    BY <1>1, <2>1, <2>4, <2>5, <2>6, <2>7 DEF OneShotInv
  <2>9. UNCHANGED Reply!vars
    BY <1>0, <1>1, <2>1, <2>6, StepStutters
  <2> QED
    BY <1>0, <2>3, <2>8, <2>9
<1>3. ASSUME UNCHANGED <<queue, chunks, written, open, terminal, pending, lastSent, window>>
      PROVE  FeedInv'
  <2>1. open' \in BOOLEAN /\ window' \in BOOLEAN
    BY <1>3 DEF FeedInv, FeedTypeOK
  <2> QED
    BY <1>3, <2>1, StillKeepsFeed
<1>4. CASE OneShot!HungUp
  <2>1. /\ phase = "recv" /\ queue = <<>> /\ ~open /\ phase' = "flush"
        /\ UNCHANGED <<queue, chunks, written, open, terminal, pending, lastSent, window, shown>>
    BY <1>4 DEF OneShot!HungUp, OneShot!SenderGone
  <2>2. FeedInv'
    BY <1>3, <2>1
  <2>3. Finished' /\ queue' = <<>> /\ ~Over'
    BY <2>1 DEF Finished, Over
  <2>4. OneShot!TypeOK'
    BY <1>1, <2>1, <2>2, OneShotTyped DEF FeedInv
  <2>5. OneShotInv'
    BY <1>1, <2>1, <2>3, <2>4 DEF OneShotInv
  <2>6. UNCHANGED Reply!vars
    BY <1>0, <1>1, <2>1, <2>3, StepStutters
  <2> QED
    BY <1>0, <2>2, <2>5, <2>6
<1>5. CASE OneShot!Reply
  <2>1. /\ phase = "flush" /\ UNCHANGED <<queue, chunks, written, open, terminal, pending, lastSent, window>>
        /\ \/ pending.text = 0 /\ phase' = "ended" /\ shown' = shown
           \/ pending.text # 0 /\ phase' = "ended" /\ shown' = pending.text
           \/ pending.text # 0 /\ phase' = "failed" /\ shown' \in {shown, pending.text}
    BY <1>5 DEF OneShot!Reply
  <2>2. FeedInv'
    BY <1>3, <2>1
  <2>3. queue = <<>> /\ Finished
    BY <2>1 DEF OneShotInv
  <2>4. pending.text = written /\ written \in Texts
    <3>1. Current = pending.text
      BY <1>1, QueueFacts DEF Current, NoChunk
    <3> QED
      BY <2>3, <3>1, CurrentIsWritten
  <2>5. shown' \in Texts /\ shown' \in 0..written /\ (phase' = "ended" => shown' = written)
    BY <1>1, <2>1, <2>4
  <2>6. phase' \in {"ended", "failed"} /\ Over' /\ phase' # "recv" /\ phase' # "flush"
    BY <2>1 DEF Over
  <2>7. OneShot!TypeOK'
    BY <2>2, <2>5, <2>6, OneShotTyped DEF FeedInv
  <2>8. shown' <= written'
    BY <1>1, <2>1, <2>5
  <2>9. OneShotInv'
    BY <1>1, <2>1, <2>5, <2>6, <2>7, <2>8 DEF OneShotInv
  <2>10. Reply!Next
    BY <1>0, <1>1, <2>1, <2>3, <2>5, <2>6, StepFails, StepCompletes
  <2> QED
    BY <1>0, <2>2, <2>9, <2>10
<1> QED
  BY <1>2, <1>4, <1>5 DEF OneShot!Driver

\* The window closes by itself.
LEMMA TickKeeps ==
  ASSUME ReplyInv, Tick
  PROVE  ReplyInv' /\ UNCHANGED Reply!vars
<1>1. UNCHANGED <<queue, open, chunks, written, terminal, phase, pending, lastSent, driver, flushed, shown, done, posts>>
      /\ UNCHANGED <<seq, card, content, accepted, received>> /\ window' = FALSE
  BY DEF Tick, Elapse, feed, qqVars, feishuVars
<1>2. FeedInv' /\ Held' = Held
  <2>1. open' \in BOOLEAN /\ window' \in BOOLEAN
    BY <1>1 DEF ReplyInv, FeedInv, FeedTypeOK
  <2> QED
    BY <1>1, <2>1, StillKeepsFeed DEF ReplyInv
<1>3. FeedTypeOK'
  BY <1>2 DEF FeedInv
<1>4. CASE driver = "qq"
  <2>1. Qq!TypeOK'
    BY <1>1, <1>3, <1>4, QqTyped DEF ReplyInv, QqInv
  <2>2. QqInv'
    BY <1>1, <1>2, <1>4, <2>1 DEF ReplyInv, QqInv, NoCard, Over
  <2> QED
    BY <1>1, <1>2, <1>4, <2>2 DEF ReplyInv, Reply!vars, Visible, Finished, NoTerminal, Outcome
<1>5. CASE driver = "feishu"
  <2>1. Feishu!TypeOK'
    BY <1>1, <1>3, <1>5, FeishuTyped DEF ReplyInv, FeishuInv
  <2>2. FeishuInv'
    BY <1>1, <1>2, <1>5, <2>1 DEF ReplyInv, FeishuInv, NoStream, Over, Finished, NoTerminal
  <2> QED
    BY <1>1, <1>2, <1>5, <2>2 DEF ReplyInv, Reply!vars, Visible, Finished, NoTerminal, Outcome
<1>6. CASE driver = "oneshot"
  <2>1. OneShot!TypeOK'
    BY <1>1, <1>3, <1>6, OneShotTyped DEF ReplyInv, OneShotInv
  <2>2. OneShotInv'
    BY <1>1, <1>2, <1>6, <2>1 DEF ReplyInv, OneShotInv, NoStream, NoCard, Over, Finished, NoTerminal
  <2> QED
    BY <1>1, <1>2, <1>6, <2>2 DEF ReplyInv, Reply!vars, Visible, Finished, NoTerminal, Outcome
<1> QED
  BY <1>4, <1>5, <1>6 DEF ReplyInv

\* Every phase before the end allows the caller to go on; what it does touches the feed only.
LEMMA CallerKeeps ==
  ASSUME ReplyInv, Caller
  PROVE  ReplyInv'
<1>1. /\ UNCHANGED <<phase, pending, lastSent, window, driver, flushed, shown, done, posts, seq, card, content, accepted, received>>
      /\ ~Over /\ ~Over' /\ open
  BY DEF Caller, Produce, DropSender, loop, qqVars, feishuVars, Over
<1>2. /\ FeedInv' /\ written <= written' /\ (Finished => Finished')
      /\ \/ Held' = Held + 1 /\ chunks' = chunks + 1 /\ ~Finished
         \/ Held' = Held /\ chunks' = chunks /\ queue' = queue
  <2>1. CASE Produce
    <3>1. FeedInv' /\ Held' = Held + 1 /\ chunks' = chunks + 1 /\ written <= written'
      BY <2>1, ProduceKeepsFeed DEF ReplyInv
    <3>2. ~Finished
      BY <2>1 DEF Produce, Finished
    <3> QED
      BY <3>1, <3>2
  <2>2. CASE DropSender
    <3>1. /\ open' = FALSE /\ open' \in BOOLEAN
          /\ UNCHANGED <<queue, chunks, written, terminal, pending, lastSent, window>>
      BY <2>2 DEF DropSender, loop
    <3>2. window' \in BOOLEAN
      BY <3>1 DEF ReplyInv, FeedInv, FeedTypeOK
    <3>3. FeedInv' /\ Held' = Held
      BY <3>1, <3>2, StillKeepsFeed DEF ReplyInv
    <3>4. written <= written'
      BY <3>1, QueueFacts DEF ReplyInv
    <3> QED
      BY <3>1, <3>3, <3>4 DEF Finished
  <2> QED
    BY <2>1, <2>2 DEF Caller
<1>3. FeedTypeOK'
  BY <1>2 DEF FeedInv
<1>4. ASSUME NEW x \in Texts, x <= written PROVE x <= written'
  <2>1. PICK w \in Nat : w = written'
    BY <1>2, PrimedFacts
  <2>2. x \in Nat /\ written \in Nat /\ written <= w
    BY <1>2, <2>1, QueueFacts DEF ReplyInv
  <2> QED
    BY <1>4, <2>1, <2>2
<1>5. phase' # "ended" /\ phase' # "failed"
  BY <1>1 DEF Over
<1>6. CASE driver = "qq"
  <2>1. Qq!TypeOK'
    BY <1>1, <1>3, <1>6, QqTyped DEF ReplyInv, QqInv
  <2>2. posts' + Held' <= chunks'
    <3>1. PICK p \in Nat : p = posts
      BY <1>6, QqTyped DEF ReplyInv, QqInv
    <3>2. PICK h \in Nat : h = Held
      BY CurrentIsWritten DEF ReplyInv
    <3>3. PICK c \in Nat : c = chunks
      BY CurrentIsWritten DEF ReplyInv
    <3>4. p + h <= c
      BY <1>1, <1>6, <3>1, <3>2, <3>3 DEF ReplyInv, QqInv
    <3>5. p + h <= c /\ p + (h + 1) <= c + 1
      BY <3>4
    <3>6. posts' = p /\ ((Held' = h + 1 /\ chunks' = c + 1) \/ (Held' = h /\ chunks' = c))
      BY <1>1, <1>2, <3>1, <3>2, <3>3
    <3> QED
      BY <3>5, <3>6
  <2>3. shown' <= written'
    BY <1>1, <1>4, <1>6, QqTyped DEF ReplyInv, QqInv
  <2>4. QqInv'
    BY <1>1, <1>5, <1>6, <2>1, <2>2, <2>3 DEF ReplyInv, QqInv, NoCard
  <2> QED
    BY <1>1, <1>2, <1>6, <2>4 DEF ReplyInv
<1>7. CASE driver = "feishu"
  <2>1. Feishu!TypeOK'
    BY <1>1, <1>3, <1>7, FeishuTyped DEF ReplyInv, FeishuInv
  <2>2. content' <= written'
    BY <1>1, <1>4, <1>7, FeishuTyped DEF ReplyInv, FeishuInv
  <2>3. phase' = "close" => Finished' /\ queue' = <<>>
    BY <1>1, <1>2, <1>7 DEF ReplyInv, FeishuInv
  <2>4. card' # "closed"
    BY <1>1, <1>7 DEF ReplyInv, FeishuInv
  <2>5. FeishuInv'
    BY <1>1, <1>5, <1>7, <2>1, <2>2, <2>3, <2>4 DEF ReplyInv, FeishuInv, NoStream
  <2> QED
    BY <1>1, <1>2, <1>7, <2>5 DEF ReplyInv
<1>8. CASE driver = "oneshot"
  <2>1. OneShot!TypeOK'
    BY <1>1, <1>3, <1>8, OneShotTyped DEF ReplyInv, OneShotInv
  <2>2. shown' <= written'
    BY <1>1, <1>4, <1>8, OneShotTyped DEF ReplyInv, OneShotInv
  <2>3. phase' = "flush" => Finished' /\ queue' = <<>>
    BY <1>1, <1>2, <1>8 DEF ReplyInv, OneShotInv
  <2>4. OneShotInv'
    BY <1>1, <1>5, <1>8, <2>1, <2>2, <2>3 DEF ReplyInv, OneShotInv, NoStream, NoCard
  <2> QED
    BY <1>1, <1>2, <1>8, <2>4 DEF ReplyInv
<1> QED
  BY <1>6, <1>7, <1>8 DEF ReplyInv

-----------------------------------------------------------------------------
\* A chunk, and the drop of the sender, is a Write of the promise, or a stutter when the
\* caller had already sent its terminal chunk.
LEMMA CallerWrites ==
  ASSUME ReplyInv, Caller
  PROVE  Reply!Next \/ UNCHANGED Reply!vars
<1>1. /\ UNCHANGED <<phase, driver, shown, card, content>> /\ open
  BY DEF Caller, Produce, DropSender, loop, qqVars, feishuVars
<1>2. Visible' = Visible
  BY <1>1 DEF Visible
<1>3. Outcome' = Outcome
  BY <1>1 DEF Outcome
<1>4. Finished \in BOOLEAN /\ Finished' \in BOOLEAN
  <2>1. open \in BOOLEAN /\ open' \in BOOLEAN
    BY <1>1, CallerKeeps DEF ReplyInv, FeedInv, FeedTypeOK
  <2> QED
    BY <2>1 DEF Finished
<1>5. CASE Produce
  <2>1. ~Finished /\ written' \in written..MaxText
    BY <1>5 DEF Produce, Finished
  <2> QED
    BY <1>2, <1>3, <1>4, <2>1 DEF Reply!Next, Reply!Write
<1>6. CASE DropSender
  <2>1. UNCHANGED <<written, terminal>> /\ ~open' /\ Finished'
    BY <1>6 DEF DropSender, Finished
  <2>2. CASE Finished
    BY <1>2, <1>3, <1>4, <2>1, <2>2 DEF Reply!vars
  <2>3. CASE ~Finished
    <3>1. written \in written..MaxText
      <4>1. written \in Nat /\ written <= MaxText /\ MaxText \in Nat
        BY CurrentIsWritten, QueueFacts DEF ReplyInv, Texts
      <4> QED
        BY <4>1
    <3> QED
      BY <1>2, <1>3, <1>4, <2>1, <2>3, <3>1 DEF Reply!Next, Reply!Write
  <2> QED
    BY <2>2, <2>3
<1> QED
  BY <1>5, <1>6 DEF Caller

\* A reply begins with nothing written and nothing shown.
LEMMA InitHolds ==
  ASSUME Init
  PROVE  ReplyInv /\ Reply!Init
<1> USE DEF Qq!FeedInit, Feishu!FeedInit, OneShot!FeedInit, Qq!NoChunk, Feishu!NoChunk, OneShot!NoChunk,
            NoChunk, Qq!NoTerminal, Feishu!NoTerminal, OneShot!NoTerminal, NoTerminal
<1>1. /\ driver \in {"qq", "feishu", "oneshot"}
      /\ queue = <<>> /\ open = TRUE /\ chunks = 0 /\ written = 0 /\ terminal = NoTerminal
      /\ pending = NoChunk /\ lastSent = 0 /\ window = FALSE /\ shown = 0
      /\ NoStream \/ (driver = "qq" /\ flushed = FALSE /\ done = FALSE /\ posts = 0)
      /\ NoCard \/ (driver = "feishu" /\ seq = 0 /\ card = "none" /\ content = 0 /\ accepted = 0 /\ received = 0)
      /\ phase = (IF driver = "feishu" THEN "first" ELSE "recv")
  BY DEF Init, Qq!Init, Feishu!Init, OneShot!Init
<1>2. 0 \in Texts /\ 0 \in 0..MaxChunks /\ 0 \in 0..MaxChunks + 1
  BY FeedConstants DEF Texts
<1>3. FeedTypeOK
  <2>1. queue \in Seq(Chunk) /\ Len(queue) <= Capacity
    BY <1>1, FeedConstants
  <2> QED
    BY <1>1, <1>2, <2>1 DEF FeedTypeOK
<1>4. pending.none /\ ~pending.terminal /\ Current = 0 /\ Held = 0
  BY <1>1 DEF Current, Held
<1>5. FeedInv
  BY <1>1, <1>3, <1>4 DEF FeedInv
<1>6. ~Over /\ phase \notin {"wait", "flush", "ended", "failed", "close"}
  BY <1>1 DEF Over
<1>7. flushed = FALSE /\ done = FALSE /\ posts = 0 /\ NoStream /\ NoCard
  BY <1>1 DEF NoStream, NoCard
<1>8. Reply!Init
  <2>1. Visible = 0
    BY <1>1, <1>7 DEF Visible, NoCard
  <2>2. Finished = FALSE
    BY <1>1 DEF Finished
  <2>3. Outcome = "live"
    BY <1>6, OutcomeOfPhase
  <2> QED
    BY <1>1, <2>1, <2>2, <2>3 DEF Reply!Init
<1>9. CASE driver = "qq"
  <2>1. Qq!TypeOK
    BY <1>1, <1>2, <1>3, <1>7, <1>9, QqTyped
  <2>2. QqInv
    BY <1>1, <1>4, <1>6, <1>7, <1>9, <2>1 DEF QqInv
  <2> QED
    BY <1>1, <1>5, <1>8, <1>9, <2>2 DEF ReplyInv
<1>10. CASE driver = "feishu"
  <2>1. seq = 0 /\ card = "none" /\ content = 0 /\ accepted = 0 /\ received = 0
    BY <1>7 DEF NoCard
  <2>2. Feishu!TypeOK
    BY <1>1, <1>2, <1>3, <1>10, <2>1, FeishuTyped
  <2>3. FeishuInv
    BY <1>1, <1>4, <1>6, <1>7, <1>10, <2>1, <2>2 DEF FeishuInv
  <2> QED
    BY <1>1, <1>5, <1>8, <1>10, <2>3 DEF ReplyInv
<1>11. CASE driver = "oneshot"
  <2>1. OneShot!TypeOK
    BY <1>1, <1>2, <1>3, <1>11, OneShotTyped
  <2>2. OneShotInv
    BY <1>1, <1>4, <1>6, <1>7, <1>11, <2>1 DEF OneShotInv
  <2> QED
    BY <1>1, <1>5, <1>8, <1>11, <2>2 DEF ReplyInv
<1> QED
  BY <1>1, <1>9, <1>10, <1>11

\* A stuttering step.
LEMMA StillKeeps ==
  ASSUME ReplyInv, UNCHANGED vars
  PROVE  ReplyInv' /\ UNCHANGED Reply!vars
<1>1. /\ UNCHANGED <<queue, open, chunks, written, terminal, phase, pending, lastSent, window>>
      /\ UNCHANGED <<driver, flushed, shown, done, posts, seq, card, content, accepted, received>>
  BY DEF vars, feed, loop, qqVars, feishuVars
<1>2. UNCHANGED Reply!vars
  BY <1>1 DEF Reply!vars, Visible, Finished, NoTerminal, Outcome
<1>3. FeedInv'
  <2>1. open' \in BOOLEAN /\ window' \in BOOLEAN
    BY <1>1 DEF ReplyInv, FeedInv, FeedTypeOK
  <2> QED
    BY <1>1, <2>1, StillKeepsFeed DEF ReplyInv
<1>4. FeedTypeOK' /\ Held' = Held /\ Over' = Over /\ Finished' = Finished
  BY <1>1, <1>3 DEF FeedInv, Held, Over, Finished, NoTerminal
<1>5. driver = "qq" => QqInv'
  <2>1. driver = "qq" => Qq!TypeOK'
    BY <1>1, <1>4, QqTyped DEF ReplyInv, QqInv
  <2> QED
    BY <1>1, <1>4, <2>1 DEF ReplyInv, QqInv, NoCard
<1>6. driver = "feishu" => FeishuInv'
  <2>1. driver = "feishu" => Feishu!TypeOK'
    BY <1>1, <1>4, FeishuTyped DEF ReplyInv, FeishuInv
  <2> QED
    BY <1>1, <1>4, <2>1 DEF ReplyInv, FeishuInv, NoStream
<1>7. driver = "oneshot" => OneShotInv'
  <2>1. driver = "oneshot" => OneShot!TypeOK'
    BY <1>1, <1>4, OneShotTyped DEF ReplyInv, OneShotInv
  <2> QED
    BY <1>1, <1>4, <2>1 DEF ReplyInv, OneShotInv, NoStream, NoCard
<1> QED
  BY <1>1, <1>2, <1>3, <1>5, <1>6, <1>7 DEF ReplyInv

\* The driver's steps together.
LEMMA StepKeeps ==
  ASSUME ReplyInv, Step
  PROVE  /\ ReplyInv' /\ ~Over /\ (Reply!Next \/ UNCHANGED Reply!vars)
         /\ driver = "feishu" => NumberGrows /\ posts' = posts
         /\ driver # "feishu" => UNCHANGED feishuVars /\ card = "none"
         /\ driver = "oneshot" => posts' = posts
<1>1. CASE driver = "qq" /\ Qq!Driver /\ UNCHANGED <<driver, feishuVars>>
  <2>1. FeedInv' /\ QqInv' /\ ~Over /\ (Reply!Next \/ UNCHANGED Reply!vars)
    BY <1>1, QqKeeps DEF ReplyInv
  <2> QED
    BY <1>1, <2>1 DEF ReplyInv, QqInv, NoCard
<1>2. CASE driver = "feishu" /\ Feishu!Driver /\ UNCHANGED <<driver, qqVars>>
  <2>1. FeedInv' /\ FeishuInv' /\ ~Over /\ Reply!Next /\ NumberGrows
    BY <1>2, FeishuKeeps DEF ReplyInv
  <2> QED
    BY <1>2, <2>1 DEF ReplyInv, qqVars
<1>3. CASE driver = "oneshot" /\ OneShot!Driver /\ UNCHANGED <<driver, flushed, done, posts, feishuVars>>
  <2>1. FeedInv' /\ OneShotInv' /\ ~Over /\ (Reply!Next \/ UNCHANGED Reply!vars)
    BY <1>3, OneShotKeeps DEF ReplyInv
  <2> QED
    BY <1>3, <2>1 DEF ReplyInv, OneShotInv, NoCard
<1> QED
  BY <1>1, <1>2, <1>3 DEF Step

\* The inductive invariant holds throughout.
LEMMA ReplyInvariant == Spec => []ReplyInv
<1>1. Init => ReplyInv
  BY InitHolds
<1>2. ReplyInv /\ [Next]_vars => ReplyInv'
  BY StepKeeps, TickKeeps, CallerKeeps, StillKeeps DEF Next
<1> QED
  BY <1>1, <1>2, PTL DEF Spec

\* The type invariant: the loop's and the platform's variables keep their kinds, texts are
\* never longer than the answer and QQ receives at most one request more than there are chunks.
THEOREM ReplyTypeCorrect == Spec => []TypeOK
<1>1. ReplyInv => TypeOK
  BY DEF ReplyInv, TypeOK, QqInv, FeishuInv, OneShotInv
<1> QED
  BY <1>1, ReplyInvariant, PTL

\* A reply that ended well shows all that was written, and is closed if it sent anything,
\* for every interleaving of chunks, windows, coalescing and the drop of the sender
\* (reply_to_user_streaming of qq_bot.rs, feishu_bot.rs and inbound.rs).
THEOREM ReplyEndsWhole == Spec => []EndsComplete
<1>1. ReplyInv => EndsComplete
  <2> SUFFICES ASSUME ReplyInv, phase = "ended"
               PROVE  Visible = written /\ (Closed \/ (Visible = 0 /\ card = "none"))
    BY DEF EndsComplete
  <2>1. CASE driver = "qq"
    BY <2>1 DEF ReplyInv, QqInv, Visible, Closed, NoCard
  <2>2. CASE driver = "feishu"
    BY <2>2 DEF ReplyInv, FeishuInv, Visible, Closed
  <2>3. CASE driver = "oneshot"
    BY <2>3 DEF ReplyInv, OneShotInv, Visible, Closed
  <2> QED
    BY <2>1, <2>2, <2>3 DEF ReplyInv
<1> QED
  BY <1>1, ReplyInvariant, PTL

\* Nothing is sent to the platform once it was told that the stream is over: neither by the
\* steps of the loop nor after a failure (qq_bot.rs and feishu_bot.rs).
THEOREM SilentOnceClosed == Spec => QuietAfterClose
<1>1. ReplyInv /\ [Next]_vars
        => [(done => posts' = posts) /\ (card = "closed" => UNCHANGED feishuVars)]_<<posts, feishuVars>>
  <2> SUFFICES ASSUME ReplyInv, [Next]_vars
               PROVE  (done => posts' = posts) /\ (card = "closed" => UNCHANGED feishuVars)
    OBVIOUS
  <2>1. ~Over => (driver = "qq" => ~done) /\ (driver = "feishu" => card # "closed")
    BY DEF ReplyInv, QqInv, FeishuInv
  <2>2. CASE Step
    BY <2>1, <2>2, StepKeeps DEF ReplyInv
  <2>3. CASE ~Step
    BY <2>3 DEF Next, Tick, Caller, vars, qqVars
  <2> QED
    BY <2>2, <2>3
<1> QED
  BY <1>1, ReplyInvariant, PTL DEF Spec, QuietAfterClose

\* Each numbered request that reaches Feishu, whether it changes the card or not and whether
\* it is answered or not, has a higher sequence number than all before it (feishu_bot.rs last_seq).
THEOREM CardNumbersGrow == Spec => SequenceGrows
<1>1. ReplyInv /\ [Next]_vars
        => [received' # received => accepted' > accepted]_feishuVars
  <2> SUFFICES ASSUME ReplyInv, [Next]_vars, ~UNCHANGED feishuVars PROVE NumberGrows
    BY DEF NumberGrows
  <2>1. Step
    BY DEF Next, Tick, Caller, vars
  <2> QED
    BY <2>1, StepKeeps
<1> QED
  BY <1>1, ReplyInvariant, PTL DEF Spec, SequenceGrows

\* The reply implements StreamedReply: it starts as the promise does, and each step writes,
\* shows more of what was written, completes with all of it or fails, or changes nothing
\* the promise speaks of.
THEOREM RefinesPromise == Spec => Reply!Init /\ [][Reply!Next]_(Reply!vars)
<1>1. Init => Reply!Init
  BY InitHolds
<1>2. ReplyInv /\ [Next]_vars => [Reply!Next]_(Reply!vars)
  BY StepKeeps, TickKeeps, CallerWrites, StillKeeps DEF Next
<1> QED
  BY <1>1, <1>2, ReplyInvariant, PTL DEF Spec
=============================================================================
