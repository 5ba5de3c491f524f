------------------------------ MODULE ChunkFeed ------------------------------
(***************************************************************************)
(* The receiving half that the QQ and the Feishu driver share: a bounded   *)
(* channel of StreamReplyChunk values and the loop that coalesces them and *)
(* waits out a throttle window before it flushes (reply_to_user_streaming  *)
(* in src/src/driver/qq_bot.rs, stream_card_updates in feishu_bot.rs).     *)
(* QqReply and FeishuCard add what a flush sends; OneShotReply is the       *)
(* fallback that only collects the last chunk.                             *)
(*                                                                         *)
(* The loop runs from one await to the next in one step; the caller's task *)
(* runs between any two steps.                                             *)
(***************************************************************************)
EXTENDS Naturals, Sequences, SequencesExt

CONSTANTS
  MaxText,    \* texts are the prefixes 0..MaxText of the answer, 0 is empty
  Capacity,   \* of the channel
  MaxChunks   \* bound: chunks the caller sends

ASSUME FeedConstants ==
  /\ MaxText \in Nat
  /\ Capacity \in Nat \ {0}
  /\ MaxChunks \in Nat

NoChunk == [text |-> 0, terminal |-> FALSE, none |-> TRUE]
NoTerminal == MaxText + 1

VARIABLES
  queue,     \* chunks in the channel
  open,      \* the sender is alive
  chunks,    \* how many chunks were sent (the bound only)
  written,   \* the text of the newest chunk
  terminal,  \* history: the text of the terminal chunk
  phase,     \* where the loop is
  pending,   \* the chunk to flush next
  lastSent,  \* last_sent
  window     \* last_flush_at + THROTTLE (or the first target) is ahead

feed == <<queue, open, chunks, written, terminal>>
loop == <<phase, pending, lastSent, window>>

Texts == 0..MaxText
Chunk == [text : Texts, terminal : BOOLEAN, none : {FALSE}]

FeedInit ==
  /\ queue = <<>>
  /\ open = TRUE
  /\ chunks = 0
  /\ written = 0
  /\ terminal = NoTerminal

FeedTypeOK ==
  /\ queue \in Seq(Chunk) /\ Len(queue) <= Capacity
  /\ open \in BOOLEAN
  /\ chunks \in 0..MaxChunks
  /\ written \in Texts
  /\ terminal \in Texts \cup {NoTerminal}
  /\ pending \in Chunk \cup {NoChunk}
  /\ lastSent \in Texts
  /\ window \in BOOLEAN

Over == phase \in {"ended", "failed"}
Finished == ~open \/ terminal # NoTerminal

\* StreamedReply's outcome.
Outcome == IF phase = "ended" THEN "complete" ELSE IF phase = "failed" THEN "failed" ELSE "live"

(* ---- the caller ---- *)

\* The text is accumulated, so it never shrinks; a full channel makes the caller
\* wait; the terminal chunk is "the final chunk", so the caller sends no other.
\* Mutant: the channel has no bound.
Produce_Unbounded ==
  /\ open
  /\ ~Over
  /\ chunks < MaxChunks
  /\ terminal = NoTerminal
  /\ \E t \in written..MaxText, last \in BOOLEAN :
       /\ queue' = Append(queue, [text |-> t, terminal |-> last, none |-> FALSE])
       /\ written' = t
       /\ terminal' = IF last THEN t ELSE terminal
  /\ chunks' = chunks + 1
  /\ UNCHANGED <<open, loop>>

Produce ==
  /\ open
  /\ ~Over
  /\ Len(queue) < Capacity
  /\ chunks < MaxChunks
  /\ terminal = NoTerminal
  /\ \E t \in written..MaxText, last \in BOOLEAN :
       /\ queue' = Append(queue, [text |-> t, terminal |-> last, none |-> FALSE])
       /\ written' = t
       /\ terminal' = IF last THEN t ELSE terminal
  /\ chunks' = chunks + 1
  /\ UNCHANGED <<open, loop>>

DropSender ==
  /\ open
  /\ ~Over
  /\ open' = FALSE
  /\ UNCHANGED <<queue, chunks, written, terminal, loop>>

(* ---- the loop ---- *)

Newest(chunk, waiting) == IF waiting = <<>> THEN chunk ELSE Last(waiting)

Receive(first) ==
  /\ phase = "recv"
  /\ queue # <<>>
  /\ pending' = Newest(NoChunk, queue)
  /\ queue' = <<>>
  /\ phase' = IF pending'.terminal THEN "flush" ELSE "wait"
  /\ window' = IF first /\ ~pending'.terminal THEN TRUE ELSE window
  /\ UNCHANGED <<lastSent, open, chunks, written, terminal>>

\* A chunk arrives during the wait. A terminal one ends it, but the drain after
\* the wait still takes what was sent behind it.
WaitReceive ==
  /\ phase = "wait"
  /\ window
  /\ queue # <<>>
  /\ IF Head(queue).terminal
       THEN /\ pending' = Newest(Head(queue), Tail(queue))
            /\ queue' = <<>>
            /\ phase' = "flush"
       ELSE /\ pending' = Head(queue)
            /\ queue' = Tail(queue)
            /\ phase' = phase
  /\ UNCHANGED <<lastSent, window, open, chunks, written, terminal>>

\* The window is over, or the sender is gone; then the final drain.
EndWait ==
  /\ phase = "wait"
  /\ ~window \/ (~open /\ queue = <<>>)
  /\ pending' = Newest(pending, queue)
  /\ queue' = <<>>
  /\ phase' = "flush"
  /\ UNCHANGED <<lastSent, window, open, chunks, written, terminal>>

\* Half a second passes. No request is under way: steps of the loop that await
\* one let the clock run before or after it.
Elapse ==
  /\ window
  /\ window' = FALSE
  /\ UNCHANGED <<feed, phase, pending, lastSent>>

\* send_text == last_sent && !is_terminal
Duplicate == pending.text = lastSent /\ ~pending.terminal

Skip ==
  /\ phase = "flush"
  /\ Duplicate
  /\ pending' = NoChunk
  /\ phase' = "recv"
  /\ UNCHANGED <<feed, lastSent, window>>

\* What the loop remembers of a flush that was answered.
Flushed(next) ==
  /\ lastSent' = pending.text
  /\ pending' = NoChunk
  /\ window' = TRUE
  /\ phase' = next

SenderGone == phase = "recv" /\ queue = <<>> /\ ~open
=============================================================================
