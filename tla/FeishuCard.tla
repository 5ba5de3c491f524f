----------------------------- MODULE FeishuCard -----------------------------
(***************************************************************************)
(* FeishuBotDriver::reply_to_user_streaming in src/src/driver/             *)
(* feishu_bot.rs: the reply is a card in streaming mode. The first chunk   *)
(* creates and publishes it, a chunk loop updates its content, and a last  *)
(* request turns streaming mode off. Every request carries the next number *)
(* of a sequence that Feishu requires to increase; any failed request ends *)
(* the reply where it is.                                                  *)
(***************************************************************************)
EXTENDS ChunkFeed

VARIABLES
  seq,       \* last_seq
  card,      \* the card at Feishu: "none", "hidden" (created, not published),
             \* "streaming" or "closed"
  content,   \* the text of the card's element
  accepted,  \* the sequence number Feishu received last for the card
  received   \* history: how many numbered requests Feishu received for the card

platform == <<card, content, accepted, received>>

Init ==
  /\ FeedInit
  /\ phase = "first"
  /\ pending = NoChunk
  /\ lastSent = 0
  /\ window = FALSE
  /\ seq = 0
  /\ card = "none"
  /\ content = 0
  /\ accepted = 0
  /\ received = 0

(* ---- requests: what reaches Feishu ---- *)

\* A request about the card's contents or settings carries a sequence number.
Numbered(n) ==
  /\ accepted' = n
  /\ received' = received + 1

Creates(text) == card' = "hidden" /\ content' = text /\ UNCHANGED <<accepted, received>>

Publishes == card' = "streaming" /\ UNCHANGED <<content, accepted, received>>

Updates(text) ==
  /\ content' = text
  /\ Numbered(seq + 1)
  /\ UNCHANGED card

Closes ==
  /\ card' = "closed"
  /\ Numbered(seq + 1)
  /\ UNCHANGED content

\* The `?` on a request, carried out or not.
FailsAfter(request) ==
  /\ request \/ UNCHANGED platform
  /\ phase' = "failed"
  /\ UNCHANGED <<feed, pending, lastSent, window, seq>>

(* ---- reply_to_user_streaming: up to the first update ---- *)

\* rx.recv() before there is a card; it takes one chunk and coalesces nothing.
First ==
  /\ phase = "first"
  /\ queue # <<>>
  /\ pending' = Head(queue)
  /\ queue' = Tail(queue)
  /\ phase' = "create"
  /\ UNCHANGED <<open, chunks, written, terminal, lastSent, window, seq, platform>>

NoReply ==
  /\ phase = "first"
  /\ queue = <<>>
  /\ ~open
  /\ phase' = "ended"
  /\ UNCHANGED <<feed, pending, lastSent, window, seq, platform>>

CreateCard ==
  /\ phase = "create"
  /\ \/ /\ Creates(pending.text)
        /\ phase' = "publish"
        /\ UNCHANGED <<feed, pending, lastSent, window, seq>>
     \/ FailsAfter(Creates(pending.text))

PostCard ==
  /\ phase = "publish"
  /\ \/ /\ Publishes
        /\ phase' = "initial"
        /\ UNCHANGED <<feed, pending, lastSent, window, seq>>
     \/ FailsAfter(Publishes)

\* "Always flush initial content"; then stream_card_updates starts its first
\* window, unless the first chunk was the last one.
InitialUpdate ==
  /\ phase = "initial"
  /\ \/ /\ Updates(pending.text)
        /\ seq' = seq + 1
        /\ Flushed(IF pending.terminal THEN "close" ELSE "recv")
        /\ UNCHANGED feed
     \/ FailsAfter(Updates(pending.text))

(* ---- stream_card_updates ---- *)

Update ==
  /\ phase = "flush"
  /\ ~Duplicate
  /\ \/ /\ Updates(pending.text)
        /\ seq' = seq + 1
        /\ Flushed(IF pending.terminal THEN "close" ELSE "recv")
        /\ UNCHANGED feed
     \/ FailsAfter(Updates(pending.text))

\* Mutant: the last update, of the text that is shown already, goes out under the
\* number of the one before it.
FinalUpdate_SameNumber ==
  /\ SenderGone
  /\ \/ /\ content' = lastSent /\ Numbered(seq) /\ UNCHANGED card
        /\ phase' = "close"
        /\ UNCHANGED <<feed, pending, lastSent, window, seq>>
     \/ FailsAfter(Updates(lastSent))

FinalUpdate ==
  /\ SenderGone
  /\ \/ /\ Updates(lastSent)
        /\ seq' = seq + 1
        /\ phase' = "close"
        /\ UNCHANGED <<feed, pending, lastSent, window>>
     \/ FailsAfter(Updates(lastSent))

\* Mutant: the loop goes on after the card is closed.
Close_GoesOn ==
  /\ phase = "close"
  /\ \/ /\ Closes
        /\ seq' = seq + 1
        /\ phase' = IF terminal = NoTerminal THEN "ended" ELSE "recv"
        /\ UNCHANGED <<feed, pending, lastSent, window>>
     \/ FailsAfter(Closes)

Close ==
  /\ phase = "close"
  /\ \/ /\ Closes
        /\ seq' = seq + 1
        /\ phase' = "ended"
        /\ UNCHANGED <<feed, pending, lastSent, window>>
     \/ FailsAfter(Closes)

Driver ==
  \/ First \/ NoReply \/ CreateCard \/ PostCard \/ InitialUpdate
  \/ Receive(FALSE) /\ UNCHANGED <<seq, platform>>
  \/ WaitReceive /\ UNCHANGED <<seq, platform>>
  \/ EndWait /\ UNCHANGED <<seq, platform>>
  \/ Skip /\ UNCHANGED <<seq, platform>>
  \/ Update \/ FinalUpdate \/ Close

TypeOK ==
  /\ FeedTypeOK
  /\ phase \in {"first", "create", "publish", "initial", "recv", "wait", "flush",
                "close", "ended", "failed"}
  /\ seq \in Nat
  /\ card \in {"none", "hidden", "streaming", "closed"}
  /\ content \in Texts
  /\ accepted \in Nat
  /\ received \in Nat
=============================================================================
