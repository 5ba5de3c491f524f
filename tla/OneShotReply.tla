---------------------------- MODULE OneShotReply ----------------------------
(***************************************************************************)
(* Streaming on a channel that cannot stream: the default of               *)
(* InboundDriver::reply_to_user_streaming in src/src/inbound.rs and        *)
(* QqBotDriver::drain_stream_as_oneshot read the channel to its end and    *)
(* send the last text with one reply_to_user.                              *)
(***************************************************************************)
EXTENDS ChunkFeed

VARIABLE shown  \* the text of the message the user received

Init ==
  /\ FeedInit
  /\ phase = "recv"
  /\ pending = NoChunk
  /\ lastSent = 0
  /\ window = FALSE
  /\ shown = 0

Collect ==
  /\ phase = "recv"
  /\ queue # <<>>
  /\ pending' = Head(queue)
  /\ queue' = Tail(queue)
  /\ phase' = IF Head(queue).terminal THEN "flush" ELSE "recv"
  /\ UNCHANGED <<open, chunks, written, terminal, lastSent, window, shown>>

\* Mutant: only a terminal chunk ends the loop.
HungUp_Waits ==
  /\ SenderGone
  /\ terminal # NoTerminal
  /\ phase' = "flush"
  /\ UNCHANGED <<feed, pending, lastSent, window, shown>>

HungUp ==
  /\ SenderGone
  /\ phase' = "flush"
  /\ UNCHANGED <<feed, pending, lastSent, window, shown>>

\* An empty answer is not sent. The request may fail, carried out or not.
Reply ==
  /\ phase = "flush"
  /\ \/ pending.text = 0 /\ phase' = "ended" /\ UNCHANGED shown
     \/ pending.text # 0 /\ phase' = "ended" /\ shown' = pending.text
     \/ pending.text # 0 /\ phase' = "failed" /\ shown' \in {shown, pending.text}
  /\ UNCHANGED <<feed, pending, lastSent, window>>

Driver == Collect \/ HungUp \/ Reply

TypeOK ==
  /\ FeedTypeOK
  /\ phase \in {"recv", "flush", "ended", "failed"}
  /\ shown \in Texts
=============================================================================
