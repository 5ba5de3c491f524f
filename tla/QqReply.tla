------------------------------- MODULE QqReply -------------------------------
(***************************************************************************)
(* QqBotDriver::reply_to_user_streaming for a C2C chat: a chunk loop whose *)
(* flush is one POST to stream_messages. The table of sessions behind that *)
(* POST is QqStream's; here a POST succeeds, fails, or is carried out with *)
(* its answer lost.                                                        *)
(***************************************************************************)
EXTENDS ChunkFeed

VARIABLES
  flushed,  \* flushed_any
  shown,    \* the text in the user's bubble
  done,     \* the platform received input_state 10
  posts     \* history: how many requests the platform received

platform == <<shown, done, posts>>

Init ==
  /\ FeedInit
  /\ phase = "recv"
  /\ pending = NoChunk
  /\ lastSent = 0
  /\ window = FALSE
  /\ flushed = FALSE
  /\ shown = 0
  /\ done = FALSE
  /\ posts = 0

\* A request with input_state Generating or Done reaches the platform.
Delivered(text, isDone) ==
  /\ shown' = text
  /\ done' = (done \/ isDone)
  /\ posts' = posts + 1

\* The `?` on a request returns from the reply; nothing else is sent.
Fails(text, isDone) ==
  /\ Delivered(text, isDone) \/ UNCHANGED platform
  /\ phase' = "failed"
  /\ UNCHANGED <<feed, pending, lastSent, window, flushed>>

PostAnswered ==
  /\ phase = "flush"
  /\ ~Duplicate
  /\ Delivered(pending.text, pending.terminal)
  /\ Flushed(IF pending.terminal THEN "ended" ELSE "recv")
  /\ flushed' = TRUE
  /\ UNCHANGED feed

PostFails ==
  /\ phase = "flush"
  /\ ~Duplicate
  /\ Fails(pending.text, pending.terminal)

\* Mutant: the stream is left open.
CloseOut_Forgotten ==
  /\ SenderGone
  /\ phase' = "ended"
  /\ UNCHANGED <<feed, pending, lastSent, window, flushed, platform>>

\* The sender was dropped without a terminal chunk: close with what was sent
\* last. `pending` is always empty here, so the code's other branch is dead.
CloseOut ==
  /\ SenderGone
  /\ flushed
  /\ Delivered(lastSent, TRUE)
  /\ phase' = "ended"
  /\ UNCHANGED <<feed, pending, lastSent, window, flushed>>

CloseOutFails ==
  /\ SenderGone
  /\ flushed
  /\ Fails(lastSent, TRUE)

NothingToClose ==
  /\ SenderGone
  /\ ~flushed
  /\ phase' = "ended"
  /\ UNCHANGED <<feed, pending, lastSent, window, flushed, platform>>

Driver ==
  \/ Receive(~flushed) /\ UNCHANGED <<flushed, platform>>
  \/ WaitReceive /\ UNCHANGED <<flushed, platform>>
  \/ EndWait /\ UNCHANGED <<flushed, platform>>
  \/ Skip /\ UNCHANGED <<flushed, platform>>
  \/ PostAnswered
  \/ PostFails
  \/ CloseOut
  \/ CloseOutFails
  \/ NothingToClose

TypeOK ==
  /\ FeedTypeOK
  /\ phase \in {"recv", "wait", "flush", "ended", "failed"}
  /\ flushed \in BOOLEAN
  /\ shown \in Texts
  /\ done \in BOOLEAN
  /\ posts \in 0..MaxChunks + 1
=============================================================================
