---------------------------- MODULE ReplyDrivers ----------------------------
(***************************************************************************)
(* reply_to_user_streaming of ChannelHub: the call goes to the driver of   *)
(* the channel. QQ chats stream by QqReply, Feishu chats by FeishuCard, and*)
(* every other channel sends one message by OneShotReply. Whichever driver *)
(* it is, the reply keeps the promise of StreamedReply.                    *)
(***************************************************************************)
EXTENDS ChunkFeed

VARIABLES
  driver,
  flushed, shown, done, posts,   \* QqReply's (shown is OneShotReply's as well)
  seq, card, content, accepted, received   \* FeishuCard's

qqVars == <<flushed, shown, done, posts>>
feishuVars == <<seq, card, content, accepted, received>>
vars == <<feed, loop, driver, qqVars, feishuVars>>

Qq == INSTANCE QqReply
Feishu == INSTANCE FeishuCard
OneShot == INSTANCE OneShotReply

NoStream == flushed = FALSE /\ done = FALSE /\ posts = 0
NoCard == seq = 0 /\ card = "none" /\ content = 0 /\ accepted = 0 /\ received = 0

Init ==
  \/ driver = "qq" /\ Qq!Init /\ NoCard
  \/ driver = "feishu" /\ Feishu!Init /\ NoStream /\ shown = 0
  \/ driver = "oneshot" /\ OneShot!Init /\ NoStream /\ NoCard

\* A step of the channel's driver.
Step ==
  \/ driver = "qq" /\ Qq!Driver /\ UNCHANGED <<driver, feishuVars>>
  \/ driver = "feishu" /\ Feishu!Driver /\ UNCHANGED <<driver, qqVars>>
  \/ driver = "oneshot" /\ OneShot!Driver /\ UNCHANGED <<driver, flushed, done, posts, feishuVars>>

Tick == Elapse /\ UNCHANGED <<driver, qqVars, feishuVars>>

Caller == (Produce \/ DropSender) /\ UNCHANGED <<driver, qqVars, feishuVars>>

Next == Step \/ Tick \/ Caller

Spec == Init /\ [][Next]_vars

\* The runtime polls the reply's task and its timer. Nothing is asked of the
\* caller: it may stop sending and keep the channel open.
FairSpec == Spec /\ WF_vars(Step) /\ WF_vars(Tick)

(* ---- properties ---- *)

TypeOK ==
  /\ driver \in {"qq", "feishu", "oneshot"}
  /\ driver = "qq" => Qq!TypeOK
  /\ driver = "feishu" => Feishu!TypeOK
  /\ driver = "oneshot" => OneShot!TypeOK

\* What the user sees, and whether the platform was told that this is all.
Visible ==
  IF driver = "feishu" THEN IF card \in {"streaming", "closed"} THEN content ELSE 0 ELSE shown

Closed == IF driver = "feishu" THEN card = "closed" ELSE done \/ driver = "oneshot"

\* A reply that ended well shows all that was written, and if it sent anything
\* the platform's stream is closed, however chunks, windows and the drop of the
\* sender interleave.
EndsComplete ==
  phase = "ended" =>
    /\ Visible = written
    /\ Closed \/ (Visible = 0 /\ card = "none")

\* Once the platform's stream is closed, the reply sends it nothing more.
QuietAfterClose ==
  [][(done => posts' = posts) /\ (card = "closed" => UNCHANGED feishuVars)]_<<posts, feishuVars>>

\* feishu_bot.rs:730-735, last_seq: every numbered request that Feishu receives for
\* a card (the initial update, the loop's, the last one, which may repeat the text,
\* and the request that closes it) has a higher number than all before it, also when
\* one of them failed after it was received.
SequenceGrows == [][received' # received => accepted' > accepted]_feishuVars

\* The promise of a streamed reply: what is seen only grows and is whole in the
\* end, and a caller that sent its last chunk or hung up is not kept waiting.
Reply == INSTANCE StreamedReply WITH
  finished <- Finished, shown <- Visible, outcome <- Outcome

KeepsPromise == Reply!Spec

\* inbound.rs: "After a terminal chunk the driver must close out the platform
\* stream". The reply must not give up on a terminal chunk with the card still in
\* streaming mode and no closing request tried.
TerminalClosesCard ==
  phase = "failed" /\ pending.terminal => card # "streaming"
=============================================================================
