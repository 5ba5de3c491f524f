----------------------------- MODULE SocketPump -----------------------------
(***************************************************************************)
(* The pumps that hold a WebSocket: discord_ws.rs, slack_ws.rs,            *)
(* dingtalk_ws.rs and feishu_bot_ws.rs. `run` fetches an address, dials and*)
(* dials again whenever connect_and_pump returns; connect_and_pump handles *)
(* one frame at a time. Discord sends an event once; the others send a     *)
(* message again, on the same or the next connection, until it is acked.   *)
(* Discord's heartbeat and Feishu's ping run beside it, in a task of their *)
(* own for each connection.                                                *)
(***************************************************************************)
EXTENDS InboundFeed, FiniteSets

CONSTANT Sum  \* in how many pieces Feishu sends each message

ASSUME SumConstant == Sum \in [1..MaxMessages -> {1, 2}]

VARIABLES
  driver,    \* whose pump it is
  link,      \* "none", "up", or "severed": nothing gets through any more
  wire,      \* frames the client has yet to read
  sent,      \* messages sent on this connection
  closing,   \* Slack: the client has sent a Close frame
  asked,     \* Discord: what the client has asked for on this connection
  resumable, \* history, Discord: the last connection ended with a reconnect request
  pending,   \* Feishu: Reassembler.pending, the pieces of each message
  beats,     \* heartbeat or ping tasks: this connection's, and those whose handle is gone
  botKnown   \* Feishu: bot_open_id is known

conn == <<link, wire, sent, closing, asked, pending, beats>>
socket == <<conn, resumable, botKnown>>
svars == <<feed, socket, driver>>

Sockets == {"discord", "slack", "dingtalk", "feishu"}
Acked == Sockets \ {"discord"}

Control == {"hello", "beat", "bye", "invalid", "close", "fatal"}
Frame == [kind : Control \cup {"msg"}, m : Messages \cup {0}, piece : {0, 1}]
Plain(kind) == [kind |-> kind, m |-> 0, piece |-> 0]
Piece(m, p) == [kind |-> "msg", m |-> m, piece |-> p]
Whole(m) == 0..((IF driver = "feishu" THEN Sum[m] ELSE 1) - 1)

OnWire(frames) == {frames[i].m : i \in DOMAIN frames}

\* What Discord has sent is gone unless it was handled or can still be read.
LostBut(frames) ==
  IF driver = "discord" THEN lost \cup (settled \ (Handled \cup OnWire(frames))) ELSE lost

ConnectionGone ==
  /\ link' = "none"
  /\ wire' = <<>>
  /\ sent' = {}
  /\ closing' = FALSE
  /\ asked' = "none"
  /\ pending' = [m \in Messages |-> {}]

\* A JoinHandle that is dropped or overwritten leaves its task running.
Detached == IF "own" \in beats THEN {"stray"} ELSE beats

\* heartbeat_task or ping_task is aborted.
\* Mutant: the handle is dropped, and the task goes on.
NoConnection_Detaches ==
  /\ ConnectionGone
  /\ beats' = Detached

NoConnection ==
  /\ ConnectionGone
  /\ beats' = beats \ {"own"}

Init ==
  /\ FeedInit
  /\ link = "none"
  /\ wire = <<>>
  /\ sent = {}
  /\ closing = FALSE
  /\ asked = "none"
  /\ resumable = FALSE
  /\ pending = [m \in Messages |-> {}]
  /\ beats = {}
  /\ botKnown \in IF driver = "feishu" THEN BOOLEAN ELSE {FALSE}

(* ---- run ---- *)

Top ==
  /\ pc = "top"
  /\ pc' = IF cancelled THEN "stopped" ELSE "fetch"
  /\ UNCHANGED <<messages, backoff, cancelled, crashed, faults, socket>>

Doubled == IF backoff < MaxBackoff THEN backoff + 1 ELSE backoff

Found ==
  /\ pc = "fetch"
  /\ pc' = "dial"
  /\ UNCHANGED <<messages, backoff, cancelled, crashed, faults, socket>>

NotFound ==
  /\ pc = "fetch"
  /\ Fault
  /\ pc' = "sleep"
  /\ backoff' = Doubled
  /\ UNCHANGED <<messages, cancelled, crashed, socket>>

\* discover_gateway falls back on a known address; the others may find none,
\* sleep and start over.
DiscoverGateway == driver = "discord" /\ Found
FetchSocketUrl == driver = "slack" /\ (Found \/ NotFound)
OpenConnection == driver = "dingtalk" /\ (Found \/ NotFound)
Discover == driver = "feishu" /\ (Found \/ NotFound)

Fetch == DiscoverGateway \/ FetchSocketUrl \/ OpenConnection \/ Discover

\* sleep_or_cancel.
Sleep ==
  /\ pc = "sleep"
  /\ pc' = "top"
  /\ UNCHANGED <<messages, backoff, cancelled, crashed, faults, socket>>

\* connect_and_pump returned, well or with an error. Feishu resets its backoff
\* and waits in either case.
Redial(well) ==
  /\ pc' = IF well THEN "top" ELSE "sleep"
  /\ backoff' = IF well THEN 0 ELSE Doubled

FeishuEnded ==
  /\ pc' = IF cancelled THEN "stopped" ELSE "sleep"
  /\ backoff' = 0

AfterConnection(well) ==
  /\ lost' = LostBut(<<>>)
  /\ IF driver = "feishu" THEN FeishuEnded ELSE Redial(well)

Ended(well) == NoConnection /\ AfterConnection(well)

(* ---- connect_and_pump ---- *)

\* Discord greets a connection with Hello; Feishu's pings begin at once.
Dial ==
  /\ pc = "dial"
  /\ \/ /\ pc' = "reading"
        /\ link' = "up"
        /\ wire' = IF driver = "discord" THEN <<Plain("hello")>> ELSE <<>>
        /\ beats' = IF driver = "feishu" THEN beats \cup {"own"} ELSE beats
        /\ UNCHANGED <<sent, closing, asked, pending, backoff, lost, faults>>
     \/ Fault /\ Ended(FALSE)
  /\ UNCHANGED <<kinds, settled, hand, emitted, skipped, excused, cancelled, crashed, resumable, botKnown>>

\* The select took the cancelled branch.
StopReading ==
  /\ pc = "reading"
  /\ cancelled
  /\ Ended(TRUE)
  /\ UNCHANGED <<kinds, settled, hand, emitted, skipped, excused, cancelled, crashed, faults, resumable, botKnown>>

\* The stream ends or the read fails.
LinkEnds ==
  /\ pc = "reading"
  /\ link = "severed"
  /\ wire = <<>>
  /\ \E well \in BOOLEAN : Ended(well)
  /\ resumable' = FALSE
  /\ UNCHANGED <<kinds, settled, hand, emitted, skipped, excused, cancelled, crashed, faults, botKnown>>

\* The end of a connection by its next frame: a Close frame, Discord's requests
\* to reconnect, or a Close frame that is fatal to the pump.
ReadEnd(frame) ==
  /\ \/ frame.kind \in {"close", "invalid"}
     \/ frame.kind = "bye" /\ driver = "discord"
  /\ resumable' = (frame.kind = "bye")
  /\ Ended(TRUE)
  /\ UNCHANGED <<emitted, skipped, hand>>

ReadFatal(frame) ==
  /\ frame.kind = "fatal"
  /\ NoConnection
  /\ lost' = LostBut(<<>>)
  /\ pc' = "stopped"
  /\ UNCHANGED <<backoff, resumable, emitted, skipped, hand>>

\* Sending to a broken link may fail, and a `?` leaves connect_and_pump without
\* the aborts of its other ends.
SendFails(left) ==
  /\ link # "up"
  /\ ConnectionGone
  /\ beats' = left
  /\ AfterConnection(FALSE)

\* Hello starts a heartbeat, whether or not one is running, and is answered with
\* Identify the first time on a connection.
ReadHello(frame) ==
  /\ frame.kind = "hello"
  /\ \/ /\ asked' = IF asked = "none" THEN "identify" ELSE asked
        /\ beats' = Detached \cup {"own"}
        /\ wire' = Tail(wire)
        /\ UNCHANGED <<link, sent, closing, pending, pc, backoff, lost>>
     \/ asked = "none" /\ SendFails(Detached \cup {"stray"})
  /\ UNCHANGED <<resumable, emitted, skipped, hand>>

\* Opcode 1 asks for a heartbeat out of turn.
ReadBeat(frame) ==
  /\ frame.kind = "beat"
  /\ \/ /\ wire' = Tail(wire)
        /\ UNCHANGED <<link, sent, closing, asked, pending, beats, pc, backoff, lost>>
     \/ SendFails(Detached)
  /\ UNCHANGED <<resumable, emitted, skipped, hand>>

\* Slack's disconnect envelope: send a Close frame and go on reading.
HandleEnvelope(frame) ==
  /\ frame.kind = "bye"
  /\ driver = "slack"
  /\ closing' = TRUE
  /\ wire' = Tail(wire)
  /\ UNCHANGED <<link, sent, asked, pending, beats, pc, backoff, lost, resumable, emitted, skipped, hand>>

\* Nothing to ack.
HandleDispatch(frame) ==
  /\ frame.kind = "msg"
  /\ driver = "discord"
  /\ wire' = Tail(wire)
  /\ IF kinds[frame.m] = "skip"
       THEN skipped' = skipped \cup {frame.m} /\ UNCHANGED emitted
       ELSE emitted' = Append(emitted, frame.m) /\ UNCHANGED skipped
  /\ UNCHANGED <<link, sent, closing, asked, pending, beats, pc, backoff, lost, resumable, hand>>

\* Reassembler.push: the message is complete with its last piece, and forgotten.
\* Mutant: it is complete with any piece.
Push_Any(m, piece) ==
  /\ hand' = <<m>>
  /\ pc' = "ack"
  /\ UNCHANGED pending

Push(m, piece) ==
  LET got == pending[m] \cup {piece}
  IN  IF got = Whole(m)
        THEN hand' = <<m>> /\ pc' = "ack" /\ pending' = [pending EXCEPT ![m] = {}]
        ELSE pending' = [pending EXCEPT ![m] = got] /\ UNCHANGED <<hand, pc>>

ReadPiece(frame) ==
  /\ frame.kind = "msg"
  /\ driver # "discord"
  /\ Push(frame.m, frame.piece)
  /\ wire' = Tail(wire)
  /\ UNCHANGED <<link, sent, closing, asked, beats, backoff, lost, resumable, emitted, skipped>>

Read ==
  /\ pc = "reading"
  /\ wire # <<>>
  /\ LET frame == Head(wire)
     IN  \/ ReadEnd(frame) \/ ReadFatal(frame) \/ ReadHello(frame) \/ ReadBeat(frame)
         \/ HandleEnvelope(frame) \/ HandleDispatch(frame) \/ ReadPiece(frame)
  /\ UNCHANGED <<kinds, settled, excused, cancelled, crashed, faults, botKnown>>

\* The ack comes before the event, and that it failed is only logged. Behind a
\* Close frame of our own nothing can be sent.
Ack ==
  /\ pc = "ack"
  /\ IF link = "up" /\ ~closing
       THEN settled' = settled \cup Range(hand) /\ UNCHANGED excused
       ELSE excused' = excused \cup Range(hand) /\ UNCHANGED settled
  /\ pc' = IF driver = "feishu" THEN "lookup" ELSE "forward"
  /\ UNCHANGED <<kinds, hand, emitted, skipped, lost, backoff, cancelled, crashed, faults, socket>>

\* Feishu asks for the bot's id until it has it, between the ack and the event.
EnsureBotOpenId ==
  /\ pc = "lookup"
  /\ botKnown' \in {botKnown, TRUE}
  /\ pc' = "forward"
  /\ UNCHANGED <<messages, backoff, cancelled, crashed, faults, conn, resumable>>

\* The rest of the handler: the message is emitted or left out.
Forward(m, forwards) ==
  /\ pc = "forward"
  /\ m = Head(hand)
  /\ EmitHand(IF forwards THEN {m} ELSE {})
  /\ pc' = "reading"
  /\ UNCHANGED <<kinds, settled, lost, excused, backoff, cancelled, crashed, faults, socket>>

EmitEventsApi == driver = "slack" /\ \E m \in Range(hand) : Forward(m, kinds[m] # "skip")

HandleFrame == driver = "dingtalk" /\ \E m \in Range(hand) : Forward(m, kinds[m] # "skip")

\* A reply in a group passes if the bot's id is unknown, or if the lookups of the
\* token and of the sender of its parent succeed.
\* Mutant: any message needs the lookups.
ShouldForward_FailsClosed(m) ==
  IF kinds[m] = "skip" THEN {FALSE} ELSE IF botKnown THEN BOOLEAN ELSE {TRUE}

ShouldForward(m) ==
  IF kinds[m] = "skip" THEN {FALSE}
    ELSE IF kinds[m] = "reply" /\ botKnown THEN BOOLEAN ELSE {TRUE}

HandleBinary ==
  driver = "feishu" /\ \E m \in Range(hand) : \E forwards \in ShouldForward(m) : Forward(m, forwards)

Pump == Top \/ Fetch \/ Sleep \/ Dial \/ StopReading \/ LinkEnds \/ Read \/ Ack \/ EnsureBotOpenId
        \/ EmitEventsApi \/ HandleFrame \/ HandleBinary

(* ---- spawn_heartbeat, Feishu's ping loop ---- *)

\* Mutant: the task has a token of its connection, which nothing cancels once the
\* connection's handle was dropped.
BeatCancelled_Own ==
  /\ cancelled
  /\ "own" \in beats
  /\ beats' = beats \ {"own"}
  /\ UNCHANGED <<feed, link, wire, sent, closing, asked, pending, resumable, botKnown>>

\* At its select, the task sees the token.
BeatCancelled ==
  /\ cancelled
  /\ beats # {}
  /\ beats' = {}
  /\ UNCHANGED <<feed, link, wire, sent, closing, asked, pending, resumable, botKnown>>

\* Or a beat cannot be sent, and it ends without a word.
BeatFails ==
  /\ \/ link # "up" /\ "own" \in beats /\ beats' = beats \ {"own"}
     \/ "stray" \in beats /\ beats' = beats \ {"stray"}
  /\ UNCHANGED <<feed, link, wire, sent, closing, asked, pending, resumable, botKnown>>

(* ---- the platform ---- *)

\* Pieces of a message travel in any order.
Frames(m) ==
  {[i \in DOMAIN o |-> Piece(m, o[i])] : o \in SetToSeqs(Whole(m))}

\* Discord dispatches an event to whoever has identified, and forgets it.
Posted(kind) ==
  /\ Write(kind)
  /\ kind = "reply" => driver = "feishu"
  /\ IF driver = "discord"
       THEN /\ settled' = settled \cup {Len(kinds')}
            /\ IF asked # "none" /\ link = "up"
                 THEN wire' = Append(wire, Piece(Len(kinds'), 0)) /\ UNCHANGED lost
                 ELSE lost' = lost \cup {Len(kinds')} /\ UNCHANGED wire
       ELSE UNCHANGED <<settled, lost, wire>>
  /\ UNCHANGED <<hand, emitted, skipped, excused, task, link, sent, closing, asked, pending, beats, resumable, botKnown>>

\* The others send what is not settled, in order, once a connection.
Deliver ==
  /\ driver \in Acked
  /\ link = "up"
  /\ \E m \in Written \ (settled \cup sent) :
       /\ \A n \in Written \ (settled \cup sent) : m <= n
       /\ \E frames \in Frames(m) : wire' = wire \o frames
       /\ sent' = sent \cup {m}
  /\ UNCHANGED <<feed, link, closing, asked, pending, beats, resumable, botKnown>>

\* An ack is late: the platform does not wait for it.
Redeliver ==
  /\ driver \in Acked
  /\ link = "up"
  /\ Fault
  /\ \E m \in sent \ settled :
       /\ excused' = excused \cup {m}
       /\ \E frames \in Frames(m) : wire' = wire \o frames
  /\ UNCHANGED <<kinds, settled, hand, emitted, skipped, lost, pc, backoff, cancelled, crashed,
                 link, sent, closing, asked, pending, beats, resumable, botKnown>>

\* The connection breaks: what is under way is cut off somewhere.
Sever ==
  /\ link = "up"
  /\ Fault
  /\ link' = "severed"
  /\ \E n \in 0..Len(wire) : wire' = SubSeq(wire, 1, n)
  /\ lost' = LostBut(wire')
  /\ UNCHANGED <<kinds, settled, hand, emitted, skipped, excused, pc, backoff, cancelled, crashed, sent, closing, asked, pending, beats, resumable, botKnown>>

\* The platform asks for a new connection, or ends this one.
SendControl(kind) ==
  /\ link = "up"
  /\ Fault
  /\ \/ kind = "bye" /\ driver \in {"slack", "discord"} /\ UNCHANGED link
     \/ kind \in {"hello", "beat"} /\ driver = "discord" /\ UNCHANGED link
     \/ kind \in {"invalid", "fatal"} /\ driver = "discord" /\ link' = "severed"
     \/ kind = "close" /\ link' = "severed"
  /\ wire' = Append(wire, Plain(kind))
  /\ UNCHANGED <<messages, pc, backoff, cancelled, crashed, sent, closing, asked, pending, beats, resumable, botKnown>>

\* It answers a Close frame with one of its own.
AnswerClose ==
  /\ closing
  /\ link = "up"
  /\ link' = "severed"
  /\ wire' = Append(wire, Plain("close"))
  /\ UNCHANGED <<feed, sent, closing, asked, pending, beats, resumable, botKnown>>

\* The bot's id is known or not when a pump starts: run asks for it first.
Restart ==
  /\ RestartTask
  /\ ConnectionGone
  /\ beats' = {}
  /\ resumable' = FALSE
  /\ botKnown' \in IF driver = "feishu" THEN BOOLEAN ELSE {FALSE}
  /\ UNCHANGED excused

Platform == Deliver \/ AnswerClose

Trouble == Redeliver \/ Sever \/ (\E kind \in Control : SendControl(kind)) \/ Restart

TypeOK ==
  /\ FeedTypeOK
  /\ link \in {"none", "up", "severed"}
  /\ wire \in Seq(Frame)
  /\ sent \subseteq Written
  /\ closing \in BOOLEAN
  /\ asked \in {"none", "identify", "resume"}
  /\ resumable \in BOOLEAN
  /\ pending \in [Messages -> SUBSET {0, 1}]
  /\ botKnown \in BOOLEAN
  \* A connection's heartbeat ends with it, unless its handle was dropped.
  /\ beats \subseteq {"own", "stray"}
  /\ "own" \in beats => pc \in {"reading", "ack", "lookup", "forward"}
  /\ "stray" \in beats => driver = "discord"
=============================================================================
