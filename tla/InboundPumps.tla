---------------------------- MODULE InboundPumps ----------------------------
(***************************************************************************)
(* The inbound side of the drivers but QQ's: a pump that holds a socket or a *)
(* pump that polls, as ChannelHub::activate starts it, or a webhook, which  *)
(* has no pump. Whichever it is, what the platform will not send again must *)
(* have been handled, and nothing is emitted twice without the platform's   *)
(* having had reason to send it twice.                                      *)
(***************************************************************************)
EXTENDS SocketPump

CONSTANTS
  Drivers,  \* the drivers to look at
  MaxPosts  \* WebhookInbound's

ASSUME DriversConstant == Drivers \subseteq Sockets \cup {"telegram", "weclaw", "wecom"}
ASSUME PostsConstant == MaxPosts \in Nat \ {0}

VARIABLES
  cursor, stored,  \* LongPoll's
  posts            \* WebhookInbound's

polls == <<cursor, stored, posts>>
vars == <<svars, polls>>

Poll == INSTANCE LongPoll
Hook == INSTANCE WebhookInbound

\* start_pump is not supported: the channel is active, and no task runs.
HasPump == driver # "wecom"

InitPump ==
  /\ driver \in Drivers
  /\ Init
  /\ Poll!Init
  /\ Hook!Init
  /\ pc = IF HasPump THEN "top" ELSE "stopped"

\* A step of the pump's task, a request's answer included.
Step ==
  /\ \/ driver \in Sockets /\ Pump /\ UNCHANGED polls
     \/ driver = "telegram" /\ Poll!Telegram /\ UNCHANGED <<socket, posts>>
     \/ driver = "weclaw" /\ Poll!Weclaw /\ UNCHANGED <<socket, posts>>
  /\ UNCHANGED driver

\* A step of the task beside it.
BesideStep == driver \in Sockets /\ BeatCancelled /\ UNCHANGED <<polls, driver>>

Serve ==
  /\ \/ driver \in Sockets /\ Platform /\ UNCHANGED polls
     \/ /\ driver = "wecom"
        /\ \E m \in Messages : Hook!DispatchWebhook(m)
        /\ UNCHANGED <<socket, cursor, stored>>
  /\ UNCHANGED driver

Fails ==
  /\ \/ driver \in Sockets /\ (Trouble \/ BeatFails) /\ UNCHANGED polls
     \/ driver = "telegram" /\ (Poll!PollFails(Poll!Confirmed) \/ Poll!TelegramRestart) /\ UNCHANGED <<socket, posts>>
     \/ driver = "weclaw" /\ (Poll!PollFails(settled) \/ Poll!WeclawRestart) /\ UNCHANGED <<socket, posts>>
     \/ /\ driver = "wecom"
        /\ \E m \in Messages : Hook!RequestRefused(m)
        /\ UNCHANGED <<socket, cursor, stored>>
  /\ UNCHANGED driver

User ==
  /\ \E kind \in Kinds : Posted(kind)
  /\ UNCHANGED <<polls, driver>>

Cancel == CancelPump /\ UNCHANGED <<socket, driver, polls>>

Next == Step \/ BesideStep \/ Serve \/ Fails \/ User \/ Cancel

Spec == InitPump /\ [][Next]_vars

\* The pump's task runs and requests are answered or fail; a platform that is
\* connected sends what it holds and answers a Close frame, and WeCom posts.
FairSpec == Spec /\ WF_vars(Step) /\ WF_vars(BesideStep) /\ WF_vars(Serve)

(* ---- properties ---- *)

TypeSafe == TypeOK /\ Poll!TypeOK /\ Hook!TypeOK

\* A message that will not come again has been emitted or left out, is in hand
\* or on its way, or was lost where the driver cannot help it: Discord's events
\* between two connections, what a crash finds between ack or saved cursor and
\* event, and a webhook's message whose every request was refused. Telegram confirms nothing before it has emitted it.
SettledIsHandled ==
  /\ settled \ (Handled \cup lost) \subseteq
       Range(hand) \cup (IF driver = "discord" THEN OnWire(wire) ELSE {})
  /\ lost # {} => driver \in {"discord", "wecom"} \/ (crashed /\ driver # "telegram")

\* Events come in the order the users wrote, a webhook's as the requests come in,
\* and each once, except those the platform sent again: its ack was late or lost,
\* the cursor was not saved, the process was restarted before Telegram's offset
\* went out.
InOrderOnce ==
  \A i, j \in DOMAIN emitted : i < j =>
    \/ emitted[i] < emitted[j]
    \/ ~HasPump /\ emitted[i] # emitted[j]
    \/ emitted[j] \in excused

\* A message for the bot is emitted in the end, over breaks, failing requests and
\* restarts, unless it counts as lost, the channel is switched off or Discord
\* ended the pump for good. A webhook's channel cannot be switched off:
\* dispatch_webhook does not ask whether it is active.
Arrives ==
  \A m \in Messages :
    (m \in Written /\ kinds[m] = "text") ~>
      \/ m \in Range(emitted) \cup lost
      \/ HasPump /\ (cancelled \/ pc = "stopped")

\* A cancelled pump returns, whatever it was waiting for, and of its heartbeats,
\* dropped handles or not, none beats on.
StopsWhenCancelled == cancelled ~> (pc = "stopped" /\ beats = {})

\* discord_ws.rs: "Resume-on-reconnect is attempted opportunistically when the
\* server sends opcode 7 (Reconnect)".
ResumesOnReconnect == resumable => asked # "identify"
=============================================================================
