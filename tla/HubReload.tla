------------------------------ MODULE HubReload ------------------------------
(***************************************************************************)
(* ChannelHub (src/src/hub.rs) with real pumps behind it: those that poll, *)
(* Telegram's and WeClaw's, and the store they write their config back to  *)
(* (src/src/config_store.rs). activate cancels the old pump and does not   *)
(* wait for it, so a reload leaves two generations at work: the old one is *)
(* still handling the batch it has and may write back the config it was    *)
(* started with, over one that has been edited since. Of Discord's pump    *)
(* only what sets it apart for the hub is here: it may give up by itself.  *)
(*                                                                         *)
(* Callers take turns per channel, as in SerialSpec.                       *)
(***************************************************************************)
EXTENDS ChannelHub, Naturals

CONSTANTS
  MaxMessages,  \* bound: messages users write
  MaxEdits,     \* bound: edits of the config
  MaxFaults     \* bound: polls and writes that fail

\* One channel: the variables below are its config, its driver and its messages.
ASSUME ReloadConstants ==
  /\ \A ch1, ch2 \in Channels : ch1 = ch2
  /\ MaxMessages \in Nat /\ MaxEdits \in Nat /\ MaxFaults \in Nat

VARIABLES
  driver,     \* the driver of the channel's pumps
  at,         \* where each pump's task is in its loop
  mine,       \* each pump's own config: creds, or the offset
  batch,      \* what a pump has been given and not yet forwarded
  given,      \* the config a caller passes to activate
  stored,     \* the channel's config in the store
  edits,      \* how often the application has edited it
  setBack,    \* history: the newest edit a cancelled pump wrote an older one over
  written,    \* messages users wrote so far
  confirmed,  \* Telegram: the newest message a poll's offset has passed
  emitted,    \* history: the messages that came out as events
  faults

store == <<stored, edits, setBack>>
config == <<given, store>>
loop == <<at, mine, batch>>
platform == <<written, confirmed>>
past == <<emitted, faults>>
rvars == <<vars, driver, loop, config, platform, past>>

Configs == [edit : 0..MaxEdits, cursor : 0..MaxMessages]
Blank == [edit |-> 0, cursor |-> 0]

ReloadInit ==
  /\ Init
  /\ driver \in {"telegram", "weclaw", "discord"}
  /\ at = [p \in Pumps |-> "none"]
  /\ mine = [p \in Pumps |-> Blank]
  /\ batch = [p \in Pumps |-> {}]
  /\ given = [c \in Callers |-> Blank]
  /\ stored = Blank
  /\ edits = 0
  /\ setBack = 0
  /\ written = 0
  /\ confirmed = 0
  /\ emitted = {}
  /\ faults = 0

-----------------------------------------------------------------------------
\* The application edits the config, and reloads the channel with what it finds in
\* the store by then.
Edit ==
  /\ edits < MaxEdits
  /\ edits' = edits + 1
  /\ stored' = [stored EXCEPT !.edit = edits']
  /\ UNCHANGED <<vars, driver, loop, given, setBack, platform, past>>

Begin(c, ch, k) ==
  /\ ActivateBegin(c, ch, k)
  /\ given' = [given EXCEPT ![c] = IF k = "pumped" THEN stored ELSE @]
  /\ UNCHANGED <<driver, loop, store, platform, past>>

\* start_pump: the task begins with the config it was given; Telegram's offset is
\* a variable of the task and begins at 0.
Started(c) ==
  IF driver = "telegram" THEN [given[c] EXCEPT !.cursor = 0] ELSE given[c]

Spawn(c) ==
  /\ StartPump(c)
  /\ \E p \in Pumps :
       /\ task[p] # task'[p]
       /\ at' = [at EXCEPT ![p] = "top"]
       /\ mine' = [mine EXCEPT ![p] = Started(c)]
  /\ given' = [given EXCEPT ![c] = Blank]
  /\ UNCHANGED <<driver, batch, store, platform, past>>

HubStep ==
  /\ \/ \E c \in Callers, ch \in Channels : Deactivate(c, ch)
     \/ \E c \in Callers, ch \in Channels, k \in Kinds : ActivateTurnedAway(c, ch, k)
     \/ \E c \in Callers : StartUnsupported(c) \/ Insert(c)
  /\ UNCHANGED <<driver, loop, config, platform, past>>

Refused(c) ==
  /\ StartFails(c)
  /\ given' = [given EXCEPT ![c] = Blank]
  /\ UNCHANGED <<driver, loop, store, platform, past>>

Write ==
  /\ written < MaxMessages
  /\ written' = written + 1
  /\ UNCHANGED <<vars, driver, loop, config, confirmed, past>>

-----------------------------------------------------------------------------
Go(p, from, to) == at[p] = from /\ at' = [at EXCEPT ![p] = to]

Fault == faults < MaxFaults /\ faults' = faults + 1

\* The task leaves its loop.
Leave(p, from) ==
  /\ Go(p, from, "ended")
  /\ PumpHonoursCancel(p)
  /\ UNCHANGED <<driver, mine, batch, config, platform, past>>

Top(p) ==
  /\ Go(p, "top", "polling")
  /\ p \notin cancelled
  /\ UNCHANGED <<vars, driver, mine, batch, config, platform, past>>

\* Telegram drops what the offset of a poll has passed, whether or not the poll
\* is answered; WeClaw's polls change nothing on the platform.
Offset(p) ==
  IF driver = "telegram" /\ mine[p].cursor > confirmed THEN mine[p].cursor ELSE confirmed
Newest(p) == IF driver = "telegram" THEN Offset(p) ELSE mine[p].cursor

\* A poll is answered with some of what is new.
Answer(p) ==
  /\ driver # "discord"
  /\ Go(p, "polling", IF driver = "weclaw" THEN "persist" ELSE "forward")
  /\ confirmed' = Offset(p)
  /\ \E last \in (Newest(p) + 1)..written :
       /\ batch' = [batch EXCEPT ![p] = (Newest(p) + 1)..last]
       /\ mine' = [mine EXCEPT ![p].cursor = IF driver = "weclaw" THEN last ELSE @]
  /\ UNCHANGED <<vars, driver, config, written, past>>

\* Or with nothing: WeClaw's cursor stays where it is, and nothing is written back.
AnswerEmpty(p) ==
  /\ driver # "discord"
  /\ Go(p, "polling", "top")
  /\ confirmed' = Offset(p)
  /\ UNCHANGED <<vars, driver, mine, batch, config, written, past>>

\* select! takes the cancelled branch, and the poll may have been received.
\* Mutant: the poll is awaited without the token.
PollCancelled_Never(p) == FALSE

PollCancelled(p) ==
  /\ Go(p, "polling", "ended")
  /\ PumpHonoursCancel(p)
  /\ confirmed' \in {confirmed, Offset(p)}
  /\ UNCHANGED <<driver, mine, batch, config, written, past>>

PollFails(p) ==
  /\ Go(p, "polling", "sleep")
  /\ Fault
  /\ confirmed' \in {confirmed, Offset(p)}
  /\ UNCHANGED <<vars, driver, mine, batch, config, written, emitted>>

\* discord_ws.rs, on the close codes 4004 and 4014: run returns, and nobody is told.
GivesUp(p) ==
  /\ driver = "discord"
  /\ Go(p, "polling", "ended")
  /\ PumpDies(p)
  /\ UNCHANGED <<driver, mine, batch, config, platform, past>>

\* Only WeClaw's sleep, a select! with the token, ends in a break.
Woken(p) ==
  \/ /\ Go(p, "sleep", "top")
     /\ UNCHANGED <<vars, driver, mine, batch, config, platform, past>>
  \/ driver = "weclaw" /\ Leave(p, "sleep")

SetsBack(p) == p \in cancelled /\ mine[p].edit < stored.edit /\ setBack < stored.edit

\* writer.write: all of creds, whatever the store holds by now.
Persist(p) ==
  /\ Go(p, "persist", "forward")
  /\ \/ /\ stored' = mine[p]
        /\ setBack' = IF SetsBack(p) THEN stored.edit ELSE setBack
        /\ UNCHANGED faults
     \/ /\ Fault
        /\ UNCHANGED <<stored, setBack>>
  /\ UNCHANGED <<vars, driver, mine, batch, given, edits, platform, emitted>>

\* Mutant: a cancelled pump drops its batch.
Forward_Unless(p) ==
  /\ Go(p, "forward", "top")
  /\ emitted' = IF p \in cancelled THEN emitted ELSE emitted \cup batch[p]
  /\ mine' = [mine EXCEPT ![p].cursor = CHOOSE m \in batch[p] : \A n \in batch[p] : n <= m]
  /\ batch' = [batch EXCEPT ![p] = {}]
  /\ UNCHANGED <<vars, driver, config, platform, faults>>

\* The batch is forwarded to its end, cancelled or not; Telegram moves its offset
\* message by message.
Forward(p) ==
  /\ Go(p, "forward", "top")
  /\ emitted' = emitted \cup batch[p]
  /\ mine' = [mine EXCEPT ![p].cursor = CHOOSE m \in batch[p] : \A n \in batch[p] : n <= m]
  /\ batch' = [batch EXCEPT ![p] = {}]
  /\ UNCHANGED <<vars, driver, config, platform, faults>>

PumpStep(p) ==
  \/ Leave(p, "top") \/ Top(p)
  \/ Answer(p) \/ AnswerEmpty(p) \/ PollCancelled(p) \/ Woken(p)
  \/ Persist(p) \/ Forward(p)

ReloadNext ==
  /\ \/ HubStep
     \/ \E c \in Callers, ch \in Channels, k \in Kinds : Begin(c, ch, k)
     \/ \E c \in Callers : Spawn(c) \/ Refused(c)
     \/ Edit
     \/ Write
     \/ \E p \in Pumps : PumpStep(p) \/ PollFails(p) \/ GivesUp(p)
  /\ Exclusive'

\* The executor polls woken tasks, requests end, and a write to the store ends.
ReloadSpec == ReloadInit /\ [][ReloadNext]_rvars /\ \A p \in Pumps : WF_rvars(PumpStep(p))

-----------------------------------------------------------------------------
Live(p) == at[p] \notin {"none", "ended"}

\* Types, the hub's included, and: a task's place in its loop agrees with what the
\* hub knows of it, and a pump has a batch between its answer and the end of the
\* forwarding.
ReloadTypeOK ==
  /\ TypeOK
  /\ at \in [Pumps -> {"none", "top", "polling", "sleep", "persist", "forward", "ended"}]
  /\ mine \in [Pumps -> Configs]
  /\ given \in [Callers -> Configs]
  /\ stored \in Configs /\ edits \in 0..MaxEdits /\ setBack \in 0..edits
  /\ confirmed \in 0..written /\ written \in 0..MaxMessages
  /\ emitted \subseteq 1..written
  /\ faults \in 0..MaxFaults
  /\ \A p \in Pumps :
       /\ at[p] = "none" <=> task[p] = "unborn"
       /\ at[p] = "ended" <=> task[p] = "ended"
       /\ batch[p] # {} <=> at[p] \in {"persist", "forward"}

\* The pumps keep the promise the hub's own specification makes for them: each sees
\* its token in the end, from wherever in its loop it is when it is cancelled.
ImplementsHub == SerialFairSpec

\* No message falls between two generations: what the platform will not hand out
\* again to a pump started from the store was forwarded, or a pump that is still at
\* work has it.
NothingPassedOver ==
  \A m \in 1..(IF driver = "telegram" THEN confirmed ELSE stored.cursor) :
    m \in emitted \/ \E p \in Pumps : Live(p) /\ m \in batch[p]

\* An edit that a pump was started with is overwritten with an older config by a pump
\* that a reload has cancelled, finishing its batch, before it is by any other: a
\* pump that serves sets it back only if a cancelled one has done so.
EditKept ==
  [][\A p \in Pumps :
       (at[p] = "persist" /\ at'[p] = "forward" /\ stored'.edit < stored.edit) =>
         \/ p \in cancelled
         \/ stored.edit <= setBack
         \/ \A q \in Pumps : task[q] # "unborn" => mine[q].edit < stored.edit]_rvars
=============================================================================
