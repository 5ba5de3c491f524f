----------------------------- MODULE ChannelHub -----------------------------
(***************************************************************************)
(* The life of inbound pumps in ChannelHub (src/src/hub.rs): threads call  *)
(* activate and deactivate, drivers spawn pump tasks, and the hub keeps    *)
(* the handle of each channel's pump in the mutex-guarded map `active`.    *)
(*                                                                         *)
(* activate is three steps that other threads may interleave with: it      *)
(* first deactivates the channel under the lock, then runs the driver's    *)
(* start_pump without the lock, and finally locks the map again to insert  *)
(* the handle.                                                             *)
(***************************************************************************)
CONSTANTS
  Callers,   \* threads that call the hub
  Channels,  \* channel ids
  Pumps,     \* identities of pump tasks, one per successful start_pump
  NoPump,    \* ActiveChannel { pump: None }, a webhook-only driver
  NoEntry    \* no ActiveChannel under this id

ASSUME HubConstants ==
  /\ NoPump \notin Pumps
  /\ NoEntry \notin Pumps
  /\ NoEntry \notin Channels
  /\ NoPump # NoEntry

VARIABLES
  active,     \* the map: what is registered under each channel id
  pc,         \* where each caller is inside activate
  target,     \* the channel id a caller is activating
  kind,       \* what the driver of the caller's channel_type is
  held,       \* the handle start_pump returned to a caller, not yet inserted
  task,       \* the pump tasks
  chan,       \* the channel id each pump was started for
  cancelled   \* the pumps whose cancellation token was triggered

vars == <<active, pc, target, kind, held, task, chan, cancelled>>
callVars == <<pc, target, kind, held>>
pumpVars == <<task, chan>>

\* What hub.rs finds behind a channel_type: no driver, a driver without an
\* inbound half, one whose start_pump answers Unsupported, one with a pump.
Kinds == {"unknown", "outbound", "webhook", "pumped"}

Init ==
  /\ active = [ch \in Channels |-> NoEntry]
  /\ pc = [c \in Callers |-> "idle"]
  /\ target = [c \in Callers |-> NoEntry]
  /\ kind = [c \in Callers |-> "unknown"]
  /\ held = [c \in Callers |-> NoPump]
  /\ task = [p \in Pumps |-> "unborn"]
  /\ chan = [p \in Pumps |-> NoEntry]
  /\ cancelled = {}

-----------------------------------------------------------------------------
\* Mutant: deactivate drops the entry and forgets pump.stop().
RemoveAndStop_NoStop(ch) ==
  /\ active' = [active EXCEPT ![ch] = NoEntry]
  /\ UNCHANGED cancelled

\* The guard of `active` lives until the end of deactivate's if-let, so the
\* entry is removed and its pump stopped in one critical section.
RemoveAndStop(ch) ==
  /\ active' = [active EXCEPT ![ch] = NoEntry]
  /\ cancelled' = cancelled \cup ({active[ch]} \cap Pumps)

Deactivate(c, ch) ==
  /\ pc[c] = "idle"
  /\ RemoveAndStop(ch)
  /\ UNCHANGED <<callVars, pumpVars>>

\* activate deactivates before it looks at the driver: an unknown type (an
\* error) and a driver without inbound half (Ok) both leave the id stopped.
ActivateTurnedAway(c, ch, k) ==
  /\ pc[c] = "idle"
  /\ k \in {"unknown", "outbound"}
  /\ RemoveAndStop(ch)
  /\ UNCHANGED <<callVars, pumpVars>>

\* Mutant: activate does not deactivate first.
ActivateBegin_NoDeactivate(c, ch, k) ==
  /\ pc[c] = "idle"
  /\ k \in {"webhook", "pumped"}
  /\ pc' = [pc EXCEPT ![c] = "starting"]
  /\ target' = [target EXCEPT ![c] = ch]
  /\ kind' = [kind EXCEPT ![c] = k]
  /\ UNCHANGED <<active, cancelled, held, pumpVars>>

\* Mutant: activate works on the id of the caller's previous call.
ActivateBegin_StaleTarget(c, ch, k) ==
  /\ pc[c] = "idle"
  /\ k \in {"webhook", "pumped"}
  /\ RemoveAndStop(ch)
  /\ pc' = [pc EXCEPT ![c] = "starting"]
  /\ kind' = [kind EXCEPT ![c] = k]
  /\ UNCHANGED <<target, held, pumpVars>>

ActivateBegin(c, ch, k) ==
  /\ pc[c] = "idle"
  /\ k \in {"webhook", "pumped"}
  /\ RemoveAndStop(ch)
  /\ pc' = [pc EXCEPT ![c] = "starting"]
  /\ target' = [target EXCEPT ![c] = ch]
  /\ kind' = [kind EXCEPT ![c] = k]
  /\ UNCHANGED <<held, pumpVars>>

\* start_pump spawns the task and hands out its handle.
StartPump(c) ==
  /\ pc[c] = "starting"
  /\ kind[c] = "pumped"
  /\ \E p \in Pumps :
       /\ task[p] = "unborn"
       /\ task' = [task EXCEPT ![p] = "running"]
       /\ chan' = [chan EXCEPT ![p] = target[c]]
       /\ held' = [held EXCEPT ![c] = p]
  /\ pc' = [pc EXCEPT ![c] = "inserting"]
  /\ UNCHANGED <<active, target, kind, cancelled>>

\* Err(Unsupported): the driver is webhook-only, the entry has no pump.
StartUnsupported(c) ==
  /\ pc[c] = "starting"
  /\ kind[c] = "webhook"
  /\ pc' = [pc EXCEPT ![c] = "inserting"]
  /\ UNCHANGED <<active, target, kind, held, pumpVars, cancelled>>

\* Mutant: start_pump spawns its task before it validates the configuration.
StartFails_AfterSpawn(c) ==
  /\ pc[c] = "starting"
  /\ kind[c] = "pumped"
  /\ \E p \in Pumps :
       /\ task[p] = "unborn"
       /\ task' = [task EXCEPT ![p] = "running"]
       /\ chan' = [chan EXCEPT ![p] = target[c]]
  /\ pc' = [pc EXCEPT ![c] = "idle"]
  /\ UNCHANGED <<active, target, kind, held, cancelled>>

\* Any other error, a bad configuration: activate returns it, nothing is
\* inserted, and the pump that ran before stays stopped.
StartFails(c) ==
  /\ pc[c] = "starting"
  /\ kind[c] = "pumped"
  /\ pc' = [pc EXCEPT ![c] = "idle"]
  /\ UNCHANGED <<active, target, kind, held, pumpVars, cancelled>>

\* HashMap::insert: the value it replaces is dropped, and a PumpHandle has
\* no Drop that would cancel its token.
Insert(c) ==
  /\ pc[c] = "inserting"
  /\ active' = [active EXCEPT ![target[c]] = held[c]]
  /\ held' = [held EXCEPT ![c] = NoPump]
  /\ pc' = [pc EXCEPT ![c] = "idle"]
  /\ UNCHANGED <<target, kind, pumpVars, cancelled>>

\* The pump task sees its token in a select! and returns.
PumpHonoursCancel(p) ==
  /\ task[p] = "running"
  /\ p \in cancelled
  /\ task' = [task EXCEPT ![p] = "ended"]
  /\ UNCHANGED <<active, callVars, chan, cancelled>>

\* A pump may also return by itself: discord_ws.rs stops for good on the
\* close codes 4004 and 4014. The hub is not told.
PumpDies(p) ==
  /\ task[p] = "running"
  /\ task' = [task EXCEPT ![p] = "ended"]
  /\ UNCHANGED <<active, callVars, chan, cancelled>>

CallerStep(c) == StartPump(c) \/ StartUnsupported(c) \/ StartFails(c) \/ Insert(c)

Next ==
  \/ \E c \in Callers, ch \in Channels : Deactivate(c, ch)
  \/ \E c \in Callers, ch \in Channels, k \in Kinds : ActivateTurnedAway(c, ch, k)
  \/ \E c \in Callers, ch \in Channels, k \in Kinds : ActivateBegin(c, ch, k)
  \/ \E c \in Callers : CallerStep(c)
  \/ \E p \in Pumps : PumpHonoursCancel(p) \/ PumpDies(p)

Spec == Init /\ [][Next]_vars

-----------------------------------------------------------------------------
\* The discipline the hub's users must keep, and the hub does not enforce:
\* no two threads are inside activate for the same channel id.
Busy(c, ch) == pc[c] # "idle" /\ target[c] = ch

Exclusive ==
  \A c1, c2 \in Callers : \A ch \in Channels :
    Busy(c1, ch) /\ Busy(c2, ch) => c1 = c2

SerialNext == Next /\ Exclusive'
SerialSpec == Init /\ [][SerialNext]_vars

\* The pumps wait for their token in a select!, and the executor polls every
\* woken task. Nothing obliges anyone to call the hub.
SerialFairSpec == SerialSpec /\ \A p \in Pumps : WF_vars(PumpHonoursCancel(p))

-----------------------------------------------------------------------------
Registered(p) == \E ch \in Channels : active[ch] = p
Owned(p) == Registered(p) \/ \E c \in Callers : held[c] = p
Serving(p) == task[p] # "unborn" /\ p \notin cancelled

\* Types, and: only a caller about to insert holds a handle, for the channel
\* it is activating; a started pump belongs to a channel.
TypeOK ==
  /\ active \in [Channels -> Pumps \cup {NoPump, NoEntry}]
  /\ pc \in [Callers -> {"idle", "starting", "inserting"}]
  /\ target \in [Callers -> Channels \cup {NoEntry}]
  /\ kind \in [Callers -> Kinds]
  /\ held \in [Callers -> Pumps \cup {NoPump}]
  /\ task \in [Pumps -> {"unborn", "running", "ended"}]
  /\ chan \in [Pumps -> Channels \cup {NoEntry}]
  /\ cancelled \subseteq Pumps
  /\ \A c \in Callers :
       /\ pc[c] # "idle" => target[c] \in Channels
       /\ held[c] # NoPump => pc[c] = "inserting" /\ chan[held[c]] = target[c]
  /\ \A p \in Pumps : task[p] # "unborn" <=> chan[p] # NoEntry

\* A handle is in one place: one entry of the map or one caller's hands, and
\* an entry holds a pump of its own channel. PumpHandle::stop consumes the
\* handle, so sharing one would stop a pump somebody else still relies on.
SoleOwner ==
  /\ \A ch1, ch2 \in Channels :
       active[ch1] \in Pumps /\ active[ch1] = active[ch2] => ch1 = ch2
  /\ \A c1, c2 \in Callers :
       held[c1] \in Pumps /\ held[c1] = held[c2] => c1 = c2
  /\ \A ch \in Channels, c \in Callers :
       active[ch] \in Pumps => active[ch] # held[c]
  /\ \A ch \in Channels : active[ch] \in Pumps => chan[active[ch]] = ch

\* A pump that is registered, or about to be, was never told to stop: the
\* map never shows a channel as active whose pump is on its way out because
\* of an earlier deactivate.
OwnedNotCancelled ==
  \A p \in Pumps : Owned(p) => Serving(p)

\* Whatever threads do at the same time, each handle has one owner, and what an
\* owner has is a pump still at work.
HandlesSound == SoleOwner /\ OwnedNotCancelled

\* inbound.rs:82-83 says of the handle: "Dropping or calling `stop()` cancels
\* the pump task." So a pump whose handle nobody has any more is cancelled.
DroppedHandleCancels ==
  \A p \in Pumps : task[p] = "running" /\ ~Owned(p) => p \in cancelled

\* hub.rs:224 calls activate an "idempotent reload": at most one pump that
\* was not told to stop exists per channel id, however often it is reloaded.
OnePumpPerChannel ==
  \A p, q \in Pumps :
    Serving(p) /\ Serving(q) /\ chan[p] = chan[q] => p = q

\* A channel that was deactivated and is left alone falls silent: no pump
\* task for it runs for ever behind the hub's back.
Stopped(ch) == active[ch] = NoEntry /\ \A c \in Callers : ~Busy(c, ch)
Silent(ch) == \A p \in Pumps : chan[p] = ch => task[p] # "running"
StoppedFallsSilent == \A ch \in Channels : Stopped(ch) ~> (Silent(ch) \/ ~Stopped(ch))

\* What serial use of the hub promises, as one slot per channel.
slot == [ch \in Channels |->
           IF \E p \in Pumps : Serving(p) /\ chan[p] = ch
           THEN CHOOSE p \in Pumps : Serving(p) /\ chan[p] = ch
           ELSE NoPump]
started == {p \in Pumps : task[p] # "unborn"}
Slots == INSTANCE PumpSlots
\* The hub, used serially, implements PumpSlots: a reload stops the previous
\* pump before the next one starts, and a stopped pump never serves again.
ImplementsSlots == Slots!Spec
=============================================================================
