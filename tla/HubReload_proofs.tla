-------------------------- MODULE HubReload_proofs --------------------------
(***************************************************************************)
(* Proofs about ChannelHub, for any set of callers, channels and pumps,    *)
(* and about HubReload, for any number of messages, edits and faults too.  *)
(*                                                                         *)
(* ChannelHub: TypeOK, SoleOwner and OwnedNotCancelled hold however the    *)
(* callers interleave. That no pump is orphaned and that a channel has at  *)
(* most one pump needs serial callers; the inductive invariant SerialInv   *)
(* adds that the map is empty under an id while somebody is inside activate*)
(* for it, so that the final insert replaces nothing.                      *)
(*                                                                         *)
(* HubReload: each step is a step of ChannelHub used serially, or leaves   *)
(* its variables alone, so what is proved about ChannelHub holds with the  *)
(* pumps' loops and their config write-back in the picture. What is said   *)
(* of the loops themselves follows from the inductive invariant ReloadInv: *)
(* LoopInv, the types; CoverInv, which messages every cursor anywhere has  *)
(* passed; EditInv, which edit a pump at work may still write back.        *)
(***************************************************************************)
EXTENDS HubReload, TLAPS


\* Only a pump that was started can have been told to stop.
CancelledStarted == \A p \in cancelled : task[p] # "unborn"

\* The inductive invariant of the hub under any interleaving.
Ownership == TypeOK /\ SoleOwner /\ OwnedNotCancelled /\ CancelledStarted

\* Init establishes the types.
LEMMA InitTypeOK == Init => TypeOK
  BY HubConstants DEF Init, TypeOK, Kinds

\* No step of the hub or of a pump breaks the types.
LEMMA NextTypeOK == TypeOK /\ [Next]_vars => TypeOK'
<1> SUFFICES ASSUME TypeOK, [Next]_vars PROVE TypeOK'
  OBVIOUS
<1> USE HubConstants DEF TypeOK, Kinds
<1>1. ASSUME NEW c \in Callers, NEW ch \in Channels, Deactivate(c, ch)
      PROVE  TypeOK'
  BY <1>1 DEF Deactivate, RemoveAndStop, callVars, pumpVars
<1>2. ASSUME NEW c \in Callers, NEW ch \in Channels, NEW k \in Kinds,
             ActivateTurnedAway(c, ch, k)
      PROVE  TypeOK'
  BY <1>2 DEF ActivateTurnedAway, RemoveAndStop, callVars, pumpVars
<1>3. ASSUME NEW c \in Callers, NEW ch \in Channels, NEW k \in Kinds,
             ActivateBegin(c, ch, k)
      PROVE  TypeOK'
  BY <1>3 DEF ActivateBegin, RemoveAndStop, pumpVars
<1>4. ASSUME NEW c \in Callers, StartPump(c)
      PROVE  TypeOK'
  BY <1>4 DEF StartPump
<1>5. ASSUME NEW c \in Callers, StartUnsupported(c)
      PROVE  TypeOK'
  BY <1>5 DEF StartUnsupported, pumpVars
<1>6. ASSUME NEW c \in Callers, StartFails(c)
      PROVE  TypeOK'
  BY <1>6 DEF StartFails, pumpVars
<1>7. ASSUME NEW c \in Callers, Insert(c)
      PROVE  TypeOK'
  BY <1>7 DEF Insert, pumpVars
<1>8. ASSUME NEW p \in Pumps, PumpHonoursCancel(p) \/ PumpDies(p)
      PROVE  TypeOK'
  BY <1>8 DEF PumpHonoursCancel, PumpDies, callVars
<1>9. CASE UNCHANGED vars
  BY <1>9 DEF vars
<1> QED
  BY <1>1, <1>2, <1>3, <1>4, <1>5, <1>6, <1>7, <1>8, <1>9 DEF Next, CallerStep

\* The hub's state always has the declared types, whoever calls it.
THEOREM TypeCorrect == Spec => []TypeOK
<1>1. Init => TypeOK
  BY InitTypeOK
<1>2. TypeOK /\ [Next]_vars => TypeOK'
  BY NextTypeOK
<1> QED
  BY <1>1, <1>2, PTL DEF Spec

-----------------------------------------------------------------------------
\* Nobody owns anything at first.
LEMMA InitOwnership == Init => Ownership
<1> SUFFICES ASSUME Init PROVE SoleOwner /\ OwnedNotCancelled /\ CancelledStarted
  BY InitTypeOK DEF Ownership
<1> QED
  BY HubConstants DEF Init, SoleOwner, OwnedNotCancelled, CancelledStarted, Owned, Registered

\* Emptying an entry and cancelling its pump takes ownership from that pump
\* only: by SoleOwner no other entry and no caller has it.
LEMMA StopKeepsOwnership ==
  ASSUME Ownership, NEW ch \in Channels,
         RemoveAndStop(ch), UNCHANGED <<held, task, chan>>
  PROVE  SoleOwner' /\ OwnedNotCancelled' /\ CancelledStarted'
<1> USE HubConstants DEF Ownership, TypeOK, RemoveAndStop
<1>1. SoleOwner'
  BY DEF SoleOwner
<1>2. ASSUME NEW p \in Pumps, Owned(p)'
      PROVE  Serving(p)'
  <2>1. Owned(p) /\ p # active[ch]
    BY <1>2 DEF Owned, Registered, SoleOwner
  <2> QED
    BY <2>1 DEF OwnedNotCancelled, Serving
<1>3. CancelledStarted'
  <2>1. active[ch] \in Pumps => Owned(active[ch])
    BY DEF Owned, Registered
  <2> QED
    BY <2>1 DEF CancelledStarted, OwnedNotCancelled, Serving
<1> QED
  BY <1>1, <1>2, <1>3 DEF OwnedNotCancelled

\* Ownership is inductive: start_pump hands out a fresh pump to one caller,
\* and insert moves it from the caller's hands into the map.
LEMMA NextOwnership == Ownership /\ [Next]_vars => Ownership'
<1> SUFFICES ASSUME Ownership, [Next]_vars
             PROVE  SoleOwner' /\ OwnedNotCancelled' /\ CancelledStarted'
  BY NextTypeOK DEF Ownership
<1>1. ASSUME NEW c \in Callers, NEW ch \in Channels, Deactivate(c, ch)
      PROVE  SoleOwner' /\ OwnedNotCancelled' /\ CancelledStarted'
  BY <1>1, StopKeepsOwnership DEF Deactivate, callVars, pumpVars
<1>2. ASSUME NEW c \in Callers, NEW ch \in Channels, NEW k \in Kinds,
             ActivateTurnedAway(c, ch, k)
      PROVE  SoleOwner' /\ OwnedNotCancelled' /\ CancelledStarted'
  BY <1>2, StopKeepsOwnership DEF ActivateTurnedAway, callVars, pumpVars
<1>3. ASSUME NEW c \in Callers, NEW ch \in Channels, NEW k \in Kinds,
             ActivateBegin(c, ch, k)
      PROVE  SoleOwner' /\ OwnedNotCancelled' /\ CancelledStarted'
  BY <1>3, StopKeepsOwnership DEF ActivateBegin, pumpVars
<1>4. ASSUME NEW c \in Callers, StartPump(c)
      PROVE  SoleOwner' /\ OwnedNotCancelled' /\ CancelledStarted'
  <2> USE HubConstants DEF Ownership, TypeOK
  <2>1. PICK p \in Pumps :
          /\ task[p] = "unborn"
          /\ task' = [task EXCEPT ![p] = "running"]
          /\ chan' = [chan EXCEPT ![p] = target[c]]
          /\ held' = [held EXCEPT ![c] = p]
    BY <1>4 DEF StartPump
  <2>2. UNCHANGED <<active, cancelled>> /\ pc[c] = "starting"
    BY <1>4 DEF StartPump
  <2>3. ~Owned(p)
    BY <2>1 DEF OwnedNotCancelled, Serving
  <2>4. p \notin cancelled
    BY <2>1 DEF CancelledStarted
  <2>5. SoleOwner'
    BY <2>1, <2>2, <2>3 DEF SoleOwner, Owned, Registered
  <2>6. OwnedNotCancelled'
    BY <2>1, <2>2, <2>4 DEF OwnedNotCancelled, Owned, Registered, Serving
  <2>7. CancelledStarted'
    BY <2>1, <2>2 DEF CancelledStarted
  <2> QED
    BY <2>5, <2>6, <2>7
<1>5. ASSUME NEW c \in Callers, StartUnsupported(c) \/ StartFails(c)
      PROVE  SoleOwner' /\ OwnedNotCancelled' /\ CancelledStarted'
  BY <1>5 DEF StartUnsupported, StartFails, pumpVars, Ownership, TypeOK,
     SoleOwner, OwnedNotCancelled, CancelledStarted, Owned, Registered, Serving
<1>6. ASSUME NEW c \in Callers, Insert(c)
      PROVE  SoleOwner' /\ OwnedNotCancelled' /\ CancelledStarted'
  <2> USE HubConstants DEF Ownership, TypeOK
  <2>1. SoleOwner'
    BY <1>6 DEF Insert, pumpVars, SoleOwner
  <2>2. ASSUME NEW p \in Pumps, Owned(p)' PROVE Owned(p)
    BY <1>6, <2>2 DEF Insert, Owned, Registered
  <2>3. OwnedNotCancelled'
    BY <1>6, <2>2 DEF Insert, pumpVars, OwnedNotCancelled, Serving
  <2>4. CancelledStarted'
    BY <1>6 DEF Insert, pumpVars, CancelledStarted
  <2> QED
    BY <2>1, <2>3, <2>4
<1>7. ASSUME NEW p \in Pumps, PumpHonoursCancel(p) \/ PumpDies(p)
      PROVE  SoleOwner' /\ OwnedNotCancelled' /\ CancelledStarted'
  BY <1>7 DEF PumpHonoursCancel, PumpDies, callVars, Ownership, TypeOK,
     SoleOwner, OwnedNotCancelled, CancelledStarted, Owned, Registered, Serving
<1>8. CASE UNCHANGED vars
  BY <1>8 DEF vars, Ownership, SoleOwner, OwnedNotCancelled, CancelledStarted, Owned, Registered, Serving
<1> QED
  BY <1>1, <1>2, <1>3, <1>4, <1>5, <1>6, <1>7, <1>8 DEF Next, CallerStep

\* However the callers interleave, a handle is in exactly one place and a
\* pump somebody owns was never told to stop (hub.rs activate, deactivate).
THEOREM HandlesSafe == Spec => []HandlesSound
<1>1. Ownership => HandlesSound
  BY DEF Ownership, HandlesSound
<1> QED
  BY InitOwnership, NextOwnership, <1>1, PTL DEF Spec

-----------------------------------------------------------------------------
\* While somebody activates an id, the map holds no pump under it.
EmptyWhileActivating ==
  \A c \in Callers : pc[c] # "idle" => active[target[c]] \notin Pumps

\* Every pump that was started and not told to stop has an owner.
NoOrphan == \A p \in Pumps : Serving(p) => Owned(p)

\* The inductive invariant of the hub under serial callers.
SerialInv == Ownership /\ Exclusive /\ EmptyWhileActivating /\ NoOrphan

\* Nothing is started and nobody is busy at first.
LEMMA InitSerialInv == Init => SerialInv
<1> SUFFICES ASSUME Init PROVE Exclusive /\ EmptyWhileActivating /\ NoOrphan
  BY InitOwnership DEF SerialInv
<1> QED
  BY HubConstants DEF Init, Exclusive, Busy, EmptyWhileActivating, NoOrphan, Serving

\* Emptying an entry orphans nothing: the only pump it disowns is cancelled.
LEMMA StopKeepsNoOrphan ==
  ASSUME TypeOK, NoOrphan, NEW ch \in Channels,
         RemoveAndStop(ch), UNCHANGED <<held, task, chan>>
  PROVE  NoOrphan'
<1> SUFFICES ASSUME NEW p \in Pumps, Serving(p)' PROVE Owned(p)'
  BY DEF NoOrphan
<1>1. Owned(p) /\ p # active[ch]
  BY DEF RemoveAndStop, Serving, NoOrphan
<1> QED
  BY <1>1, HubConstants DEF RemoveAndStop, Owned, Registered, TypeOK

\* Under serial callers nothing is orphaned: insert finds the entry empty,
\* because nobody else was inside activate for the same id.
LEMMA NextSerialInv == SerialInv /\ [SerialNext]_vars => SerialInv'
<1> SUFFICES ASSUME SerialInv, [SerialNext]_vars
             PROVE  Exclusive' /\ EmptyWhileActivating' /\ NoOrphan'
  BY NextOwnership DEF SerialInv, SerialNext
<1>0. Exclusive'
  BY DEF SerialInv, SerialNext, vars, Exclusive, Busy
<1> USE HubConstants DEF SerialInv, Ownership, TypeOK
<1>1. ASSUME NEW c \in Callers, NEW ch \in Channels, Deactivate(c, ch)
      PROVE  EmptyWhileActivating' /\ NoOrphan'
  BY <1>1, StopKeepsNoOrphan
     DEF Deactivate, callVars, pumpVars, EmptyWhileActivating, RemoveAndStop
<1>2. ASSUME NEW c \in Callers, NEW ch \in Channels, NEW k \in Kinds,
             ActivateTurnedAway(c, ch, k)
      PROVE  EmptyWhileActivating' /\ NoOrphan'
  BY <1>2, StopKeepsNoOrphan
     DEF ActivateTurnedAway, callVars, pumpVars, EmptyWhileActivating, RemoveAndStop
<1>3. ASSUME NEW c \in Callers, NEW ch \in Channels, NEW k \in Kinds,
             ActivateBegin(c, ch, k)
      PROVE  EmptyWhileActivating' /\ NoOrphan'
  BY <1>3, StopKeepsNoOrphan
     DEF ActivateBegin, pumpVars, EmptyWhileActivating, RemoveAndStop
<1>4. ASSUME NEW c \in Callers, StartPump(c)
      PROVE  EmptyWhileActivating' /\ NoOrphan'
  <2>1. PICK p \in Pumps :
          /\ task[p] = "unborn"
          /\ task' = [task EXCEPT ![p] = "running"]
          /\ held' = [held EXCEPT ![c] = p]
    BY <1>4 DEF StartPump
  <2>2. held[c] = NoPump
    BY <1>4 DEF StartPump
  <2>3. EmptyWhileActivating'
    BY <1>4 DEF StartPump, EmptyWhileActivating
  <2>4. NoOrphan'
    BY <1>4, <2>1, <2>2 DEF StartPump, NoOrphan, Serving, Owned, Registered
  <2> QED
    BY <2>3, <2>4
<1>5. ASSUME NEW c \in Callers, StartUnsupported(c) \/ StartFails(c)
      PROVE  EmptyWhileActivating' /\ NoOrphan'
  BY <1>5 DEF StartUnsupported, StartFails, pumpVars,
     EmptyWhileActivating, NoOrphan, Serving, Owned, Registered
<1>6. ASSUME NEW c \in Callers, Insert(c)
      PROVE  EmptyWhileActivating' /\ NoOrphan'
  <2>1. pc[c] = "inserting" /\ target[c] \in Channels /\ active[target[c]] \notin Pumps
    BY <1>6 DEF Insert, EmptyWhileActivating
  <2>2. EmptyWhileActivating'
    <3> SUFFICES ASSUME NEW d \in Callers, pc'[d] # "idle"
                 PROVE  active'[target'[d]] \notin Pumps
      BY DEF EmptyWhileActivating
    <3>1. d # c /\ pc[d] # "idle" /\ target'[d] = target[d] /\ target[d] \in Channels
      BY <1>6 DEF Insert
    <3>2. target[d] # target[c]
      BY <2>1, <3>1 DEF Exclusive, Busy
    <3> QED
      BY <1>6, <3>1, <3>2 DEF Insert, EmptyWhileActivating
  <2>3. ASSUME NEW p \in Pumps, Owned(p) PROVE Owned(p)'
    BY <1>6, <2>1, <2>3 DEF Insert, Owned, Registered
  <2> QED
    BY <1>6, <2>2, <2>3 DEF Insert, pumpVars, NoOrphan, Serving
<1>7. ASSUME NEW p \in Pumps, PumpHonoursCancel(p) \/ PumpDies(p)
      PROVE  EmptyWhileActivating' /\ NoOrphan'
  BY <1>7 DEF PumpHonoursCancel, PumpDies, callVars,
     EmptyWhileActivating, NoOrphan, Serving, Owned, Registered
<1>8. CASE UNCHANGED vars
  BY <1>0, <1>8 DEF vars, EmptyWhileActivating, NoOrphan, Serving, Owned, Registered
<1>9. CASE SerialNext
  <2>1. Next
    BY <1>9 DEF SerialNext
  <2> QED
    BY <2>1, <1>0, <1>1, <1>2, <1>3, <1>4, <1>5, <1>6, <1>7 DEF Next, CallerStep
<1> QED
  BY <1>0, <1>8, <1>9

\* With callers that take turns per channel id, a pump whose handle is gone
\* was cancelled: no reload leaves a pump behind (hub.rs:223-264).
THEOREM SerialNoOrphans == SerialSpec => []DroppedHandleCancels
<1>1. SerialInv => DroppedHandleCancels
  BY DEF SerialInv, NoOrphan, Serving, DroppedHandleCancels
<1> QED
  BY InitSerialInv, NextSerialInv, <1>1, PTL DEF SerialSpec

\* Two owners for the same id would be two entries, two busy callers, or a
\* busy caller beside a registered pump.
LEMMA SerialInvOnePump == SerialInv => OnePumpPerChannel
<1> SUFFICES ASSUME SerialInv, NEW p \in Pumps, NEW q \in Pumps,
                    Serving(p), Serving(q), chan[p] = chan[q]
             PROVE  p = q
  BY DEF OnePumpPerChannel
<1> USE HubConstants DEF SerialInv, Ownership, TypeOK
<1>1. Owned(p) /\ Owned(q)
  BY DEF NoOrphan
<1>2. ASSUME NEW r \in Pumps, Owned(r)
      PROVE  \/ chan[r] \in Channels /\ active[chan[r]] = r
             \/ \E c \in Callers : held[c] = r /\ Busy(c, chan[r])
  BY <1>2 DEF Owned, Registered, SoleOwner, Busy
<1>3. ASSUME NEW c \in Callers, Busy(c, chan[p])
      PROVE  active[chan[p]] \notin Pumps
  BY <1>3 DEF Busy, EmptyWhileActivating
<1>4. ASSUME NEW c \in Callers, NEW d \in Callers,
             Busy(c, chan[p]), Busy(d, chan[p])
      PROVE  c = d
  BY <1>4 DEF Exclusive, Busy
<1>5. CASE \E c \in Callers : held[c] = p /\ Busy(c, chan[p])
  BY <1>1, <1>2, <1>3, <1>4, <1>5
<1>6. CASE chan[p] \in Channels /\ active[chan[p]] = p
  BY <1>1, <1>2, <1>3, <1>6
<1> QED
  BY <1>1, <1>2, <1>5, <1>6

\* With callers that take turns per channel id, a channel never has two
\* pumps that were not told to stop ("idempotent reload", hub.rs:224).
THEOREM SerialOnePump == SerialSpec => []OnePumpPerChannel
  BY InitSerialInv, NextSerialInv, SerialInvOnePump, PTL DEF SerialSpec

-----------------------------------------------------------------------------
\* The pump in a channel's slot is the one serving it.
SlotServes ==
  \A ch \in Channels :
    /\ slot[ch] \in Pumps \cup {NoPump}
    /\ \A p \in Pumps : slot[ch] = p <=> Serving(p) /\ chan[p] = ch

\* With one pump per channel the CHOOSE in slot has one candidate.
LEMMA SlotIsServing == OnePumpPerChannel => SlotServes
<1> SUFFICES ASSUME OnePumpPerChannel, NEW ch \in Channels
             PROVE  /\ slot[ch] \in Pumps \cup {NoPump}
                    /\ \A p \in Pumps : slot[ch] = p <=> Serving(p) /\ chan[p] = ch
  BY DEF SlotServes
<1>1. CASE \E p \in Pumps : Serving(p) /\ chan[p] = ch
  <2>1. slot[ch] = CHOOSE p \in Pumps : Serving(p) /\ chan[p] = ch
    BY <1>1 DEF slot
  <2>2. slot[ch] \in Pumps /\ Serving(slot[ch]) /\ chan[slot[ch]] = ch
    BY <1>1, <2>1
  <2> QED
    BY <2>2 DEF OnePumpPerChannel
<1>2. CASE ~\E p \in Pumps : Serving(p) /\ chan[p] = ch
  <2>1. slot[ch] = NoPump
    BY <1>2 DEF slot
  <2> QED
    BY <1>2, <2>1, HubConstants
<1> QED
  BY <1>1, <1>2

\* Nothing serves at first.
LEMMA InitImplementsSlots == Init => Slots!Init
  BY HubConstants DEF Init, Slots!Init, slot, started, Serving

\* Slots are functions on the channels, in both states of a step.
LEMMA SlotDomain == slot = [ch \in Channels |-> slot[ch]]
  BY DEF slot

\* Cancelling the pump of an entry empties its slot; without one in the
\* entry nothing serves that channel or the slot is left alone.
LEMMA StopImplementsSlots ==
  ASSUME TypeOK, SoleOwner, OwnedNotCancelled, SlotServes, SlotServes',
         slot' = [ch \in Channels |-> slot'[ch]],
         NEW ch \in Channels, RemoveAndStop(ch), UNCHANGED <<held, task, chan>>
  PROVE  [Slots!Next]_<<slot, started>>
<1> USE HubConstants DEF TypeOK, RemoveAndStop
<1>1. started' = started
  BY DEF started
<1>2. CASE active[ch] \in Pumps
  <2>1. Serving(active[ch]) /\ chan[active[ch]] = ch
    BY <1>2 DEF OwnedNotCancelled, Owned, Registered, SoleOwner
  <2>2. slot[ch] = active[ch] /\ slot[ch] # NoPump
    BY <1>2, <2>1 DEF SlotServes
  <2>3. \A p \in Pumps : Serving(p)' <=> Serving(p) /\ p # active[ch]
    BY <1>2 DEF Serving
  <2>4. slot'[ch] = NoPump
    BY <2>2, <2>3 DEF SlotServes
  <2>5. ASSUME NEW d \in Channels, d # ch PROVE slot'[d] = slot[d]
    BY <2>1, <2>3, <2>5 DEF SlotServes
  <2>6. slot' = [slot EXCEPT ![ch] = NoPump]
    BY <2>4, <2>5, SlotDomain
  <2> QED
    BY <1>1, <2>2, <2>6 DEF Slots!Next, Slots!Stop
<1>3. CASE active[ch] \notin Pumps
  <2>1. \A p \in Pumps : Serving(p)' <=> Serving(p)
    BY <1>3 DEF Serving
  <2>2. \A d \in Channels : slot'[d] = slot[d]
    BY <2>1 DEF SlotServes
  <2> QED
    BY <1>1, <2>2, SlotDomain
<1> QED
  BY <1>2, <1>3

\* Every step of the serially used hub is a step of PumpSlots or none at all.
LEMMA NextImplementsSlots ==
  SerialInv /\ SerialInv' /\ [SerialNext]_vars => [Slots!Next]_<<slot, started>>
<1> SUFFICES ASSUME SerialInv, SerialInv', [SerialNext]_vars
             PROVE  [Slots!Next]_<<slot, started>>
  OBVIOUS
<1> USE HubConstants DEF SerialInv, Ownership, TypeOK
<1>a. SlotServes /\ SlotServes'
  <2>1. OnePumpPerChannel /\ OnePumpPerChannel'
    BY SerialInvOnePump, PTL
  <2> QED
    BY <2>1, SlotIsServing, PTL
<1>b. slot' = [ch \in Channels |-> slot'[ch]]
  BY DEF slot
<1>c. ASSUME UNCHANGED cancelled,
             \A p \in Pumps : /\ task[p] = "unborn" <=> task'[p] = "unborn"
                              /\ chan'[p] = chan[p]
      PROVE  UNCHANGED <<slot, started>>
  <2>1. \A ch \in Channels : slot'[ch] = slot[ch]
    BY <1>a, <1>c DEF SlotServes, Serving
  <2>2. started' = started
    BY <1>c DEF started
  <2> QED
    BY <1>b, <2>1, <2>2, SlotDomain
<1>1. ASSUME NEW c \in Callers, NEW ch \in Channels, Deactivate(c, ch)
      PROVE  [Slots!Next]_<<slot, started>>
  BY <1>1, <1>a, <1>b, StopImplementsSlots DEF Deactivate, callVars, pumpVars
<1>2. ASSUME NEW c \in Callers, NEW ch \in Channels, NEW k \in Kinds,
             ActivateTurnedAway(c, ch, k)
      PROVE  [Slots!Next]_<<slot, started>>
  BY <1>2, <1>a, <1>b, StopImplementsSlots DEF ActivateTurnedAway, callVars, pumpVars
<1>3. ASSUME NEW c \in Callers, NEW ch \in Channels, NEW k \in Kinds,
             ActivateBegin(c, ch, k)
      PROVE  [Slots!Next]_<<slot, started>>
  BY <1>3, <1>a, <1>b, StopImplementsSlots DEF ActivateBegin, pumpVars
<1>4. ASSUME NEW c \in Callers, StartPump(c)
      PROVE  [Slots!Next]_<<slot, started>>
  <2> DEFINE ch == target[c]
  <2>1. PICK p \in Pumps :
          /\ task[p] = "unborn"
          /\ task' = [task EXCEPT ![p] = "running"]
          /\ chan' = [chan EXCEPT ![p] = ch]
    BY <1>4 DEF StartPump
  <2>2. ch \in Channels /\ Busy(c, ch) /\ held[c] = NoPump /\ UNCHANGED cancelled
    BY <1>4 DEF StartPump, Busy
  <2>3. \A q \in Pumps : Serving(q) => chan[q] # ch
    <3> SUFFICES ASSUME NEW q \in Pumps, Serving(q), chan[q] = ch PROVE FALSE
      OBVIOUS
    <3>1. Owned(q)
      BY DEF NoOrphan
    <3>2. CASE Registered(q)
      BY <2>2, <3>2 DEF Registered, SoleOwner, EmptyWhileActivating, Busy
    <3>3. ASSUME NEW d \in Callers, held[d] = q PROVE FALSE
      BY <2>2, <3>3 DEF Exclusive, Busy
    <3> QED
      BY <3>1, <3>2, <3>3 DEF Owned
  <2>4. slot[ch] = NoPump
    BY <1>a, <2>2, <2>3 DEF SlotServes
  <2>5. p \notin started /\ started' = started \cup {p}
    BY <2>1 DEF started
  <2>6. p \notin cancelled
    BY <2>1 DEF CancelledStarted
  <2>7. slot'[ch] = p
    BY <1>a, <2>1, <2>2, <2>6 DEF SlotServes, Serving
  <2>8. ASSUME NEW d \in Channels, d # ch PROVE slot'[d] = slot[d]
    <3>1. \A q \in Pumps : Serving(q)' /\ chan'[q] = d <=> Serving(q) /\ chan[q] = d
      BY <2>1, <2>2, <2>8 DEF Serving
    <3> QED
      BY <1>a, <3>1 DEF SlotServes
  <2>9. slot' = [slot EXCEPT ![ch] = p]
    BY <1>b, <2>2, <2>7, <2>8, SlotDomain
  <2> QED
    BY <2>2, <2>4, <2>5, <2>9 DEF Slots!Next, Slots!Start
<1>5. ASSUME NEW c \in Callers, StartUnsupported(c) \/ StartFails(c) \/ Insert(c)
      PROVE  [Slots!Next]_<<slot, started>>
  BY <1>5, <1>c DEF StartUnsupported, StartFails, Insert, pumpVars
<1>6. ASSUME NEW p \in Pumps, PumpHonoursCancel(p) \/ PumpDies(p)
      PROVE  [Slots!Next]_<<slot, started>>
  BY <1>6, <1>c DEF PumpHonoursCancel, PumpDies
<1>7. CASE UNCHANGED vars
  BY <1>7, <1>c DEF vars
<1>8. CASE SerialNext
  <2>1. Next
    BY <1>8 DEF SerialNext
  <2> QED
    BY <2>1, <1>1, <1>2, <1>3, <1>4, <1>5, <1>6 DEF Next, CallerStep
<1> QED
  BY <1>7, <1>8

\* The hub, used serially, implements PumpSlots: pumps take turns in their
\* channel's slot and a reload empties it before it fills it again.
THEOREM SerialImplementsSlots == SerialSpec => ImplementsSlots
  BY InitImplementsSlots, InitSerialInv, NextSerialInv, NextImplementsSlots, PTL
     DEF SerialSpec, ImplementsSlots, Slots!Spec

-----------------------------------------------------------------------------
(* ---- the pumps' loops and the config store ---- *)


\* A pump's loop touches the hub's variables only to end.
LEMMA PumpStepIsHubStep ==
  ASSUME NEW p \in Pumps, PumpStep(p) \/ PollFails(p) \/ GivesUp(p)
  PROVE  Next \/ UNCHANGED vars
<1>1. CASE PumpHonoursCancel(p) \/ PumpDies(p)
  BY <1>1 DEF Next
<1>2. CASE Leave(p, "top") \/ PollCancelled(p) \/ GivesUp(p)
  BY <1>1, <1>2 DEF Leave, PollCancelled, GivesUp
<1>3. CASE Woken(p)
  BY <1>1, <1>3 DEF Woken, Leave
<1>4. CASE Top(p) \/ Answer(p) \/ AnswerEmpty(p) \/ PollFails(p)
  BY <1>4 DEF Top, Answer, AnswerEmpty, PollFails
<1>5. CASE Persist(p) \/ Forward(p)
  BY <1>5 DEF Persist, Forward
<1> QED
  BY <1>2, <1>3, <1>4, <1>5 DEF PumpStep

\* The hub's own steps are taken over as they are.
LEMMA ReloadStepIsHubStep == [ReloadNext]_rvars => [SerialNext]_vars
<1> SUFFICES ASSUME [ReloadNext]_rvars PROVE [SerialNext]_vars
  OBVIOUS
<1>1. CASE UNCHANGED rvars
  BY <1>1 DEF rvars
<1>2. CASE ReloadNext
  <2>1. Exclusive'
    BY <1>2 DEF ReloadNext
  <2>2. CASE HubStep
    BY <2>1, <2>2 DEF HubStep, SerialNext, Next, CallerStep
  <2>3. CASE \E c \in Callers, ch \in Channels, k \in Kinds : Begin(c, ch, k)
    BY <2>1, <2>3 DEF Begin, SerialNext, Next
  <2>4. CASE \E c \in Callers : Spawn(c) \/ Refused(c)
    BY <2>1, <2>4 DEF Spawn, Refused, SerialNext, Next, CallerStep
  <2>5. CASE Edit \/ Write
    BY <2>5 DEF Edit, Write
  <2>6. CASE \E p \in Pumps : PumpStep(p) \/ PollFails(p) \/ GivesUp(p)
    BY <2>1, <2>6, PumpStepIsHubStep DEF SerialNext
  <2> QED
    BY <1>2, <2>2, <2>3, <2>4, <2>5, <2>6 DEF ReloadNext
<1> QED
  BY <1>1, <1>2

\* The hub with the loops of the poll pumps and their config write-back behind it takes
\* no step that the hub by itself would not take, used serially (hub.rs activate,
\* deactivate; the pumps of telegram_bot.rs and weclaw.rs).
THEOREM ReloadIsSerial == ReloadSpec => SerialSpec
<1>1. ReloadInit => Init
  BY DEF ReloadInit
<1> QED
  BY <1>1, ReloadStepIsHubStep, PTL DEF ReloadSpec, SerialSpec

\* With pumps that poll, forward and write back, a reload still leaves each handle
\* with one owner, and what an owner has was never told to stop (hub.rs activate,
\* deactivate).
THEOREM ReloadHandlesSafe == ReloadSpec => []HandlesSound
<1>1. SerialSpec => Spec
  <2>1. [SerialNext]_vars => [Next]_vars
    BY DEF SerialNext
  <2> QED
    BY <2>1, PTL DEF SerialSpec, Spec
<1> QED
  BY <1>1, ReloadIsSerial, HandlesSafe, PTL

\* And the pumps take turns in their channel's slot, as PumpSlots says, while two
\* generations may be at work.
THEOREM ReloadImplementsSlots == ReloadSpec => ImplementsSlots
  BY ReloadIsSerial, SerialImplementsSlots, PTL

-----------------------------------------------------------------------------
\* A config names an edit that was made and a message that was written.
KnownConfigs == [edit : 0..edits, cursor : 0..written]

\* What the loops hold: types, and a batch is a run of messages that were written,
\* kept from the answer of a poll until it is forwarded.
LoopInv ==
  /\ at \in [Pumps -> {"none", "top", "polling", "sleep", "persist", "forward", "ended"}]
  /\ \A p \in Pumps : at[p] = "none" <=> task[p] = "unborn"
  /\ \A p \in Pumps : at[p] = "ended" <=> task[p] = "ended"
  /\ mine \in [Pumps -> KnownConfigs]
  /\ given \in [Callers -> KnownConfigs]
  /\ stored \in KnownConfigs
  /\ edits \in 0..MaxEdits /\ setBack \in 0..edits
  /\ written \in 0..MaxMessages /\ confirmed \in 0..written
  /\ emitted \subseteq 1..written
  /\ faults \in 0..MaxFaults
  /\ batch \in [Pumps -> SUBSET (1..written)]
  /\ \A p \in Pumps :
       IF at[p] \in {"persist", "forward"}
       THEN \E first, last \in 1..written : first <= last /\ batch[p] = first..last
       ELSE batch[p] = {}

\* Those are the types of the specification, for configs within the bounds.
LEMMA LoopInvTypes == TypeOK /\ LoopInv => ReloadTypeOK
<1> SUFFICES ASSUME TypeOK, LoopInv PROVE ReloadTypeOK
  OBVIOUS
<1>1. KnownConfigs \subseteq Configs
  BY ReloadConstants DEF LoopInv, KnownConfigs, Configs
<1>2. /\ mine \in [Pumps -> Configs]
      /\ given \in [Callers -> Configs]
      /\ stored \in Configs
  BY <1>1 DEF LoopInv
<1>3. ASSUME NEW p \in Pumps PROVE batch[p] # {} <=> at[p] \in {"persist", "forward"}
  <2>1. ASSUME NEW first \in 1..written, NEW last \in 1..written, first <= last
        PROVE  first..last # {}
    <3>1. first \in first..last
      BY <2>1, ReloadConstants DEF LoopInv
    <3> QED
      BY <3>1
  <2> QED
    BY <2>1 DEF LoopInv
<1> QED
  BY <1>2, <1>3 DEF LoopInv, ReloadTypeOK

\* No pump runs at first and nothing was written.
LEMMA InitLoopInv == ReloadInit => LoopInv
BY ReloadConstants DEF ReloadInit, Init, LoopInv, KnownConfigs, Blank

\* The config of a caller that activates nothing.
LEMMA BlankKnown == LoopInv => Blank \in KnownConfigs
  BY ReloadConstants DEF LoopInv, Blank, KnownConfigs

\* A cursor that moves to a message that was written stays a known config's.
LEMMA CursorKnown ==
  ASSUME NEW f \in KnownConfigs, NEW n \in 0..written
  PROVE  [f EXCEPT !.cursor = n] \in KnownConfigs
  BY DEF KnownConfigs

\* The hub's own steps leave the loops alone (hub.rs deactivate, activate).
LEMMA HubStepKeepsLoop ==
  ASSUME TypeOK, LoopInv, HubStep \/ UNCHANGED rvars
  PROVE  LoopInv'
<1>1. UNCHANGED <<task, driver, loop, config, platform, past>>
  BY DEF HubStep, Deactivate, ActivateTurnedAway, StartUnsupported, Insert, pumpVars, rvars, vars
<1> QED
  BY <1>1 DEF LoopInv, KnownConfigs, loop, config, store, platform, past

\* A caller that begins an activation reads a config from the store; one that is
\* refused forgets it.
LEMMA BeginKeepsLoop ==
  ASSUME TypeOK, LoopInv, NEW c \in Callers, NEW ch \in Channels, NEW k \in Kinds, Begin(c, ch, k) \/ Refused(c)
  PROVE  LoopInv'
<1>1. UNCHANGED <<task, driver, loop, store, platform, past>>
  BY DEF Begin, Refused, ActivateBegin, StartFails, pumpVars
<1>2. given' \in [Callers -> KnownConfigs]
  <2>1. \E f \in KnownConfigs : given' = [given EXCEPT ![c] = f]
    BY BlankKnown DEF Begin, Refused, LoopInv
  <2> QED
    BY <2>1 DEF LoopInv
<1> QED
  BY <1>1, <1>2 DEF LoopInv, KnownConfigs, loop, store, platform, past

\* start_pump gives the new task the caller's config, and it begins at the top.
LEMMA SpawnKeepsLoop ==
  ASSUME TypeOK, LoopInv, NEW c \in Callers, Spawn(c)
  PROVE  LoopInv'
<1>1. UNCHANGED <<driver, batch, store, platform, past>>
  BY DEF Spawn
<1>2. PICK q \in Pumps : task[q] = "unborn" /\ task' = [task EXCEPT ![q] = "running"]
  BY DEF Spawn, StartPump
<1>3. /\ at' = [at EXCEPT ![q] = "top"]
      /\ mine' = [mine EXCEPT ![q] = Started(c)]
  BY <1>2 DEF Spawn, TypeOK
<1>4. Started(c) \in KnownConfigs
  <2>1. 0 \in 0..written /\ given[c] \in KnownConfigs
    BY ReloadConstants DEF LoopInv
  <2> QED
    BY <2>1, CursorKnown DEF Started
<1>5. mine' \in [Pumps -> KnownConfigs] /\ given' \in [Callers -> KnownConfigs]
  BY <1>3, <1>4, BlankKnown DEF Spawn, LoopInv
<1> QED
  BY <1>1, <1>2, <1>3, <1>5 DEF LoopInv, KnownConfigs, TypeOK, store, platform, past

\* An edit has a number no edit had, and a message comes after all others.
LEMMA EditKeepsLoop ==
  ASSUME TypeOK, LoopInv, Edit \/ Write
  PROVE  LoopInv'
<1>1. UNCHANGED <<task, loop, given, setBack, confirmed, past>>
  BY DEF Edit, Write, vars, config, store, platform
<1>2. /\ edits' \in 0..MaxEdits /\ written' \in 0..MaxMessages
      /\ edits \in 0..edits' /\ written \in 0..written'
  BY ReloadConstants DEF Edit, Write, LoopInv, config, store, platform
<1>3. KnownConfigs \subseteq KnownConfigs' /\ 1..written \subseteq 1..written'
  BY <1>2 DEF LoopInv, KnownConfigs
<1>4. stored' \in KnownConfigs'
  BY <1>2 DEF Edit, Write, LoopInv, KnownConfigs, config, store, platform
<1>5. setBack \in 0..edits' /\ confirmed \in 0..written'
  BY <1>2 DEF LoopInv
<1>6. mine \in [Pumps -> KnownConfigs'] /\ given \in [Callers -> KnownConfigs']
  BY <1>3 DEF LoopInv
<1> QED
  BY <1>1, <1>2, <1>3, <1>4, <1>5, <1>6 DEF LoopInv, loop, past

\* A step of a loop that neither takes a batch nor gives one up.
LEMMA NoBatchKeepsLoop ==
  ASSUME TypeOK, LoopInv, NEW p \in Pumps,
         NEW from \in {"top", "polling", "sleep"},
         NEW to \in {"top", "polling", "sleep", "ended"},
         Go(p, from, to),
         to = "ended" => task' = [task EXCEPT ![p] = "ended"],
         to # "ended" => UNCHANGED task,
         confirmed' \in {confirmed, Offset(p)},
         faults' \in 0..MaxFaults,
         UNCHANGED <<mine, batch, config, written, emitted>>
  PROVE  LoopInv'
<1>1. Offset(p) \in 0..written
  BY DEF Offset, LoopInv, KnownConfigs
<1>2. confirmed' \in 0..written
  BY <1>1 DEF LoopInv
<1>3. at[p] = from /\ at' = [at EXCEPT ![p] = to] /\ at \in [Pumps -> {"none", "top", "polling", "sleep", "persist", "forward", "ended"}]
  BY DEF LoopInv, Go
<1>4. at' \in [Pumps -> {"none", "top", "polling", "sleep", "persist", "forward", "ended"}]
  BY <1>3
<1>5. /\ \A q \in Pumps : at'[q] = "none" <=> task'[q] = "unborn"
      /\ \A q \in Pumps : at'[q] = "ended" <=> task'[q] = "ended"
  BY <1>3 DEF LoopInv, TypeOK
<1>6. UNCHANGED <<mine, batch, given, stored, edits, setBack, written, emitted>>
  BY DEF config, store
<1>7. \A q \in Pumps : at'[q] \in {"persist", "forward"} <=> at[q] \in {"persist", "forward"}
  BY <1>3
<1>8. /\ batch' \in [Pumps -> SUBSET (1..written')]
      /\ \A q \in Pumps :
           IF at'[q] \in {"persist", "forward"}
           THEN \E first, last \in 1..written' : first <= last /\ batch'[q] = first..last
           ELSE batch'[q] = {}
  BY <1>6, <1>7 DEF LoopInv
<1>9. KnownConfigs' = KnownConfigs
  BY <1>6 DEF KnownConfigs
<1> QED
  BY <1>2, <1>4, <1>5, <1>6, <1>8, <1>9 DEF LoopInv

\* The steps of the loops that are of that kind.
LEMMA RestKeepsLoop ==
  ASSUME TypeOK, LoopInv, NEW p \in Pumps,
         \/ Leave(p, "top") \/ Top(p) \/ AnswerEmpty(p) \/ PollCancelled(p)
         \/ PollFails(p) \/ GivesUp(p) \/ Woken(p)
  PROVE  LoopInv'
<1>1. CASE Leave(p, "top") \/ Leave(p, "sleep")
  BY <1>1, NoBatchKeepsLoop DEF Leave, PumpHonoursCancel, platform, past, LoopInv
<1>2. CASE Top(p)
  BY <1>2, NoBatchKeepsLoop DEF Top, platform, past, LoopInv, vars
<1>3. CASE AnswerEmpty(p)
  BY <1>3, NoBatchKeepsLoop DEF AnswerEmpty, past, LoopInv, vars
<1>4. CASE PollCancelled(p)
  BY <1>4, NoBatchKeepsLoop DEF PollCancelled, PumpHonoursCancel, past, LoopInv
<1>5. CASE PollFails(p)
  BY <1>5, NoBatchKeepsLoop, ReloadConstants DEF PollFails, Fault, past, LoopInv, vars
<1>6. CASE GivesUp(p)
  BY <1>6, NoBatchKeepsLoop DEF GivesUp, PumpDies, platform, past, LoopInv
<1>7. CASE Woken(p)
  <2>1. CASE Go(p, "sleep", "top") /\ UNCHANGED <<vars, driver, mine, batch, config, platform, past>>
    BY <2>1, NoBatchKeepsLoop DEF platform, past, LoopInv, vars
  <2> QED
    BY <1>1, <1>7, <2>1 DEF Woken
<1> QED
  BY <1>1, <1>2, <1>3, <1>4, <1>5, <1>6, <1>7

\* A poll is answered with a run of messages that begins after the cursor.
LEMMA AnswerKeepsLoop ==
  ASSUME TypeOK, LoopInv, NEW p \in Pumps, Answer(p)
  PROVE  LoopInv'
<1>1. Offset(p) \in 0..written /\ Newest(p) \in 0..written
  BY DEF Offset, Newest, LoopInv, KnownConfigs
<1>2. PICK last \in (Newest(p) + 1)..written :
       /\ batch' = [batch EXCEPT ![p] = (Newest(p) + 1)..last]
       /\ mine' = [mine EXCEPT ![p].cursor = IF driver = "weclaw" THEN last ELSE @]
  BY DEF Answer
<1>3. /\ last \in 1..written /\ Newest(p) + 1 \in 1..written /\ Newest(p) + 1 <= last
      /\ (Newest(p) + 1)..last \subseteq 1..written
  BY <1>1, <1>2 DEF LoopInv
<1>4. mine' \in [Pumps -> KnownConfigs]
  <2>1. CASE driver = "weclaw"
    <3>1. last \in 0..written /\ mine' = [mine EXCEPT ![p] = [mine[p] EXCEPT !.cursor = last]]
      BY <1>2, <1>3, <2>1
    <3> QED
      BY <3>1, CursorKnown DEF LoopInv
  <2>2. CASE driver # "weclaw"
    <3>1. mine[p].cursor \in 0..written
      BY DEF LoopInv, KnownConfigs
    <3>2. mine' = [mine EXCEPT ![p] = [mine[p] EXCEPT !.cursor = mine[p].cursor]]
      BY <1>2, <2>2
    <3> QED
      BY <3>1, <3>2, CursorKnown DEF LoopInv
  <2> QED
    BY <2>1, <2>2
<1>5. batch' \in [Pumps -> SUBSET (1..written)]
  BY <1>2, <1>3 DEF LoopInv
<1>6. UNCHANGED <<vars, config, written, past>> /\ confirmed' = Offset(p)
  BY DEF Answer
<1>7. PICK to \in {"persist", "forward"} : at[p] = "polling" /\ at' = [at EXCEPT ![p] = to]
  BY DEF Answer, Go
<1>8. \A q \in Pumps :
       IF at'[q] \in {"persist", "forward"}
       THEN \E f, l \in 1..written : f <= l /\ batch'[q] = f..l
       ELSE batch'[q] = {}
  <2> SUFFICES ASSUME NEW q \in Pumps
               PROVE  IF at'[q] \in {"persist", "forward"}
                      THEN \E f, l \in 1..written : f <= l /\ batch'[q] = f..l
                      ELSE batch'[q] = {}
    OBVIOUS
  <2>1. CASE q = p
    <3>1. batch'[p] = (Newest(p) + 1)..last /\ at'[p] = to
      BY <1>2, <1>7 DEF LoopInv
    <3> QED
      BY <1>3, <2>1, <3>1
  <2>2. CASE q # p
    BY <1>2, <1>7, <2>2 DEF LoopInv
  <2> QED
    BY <2>1, <2>2
<1>9. at' \in [Pumps -> {"none", "top", "polling", "sleep", "persist", "forward", "ended"}] /\ task' = task
  BY <1>6, <1>7 DEF LoopInv, vars
<1>10. \A q \in Pumps : (at'[q] = "none" <=> task[q] = "unborn") /\ (at'[q] = "ended" <=> task[q] = "ended")
  BY <1>7 DEF LoopInv
<1> QED
  BY <1>1, <1>4, <1>5, <1>6, <1>8, <1>9, <1>10 DEF LoopInv, KnownConfigs, config, store, past

\* A write-back puts a pump's own config in the store, or fails (weclaw.rs:228).
LEMMA PersistKeepsLoop ==
  ASSUME TypeOK, LoopInv, NEW p \in Pumps, Persist(p)
  PROVE  LoopInv'
<1>1. stored' \in KnownConfigs /\ setBack' \in 0..edits /\ faults' \in 0..MaxFaults
  BY ReloadConstants DEF Persist, SetsBack, Fault, LoopInv, KnownConfigs
<1>2. UNCHANGED <<vars, driver, mine, batch, given, edits, platform, emitted>> /\ Go(p, "persist", "forward")
  BY DEF Persist
<1> QED
  BY <1>1, <1>2 DEF LoopInv, KnownConfigs, Go, vars, platform

\* The greatest message of a run is its last.
LEMMA LastOfRun ==
  ASSUME NEW first \in Nat, NEW last \in Nat, first <= last
  PROVE  (CHOOSE m \in first..last : \A n \in first..last : n <= m) = last
OBVIOUS

\* Forwarding ends with the cursor at the last message of the batch.
LEMMA ForwardKeepsLoop ==
  ASSUME TypeOK, LoopInv, NEW p \in Pumps, Forward(p)
  PROVE  LoopInv'
<1>1. PICK first \in 1..written, last \in 1..written : first <= last /\ batch[p] = first..last
  BY DEF Forward, Go, LoopInv
<1>2. mine' = [mine EXCEPT ![p].cursor = last]
  <2>1. first \in Nat /\ last \in Nat
    BY DEF LoopInv
  <2>2. (CHOOSE m \in batch[p] : \A n \in batch[p] : n <= m) = last
    BY <1>1, <2>1, LastOfRun
  <2> QED
    BY <2>2 DEF Forward
<1>3. mine' \in [Pumps -> KnownConfigs]
  BY <1>2 DEF LoopInv, KnownConfigs
<1>4. emitted' \subseteq 1..written
  BY DEF Forward, LoopInv
<1> QED
  BY <1>3, <1>4 DEF Forward, LoopInv, KnownConfigs, Go, config, store, platform, vars

-----------------------------------------------------------------------------
\* A message needs no later pump: it was forwarded, or one at work has it.
Gone(m) == m \in emitted \/ \E p \in Pumps : Live(p) /\ m \in batch[p]
\* Nor does any message up to n.
Covered(n) == \A m \in 1..n : Gone(m)

\* Wherever a cursor is kept, by the platform, the store, a caller or a pump, all
\* messages it has passed are gone in that sense, and so are those before a batch.
CoverInv ==
  /\ Covered(confirmed)
  /\ Covered(stored.cursor)
  /\ \A c \in Callers : Covered(given[c].cursor)
  /\ \A p \in Pumps : Covered(mine[p].cursor)
  /\ \A p \in Pumps : \A m \in batch[p] : Covered(m)

\* A message stays gone while batches only move on to emitted and pumps that have
\* one keep at work.
LEMMA GoneStays ==
  ASSUME LoopInv, NEW m,
         \A p \in Pumps : m \in batch[p] => m \in batch'[p] \/ m \in emitted',
         \A p \in Pumps : at[p] \in {"persist", "forward"} /\ m \notin emitted' => at'[p] \in {"persist", "forward"},
         emitted \subseteq emitted',
         Gone(m)
  PROVE  Gone(m)'
BY DEF Gone, Live, LoopInv

\* Then a covered cursor stays covered.
LEMMA CoveredStays ==
  ASSUME NEW n, \A m : Gone(m) => Gone(m)', Covered(n)
  PROVE  Covered(n)'
BY DEF Covered

\* Telegram's offset begins before all messages, and passes none.
LEMMA ZeroCovered == Covered(0)
  BY DEF Covered

\* All cursors are at 0 at first.
LEMMA InitCoverInv == ReloadInit => CoverInv
BY ReloadConstants, ZeroCovered DEF ReloadInit, CoverInv, Blank, Covered

\* The offset a poll carries, and the message it asks from, are covered.
LEMMA OffsetCovered ==
  ASSUME LoopInv, CoverInv, NEW p \in Pumps
  PROVE  Covered(Offset(p)) /\ Covered(Newest(p))
BY DEF CoverInv, Offset, Newest

\* The hub hands a cursor on as it is, or sets it to 0; reloading stops no pump
\* from finishing its batch.
LEMMA HubKeepsCover ==
  ASSUME TypeOK, LoopInv, CoverInv,
         \/ HubStep \/ UNCHANGED rvars \/ Edit \/ Write
         \/ \E c \in Callers, ch \in Channels, k \in Kinds : Begin(c, ch, k)
         \/ \E c \in Callers : Spawn(c) \/ Refused(c)
  PROVE  CoverInv'
<1>1. UNCHANGED <<batch, emitted, confirmed>>
  BY DEF HubStep, Edit, Write, Begin, Spawn, Refused, loop, platform, past, rvars
<1>2. \A q \in Pumps : at[q] \in {"persist", "forward"} => at'[q] \in {"persist", "forward"}
  BY DEF HubStep, Edit, Write, Begin, Spawn, Refused, loop, rvars, StartPump, TypeOK, LoopInv
<1>3. \A m : Gone(m) => Gone(m)'
  BY <1>1, <1>2, GoneStays
<1>4. stored'.cursor = stored.cursor
  BY DEF HubStep, Edit, Write, Begin, Spawn, Refused, config, store, rvars, LoopInv, KnownConfigs
<1>5. ASSUME NEW c \in Callers PROVE Covered(given'[c].cursor)
  <2>1. given'[c].cursor \in {given[c].cursor, stored.cursor, 0}
    BY DEF HubStep, Edit, Write, Begin, Spawn, Refused, config, rvars, LoopInv, Blank
  <2> QED
    BY <2>1, ZeroCovered DEF CoverInv
<1>6. ASSUME NEW p \in Pumps PROVE Covered(mine'[p].cursor)
  <2>1. CASE \E c \in Callers : Spawn(c)
    <3>1. PICK c \in Callers : Spawn(c)
      BY <2>1
    <3>2. mine'[p] \in {mine[p], Started(c)}
      BY <3>1 DEF Spawn, LoopInv
    <3>3. Started(c).cursor \in {given[c].cursor, 0}
      BY DEF Started, LoopInv, KnownConfigs
    <3> QED
      BY <3>2, <3>3, ZeroCovered DEF CoverInv
  <2>2. CASE mine' = mine
    BY <2>2 DEF CoverInv
  <2> QED
    BY <2>1, <2>2 DEF HubStep, Edit, Write, Begin, Refused, loop, rvars
<1> QED
  BY <1>1, <1>3, <1>4, <1>5, <1>6, CoveredStays DEF CoverInv

\* Polls that bring nothing confirm an offset that is covered, and a write-back
\* stores one that is.
LEMMA PollKeepsCover ==
  ASSUME TypeOK, LoopInv, CoverInv, NEW p \in Pumps,
         \/ Leave(p, "top") \/ Top(p) \/ AnswerEmpty(p) \/ PollCancelled(p)
         \/ PollFails(p) \/ GivesUp(p) \/ Woken(p) \/ Persist(p)
  PROVE  CoverInv'
<1>1. UNCHANGED <<mine, batch, emitted, given>> /\ confirmed' \in {confirmed, Offset(p)} /\ stored' \in {stored, mine[p]}
  BY DEF Leave, Top, AnswerEmpty, PollCancelled, PollFails, GivesUp, Woken, Persist, config, store, platform, past
<1>2. \E from \in {"top", "polling", "sleep", "persist"}, to \in {"top", "polling", "sleep", "ended", "forward"} :
        Go(p, from, to) /\ (from = "persist" => to = "forward")
  BY DEF Leave, Top, AnswerEmpty, PollCancelled, PollFails, GivesUp, Woken, Persist
<1>3. \A m : Gone(m) => Gone(m)'
  BY <1>1, <1>2, GoneStays DEF Go, LoopInv
<1> QED
  BY <1>1, <1>3, CoveredStays, OffsetCovered DEF CoverInv

\* A batch begins right after a covered cursor, so its last message is covered.
LEMMA AnswerKeepsCover ==
  ASSUME TypeOK, LoopInv, CoverInv, NEW p \in Pumps, Answer(p)
  PROVE  CoverInv'
<1>1. PICK last \in (Newest(p) + 1)..written :
       /\ batch' = [batch EXCEPT ![p] = (Newest(p) + 1)..last]
       /\ mine' = [mine EXCEPT ![p].cursor = IF driver = "weclaw" THEN last ELSE @]
  BY DEF Answer
<1>2. UNCHANGED <<stored, given, emitted>> /\ confirmed' = Offset(p)
  BY DEF Answer, config, store, past
<1>3. PICK to \in {"persist", "forward"} : at[p] = "polling" /\ at' = [at EXCEPT ![p] = to]
  BY DEF Answer, Go
<1>4. batch[p] = {} /\ batch'[p] = (Newest(p) + 1)..last /\ at'[p] = to
  BY <1>1, <1>3 DEF LoopInv
<1>5. \A m : Gone(m) => Gone(m)'
  BY <1>1, <1>2, <1>3, <1>4, GoneStays DEF LoopInv
<1>6. ASSUME NEW n \in (Newest(p) + 1)..last PROVE Covered(n)'
  <2> SUFFICES ASSUME NEW m \in 1..n PROVE Gone(m)'
    BY DEF Covered
  <2>1. Newest(p) \in Nat
    BY DEF Newest, Offset, LoopInv, KnownConfigs
  <2>2. CASE m \in 1..Newest(p)
    BY <2>2, <1>5, OffsetCovered DEF Covered
  <2>3. CASE m \notin 1..Newest(p)
    BY <2>1, <2>3, <1>4 DEF Gone, Live
  <2> QED
    BY <2>2, <2>3
<1>7. last \in (Newest(p) + 1)..last
  BY DEF Newest, Offset, LoopInv, KnownConfigs
<1>8. Covered(last)'
  BY <1>6, <1>7
<1>9. ASSUME NEW q \in Pumps PROVE Covered(mine[q].cursor)'
  <2>1. PICK n : n = mine[q].cursor
    OBVIOUS
  <2>2. mine'[q].cursor \in {n, last}
    BY <1>1, <2>1 DEF LoopInv, KnownConfigs
  <2>3. Covered(n)'
    BY <1>5, <2>1, CoveredStays DEF CoverInv
  <2> QED
    BY <1>8, <2>2, <2>3
<1>10. ASSUME NEW q \in Pumps, NEW m \in batch'[q] PROVE Covered(m)'
  <2>1. CASE q = p
    BY <1>4, <1>6, <2>1
  <2>2. CASE q # p
    <3>1. m \in batch[q]
      BY <1>1, <2>2 DEF LoopInv
    <3> QED
      BY <3>1, <1>5, CoveredStays DEF CoverInv
  <2> QED
    BY <2>1, <2>2
<1>11. Covered(confirmed)'
  <2>1. PICK n : n = Offset(p)
    OBVIOUS
  <2>2. Covered(n)'
    BY <1>5, <2>1, OffsetCovered, CoveredStays
  <2> QED
    BY <1>2, <2>1, <2>2
<1>12. Covered(stored.cursor)'
  BY <1>2, <1>5, CoveredStays DEF CoverInv
<1>13. \A c \in Callers : Covered(given[c].cursor)'
  BY <1>2, <1>5, CoveredStays DEF CoverInv
<1> QED
  BY <1>9, <1>10, <1>11, <1>12, <1>13 DEF CoverInv

\* A batch goes to emitted whole, before its cursor moves past it.
LEMMA ForwardKeepsCover ==
  ASSUME TypeOK, LoopInv, CoverInv, NEW p \in Pumps, Forward(p)
  PROVE  CoverInv'
<1>1. PICK first \in 1..written, last \in 1..written : first <= last /\ batch[p] = first..last
  BY DEF Forward, Go, LoopInv
<1>2. last \in batch[p] /\ mine' = [mine EXCEPT ![p].cursor = last]
  <2>1. first \in Nat /\ last \in Nat
    BY DEF LoopInv
  <2>2. (CHOOSE m \in batch[p] : \A n \in batch[p] : n <= m) = last
    BY <1>1, <2>1, LastOfRun
  <2>3. last \in first..last
    BY <1>1, <2>1
  <2> QED
    BY <1>1, <2>2, <2>3 DEF Forward
<1>3. UNCHANGED <<stored, given, confirmed>> /\ emitted' = emitted \cup batch[p]
  BY DEF Forward, config, store, platform
<1>4. batch' = [batch EXCEPT ![p] = {}] /\ at' = [at EXCEPT ![p] = "top"]
  BY DEF Forward, Go
<1>5. \A m : Gone(m) => Gone(m)'
  <2> SUFFICES ASSUME NEW m, Gone(m) PROVE Gone(m)'
    OBVIOUS
  <2> QED
    BY <1>3, <1>4 DEF Gone, Live, LoopInv
<1>6. ASSUME NEW q \in Pumps PROVE Covered(mine[q].cursor)'
  <2>1. PICK n : n = mine[q].cursor
    OBVIOUS
  <2>2. mine'[q].cursor \in {n, last}
    BY <1>2, <2>1 DEF LoopInv, KnownConfigs
  <2>3. Covered(n)' /\ Covered(last)'
    BY <1>2, <1>5, <2>1, CoveredStays DEF CoverInv
  <2> QED
    BY <2>2, <2>3
<1>7. ASSUME NEW q \in Pumps, NEW m \in batch'[q] PROVE Covered(m)'
  <2>1. m \in batch[q]
    BY <1>4 DEF LoopInv
  <2> QED
    BY <2>1, <1>5, CoveredStays DEF CoverInv
<1>8. Covered(confirmed)' /\ Covered(stored.cursor)' /\ \A c \in Callers : Covered(given[c].cursor)'
  BY <1>3, <1>5, CoveredStays DEF CoverInv
<1> QED
  BY <1>6, <1>7, <1>8 DEF CoverInv

-----------------------------------------------------------------------------
\* Serial callers: at most one pump serves, none while a caller is about to start one, and
\* one caller at a time is.
LEMMA OneGeneration ==
  ASSUME SerialInv
  PROVE  /\ \A p, q \in Pumps : Serving(p) /\ Serving(q) => p = q
         /\ \A c \in Callers, p \in Pumps : pc[c] = "starting" => ~Serving(p)
         /\ \A c, d \in Callers : pc[c] = "starting" /\ pc[d] = "starting" => c = d
<1> USE HubConstants, ReloadConstants DEF SerialInv, Ownership, TypeOK
<1>1. ASSUME NEW p \in Pumps, Serving(p) PROVE chan[p] \in Channels
  BY <1>1 DEF Serving
<1>2. ASSUME NEW p \in Pumps, NEW q \in Pumps, Serving(p), Serving(q) PROVE p = q
  BY <1>1, <1>2, SerialInvOnePump DEF OnePumpPerChannel
<1>3. ASSUME NEW c \in Callers, NEW d \in Callers, pc[c] # "idle", pc[d] # "idle" PROVE c = d
  BY <1>3 DEF Exclusive, Busy
<1>4. ASSUME NEW c \in Callers, NEW p \in Pumps, pc[c] = "starting", Serving(p) PROVE FALSE
  <2>1. Owned(p)
    BY <1>4 DEF NoOrphan
  <2>2. ASSUME NEW ch \in Channels, active[ch] = p PROVE FALSE
    BY <1>4, <2>2 DEF EmptyWhileActivating
  <2>3. ASSUME NEW d \in Callers, held[d] = p PROVE FALSE
    BY <1>3, <1>4, <2>3
  <2> QED
    BY <2>1, <2>2, <2>3 DEF Owned, Registered
<1> QED
  BY <1>2, <1>3, <1>4

\* Every pump was started with an edit that is no newer than n, or that a cancelled
\* pump has written an older one over.
Within(n) == \A q \in Pumps : task[q] # "unborn" => mine[q].edit <= n \/ mine[q].edit <= setBack

\* The store, a pump that serves and a caller about to start one have the newest
\* edit any pump was started with, unless it was set back.
EditInv ==
  /\ Within(stored.edit)
  /\ \A p \in Pumps : Serving(p) => Within(mine[p].edit)
  /\ \A c \in Callers :
       pc[c] = "starting" /\ kind[c] = "pumped" =>
         /\ Within(given[c].edit)
         /\ given[c].edit <= stored.edit \/ given[c].edit <= setBack

\* No pump has started.
LEMMA InitEditInv == ReloadInit => EditInv
BY DEF ReloadInit, Init, EditInv, Within, Serving

\* Steps that start no pump and leave the configs alone.
LEMMA QuietKeepsEdits ==
  ASSUME TypeOK, LoopInv, EditInv,
         UNCHANGED <<mine, store>>,
         \A q \in Pumps : task'[q] # "unborn" => task[q] # "unborn",
         cancelled \subseteq cancelled',
         \A c \in Callers :
           pc'[c] = "starting" /\ kind'[c] = "pumped" =>
             \/ pc[c] = "starting" /\ kind[c] = "pumped" /\ given'[c] = given[c]
             \/ given'[c] = stored
  PROVE  EditInv'
<1>1. \A n : Within(n) => Within(n)'
  BY DEF Within, store
<1>2. Within(stored.edit)'
  BY <1>1 DEF EditInv, store
<1>3. ASSUME NEW p \in Pumps, Serving(p)' PROVE Within(mine[p].edit)'
  BY <1>1, <1>3 DEF EditInv, Serving
<1>4. ASSUME NEW c \in Callers, pc'[c] = "starting", kind'[c] = "pumped"
      PROVE  /\ Within(given[c].edit)'
             /\ (given[c].edit <= stored.edit \/ given[c].edit <= setBack)'
  <2>1. CASE pc[c] = "starting" /\ kind[c] = "pumped" /\ given'[c] = given[c]
    BY <1>1, <2>1 DEF EditInv, store
  <2>2. CASE given'[c] = stored
    BY <1>1, <2>2 DEF EditInv, store, LoopInv, KnownConfigs
  <2> QED
    BY <1>4, <2>1, <2>2
<1> QED
  BY <1>2, <1>3, <1>4 DEF EditInv

\* All steps but an edit, a start and a write-back are of that kind.
LEMMA HubKeepsEdits ==
  ASSUME TypeOK, LoopInv, EditInv,
         \/ HubStep \/ UNCHANGED rvars \/ Write
         \/ \E c \in Callers, ch \in Channels, k \in Kinds : Begin(c, ch, k)
         \/ \E c \in Callers : Refused(c)
         \/ \E p \in Pumps :
              \/ Leave(p, "top") \/ Top(p) \/ Answer(p) \/ AnswerEmpty(p) \/ PollCancelled(p)
              \/ PollFails(p) \/ GivesUp(p) \/ Woken(p) \/ Forward(p)
  PROVE  EditInv'
<1>1. CASE UNCHANGED rvars
  BY <1>1, QuietKeepsEdits DEF rvars, vars, callVars, loop, config, store
<1>2. CASE Write
  BY <1>2, QuietKeepsEdits DEF Write, vars, loop, config, store
<1>3. CASE HubStep
  <2>1. UNCHANGED <<mine, store, task, given>> /\ cancelled \subseteq cancelled'
    BY <1>3 DEF HubStep, Deactivate, ActivateTurnedAway, StartUnsupported, Insert, RemoveAndStop,
                pumpVars, loop, config
  <2>2. ASSUME NEW c \in Callers, pc'[c] = "starting" PROVE pc[c] = "starting" /\ kind'[c] = kind[c]
    BY <1>3, <2>2 DEF HubStep, Deactivate, ActivateTurnedAway, StartUnsupported, Insert, callVars, TypeOK
  <2> QED
    BY <2>1, <2>2, QuietKeepsEdits
<1>4. ASSUME NEW c \in Callers, NEW ch \in Channels, NEW k \in Kinds, Begin(c, ch, k) PROVE EditInv'
  <2>1. UNCHANGED <<mine, store, task>> /\ cancelled \subseteq cancelled'
    BY <1>4 DEF Begin, ActivateBegin, RemoveAndStop, pumpVars, loop
  <2>2. ASSUME NEW d \in Callers, pc'[d] = "starting", kind'[d] = "pumped"
        PROVE  \/ pc[d] = "starting" /\ kind[d] = "pumped" /\ given'[d] = given[d]
               \/ given'[d] = stored
    BY <1>4, <2>2 DEF Begin, ActivateBegin, TypeOK, LoopInv
  <2> QED
    BY <2>1, <2>2, QuietKeepsEdits
<1>5. ASSUME NEW c \in Callers, Refused(c) PROVE EditInv'
  <2>1. UNCHANGED <<mine, store, task, cancelled>>
    BY <1>5 DEF Refused, StartFails, pumpVars, loop
  <2>2. ASSUME NEW d \in Callers, pc'[d] = "starting"
        PROVE  pc[d] = "starting" /\ kind'[d] = kind[d] /\ given'[d] = given[d]
    BY <1>5, <2>2 DEF Refused, StartFails, TypeOK, LoopInv
  <2> QED
    BY <2>1, <2>2, QuietKeepsEdits
<1>6. ASSUME NEW p \in Pumps,
             \/ Leave(p, "top") \/ Top(p) \/ AnswerEmpty(p) \/ PollCancelled(p)
             \/ PollFails(p) \/ GivesUp(p) \/ Woken(p)
      PROVE  EditInv'
  <2>1. UNCHANGED <<mine, config>> /\ (UNCHANGED vars \/ PumpHonoursCancel(p) \/ PumpDies(p))
    BY <1>6 DEF Leave, Top, AnswerEmpty, PollCancelled, PollFails, GivesUp, Woken
  <2>2. UNCHANGED <<store, given, pc, kind, cancelled>>
    BY <2>1 DEF PumpHonoursCancel, PumpDies, vars, callVars, config
  <2>3. UNCHANGED task \/ (task[p] = "running" /\ task' = [task EXCEPT ![p] = "ended"])
    BY <2>1 DEF PumpHonoursCancel, PumpDies, vars
  <2>4. \A q \in Pumps : task'[q] # "unborn" => task[q] # "unborn"
    BY <2>3 DEF TypeOK
  <2>5. \A d \in Callers : pc'[d] = "starting" /\ kind'[d] = "pumped" =>
          pc[d] = "starting" /\ kind[d] = "pumped" /\ given'[d] = given[d]
    BY <2>2
  <2>6. cancelled \subseteq cancelled' /\ UNCHANGED <<mine, store>>
    BY <2>1, <2>2
  <2> QED
    BY <2>4, <2>5, <2>6, QuietKeepsEdits
<1>7. ASSUME NEW p \in Pumps, Answer(p) \/ Forward(p) PROVE EditInv'
  <2>1. UNCHANGED <<store, given, pc, kind, cancelled, task>>
    BY <1>7 DEF Answer, Forward, vars, callVars, config
  <2>2. PICK n : mine' = [mine EXCEPT ![p].cursor = n]
    BY <1>7, Zenon DEF Answer, Forward
  <2>3. \A q \in Pumps : mine'[q].edit = mine[q].edit
    BY <2>2 DEF LoopInv, KnownConfigs
  <2>4. \A k : Within(k) => Within(k)'
    BY <2>1, <2>3 DEF Within, store
  <2> QED
    BY <2>1, <2>3, <2>4 DEF EditInv, Serving, store
<1> QED
  BY <1>1, <1>2, <1>3, <1>4, <1>5, <1>6, <1>7

\* An edit is newer than all there were.
LEMMA EditKeepsEdits == ASSUME TypeOK, LoopInv, EditInv, Edit PROVE EditInv'
<1>1. UNCHANGED <<task, pc, kind, cancelled, mine, given, setBack>> /\ edits' = edits + 1 /\ stored'.edit = edits'
  BY DEF Edit, vars, callVars, loop, LoopInv, KnownConfigs
<1>2. edits \in Nat /\ setBack \in Nat
  BY ReloadConstants DEF LoopInv
<1>3. /\ \A p \in Pumps : mine[p].edit \in 0..edits
      /\ \A c \in Callers : given[c].edit \in 0..edits
  BY DEF LoopInv, KnownConfigs
<1>4. Within(stored.edit)'
  BY <1>1, <1>2, <1>3 DEF Within
<1>5. \A n : Within(n) => Within(n)'
  BY <1>1 DEF Within
<1>6. \A p \in Pumps : Serving(p)' => Within(mine[p].edit)'
  BY <1>1, <1>5 DEF EditInv, Serving
<1>7. ASSUME NEW c \in Callers, pc[c] = "starting", kind[c] = "pumped"
      PROVE  Within(given[c].edit)' /\ (given[c].edit <= stored.edit)'
  BY <1>1, <1>2, <1>3, <1>5, <1>7 DEF EditInv
<1> QED
  BY <1>1, <1>4, <1>6, <1>7 DEF EditInv

\* The pump that starts is the only one that serves, with an edit that every other
\* is within.
LEMMA SpawnKeepsEdits ==
  ASSUME TypeOK, LoopInv, SerialInv, EditInv, NEW c \in Callers, Spawn(c)
  PROVE  EditInv'
<1>1. PICK q \in Pumps : task[q] = "unborn" /\ task' = [task EXCEPT ![q] = "running"]
  BY DEF Spawn, StartPump
<1>2. mine' = [mine EXCEPT ![q] = Started(c)] /\ UNCHANGED store
  BY <1>1 DEF Spawn, TypeOK
<1>3. pc[c] = "starting" /\ kind[c] = "pumped" /\ pc' = [pc EXCEPT ![c] = "inserting"] /\ UNCHANGED <<kind, cancelled>>
  BY DEF Spawn, StartPump
<1>4. Started(c).edit = given[c].edit
  BY DEF Started, LoopInv, KnownConfigs
<1>5. /\ Within(given[c].edit)
      /\ given[c].edit <= stored.edit \/ given[c].edit <= setBack
      /\ given[c].edit \in Nat
  BY <1>3 DEF EditInv, LoopInv, KnownConfigs
<1>6. mine'[q].edit = given[c].edit /\ \A p \in Pumps : p # q => mine'[p] = mine[p] /\ task'[p] = task[p]
  BY <1>1, <1>2, <1>4 DEF LoopInv
<1>7. Within(stored.edit)'
  BY <1>2, <1>5, <1>6 DEF Within, EditInv, store
<1>8. ASSUME NEW p \in Pumps, Serving(p)' PROVE Within(mine[p].edit)'
  <2>1. p = q
    BY <1>3, <1>6, <1>8, OneGeneration DEF Serving
  <2> QED
    BY <1>2, <1>5, <1>6, <2>1 DEF Within, store
<1>9. \A d \in Callers : pc'[d] # "starting"
  BY <1>3, OneGeneration, SMT DEF TypeOK
<1> QED
  BY <1>7, <1>8, <1>9 DEF EditInv

\* A pump that serves writes back the newest edit, which the others are within; a
\* cancelled one that writes an older one is what setBack remembers.
LEMMA PersistKeepsEdits ==
  ASSUME TypeOK, LoopInv, SerialInv, EditInv, NEW p \in Pumps, Persist(p)
  PROVE  EditInv'
<1>1. UNCHANGED <<task, pc, kind, cancelled, mine, given>>
  BY DEF Persist, vars, callVars
<1>2. task[p] # "unborn"
  BY DEF Persist, Go, LoopInv
<1>3. /\ stored.edit \in Nat /\ setBack \in Nat
      /\ \A q \in Pumps : mine[q].edit \in Nat
      /\ \A c \in Callers : given[c].edit \in Nat
  BY ReloadConstants DEF LoopInv, KnownConfigs
<1>4. CASE UNCHANGED <<stored, setBack>>
  BY <1>1, <1>4 DEF EditInv, Within, Serving
<1>5. CASE stored' = mine[p] /\ setBack' = IF SetsBack(p) THEN stored.edit ELSE setBack
  <2>1. CASE p \notin cancelled
    <3>1. Serving(p) /\ setBack' = setBack
      BY <1>2, <1>5, <2>1 DEF Serving, SetsBack
    <3>2. \A c \in Callers : pc[c] # "starting"
      BY <3>1, OneGeneration
    <3> QED
      BY <1>1, <1>5, <3>1, <3>2 DEF EditInv, Within, Serving
  <2>2. CASE p \in cancelled /\ mine[p].edit < stored.edit
    <3>1. stored.edit <= setBack' /\ setBack <= setBack' /\ setBack' \in Nat
      BY <1>3, <1>5, <2>2 DEF SetsBack
    <3>2. \A q \in Pumps : task[q] # "unborn" => mine[q].edit <= setBack'
      BY <1>3, <3>1 DEF EditInv, Within
    <3>3. \A c \in Callers : pc[c] = "starting" /\ kind[c] = "pumped" => given[c].edit <= setBack'
      BY <1>3, <3>1 DEF EditInv
    <3> QED
      BY <1>1, <3>2, <3>3 DEF EditInv, Within, Serving
  <2>3. CASE p \in cancelled /\ ~(mine[p].edit < stored.edit)
    <3>1. setBack' = setBack /\ stored.edit <= stored'.edit /\ stored'.edit \in Nat
      BY <1>3, <1>5, <2>3 DEF SetsBack
    <3>2. Within(stored.edit)'
      BY <1>1, <1>3, <3>1 DEF EditInv, Within
    <3>3. \A c \in Callers : pc[c] = "starting" /\ kind[c] = "pumped" =>
             given[c].edit <= stored'.edit \/ given[c].edit <= setBack
      BY <1>3, <3>1 DEF EditInv
    <3>4. \A n : Within(n) => Within(n)'
      BY <1>1, <3>1 DEF Within
    <3> QED
      BY <1>1, <3>1, <3>2, <3>3, <3>4 DEF EditInv, Serving
  <2> QED
    BY <2>1, <2>2, <2>3
<1> QED
  BY <1>4, <1>5 DEF Persist

-----------------------------------------------------------------------------
\* The inductive invariant of the hub with its pumps.
ReloadInv == TypeOK /\ SerialInv /\ LoopInv /\ CoverInv /\ EditInv

\* Each action keeps each part.
LEMMA StepKeepsReloadInv ==
  ASSUME ReloadInv, [ReloadNext]_rvars, TypeOK', SerialInv'
  PROVE  ReloadInv'
<1> USE DEF ReloadInv
<1>1. CASE HubStep \/ UNCHANGED rvars
  BY <1>1, HubStepKeepsLoop, HubKeepsCover, HubKeepsEdits
<1>2. CASE Edit
  BY <1>2, EditKeepsLoop, HubKeepsCover, EditKeepsEdits
<1>3. CASE Write
  BY <1>3, EditKeepsLoop, HubKeepsCover, HubKeepsEdits
<1>4. CASE \E c \in Callers, ch \in Channels, k \in Kinds : Begin(c, ch, k)
  BY <1>4, BeginKeepsLoop, HubKeepsCover, HubKeepsEdits
<1>5. CASE \E c \in Callers : Refused(c)
  <2>1. PICK c \in Callers : Refused(c)
    BY <1>5
  <2>2. LoopInv'
    <3>1. CASE Channels = {}
      BY <2>1, <3>1 DEF Refused, StartFails, TypeOK
    <3> QED
      BY <2>1, <3>1, BeginKeepsLoop DEF Kinds
  <2> QED
    BY <1>5, <2>2, HubKeepsCover, HubKeepsEdits
<1>6. CASE \E c \in Callers : Spawn(c)
  BY <1>6, SpawnKeepsLoop, HubKeepsCover, SpawnKeepsEdits
<1>7. ASSUME NEW p \in Pumps,
             \/ Leave(p, "top") \/ Top(p) \/ AnswerEmpty(p) \/ PollCancelled(p)
             \/ PollFails(p) \/ GivesUp(p) \/ Woken(p)
      PROVE  ReloadInv'
  BY <1>7, RestKeepsLoop, PollKeepsCover, HubKeepsEdits
<1>8. ASSUME NEW p \in Pumps, Answer(p) PROVE ReloadInv'
  BY <1>8, AnswerKeepsLoop, AnswerKeepsCover, HubKeepsEdits
<1>9. ASSUME NEW p \in Pumps, Persist(p) PROVE ReloadInv'
  BY <1>9, PersistKeepsLoop, PollKeepsCover, PersistKeepsEdits
<1>10. ASSUME NEW p \in Pumps, Forward(p) PROVE ReloadInv'
  BY <1>10, ForwardKeepsLoop, ForwardKeepsCover, HubKeepsEdits
<1> QED
  BY <1>1, <1>2, <1>3, <1>4, <1>5, <1>6, <1>7, <1>8, <1>9, <1>10 DEF ReloadNext, PumpStep


\* The hub's own invariants come with it.
LEMMA ReloadKeepsInv == ReloadSpec => []ReloadInv
<1>1. ReloadInit => ReloadInv
  <2>1. ReloadInit => Init
    BY DEF ReloadInit
  <2>2. Init => TypeOK
    BY InitTypeOK
  <2>3. Init => SerialInv
    BY InitSerialInv
  <2> QED
    BY <2>1, <2>2, <2>3, InitLoopInv, InitCoverInv, InitEditInv DEF ReloadInv
<1>2. ReloadInv /\ [ReloadNext]_rvars => ReloadInv'
  <2> SUFFICES ASSUME ReloadInv, [ReloadNext]_rvars PROVE ReloadInv'
    OBVIOUS
  <2>1. [SerialNext]_vars
    BY ReloadStepIsHubStep
  <2> QED
    BY <2>1, StepKeepsReloadInv, NextTypeOK, NextSerialInv DEF ReloadInv, SerialNext
<1> QED
  BY <1>1, <1>2, PTL DEF ReloadSpec

\* The type invariant: a task's place in its loop agrees with what the hub knows of
\* it, and a pump has a batch exactly between its answer and its forwarding, also
\* while a reload or a deactivation cancels it (telegram_bot.rs, weclaw.rs start_pump).
THEOREM ReloadTypeCorrect == ReloadSpec => []ReloadTypeOK
<1>1. ReloadInv => ReloadTypeOK
  BY LoopInvTypes DEF ReloadInv
<1> QED
  BY <1>1, ReloadKeepsInv, PTL

\* However a channel is reloaded, a message the platform will not hand out again was
\* forwarded or is with a pump at work: neither Telegram's offset nor the cursor
\* WeClaw's pumps write back ever passes one that nobody has.
THEOREM NoMessageFalls == ReloadSpec => []NothingPassedOver
<1>1. ReloadInv => NothingPassedOver
  BY DEF ReloadInv, CoverInv, Covered, Gone, NothingPassedOver
<1> QED
  BY <1>1, ReloadKeepsInv, PTL

\* The store goes back to an older edit by a write-back only.
LEMMA OnlyPersistSetsBack ==
  ASSUME ReloadInv, ReloadNext, stored'.edit < stored.edit
  PROVE  \E p \in Pumps : Persist(p)
<1>1. CASE Edit
  <2>1. stored'.edit = edits + 1 /\ stored.edit \in 0..edits /\ edits \in Nat
    BY <1>1, ReloadConstants DEF Edit, ReloadInv, LoopInv, KnownConfigs
  <2>2. PICK n : n = stored'.edit
    OBVIOUS
  <2> QED
    BY <2>1, <2>2
<1>2. CASE UNCHANGED stored
  BY <1>2 DEF ReloadInv, LoopInv, KnownConfigs
<1> QED
  BY <1>1, <1>2 DEF ReloadNext, HubStep, Begin, Spawn, Refused, Write, PumpStep, Leave, Top, Answer, AnswerEmpty,
                    PollCancelled, PollFails, GivesUp, Woken, Forward, config, store

\* Over any number of reloads, a pump that serves never writes an older config over
\* an edit some pump was started with, unless a pump that a reload had cancelled did
\* so first (weclaw.rs:228, config_store.rs).
THEOREM OldPumpsSetEditsBack == ReloadSpec => EditKept
<1> DEFINE Kept(p) ==
      (at[p] = "persist" /\ at'[p] = "forward" /\ stored'.edit < stored.edit) =>
         \/ p \in cancelled
         \/ stored.edit <= setBack
         \/ \A q \in Pumps : task[q] # "unborn" => mine[q].edit < stored.edit
<1>1. ReloadInv /\ [ReloadNext]_rvars => [\A p \in Pumps : Kept(p)]_rvars
  <2> SUFFICES ASSUME ReloadInv, ReloadNext, NEW p \in Pumps,
                      at[p] = "persist", at'[p] = "forward", stored'.edit < stored.edit,
                      p \notin cancelled, ~(stored.edit <= setBack),
                      NEW q \in Pumps, task[q] # "unborn"
               PROVE  mine[q].edit < stored.edit
    OBVIOUS
  <2>1. PICK r \in Pumps : Persist(r)
    BY OnlyPersistSetsBack
  <2>2. r = p
    BY <2>1 DEF Persist, Go, ReloadInv, LoopInv
  <2>3. stored' = mine[p]
    BY <2>1, <2>2 DEF Persist, ReloadInv, LoopInv, KnownConfigs
  <2>4. Serving(p)
    BY DEF Serving, ReloadInv, LoopInv
  <2>5. mine[q].edit <= mine[p].edit \/ mine[q].edit <= setBack
    BY <2>4 DEF ReloadInv, EditInv, Within
  <2>6. mine[p].edit < stored.edit
    BY <2>3
  <2> QED
    BY <2>5, <2>6 DEF ReloadInv, LoopInv, KnownConfigs
<1> QED
  BY <1>1, ReloadKeepsInv, PTL DEF ReloadSpec, EditKept
=============================================================================
