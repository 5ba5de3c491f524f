----------------------------- MODULE PumpSlots ------------------------------
(***************************************************************************)
(* What a user of ChannelHub relies on (src/src/hub.rs, the comments of    *)
(* activate and deactivate): each channel id has one slot for a pump; a    *)
(* pump starts only in an empty slot, under a fresh identity, and leaves   *)
(* its slot for good.                                                      *)
(***************************************************************************)
CONSTANTS Channels, Pumps, NoPump

VARIABLES
  slot,     \* the pump that serves each channel, or NoPump
  started   \* every pump that was ever started

Init == slot = [ch \in Channels |-> NoPump] /\ started = {}

Start(ch, p) ==
  /\ slot[ch] = NoPump
  /\ p \notin started
  /\ slot' = [slot EXCEPT ![ch] = p]
  /\ started' = started \cup {p}

Stop(ch) ==
  /\ slot[ch] # NoPump
  /\ slot' = [slot EXCEPT ![ch] = NoPump]
  /\ UNCHANGED started

Next == \E ch \in Channels : Stop(ch) \/ \E p \in Pumps : Start(ch, p)

Spec == Init /\ [][Next]_<<slot, started>>
=============================================================================
