---------------------------- MODULE StreamedReply ----------------------------
(***************************************************************************)
(* What a streamed reply promises, whatever the driver: InboundDriver::    *)
(* reply_to_user_streaming in src/src/inbound.rs. The caller writes longer *)
(* and longer text and finishes; the user sees a text that only grows, and *)
(* when the reply ends well the user sees all that was written. Any step   *)
(* may fail the reply instead, but once the caller has finished it ends.   *)
(***************************************************************************)
EXTENDS Naturals

CONSTANT MaxText  \* texts are the prefixes 0..MaxText of the answer, 0 is empty

VARIABLES
  written,   \* the longest text the caller has written
  finished,  \* the caller sent its last chunk or dropped the channel
  shown,     \* the text the user sees
  outcome    \* "live", "complete" or "failed"

vars == <<written, finished, shown, outcome>>

Init ==
  /\ written = 0
  /\ finished = FALSE
  /\ shown = 0
  /\ outcome = "live"

\* The last chunk may carry more text.
Write ==
  /\ ~finished
  /\ written' \in written..MaxText
  /\ finished' \in BOOLEAN
  /\ UNCHANGED <<shown, outcome>>

Show ==
  /\ outcome = "live"
  /\ shown' \in shown..written
  /\ UNCHANGED <<written, finished, outcome>>

Complete ==
  /\ outcome = "live"
  /\ finished
  /\ shown' = written
  /\ outcome' = "complete"
  /\ UNCHANGED <<written, finished>>

\* A request whose answer is lost may have changed what the user sees.
Fail ==
  /\ outcome = "live"
  /\ shown' \in shown..written
  /\ outcome' = "failed"
  /\ UNCHANGED <<written, finished>>

Next == Write \/ Show \/ Complete \/ Fail

\* The caller may take its time, but once it has finished the reply ends.
Spec == Init /\ [][Next]_vars /\ (finished ~> outcome # "live")
=============================================================================
