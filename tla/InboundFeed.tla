----------------------------- MODULE InboundFeed -----------------------------
(***************************************************************************)
(* What the inbound pumps share: the messages users write to the bot, what *)
(* became of them, the task that start_pump spawned and its cancellation   *)
(* token. The platform (external) keeps a message until it is settled: acked*)
(* on the connection, or passed by the offset of a poll. Some platforms    *)
(* never send a message again, others do until it is settled.              *)
(***************************************************************************)
EXTENDS Naturals, Sequences, SequencesExt

CONSTANTS
  MaxMessages,  \* bound: messages users write
  MaxFaults,    \* bound: requests that fail, connections that end, crashes
  MaxBackoff    \* the cap of the backoff, in doublings

ASSUME FeedConstants == MaxMessages \in Nat /\ MaxFaults \in Nat /\ MaxBackoff \in Nat

VARIABLES
  kinds,      \* what users wrote, message by message
  settled,    \* messages the platform will not send again
  hand,       \* messages the pump is handling
  emitted,    \* history: the messages emitted, in order
  skipped,    \* history: messages the driver chose not to forward
  lost,       \* history: settled messages that nobody will handle
  excused,    \* history: messages the platform had reason to send twice
  pc,         \* where the pump's task is
  backoff,    \* how often the backoff has doubled
  cancelled,
  crashed,    \* history: the process was restarted
  faults      \* how much went wrong (the bound only)

messages == <<kinds, settled, hand, emitted, skipped, lost, excused>>
task == <<pc, backoff, cancelled, crashed, faults>>
feed == <<messages, task>>

Messages == 1..MaxMessages
Written == DOMAIN kinds

\* "text" is for the bot, "skip" is what every driver leaves out (echoes of bots,
\* empty texts, other types), "reply" answers the bot in a group.
Kinds == {"text", "skip", "reply"}

Handled == Range(emitted) \cup skipped

FeedInit ==
  /\ kinds = <<>>
  /\ settled = {}
  /\ hand = <<>>
  /\ emitted = <<>>
  /\ skipped = {}
  /\ lost = {}
  /\ excused = {}
  /\ backoff = 0
  /\ cancelled = FALSE
  /\ crashed = FALSE
  /\ faults = 0

Fault == faults < MaxFaults /\ faults' = faults + 1

\* Write(kind), with what the platform does about it left to the composition.
Write(kind) ==
  /\ Len(kinds) < MaxMessages
  /\ kinds' = Append(kinds, kind)

\* deactivate, or activate in its place: the token is cancelled.
CancelPump ==
  /\ ~cancelled
  /\ cancelled' = TRUE
  /\ UNCHANGED <<messages, pc, backoff, crashed, faults>>

\* The process dies and the application activates the channel again. What was
\* settled and not handled is gone.
RestartTask ==
  /\ ~cancelled
  /\ Fault
  /\ crashed' = TRUE
  /\ hand' = <<>>
  /\ lost' = lost \cup (settled \ Handled)
  /\ pc' = "top"
  /\ backoff' = 0
  /\ UNCHANGED <<kinds, settled, emitted, skipped, cancelled>>

\* The messages in S, oldest first.
InOrder(S) == {s \in SetToSeqs(S) : \A i, j \in DOMAIN s : i < j => s[i] < s[j]}

\* The handler's filter for all of `hand`, oldest first: those in `forwards` are
\* emitted, the others skipped.
EmitHand(forwards) ==
  /\ \E batch \in InOrder(Range(hand) \cap forwards) : emitted' = emitted \o batch
  /\ skipped' = skipped \cup (Range(hand) \ forwards)
  /\ hand' = <<>>

FeedTypeOK ==
  /\ kinds \in Seq(Kinds) /\ Len(kinds) <= MaxMessages
  /\ settled \subseteq Written
  /\ hand \in Seq(Written)
  /\ emitted \in Seq(Written)
  /\ skipped \subseteq Written
  /\ lost \subseteq settled
  /\ excused \subseteq Written
  /\ pc \in {"top", "fetch", "dial", "reading", "ack", "lookup", "forward", "sleep",
             "polling", "persist", "stopped"}
  /\ backoff \in 0..MaxBackoff
  /\ cancelled \in BOOLEAN
  /\ crashed \in BOOLEAN
  /\ faults \in 0..MaxFaults
=============================================================================
