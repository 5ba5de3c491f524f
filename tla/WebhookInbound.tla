--------------------------- MODULE WebhookInbound ---------------------------
(***************************************************************************)
(* ChannelHub::dispatch_webhook and WecomDriver::parse_webhook: WeCom      *)
(* (external) posts each message in a request of its own, which the        *)
(* application hands to the hub. Between the request and the event nothing *)
(* is awaited, so a dispatch is one step. A request that gets no answer in *)
(* time, or an error, is posted again a few times.                         *)
(***************************************************************************)
EXTENDS InboundFeed

CONSTANT MaxPosts  \* how often WeCom posts one message at most

VARIABLE posts  \* how often each message was posted

Init ==
  /\ FeedInit
  /\ posts = [m \in Messages |-> 0]

\* WeCom posts m, and gives it up with the last post it was not answered.
Post(m) ==
  /\ m \in Written \ settled
  /\ posts[m] < MaxPosts
  /\ posts' = [posts EXCEPT ![m] = @ + 1]

GivesUp(m) == posts[m] + 1 = MaxPosts

\* parse_webhook ends in WebhookOutcome::none() or in an event, which the hub
\* broadcasts, whether or not the channel is active.
ParseWebhook(m) ==
  IF kinds[m] = "skip"
    THEN skipped' = skipped \cup {m} /\ UNCHANGED emitted
    ELSE emitted' = Append(emitted, m) /\ UNCHANGED skipped

Answered(m) ==
  /\ settled' = settled \cup {m}
  /\ UNCHANGED <<lost, excused, faults>>

\* The answer is late or lost, or the process dies behind the broadcast.
AnswerLost(m) ==
  /\ Fault
  /\ excused' = excused \cup {m}
  /\ settled' = IF GivesUp(m) THEN settled \cup {m} ELSE settled
  /\ UNCHANGED lost

DispatchWebhook(m) ==
  /\ Post(m)
  /\ ParseWebhook(m)
  /\ Answered(m) \/ AnswerLost(m)
  /\ UNCHANGED <<kinds, hand, pc, backoff, cancelled, crashed>>

\* The config lacks the token or the key, a header or <Encrypt> is missing, the
\* signature or the ciphertext is wrong: an error, and no event.
RequestRefused(m) ==
  /\ Post(m)
  /\ Fault
  /\ settled' = IF GivesUp(m) THEN settled \cup {m} ELSE settled
  /\ lost' = IF GivesUp(m) THEN lost \cup ({m} \ Handled) ELSE lost
  /\ UNCHANGED <<kinds, hand, emitted, skipped, excused, pc, backoff, cancelled, crashed>>

TypeOK ==
  /\ FeedTypeOK
  /\ posts \in [Messages -> 0..MaxPosts]
=============================================================================
