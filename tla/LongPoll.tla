------------------------------ MODULE LongPoll ------------------------------
(***************************************************************************)
(* The pumps that poll: TelegramBotDriver::start_pump, whose offset lives in*)
(* the task and which confirms a batch with its next poll, and              *)
(* WeclawDriver::start_pump, which saves its cursor with the channel's      *)
(* config before it forwards the batch.                                    *)
(***************************************************************************)
EXTENDS InboundFeed

VARIABLES
  cursor,  \* the newest message read: offset - 1, or get_updates_buf
  stored   \* the cursor in the channel's saved config

Init ==
  /\ FeedInit
  /\ cursor = 0
  /\ stored = 0

Top ==
  /\ pc = "top"
  /\ pc' = IF cancelled THEN "stopped" ELSE "polling"
  /\ UNCHANGED <<messages, backoff, cancelled, crashed, faults, cursor, stored>>

\* getUpdates confirms what its offset passed, answered or not.
\* Mutant: the offset passes one message too many.
Confirmed_Ahead == settled \cup (1..(cursor + 1) \cap Written)

Confirmed == settled \cup 1..cursor

\* The answer to a poll is some of what is new, oldest first.
Batch(new) ==
  \E n \in new : hand' \in InOrder({m \in new : m <= n})

\* With nothing new the platform holds the request back, and answers with an empty
\* batch when the poll's own timeout is over: the loop comes round, with its offset or
\* buffer as it was.
AnswerEmpty(read, confirms) ==
  /\ pc = "polling"
  /\ Written \subseteq read
  /\ settled' = confirms
  /\ pc' = "top"
  /\ UNCHANGED <<kinds, hand, emitted, skipped, lost, excused, backoff, cancelled, crashed, faults, cursor, stored>>

TelegramAnswer ==
  /\ pc = "polling"
  /\ settled' = Confirmed
  /\ Batch(Written \ Confirmed)
  /\ pc' = "forward"
  /\ UNCHANGED <<kinds, emitted, skipped, lost, excused, backoff, cancelled, crashed, faults, cursor, stored>>

\* The whole batch is emitted, whether or not the pump was cancelled meanwhile.
TelegramForward ==
  /\ pc = "forward"
  /\ cursor' = Last(hand)
  /\ EmitHand({m \in Written : kinds[m] # "skip"})
  /\ pc' = "top"
  /\ UNCHANGED <<kinds, settled, lost, excused, backoff, cancelled, crashed, faults, stored>>

\* The select took the cancelled branch. The poll may have reached the platform.
PollCancelled(confirms) ==
  /\ pc = "polling"
  /\ cancelled
  /\ settled' \in {settled, confirms}
  /\ pc' = "stopped"
  /\ UNCHANGED <<kinds, hand, emitted, skipped, lost, excused, backoff, cancelled, crashed, faults, cursor, stored>>

PollFails(confirms) ==
  /\ pc = "polling"
  /\ Fault
  /\ settled' \in {settled, confirms}
  /\ pc' = "sleep"
  /\ UNCHANGED <<kinds, hand, emitted, skipped, lost, excused, backoff, cancelled, crashed, cursor, stored>>

\* Telegram's sleep is not cancellable, WeClaw's is; both end at the head of the
\* loop or leave it.
Sleep(cancellable) ==
  /\ pc = "sleep"
  /\ pc' = IF cancellable /\ cancelled THEN "stopped" ELSE "top"
  /\ UNCHANGED <<messages, backoff, cancelled, crashed, faults, cursor, stored>>

\* poll_updates returns the batch and the new cursor, which is adopted at once.
WeclawAnswer ==
  /\ pc = "polling"
  /\ Batch({m \in Written : m > cursor})
  /\ cursor' = Last(hand')
  /\ pc' = "persist"
  /\ UNCHANGED <<kinds, settled, emitted, skipped, lost, excused, backoff, cancelled, crashed, faults, stored>>

\* writer.write: a failure is logged and the batch forwarded all the same.
Persist ==
  /\ pc = "persist"
  /\ \/ /\ stored' = cursor
        /\ settled' = 1..cursor
        /\ UNCHANGED <<excused, faults>>
     \/ /\ Fault
        /\ excused' = excused \cup Range(hand)
        /\ UNCHANGED <<stored, settled>>
  /\ pc' = "forward"
  /\ UNCHANGED <<kinds, hand, emitted, skipped, lost, backoff, cancelled, crashed, cursor>>

WeclawForward ==
  /\ pc = "forward"
  /\ EmitHand({m \in Written : kinds[m] # "skip"})
  /\ pc' = "top"
  /\ UNCHANGED <<kinds, settled, lost, excused, backoff, cancelled, crashed, faults, cursor, stored>>

Telegram ==
  \/ Top
  \/ AnswerEmpty(Confirmed, Confirmed)
  \/ TelegramAnswer
  \/ TelegramForward
  \/ PollCancelled(Confirmed)
  \/ Sleep(FALSE)

Weclaw ==
  \/ Top
  \/ AnswerEmpty(1..cursor, settled)
  \/ WeclawAnswer
  \/ Persist
  \/ WeclawForward
  \/ PollCancelled(settled)
  \/ Sleep(TRUE)

\* A restarted Telegram pump begins at offset 0 and is given what no poll has
\* confirmed; a WeClaw pump begins at the saved cursor.
TelegramRestart ==
  /\ RestartTask
  /\ cursor' = 0
  /\ excused' = excused \cup (Handled \ settled)
  /\ UNCHANGED stored

WeclawRestart ==
  /\ RestartTask
  /\ cursor' = stored
  /\ UNCHANGED <<excused, stored>>

TypeOK ==
  /\ FeedTypeOK
  /\ cursor \in 0..MaxMessages
  /\ stored \in 0..cursor
=============================================================================
