--------------------------- MODULE QqStream_proofs ---------------------------
(***************************************************************************)
(* The reply streams of QQ for any number of replies, messages and chunks: *)
(* indexes are never used twice, and messages never share a stream.        *)
(***************************************************************************)
EXTENDS QqStream, TLAPS

\* Every chunk that was sent or is being sent.
Issued == wire \cup InFlight

\* The bound's counter, and where the chunk of a reply is.
ReplyTypes ==
  /\ sent \in [Replies -> Nat]
  /\ \A r \in Replies : pc[r] = "received" => post[r] \in wire

\* IndexUnique is not inductive: an index is new because the counter of its
\* stream is ahead of every index that was ever taken.
CounterAhead == \A c \in Issued : c.stream \in opened /\ c.index < nextIndex[c.stream]

\* A stream is in one slot, and the chunks of that stream are for the message
\* of that slot.
SlotOwner ==
  /\ \A m, n \in Msgs : current[m] # NoStream /\ current[m] = current[n] => m = n
  /\ \A c \in Issued, m \in Msgs : current[m] = c.stream => MsgOf[c.by] = m

\* StreamPerMessage, for the chunks under way as well.
IssuedPerMessage ==
  \A c, d \in Issued : c.stream = d.stream => MsgOf[c.by] = MsgOf[d.by]

\* NeverResumesIdle is not inductive: what a purge took out of the table does
\* not come back into any slot, whatever answers are applied later.
ExpiredGone == \A m \in Msgs : current[m] \notin expired

IInv ==
  /\ TypeOK
  /\ ReplyTypes
  /\ CounterAhead
  /\ IndexUnique
  /\ SlotOwner
  /\ IssuedPerMessage
  /\ ExpiredGone

LEMMA InitInv == Init => IInv
<1> SUFFICES ASSUME Init PROVE IInv
  OBVIOUS
<1> USE StreamConstants DEF Init
<1>1. TypeOK
  BY DEF TypeOK, Chunk
<1>2. Issued = {}
  BY DEF Issued, InFlight
<1>3. ReplyTypes /\ CounterAhead /\ IndexUnique /\ SlotOwner /\ IssuedPerMessage /\ ExpiredGone
  BY <1>2 DEF ReplyTypes, CounterAhead, IndexUnique, Issued, SlotOwner, IssuedPerMessage, ExpiredGone
<1> QED BY <1>1, <1>3 DEF IInv

\* What is issued is a chunk.
LEMMA IssuedChunks == TypeOK => Issued \subseteq Chunk
  BY StreamConstants DEF TypeOK, Issued, InFlight, Chunk

\* A step that takes no index and issues nothing new keeps what is said of
\* issued chunks: slots may only be cleared, and must be when a purge took theirs.
LEMMA NothingIssued ==
  ASSUME IInv, Issued' \subseteq Issued, UNCHANGED <<nextIndex, opened>>,
         TypeOK',
         \A m \in Msgs : current'[m] \in {current[m], NoStream},
         \A m \in Msgs : current'[m] \notin expired' \ expired
  PROVE  CounterAhead' /\ IndexUnique' /\ SlotOwner' /\ IssuedPerMessage' /\ ExpiredGone'
<1> USE DEF IInv
<1>1. CounterAhead'
  BY DEF CounterAhead
<1>2. IndexUnique'
  BY DEF IndexUnique, Issued
<1>3. SlotOwner'
  <2>1. \A c \in Issued : c.stream # NoStream
    BY IssuedChunks, StreamConstants DEF Chunk
  <2> QED BY <2>1 DEF SlotOwner
<1>4. IssuedPerMessage'
  BY DEF IssuedPerMessage
<1>5. ExpiredGone'
  BY StreamConstants DEF ExpiredGone, TypeOK
<1> QED BY <1>1, <1>2, <1>3, <1>4, <1>5

\* The first critical section: a slot that holds what the purge found idle is
\* cleared, and no other slot holds the same stream.
LEMMA PurgeInv ==
  ASSUME IInv, NEW r \in Replies, Purge(r)
  PROVE  IInv'
<1> USE StreamConstants DEF IInv
<1>1. Issued' = Issued
  BY DEF Purge, Issued, InFlight, TypeOK
<1>2. TypeOK' /\ ReplyTypes'
  BY DEF Purge, TypeOK, ReplyTypes
<1>3. \A m \in Msgs : current'[m] \in {current[m], NoStream}
  BY DEF Purge, TypeOK
<1>4. ASSUME NEW m \in Msgs, current'[m] \in expired' \ expired PROVE FALSE
  <2>1. PICK k \in stale : current'[m] = current[k] /\ current[k] # NoStream
    BY <1>4 DEF Purge
  <2>2. m \notin stale /\ current[m] = current[k]
    BY <2>1 DEF Purge
  <2> QED BY <2>1, <2>2 DEF SlotOwner, TypeOK
<1> QED BY <1>1, <1>2, <1>3, <1>4, NothingIssued DEF Purge

\* The second critical section: one new chunk, with the counter's index.
LEMMA TakeChunkInv ==
  ASSUME IInv, NEW r \in Replies, NEW st \in States, TakeChunk(r, st)
  PROVE  IInv'
<1> DEFINE m == MsgOf[r]
<1> USE StreamConstants DEF IInv
<1>1. PICK s \in Streams :
        /\ IF Held(m) = NoStream THEN s \notin opened ELSE s = Held(m)
        /\ current' = [current EXCEPT ![m] = s]
        /\ TakeIndex(s)
        /\ opened' = opened \cup {s}
        /\ post' = [post EXCEPT ![r] = [stream |-> s, index |-> nextIndex[s],
                                        smid |-> smid[s], state |-> st, by |-> r]]
  BY DEF TakeChunk
<1> DEFINE new == [stream |-> s, index |-> nextIndex[s],
                   smid |-> smid[s], state |-> st, by |-> r]
<1>2. m \in Msgs /\ s # NoStream /\ pc[r] = "purged" /\ post[r] = NoStream
  BY DEF TypeOK, TakeChunk
<1>3. new \in Chunk
  BY DEF TypeOK, Chunk
<1>4. s \notin opened \/ s = current[m]
  BY <1>1, <1>2 DEF Held
<1>5. \A n \in Msgs : current'[n] = s \/ current'[n] = current[n]
  BY <1>1 DEF TypeOK
<1>6. \A n \in Msgs : current'[n] = s => n = m
  BY <1>1, <1>2, <1>4 DEF TypeOK, SlotOwner
<1>7. /\ nextIndex' \in [Streams -> Nat]
      /\ nextIndex'[s] = nextIndex[s] + 1
      /\ \A t \in Streams : nextIndex'[t] >= nextIndex[t] /\ (t # s => nextIndex'[t] = nextIndex[t])
  BY <1>1 DEF TakeIndex, TypeOK
<1>8. Issued' = Issued \cup {new}
  BY <1>1, <1>2 DEF TakeChunk, Issued, InFlight, TypeOK
<1>9. TypeOK'
  <2>1. current' \in [Msgs -> opened' \cup {NoStream}] /\ opened' \subseteq Streams /\ stale' \subseteq Msgs
    BY <1>1 DEF TakeChunk, TypeOK
  <2>2. pc' \in [Replies -> {"waiting", "ready", "purged", "posting", "received", "ended", "failed"}]
        /\ post' \in [Replies -> Chunk \cup {NoStream}]
        /\ \A q \in Replies : pc'[q] \in {"posting", "received"} <=> post'[q] # NoStream
    BY <1>1, <1>3, PlaceholderIsNoChunk DEF TakeChunk, TypeOK
  <2>3. \A q \in Replies : sent'[q] \in 0..MaxChunks[q]
    <3>1. /\ sent' = [sent EXCEPT ![r] = sent[r] + 1]
          /\ sent[r] < MaxChunks[r]
      BY <1>2 DEF TakeChunk, TypeOK
    <3>2. sent \in [Replies -> Nat] /\ \A q \in Replies : sent[q] \in 0..MaxChunks[q]
      BY DEF TypeOK, ReplyTypes
    <3>3. MaxChunks[r] \in Nat /\ sent[r] \in Nat
      BY <3>2
    <3>4. ASSUME NEW q \in Replies PROVE sent'[q] \in 0..MaxChunks[q]
      <4>1. CASE q = r
        <5>1. sent'[q] = sent[r] + 1
          BY <3>1, <3>2, <4>1
        <5> QED BY <3>1, <3>3, <4>1, <5>1
      <4>2. CASE q # r
        <5>1. sent'[q] = sent[q]
          BY <3>1, <3>2, <4>2
        <5> QED BY <3>2, <5>1
      <4> QED BY <4>1, <4>2
    <3> QED BY <3>4
  <2>4. \A t \in Streams \ opened' : nextIndex'[t] = 0 /\ smid'[t] = NoStream
    BY <1>1, <1>7 DEF TakeChunk, TypeOK
  <2>5. \A q \in Replies : pc'[q] = "purged" => sent'[q] < MaxChunks[q]
    BY DEF TakeChunk, TypeOK, ReplyTypes
  <2> QED BY <1>1, <1>7, <2>1, <2>2, <2>3, <2>4, <2>5 DEF TakeChunk, TypeOK
<1>10. ReplyTypes'
  BY <1>1 DEF TakeChunk, ReplyTypes, TypeOK
<1>11. CounterAhead'
  <2>1. new.stream = s /\ new.index = nextIndex[s] /\ nextIndex[s] \in Nat
    BY DEF TypeOK
  <2>2. ASSUME NEW c \in Issued PROVE c.stream \in opened' /\ c.index < nextIndex'[c.stream]
    BY <1>1, <1>7, IssuedChunks DEF CounterAhead, Chunk, TypeOK
  <2> QED BY <1>1, <1>7, <1>8, <2>1, <2>2 DEF CounterAhead
<1>12. \A c \in Issued : c.stream = s => c.index # new.index /\ MsgOf[c.by] = m
  BY <1>4, <1>2, IssuedChunks DEF CounterAhead, Chunk, TypeOK, SlotOwner
<1>13. IndexUnique'
  BY <1>8, <1>12 DEF IndexUnique, Issued
<1>14. SlotOwner'
  <2>1. \A c \in Issued : c.stream # NoStream
    BY IssuedChunks DEF Chunk
  <2>2. \A k, n \in Msgs : current'[k] # NoStream /\ current'[k] = current'[n] => k = n
    BY <1>5, <1>6 DEF SlotOwner
  <2>3. ASSUME NEW c \in Issued', NEW n \in Msgs, current'[n] = c.stream PROVE MsgOf[c.by] = n
    <3>1. CASE c.stream = s
      BY <1>6, <1>8, <1>12, <2>3, <3>1
    <3>2. CASE c.stream # s
      BY <1>5, <1>8, <2>1, <2>3, <3>2 DEF SlotOwner
    <3> QED BY <3>1, <3>2
  <2> QED BY <2>2, <2>3 DEF SlotOwner
<1>15. IssuedPerMessage'
  BY <1>8, <1>12 DEF IssuedPerMessage
<1>16. ExpiredGone'
  BY <1>4, <1>5 DEF ExpiredGone, TakeChunk, TypeOK
<1> QED BY <1>9, <1>10, <1>11, <1>13, <1>14, <1>15, <1>16

LEMMA NextInv == IInv /\ [Next]_vars => IInv'
<1> SUFFICES ASSUME IInv, [Next]_vars PROVE IInv'
  OBVIOUS
<1> USE StreamConstants DEF IInv
<1>1. ASSUME NEW r \in Replies, Begin(r) PROVE IInv'
  <2>1. TypeOK' /\ ReplyTypes'
    BY <1>1 DEF Begin, TypeOK, ReplyTypes, table
  <2>2. Issued' \subseteq Issued
    BY <1>1 DEF Begin, Issued, InFlight, TypeOK
  <2> QED BY <1>1, <2>1, <2>2, NothingIssued DEF Begin, table
<1>2. ASSUME NEW r \in Replies, EndEmpty(r) PROVE IInv'
  <2>1. TypeOK' /\ ReplyTypes'
    BY <1>2 DEF EndEmpty, TypeOK, ReplyTypes, table
  <2>2. Issued' \subseteq Issued
    BY <1>2 DEF EndEmpty, Issued, InFlight, TypeOK
  <2> QED BY <1>2, <2>1, <2>2, NothingIssued DEF EndEmpty, table
<1>3. ASSUME NEW r \in Replies, NEW st \in States, TakeChunk(r, st) PROVE IInv'
  BY <1>3, TakeChunkInv
<1>4. ASSUME NEW r \in Replies, PlatformReceives(r) PROVE IInv'
  <2>1. post[r] \in Chunk /\ post[r] \in InFlight
    BY <1>4 DEF PlatformReceives, TypeOK, InFlight
  <2>2. TypeOK' /\ ReplyTypes'
    BY <1>4, <2>1 DEF PlatformReceives, TypeOK, ReplyTypes, table
  <2>3. Issued' \subseteq Issued
    BY <1>4, <2>1 DEF PlatformReceives, Issued, InFlight, TypeOK
  <2> QED BY <1>4, <2>2, <2>3, NothingIssued DEF PlatformReceives, table
<1>5. ASSUME NEW r \in Replies, PostFails(r) PROVE IInv'
  <2>1. Issued' \subseteq Issued
    BY <1>5 DEF PostFails, Issued, InFlight, TypeOK
  <2>2. post[r] \in Issued
    BY <1>5 DEF PostFails, Issued, InFlight, ReplyTypes
  <2>3. TypeOK' /\ ReplyTypes'
    BY <1>5, <2>2 DEF PostFails, TypeOK, ReplyTypes, table, CounterAhead
  <2> QED BY <1>5, <2>1, <2>3, NothingIssued DEF PostFails, table
<1>6. ASSUME NEW r \in Replies, Abandon(r) PROVE IInv'
  <2>1. Issued' \subseteq Issued
    BY <1>6 DEF Abandon, Issued, InFlight, TypeOK
  <2>2. TypeOK' /\ ReplyTypes'
    BY <1>6 DEF Abandon, TypeOK, ReplyTypes, table
  <2> QED BY <1>6, <2>1, <2>2, NothingIssued DEF Abandon, table
<1>7. ASSUME NEW r \in Replies, AnswerDone(r) PROVE IInv'
  <2>1. Issued' \subseteq Issued
    BY <1>7 DEF AnswerDone, Issued, InFlight, TypeOK
  <2>2. TypeOK' /\ ReplyTypes'
    BY <1>7 DEF AnswerDone, TypeOK, ReplyTypes
  <2> QED BY <1>7, <2>1, <2>2, NothingIssued DEF AnswerDone, TypeOK
<1>8. ASSUME NEW r \in Replies, AnswerGenerating(r) PROVE IInv'
  <2>1. Issued' \subseteq Issued
    BY <1>8 DEF AnswerGenerating, Issued, InFlight, TypeOK
  <2>2. post[r] \in Issued /\ post[r] \in Chunk /\ Bubble(post[r]) \in Streams
    BY <1>8 DEF AnswerGenerating, Issued, ReplyTypes, TypeOK, Chunk, Bubble
  <2>3. PICK id \in {Bubble(post[r]), NoStream} :
          CaptureId(r, id) /\ broken' \subseteq broken \cup {post[r].stream}
    BY <1>8 DEF AnswerGenerating
  <2>4. /\ smid' \in [Streams -> Streams \cup {NoStream}]
        /\ \A s \in Streams \ opened : smid'[s] = NoStream
    BY <2>2, <2>3 DEF CaptureId, TypeOK
  <2>5. TypeOK' /\ ReplyTypes'
    BY <1>8, <2>2, <2>3, <2>4 DEF AnswerGenerating, TypeOK, ReplyTypes, CounterAhead
  <2> QED BY <1>8, <2>1, <2>5, NothingIssued DEF AnswerGenerating
<1>9. ASSUME NEW m \in Msgs, Idle(m) PROVE IInv'
  <2>1. Issued' \subseteq Issued
    BY <1>9 DEF Idle, Issued, InFlight, TypeOK
  <2>2. TypeOK' /\ ReplyTypes'
    BY <1>9 DEF Idle, TypeOK, ReplyTypes
  <2> QED BY <1>9, <2>1, <2>2, NothingIssued DEF Idle
<1>10. CASE UNCHANGED vars
  <2>1. Issued' \subseteq Issued
    BY <1>10 DEF vars, table, Issued, InFlight
  <2>2. TypeOK' /\ ReplyTypes'
    BY <1>10 DEF vars, table, TypeOK, ReplyTypes
  <2> QED BY <1>10, <2>1, <2>2, NothingIssued DEF vars, table
<1>11. ASSUME NEW r \in Replies, Purge(r) PROVE IInv'
  BY <1>11, PurgeInv
<1> QED
  BY <1>1, <1>2, <1>3, <1>4, <1>5, <1>6, <1>7, <1>8, <1>9, <1>10, <1>11 DEF Next

\* The types of the table, of the replies and of the wire hold throughout.
THEOREM TypeCorrect == Spec => []TypeOK
<1>1. IInv => TypeOK
  BY DEF IInv
<1> QED BY InitInv, NextInv, <1>1, PTL DEF Spec

\* No two chunks of stream_c2c_chunk ever carry the same stream and index,
\* whatever replies run at once, fail, are dropped or go idle.
THEOREM IndexesUnique == Spec => []IndexUnique
<1>1. IInv => IndexUnique
  BY DEF IInv
<1> QED BY InitInv, NextInv, <1>1, PTL DEF Spec

\* Chunks of one stream answer one message: the slots of reply_sessions do not
\* mix, and a purge by another message's chunk does not change that.
THEOREM StreamsPerMessage == Spec => []StreamPerMessage
<1>1. IInv => StreamPerMessage
  BY DEF IInv, IssuedPerMessage, Issued, StreamPerMessage
<1> QED BY InitInv, NextInv, <1>1, PTL DEF Spec

\* What a purge found idle is never continued: it left every slot, the answer to
\* a chunk of it that was still under way does not bring it back, and a new stream
\* is one that was never opened.
THEOREM IdleNeverResumed == Spec => NeverResumesIdle
<1>1. IInv /\ [Next]_vars =>
        \A r \in Replies : pc[r] = "purged" /\ pc'[r] = "posting" => post'[r].stream \notin expired
  <2> SUFFICES ASSUME IInv, [Next]_vars, NEW r \in Replies, pc[r] = "purged", pc'[r] = "posting"
               PROVE  post'[r].stream \notin expired
    OBVIOUS
  <2> USE StreamConstants DEF IInv
  <2>1. PICK st \in States : TakeChunk(r, st)
    <3>1. pc \in [Replies -> {"waiting", "ready", "purged", "posting", "received", "ended", "failed"}]
      BY DEF TypeOK
    <3> QED BY <3>1 DEF Next, vars, Begin, EndEmpty, Purge, TakeChunk, PlatformReceives, PostFails,
                        Abandon, AnswerDone, AnswerGenerating, Idle
  <2>2. PICK s \in Streams :
          /\ s \notin opened \/ s = current[MsgOf[r]]
          /\ post' = [post EXCEPT ![r] = [stream |-> s, index |-> nextIndex[s],
                                          smid |-> smid[s], state |-> st, by |-> r]]
    BY <2>1 DEF TakeChunk, Held
  <2> QED BY <2>2 DEF TypeOK, ExpiredGone
<1>2. IInv /\ [Next]_vars =>
        [\A r \in Replies :
           pc[r] = "purged" /\ pc'[r] = "posting" => post'[r].stream \notin expired]_vars
  BY <1>1
<1> QED BY InitInv, NextInv, <1>2, PTL DEF Spec, NeverResumesIdle

-----------------------------------------------------------------------------
(* Replies in turn: what a message that never had two replies at once can   *)
(* rely on.                                                                  *)

\* Of a message whose replies come in turn, one reply is under way at most.
OneActive ==
  \A r, q \in Replies :
    Active(r) /\ Active(q) /\ MsgOf[r] = MsgOf[q] /\ MsgOf[r] \notin overlapped => r = q

\* A reply that has not begun has sent nothing.
Begun == \A c \in Issued : pc[c.by] # "waiting"

\* While a chunk is under way, the slot holds its stream or was purged.
SlotHolds ==
  \A r \in Replies :
    post[r] # NoStream /\ MsgOf[r] \notin overlapped =>
      current[MsgOf[r]] \in {post[r].stream, NoStream}

\* A stream that is in a slot and did not break belongs to a reply under way.
SlotServed ==
  \A m \in Msgs :
    m \notin overlapped /\ current[m] # NoStream /\ current[m] \notin broken =>
      \E r \in Replies :
        /\ Active(r) /\ MsgOf[r] = m /\ sent[r] > 0
        /\ \A c \in Issued : c.stream = current[m] => c.by = r

\* A reply under way whose session did not go idle still has its stream.
KeepsSlot ==
  \A c \in Issued :
    InTurn(c) /\ Active(c.by) /\ c.by \notin lapsed =>
      current[MsgOf[c.by]] = c.stream /\ MsgOf[c.by] \notin stale

\* The stream in a slot carries no other stream's id, and has its own when the
\* next chunk is to be sent, unless an answer went wrong.
SlotId ==
  /\ \A m \in Msgs :
       m \notin overlapped /\ current[m] # NoStream => smid[current[m]] \in {NoStream, current[m]}
  /\ \A r \in Replies :
       pc[r] \in {"ready", "purged"} /\ MsgOf[r] \notin overlapped
         /\ current[MsgOf[r]] # NoStream /\ current[MsgOf[r]] \notin broken
         => smid[current[MsgOf[r]]] = current[MsgOf[r]]

\* What is said of bubbles and their ids, for the chunks under way as well.
IssuedBubbles ==
  /\ \A c, d \in Issued :
       InTurn(c) /\ c.stream = d.stream /\ c.stream \notin broken => c.by = d.by
  /\ \A c, d \in Issued : InTurn(c) /\ c.by = d.by /\ c.by \notin lapsed => c.stream = d.stream
  /\ \A c \in Issued : InTurn(c) => c.smid \in {NoStream, c.stream}
  /\ \A c \in Issued :
       InTurn(c) /\ c.index > 0 /\ c.stream \notin broken => c.smid = c.stream

TurnInv ==
  /\ IInv
  /\ OneActive
  /\ Begun
  /\ SlotHolds
  /\ SlotServed
  /\ KeepsSlot
  /\ SlotId
  /\ IssuedBubbles

LEMMA InitTurnInv == Init => TurnInv
<1> SUFFICES ASSUME Init PROVE TurnInv
  OBVIOUS
<1>1. Issued = {} /\ \A r \in Replies : ~Active(r)
  BY DEF Init, Issued, InFlight, Active
<1>2. OneActive /\ Begun /\ SlotHolds /\ SlotServed /\ KeepsSlot /\ SlotId /\ IssuedBubbles
  BY <1>1, StreamConstants DEF Init, OneActive, Begun, SlotHolds, SlotServed, KeepsSlot, SlotId,
                               IssuedBubbles
<1> QED BY InitInv, <1>2 DEF TurnInv

\* What is said of issued chunks stays true while nothing is issued.
LEMMA BubblesKept ==
  ASSUME IssuedBubbles, Issued' \subseteq Issued, broken \subseteq broken',
         lapsed \subseteq lapsed', overlapped \subseteq overlapped'
  PROVE  IssuedBubbles'
  BY DEF IssuedBubbles, InTurn

LEMMA BeginTurn ==
  ASSUME TurnInv, NEW r \in Replies, Begin(r)
  PROVE  OneActive' /\ Begun' /\ SlotHolds' /\ SlotServed' /\ KeepsSlot' /\ SlotId' /\ IssuedBubbles'
<1> USE StreamConstants DEF TurnInv, IInv
<1> DEFINE m == MsgOf[r]
<1>1. /\ pc[r] = "waiting" /\ pc' = [pc EXCEPT ![r] = "ready"]
      /\ overlapped' = overlapped \cup {k \in {m} : \E q \in Replies : MsgOf[q] = k /\ Active(q)}
      /\ UNCHANGED <<current, stale, nextIndex, smid, opened, post, sent, wire, broken, lapsed>>
  BY DEF Begin, table
<1>2. m \in Msgs /\ pc \in [Replies -> {"waiting", "ready", "purged", "posting", "received", "ended", "failed"}]
  BY DEF TypeOK
<1>3. Issued' = Issued
  BY <1>1, <1>2 DEF Issued, InFlight
<1>4. \A q \in Replies : Active(q)' <=> Active(q) \/ q = r
  BY <1>1, <1>2 DEF Active
<1>5. ~Active(r)
  BY <1>1 DEF Active
<1>6. m \notin overlapped' => \A q \in Replies : MsgOf[q] = m => ~Active(q)
  BY <1>1
<1>7. OneActive'
  BY <1>1, <1>4, <1>6 DEF OneActive
<1>8. Begun'
  BY <1>1, <1>2, <1>3 DEF Begun
<1>9. SlotHolds'
  BY <1>1 DEF SlotHolds
<1>10. SlotServed'
  BY <1>1, <1>3, <1>4 DEF SlotServed
<1>11. KeepsSlot'
  <2> SUFFICES ASSUME NEW c \in Issued', InTurn(c)', Active(c.by)', c.by \notin lapsed'
               PROVE  current'[MsgOf[c.by]] = c.stream /\ MsgOf[c.by] \notin stale'
    BY DEF KeepsSlot
  <2>1. c.by \in Replies /\ c.by # r
    BY <1>1, <1>3, IssuedChunks DEF Begun, Chunk
  <2> QED BY <1>1, <1>3, <1>4, <2>1 DEF KeepsSlot, InTurn
<1>12. SlotId'
  <2>1. m \notin overlapped' => current[m] = NoStream \/ current[m] \in broken
    BY <1>1, <1>2, <1>6 DEF SlotServed
  <2>2. \A q \in Replies : pc'[q] \in {"ready", "purged"} => pc[q] \in {"ready", "purged"} \/ q = r
    BY <1>1, <1>2
  <2> QED BY <1>1, <2>1, <2>2 DEF SlotId
<1>13. IssuedBubbles'
  BY <1>1, <1>3, BubblesKept
<1> QED BY <1>7, <1>8, <1>9, <1>10, <1>11, <1>12, <1>13

\* A reply that sent nothing serves no slot: its end changes none.
LEMMA EndEmptyTurn ==
  ASSUME TurnInv, NEW r \in Replies, EndEmpty(r)
  PROVE  OneActive' /\ Begun' /\ SlotHolds' /\ SlotServed' /\ KeepsSlot' /\ SlotId' /\ IssuedBubbles'
<1> USE StreamConstants DEF TurnInv, IInv
<1>1. /\ pc[r] = "ready" /\ sent[r] = 0 /\ pc' = [pc EXCEPT ![r] = "ended"]
      /\ UNCHANGED <<current, stale, nextIndex, smid, opened, post, sent, wire, broken, lapsed,
                     overlapped>>
  BY DEF EndEmpty, table
<1>2. pc \in [Replies -> {"waiting", "ready", "purged", "posting", "received", "ended", "failed"}]
  BY DEF TypeOK
<1>3. Issued' = Issued
  BY <1>1, <1>2 DEF Issued, InFlight
<1>4. \A q \in Replies : Active(q)' <=> Active(q) /\ q # r
  BY <1>1, <1>2 DEF Active
<1>5. OneActive'
  BY <1>1, <1>4 DEF OneActive
<1>6. Begun'
  BY <1>1, <1>2, <1>3 DEF Begun
<1>7. SlotHolds'
  BY <1>1 DEF SlotHolds
<1>8. SlotServed'
  BY <1>1, <1>3, <1>4 DEF SlotServed
<1>9. KeepsSlot'
  <2>1. \A c \in Issued : c.by \in Replies
    BY IssuedChunks DEF Chunk
  <2> QED BY <1>1, <1>3, <1>4, <2>1 DEF KeepsSlot, InTurn
<1>10. SlotId'
  BY <1>1, <1>2 DEF SlotId
<1>11. IssuedBubbles'
  BY <1>1, <1>3, BubblesKept
<1> QED BY <1>5, <1>6, <1>7, <1>8, <1>9, <1>10, <1>11

\* A purge clears the slots of idle sessions only, and of those every reply under
\* way has lapsed.
LEMMA PurgeTurn ==
  ASSUME TurnInv, NEW r \in Replies, Purge(r)
  PROVE  OneActive' /\ Begun' /\ SlotHolds' /\ SlotServed' /\ KeepsSlot' /\ SlotId' /\ IssuedBubbles'
<1> USE StreamConstants DEF TurnInv, IInv
<1>1. /\ pc[r] = "ready" /\ pc' = [pc EXCEPT ![r] = "purged"]
      /\ stale' = {}
      /\ \A n \in Msgs : current'[n] = IF n \in stale THEN NoStream ELSE current[n]
      /\ UNCHANGED <<nextIndex, smid, opened, post, sent, wire, broken, lapsed, overlapped>>
  BY DEF Purge
<1>2. pc \in [Replies -> {"waiting", "ready", "purged", "posting", "received", "ended", "failed"}]
  BY DEF TypeOK
<1>3. Issued' = Issued
  BY <1>1, <1>2 DEF Issued, InFlight
<1>4. \A q \in Replies : Active(q)' <=> Active(q)
  BY <1>1, <1>2 DEF Active
<1>5. \A c \in Issued : c.by \in Replies /\ MsgOf[c.by] \in Msgs
  BY IssuedChunks DEF Chunk
<1>6. OneActive' /\ Begun'
  BY <1>1, <1>2, <1>3, <1>4, <1>5 DEF OneActive, Begun
<1>7. SlotHolds'
  BY <1>1 DEF SlotHolds
<1>8. SlotServed'
  BY <1>1, <1>3, <1>4 DEF SlotServed
<1>9. KeepsSlot'
  BY <1>1, <1>3, <1>4, <1>5 DEF KeepsSlot, InTurn
<1>10. SlotId'
  <2>1. \A q \in Replies : pc'[q] \in {"ready", "purged"} => pc[q] \in {"ready", "purged"}
    BY <1>1, <1>2
  <2> QED BY <1>1, <2>1 DEF SlotId
<1>11. IssuedBubbles'
  BY <1>1, <1>3, BubblesKept
<1> QED BY <1>6, <1>7, <1>8, <1>9, <1>10, <1>11

\* A chunk of a reply in turn goes to the stream of its reply, or opens one.
LEMMA TakeChunkTurn ==
  ASSUME TurnInv, NEW r \in Replies, NEW st \in States, TakeChunk(r, st)
  PROVE  OneActive' /\ Begun' /\ SlotHolds' /\ SlotServed' /\ KeepsSlot' /\ SlotId' /\ IssuedBubbles'
<1> USE StreamConstants DEF TurnInv, IInv
<1> DEFINE m == MsgOf[r]
<1>1. PICK s \in Streams :
        /\ IF Held(m) = NoStream THEN s \notin opened ELSE s = Held(m)
        /\ current' = [current EXCEPT ![m] = s]
        /\ TakeIndex(s)
        /\ opened' = opened \cup {s}
        /\ post' = [post EXCEPT ![r] = [stream |-> s, index |-> nextIndex[s],
                                        smid |-> smid[s], state |-> st, by |-> r]]
  BY DEF TakeChunk
<1> DEFINE new == [stream |-> s, index |-> nextIndex[s],
                   smid |-> smid[s], state |-> st, by |-> r]
<1>2. /\ pc[r] = "purged" /\ pc' = [pc EXCEPT ![r] = "posting"]
      /\ sent' = [sent EXCEPT ![r] = @ + 1]
      /\ UNCHANGED <<smid, wire, broken, lapsed, overlapped>>
  BY DEF TakeChunk
<1>3. /\ m \in Msgs /\ s # NoStream /\ post[r] = NoStream
      /\ pc \in [Replies -> {"waiting", "ready", "purged", "posting", "received", "ended", "failed"}]
      /\ post \in [Replies -> Chunk \cup {NoStream}]
      /\ sent \in [Replies -> Nat]
  BY <1>2 DEF TypeOK, ReplyTypes
<1>4. Issued' = Issued \cup {new}
  BY <1>1, <1>2, <1>3 DEF Issued, InFlight
<1>5. \A q \in Replies : Active(q)' <=> Active(q)
  BY <1>2, <1>3 DEF Active
<1>6. Active(r)
  BY <1>2 DEF Active
<1>7. /\ current'[m] = s /\ stale' = stale \ {m}
      /\ \A n \in Msgs : n # m => current'[n] = current[n]
  BY <1>1, <1>3 DEF TakeChunk, TypeOK
<1>8. \A c \in Issued : c.by \in Replies /\ c.stream \in opened /\ c.stream # NoStream
  BY IssuedChunks DEF Chunk, CounterAhead
<1>9. \/ s \notin opened
      \/ s = current[m]
  BY <1>1, <1>3 DEF Held
<1>10. m \notin overlapped => \A q \in Replies : Active(q) /\ MsgOf[q] = m => q = r
  BY <1>6 DEF OneActive
<1>11. m \notin overlapped /\ s \notin broken => \A c \in Issued : c.stream = s => c.by = r
  BY <1>3, <1>8, <1>9, <1>10 DEF SlotServed
<1>12. m \notin overlapped /\ r \notin lapsed => \A c \in Issued : c.by = r => c.stream = s
  <2> SUFFICES ASSUME m \notin overlapped, r \notin lapsed, NEW c \in Issued, c.by = r
               PROVE  c.stream = s
    OBVIOUS
  <2>1. current[m] = c.stream /\ c.stream # NoStream
    BY <1>6, <1>8 DEF KeepsSlot, InTurn
  <2> QED BY <1>1, <2>1 DEF Held
<1>13. m \notin overlapped => smid[s] \in {NoStream, s}
  BY <1>3, <1>9 DEF SlotId, TypeOK
<1>14. m \notin overlapped /\ nextIndex[s] > 0 /\ s \notin broken => smid[s] = s
  BY <1>2, <1>3, <1>9 DEF SlotId, TypeOK
<1>15. OneActive'
  BY <1>2, <1>5 DEF OneActive
<1>16. Begun'
  BY <1>2, <1>3, <1>4, <1>8 DEF Begun
<1>17. SlotHolds'
  <2> SUFFICES ASSUME NEW q \in Replies, post'[q] # NoStream, MsgOf[q] \notin overlapped'
               PROVE  current'[MsgOf[q]] \in {post'[q].stream, NoStream}
    BY DEF SlotHolds
  <2>1. CASE q = r
    BY <1>1, <1>3, <1>7, <2>1
  <2>2. CASE q # r
    <3>1. post'[q] = post[q] /\ post[q] # NoStream
      BY <1>1, <1>3, <2>2
    <3>2. Active(q)
      BY <3>1 DEF TypeOK, Active
    <3>3. MsgOf[q] # m /\ MsgOf[q] \in Msgs
      BY <1>2, <1>10, <2>2, <3>2
    <3> QED BY <1>2, <1>7, <3>1, <3>3 DEF SlotHolds
  <2> QED BY <2>1, <2>2
<1>18. SlotServed'
  <2> SUFFICES ASSUME NEW n \in Msgs, n \notin overlapped',
                      current'[n] # NoStream, current'[n] \notin broken'
               PROVE  \E q \in Replies :
                        /\ Active(q)' /\ MsgOf[q] = n /\ sent'[q] > 0
                        /\ \A c \in Issued' : c.stream = current'[n] => c.by = q
    BY DEF SlotServed
  <2>1. CASE n = m
    <3>1. sent'[r] > 0
      BY <1>2, <1>3
    <3>2. \A c \in Issued' : c.stream = s => c.by = r
      BY <1>2, <1>4, <1>7, <1>11, <2>1
    <3> QED BY <1>5, <1>6, <1>7, <2>1, <3>1, <3>2
  <2>2. CASE n # m
    <3>1. current'[n] = current[n]
      BY <1>7, <2>2
    <3>2. PICK q \in Replies :
            /\ Active(q) /\ MsgOf[q] = n /\ sent[q] > 0
            /\ \A c \in Issued : c.stream = current[n] => c.by = q
      BY <1>2, <3>1 DEF SlotServed
    <3>3. current[n] # s
      BY <1>9, <2>2, <3>1, <1>3 DEF SlotOwner, TypeOK
    <3>4. sent'[q] > 0
      BY <1>2, <1>3, <2>2, <3>2
    <3> QED BY <1>4, <1>5, <3>1, <3>2, <3>3, <3>4
  <2> QED BY <2>1, <2>2
<1>19. KeepsSlot'
  <2> SUFFICES ASSUME NEW c \in Issued', InTurn(c)', Active(c.by)', c.by \notin lapsed'
               PROVE  current'[MsgOf[c.by]] = c.stream /\ MsgOf[c.by] \notin stale'
    BY DEF KeepsSlot
  <2>1. CASE c = new
    BY <1>7, <2>1
  <2>2. CASE c \in Issued /\ c.by = r
    BY <1>2, <1>7, <1>12, <2>2 DEF InTurn
  <2>3. CASE c \in Issued /\ c.by # r
    <3>1. Active(c.by) /\ InTurn(c) /\ MsgOf[c.by] \in Msgs
      BY <1>2, <1>5, <1>8, <2>3 DEF InTurn
    <3>2. MsgOf[c.by] # m
      BY <1>8, <1>10, <2>3, <3>1 DEF InTurn
    <3>3. current[MsgOf[c.by]] = c.stream /\ MsgOf[c.by] \notin stale
      BY <1>2, <2>3, <3>1 DEF KeepsSlot
    <3>4. current'[MsgOf[c.by]] = current[MsgOf[c.by]]
      BY <1>7, <3>1, <3>2
    <3> QED BY <1>7, <3>3, <3>4
  <2> QED BY <1>4, <2>1, <2>2, <2>3
<1>20. SlotId'
  <2>1. ASSUME NEW n \in Msgs, n \notin overlapped', current'[n] # NoStream
        PROVE  smid'[current'[n]] \in {NoStream, current'[n]}
    BY <1>2, <1>7, <1>13, <2>1 DEF SlotId
  <2>2. ASSUME NEW q \in Replies, pc'[q] \in {"ready", "purged"}, MsgOf[q] \notin overlapped',
               current'[MsgOf[q]] # NoStream, current'[MsgOf[q]] \notin broken'
        PROVE  smid'[current'[MsgOf[q]]] = current'[MsgOf[q]]
    <3>1. q # r /\ pc[q] \in {"ready", "purged"} /\ Active(q)
      BY <1>2, <1>3, <2>2 DEF Active
    <3>2. MsgOf[q] # m /\ MsgOf[q] \in Msgs
      BY <1>2, <1>10, <2>2, <3>1
    <3> QED BY <1>2, <1>7, <2>2, <3>1, <3>2 DEF SlotId
  <2> QED BY <2>1, <2>2 DEF SlotId
<1>21. IssuedBubbles'
  <2>1. \A c, d \in Issued' :
          InTurn(c)' /\ c.stream = d.stream /\ c.stream \notin broken' => c.by = d.by
    <3> SUFFICES ASSUME NEW c \in Issued', NEW d \in Issued',
                        InTurn(c)', c.stream = d.stream, c.stream \notin broken'
                 PROVE  c.by = d.by
      OBVIOUS
    <3>1. CASE c \in Issued /\ d \in Issued
      BY <1>2, <3>1 DEF IssuedBubbles, InTurn
    <3>2. CASE c = new
      BY <1>2, <1>4, <1>11, <3>2 DEF InTurn
    <3>3. CASE c \in Issued /\ d = new
      <4>1. s \in opened /\ s = current[m]
        BY <1>8, <1>9, <3>3
      <4>2. MsgOf[c.by] = m
        BY <1>3, <3>3, <4>1 DEF SlotOwner
      <4> QED BY <1>2, <1>11, <3>3, <4>2 DEF InTurn
    <3> QED BY <1>4, <3>1, <3>2, <3>3
  <2>2. \A c, d \in Issued' :
          InTurn(c)' /\ c.by = d.by /\ c.by \notin lapsed' => c.stream = d.stream
    BY <1>2, <1>4, <1>12 DEF IssuedBubbles, InTurn
  <2>3. \A c \in Issued' : InTurn(c)' => c.smid \in {NoStream, c.stream}
    BY <1>2, <1>4, <1>13 DEF IssuedBubbles, InTurn
  <2>4. \A c \in Issued' :
          InTurn(c)' /\ c.index > 0 /\ c.stream \notin broken' => c.smid = c.stream
    BY <1>2, <1>4, <1>14 DEF IssuedBubbles, InTurn
  <2> QED BY <2>1, <2>2, <2>3, <2>4 DEF IssuedBubbles
<1> QED BY <1>15, <1>16, <1>17, <1>18, <1>19, <1>20, <1>21

\* Between the critical sections only the wire changes.
LEMMA PlatformReceivesTurn ==
  ASSUME TurnInv, NEW r \in Replies, PlatformReceives(r)
  PROVE  OneActive' /\ Begun' /\ SlotHolds' /\ SlotServed' /\ KeepsSlot' /\ SlotId' /\ IssuedBubbles'
<1> USE StreamConstants DEF TurnInv, IInv
<1>1. /\ pc[r] = "posting" /\ pc' = [pc EXCEPT ![r] = "received"]
      /\ wire' = wire \cup {post[r]}
      /\ UNCHANGED <<current, stale, nextIndex, smid, opened, post, sent, broken, lapsed, overlapped>>
  BY DEF PlatformReceives, table
<1>2. pc \in [Replies -> {"waiting", "ready", "purged", "posting", "received", "ended", "failed"}]
  BY DEF TypeOK
<1>3. Issued' = Issued
  BY <1>1, <1>2 DEF Issued, InFlight
<1>4. \A q \in Replies : Active(q)' <=> Active(q)
  BY <1>1, <1>2 DEF Active
<1>5. \A c \in Issued : c.by \in Replies
  BY IssuedChunks DEF Chunk
<1>6. OneActive' /\ SlotHolds' /\ SlotServed'
  BY <1>1, <1>3, <1>4 DEF OneActive, SlotHolds, SlotServed
<1>7. Begun'
  BY <1>1, <1>2, <1>3, <1>5 DEF Begun
<1>8. KeepsSlot'
  BY <1>1, <1>3, <1>4, <1>5 DEF KeepsSlot, InTurn
<1>9. SlotId'
  BY <1>1, <1>2 DEF SlotId
<1>10. IssuedBubbles'
  BY <1>1, <1>3, BubblesKept
<1> QED BY <1>6, <1>7, <1>8, <1>9, <1>10

\* A failure or a dropped reply breaks the stream, so nothing more is said of
\* it while it stays in the slot.
LEMMA PostFailsTurn ==
  ASSUME TurnInv, NEW r \in Replies, PostFails(r)
  PROVE  OneActive' /\ Begun' /\ SlotHolds' /\ SlotServed' /\ KeepsSlot' /\ SlotId' /\ IssuedBubbles'
<1> USE StreamConstants DEF TurnInv, IInv
<1> DEFINE m == MsgOf[r]
<1>1. /\ pc[r] \in {"posting", "received"} /\ pc' = [pc EXCEPT ![r] = "failed"]
      /\ broken' = broken \cup {post[r].stream}
      /\ post' = [post EXCEPT ![r] = NoStream]
      /\ UNCHANGED <<current, stale, nextIndex, smid, opened, sent, wire, lapsed, overlapped>>
  BY DEF PostFails, table
<1>2. /\ pc \in [Replies -> {"waiting", "ready", "purged", "posting", "received", "ended", "failed"}]
      /\ post \in [Replies -> Chunk \cup {NoStream}]
      /\ m \in Msgs /\ post[r] # NoStream
  BY <1>1 DEF TypeOK
<1>3. Issued' \subseteq Issued
  BY <1>1, <1>2 DEF Issued, InFlight
<1>4. \A q \in Replies : Active(q)' <=> Active(q) /\ q # r
  BY <1>1, <1>2 DEF Active
<1>5. \A c \in Issued : c.by \in Replies
  BY IssuedChunks DEF Chunk
<1>6. OneActive'
  BY <1>1, <1>4 DEF OneActive
<1>7. SlotHolds'
  BY <1>1, <1>2 DEF SlotHolds
<1>8. SlotServed'
  <2> SUFFICES ASSUME NEW n \in Msgs, n \notin overlapped',
                      current'[n] # NoStream, current'[n] \notin broken'
               PROVE  \E q \in Replies :
                        /\ Active(q)' /\ MsgOf[q] = n /\ sent'[q] > 0
                        /\ \A c \in Issued' : c.stream = current'[n] => c.by = q
    BY DEF SlotServed
  <2>1. PICK q \in Replies :
          /\ Active(q) /\ MsgOf[q] = n /\ sent[q] > 0
          /\ \A c \in Issued : c.stream = current[n] => c.by = q
    BY <1>1 DEF SlotServed
  <2>2. q # r
    BY <1>1, <1>2, <2>1 DEF SlotHolds
  <2> QED BY <1>1, <1>3, <1>4, <2>1, <2>2
<1>9. Begun'
  BY <1>1, <1>2, <1>3, <1>5 DEF Begun
<1>10. KeepsSlot'
  BY <1>1, <1>3, <1>4, <1>5 DEF KeepsSlot, InTurn
<1>11. SlotId'
  BY <1>1, <1>2 DEF SlotId
<1>12. IssuedBubbles'
  BY <1>1, <1>3, BubblesKept
<1> QED BY <1>6, <1>7, <1>8, <1>9, <1>10, <1>11, <1>12

LEMMA AbandonTurn ==
  ASSUME TurnInv, NEW r \in Replies, Abandon(r)
  PROVE  OneActive' /\ Begun' /\ SlotHolds' /\ SlotServed' /\ KeepsSlot' /\ SlotId' /\ IssuedBubbles'
<1> USE StreamConstants DEF TurnInv, IInv
<1> DEFINE m == MsgOf[r]
<1>1. /\ pc[r] = "ready" /\ pc' = [pc EXCEPT ![r] = "failed"]
      /\ broken' = broken \cup ({current[m]} \ {NoStream})
      /\ post' = [post EXCEPT ![r] = NoStream]
      /\ UNCHANGED <<current, stale, nextIndex, smid, opened, sent, wire, lapsed, overlapped>>
  <2>1. post[r] = NoStream /\ post \in [Replies -> Chunk \cup {NoStream}]
    BY DEF Abandon, TypeOK
  <2> QED BY <2>1 DEF Abandon, table
<1>2. /\ pc \in [Replies -> {"waiting", "ready", "purged", "posting", "received", "ended", "failed"}]
      /\ post \in [Replies -> Chunk \cup {NoStream}]
      /\ m \in Msgs
  BY DEF TypeOK
<1>3. Issued' \subseteq Issued
  BY <1>1, <1>2 DEF Issued, InFlight
<1>4. \A q \in Replies : Active(q)' <=> Active(q) /\ q # r
  BY <1>1, <1>2 DEF Active
<1>5. \A c \in Issued : c.by \in Replies
  BY IssuedChunks DEF Chunk
<1>6. OneActive'
  BY <1>1, <1>4 DEF OneActive
<1>7. SlotHolds'
  BY <1>1, <1>2 DEF SlotHolds
<1>8. SlotServed'
  <2> SUFFICES ASSUME NEW n \in Msgs, n \notin overlapped',
                      current'[n] # NoStream, current'[n] \notin broken'
               PROVE  \E q \in Replies :
                        /\ Active(q)' /\ MsgOf[q] = n /\ sent'[q] > 0
                        /\ \A c \in Issued' : c.stream = current'[n] => c.by = q
    BY DEF SlotServed
  <2>1. PICK q \in Replies :
          /\ Active(q) /\ MsgOf[q] = n /\ sent[q] > 0
          /\ \A c \in Issued : c.stream = current[n] => c.by = q
    BY <1>1 DEF SlotServed
  <2>2. q # r
    BY <1>1, <2>1
  <2> QED BY <1>1, <1>3, <1>4, <2>1, <2>2
<1>9. Begun'
  BY <1>1, <1>2, <1>3, <1>5 DEF Begun
<1>10. KeepsSlot'
  BY <1>1, <1>3, <1>4, <1>5 DEF KeepsSlot, InTurn
<1>11. SlotId'
  BY <1>1, <1>2 DEF SlotId
<1>12. IssuedBubbles'
  BY <1>1, <1>3, BubblesKept
<1> QED BY <1>6, <1>7, <1>8, <1>9, <1>10, <1>11, <1>12

\* The DONE chunk was answered: the slot of a reply in turn is its own.
LEMMA AnswerDoneTurn ==
  ASSUME TurnInv, NEW r \in Replies, AnswerDone(r)
  PROVE  OneActive' /\ Begun' /\ SlotHolds' /\ SlotServed' /\ KeepsSlot' /\ SlotId' /\ IssuedBubbles'
<1> USE StreamConstants DEF TurnInv, IInv
<1> DEFINE m == MsgOf[r]
<1>1. /\ pc[r] = "received" /\ pc' = [pc EXCEPT ![r] = "ended"]
      /\ current' = [current EXCEPT ![m] = NoStream]
      /\ stale' = stale \ {m}
      /\ post' = [post EXCEPT ![r] = NoStream]
      /\ UNCHANGED <<nextIndex, smid, opened, sent, wire, broken, lapsed, overlapped>>
  BY DEF AnswerDone
<1>2. /\ pc \in [Replies -> {"waiting", "ready", "purged", "posting", "received", "ended", "failed"}]
      /\ post \in [Replies -> Chunk \cup {NoStream}]
      /\ m \in Msgs /\ Active(r)
      /\ current \in [Msgs -> opened \cup {NoStream}]
  BY <1>1 DEF TypeOK, Active
<1>3. Issued' \subseteq Issued
  BY <1>1, <1>2 DEF Issued, InFlight
<1>4. \A q \in Replies : Active(q)' <=> Active(q) /\ q # r
  BY <1>1, <1>2 DEF Active
<1>5. \A c \in Issued : c.by \in Replies /\ MsgOf[c.by] \in Msgs
  BY IssuedChunks DEF Chunk
<1>6. m \notin overlapped => \A q \in Replies : Active(q) /\ MsgOf[q] = m => q = r
  BY <1>2 DEF OneActive
<1>7. current'[m] = NoStream /\ \A n \in Msgs : n # m => current'[n] = current[n]
  BY <1>1, <1>2
<1>8. OneActive'
  BY <1>1, <1>4 DEF OneActive
<1>9. SlotHolds'
  <2> SUFFICES ASSUME NEW q \in Replies, post'[q] # NoStream, MsgOf[q] \notin overlapped'
               PROVE  current'[MsgOf[q]] \in {post'[q].stream, NoStream}
    BY DEF SlotHolds
  <2>1. post'[q] = post[q] /\ MsgOf[q] \in Msgs
    BY <1>1, <1>2
  <2> QED BY <1>1, <1>7, <2>1 DEF SlotHolds
<1>10. SlotServed'
  <2> SUFFICES ASSUME NEW n \in Msgs, n \notin overlapped',
                      current'[n] # NoStream, current'[n] \notin broken'
               PROVE  \E q \in Replies :
                        /\ Active(q)' /\ MsgOf[q] = n /\ sent'[q] > 0
                        /\ \A c \in Issued' : c.stream = current'[n] => c.by = q
    BY DEF SlotServed
  <2>1. n # m /\ current'[n] = current[n]
    BY <1>7
  <2>2. PICK q \in Replies :
          /\ Active(q) /\ MsgOf[q] = n /\ sent[q] > 0
          /\ \A c \in Issued : c.stream = current[n] => c.by = q
    BY <1>1, <2>1 DEF SlotServed
  <2> QED BY <1>1, <1>3, <1>4, <2>1, <2>2
<1>11. Begun'
  BY <1>1, <1>2, <1>3, <1>5 DEF Begun
<1>12. KeepsSlot'
  <2> SUFFICES ASSUME NEW c \in Issued', InTurn(c)', Active(c.by)', c.by \notin lapsed'
               PROVE  current'[MsgOf[c.by]] = c.stream /\ MsgOf[c.by] \notin stale'
    BY DEF KeepsSlot
  <2>1. c \in Issued /\ InTurn(c) /\ Active(c.by) /\ c.by # r
    BY <1>1, <1>3, <1>4, <1>5 DEF InTurn
  <2>2. MsgOf[c.by] # m
    BY <1>5, <1>6, <2>1 DEF InTurn
  <2> QED BY <1>1, <1>5, <1>7, <2>1, <2>2 DEF KeepsSlot
<1>13. SlotId'
  <2>1. \A q \in Replies : pc'[q] \in {"ready", "purged"} => pc[q] \in {"ready", "purged"}
    BY <1>1, <1>2
  <2> QED BY <1>1, <1>7, <2>1 DEF SlotId
<1>14. IssuedBubbles'
  BY <1>1, <1>3, BubblesKept
<1> QED BY <1>8, <1>9, <1>10, <1>11, <1>12, <1>13, <1>14

\* A generating chunk was answered: the slot of a reply in turn holds its
\* stream still, or was purged, so the id goes where it belongs.
LEMMA AnswerGeneratingTurn ==
  ASSUME TurnInv, NEW r \in Replies, AnswerGenerating(r)
  PROVE  OneActive' /\ Begun' /\ SlotHolds' /\ SlotServed' /\ KeepsSlot' /\ SlotId' /\ IssuedBubbles'
<1> USE StreamConstants DEF TurnInv, IInv
<1> DEFINE m == MsgOf[r]
<1>1. /\ pc[r] = "received" /\ pc' = [pc EXCEPT ![r] = "ready"]
      /\ stale' = stale \ {m}
      /\ post' = [post EXCEPT ![r] = NoStream]
      /\ UNCHANGED <<current, nextIndex, opened, sent, wire, lapsed, overlapped>>
  BY DEF AnswerGenerating
<1>2. PICK id \in {Bubble(post[r]), NoStream} :
        /\ CaptureId(r, id)
        /\ broken' = IF id = NoStream THEN broken \cup {post[r].stream} ELSE broken
  BY DEF AnswerGenerating
<1>3. /\ pc \in [Replies -> {"waiting", "ready", "purged", "posting", "received", "ended", "failed"}]
      /\ post \in [Replies -> Chunk \cup {NoStream}]
      /\ smid \in [Streams -> Streams \cup {NoStream}]
      /\ current \in [Msgs -> opened \cup {NoStream}]
      /\ opened \subseteq Streams
      /\ m \in Msgs /\ Active(r)
      /\ post[r] # NoStream /\ post[r] \in Issued
  BY <1>1 DEF TypeOK, Active, ReplyTypes, Issued
<1>4. Issued' \subseteq Issued
  BY <1>1, <1>3 DEF Issued, InFlight
<1>5. broken \subseteq broken'
  BY <1>2
<1>6. \A q \in Replies : Active(q)' <=> Active(q)
  BY <1>1, <1>3 DEF Active
<1>7. \A c \in Issued : c.by \in Replies
  BY IssuedChunks DEF Chunk
<1>8. m \notin overlapped => \A q \in Replies : Active(q) /\ MsgOf[q] = m => q = r
  BY <1>3 DEF OneActive
<1>9. OneActive'
  BY <1>1, <1>6 DEF OneActive
<1>10. SlotHolds'
  BY <1>1, <1>3 DEF SlotHolds
<1>11. SlotServed'
  BY <1>1, <1>4, <1>5, <1>6 DEF SlotServed
<1>12. Begun'
  BY <1>1, <1>3, <1>4, <1>7 DEF Begun
<1>13. KeepsSlot'
  BY <1>1, <1>4, <1>6, <1>7 DEF KeepsSlot, InTurn
<1>14. SlotId'
  <2>1. \A t \in Streams : t # current[m] => smid'[t] = smid[t]
    BY <1>2, <1>3 DEF CaptureId
  <2>2. \A n \in Msgs : n # m /\ current[n] # NoStream => smid'[current[n]] = smid[current[n]]
    BY <1>3, <2>1 DEF SlotOwner
  <2>3. ASSUME m \notin overlapped, current[m] # NoStream
        PROVE  /\ smid'[current[m]] \in {NoStream, current[m]}
               /\ current[m] \notin broken' => smid'[current[m]] = current[m]
    <3>1. current[m] = post[r].stream /\ current[m] \in Streams
      BY <1>3, <2>3 DEF SlotHolds
    <3>2. MsgOf[post[r].by] = m
      BY <1>3, <3>1 DEF SlotOwner
    <3>3. InTurn(post[r])
      BY <2>3, <1>3, <3>1, <3>2 DEF InTurn
    <3>4. Bubble(post[r]) = current[m]
      BY <1>3, <3>1, <3>3 DEF IssuedBubbles, Bubble
    <3>5. smid[current[m]] \in {NoStream, current[m]}
      BY <1>3, <2>3 DEF SlotId
    <3>6. CASE smid[current[m]] = NoStream
      <4>1. smid'[current[m]] = id
        BY <1>2, <1>3, <2>3, <3>1, <3>6 DEF CaptureId
      <4> QED BY <1>2, <3>1, <3>4, <4>1
    <3>7. CASE smid[current[m]] = current[m]
      <4>1. smid' = smid
        BY <1>2, <2>3, <3>7 DEF CaptureId
      <4> QED BY <3>7, <4>1
    <3> QED BY <3>5, <3>6, <3>7
  <2>4. ASSUME NEW n \in Msgs, n \notin overlapped', current'[n] # NoStream
        PROVE  smid'[current'[n]] \in {NoStream, current'[n]}
    BY <1>1, <2>2, <2>3, <2>4 DEF SlotId
  <2>5. ASSUME NEW q \in Replies, pc'[q] \in {"ready", "purged"}, MsgOf[q] \notin overlapped',
               current'[MsgOf[q]] # NoStream, current'[MsgOf[q]] \notin broken'
        PROVE  smid'[current'[MsgOf[q]]] = current'[MsgOf[q]]
    <3>1. CASE MsgOf[q] = m
      BY <1>1, <2>3, <2>5, <3>1
    <3>2. CASE MsgOf[q] # m
      <4>1. pc[q] \in {"ready", "purged"} /\ MsgOf[q] \in Msgs
        BY <1>1, <1>3, <2>5, <3>2
      <4> QED BY <1>1, <1>5, <2>2, <2>5, <3>2, <4>1 DEF SlotId
    <3> QED BY <3>1, <3>2
  <2> QED BY <2>4, <2>5 DEF SlotId
<1>15. IssuedBubbles'
  BY <1>1, <1>4, <1>5, BubblesKept
<1> QED BY <1>9, <1>10, <1>11, <1>12, <1>13, <1>14, <1>15

\* An idle session lapses every reply of its message that is under way.
LEMMA IdleTurn ==
  ASSUME TurnInv, NEW m \in Msgs, Idle(m)
  PROVE  OneActive' /\ Begun' /\ SlotHolds' /\ SlotServed' /\ KeepsSlot' /\ SlotId' /\ IssuedBubbles'
<1> USE StreamConstants DEF TurnInv, IInv
<1>1. /\ stale' = stale \cup {m}
      /\ lapsed' = lapsed \cup {r \in Replies : MsgOf[r] = m /\ Active(r)}
      /\ UNCHANGED <<current, nextIndex, smid, opened, pc, post, sent, wire, broken, overlapped>>
  BY DEF Idle
<1>2. Issued' = Issued /\ \A r \in Replies : Active(r)' <=> Active(r)
  BY <1>1 DEF Issued, InFlight, Active
<1>3. \A c \in Issued : c.by \in Replies
  BY IssuedChunks DEF Chunk
<1>4. OneActive' /\ Begun' /\ SlotHolds' /\ SlotServed' /\ SlotId'
  BY <1>1, <1>2 DEF OneActive, Begun, SlotHolds, SlotServed, SlotId
<1>5. KeepsSlot'
  BY <1>1, <1>2, <1>3 DEF KeepsSlot, InTurn
<1>6. IssuedBubbles'
  BY <1>1, <1>2, BubblesKept
<1> QED BY <1>4, <1>5, <1>6

LEMMA NextTurnInv == TurnInv /\ [Next]_vars => TurnInv'
<1> SUFFICES ASSUME TurnInv, [Next]_vars
             PROVE  OneActive' /\ Begun' /\ SlotHolds' /\ SlotServed' /\ KeepsSlot' /\ SlotId'
                      /\ IssuedBubbles'
  BY NextInv DEF TurnInv
<1>1. CASE UNCHANGED vars
  <2>1. Issued' = Issued /\ \A r \in Replies : Active(r)' <=> Active(r)
    BY <1>1 DEF vars, table, Issued, InFlight, Active
  <2>2. \A c \in Issued : c.by \in Replies
    BY IssuedChunks DEF TurnInv, IInv, Chunk
  <2> QED BY <1>1, <2>1, <2>2, BubblesKept
          DEF TurnInv, vars, table, OneActive, Begun, SlotHolds, SlotServed, KeepsSlot, SlotId, InTurn
<1>2. CASE Next
  BY <1>2, BeginTurn, EndEmptyTurn, PurgeTurn, TakeChunkTurn, PlatformReceivesTurn, PostFailsTurn,
     AbandonTurn, AnswerDoneTurn, AnswerGeneratingTurn, IdleTurn DEF Next
<1> QED BY <1>1, <1>2

\* Replies to one message that follow each other get a bubble each, which is
\* never torn in two unless its session went idle; their chunks name the
\* bubble of their own stream, and do so from the first answer on, whatever
\* other messages' replies do to the table at the same time.
THEOREM BubblesInTurn ==
  Spec => [](BubblePerReply /\ CarriesOwnId)
<1>1. TurnInv => BubblePerReply
  BY DEF TurnInv, IssuedBubbles, Issued, BubblePerReply
<1>2. TurnInv => CarriesOwnId
  BY DEF TurnInv, IssuedBubbles, Issued, CarriesOwnId
<1> QED BY InitTurnInv, NextTurnInv, <1>1, <1>2, PTL DEF Spec

\* In particular a chunk that names a stream names the one it belongs to: the id
\* that stream_messages was answered with, however replies to other messages overlap.
THEOREM IdsInTurn == Spec => []CarriesOwnId
<1>1. BubblePerReply /\ CarriesOwnId => CarriesOwnId
  OBVIOUS
<1> QED BY <1>1, BubblesInTurn, PTL
=============================================================================
