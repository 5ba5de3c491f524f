------------------------------ MODULE QqStream ------------------------------
(***************************************************************************)
(* The table of QQ reply streams, QqBotDriver::stream_c2c_chunk in         *)
(* src/src/driver/qq_bot.rs. Each streaming reply pushes chunks; a chunk   *)
(* takes the lock of the table three times: to purge the idle sessions, to *)
(* take its stream's msg_seq, id and next index, and, after a POST without *)
(* the lock, to record the answer. Replies to one inbound message share    *)
(* one slot of the table, keyed by reply_msg_id.                           *)
(*                                                                         *)
(* A StreamState and its random msg_seq are one identity of Streams, and   *)
(* so is the bubble the platform shows for it: the model assumes that      *)
(* gen_msg_seq does not repeat within a passive-reply window.              *)
(***************************************************************************)
EXTENDS Naturals, FiniteSets

CONSTANTS
  Replies,    \* calls of reply_to_user_streaming
  Msgs,       \* inbound messages that are replied to
  MsgOf,      \* the message each reply answers
  Streams,    \* identities of StreamState values
  NoStream,
  MaxChunks   \* bound: how many chunks each reply sends

ASSUME StreamConstants ==
  /\ MsgOf \in [Replies -> Msgs]
  /\ NoStream \notin Streams
  /\ MaxChunks \in [Replies -> Nat]

VARIABLES
  current,    \* reply_sessions: the stream of each message, if any
  stale,      \* messages whose session was idle for SESSION_TTL
  nextIndex,  \* StreamState.next_index
  smid,       \* StreamState.stream_msg_id
  pc,         \* where each reply is in stream_c2c_chunk
  post,       \* the chunk a reply is sending
  sent,       \* how many chunks a reply has begun (the bound only)
  opened,     \* streams created so far
  expired,    \* history: streams that a purge found idle
  wire,       \* history: the chunks the platform received
  broken,     \* history: streams with a POST not answered with an id, or whose
              \* reply was dropped
  lapsed,     \* history: replies whose session went stale under them
  overlapped  \* history: messages with two replies under way at once

table == <<current, stale, nextIndex, smid, opened>>
vars == <<table, pc, post, sent, expired, wire, broken, lapsed, overlapped>>

States == {"generating", "done"}
Chunk == [stream : Streams, index : Nat, smid : Streams \cup {NoStream},
          state : States, by : Replies]

ASSUME PlaceholderIsNoChunk == NoStream \notin Chunk

Init ==
  /\ current = [m \in Msgs |-> NoStream]
  /\ stale = {}
  /\ nextIndex = [s \in Streams |-> 0]
  /\ smid = [s \in Streams |-> NoStream]
  /\ pc = [r \in Replies |-> "waiting"]
  /\ post = [r \in Replies |-> NoStream]
  /\ sent = [r \in Replies |-> 0]
  /\ opened = {}
  /\ expired = {}
  /\ wire = {}
  /\ broken = {}
  /\ lapsed = {}
  /\ overlapped = {}

Active(r) == pc[r] \in {"ready", "purged", "posting", "received"}

\* The loop of reply_to_user_streaming starts.
Begin(r) ==
  /\ pc[r] = "waiting"
  /\ pc' = [pc EXCEPT ![r] = "ready"]
  /\ overlapped' = overlapped \cup
       {m \in {MsgOf[r]} : \E q \in Replies : MsgOf[q] = m /\ Active(q)}
  /\ UNCHANGED <<table, post, sent, expired, wire, broken, lapsed>>

\* The sender hung up before the loop flushed anything: nothing is sent.
EndEmpty(r) ==
  /\ pc[r] = "ready" /\ sent[r] = 0
  /\ pc' = [pc EXCEPT ![r] = "ended"]
  /\ UNCHANGED <<table, post, sent, expired, wire, broken, lapsed, overlapped>>

\* Mutant: the index is left for the answer to advance.
TakeIndex_Late(s) == UNCHANGED nextIndex

\* `let idx = stream.next_index; stream.next_index = idx + 1`, in the same
\* critical section that found the stream.
TakeIndex(s) == nextIndex' = [nextIndex EXCEPT ![s] = @ + 1]

\* purge_expired, with a critical section of its own: every session that is idle
\* leaves the table, whichever message it is for. The loop sends generating chunks
\* and at most one done chunk, and each begins here.
Purge(r) ==
  /\ pc[r] = "ready"
  /\ sent[r] < MaxChunks[r]
  /\ current' = [m \in Msgs |-> IF m \in stale THEN NoStream ELSE current[m]]
  /\ stale' = {}
  /\ expired' = expired \cup ({current[m] : m \in stale} \ {NoStream})
  /\ pc' = [pc EXCEPT ![r] = "purged"]
  /\ UNCHANGED <<nextIndex, smid, opened, post, sent, wire, broken, lapsed, overlapped>>

\* Mutant: sessions are kept per user instead of per reply_msg_id.
Held_PerUser(m) ==
  IF \E n \in Msgs : current[n] # NoStream
  THEN CHOOSE s \in Streams : \E n \in Msgs : current[n] = s
  ELSE NoStream

\* The entry of reply_msg_id.
Held(m) == current[m]

\* The lock is taken again: find or create the stream, take an index, refresh
\* last_activity. The session may have become idle since the purge.
TakeChunk(r, st) ==
  /\ pc[r] = "purged"
  /\ \E s \in Streams :
       /\ IF Held(MsgOf[r]) = NoStream THEN s \notin opened ELSE s = Held(MsgOf[r])
       /\ current' = [current EXCEPT ![MsgOf[r]] = s]
       /\ TakeIndex(s)
       /\ opened' = opened \cup {s}
       /\ post' = [post EXCEPT ![r] = [stream |-> s, index |-> nextIndex[s],
                                       smid |-> smid[s], state |-> st, by |-> r]]
  /\ stale' = stale \ {MsgOf[r]}
  /\ sent' = [sent EXCEPT ![r] = @ + 1]
  /\ pc' = [pc EXCEPT ![r] = "posting"]
  /\ UNCHANGED <<smid, expired, wire, broken, lapsed, overlapped>>

\* The platform receives the chunk; its answer is still under way.
PlatformReceives(r) ==
  /\ pc[r] = "posting"
  /\ wire' = wire \cup {post[r]}
  /\ pc' = [pc EXCEPT ![r] = "received"]
  /\ UNCHANGED <<table, post, sent, expired, broken, lapsed, overlapped>>

\* The POST fails: refused, lost, answered with an error, or its answer was
\* lost. The `?` of the loop ends the reply; the table keeps the stream with
\* the index already taken.
PostFails(r) ==
  /\ pc[r] \in {"posting", "received"}
  /\ broken' = broken \cup {post[r].stream}
  /\ pc' = [pc EXCEPT ![r] = "failed"]
  /\ post' = [post EXCEPT ![r] = NoStream]
  /\ UNCHANGED <<table, sent, expired, wire, lapsed, overlapped>>

\* The caller drops the reply between two chunks (its task is aborted): the
\* stream stays in the slot without a DONE chunk.
Abandon(r) ==
  /\ pc[r] = "ready" /\ sent[r] > 0
  /\ broken' = broken \cup ({current[MsgOf[r]]} \ {NoStream})
  /\ pc' = [pc EXCEPT ![r] = "failed"]
  /\ UNCHANGED <<table, post, sent, expired, wire, lapsed, overlapped>>

\* The bubble the platform names in its answer: the one it was told to
\* update, or else the one of this msg_seq.
Bubble(chunk) == IF chunk.smid = NoStream THEN chunk.stream ELSE chunk.smid

\* Mutant: the slot is kept after a DONE chunk.
AnswerDone_KeepsStream(r) ==
  /\ pc[r] = "received" /\ post[r].state = "done"
  /\ stale' = stale \ {MsgOf[r]}
  /\ pc' = [pc EXCEPT ![r] = "ended"]
  /\ post' = [post EXCEPT ![r] = NoStream]
  /\ UNCHANGED <<current, nextIndex, smid, opened, sent, expired, wire, broken, lapsed, overlapped>>

\* The lock is taken a third time, after a DONE chunk: clear the slot, whatever
\* stream is in it by now.
AnswerDone(r) ==
  /\ pc[r] = "received" /\ post[r].state = "done"
  /\ current' = [current EXCEPT ![MsgOf[r]] = NoStream]
  /\ stale' = stale \ {MsgOf[r]}
  /\ pc' = [pc EXCEPT ![r] = "ended"]
  /\ post' = [post EXCEPT ![r] = NoStream]
  /\ UNCHANGED <<nextIndex, smid, opened, sent, expired, wire, broken, lapsed, overlapped>>

\* Mutant: the answer's id is not captured.
CaptureId_Never(r, id) == UNCHANGED smid

\* The id goes to the stream that is in the slot now, if it has none yet.
CaptureId(r, id) ==
  LET s == current[MsgOf[r]] IN
  IF s # NoStream /\ smid[s] = NoStream
  THEN smid' = [smid EXCEPT ![s] = id]
  ELSE UNCHANGED smid

\* Mutant: the stream as it was before the POST is put back into the table.
AnswerGenerating_PutsBack(r) ==
  /\ pc[r] = "received" /\ post[r].state = "generating"
  /\ \E id \in {Bubble(post[r]), NoStream} :
       /\ smid' = [smid EXCEPT ![post[r].stream] = id]
       /\ broken' = IF id = NoStream THEN broken \cup {post[r].stream} ELSE broken
  /\ current' = [current EXCEPT ![MsgOf[r]] = post[r].stream]
  /\ stale' = stale \ {MsgOf[r]}
  /\ pc' = [pc EXCEPT ![r] = "ready"]
  /\ post' = [post EXCEPT ![r] = NoStream]
  /\ UNCHANGED <<nextIndex, opened, sent, expired, wire, lapsed, overlapped>>

\* The same after a generating chunk. A 200 answer whose body carries no id (or
\* is not JSON) is a success too.
AnswerGenerating(r) ==
  /\ pc[r] = "received" /\ post[r].state = "generating"
  /\ \E id \in {Bubble(post[r]), NoStream} :
       /\ CaptureId(r, id)
       /\ broken' = IF id = NoStream THEN broken \cup {post[r].stream} ELSE broken
  /\ stale' = stale \ {MsgOf[r]}
  /\ pc' = [pc EXCEPT ![r] = "ready"]
  /\ post' = [post EXCEPT ![r] = NoStream]
  /\ UNCHANGED <<current, nextIndex, opened, sent, expired, wire, lapsed, overlapped>>

\* SESSION_TTL passes without activity on the message's session. A chunk may
\* be under way meanwhile: the client of the hub has no request timeout.
Idle(m) ==
  /\ current[m] # NoStream
  /\ stale' = stale \cup {m}
  /\ lapsed' = lapsed \cup {r \in Replies : MsgOf[r] = m /\ Active(r)}
  /\ UNCHANGED <<current, nextIndex, smid, opened, pc, post, sent, expired, wire, broken, overlapped>>

Next ==
  \/ \E r \in Replies : Begin(r) \/ EndEmpty(r)
  \/ \E r \in Replies : Purge(r)
  \/ \E r \in Replies, st \in States : TakeChunk(r, st)
  \/ \E r \in Replies : PlatformReceives(r) \/ PostFails(r) \/ Abandon(r)
  \/ \E r \in Replies : AnswerDone(r) \/ AnswerGenerating(r)
  \/ \E m \in Msgs : Idle(m)

Spec == Init /\ [][Next]_vars

-----------------------------------------------------------------------------
InFlight == {post[r] : r \in {q \in Replies : pc[q] = "posting"}}

\* Types, and: a slot holds a stream that was opened, an unopened stream has
\* its initial values.
TypeOK ==
  /\ current \in [Msgs -> opened \cup {NoStream}]
  /\ opened \subseteq Streams
  /\ stale \subseteq Msgs
  /\ nextIndex \in [Streams -> Nat]
  /\ smid \in [Streams -> Streams \cup {NoStream}]
  /\ pc \in [Replies -> {"waiting", "ready", "purged", "posting", "received", "ended", "failed"}]
  /\ post \in [Replies -> Chunk \cup {NoStream}]
  /\ \A r \in Replies : sent[r] \in 0 .. MaxChunks[r]
  /\ \A r \in Replies : pc[r] = "purged" => sent[r] < MaxChunks[r]
  /\ \A r \in Replies : pc[r] \in {"posting", "received"} <=> post[r] # NoStream
  /\ expired \subseteq opened
  /\ wire \subseteq Chunk
  /\ broken \subseteq opened
  /\ lapsed \subseteq Replies
  /\ overlapped \subseteq Msgs
  /\ \A s \in Streams \ opened : nextIndex[s] = 0 /\ smid[s] = NoStream

\* qq_bot.rs:123-127: the chunks of one stream share its msg_seq and
\* "only `index` increments": no two chunks ever sent carry the same stream
\* and index, however replies to the same message interleave.
IndexUnique ==
  \A c, d \in wire \cup InFlight :
    c.stream = d.stream /\ c.index = d.index => c = d

\* Streams of different messages never mix, not even when a chunk of one
\* message purges the sessions of the others.
StreamPerMessage ==
  \A c, d \in wire : c.stream = d.stream => MsgOf[c.by] = MsgOf[d.by]

\* Replies to a message follow each other, as the messages of one turn of the
\* assistant do (the comment at qq_bot.rs:345-350).
InTurn(c) == MsgOf[c.by] \notin overlapped

\* "Clear the stream slot so a follow-up AI message can start a brand-new QQ
\* stream" (qq_bot.rs:345-350): replies in turn appear in bubbles of their own,
\* unless a POST of the stream failed or its reply was dropped; and a reply whose
\* session did not go idle for SESSION_TTL is never torn into two bubbles.
BubblePerReply ==
  \A c, d \in wire : InTurn(c) =>
    /\ c.stream = d.stream /\ c.stream \notin broken => c.by = d.by
    /\ c.by = d.by /\ c.by \notin lapsed => c.stream = d.stream

\* qq_bot.rs:129-130, as far as it holds: with replies in turn a chunk only ever
\* names the bubble of its own stream, and in a stream of which every POST was
\* answered with an id, all chunks after the first name it.
CarriesOwnId ==
  \A c \in wire : InTurn(c) =>
    /\ c.smid \in {NoStream, c.stream}
    /\ c.index > 0 /\ c.stream \notin broken => c.smid = c.stream

\* A stream that purge_expired found idle, for whichever reply it ran, is never
\* continued: every later chunk has another stream, although the answer to a chunk
\* of the purged one may still come, and the message's next chunk in between. (A
\* session that reaches SESSION_TTL after the purge of a chunk and before its
\* second lock is resumed by that chunk.)
NeverResumesIdle ==
  [][\A r \in Replies : pc[r] = "purged" /\ pc'[r] = "posting" => post'[r].stream \notin expired]_vars

\* qq_bot.rs:134 says of `done`: "Set after a DONE chunk is sent - further
\* chunks are rejected."
NothingAfterDone ==
  \A c, d \in wire :
    InTurn(c) /\ c.stream = d.stream /\ d.state = "done" => c.index <= d.index
=============================================================================
