------------------------------ MODULE QqGateway ------------------------------
(***************************************************************************)
(* The QQ gateway pump, src/src/driver/qq_bot_ws.rs: `run` fetches a token *)
(* and the gateway's address, dials, and after every connection dials      *)
(* again; `connect_and_pump` reads one connection. session_id and last_seq *)
(* outlive a connection, so that the next one can RESUME where the last    *)
(* one stopped.                                                            *)
(*                                                                         *)
(* The platform (external) keeps a session's dispatches in order: number 1 *)
(* is READY, the rest are events. It replays what follows the number a     *)
(* RESUME names, or answers that the session is invalid. Frames under way  *)
(* are lost when the connection is.                                        *)
(***************************************************************************)
EXTENDS Naturals, Sequences, FiniteSets

CONSTANTS
  MaxSessions,  \* bound: sessions the platform opens
  MaxEvents,    \* bound: dispatches of one session
  MaxBreaks,    \* bound: connections that break, are refused or are called off
  MaxBackoff    \* the cap of the backoff, in doublings

ASSUME GatewayConstants ==
  /\ MaxSessions \in Nat
  /\ MaxEvents \in Nat
  /\ MaxBreaks \in Nat
  /\ MaxBackoff \in Nat

None == 0  \* no session_id, no last_seq, no request

VARIABLES
  pc,         \* where `run` and `connect_and_pump` are
  sessionId,  \* session_id
  lastSeq,    \* last_seq
  backoff,    \* how often the backoff has doubled
  heartbeat,  \* the seq the heartbeat task was given, if one runs
  cancelled,
  emitted,    \* history: the events emitted, as <<session, number>>
  wire,       \* frames on their way to the client
  request,    \* IDENTIFY or RESUME on its way to the platform
  attached,   \* the session the connection belongs to
  log,        \* how many dispatches each session has had
  live,       \* the session the platform still knows
  breaks      \* how many connections broke (the bound only)

client == <<pc, sessionId, lastSeq, backoff, heartbeat, cancelled, emitted>>
link == <<wire, request, attached>>
platform == <<log, live>>
vars == <<client, link, platform, breaks>>

Sessions == 1..MaxSessions
Kinds == {"hello", "ready", "event", "resumed", "reconnect", "invalid"}
Frame == [kind : Kinds, session : Sessions \cup {None}, s : Nat]
Plain(kind) == [kind |-> kind, session |-> None, s |-> None]
NoRequest == [op |-> "none", session |-> None, seq |-> None]
Requests == [op : {"none", "identify", "resume"}, session : Sessions \cup {None}, seq : Nat]

Init ==
  /\ pc = "top"
  /\ sessionId = None
  /\ lastSeq = None
  /\ backoff = 0
  /\ heartbeat = [on |-> FALSE, seq |-> None]
  /\ cancelled = FALSE
  /\ emitted = <<>>
  /\ wire = <<>>
  /\ request = NoRequest
  /\ attached = None
  /\ log = [i \in Sessions |-> 0]
  /\ live = None
  /\ breaks = 0

(* ---- run ---- *)

\* The head of the loop: leave if cancelled, else fetch a token.
Top ==
  /\ pc = "top"
  /\ pc' = IF cancelled THEN "stopped" ELSE "token"
  /\ UNCHANGED <<sessionId, lastSeq, backoff, heartbeat, cancelled, emitted, link, platform, breaks>>

\* Mutant: the backoff has no cap.
Fetch_NoCap ==
  /\ pc \in {"token", "address"}
  /\ \/ /\ pc' = IF pc = "token" THEN "address" ELSE "dial"
        /\ UNCHANGED <<backoff, breaks>>
     \/ /\ breaks < MaxBreaks
        /\ breaks' = breaks + 1
        /\ pc' = "sleep"
        /\ backoff' = backoff + 1
  /\ UNCHANGED <<sessionId, lastSeq, heartbeat, cancelled, emitted, link, platform>>

\* The token, then the address; neither request looks at `cancel`.
Fetch ==
  /\ pc \in {"token", "address"}
  /\ \/ /\ pc' = IF pc = "token" THEN "address" ELSE "dial"
        /\ UNCHANGED <<backoff, breaks>>
     \/ /\ breaks < MaxBreaks
        /\ breaks' = breaks + 1
        /\ pc' = "sleep"
        /\ backoff' = IF backoff < MaxBackoff THEN backoff + 1 ELSE backoff
  /\ UNCHANGED <<sessionId, lastSeq, heartbeat, cancelled, emitted, link, platform>>

\* sleep_or_cancel, after a failed fetch or after a connection.
Sleep ==
  /\ pc = "sleep"
  /\ pc' = "top"
  /\ UNCHANGED <<sessionId, lastSeq, backoff, heartbeat, cancelled, emitted, link, platform, breaks>>

\* Mutant: an invalid session is resumed again.
AfterConnection_Keeps(invalid) ==
  /\ heartbeat' = [on |-> FALSE, seq |-> None]
  /\ backoff' = 0
  /\ wire' = <<>>
  /\ request' = NoRequest
  /\ attached' = None
  /\ pc' = IF cancelled THEN "stopped" ELSE "sleep"
  /\ UNCHANGED <<sessionId, lastSeq>>

\* connect_and_pump returned: the heartbeat task is aborted, the backoff reset,
\* and resume state cleared only if the platform called the session invalid.
AfterConnection(invalid) ==
  /\ heartbeat' = [on |-> FALSE, seq |-> None]
  /\ backoff' = 0
  /\ wire' = <<>>
  /\ request' = NoRequest
  /\ attached' = None
  /\ pc' = IF cancelled THEN "stopped" ELSE "sleep"
  /\ sessionId' = IF invalid /\ ~cancelled THEN None ELSE sessionId
  /\ lastSeq' = IF invalid /\ ~cancelled THEN None ELSE lastSeq

(* ---- connect_and_pump ---- *)

\* The platform greets a new connection with Hello.
Dial ==
  /\ pc = "dial"
  /\ pc' = "reading"
  /\ wire' = <<Plain("hello")>>
  /\ request' = NoRequest
  /\ attached' = None
  /\ UNCHANGED <<sessionId, lastSeq, backoff, heartbeat, cancelled, emitted, platform, breaks>>

\* The dial is refused, a read or the send of IDENTIFY or RESUME fails, or the
\* peer closes: the frames under way are gone.
Break ==
  /\ pc \in {"dial", "reading"}
  /\ breaks < MaxBreaks
  /\ breaks' = breaks + 1
  /\ AfterConnection(FALSE)
  /\ UNCHANGED <<cancelled, emitted, platform>>

\* The select took the cancelled branch.
\* Mutant: there is no such branch.
StopReading_Never ==
  /\ pc = "reading"
  /\ cancelled
  /\ UNCHANGED vars

StopReading ==
  /\ pc = "reading"
  /\ cancelled
  /\ AfterConnection(FALSE)
  /\ UNCHANGED <<cancelled, emitted, platform, breaks>>

\* The `s` of any frame is remembered before the frame is looked at.
\* Mutant: the number is not kept.
Remember_Never(frame) == UNCHANGED lastSeq

\* Mutant: only READY's number is kept.
Remember_First(frame) == lastSeq' = IF frame.kind = "ready" THEN frame.s ELSE lastSeq

\* Mutant: the number of the next frame is kept.
Remember_Ahead(frame) == lastSeq' = IF frame.s # None THEN frame.s + 1 ELSE lastSeq

Remember(frame) == lastSeq' = IF frame.s # None THEN frame.s ELSE lastSeq

\* RESUME if both halves of the resume state are there, else IDENTIFY; then the
\* heartbeat task starts, with a copy of last_seq that nothing updates.
ReadHello(frame) ==
  /\ frame.kind = "hello"
  /\ request' = IF sessionId # None /\ lastSeq # None
                  THEN [op |-> "resume", session |-> sessionId, seq |-> lastSeq]
                  ELSE [op |-> "identify", session |-> None, seq |-> None]
  /\ heartbeat' = [on |-> TRUE, seq |-> lastSeq]
  /\ wire' = Tail(wire)
  /\ Remember(frame)
  /\ UNCHANGED <<pc, sessionId, backoff, emitted, attached>>

\* READY names the session; RESUMED is only logged; an event is emitted.
ReadDispatch(frame) ==
  /\ frame.kind \in {"ready", "event", "resumed"}
  /\ sessionId' = IF frame.kind = "ready" THEN frame.session ELSE sessionId
  /\ emitted' = IF frame.kind = "event" THEN Append(emitted, <<frame.session, frame.s>>) ELSE emitted
  /\ wire' = Tail(wire)
  /\ Remember(frame)
  /\ UNCHANGED <<pc, backoff, heartbeat, request, attached>>

\* op 7 and op 9 end the connection.
ReadEnd(frame) ==
  /\ frame.kind \in {"reconnect", "invalid"}
  /\ AfterConnection(frame.kind = "invalid")
  /\ UNCHANGED emitted

Read ==
  /\ pc = "reading"
  /\ wire # <<>>
  /\ ReadHello(Head(wire)) \/ ReadDispatch(Head(wire)) \/ ReadEnd(Head(wire))
  /\ UNCHANGED <<cancelled, platform, breaks>>

\* The heartbeat task ends by itself when a send fails or on cancel; the
\* connection is not told.
HeartbeatStops ==
  /\ heartbeat.on
  /\ heartbeat' = [heartbeat EXCEPT !.on = FALSE]
  /\ UNCHANGED <<pc, sessionId, lastSeq, backoff, cancelled, emitted, link, platform, breaks>>

(* ---- the platform, and the hub ---- *)

Frames(session, from) ==
  [i \in 1..(log[session] - from) |->
     [kind |-> "event", session |-> session, s |-> from + i]]

\* IDENTIFY opens a session; the one before it is forgotten.
OpenSession ==
  /\ request.op = "identify"
  /\ \E i \in Sessions :
       /\ log[i] = 0
       /\ \A j \in Sessions : j < i => log[j] > 0
       /\ log' = [log EXCEPT ![i] = 1]
       /\ live' = i
       /\ attached' = i
       /\ wire' = Append(wire, [kind |-> "ready", session |-> i, s |-> 1])
  /\ request' = NoRequest
  /\ UNCHANGED <<client, breaks>>

\* RESUME replays what the client has not read, then RESUMED.
ResumeSession ==
  /\ request.op = "resume"
  /\ request' = NoRequest
  /\ IF request.session = live
       THEN /\ attached' = live
            /\ wire' = wire \o Frames(live, request.seq) \o
                 <<[kind |-> "resumed", session |-> live, s |-> log[live]]>>
       ELSE /\ wire' = Append(wire, Plain("invalid"))
            /\ UNCHANGED attached
  /\ UNCHANGED <<client, platform, breaks>>

Dispatch ==
  /\ live # None
  /\ log[live] <= MaxEvents
  /\ log' = [log EXCEPT ![live] = @ + 1]
  /\ wire' = IF attached = live
               THEN Append(wire, [kind |-> "event", session |-> live, s |-> log[live] + 1])
               ELSE wire
  /\ UNCHANGED <<client, request, attached, live, breaks>>

\* The session ends at the platform, which says so on its connection.
Expire ==
  /\ live # None
  /\ \E i \in Sessions : log[i] = 0  \* there is a session left to open
  /\ live' = None
  /\ wire' = IF attached = live THEN Append(wire, Plain("invalid")) ELSE wire
  /\ UNCHANGED <<client, request, attached, log, breaks>>

CallOff ==
  /\ attached # None
  /\ breaks < MaxBreaks
  /\ breaks' = breaks + 1
  /\ wire' = Append(wire, Plain("reconnect"))
  /\ UNCHANGED <<client, request, attached, platform>>

Cancel ==
  /\ ~cancelled
  /\ cancelled' = TRUE
  /\ UNCHANGED <<pc, sessionId, lastSeq, backoff, heartbeat, emitted, link, platform, breaks>>

Pump == Top \/ Fetch \/ Sleep \/ Dial \/ StopReading \/ Read

Gateway == OpenSession \/ ResumeSession

Next == Pump \/ Gateway \/ HeartbeatStops \/ Break \/ Dispatch \/ Expire \/ CallOff \/ Cancel

Spec == Init /\ [][Next]_vars

\* The pump's task runs, requests are answered or fail (the code sets no
\* timeout, so this is asked of the platform), and a gateway that is connected
\* answers IDENTIFY and RESUME. Nothing else is promised.
FairSpec == Spec /\ WF_vars(Pump) /\ WF_vars(Gateway)

(* ---- properties ---- *)

TypeOK ==
  /\ pc \in {"top", "token", "address", "dial", "reading", "sleep", "stopped"}
  /\ sessionId \in Sessions \cup {None}
  /\ lastSeq \in 0..(MaxEvents + 1)
  /\ backoff \in 0..MaxBackoff
  /\ heartbeat \in [on : BOOLEAN, seq : Nat]
  /\ cancelled \in BOOLEAN
  /\ emitted \in Seq(Sessions \X Nat)
  /\ wire \in Seq(Frame)
  /\ request \in Requests
  /\ attached \in Sessions \cup {None}
  /\ log \in [Sessions -> 0..(MaxEvents + 1)]
  /\ live \in Sessions \cup {None}
  /\ breaks \in 0..MaxBreaks

\* Across disconnects and resumes an event is emitted once, and in the order the
\* platform dispatched.
OnceInOrder ==
  \A i, j \in DOMAIN emitted : i < j =>
    \/ emitted[i][1] < emitted[j][1]
    \/ emitted[i][1] = emitted[j][1] /\ emitted[i][2] < emitted[j][2]

\* What a RESUME would name is what was emitted: no event of the session up to
\* last_seq is missing, and none beyond it was emitted.
ResumesWhereItStopped ==
  sessionId # None =>
    \A s \in 2..(MaxEvents + 1) :
      (\E i \in DOMAIN emitted : emitted[i] = <<sessionId, s>>) <=> s <= lastSeq

\* An event of a session whose READY was read is emitted, unless the session
\* expires or the channel is switched off: a break loses nothing.
EventsArrive ==
  \A i \in Sessions, s \in 2..(MaxEvents + 1) :
    (sessionId = i /\ log[i] >= s) ~>
      ((\E n \in DOMAIN emitted : emitted[n] = <<i, s>>) \/ live # i \/ cancelled)

\* While the channel is active and the platform has sessions to give, the pump
\* ends up attached to a live session again: it does not resume an invalid one
\* for ever.
OutOfSessions == \A i \in Sessions : log[i] > 0
Recovers ==
  (pc # "stopped") ~> (cancelled \/ OutOfSessions \/ (attached # None /\ attached = live))

\* A cancelled pump returns.
StopsWhenCancelled == cancelled ~> pc = "stopped"
=============================================================================
