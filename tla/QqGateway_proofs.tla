--------------------------- MODULE QqGateway_proofs ---------------------------
(***************************************************************************)
(* Proofs about the QQ gateway pump (src/src/driver/qq_bot_ws.rs) for any  *)
(* number of sessions, events and breaks and any cap of the backoff.       *)
(*                                                                         *)
(* That an event is emitted once and in order is a matter of what is still *)
(* under way: the inductive invariant GatewayInv says that the frames on   *)
(* the wire take the client from last_seq to the last number the platform  *)
(* has given out (Reads), and that nothing is on the wire before a session *)
(* has been asked for and given (LinkInv).                                 *)
(***************************************************************************)
EXTENDS QqGateway, TLAPS

\* Frame f takes a client that has read number n of the session to number m. READY is
\* number 1; RESUMED repeats the number of the last event before it.
Follows(f, session, n, m) ==
  /\ f.kind \in {"ready", "event", "resumed", "reconnect", "invalid"}
  /\ f.kind = "ready" => n = 0 /\ f.s = 1 /\ f.session = session
  /\ f.kind = "event" => n > 0 /\ f.s = n + 1 /\ f.session = session
  /\ f.kind = "resumed" => n > 0 /\ f.s = n
  /\ f.kind \in {"reconnect", "invalid"} => f.s = None
  /\ m = IF f.s # None THEN f.s ELSE n

\* And all frames together, one after the other.
Reads(session, from, frames, to) ==
  \E n \in [1..(Len(frames) + 1) -> 0..to] :
    /\ n[1] = from
    /\ n[Len(frames) + 1] = to
    /\ \A i \in 1..Len(frames) : Follows(frames[i], session, n[i], n[i + 1])

\* The last session the platform has opened.
Newest(i) == log[i] > 0 /\ \A j \in Sessions : j > i => log[j] = 0

\* Sessions are opened in order, and it is the newest one that lives or is attached.
LogInv ==
  /\ \A i, j \in Sessions : i < j /\ log[j] > 0 => log[i] > 0
  /\ live # None => Newest(live)
  /\ attached # None => Newest(attached)

\* session_id and last_seq are set and cleared together, and last_seq was given out.
ResumeInv ==
  /\ sessionId = None <=> lastSeq = None
  /\ sessionId # None => lastSeq <= log[sessionId]

\* A connection with a session: its frames go on from last_seq, or from READY if the
\* session is new, and then none of its events was emitted.
Attached ==
  /\ request.op = "none"
  /\ \/ sessionId = attached /\ Reads(attached, lastSeq, wire, log[attached])
     \/ /\ sessionId # attached
        /\ Reads(attached, 0, wire, log[attached])
        /\ \A k \in DOMAIN emitted : emitted[k][1] # attached

\* A connection without one: Hello, then IDENTIFY or RESUME, then perhaps the answer
\* that the session is invalid.
Unattached ==
  \/ wire = <<Plain("hello")>> /\ request.op = "none"
  \/ wire = <<>> /\ request.op = "identify"
  \/ /\ wire = <<>> /\ sessionId # None
     /\ request = [op |-> "resume", session |-> sessionId, seq |-> lastSeq]
  \/ wire = <<Plain("invalid")>> /\ request.op = "none"

\* The wire is read inside connect_and_pump only.
LinkInv ==
  /\ pc # "reading" => wire = <<>> /\ request.op = "none" /\ attached = None
  /\ pc = "reading" => IF attached = None THEN Unattached ELSE Attached

\* What was emitted was dispatched.
EmittedInv == \A k \in DOMAIN emitted : emitted[k][2] \in 2..log[emitted[k][1]]

\* The inductive invariant.
GatewayInv ==
  /\ TypeOK /\ LogInv /\ ResumeInv /\ LinkInv /\ EmittedInv
  /\ OnceInOrder /\ ResumesWhereItStopped

-----------------------------------------------------------------------------
\* A single frame.
LEMMA ReadsOne ==
  ASSUME NEW session \in Sessions, NEW from \in Nat, NEW to \in Nat, from <= to, NEW f \in Frame,
         Follows(f, session, from, to)
  PROVE  Reads(session, from, <<f>>, to)
<1> DEFINE n == [i \in 1..2 |-> IF i = 1 THEN from ELSE to]
<1>1. n \in [1..(Len(<<f>>) + 1) -> 0..to] /\ n[1] = from /\ n[Len(<<f>>) + 1] = to
  OBVIOUS
<1>2. \A i \in 1..Len(<<f>>) : Follows(<<f>>[i], session, n[i], n[i + 1])
  OBVIOUS
<1> HIDE DEF n
<1> QED
  BY <1>1, <1>2 DEF Reads

\* Reading the head leaves the rest, from the number the head leads to.
LEMMA ReadsNext ==
  ASSUME NEW session \in Sessions, NEW from \in Nat, NEW to \in Nat, NEW frames \in Seq(Frame),
         frames # <<>>, Reads(session, from, frames, to)
  PROVE  \E m \in 0..to : Follows(Head(frames), session, from, m) /\ Reads(session, m, Tail(frames), to)
<1>1. PICK n \in [1..(Len(frames) + 1) -> 0..to] :
        /\ n[1] = from
        /\ n[Len(frames) + 1] = to
        /\ \A i \in 1..Len(frames) : Follows(frames[i], session, n[i], n[i + 1])
  BY DEF Reads
<1>2. PICK k \in Nat : k + 1 = Len(frames)
  <2>1. Len(frames) \in Nat /\ Len(frames) # 0
    OBVIOUS
  <2>2. Len(frames) - 1 \in Nat /\ (Len(frames) - 1) + 1 = Len(frames)
    BY <2>1
  <2> QED
    BY <2>2
<1>3. Len(Tail(frames)) = k /\ \A i \in 1..k : Tail(frames)[i] = frames[i + 1]
  BY <1>2
<1> DEFINE t == [i \in 1..(k + 1) |-> n[i + 1]]
<1>4. t \in [1..(k + 1) -> 0..to] /\ t[1] = n[2] /\ t[k + 1] = to
  <2>1. \A i \in 1..(k + 1) : i + 1 \in 1..(Len(frames) + 1)
    BY <1>2
  <2>2. t \in [1..(k + 1) -> 0..to]
    BY <1>1, <2>1
  <2>3. t[1] = n[2] /\ t[k + 1] = n[(k + 1) + 1]
    BY <1>2
  <2> QED
    BY <1>1, <1>2, <2>2, <2>3
<1>5. \A i \in 1..k : Follows(Tail(frames)[i], session, t[i], t[i + 1])
  <2> SUFFICES ASSUME NEW i \in 1..k PROVE Follows(Tail(frames)[i], session, t[i], t[i + 1])
    OBVIOUS
  <2>1. i + 1 \in 1..Len(frames) /\ t[i] = n[i + 1] /\ t[i + 1] = n[(i + 1) + 1]
    BY <1>2
  <2>2. Follows(frames[i + 1], session, n[i + 1], n[(i + 1) + 1])
    BY <1>1, <2>1
  <2> QED
    BY <1>3, <2>1, <2>2
<1> HIDE DEF t
<1>6. Reads(session, n[2], Tail(frames), to)
  BY <1>3, <1>4, <1>5 DEF Reads
<1>7. Follows(Head(frames), session, from, n[2]) /\ n[2] \in 0..to
  BY <1>1, <1>2
<1> QED
  BY <1>6, <1>7

\* A frame that follows the last number goes at the end.
LEMMA ReadsLonger ==
  ASSUME NEW session \in Sessions, NEW from \in Nat, NEW to \in Nat, NEW frames \in Seq(Frame),
         Reads(session, from, frames, to), NEW f \in Frame, NEW m \in Nat, to <= m,
         Follows(f, session, to, m)
  PROVE  Reads(session, from, Append(frames, f), m)
<1>1. PICK n \in [1..(Len(frames) + 1) -> 0..to] :
        /\ n[1] = from
        /\ n[Len(frames) + 1] = to
        /\ \A i \in 1..Len(frames) : Follows(frames[i], session, n[i], n[i + 1])
  BY DEF Reads
<1>2. PICK k \in Nat : k = Len(frames)
  OBVIOUS
<1>3. /\ Len(Append(frames, f)) = k + 1
      /\ Append(frames, f)[k + 1] = f
      /\ \A i \in 1..k : Append(frames, f)[i] = frames[i]
  BY <1>2
<1> DEFINE t == [i \in 1..(k + 2) |-> IF i <= k + 1 THEN n[i] ELSE m]
<1>4. t \in [1..((k + 1) + 1) -> 0..m] /\ t[1] = from /\ t[(k + 1) + 1] = m
  BY <1>1, <1>2
<1>5. \A i \in 1..(k + 1) : Follows(Append(frames, f)[i], session, t[i], t[i + 1])
  <2> SUFFICES ASSUME NEW i \in 1..(k + 1) PROVE Follows(Append(frames, f)[i], session, t[i], t[i + 1])
    OBVIOUS
  <2>1. CASE i = k + 1
    <3>1. t[i] = to /\ t[i + 1] = m
      BY <1>1, <1>2, <2>1
    <3> QED
      BY <1>3, <2>1, <3>1
  <2>2. CASE i # k + 1
    <3>1. i \in 1..k /\ t[i] = n[i] /\ t[i + 1] = n[i + 1]
      BY <2>2
    <3>2. Follows(frames[i], session, n[i], n[i + 1])
      BY <1>1, <1>2, <3>1
    <3> QED
      BY <1>3, <3>1, <3>2
  <2> QED
    BY <2>1, <2>2
<1> HIDE DEF t
<1> QED
  BY <1>3, <1>4, <1>5 DEF Reads

\* A replay leads from the number a RESUME names to the last one of the session.
LEMMA ReadsReplay ==
  ASSUME NEW session \in Sessions, NEW from \in Nat, log[session] \in Nat, from > 0, from <= log[session],
         NEW resumed, resumed = [kind |-> "resumed", session |-> session, s |-> log[session]]
  PROVE  /\ Frames(session, from) \in Seq(Frame)
         /\ Frames(session, from) \o <<resumed>> \in Seq(Frame)
         /\ Reads(session, from, Frames(session, from) \o <<resumed>>, log[session])
<1>1. PICK to \in Nat : to = log[session]
  OBVIOUS
<1>2. PICK k \in Nat : k = to - from /\ from + k = to
  <2>1. to - from \in Nat /\ from + (to - from) = to
    BY <1>1
  <2> QED
    BY <2>1
<1> DEFINE F == [i \in 1..k |-> [kind |-> "event", session |-> session, s |-> from + i]]
<1>3. Frames(session, from) = F
  BY <1>1, <1>2 DEF Frames
<1>4. F \in Seq(Frame) /\ Len(F) = k /\ \A i \in 1..k : F[i] = [kind |-> "event", session |-> session, s |-> from + i]
  BY DEF Frame, Kinds
<1>5. resumed \in Frame
  BY DEF Frame, Kinds
<1> DEFINE n == [i \in 1..(k + 1) |-> from + (i - 1)]
<1>6. n \in [1..(k + 1) -> 0..to] /\ n[1] = from /\ n[k + 1] = to
  BY <1>2
<1>7. \A i \in 1..k : Follows(F[i], session, n[i], n[i + 1])
  <2> SUFFICES ASSUME NEW i \in 1..k PROVE Follows(F[i], session, n[i], n[i + 1])
    OBVIOUS
  <2>1. n[i] \in Nat /\ n[i] > 0 /\ n[i + 1] = n[i] + 1 /\ n[i + 1] = from + i
    BY DEF n
  <2>2. F[i] = [kind |-> "event", session |-> session, s |-> n[i] + 1]
    BY <1>4, <2>1
  <2> HIDE DEF n, F
  <2> QED
    BY <2>1, <2>2 DEF Follows, None
<1> HIDE DEF n, F
<1>8. Reads(session, from, F, to)
  BY <1>4, <1>6, <1>7 DEF Reads
<1>9. Follows(resumed, session, to, to)
  BY <1>1, <1>2 DEF Follows, None
<1>10. F \o <<resumed>> = Append(F, resumed)
  BY <1>4, <1>5
<1>11. Reads(session, from, Append(F, resumed), to)
  BY <1>4, <1>5, <1>8, <1>9, ReadsLonger
<1>12. Append(F, resumed) \in Seq(Frame)
  BY <1>4, <1>5
<1>13. Frames(session, from) \o <<resumed>> = Append(F, resumed)
  BY <1>3, <1>10
<1>14. Reads(session, from, Append(F, resumed), log[session])
  BY <1>1, <1>11
<1> QED
  BY <1>3, <1>4, <1>12, <1>13, <1>14

-----------------------------------------------------------------------------
\* What is said of the events that were emitted.
EmissionInv == EmittedInv /\ OnceInOrder /\ ResumesWhereItStopped

\* There is no connection and no session at first.
LEMMA InitGatewayInv == Init => GatewayInv
<1> SUFFICES ASSUME Init PROVE GatewayInv
  OBVIOUS
<1>1. TypeOK
  <2>1. heartbeat \in [on : BOOLEAN, seq : Nat] /\ request \in Requests
    BY DEF Init, Requests, NoRequest, None
  <2>2. emitted \in Seq(Sessions \X Nat) /\ wire \in Seq(Frame)
    BY DEF Init
  <2>3. log \in [Sessions -> 0..(MaxEvents + 1)] /\ lastSeq \in 0..(MaxEvents + 1)
    BY GatewayConstants DEF Init, None
  <2>4. breaks \in 0..MaxBreaks /\ backoff \in 0..MaxBackoff
    BY GatewayConstants DEF Init
  <2> QED
    BY <2>1, <2>2, <2>3, <2>4 DEF Init, TypeOK
<1>2. LogInv /\ ResumeInv /\ LinkInv
  BY DEF Init, LogInv, ResumeInv, LinkInv, NoRequest, None
<1>3. EmittedInv /\ OnceInOrder /\ ResumesWhereItStopped
  BY DEF Init, EmittedInv, OnceInOrder, ResumesWhereItStopped, None
<1> QED
  BY <1>1, <1>2, <1>3 DEF GatewayInv

\* Steps that touch neither resume state nor connection nor platform.
LEMMA QuietKeeps ==
  ASSUME GatewayInv, TypeOK',
         UNCHANGED <<sessionId, lastSeq, emitted, link, platform>>,
         pc' = "reading" <=> pc = "reading"
  PROVE  GatewayInv'
<1> USE DEF link, platform
<1>1. LogInv' /\ ResumeInv' /\ EmittedInv' /\ OnceInOrder' /\ ResumesWhereItStopped'
  BY DEF GatewayInv, LogInv, Newest, ResumeInv, EmittedInv, OnceInOrder, ResumesWhereItStopped
<1>2. LinkInv'
  BY DEF GatewayInv, LinkInv, Unattached, Attached, Reads
<1> QED
  BY <1>1, <1>2 DEF GatewayInv

\* Those of run outside a connection, the end of a heartbeat and the cancellation.
LEMMA RunKeeps ==
  ASSUME GatewayInv, Top \/ Fetch \/ Sleep \/ HeartbeatStops \/ Cancel \/ UNCHANGED vars
  PROVE  GatewayInv'
<1>1. TypeOK'
  <2>1. TypeOK
    BY DEF GatewayInv
  <2>2. CASE Top \/ Sleep \/ Cancel \/ UNCHANGED vars
    BY <2>1, <2>2 DEF TypeOK, Top, Sleep, Cancel, vars, client, link, platform
  <2>3. CASE Fetch
    BY <2>1, <2>3, GatewayConstants DEF TypeOK, Fetch, link, platform
  <2>4. CASE HeartbeatStops
    BY <2>1, <2>4 DEF TypeOK, HeartbeatStops, link, platform
  <2> QED
    BY <2>2, <2>3, <2>4
<1>2. /\ UNCHANGED <<sessionId, lastSeq, emitted, link, platform>>
      /\ pc' = "reading" <=> pc = "reading"
  BY DEF Top, Fetch, Sleep, HeartbeatStops, Cancel, vars, client
<1> QED
  BY <1>1, <1>2, QuietKeeps

\* The end of a connection keeps the resume state or clears both halves of it
\* (qq_bot_ws.rs run).
LEMMA AfterConnectionKeeps ==
  ASSUME GatewayInv, NEW invalid \in BOOLEAN, AfterConnection(invalid),
         UNCHANGED <<cancelled, emitted, platform>>, breaks' \in 0..MaxBreaks
  PROVE  GatewayInv'
<1> USE DEF platform, None
<1>1. TypeOK'
  BY GatewayConstants DEF GatewayInv, TypeOK, AfterConnection, Requests, NoRequest, Frame
<1>2. \/ UNCHANGED <<sessionId, lastSeq>>
      \/ sessionId' = None /\ lastSeq' = None
  BY DEF AfterConnection
<1>3. ResumeInv' /\ ResumesWhereItStopped'
  BY <1>2 DEF GatewayInv, ResumeInv, ResumesWhereItStopped
<1>4. LogInv' /\ EmittedInv' /\ OnceInOrder'
  BY DEF GatewayInv, LogInv, Newest, EmittedInv, OnceInOrder, AfterConnection
<1>5. LinkInv'
  BY DEF AfterConnection, LinkInv, NoRequest
<1> QED
  BY <1>1, <1>3, <1>4, <1>5 DEF GatewayInv

\* So ends a connection that breaks, and one that is cancelled.
LEMMA EndKeeps ==
  ASSUME GatewayInv, Break \/ StopReading
  PROVE  GatewayInv'
<1>1. AfterConnection(FALSE) /\ UNCHANGED <<cancelled, emitted, platform>>
  BY DEF Break, StopReading
<1>2. breaks' \in 0..MaxBreaks
  <2>1. breaks' = breaks \/ (breaks < MaxBreaks /\ breaks' = breaks + 1)
    BY Zenon DEF Break, StopReading
  <2> QED
    BY <2>1, GatewayConstants DEF GatewayInv, TypeOK
<1> QED
  BY <1>1, <1>2, AfterConnectionKeeps

\* A new connection has Hello on it, whatever the last one left unread.
LEMMA DialKeeps ==
  ASSUME GatewayInv, Dial
  PROVE  GatewayInv'
<1> USE DEF platform, None
<1>1. TypeOK'
  BY DEF GatewayInv, TypeOK, Dial, Requests, NoRequest, Frame, Plain, Kinds
<1>2. LogInv' /\ ResumeInv' /\ EmittedInv' /\ OnceInOrder' /\ ResumesWhereItStopped'
  BY DEF GatewayInv, LogInv, Newest, ResumeInv, EmittedInv, OnceInOrder, ResumesWhereItStopped, Dial
<1>3. LinkInv'
  BY DEF Dial, LinkInv, Unattached, NoRequest
<1> QED
  BY <1>1, <1>2, <1>3 DEF GatewayInv

\* Hello is the first frame, so RESUME names last_seq as the last connection left it.
LEMMA HelloKeeps ==
  ASSUME GatewayInv, pc = "reading", wire # <<>>, ReadHello(Head(wire)),
         UNCHANGED <<cancelled, platform, breaks>>
  PROVE  GatewayInv'
<1> USE DEF platform, None
<1>1. attached = None /\ wire = <<Plain("hello")>>
  <2>1. CASE attached # None
    <3>1. \E from, to \in Nat : Reads(attached, from, wire, to)
      BY <2>1 DEF GatewayInv, TypeOK, LinkInv, Attached
    <3>2. \E from, m \in Nat : Follows(Head(wire), attached, from, m)
      BY <2>1, <3>1, ReadsNext DEF GatewayInv, TypeOK
    <3> QED
      BY <3>2 DEF Follows, ReadHello
  <2>2. CASE attached = None
    BY <2>2 DEF GatewayInv, LinkInv, Unattached, ReadHello, Plain
  <2> QED
    BY <2>1, <2>2
<1>2. wire' = <<>> /\ Head(wire).s = 0
  BY <1>1 DEF ReadHello, Plain
<1>3. UNCHANGED <<pc, sessionId, lastSeq, backoff, emitted, attached>>
  BY <1>2 DEF ReadHello, Remember
<1>4. \/ request' = [op |-> "resume", session |-> sessionId, seq |-> lastSeq] /\ sessionId # None
      \/ request' = [op |-> "identify", session |-> None, seq |-> None]
  BY DEF ReadHello
<1>5. TypeOK'
  <2>1. request' \in Requests
    BY <1>4 DEF GatewayInv, TypeOK, Requests
  <2>2. heartbeat' \in [on : BOOLEAN, seq : Nat]
    BY DEF ReadHello, GatewayInv, TypeOK
  <2> QED
    BY <1>2, <1>3, <2>1, <2>2 DEF GatewayInv, TypeOK
<1>6. LogInv' /\ ResumeInv' /\ EmittedInv' /\ OnceInOrder' /\ ResumesWhereItStopped'
  BY <1>3 DEF GatewayInv, LogInv, Newest, ResumeInv, EmittedInv, OnceInOrder, ResumesWhereItStopped
<1>7. LinkInv'
  BY <1>1, <1>2, <1>3, <1>4 DEF LinkInv, Unattached
<1> QED
  BY <1>5, <1>6, <1>7 DEF GatewayInv

\* op 7 and op 9.
LEMMA ReadEndKeeps ==
  ASSUME GatewayInv, pc = "reading", wire # <<>>, ReadEnd(Head(wire)),
         UNCHANGED <<cancelled, platform, breaks>>
  PROVE  GatewayInv'
BY AfterConnectionKeeps DEF ReadEnd, GatewayInv, TypeOK

\* The ranges of the numbers.
LEMMA NumbersKnown ==
  ASSUME GatewayInv
  PROVE  /\ \A i \in Sessions : log[i] \in Nat /\ log[i] <= MaxEvents + 1
         /\ lastSeq \in Nat /\ MaxEvents \in Nat
         /\ \A i \in Sessions : i # None
BY GatewayConstants DEF GatewayInv, TypeOK, Sessions, None

\* Emitting the number after last_seq goes on in order, and leaves no gap; reading
\* RESUMED emits nothing, and neither does READY of a session without events.
LEMMA EmissionKept ==
  ASSUME GatewayInv, attached \in Sessions, Newest(attached), UNCHANGED log,
         NEW m \in 0..(MaxEvents + 1), m <= log[attached],
         sessionId' = attached, lastSeq' = m,
         \/ /\ emitted' = Append(emitted, <<attached, m>>)
            /\ sessionId = attached /\ m = lastSeq + 1 /\ m >= 2
         \/ /\ emitted' = emitted
            /\ sessionId = attached /\ m = lastSeq
         \/ /\ emitted' = emitted /\ m = 1
            /\ \A k \in DOMAIN emitted : emitted[k][1] # attached
  PROVE  EmissionInv' /\ emitted' \in Seq(Sessions \X Nat)
<1>1. emitted \in Seq(Sessions \X Nat) /\ lastSeq \in Nat /\ m \in Nat /\ attached # None
  BY NumbersKnown DEF GatewayInv, TypeOK
<1>2. CASE emitted' = Append(emitted, <<attached, m>>) /\ sessionId = attached /\ m = lastSeq + 1 /\ m >= 2
  <2>1. PICK n \in Nat : n = Len(emitted)
    BY <1>1
  <2>2. PICK e \in Sessions \X Nat : e = <<attached, m>>
    BY <1>1
  <2>3. /\ Len(emitted') = n + 1 /\ emitted'[n + 1] = e
        /\ \A k \in 1..n : emitted'[k] = emitted[k]
        /\ emitted' \in Seq(Sessions \X Nat)
    BY <1>1, <1>2, <2>1, <2>2
  <2>4. DOMAIN emitted = 1..n /\ DOMAIN emitted' = 1..(n + 1)
    BY <1>1, <2>1, <2>3
  <2>5. \A k \in 1..n : emitted[k] \in Sessions \X Nat /\ emitted[k][2] \in 2..log[emitted[k][1]]
    <3>1. \A k \in 1..n : emitted[k] \in Sessions \X Nat
      BY <1>1, <2>1
    <3>2. \A k \in 1..n : emitted[k][2] \in 2..log[emitted[k][1]]
      BY <2>4 DEF GatewayInv, EmittedInv
    <3> QED
      BY <3>1, <3>2
  <2>6. EmittedInv'
    BY <1>2, <2>2, <2>3, <2>4, <2>5, NumbersKnown DEF EmittedInv
  <2>7. \A s \in 2..(MaxEvents + 1) :
          (\E k \in 1..n : emitted[k] = <<attached, s>>) <=> s <= lastSeq
    BY <1>1, <1>2, <2>4 DEF GatewayInv, ResumesWhereItStopped
  <2>8. ASSUME NEW k \in 1..n
        PROVE  \/ emitted[k][1] < attached
               \/ emitted[k][1] = attached /\ emitted[k][2] < m
    <3>1. PICK i \in Sessions, s \in Nat : emitted[k] = <<i, s>>
      BY <2>5
    <3>2. s \in 2..log[i] /\ log[i] \in Nat /\ log[i] <= MaxEvents + 1 /\ MaxEvents \in Nat
      BY <2>5, <3>1, NumbersKnown
    <3>3. log[i] > 0
      BY <3>2
    <3>4. ~(i > attached)
      BY <3>3 DEF Newest
    <3>5. i = attached => s <= lastSeq
      BY <2>7, <3>1, <3>2
    <3> QED
      BY <1>1, <1>2, <3>1, <3>4, <3>5 DEF Sessions
  <2>9. OnceInOrder'
    <3> SUFFICES ASSUME NEW i \in 1..(n + 1), NEW j \in 1..(n + 1), i < j
                 PROVE  \/ emitted'[i][1] < emitted'[j][1]
                        \/ emitted'[i][1] = emitted'[j][1] /\ emitted'[i][2] < emitted'[j][2]
      BY <2>4 DEF OnceInOrder
    <3>1. i \in 1..n /\ (j \in 1..n \/ j = n + 1)
      OBVIOUS
    <3>2. CASE j \in 1..n
      <4>1. \/ emitted[i][1] < emitted[j][1]
            \/ emitted[i][1] = emitted[j][1] /\ emitted[i][2] < emitted[j][2]
        BY <2>4, <3>1, <3>2 DEF GatewayInv, OnceInOrder
      <4> QED
        BY <2>3, <3>1, <3>2, <4>1
    <3>3. CASE j = n + 1
      <4>1. emitted'[j][1] = attached /\ emitted'[j][2] = m
        BY <2>2, <2>3, <3>3
      <4>2. emitted'[i] = emitted[i]
        BY <2>3, <3>1
      <4> QED
        BY <2>8, <3>1, <4>1, <4>2
    <3> QED
      BY <3>1, <3>2, <3>3
  <2>10. ResumesWhereItStopped'
    <3> SUFFICES ASSUME NEW s \in 2..(MaxEvents + 1)
                 PROVE  (\E k \in 1..(n + 1) : emitted'[k] = <<attached, s>>) <=> s <= m
      BY <2>4 DEF ResumesWhereItStopped
    <3>1. s <= m <=> s <= lastSeq \/ s = m
      BY <1>1, <1>2
    <3>2. (\E k \in 1..(n + 1) : emitted'[k] = <<attached, s>>)
            <=> (\E k \in 1..n : emitted[k] = <<attached, s>>) \/ s = m
      <4>1. emitted'[n + 1] = <<attached, s>> <=> s = m
        BY <2>2, <2>3
      <4>2. \A k \in 1..(n + 1) : k \in 1..n \/ k = n + 1
        OBVIOUS
      <4>3. n + 1 \in 1..(n + 1) /\ \A k \in 1..n : k \in 1..(n + 1)
        OBVIOUS
      <4> QED
        BY <2>3, <4>1, <4>2, <4>3, Zenon
    <3> QED
      BY <2>7, <3>1, <3>2
  <2> QED
    BY <2>3, <2>6, <2>9, <2>10 DEF EmissionInv
<1>3. CASE emitted' = emitted
  <2>1. EmittedInv' /\ OnceInOrder'
    BY <1>3 DEF GatewayInv, EmittedInv, OnceInOrder
  <2>2. CASE sessionId = attached /\ m = lastSeq
    BY <1>3, <2>1, <2>2, <1>1 DEF GatewayInv, ResumesWhereItStopped, EmissionInv
  <2>3. CASE m = 1 /\ \A k \in DOMAIN emitted : emitted[k][1] # attached
    <3>1. \A s \in 2..(MaxEvents + 1) : ~(s <= m)
      BY <2>3
    <3> QED
      BY <1>1, <1>3, <2>1, <2>3, <3>1 DEF ResumesWhereItStopped, EmissionInv
  <2> QED
    BY <1>2, <1>3, <2>2, <2>3
<1> QED
  BY <1>2, <1>3

\* READY, an event or RESUMED is read: it is the one last_seq leads to.
LEMMA DispatchKeeps ==
  ASSUME GatewayInv, pc = "reading", wire # <<>>, ReadDispatch(Head(wire)),
         UNCHANGED <<cancelled, platform, breaks>>
  PROVE  GatewayInv'
<1> DEFINE frame == Head(wire)
<1> USE DEF platform
<1>1. attached # None
  BY DEF GatewayInv, LinkInv, Unattached, ReadDispatch, Plain
<1>2. attached \in Sessions /\ wire \in Seq(Frame) /\ Newest(attached)
  BY <1>1 DEF GatewayInv, TypeOK, LogInv
<1>3. PICK to \in Nat : to = log[attached]
  BY <1>2, NumbersKnown
<1>4. PICK from \in Nat :
        /\ Reads(attached, from, wire, to)
        /\ \/ sessionId = attached /\ from = lastSeq /\ lastSeq # None
           \/ sessionId # attached /\ from = 0 /\ \A k \in DOMAIN emitted : emitted[k][1] # attached
  BY <1>1, <1>3, NumbersKnown DEF GatewayInv, LinkInv, Attached, ResumeInv
<1>5. PICK m \in 0..to : Follows(frame, attached, from, m) /\ Reads(attached, m, Tail(wire), to)
  BY <1>2, <1>4, ReadsNext
<1>6. /\ wire' = Tail(wire) /\ wire' \in Seq(Frame)
      /\ UNCHANGED <<pc, backoff, heartbeat, request, attached, log, live>>
  BY <1>2 DEF ReadDispatch
<1>7. frame \in Frame /\ frame.kind \in {"ready", "event", "resumed"}
  BY <1>2 DEF ReadDispatch
<1>8. sessionId' = attached /\ lastSeq' = m /\ m > 0
  <2>1. m > 0 /\ frame.s = m
    BY <1>5, <1>7 DEF Follows, None
  <2>2. lastSeq' = m
    BY <2>1 DEF ReadDispatch, Remember, None
  <2>3. sessionId' = attached
    BY <1>4, <1>5, <1>7 DEF Follows, ReadDispatch
  <2> QED
    BY <2>1, <2>2, <2>3
<1>9. \/ /\ emitted' = Append(emitted, <<attached, m>>)
         /\ sessionId = attached /\ m = lastSeq + 1 /\ m >= 2
      \/ /\ emitted' = emitted
         /\ sessionId = attached /\ m = lastSeq
      \/ /\ emitted' = emitted /\ m = 1
         /\ \A k \in DOMAIN emitted : emitted[k][1] # attached
  <2>1. CASE frame.kind = "event"
    <3>1. from > 0 /\ m = from + 1 /\ frame.s = m /\ frame.session = attached
      BY <1>5, <2>1 DEF Follows, None
    <3>2. emitted' = Append(emitted, <<attached, m>>)
      BY <2>1, <3>1 DEF ReadDispatch
    <3>3. sessionId = attached /\ from = lastSeq
      BY <1>4, <3>1
    <3> QED
      BY <3>1, <3>2, <3>3
  <2>2. CASE frame.kind # "event"
    <3>1. (m = 1 /\ from = 0) \/ (from > 0 /\ m = from)
      BY <1>5, <1>7, <2>2 DEF Follows, None
    <3>2. emitted' = emitted
      BY <2>2 DEF ReadDispatch
    <3> QED
      BY <1>4, <3>1, <3>2 DEF None
  <2> QED
    BY <2>1, <2>2
<1>10. m \in 0..(MaxEvents + 1) /\ m <= log[attached]
  BY <1>2, <1>3, <1>5, NumbersKnown
<1>11. EmissionInv' /\ emitted' \in Seq(Sessions \X Nat)
  BY <1>2, <1>6, <1>8, <1>9, <1>10, EmissionKept
<1>12. TypeOK'
  <2>1. TypeOK
    BY DEF GatewayInv
  <2>2. sessionId' \in Sessions /\ lastSeq' \in 0..(MaxEvents + 1)
    BY <1>2, <1>8, <1>10
  <2> QED
    BY <1>6, <1>11, <2>1, <2>2 DEF TypeOK
<1>13. LogInv' /\ ResumeInv'
  <2>1. LogInv'
    BY <1>6 DEF GatewayInv, LogInv, Newest
  <2>2. ResumeInv'
    BY <1>1, <1>6, <1>8, <1>10 DEF ResumeInv, None
  <2> QED
    BY <2>1, <2>2
<1>14. LinkInv'
  <2>1. request.op = "none"
    BY <1>1 DEF GatewayInv, LinkInv, Attached
  <2>2. Reads(attached, m, wire', log[attached])
    BY <1>3, <1>5, <1>6
  <2>3. Attached'
    BY <1>6, <1>8, <2>1, <2>2 DEF Attached, Reads
  <2> QED
    BY <1>1, <1>6, <2>3 DEF LinkInv
<1> QED
  BY <1>11, <1>12, <1>13, <1>14 DEF GatewayInv, EmissionInv

-----------------------------------------------------------------------------
\* A frame is sent on an attached connection.
LEMMA WireLonger ==
  ASSUME GatewayInv, attached # None, NEW f \in Frame, NEW m \in Nat, log[attached] <= m,
         Follows(f, attached, log[attached], m),
         wire' = Append(wire, f), log'[attached] = m,
         UNCHANGED <<pc, sessionId, lastSeq, emitted, request, attached>>
  PROVE  LinkInv'
<1>1. pc = "reading" /\ Attached
  BY DEF GatewayInv, LinkInv
<1>2. attached \in Sessions /\ wire \in Seq(Frame)
  BY DEF GatewayInv, TypeOK
<1>3. PICK to \in Nat : to = log[attached]
  BY <1>2, NumbersKnown
<1>4. ASSUME NEW from \in Nat, Reads(attached, from, wire, log[attached])
      PROVE  Reads(attached, from, wire', log'[attached])
  <2>1. Reads(attached, from, Append(wire, f), m)
    BY <1>2, <1>3, <1>4, ReadsLonger
  <2> QED
    BY <2>1
<1>5. CASE sessionId = attached /\ Reads(attached, lastSeq, wire, log[attached])
  <2>1. Reads(attached, lastSeq, wire', log'[attached])
    BY <1>4, <1>5, NumbersKnown
  <2>2. Attached'
    BY <1>1, <1>5, <2>1 DEF Attached, Reads
  <2> QED
    BY <1>1, <2>2 DEF LinkInv
<1>6. CASE sessionId # attached /\ Reads(attached, 0, wire, log[attached])
           /\ \A k \in DOMAIN emitted : emitted[k][1] # attached
  <2>1. Reads(attached, 0, wire', log'[attached])
    BY <1>4, <1>6
  <2>2. Attached'
    BY <1>1, <1>6, <2>1 DEF Attached, Reads
  <2> QED
    BY <1>1, <2>2 DEF LinkInv
<1> QED
  BY <1>1, <1>5, <1>6 DEF Attached

\* The platform ends a session or calls off a connection.
LEMMA ControlKeeps ==
  ASSUME GatewayInv, Expire \/ CallOff
  PROVE  GatewayInv'
<1> USE DEF client
<1>1. /\ UNCHANGED <<pc, sessionId, lastSeq, backoff, heartbeat, cancelled, emitted, request, attached, log>>
      /\ breaks' \in 0..MaxBreaks
      /\ live' \in {live, None}
  <2>1. CASE Expire
    BY <2>1 DEF Expire, GatewayInv, TypeOK
  <2>2. CASE CallOff
    BY <2>2, GatewayConstants DEF CallOff, platform, GatewayInv, TypeOK
  <2> QED
    BY <2>1, <2>2
<1>2. \/ wire' = wire /\ (attached = None \/ attached # None)
      \/ attached # None /\ \E kind \in {"invalid", "reconnect"} : wire' = Append(wire, Plain(kind))
  BY DEF Expire, CallOff
<1>3. LinkInv'
  <2>1. CASE wire' = wire
    BY <1>1, <2>1 DEF GatewayInv, LinkInv, Attached, Unattached, Reads
  <2>2. CASE attached # None /\ \E kind \in {"invalid", "reconnect"} : wire' = Append(wire, Plain(kind))
    <3>1. PICK kind \in {"invalid", "reconnect"} : wire' = Append(wire, Plain(kind))
      BY <2>2
    <3>2. Plain(kind) \in Frame /\ Plain(kind).kind = kind /\ Plain(kind).s = None
      BY DEF Plain, Frame, Kinds, None
    <3>3. log[attached] \in Nat
      BY <2>2, NumbersKnown DEF GatewayInv, TypeOK
    <3>4. Follows(Plain(kind), attached, log[attached], log[attached])
      BY <3>2 DEF Follows
    <3> QED
      BY <1>1, <2>2, <3>1, <3>2, <3>3, <3>4, WireLonger
  <2> QED
    BY <1>2, <2>1, <2>2
<1>4. TypeOK'
  <2>1. TypeOK
    BY DEF GatewayInv
  <2>2. wire' \in Seq(Frame)
    <3>1. \A kind \in {"invalid", "reconnect"} : Plain(kind) \in Frame
      BY DEF Plain, Frame, Kinds, None
    <3>2. wire \in Seq(Frame)
      BY <2>1 DEF TypeOK
    <3> QED
      BY <1>2, <3>1, <3>2
  <2>3. live' \in Sessions \cup {None}
    BY <1>1, <2>1 DEF TypeOK
  <2> QED
    BY <1>1, <2>1, <2>2, <2>3 DEF TypeOK
<1>5. LogInv'
  BY <1>1 DEF GatewayInv, LogInv, Newest
<1>6. ResumeInv' /\ EmittedInv' /\ OnceInOrder' /\ ResumesWhereItStopped'
  BY <1>1 DEF GatewayInv, ResumeInv, EmittedInv, OnceInOrder, ResumesWhereItStopped
<1> QED
  BY <1>3, <1>4, <1>5, <1>6 DEF GatewayInv

\* A session's log only grows.
LEMMA GrowthKeeps ==
  ASSUME GatewayInv, NEW i \in Sessions, NEW m \in Nat, log' = [log EXCEPT ![i] = m], log[i] <= m,
         UNCHANGED <<sessionId, lastSeq, emitted>>
  PROVE  ResumeInv' /\ EmittedInv' /\ OnceInOrder' /\ ResumesWhereItStopped'
<1>1. \A j \in Sessions : log[j] <= log'[j] /\ log'[j] \in Nat /\ log[j] \in Nat
  BY NumbersKnown DEF GatewayInv, TypeOK
<1>2. ResumeInv'
  BY <1>1, NumbersKnown DEF GatewayInv, ResumeInv, TypeOK
<1>3. EmittedInv'
  <2> SUFFICES ASSUME NEW k \in DOMAIN emitted PROVE emitted[k][2] \in 2..log'[emitted[k][1]]
    BY DEF EmittedInv
  <2>1. emitted[k][1] \in Sessions /\ emitted[k][2] \in 2..log[emitted[k][1]]
    BY DEF GatewayInv, TypeOK, EmittedInv
  <2> QED
    BY <1>1, <2>1
<1>4. OnceInOrder' /\ ResumesWhereItStopped'
  BY DEF GatewayInv, OnceInOrder, ResumesWhereItStopped
<1> QED
  BY <1>2, <1>3, <1>4

\* An event is sent on the connection of the live session, or kept for a replay.
LEMMA PlatformDispatchKeeps ==
  ASSUME GatewayInv, Dispatch
  PROVE  GatewayInv'
<1>1. UNCHANGED <<pc, sessionId, lastSeq, backoff, heartbeat, cancelled, emitted, request, attached, live, breaks>>
  BY DEF Dispatch, client
<1>2. live \in Sessions /\ log[live] \in Nat /\ log[live] <= MaxEvents
  BY NumbersKnown DEF Dispatch, GatewayInv, TypeOK
<1>3. PICK m \in Nat : m = log[live] + 1
  BY <1>2
<1>4. log' = [log EXCEPT ![live] = m] /\ log'[live] = m /\ m \in 0..(MaxEvents + 1) /\ log[live] <= m
  BY <1>2, <1>3, GatewayConstants DEF Dispatch, GatewayInv, TypeOK
<1> DEFINE f == [kind |-> "event", session |-> live, s |-> m]
<1>5. f \in Frame
  BY <1>2 DEF Frame, Kinds
<1>6. /\ attached = live => wire' = Append(wire, f)
      /\ attached # live => wire' = wire
  BY <1>3 DEF Dispatch
<1>7. Newest(live)
  BY <1>2, NumbersKnown DEF GatewayInv, LogInv
<1>8. LinkInv'
  <2>1. CASE attached = live
    <3>1. Follows(f, attached, log[attached], m)
      BY <1>2, <1>3, <1>7, <2>1 DEF Follows, Newest, None
    <3> HIDE DEF f
    <3> QED
      BY <1>1, <1>2, <1>4, <1>5, <1>6, <2>1, <3>1, NumbersKnown, WireLonger
  <2>2. CASE attached # live
    <3>1. wire' = wire
      BY <1>6, <2>2
    <3>2. log'[attached] = log[attached] \/ attached = None
      BY <1>4, <2>2 DEF GatewayInv, TypeOK
    <3> QED
      BY <1>1, <3>1, <3>2 DEF GatewayInv, LinkInv, Attached, Unattached, Reads
  <2> QED
    BY <2>1, <2>2
<1>9. TypeOK'
  <2>1. TypeOK
    BY DEF GatewayInv
  <2>2. wire' \in Seq(Frame)
    <3> HIDE DEF f
    <3>1. wire \in Seq(Frame)
      BY <2>1 DEF TypeOK
    <3> QED
      BY <1>5, <1>6, <3>1
  <2>3. log' \in [Sessions -> 0..(MaxEvents + 1)]
    BY <1>4, <2>1 DEF TypeOK
  <2> QED
    BY <1>1, <2>1, <2>2, <2>3 DEF TypeOK
<1>10. LogInv'
  <2>1. \A j \in Sessions : log'[j] > 0 <=> log[j] > 0
    BY <1>4, <1>7 DEF Newest, GatewayInv, TypeOK
  <2>2. \A j \in Sessions : log'[j] = 0 <=> log[j] = 0
    BY <1>4, <1>7 DEF Newest, GatewayInv, TypeOK
  <2> QED
    BY <1>1, <2>1, <2>2 DEF GatewayInv, TypeOK, LogInv, Newest
<1>11. ResumeInv' /\ EmittedInv' /\ OnceInOrder' /\ ResumesWhereItStopped'
  BY <1>1, <1>2, <1>4, GrowthKeeps
<1> QED
  BY <1>8, <1>9, <1>10, <1>11 DEF GatewayInv

\* IDENTIFY is answered with READY of a session no event of which was emitted.
LEMMA OpenKeeps ==
  ASSUME GatewayInv, OpenSession
  PROVE  GatewayInv'
<1>1. UNCHANGED <<pc, sessionId, lastSeq, backoff, heartbeat, cancelled, emitted, breaks>>
  BY DEF OpenSession, client
<1>2. pc = "reading" /\ attached = None /\ wire = <<>>
  BY DEF OpenSession, GatewayInv, LinkInv, Attached, Unattached
<1>3. PICK i \in Sessions :
        /\ log[i] = 0
        /\ \A j \in Sessions : j < i => log[j] > 0
        /\ log' = [log EXCEPT ![i] = 1]
        /\ live' = i
        /\ attached' = i
        /\ wire' = Append(wire, [kind |-> "ready", session |-> i, s |-> 1])
  BY DEF OpenSession
<1>4. log'[i] = 1 /\ \A j \in Sessions : j # i => log'[j] = log[j]
  BY <1>3 DEF GatewayInv, TypeOK
<1>5. \A j \in Sessions : j > i => log[j] = 0
  <2> SUFFICES ASSUME NEW j \in Sessions, j > i, log[j] # 0 PROVE FALSE
    OBVIOUS
  <2>1. log[j] > 0 /\ i < j
    BY NumbersKnown DEF Sessions
  <2>2. log[i] > 0
    BY <2>1 DEF GatewayInv, LogInv
  <2> QED
    BY <1>3, <2>2
<1> DEFINE f == [kind |-> "ready", session |-> i, s |-> 1]
<1>6. f \in Frame /\ wire' = <<f>>
  BY <1>2, <1>3 DEF Frame, Kinds
<1>7. request' = NoRequest
  BY DEF OpenSession
<1>8. TypeOK'
  <2>1. TypeOK
    BY DEF GatewayInv
  <2>2. wire' \in Seq(Frame)
    BY <1>6
  <2>3. log' \in [Sessions -> 0..(MaxEvents + 1)]
    BY <1>3, <2>1, GatewayConstants DEF TypeOK
  <2>4. request' \in Requests
    BY <1>7 DEF NoRequest, Requests, None
  <2>5. live' \in Sessions /\ attached' \in Sessions
    BY <1>3
  <2> QED
    BY <1>1, <2>1, <2>2, <2>3, <2>4, <2>5 DEF TypeOK
<1>9. Newest(i)'
  BY <1>4, <1>5 DEF Newest, Sessions
<1>10. LogInv'
  <2>1. ASSUME NEW j \in Sessions, NEW k \in Sessions, j < k, log'[k] > 0 PROVE log'[j] > 0
    <3>1. CASE k = i
      BY <1>3, <1>4, <2>1, <3>1 DEF Sessions
    <3>2. CASE k # i
      BY <1>3, <1>4, <2>1, <3>2 DEF GatewayInv, LogInv
    <3> QED
      BY <3>1, <3>2
  <2> QED
    BY <1>3, <1>9, <2>1 DEF LogInv
<1>11. ResumeInv' /\ EmittedInv' /\ OnceInOrder' /\ ResumesWhereItStopped'
  <2>1. PICK m \in Nat : m = 1
    OBVIOUS
  <2>2. log' = [log EXCEPT ![i] = m] /\ log[i] <= m
    BY <1>3, <2>1
  <2> QED
    BY <1>1, <2>2, GrowthKeeps
<1>12. LinkInv'
  <2>1. sessionId # i
    BY <1>3, NumbersKnown DEF GatewayInv, ResumeInv, None
  <2>2. \A k \in DOMAIN emitted : emitted[k][1] # i
    BY <1>3 DEF GatewayInv, EmittedInv
  <2>3. Follows(f, i, 0, 1)
    BY DEF Follows, None
  <2>4. Reads(i, 0, <<f>>, 1)
    <3> HIDE DEF f
    <3> QED
      BY <1>6, <2>3, ReadsOne
  <2>5. Reads(i, 0, wire', log'[i])
    BY <1>4, <1>6, <2>4
  <2>6. Attached'
    BY <1>1, <1>3, <1>7, <2>1, <2>2, <2>5 DEF Attached, Reads, NoRequest
  <2> QED
    BY <1>1, <1>2, <1>3, <2>6, NumbersKnown DEF LinkInv
<1> QED
  BY <1>8, <1>10, <1>11, <1>12 DEF GatewayInv

\* RESUME is answered with what follows last_seq, or with an invalid session.
LEMMA ResumeKeeps ==
  ASSUME GatewayInv, ResumeSession
  PROVE  GatewayInv'
<1>1. UNCHANGED <<pc, sessionId, lastSeq, backoff, heartbeat, cancelled, emitted, breaks, log, live>>
  BY DEF ResumeSession, client, platform
<1>2. /\ pc = "reading" /\ attached = None /\ wire = <<>> /\ sessionId # None
      /\ request = [op |-> "resume", session |-> sessionId, seq |-> lastSeq]
  BY DEF ResumeSession, GatewayInv, LinkInv, Attached, Unattached
<1>3. /\ sessionId \in Sessions /\ lastSeq \in Nat /\ lastSeq > 0 /\ lastSeq <= log[sessionId]
      /\ log[sessionId] \in Nat
  BY <1>2, NumbersKnown DEF GatewayInv, TypeOK, ResumeInv, None
<1>4. request' = NoRequest
  BY DEF ResumeSession
<1> DEFINE resumed == [kind |-> "resumed", session |-> sessionId, s |-> log[sessionId]]
<1> DEFINE replay == Frames(sessionId, lastSeq) \o <<resumed>>
<1>5. ASSUME sessionId = live
      PROVE  LinkInv' /\ LogInv' /\ wire' \in Seq(Frame) /\ attached' \in Sessions \cup {None}
  <2>1. replay \in Seq(Frame) /\ Reads(sessionId, lastSeq, replay, log[sessionId])
    BY <1>3, ReadsReplay
  <2>2. attached' = sessionId /\ wire' = <<>> \o Frames(sessionId, lastSeq) \o <<resumed>>
    BY <1>2, <1>5 DEF ResumeSession
  <2>3. wire' = replay
    <3>1. Frames(sessionId, lastSeq) \in Seq(Frame)
      BY <1>3, ReadsReplay
    <3> QED
      BY <2>2, <3>1
  <2>4. Attached'
    BY <1>1, <1>4, <2>1, <2>2, <2>3 DEF Attached, Reads, NoRequest
  <2>5. LinkInv'
    BY <1>1, <1>2, <2>2, <2>4 DEF LinkInv
  <2>6. LogInv'
    BY <1>1, <1>2, <1>5, <2>2 DEF GatewayInv, LogInv, Newest
  <2>7. wire' \in Seq(Frame) /\ attached' \in Sessions
    BY <1>3, <2>1, <2>2, <2>3
  <2> QED
    BY <2>5, <2>6, <2>7
<1>6. ASSUME sessionId # live
      PROVE  LinkInv' /\ LogInv' /\ wire' \in Seq(Frame) /\ attached' \in Sessions \cup {None}
  <2>1. wire' = <<Plain("invalid")>> /\ attached' = None
    BY <1>2, <1>6 DEF ResumeSession
  <2>2. LinkInv'
    BY <1>1, <1>2, <1>4, <2>1 DEF LinkInv, Unattached, NoRequest
  <2>3. LogInv'
    BY <1>1, <2>1 DEF GatewayInv, LogInv, Newest
  <2>4. wire' \in Seq(Frame)
    BY <2>1 DEF Plain, Frame, Kinds, None
  <2> QED
    BY <2>1, <2>2, <2>3, <2>4
<1>7. LinkInv' /\ LogInv' /\ wire' \in Seq(Frame) /\ attached' \in Sessions \cup {None}
  BY <1>5, <1>6
<1>8. TypeOK'
  <2>1. TypeOK
    BY DEF GatewayInv
  <2>2. request' \in Requests
    BY <1>4 DEF NoRequest, Requests, None
  <2> QED
    BY <1>1, <1>7, <2>1, <2>2 DEF TypeOK
<1>9. ResumeInv' /\ EmittedInv' /\ OnceInOrder' /\ ResumesWhereItStopped'
  BY <1>1 DEF GatewayInv, ResumeInv, EmittedInv, OnceInOrder, ResumesWhereItStopped
<1> QED
  BY <1>7, <1>8, <1>9 DEF GatewayInv

\* Each action keeps the invariant.
LEMMA StepKeepsGatewayInv == GatewayInv /\ [Next]_vars => GatewayInv'
<1> SUFFICES ASSUME GatewayInv, [Next]_vars PROVE GatewayInv'
  OBVIOUS
<1>1. CASE Read
  <2>1. CASE ReadHello(Head(wire))
    BY <1>1, <2>1, HelloKeeps DEF Read
  <2>2. CASE ReadDispatch(Head(wire))
    BY <1>1, <2>2, DispatchKeeps DEF Read
  <2>3. CASE ReadEnd(Head(wire))
    BY <1>1, <2>3, ReadEndKeeps DEF Read
  <2> QED
    BY <1>1, <2>1, <2>2, <2>3 DEF Read
<1>2. CASE Top \/ Fetch \/ Sleep \/ HeartbeatStops \/ Cancel \/ UNCHANGED vars
  BY <1>2, RunKeeps
<1>3. CASE Dial
  BY <1>3, DialKeeps
<1>4. CASE Break \/ StopReading
  BY <1>4, EndKeeps
<1>5. CASE OpenSession
  BY <1>5, OpenKeeps
<1>6. CASE ResumeSession
  BY <1>6, ResumeKeeps
<1>7. CASE Dispatch
  BY <1>7, PlatformDispatchKeeps
<1>8. CASE Expire \/ CallOff
  BY <1>8, ControlKeeps
<1> QED
  BY <1>1, <1>2, <1>3, <1>4, <1>5, <1>6, <1>7, <1>8 DEF Next, Pump, Gateway

\* So it holds throughout.
LEMMA GatewayKeepsInv == Spec => []GatewayInv
  BY InitGatewayInv, StepKeepsGatewayInv, PTL DEF Spec

\* The type invariant: the backoff stays within its cap and a heartbeat's copy of
\* last_seq is a number, however connections break (qq_bot_ws.rs run).
THEOREM GatewayTypeCorrect == Spec => []TypeOK
<1>1. GatewayInv => TypeOK
  BY DEF GatewayInv
<1> QED
  BY <1>1, GatewayKeepsInv, PTL

\* Over any number of connections, sessions and resumes, an event is emitted at most
\* once and in the order the platform dispatched (qq_bot_ws.rs connect_and_pump).
THEOREM EventsOnceInOrder == Spec => []OnceInOrder
<1>1. GatewayInv => OnceInOrder
  BY DEF GatewayInv
<1> QED
  BY <1>1, GatewayKeepsInv, PTL

\* At any time the events of the session up to last_seq, and no others, have been
\* emitted: a RESUME asks for what is missing, and only for that.
THEOREM ResumeNamesWhatWasEmitted == Spec => []ResumesWhereItStopped
<1>1. GatewayInv => ResumesWhereItStopped
  BY DEF GatewayInv
<1> QED
  BY <1>1, GatewayKeepsInv, PTL
=============================================================================
