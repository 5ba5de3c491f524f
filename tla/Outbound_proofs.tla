--------------------------- MODULE Outbound_proofs ---------------------------
(***************************************************************************)
(* The token caches for any number of calls, credentials, lifetimes and    *)
(* delays: one entry per credentials, and the margin is kept. These are    *)
(* theorems of TokenCache, which Outbound extends.                         *)
(*                                                                         *)
(* A call that goes out uses the token cache as TokenCache says: each step *)
(* of Outbound is a step of TokenCache or leaves its variables alone. So   *)
(* what is proved about the cache holds for the calls that use it.         *)
(*                                                                         *)
(* And of the followed call itself: its targets are accounted for, its     *)
(* messages are rendered from templates no older than the call, and what it*)
(* reports is what the platform did. The inductive invariant is CallInv /\ *)
(* TemplateInv /\ ReportsTruly.                                            *)
(***************************************************************************)
EXTENDS Outbound, TLAPS

(* ---- the token caches ---- *)

\* An answer under way was given in the past, and not too long ago.
Transit ==
  \A c \in Callers : pc[c] = "answered" =>
    reply[c].at <= now /\ now <= reply[c].at + MaxTransit

\* MarginKept is not inductive: a step of the clock needs the whole remaining
\* life of an entry to be accounted for, not only the present moment.
EntryMargin ==
  \A e \in cache : e.expires > now => e.expires + Margin <= e.until + MaxTransit

IInv == TypeOK /\ Transit /\ EntryMargin

LEMMA LifetimeBound ==
  ASSUME NEW ttl \in Nat
  PROVE  /\ Lifetime(ttl) \in Nat
         /\ Lifetime(ttl) = 0 \/ Lifetime(ttl) + Margin = ttl
  BY TimeConstants DEF Lifetime

LEMMA InitInv == Init => IInv
  BY TimeConstants DEF Init, IInv, TypeOK, Transit, EntryMargin, Answer, NoAnswer

LEMMA NextInv == IInv /\ [Next]_vars => IInv'
<1> SUFFICES ASSUME IInv, [Next]_vars PROVE IInv'
  OBVIOUS
<1> USE TimeConstants DEF IInv
<1>1. ASSUME NEW c \in Callers, NEW k \in Keys, Miss(c, k) PROVE IInv'
  BY <1>1 DEF Miss, TypeOK, Transit, EntryMargin
<1>2. ASSUME NEW c \in Callers, NEW ttl \in 0..MaxTtl, Issue(c, ttl) PROVE IInv'
  <2>1. TypeOK'
    BY <1>2 DEF Issue, TypeOK, Answer
  <2>2. Transit'
    BY <1>2 DEF Issue, TypeOK, Answer, Transit
  <2>3. EntryMargin'
    BY <1>2 DEF Issue, EntryMargin
  <2> QED BY <2>1, <2>2, <2>3
<1>3. ASSUME NEW c \in Callers, Fail(c) PROVE IInv'
  BY <1>3 DEF Fail, Returns, TypeOK, Answer, NoAnswer, Transit, EntryMargin
<1>4. ASSUME NEW c \in Callers, Store(c) PROVE IInv'
  <2> DEFINE entry == [key |-> key[c], until |-> reply[c].at + reply[c].ttl,
                       expires |-> now + Lifetime(reply[c].ttl)]
  <2>1. cache' = Without(key[c]) \cup {entry} /\ now' = now /\ key' = key
    BY <1>4 DEF Store
  <2>2. reply[c].at \in Nat /\ reply[c].ttl \in 0..MaxTtl /\ reply[c].ttl \in Nat
    BY DEF TypeOK, Answer
  <2>3. entry \in Entry
    BY <2>2, LifetimeBound DEF TypeOK, Entry
  <2>4. TypeOK'
    BY <1>4, <2>1, <2>3 DEF Store, Returns, TypeOK, Answer, NoAnswer, Without
  <2>5. Transit'
    BY <1>4 DEF Store, Returns, Transit, TypeOK
  <2>6. entry.expires > now => entry.expires + Margin <= entry.until + MaxTransit
    <3>1. now <= reply[c].at + MaxTransit
      BY <1>4 DEF Store, Transit
    <3>2. Lifetime(reply[c].ttl) \in Nat
          /\ (Lifetime(reply[c].ttl) = 0 \/ Lifetime(reply[c].ttl) + Margin = reply[c].ttl)
      BY <2>2, LifetimeBound
    <3> QED BY <2>2, <3>1, <3>2 DEF TypeOK
  <2>7. EntryMargin'
    BY <2>1, <2>6 DEF EntryMargin, Without
  <2> QED BY <2>4, <2>5, <2>7
<1>5. CASE Tick
  <2>1. TypeOK'
    BY <1>5 DEF Tick, TypeOK
  <2>2. Transit'
    BY <1>5 DEF Tick, TypeOK, Answer, Transit
  <2>3. EntryMargin'
    BY <1>5 DEF Tick, TypeOK, Entry, EntryMargin
  <2> QED BY <2>1, <2>2, <2>3
<1>6. CASE UNCHANGED vars
  BY <1>6 DEF vars, TypeOK, Transit, EntryMargin
<1> QED BY <1>1, <1>2, <1>3, <1>4, <1>5, <1>6 DEF Next

LEMMA InvMargin == IInv => MarginKept
  BY TimeConstants DEF IInv, TypeOK, Entry, EntryMargin, MarginKept, Hit

\* Every reachable state has well-typed state.
THEOREM TypeCorrect == Spec => []TypeOK
<1>1. IInv => TypeOK
  BY DEF IInv
<1> QED BY InitInv, NextInv, <1>1, PTL DEF Spec

\* A token handed out by the cache keeps the margin, less the time its answer
\* was under way, for any number of calls that store in any order.
THEOREM MarginAlwaysKept == Spec => []MarginKept
  BY InitInv, NextInv, InvMargin, PTL DEF Spec

\* Overlapping calls for the same credentials leave one entry for them.
THEOREM OneEntry == Spec => []OneEntryPerKey
<1>1. Init => OneEntryPerKey
  BY DEF Init, OneEntryPerKey
<1>2. OneEntryPerKey /\ [Next]_vars => OneEntryPerKey'
  <2> SUFFICES ASSUME OneEntryPerKey, [Next]_vars PROVE OneEntryPerKey'
    OBVIOUS
  <2>1. ASSUME NEW c \in Callers, Store(c) PROVE OneEntryPerKey'
    BY <2>1 DEF Store, Without, OneEntryPerKey
  <2>2. CASE UNCHANGED cache
    BY <2>2 DEF OneEntryPerKey
  <2> QED BY <2>1, <2>2 DEF Next, Miss, Issue, Fail, Tick, vars
<1> QED BY <1>1, <1>2, PTL DEF Spec

-----------------------------------------------------------------------------
(* ---- the call that goes out ---- *)


\* The followed call is one of the callers; of its steps those of the token are
\* TokenCache's, and the others do not touch the cache.
LEMMA OutboundStepIsTokenStep == [OutboundNext]_ovars => [Next]_vars
<1> SUFFICES ASSUME [OutboundNext]_ovars PROVE [Next]_vars
  OBVIOUS
<1>1. Sender \in Callers
  BY OutboundConstants
<1>2. CASE UNCHANGED ovars
  BY <1>2 DEF ovars
<1>3. CASE \E S \in SUBSET Templated : Register(S)
  BY <1>3 DEF Register
<1>4. CASE Begin
  BY <1>4 DEF Begin
<1>5. CASE TokenStep
  BY <1>5 DEF TokenStep, Next
<1>6. CASE SenderStep
  <2>1. CASE \E d \in Types : TakeTarget(d)
    BY <2>1 DEF TakeTarget
  <2>2. CASE TakeFromCache
    BY <2>2 DEF TakeFromCache
  <2>3. CASE AskForToken \/ TokenFails \/ TokenStored
    BY <1>1, <2>3 DEF AskForToken, TokenFails, TokenStored, Next
  <2>4. CASE Post \/ Probe \/ Done
    BY <2>4 DEF Post, Probe, Done
  <2> QED
    BY <1>6, <2>1, <2>2, <2>3, <2>4 DEF SenderStep
<1> QED
  BY <1>2, <1>3, <1>4, <1>5, <1>6 DEF OutboundNext

\* The specification of a call implies the cache's.
LEMMA OutboundIsTokenSpec == OutboundSpec => Spec
<1>1. OutboundInit => Init
  BY DEF OutboundInit
<1> QED
  BY <1>1, OutboundStepIsTokenStep, PTL DEF OutboundSpec, Spec

\* A cached token keeps its margin for any calls that send, reply or acknowledge
\* through the hub beside others, with any targets and templates.
THEOREM OutboundKeepsMargin == OutboundSpec => []MarginKept
  BY OutboundIsTokenSpec, MarginAlwaysKept, PTL

-----------------------------------------------------------------------------
\* The types are not inductive: that nothing has come out before the call begins,
\* and that a request is for a driver that has the operation, are needed with them.
CallInv ==
  /\ OutboundTypeOK
  /\ results \in Nat /\ left \in Nat
  /\ at = "idle" => results = 0
  /\ at \in {"token", "post"} => op # "check" /\ hand.to \in DOMAIN Rules

\* The registry has what was registered last, and a call sees it or something newer.
TemplateInv ==
  /\ templates = newest
  /\ \A d \in Templated : since[d] <= newest[d]
  /\ RendersCurrent

\* The types that have an operation are types of drivers.
LEMMA RuledDrivers ==
  ASSUME op \in {"send", "reply", "ack"}
  PROVE  DOMAIN Rules \subseteq Drivers
<1>1. CASE op = "send"
  BY <1>1 DEF Rules, SendRule, Drivers
<1>2. CASE op = "reply"
  BY <1>2 DEF Rules, ReplyRule, Drivers
<1>3. CASE op = "ack"
  BY <1>3 DEF Rules, AckRule, Drivers
<1> QED
  BY <1>1, <1>2, <1>3

\* What a driver makes of an answer, over the drivers' rules and the platforms'
\* habits: a platform that refuses in the body of a 200 is asked by a driver that
\* reads bodies, except for a reaction, and no driver calls a good answer an error.
LEMMA VerdictsTrue ==
  ASSUME op \in {"send", "reply", "ack"},
         NEW d \in DOMAIN Rules,
         NEW accepted \in BOOLEAN,
         NEW how \in {"whole", "cut", "lost"},
         NEW a \in Answers(d, accepted)
  PROVE  /\ Verdict(d, a, how) = "ok" /\ ~accepted => how = "cut" \/ op = "ack"
         /\ Verdict(d, a, how) = "err" /\ accepted => how = "lost"
<1>1. CASE accepted
  <2>1. a.code = 0 /\ a.status \in {200, 204} /\ (d \notin {"discord", "webhook"} => a.status = 200)
    BY <1>1 DEF Answers
  <2>2. a.status \in Rules[d].statuses
    <3>1. CASE op = "send"
      BY <3>1, <2>1 DEF Rules, SendRule, Rule, Only200, Any2xx, DingtalkSend, DiscordSend, FeishuSend, FeishuPost, QqPost, SlackSend, TelegramSend, WebhookSend, WeclawSend, WecomSend
    <3>2. CASE op = "reply"
      BY <3>2, <2>1 DEF Rules, ReplyRule, Rule, Only200, Any2xx, DingtalkReply, DiscordReply, FeishuPost, QqPost, SlackReply, WeclawSend, WecomReply
    <3>3. CASE op = "ack"
      BY <3>3, <2>1 DEF Rules, AckRule, Rule, Only200, FeishuReaction
    <3> QED
      BY <3>1, <3>2, <3>3
  <2> QED
    BY <1>1, <2>1, <2>2 DEF Verdict
<1>2. CASE ~accepted
  <2>1. /\ a.code = 1
        /\ a.status = 400 \/ (a.status = 200 /\ RefusesInBody(d))
    BY <1>2 DEF Answers
  <2>2. 400 \notin Rules[d].statuses /\ (RefusesInBody(d) => Rules[d].body \/ op = "ack")
    <3>1. CASE op = "send"
      BY <3>1 DEF RefusesInBody, Rules, SendRule, Rule, Only200, Any2xx, DingtalkSend, DiscordSend, FeishuSend, FeishuPost, QqPost, SlackSend, TelegramSend, WebhookSend, WeclawSend, WecomSend
    <3>2. CASE op = "reply"
      BY <3>2 DEF RefusesInBody, Rules, ReplyRule, Rule, Only200, Any2xx, DingtalkReply, DiscordReply, FeishuPost, QqPost, SlackReply, WeclawSend, WecomReply
    <3>3. CASE op = "ack"
      BY <3>3 DEF Rules, AckRule, Rule, Only200, FeishuReaction
    <3> QED
      BY <3>1, <3>2, <3>3
  <2> QED
    BY <1>2, <2>1, <2>2 DEF Verdict
<1> QED
  BY <1>1, <1>2

\* Rules depends on op only, which a call keeps.
LEMMA SameRules == ASSUME op' = op PROVE Rules' = Rules
  BY DEF Rules, SendRule, ReplyRule, AckRule

\* A call begins with nothing at hand.
LEMMA InitCall == OutboundInit => CallInv
<1> SUFFICES ASSUME OutboundInit PROVE CallInv
  OBVIOUS
<1>1. TypeOK
  BY InitInv DEF OutboundInit, IInv
<1>2. pc[Sender] = "idle"
  BY OutboundConstants DEF OutboundInit, Init
<1>3. Accounted
  BY DEF OutboundInit, Accounted
<1> QED
  BY <1>1, <1>2, <1>3, OutboundConstants DEF OutboundInit, CallInv, OutboundTypeOK, Nothing, Types, Drivers

\* Registering a template changes nothing of a call but the versions it may name.
LEMMA RegisterKeepsCall ==
  ASSUME CallInv, NEW S \in SUBSET Templated, Register(S)
  PROVE  CallInv'
<1>1. TypeOK'
  BY DEF CallInv, OutboundTypeOK, Register, vars, TypeOK
<1>2. /\ version' \in 0..MaxVersions
      /\ \A n \in 0..version : n \in 0..version'
      /\ version + 1 \in 0..version'
  BY OutboundConstants DEF CallInv, OutboundTypeOK, Register
<1>3. templates' \in [Templated -> 0..version'] /\ newest' \in [Templated -> 0..version']
  BY <1>2 DEF CallInv, OutboundTypeOK, Register, Inserted
<1>4. since' \in [Templated -> 0..version'] /\ hand' \in [to : Types, text : 0..version', good : Nat]
  BY <1>2 DEF CallInv, OutboundTypeOK, Register, begun, call
<1>5. UNCHANGED <<pc, call, outcome, begun, Rules>>
  BY SameRules DEF Register, vars, call
<1>6. Accounted'
  BY <1>5 DEF CallInv, OutboundTypeOK, Accounted, call, outcome, begun
<1> QED
  BY <1>1, <1>2, <1>3, <1>4, <1>5, <1>6
  DEF CallInv, OutboundTypeOK, begun, call, outcome, Nothing

\* The targets of a call that begins are all left.
LEMMA BeginKeepsCall ==
  ASSUME CallInv, Begin
  PROVE  CallInv'
<1>1. TypeOK'
  BY DEF CallInv, OutboundTypeOK, Begin, vars, TypeOK
<1>2. hand = Nothing /\ results = 0
  BY DEF CallInv, OutboundTypeOK, Begin
<1>3. left' \in 0..MaxTargets
  BY OutboundConstants DEF Begin
<1>4. Accounted'
  <2>1. results' = 0 /\ size' = left' /\ at' = "next"
    BY <1>2 DEF Begin, outcome
  <2>2. \A n \in 0..MaxTargets : 0 + n + 0 = n
    BY OutboundConstants
  <2> QED
    BY <1>3, <2>1, <2>2, Zenon DEF Accounted
<1> QED
  BY <1>1, <1>2, <1>3, <1>4, OutboundConstants
  DEF CallInv, OutboundTypeOK, Begin, registry, outcome, vars, Nothing

\* A result takes the place of the target at hand, or of one that was left.
LEMMA SettleKeepsCall ==
  ASSUME CallInv, TypeOK',
         NEW r \in {"ok", "err"}, NEW seen \in BOOLEAN, NEW how \in {"whole", "cut", "lost"},
         Settle(r, seen, how),
         UNCHANGED <<registry, op, begun>>,
         left' \in Nat,
         left' = IF at \in {"token", "post", "probe"} THEN left ELSE left - 1,
         pc'[Sender] = "idle"
  PROVE  CallInv'
<1>1. hand' = Nothing /\ Nothing \in [to : Types, text : 0..version, good : Nat]
  BY DEF CallInv, OutboundTypeOK, Settle, Nothing, Types
<1>4. results' \in Nat /\ results' + left' = size
  <2>1. CASE at \in {"token", "post", "probe"}
    BY <2>1 DEF CallInv, OutboundTypeOK, Accounted, Settle
  <2>2. CASE at \notin {"token", "post", "probe"}
    BY <2>2 DEF CallInv, OutboundTypeOK, Accounted, Settle
  <2> QED
    BY <2>1, <2>2
<1>5. at' = "next" /\ version' = version /\ size' = size
  BY DEF Settle, registry, begun
<1>6. Accounted'
  BY <1>4, <1>5 DEF Accounted
<1>7. OutboundTypeOK'
  BY <1>1, <1>5, <1>6 DEF CallInv, OutboundTypeOK, Settle, registry, begun, Nothing
<1> QED
  BY <1>4, <1>5, <1>7 DEF CallInv

\* A target is turned away, or taken in hand, for a request the driver has.
LEMMA TakeTargetKeepsCall ==
  ASSUME CallInv, NEW d \in Types, TakeTarget(d)
  PROVE  CallInv'
<1>1. TypeOK' /\ pc' = pc /\ pc[Sender] = "idle"
  BY DEF CallInv, OutboundTypeOK, TakeTarget, vars, TypeOK
<1>2. left' \in Nat /\ left' = left - 1 /\ at = "next"
  BY DEF CallInv, TakeTarget
<1>3. CASE TurnedAway(d)
  <2>1. PICK r \in {"ok", "err"}, seen \in BOOLEAN : Settle(r, seen, "whole")
    BY <1>3 DEF TurnedAway
  <2> QED
    BY <2>1, <1>1, <1>2, SettleKeepsCall DEF TakeTarget
<1>4. CASE ~TurnedAway(d)
  <2>1. /\ d \in IF op = "check" THEN Drivers ELSE DOMAIN Rules
        /\ at' = IF op = "check" THEN "probe" ELSE IF Rules[d].token THEN "token" ELSE "post"
        /\ hand' = [to |-> d, text |-> Rendered(d), good |-> 0]
        /\ UNCHANGED <<outcome, registry, op, begun>>
    BY <1>4 DEF TakeTarget, Nothing
  <2>2. d # "unknown"
    BY <2>1, RuledDrivers DEF CallInv, OutboundTypeOK, Drivers
  <2>3. Rendered(d) \in 0..version
    BY DEF CallInv, OutboundTypeOK, Rendered
  <2>4. hand' \in [to : Types, text : 0..version, good : Nat] /\ hand' # Nothing /\ hand'.good = 0 /\ hand'.to = d
    BY <2>1, <2>2, <2>3 DEF Nothing
  <2>5. at' \in {"probe", "token", "post"} /\ (at' # "probe" => op # "check" /\ d \in DOMAIN Rules)
    BY <2>1
  <2>6. Accounted'
    BY <1>2, <2>1 DEF CallInv, OutboundTypeOK, Accounted, TakeTarget, outcome, begun
  <2> QED
    BY <1>1, <1>2, <2>1, <2>4, <2>5, <2>6, SameRules
    DEF CallInv, OutboundTypeOK, TakeTarget, registry, outcome, begun
<1> QED
  BY <1>3, <1>4

\* While the token is had, the target in hand stays the same.
LEMMA TokenKeepsCall ==
  ASSUME CallInv, TypeOK', TakeFromCache \/ AskForToken \/ TokenStored
  PROVE  CallInv'
<1>1. /\ at = "token" /\ at' \in {"token", "post"}
      /\ UNCHANGED <<registry, op, left, outcome, begun>>
      /\ at' = "post" => pc'[Sender] = "idle"
  BY OutboundConstants DEF TakeFromCache, AskForToken, TokenStored, Store, Returns, call, vars, CallInv, OutboundTypeOK, TypeOK
<1>2. /\ hand' \in [to : Types, text : 0..version, good : Nat] /\ hand'.to = hand.to
      /\ at' = "token" => hand' = hand
  <2>1. CASE TakeFromCache
    BY <2>1 DEF TakeFromCache, CallInv, OutboundTypeOK, TypeOK, Entry
  <2>2. CASE AskForToken
    BY <2>2 DEF AskForToken, call, CallInv, OutboundTypeOK
  <2>3. CASE TokenStored
    BY <2>3, OutboundConstants, TimeConstants DEF TokenStored, CallInv, OutboundTypeOK, TypeOK, Answer
  <2> QED
    BY <2>1, <2>2, <2>3
<1>4. Accounted'
  BY <1>1 DEF CallInv, OutboundTypeOK, Accounted, outcome, begun
<1>3. hand.to # "unknown"
  BY <1>1, RuledDrivers DEF CallInv, OutboundTypeOK, Drivers
<1> QED
  BY <1>1, <1>2, <1>3, <1>4, SameRules
  DEF CallInv, OutboundTypeOK, registry, outcome, begun, Nothing

\* A token that cannot be had, an answer and a probe each end a target.
LEMMA EndKeepsCall ==
  ASSUME CallInv, TypeOK', TokenFails \/ Post \/ Probe
  PROVE  CallInv'
<1>1. /\ at \in {"token", "post", "probe"}
      /\ UNCHANGED <<registry, op, left, begun>>
      /\ pc'[Sender] = "idle"
  BY OutboundConstants DEF TokenFails, Post, Probe, Fail, Returns, vars, CallInv, OutboundTypeOK, TypeOK
<1>2. PICK r \in {"ok", "err"}, seen \in BOOLEAN, how \in {"whole", "cut", "lost"} : Settle(r, seen, how)
  BY DEF TokenFails, Post, Probe, Verdict
<1> QED
  BY <1>1, <1>2, SettleKeepsCall DEF CallInv

\* Done, the other calls and time leave the followed call where it is, or end it.
LEMMA RestKeepsCall ==
  ASSUME CallInv, TypeOK', Done \/ TokenStep \/ UNCHANGED ovars
  PROVE  CallInv'
<1>1. UNCHANGED <<registry, op, left, hand, outcome, begun>> /\ pc'[Sender] = pc[Sender]
  BY OutboundConstants
  DEF Done, TokenStep, call, vars, ovars, Miss, Issue, Fail, Store, Returns, Tick, CallInv, OutboundTypeOK, TypeOK
<1>2. at' = at \/ (at = "next" /\ at' = "done")
  BY DEF Done, TokenStep, call, ovars
<1>3. Accounted'
  BY <1>1, <1>2 DEF CallInv, OutboundTypeOK, Accounted, outcome, begun
<1>4. Rules' = Rules
  BY <1>1, SameRules
<1> QED
  BY <1>1, <1>2, <1>3, <1>4 DEF CallInv, OutboundTypeOK, registry, outcome, begun, Nothing

\* Every step.
LEMMA StepKeepsCall ==
  ASSUME CallInv, TypeOK', [OutboundNext]_ovars
  PROVE  CallInv'
BY RegisterKeepsCall, BeginKeepsCall, TakeTargetKeepsCall, TokenKeepsCall, EndKeepsCall, RestKeepsCall
DEF OutboundNext, SenderStep

\* The newest registration of a type only moves on, the registry has it, and a
\* message is rendered from the registry after the call began.
LEMMA StepKeepsTemplates ==
  ASSUME CallInv, TemplateInv, [OutboundNext]_ovars
  PROVE  TemplateInv'
<1>1. \A d \in Templated : newest[d] \in Nat /\ newest[d] <= version /\ version \in Nat
  BY OutboundConstants DEF CallInv, OutboundTypeOK
<1>2. CASE \E S \in SUBSET Templated : Register(S)
  <2>1. PICK S \in SUBSET Templated : Register(S)
    BY <1>2
  <2>2. templates' = newest'
    BY <2>1 DEF TemplateInv, Register, Inserted
  <2>3. UNCHANGED <<since, at, op, hand>>
    BY <2>1 DEF Register, call, begun
  <2>4. \A d \in Templated : since'[d] <= newest'[d]
    <3> SUFFICES ASSUME NEW d \in Templated PROVE since[d] <= newest'[d]
      BY <2>3
    <3>1. since[d] <= newest[d] /\ since[d] \in Nat
      BY OutboundConstants DEF TemplateInv, CallInv, OutboundTypeOK
    <3>2. newest'[d] \in {version + 1, newest[d]}
      BY <2>1 DEF Register
    <3> QED
      BY <1>1, <3>1, <3>2
  <2> QED
    BY <2>2, <2>3, <2>4 DEF TemplateInv, RendersCurrent
<1>3. CASE Begin
  <2>1. UNCHANGED <<templates, newest, hand, op>> /\ at' = "next" /\ since' \in {newest, since}
    BY <1>3 DEF Begin, registry
  <2>2. \A d \in Templated : since'[d] <= newest'[d]
    BY <1>1, <2>1 DEF TemplateInv
  <2> QED
    BY <2>1, <2>2 DEF TemplateInv, RendersCurrent
<1>4. CASE \E d \in Types : TakeTarget(d)
  <2>1. PICK d \in Types : TakeTarget(d)
    BY <1>4
  <2>2. UNCHANGED <<templates, newest, since, op>>
    BY <2>1 DEF TakeTarget, registry, begun
  <2>3. at' \in {"next", "probe"} \/ hand' = [to |-> d, text |-> Rendered(d), good |-> 0]
    BY <2>1 DEF TakeTarget, TurnedAway, Settle, Nothing
  <2>4. op = "send" /\ d \in Templated => Rendered(d) >= since[d]
    BY <1>1 DEF Rendered, TemplateInv, CallInv, OutboundTypeOK
  <2>5. RendersCurrent'
    BY <2>2, <2>3, <2>4 DEF RendersCurrent
  <2> QED
    BY <2>2, <2>5 DEF TemplateInv
<1>5. CASE TokenFails \/ Post \/ Probe \/ Done
  BY <1>5 DEF TokenFails, Post, Probe, Done, Settle, registry, begun, TemplateInv, RendersCurrent
<1>6. CASE TakeFromCache \/ AskForToken \/ TokenStored \/ TokenStep \/ UNCHANGED ovars
  <2>1. UNCHANGED <<templates, newest, since, op>>
    BY <1>6 DEF TakeFromCache, AskForToken, TokenStored, TokenStep, ovars, registry, begun, call
  <2>2. hand'.to = hand.to /\ hand'.text = hand.text /\ (at' \in {"token", "post"} => at \in {"token", "post"})
    <3>1. CASE TakeFromCache
      BY <3>1 DEF TakeFromCache, CallInv, OutboundTypeOK
    <3>3. CASE TokenStored
      <4>1. at = "token"
        BY <3>3 DEF TokenStored, Store, CallInv, OutboundTypeOK
      <4> QED
        BY <3>3, <4>1 DEF TokenStored, CallInv, OutboundTypeOK
    <3>2. CASE AskForToken \/ TokenStep \/ UNCHANGED ovars
      BY <3>2 DEF AskForToken, TokenStep, ovars, call
    <3> QED
      BY <1>6, <3>1, <3>2, <3>3
  <2> QED
    BY <2>1, <2>2 DEF TemplateInv, RendersCurrent
<1> QED
  BY <1>2, <1>3, <1>4, <1>5, <1>6 DEF OutboundNext, SenderStep

\* A result is made in three places: before anything is asked, when the token could
\* not be had, and from the platform's answer.
LEMMA StepReportsTruly ==
  ASSUME CallInv, ReportsTruly, [OutboundNext]_ovars
  PROVE  ReportsTruly'
<1>1. CASE \E S \in SUBSET Templated : Register(S)
  BY <1>1 DEF Register, outcome, call, ReportsTruly
<1>2. CASE Begin \/ Done \/ TakeFromCache \/ AskForToken \/ TokenStored \/ TokenStep \/ UNCHANGED ovars
  BY <1>2 DEF Begin, Done, TakeFromCache, AskForToken, TokenStored, TokenStep, ovars, outcome, call, ReportsTruly
<1>3. CASE \E d \in Types : TakeTarget(d)
  BY <1>3 DEF TakeTarget, TurnedAway, Settle, outcome, ReportsTruly
<1>4. CASE TokenFails \/ Probe
  BY <1>4 DEF TokenFails, Probe, Settle, ReportsTruly
<1>5. CASE Post
  <2>1. PICK accepted \in BOOLEAN, how \in {"whole", "cut", "lost"} :
          \E a \in Answers(hand.to, accepted) : Settle(Verdict(hand.to, a, how), accepted, how)
    BY <1>5 DEF Post
  <2>2. PICK a \in Answers(hand.to, accepted) : Settle(Verdict(hand.to, a, how), accepted, how)
    BY <2>1
  <2>3. op \in {"send", "reply", "ack"} /\ op' = op /\ hand.to \in DOMAIN Rules
    BY <1>5 DEF Post, CallInv, OutboundTypeOK
  <2>4. result' = Verdict(hand.to, a, how) /\ shown' = accepted /\ answer' = how
    BY <2>2 DEF Settle
  <2> QED
    BY <2>3, <2>4, VerdictsTrue DEF ReportsTruly
<1> QED
  BY <1>1, <1>2, <1>3, <1>4, <1>5 DEF OutboundNext, SenderStep

\* They hold together throughout.
LEMMA OutboundInvariants == OutboundSpec => [](CallInv /\ TemplateInv /\ ReportsTruly)
<1>1. OutboundInit => CallInv /\ TemplateInv /\ ReportsTruly
  <2>1. OutboundInit => TemplateInv
    BY DEF OutboundInit, TemplateInv, RendersCurrent
  <2>2. OutboundInit => ReportsTruly
    BY DEF OutboundInit, ReportsTruly
  <2> QED
    BY <2>1, <2>2, InitCall
<1>2. /\ CallInv /\ TemplateInv /\ ReportsTruly
      /\ TypeOK'
      /\ [OutboundNext]_ovars
      => (CallInv /\ TemplateInv /\ ReportsTruly)'
  BY StepKeepsCall, StepKeepsTemplates, StepReportsTruly
<1> QED
  BY <1>1, <1>2, OutboundIsTokenSpec, TypeCorrect, PTL DEF OutboundSpec

\* Types, and the bookkeeping of send_many (hub.rs): at any time the results, the
\* target at hand and those that are left make up the targets of the call.
THEOREM OutboundTypeCorrect == OutboundSpec => []OutboundTypeOK
<1>1. CallInv => OutboundTypeOK
  BY DEF CallInv
<1> QED
  BY <1>1, OutboundInvariants, PTL

\* However registrations fall into a call, a message is never rendered from a
\* template that was replaced before the call began (hub.rs, register_jsonc_template
\* and send share one lock).
THEOREM AlwaysRendersCurrent == OutboundSpec => []RendersCurrent
<1>1. TemplateInv => RendersCurrent
  BY DEF TemplateInv
<1> QED
  BY <1>1, OutboundInvariants, PTL

\* For every driver and operation the result a call reports is what the platform did,
\* but for an answer that was cut off or lost and for reactions.
THEOREM AlwaysReportsTruly == OutboundSpec => []ReportsTruly
  BY OutboundInvariants, PTL
=============================================================================
