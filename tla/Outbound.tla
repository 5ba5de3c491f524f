------------------------------ MODULE Outbound ------------------------------
(***************************************************************************)
(* Messages that go out: send, send_many, reply_to_user, ack_inbound and   *)
(* check_connection of ChannelHub, the registry of templates, and what the *)
(* drivers make of a platform's answer. One call is followed, the Sender's;*)
(* the other callers are calls whose token requests race with it for the   *)
(* cache (TokenCache).                                                     *)
(*                                                                         *)
(* A rendered message is abstracted to the version of the template it came *)
(* from, 0 for render_default.                                             *)
(***************************************************************************)
EXTENDS TokenCache

CONSTANTS
  Sender,       \* the caller that is followed
  Templated,    \* channel types the app's templates are for
  MaxTargets,   \* bound: targets of send_many
  MaxVersions   \* bound: registrations of templates

ASSUME OutboundConstants ==
  /\ Sender \in Callers
  /\ MaxTargets \in Nat \ {0}  \* a reply has one target
  /\ MaxVersions \in Nat

VARIABLES
  templates,  \* the registry: the version of each type's template, 0 if none
  version,    \* the newest registration
  newest,     \* history: the newest registration whose file had the type
  op,         \* "send" (send_many), "reply", "ack" or "check"
  left,       \* targets not yet tried
  at,         \* where the call is
  hand,       \* what it has in hand for the target it is at
  results,    \* how many results there are
  result,     \* "ok" or "err", the last of them
  shown,      \* history: whether the platform has done what was asked
  answer,     \* history: how its answer came, "whole", "cut" off, or "lost"
  size,       \* history: the targets of the call
  since       \* history: newest when the call began

registry == <<templates, version, newest>>
call == <<op, left, at, hand>>
outcome == <<results, result, shown, answer>>
begun == <<size, since>>
ovars == <<vars, registry, call, outcome, begun>>

Drivers == {"dingtalk", "discord", "feishu", "feishu_bot", "qq_bot", "slack",
            "telegram_bot", "webhook", "weclaw", "wecom"}
Types == Drivers \cup {"unknown"}

\* The locals of send and of the driver: the target's type, the version its message
\* was rendered from, and until when the platform accepts the token.
Nothing == [to |-> "unknown", text |-> 0, good |-> 0]

(* ---- what the drivers differ in ---- *)

\* Whether a token is fetched first, the statuses that are a success, and whether a
\* good answer's body is searched for an error code.
Rule(token, statuses, body) == [token |-> token, statuses |-> statuses, body |-> body]
Only200 == {200}
Any2xx == {200, 204}

DingtalkSend == Rule(FALSE, Only200, TRUE)
DiscordSend == Rule(FALSE, Any2xx, FALSE)
FeishuSend == Rule(FALSE, Only200, TRUE)
SlackSend == Rule(FALSE, Any2xx, FALSE)
TelegramSend == Rule(FALSE, Only200, FALSE)
WebhookSend == Rule(FALSE, Any2xx, FALSE)
WecomSend == Rule(FALSE, Only200, TRUE)

\* WeClaw's sends and replies go through a client library, which is taken to judge an
\* answer as the driver's own post_sendmessage does: by the status, then by the body.
WeclawSend == Rule(FALSE, Any2xx, TRUE)

DingtalkReply == Rule(FALSE, Any2xx, TRUE)
DiscordReply == Rule(FALSE, Any2xx, FALSE)
SlackReply == Rule(FALSE, Any2xx, TRUE)

\* Mutant: WeCom's reply looks at the status only.
WecomReply_StatusOnly == Rule(TRUE, Any2xx, FALSE)

WecomReply == Rule(TRUE, Any2xx, TRUE)

\* post_message and post_v2_message, which sends and replies share; Feishu's
\* reaction is judged by its status.
FeishuPost == Rule(TRUE, Only200, TRUE)
QqPost == Rule(TRUE, Only200, TRUE)
FeishuReaction == Rule(TRUE, Only200, FALSE)

\* The rule for a channel type, for the types that have the operation. The two plain
\* webhooks have no inbound half, and Telegram's has no reply_to_user.
SendRule == [dingtalk |-> DingtalkSend, discord |-> DiscordSend, feishu |-> FeishuSend,
             feishu_bot |-> FeishuPost, qq_bot |-> QqPost, slack |-> SlackSend,
             telegram_bot |-> TelegramSend, webhook |-> WebhookSend, weclaw |-> WeclawSend,
             wecom |-> WecomSend]
ReplyRule == [dingtalk |-> DingtalkReply, discord |-> DiscordReply, feishu_bot |-> FeishuPost,
              qq_bot |-> QqPost, slack |-> SlackReply, weclaw |-> WeclawSend, wecom |-> WecomReply]
AckRule == [feishu_bot |-> FeishuReaction]

Rules == CASE op = "send" -> SendRule [] op = "reply" -> ReplyRule [] op = "ack" -> AckRule

\* The hosts check_connection connects to; feishu's and webhook's is their config's
\* URL, if there is one.
Probes(d) == IF d = "qq_bot" THEN 2 ELSE 1
ProbesConfig(d) == d \in {"feishu", "webhook"}

(* ---- the platforms ---- *)

\* Platforms that answer 200 and put their refusal in the body.
RefusesInBody(d) ==
  \/ d \in {"dingtalk", "feishu", "wecom", "feishu_bot", "qq_bot", "weclaw"}
  \/ d = "slack" /\ op = "reply"

Answers(d, accepted) ==
  IF accepted
  THEN [status : IF d \in {"discord", "webhook"} THEN {200, 204} ELSE {200}, code : {0}]
  ELSE [status : IF RefusesInBody(d) THEN {200, 400} ELSE {400}, code : {1}]

-----------------------------------------------------------------------------
OutboundInit ==
  /\ Init
  /\ templates = [d \in Templated |-> 0]
  /\ version = 0
  /\ newest = templates
  /\ op \in {"send", "reply", "ack", "check"}
  /\ left = 0
  /\ at = "idle"
  /\ hand = Nothing
  /\ results = 0
  /\ result = "ok"
  /\ shown = TRUE
  /\ answer = "whole"
  /\ size = 0
  /\ since = templates

\* Mutant: a template that is there already is kept.
Inserted_Keeps(S) == [d \in Templated |-> IF d \in S /\ templates[d] = 0 THEN version + 1 ELSE templates[d]]

\* map.insert for each channel of the file: a type that a newer file leaves out
\* keeps its older template.
Inserted(S) == [d \in Templated |-> IF d \in S THEN version + 1 ELSE templates[d]]

\* register_jsonc_template: the whole file under one lock. Registrations that the
\* call cannot see are left out.
Register(S) ==
  /\ version < MaxVersions
  /\ op = "send" /\ at # "done"
  /\ version' = version + 1
  /\ templates' = Inserted(S)
  /\ newest' = [d \in Templated |-> IF d \in S THEN version' ELSE newest[d]]
  /\ UNCHANGED <<vars, call, outcome, begun>>

Begin ==
  /\ at = "idle"
  /\ at' = "next"
  /\ left' \in IF op = "send" THEN 0..MaxTargets ELSE {1}
  /\ size' = left'
  /\ since' = IF op = "send" THEN newest ELSE since
  /\ UNCHANGED <<vars, registry, op, hand, outcome>>

\* Mutant: send_many stops at the first error.
Settle_Stops(r, seen, how) ==
  /\ results' = results + 1
  /\ result' = r
  /\ shown' = seen
  /\ answer' = how
  /\ hand' = Nothing
  /\ at' = IF r = "err" THEN "done" ELSE "next"

\* The driver has returned r: send_many notes it and goes on, whatever it is.
Settle(r, seen, how) ==
  /\ results' = results + 1
  /\ result' = r
  /\ shown' = seen
  /\ answer' = how
  /\ hand' = Nothing
  /\ at' = "next"

\* A target without a driver, without the operation, with a config or an address
\* that lacks something: the answer is there before anything is asked. Of the
\* acknowledgements all but Feishu's do nothing, and that too without a message id.
TurnedAway(d) ==
  \/ /\ op = "check" => d = "unknown" \/ ProbesConfig(d)
     /\ op = "ack" => d \in {"unknown"} \cup DOMAIN AckRule
     /\ Settle("err", FALSE, "whole")
  \/ op = "ack" /\ d # "unknown" /\ Settle("ok", TRUE, "whole")

\* The message is rendered, by the template found under the lock or by default.
Rendered(d) == IF op = "send" /\ d \in Templated THEN templates[d] ELSE 0

TakeTarget(d) ==
  /\ at = "next"
  /\ left > 0
  /\ left' = left - 1
  /\ \/ TurnedAway(d)
     \/ /\ d \in IF op = "check" THEN Drivers ELSE DOMAIN Rules
        /\ at' = IF op = "check" THEN "probe" ELSE IF Rules[d].token THEN "token" ELSE "post"
        /\ hand' = [Nothing EXCEPT !.to = d, !.text = Rendered(d)]
        /\ UNCHANGED outcome
  /\ UNCHANGED <<vars, registry, op, begun>>

Done ==
  /\ at = "next"
  /\ left = 0
  /\ at' = "done"
  /\ UNCHANGED <<vars, registry, op, left, hand, outcome, begun>>

(* ---- the token: the lookups and requests of TokenCache ---- *)

TakeFromCache ==
  /\ at = "token"
  /\ pc[Sender] = "idle"
  /\ \E e \in cache, k \in Keys : Hit(e, k) /\ hand' = [hand EXCEPT !.good = e.until]
  /\ at' = "post"
  /\ UNCHANGED <<vars, registry, op, left, outcome, begun>>

AskForToken ==
  /\ at = "token"
  /\ \/ \E k \in Keys : Miss(Sender, k)
     \/ \E ttl \in 0..MaxTtl : Issue(Sender, ttl)
  /\ UNCHANGED <<registry, call, outcome, begun>>

TokenFails ==
  /\ Fail(Sender)
  /\ Settle("err", FALSE, "whole")
  /\ UNCHANGED <<registry, op, left, begun>>

\* The call goes on with the token it has fetched, whatever is in the cache by then.
TokenStored ==
  /\ Store(Sender)
  /\ hand' = [hand EXCEPT !.good = reply[Sender].at + reply[Sender].ttl]
  /\ at' = "post"
  /\ UNCHANGED <<registry, op, left, outcome, begun>>

(* ---- the request ---- *)

\* A body that is cut off reads as empty (unwrap_or_default), does not parse, and
\* passes for one without an error code.
Verdict(d, a, how) ==
  IF \/ how = "lost"
     \/ a.status \notin Rules[d].statuses
     \/ Rules[d].body /\ how = "whole" /\ a.code # 0
  THEN "err" ELSE "ok"

Post ==
  /\ at = "post"
  /\ \E accepted \in BOOLEAN, how \in {"whole", "cut", "lost"} :
       /\ accepted /\ Rules[hand.to].token => now < hand.good
       /\ \E a \in Answers(hand.to, accepted) : Settle(Verdict(hand.to, a, how), accepted, how)
  /\ UNCHANGED <<vars, registry, op, left, begun>>

\* check_connection's probes, of which QQ has two: it stops at the first host that
\* refuses or does not answer within the timeout.
Probe ==
  /\ at = "probe"
  /\ \E up \in [1..Probes(hand.to) -> BOOLEAN] :
       LET all == \A i \in DOMAIN up : up[i]
       IN  Settle(IF all THEN "ok" ELSE "err", all, "whole")
  /\ UNCHANGED <<vars, registry, op, left, begun>>

SenderStep ==
  \/ \E d \in Types : TakeTarget(d)
  \/ TakeFromCache \/ AskForToken \/ TokenFails \/ TokenStored
  \/ Post \/ Probe \/ Done

\* The other calls, and time.
TokenStep ==
  /\ \/ \E c \in Callers \ {Sender} :
          \/ \E k \in Keys : Miss(c, k)
          \/ \E ttl \in 0..MaxTtl : Issue(c, ttl)
          \/ Fail(c)
          \/ Store(c)
     \/ Tick
  /\ UNCHANGED <<registry, call, outcome, begun>>

OutboundNext ==
  \/ \E S \in SUBSET Templated : Register(S)
  \/ Begin
  \/ SenderStep
  \/ TokenStep

\* Every request ends: it is answered or fails.
OutboundSpec == OutboundInit /\ [][OutboundNext]_ovars /\ WF_ovars(SenderStep)

-----------------------------------------------------------------------------
\* Each target is accounted for, as one that is left, at hand or has its result.
Accounted == results + left + (IF at \in {"token", "post", "probe"} THEN 1 ELSE 0) = size

\* Types, and: the targets are accounted for; a call holds a token only to post with
\* it.
OutboundTypeOK ==
  /\ TypeOK
  /\ templates \in [Templated -> 0..version] /\ newest \in [Templated -> 0..version]
  /\ version \in 0..MaxVersions
  /\ op \in {"send", "reply", "ack", "check"}
  /\ at \in {"idle", "next", "token", "post", "probe", "done"}
  /\ hand \in [to : Types, text : 0..version, good : Nat]
  /\ hand # Nothing <=> at \in {"token", "post", "probe"}
  /\ hand.good > 0 => at = "post"
  /\ result \in {"ok", "err"} /\ shown \in BOOLEAN /\ answer \in {"whole", "cut", "lost"}
  /\ size \in 0..MaxTargets /\ since \in [Templated -> 0..version]
  /\ Accounted
  /\ pc[Sender] # "idle" => at = "token"

\* What a call reports is what happened: Ok is a message the platform took, unless
\* the body of its answer was cut off, or a reaction, whose body nobody reads; an
\* error is one it did not take, unless its answer was lost.
ReportsTruly ==
  /\ result = "ok" /\ ~shown => answer = "cut" \/ op = "ack"
  /\ result = "err" /\ shown => answer = "lost"

\* A message is rendered from the newest template of its type, or from one that
\* was registered while the call ran, never from one replaced before.
RendersCurrent ==
  at \in {"token", "post"} /\ op = "send" /\ hand.to \in Templated => hand.text >= since[hand.to]

\* Whichever target fails, in whatever way, the call returns and has one result for
\* each: "failures are collected per target".
EveryTargetAnswered == [](at = "next" => <>(at = "done" /\ results = size))
=============================================================================
