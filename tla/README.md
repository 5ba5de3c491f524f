# TLA+ models of tokimo-package-channel

`tokimo-package-channel` is a Rust crate that sends notifications to chat
platforms and receives messages from them. An application holds one
`ChannelHub`; ten drivers translate between the hub and the platforms. This
directory holds TLA+ modules for the parts of the crate whose correctness
depends on order, concurrency or failure, the TLC runs that check them, and
TLAPS proofs about the core.

Line numbers below and in the modules are those of `src/src/...`.

## 1. Inventory

| Part | Source | State it keeps | Operations |
|---|---|---|---|
| Hub: activation | `hub.rs`, `inbound.rs` | `active: Mutex<HashMap<Uuid, ActiveChannel>>`, one optional `PumpHandle` per channel | `activate`, `deactivate` |
| Hub: dispatch | `hub.rs`, `direction.rs`, `capability.rs`, `driver/mod.rs` | driver table (immutable), template table | `send`, `send_many`, `dispatch_webhook`, `ack_inbound`, `reply_*`, `check_connection`, `register_jsonc_template` |
| Inbound events | `inbound.rs`, `hub.rs` | tokio broadcast channel of 512 events | `InboundEmitter::send`, `subscribe_inbound` |
| Config write-back | `config_store.rs` | the application's store, per channel | `ConfigWriter::write` |
| Access tokens | `qq_bot.rs`, `wecom.rs`, `feishu_bot.rs`, `feishu_bot_ws.rs` | a mutex-guarded cache per driver | check, fetch without the lock, store |
| QQ Bot: reply streams | `driver/qq_bot.rs` | `reply_sessions`: one stream slot per inbound message | `stream_c2c_chunk`, `purge_expired` |
| Streaming replies | `driver/qq_bot.rs`, `driver/feishu_bot.rs`, `inbound.rs` | pending chunk, last text, throttle, card sequence | `reply_to_user_streaming`, `stream_card_updates` |
| QQ Bot: uploads | `driver/qq_bot.rs` | upload id, offset, attempt counters | `qq_upload_chunked_bytes` and its helpers |
| QQ gateway | `driver/qq_bot_ws.rs` | `session_id`, `last_seq`, backoff, heartbeat task | `run`, `connect_and_pump` |
| Discord gateway | `driver/discord_ws.rs` | `seq`, identified flag, heartbeat task, backoff | `run`, `connect_and_pump` |
| Slack and DingTalk sockets | `driver/slack_ws.rs`, `driver/dingtalk_ws.rs` | backoff, one connection | `run`, `handle_envelope`, `handle_frame` |
| Feishu socket | `driver/feishu_bot_ws.rs` | `Reassembler.pending`, bot id cache, token cache | `run`, `connect_and_pump`, `handle_binary` |
| Telegram polling | `driver/telegram_bot.rs` | `offset` (in memory) | `start_pump` |
| WeClaw polling | `driver/weclaw.rs` | credentials and cursor (memory and store) | `start_pump`, uploads |
| WeCom callback | `driver/wecom.rs` | none | `parse_webhook` |
| Outbound senders | `driver/{slack,discord,dingtalk,feishu,webhook}.rs` | none | `send`, `reply_to_user`, `reply_file_to_user` |
| Files | `file.rs` | none | `resolve_to_bytes` |
| Templates | `template/*.rs` | none | `ChannelTemplate::render`, `expand_each`, `eval_if`, the built-in renderers |

**How they interact.** The application calls the hub from any thread. The hub
looks the driver up and calls it; for `activate` the driver spawns a pump task
that owns a clone of the broadcast sender and a `ConfigWriter`, and the hub
keeps the pump's cancellation token. Pumps talk to their platform over a
WebSocket or by polling and emit `InboundEvent`s; the application answers an
event through `reply_to_user_streaming`, feeding chunks of growing text through
an mpsc channel into the driver.

**What is hard.** Locks are released around every await, so the check and the
use of a token, a stream slot or an active channel may be separated by another
thread's step. Platforms lose, repeat and delay answers. Pumps reconnect, resume
and are cancelled at any point. Cursors are kept in memory or saved before the
messages they cover are delivered, and a pump that was told to stop is not waited
for: its successor runs beside it. Every driver has its own reading of a platform's
answer, for each of its operations.

**What makes each part correct.**

- *Activation*: a pump handle has one owner; what the map shows as active was
  never told to stop; used serially, a channel has at most one live pump, no pump
  escapes the map, and a deactivated channel falls silent.
- *Reloads*: two generations of a pump do not pass over a message, and the old one
  writes its config over an edited one only while it finishes its batch.
- *Outgoing calls*: each target has its result, which is what happened to its
  message; a message is rendered from no template that was already replaced.
- *Reply streams*: no two chunks share a stream and an index; messages and
  replies in turn do not mix; a reply is one bubble and names its own; a stream that
  was purged does not come back.
- *Streaming replies*: whatever is coalesced, throttled or lost, a reply that
  ends well shows the whole text on a closed stream, sends nothing after the
  close, and returns.
- *Tokens*: one entry per credentials; a token handed out is still accepted.
- *Pumps*: what the platform will not send again was handled; nothing is emitted
  twice or out of order without the platform's having sent it again; the state a
  reconnect resumes from is exactly what was emitted; pumps recover, and stop
  when cancelled, with the heartbeats beside them.
- *File replies*: a file is announced once and only when the platform has all of
  it; `Ok` means it was; an upload whose plan can be followed fails only for a
  request that failed.
- *Templates*: the three textual passes render what the template means, the
  built-in renderers agree with the example template, and rendering ends.

## 2. Modules

| Module | Models | Kind |
|---|---|---|
| `PumpSlots` | what a user of the hub relies on | abstract |
| `ChannelHub` | activation in `hub.rs` | component, refines `PumpSlots` when used serially |
| `HubReload` | the hub with the poll pumps and the config store behind it | composition, refines `ChannelHub` and `PumpSlots` |
| `HubReload_proofs` | theorems about it and about `ChannelHub` | proofs |
| `QqStream` | `stream_c2c_chunk` and `purge_expired` of `qq_bot.rs` | component |
| `QqStream_proofs` | theorems about it | proofs |
| `StreamedReply` | what a streamed reply promises | abstract |
| `ChunkFeed` | the chunk channel and the coalescing loop | shared part |
| `QqReply`, `FeishuCard`, `OneShotReply` | what each driver sends at a flush and at the end | components over `ChunkFeed` |
| `ReplyDrivers` | the three of them behind the hub's call | composition, refines `StreamedReply` |
| `ReplyDrivers_proofs` | theorems about it | proofs |
| `TokenCache` | the four token caches | component |
| `Outbound` | the hub's outgoing calls, the template registry and the ten drivers' verdicts | composition over `TokenCache` |
| `Outbound_proofs` | theorems about it and about `TokenCache` | proofs |
| `TemplateEngine` | `json_template.rs` and the registry's rendering | component |
| `Templates` | what a template means, as a tree | reference definition |
| `Templates_proofs` | theorems about it and about `TemplateEngine` | proofs |
| `QqGateway` | `qq_bot_ws.rs` with the platform's sessions | component |
| `QqGateway_proofs` | theorems about it | proofs |
| `InboundFeed` | messages, events and the task of a pump | shared part |
| `SocketPump` | `discord_ws.rs`, `slack_ws.rs`, `dingtalk_ws.rs`, `feishu_bot_ws.rs` | component over `InboundFeed` |
| `LongPoll` | the polling pumps of `telegram_bot.rs` and `weclaw.rs` | component over `InboundFeed` |
| `WebhookInbound` | `dispatch_webhook` with WeCom's `parse_webhook` | component over `InboundFeed` |
| `InboundPumps` | the three behind the hub, with users and faults | composition |
| `InboundPumps_proofs` | theorems about it | proofs |
| `FileReply` | what a file reply promises | abstract |
| `FileReplies` | `reply_file_to_user` of six drivers | component, refines `FileReply` |
| `FileReplies_proofs` | theorems about it | proofs |
| `MC...` | finite instances | model checking |

`A_b` next to a definition `A` is a plausible bug in the code that `A`
translates, labelled `Mutant`; no specification uses these operators. Each
property is known to fail when one of them takes the place of its original.

In the compositions a variable `driver` is chosen in the initial state and the
actions of the other drivers stay disabled, as the hub's lookup by
`channel_type` sends a call to one driver.

### ChannelHub

`active` is the map; `pc`, `target`, `kind` and `held` are the local state of
each thread inside `activate`; `task`, `chan` and `cancelled` are the pump tasks
and their tokens. `activate` has the three steps that the released lock leaves:
`ActivateBegin` (deactivate under the lock), `StartPump`, `StartUnsupported` or
`StartFails` (the driver, without the lock), `Insert`. `ActivateTurnedAway` is
the call that ends after its deactivation. `Deactivate` is one critical section:
the guard lives to the end of the `if let`. `PumpHonoursCancel` and `PumpDies`
are all that the hub's model needs of a pump.

The hub does not keep two threads out of `activate` for the same id, though
`hub.rs:224` calls it an idempotent reload. `Spec` allows every interleaving;
`SerialSpec` adds `Exclusive`, the discipline a caller must keep. Which property
needs which is part of the result.

### HubReload

`ChannelHub` knows of a pump only that it honours its token or dies. `HubReload`
puts loops behind the tokens: `at` is the place of each task in its loop, `mine`
the config it runs with, `batch` what it was given and has yet to forward. `Top`,
`Answer`, `PollCancelled`, `PollFails`, `Woken`, `Persist`, `Forward` are the steps
of Telegram's and WeClaw's loops from one await to the next; `Leave` and
`PollCancelled` are `PumpHonoursCancel`, `GivesUp` (Discord's fatal closes) is
`PumpDies`. `stored` is the channel's config in the application's store: `Edit` is
the application, which passes the edited config to `activate` (`given`), and
`Persist` is the `ConfigWriter`, which writes the pump's whole config. `edits` numbers
the edits, and `setBack` remembers the newest one that a cancelled pump wrote an
older config over. The module is about one channel, since `stored`, `driver` and the messages are one channel's.

### QqStream

`current` is `reply_sessions` (message to stream), `nextIndex` and `smid` the
fields of `StreamState`, `stale` the sessions idle for `SESSION_TTL`. A chunk takes
the lock three times: `Purge` is `purge_expired` (`qq_bot.rs:254`), `TakeChunk` finds
or opens the stream and takes an index (`:255`), and after the POST (`PlatformReceives`,
`PostFails`; its answer may be lost after it was carried out) `AnswerDone` and
`AnswerGenerating` record the answer. Between the first two another reply may purge,
open or close the stream, and a session may become idle: the code resumes that one,
and so does the model. `NeverResumesIdle` is therefore about the streams that a purge
has found idle (`expired`): none of them gets another chunk. `Abandon` drops a reply's
future. Streams stand for `msg_seq` values and are fresh: a collision of
`gen_msg_seq` is left out. `overlapped` remembers messages with two replies at
once: the bubble properties are about replies that follow each other, as in the
comment at `qq_bot.rs:345`; `IndexUnique` and `StreamPerMessage` are about all.

### ChunkFeed and the reply drivers

A text is a number, the length of a prefix of the answer. The caller (`Produce`,
`DropSender`) runs concurrently with the loop, whose `phase` is where it awaits:
`recv` first chunk, throttle wait, flush. `Newest` is the coalescing; `window`
says whether the throttle deadline is ahead, `Elapse` ends it. `QqReply` flushes
with one POST and closes with a DONE chunk. `FeishuCard` creates, publishes,
updates and closes a card, with `seq` counted by the client and `accepted` the
last number the platform took; `received` counts the requests that carried a number, the
initial, final and unchanged-text updates and the close included, so that
`SequenceGrows` compares each with the one before it. Every request succeeds, fails, or is carried out
with its answer lost. The refinement mapping takes `Visible` (the platform's
text) for `shown`, and the end of the loop for `outcome`.

A caller that sends on after its terminal chunk is not modelled: the
doc of `StreamReplyChunk` says the terminal chunk is the last.

### TokenCache

One model for the same code in four drivers. Callers look up under the lock
(`Miss`; a hit changes nothing), ask without it (`Issue`), and `Store`. A token
is the time until which the platform accepts it. The clock may not run further
than `MaxTransit` ahead of an answer under way.

### Outbound

One call, the `Sender`'s, is followed through `send_many` (of which `send` is the
case of one target), `reply_to_user`, `ack_inbound` or `check_connection`; the
other callers race with it for the token cache. `TakeTarget` looks the driver up
and renders, `TurnedAway` is every answer given before anything is asked,
`TakeFromCache` to `TokenStored` are the steps of `TokenCache` taken by this call,
`Post` is the request and the driver's `Verdict`. `SendRule`, `ReplyRule` and
`AckRule` hold what the ten drivers differ in: whether they fetch a token, which
statuses they take for success, whether they search the body for an error code.
`RefusesInBody` are the platforms that refuse with status 200, iLink (WeClaw) among
them. WeClaw's `send` calls a client outside the crate, which is assumed to judge an
answer as the crate's own `post_sendmessage` does (`weclaw.rs:555-568`).
`Register` is `register_jsonc_template`. A message is the version of the template
it was rendered from.

### TemplateEngine and Templates

A template's text is a sequence of tokens; `TemplateEngine` scans it as the code
does, with `rest` and `result` of the current pass and the `stack` of `eval_if`'s
calls, piece by piece of the message; `Tokens` is the vocabulary. `Templates` gives
trees: a node is text, a block for each field or a block under a condition, its parts
are again text or blocks, and a `tail` of left-over directives may follow. `TextOf`
writes a tree down, `Meaning` reads it without any scanning, and the two are compared.
The meaning is the one that the module's documentation gives: a block under a condition
is shown when its field is non-empty (`Present`).
Two levels are all that the code has a reading for, since a block of one kind inside
another of its kind ends the outer one early; `Proper` leaves such trees out, and tails
that open something closed further on. See the end of section 7. `Quiet` says which
values the passes leave alone: title, body and url may hold directives, but not a
placeholder whose turn is still to come, and fields must be plain. It leaves out a url
that is present but empty, for which the code shows the block (section 7).

`simple_sub` is one `Sub` per variable, in the order of the code, the emoji, colour and
timestamp between body and url. A context may come without a status; the engine and
the built-in card then take that of info, the built-in markdown and text none.
`BuiltinCard`, `BuiltinMarkdown` and `BuiltinText` are the renderers of `builtin.rs`.
They agree with the engine as far as `BuiltinAgrees` says and no further: the card always,
the markdown when a status is given, and the engine's text is then the beginning of the
built-in one. Spaces, the card's colour, the button's address and all line breaks but
those of the text are left out.

### QqGateway

`sessionId`, `lastSeq` and `backoff` are the locals of `run` that outlive a
connection. `Top`, `Fetch`, `Dial`, `Sleep`, `Read`, `StopReading` are the pump
from one await to the next. The platform is part of the model: it numbers the
dispatches of a session, replays from the number a RESUME names, forgets
sessions, calls connections off; `Break` loses whatever is under way.

### InboundFeed, SocketPump, LongPoll, WebhookInbound, InboundPumps

Users write messages that are for the bot (`text`), that every driver leaves out
(`skip`), or that answer the bot in a group (`reply`, for Feishu's lookups).
The batches of the polls are sets of messages put `InOrder`, oldest first. `settled`
are those the platform will not send again: acked, confirmed by a
poll's offset, passed by a saved cursor, or, for Discord, merely sent. `hand` is
what the pump is handling; `emitted` the events in order. `excused` remembers
what the platform had reason to send again, and `lost` what a crash or
Discord's reconnect took.

`SocketPump` has one loop for four drivers, with an action of its own where a
driver differs: `Fetch` (which drivers back off, and how), `ReadHello`,
`ReadPiece` with `Push` (Feishu's reassembly), `Ack`, `HandleDispatch`,
`EmitEventsApi`, `HandleFrame`, `HandleBinary` with `ShouldForward`. `LongPoll`
has Telegram's and WeClaw's loop: batch, forward, and for WeClaw `Persist`
through the `ConfigWriter` before the batch is forwarded. With nothing new a poll may
end with an empty batch (`AnswerEmpty`), which confirms what was asked for and brings
the loop round with its offset or buffer as it was; that iLink sends no new buffer with
an empty batch is assumed. A restart of the
process loses the pump's memory and activates the channel again, WeClaw's with
the config that was saved.

`beats` are the tasks that Discord and Feishu spawn beside the loop: `own` is this
connection's, `stray` one whose handle is gone. Discord's loop drops a handle
without aborting the task when a `?` returns from a failed send and when a second
Hello overwrites it (`Detached`); `NoConnection` is every end that aborts it. A
beat that cannot be sent ends its task without a word (`BeatFails`), which changes
nothing for the pump.

`WebhookInbound` is WeCom's callback: a request is dispatched in one step, since
`parse_webhook` awaits nothing, and what fails in it (config, headers, signature,
ciphertext) is a request refused. The platform posts a message again, up to
`MaxPosts` times, until its answer comes. There is no pump and no token, and
`deactivate` does not switch the callback off: `dispatch_webhook` does not look at
`active`.

### FileReplies

A file is the bytes `1..Total`; a reply is a sequence of requests, `step` the one
under way. QQ's plan is any sequence of block sizes, missing ones (0) included:
`BlockSize`, `Lesser` and `Slice` are the arithmetic of
`qq_upload_chunked_bytes`, and a plan that does not fit the file is possible. `lacking`
are the parts that come without `part_index` or `presigned_url`: the loop ends with an
error when it reaches one, after the parts before it were uploaded (`qq_bot.rs:903-910`).
A plan is `Sound` if it has no such part and its sizes add up to the file.
Retry rules differ per request (attempts, a deadline, none) and are kept apart.

## 3. Runs

| Run | States of | Shows |
|---|---|---|
| `HubReload` | 2 threads, 1 channel, 2 pumps, 2 messages, 1 edit, 1 fault | `NothingPassedOver`, `EditKept`, `StoppedFallsSilent`, `ImplementsSlots` (refinement of `PumpSlots`), `ImplementsHub` (of `ChannelHub` with its fairness) |
| `HubOrphan` | `ChannelHub!Spec`, 2 threads, 1 channel, 3 pumps | violation of `DroppedHandleCancels` (finding 1) |
| `QqStreams` | 2 replies to one message, 1 to another | `IndexUnique`, `StreamPerMessage`, `BubblePerReply`, `CarriesOwnId`, `NeverResumesIdle` |
| `QqAfterDone` | the same | violation of `NothingAfterDone` (finding 2) |
| `ReplyDrivers` | texts 0..3, channel of 2, 4 chunks, three drivers | `EndsComplete`, `QuietAfterClose`, `SequenceGrows`, `KeepsPromise` (refinement of `StreamedReply`) |
| `CardLeftOpen` | texts 0..2 | violation of `TerminalClosesCard` (finding 3) |
| `Outbound` | 2 calls, 1 credential, clock to 3, 2 targets of any type, 2 registrations | `MarginKept`, `ReportsTruly`, `RendersCurrent`, `EveryTargetAnswered` |
| `QqGatewayPump` | 3 sessions, 2 events each, 2 breaks | `OnceInOrder`, `ResumesWhereItStopped`, `EventsArrive`, `Recovers`, `StopsWhenCancelled` |
| `InboundPumps` | 7 drivers, 2 messages, 2 faults | `SettledIsHandled`, `InOrderOnce`, `Arrives`, `StopsWhenCancelled` |
| `DiscordResume` | Discord alone | violation of `ResumesOnReconnect` (finding 4) |
| `FileReplies` | 6 drivers, 4 bytes, plans of up to 3 parts, 3 attempts | `FailsForAReason`, `KeepsPromise` (refinement of `FileReply`) |
| `Templates` | 5,019 messages over 7 contexts | `RendersMeaning`, `BuiltinAgrees`, `Renders` |

Each passing run also checks its module's type invariant, except `QqStreams`, whose
types are proved.

`HandlesSound` needs no discipline of the callers, so that a run in which they take
turns would say little about it: it is proved for `ChannelHub!Spec` (section 6), and was
model-checked there before, with two overlapping threads, two channels and three pumps
(433,537 states). The other hub properties do need the discipline, and `HubOrphan` is the
reason. What
`ChannelHub!Spec` promises about serial callers (`DroppedHandleCancels`,
`OnePumpPerChannel`) is proved rather than run. `SettledIsHandled`
holds with the exceptions its definition names, which are limits of the drivers
and not of the model: Discord's events between two connections, the events a
crash catches between an ack or a saved cursor and the emission, and a webhook's
message whose every request was refused. `ReportsTruly` has two exceptions of the
same kind: a body that was cut off reads as empty and passes for a success, and
Feishu's reaction is judged by its status alone. `EditKept` has one: a pump that
a reload has cancelled may still write its old config, once, while it finishes its
batch; a pump started from that config then writes it on, without having been
cancelled. The second case needs three generations of pumps, one more than the run
has, and was found while proving that the property holds for any number.

Deadlock is checked in the hub's runs. In the others the system may stop: replies
end, pumps are cancelled, the bounded clock stands still, rendering is done.

**Bounds.** Two threads are enough for every pair of overlapping calls; three pumps
let `HubOrphan` find a pump that was left behind, two give `HubReload` an old and a
new generation, each with a batch of its own. One edit falls before or after the
old pump's write, one fault is a poll or a write that fails. `Outbound` has two
targets, so that one can fail before and after the other, a lifetime of 0..2 below,
at and above a margin of 1, and a second registration that a first target may or
may not see. The safety properties of every passing run are proved without its bounds (section 6).
Two replies of two chunks let a chunk, an answer and a purge of one reply fall
between any two steps of the other, and the reply to another message is the third
party that purges. Text lengths 0..3 distinguish empty, duplicate, coalesced and
final text, and four chunks exceed the channel's capacity of two. In the gateway run two breaks fall
before and after a session is known, and the third session outlives them and one
expiry. Two messages can overtake each other, Feishu sends the first in two
pieces, and two faults give a lost ack followed by a lost connection, a failed
write followed by a crash, a second Hello followed by a break, or two refused
requests, after which WeCom gives a message up. Backoff is counted in doublings and capped at one, so
that both the growth and the cap occur. Plans of up to three parts over four
bytes include plans that fit, end early, have a part too many, and parts larger
than what is left. The templates are all trees of up to two nodes over a small stock of
text, blocks and conditions inside blocks and the other way round, trees of one node
with stray, unclosed or nested directives behind it, and cards of up to two elements
beside the example card; the contexts have and lack each part, the status included, have
an empty url, and hold placeholders and directives in their values. The nested conditions
and the empty url are there for `TypeOK` and `Renders`, which are about any text.

**Symmetry** is used for the streams and for the replies to the same message in
`QqStreams` and `QqAfterDone`, which check no liveness.

## 4. Fairness

- `HubReload!ReloadSpec`: weak fairness of each pump's loop (the executor polls a
  woken task; requests and writes end). No caller is obliged to do anything.
  `ChannelHub!SerialFairSpec` asks for weak fairness of `PumpHonoursCancel`, and
  `ImplementsHub` shows that the loops give it: wherever a pump is when it is
  cancelled, it comes back to its token.
- `Outbound!OutboundSpec`: weak fairness of the call's own steps. Registrations,
  other calls and the clock are not obliged to move.
- `TemplateEngine!FairSpec`: weak fairness of the scan; it is what makes `Renders` say that
  the loops end.
- `ReplyDrivers!FairSpec`: weak fairness of the loop's step (the executor polls
  a ready task; requests are answered or fail) and of the timer. Nothing is asked
  of the caller, so the end that `StreamedReply` promises is about a caller that
  sent its last chunk or hung up.
- `QqGateway!FairSpec` and `InboundPumps!FairSpec`: weak fairness of the pump's
  step and of the connected platform (it answers IDENTIFY and RESUME, delivers
  what it holds, answers a Close frame, posts to a webhook); in `InboundPumps` also
  of the heartbeat tasks, which have the token in their `select!`. The code sets no timeouts, so that
  requests are answered or fail is asked of the platform. There is no fairness
  of breaks, faults, restarts, expiry or users. Weak fairness of the pump as a
  whole does not prefer a branch of a `select!`, which tokio picks at random: a
  cancelled pump must stop because the finitely many frames left run out.
- `FileReplies!FairSpec`: weak fairness of the sequence of requests.

Faults are bounded by their constants. The liveness properties therefore say what
happens once faults stop, after any sequence of as many as the bound allows.

## 5. Assumptions

Serial callers where `SerialSpec` is named; fresh `msg_seq` values; a caller whose
terminal chunk is its last; requests that are answered or fail; a platform that
keeps its part (numbers events of a session in order, keeps unsettled messages and
sends them oldest first, never sends a settled one); an application that
activates the channel again after a crash, that reloads a channel with what it finds
in the store, and that answers a refused webhook request with an error. The constants' assumptions are named in
each module (`HubConstants`, `StreamConstants`, `PlaceholderIsNoChunk`, `FeedConstants`, `TimeConstants`,
`GatewayConstants`, `ReloadConstants`, `OutboundConstants`, `PostsConstant`, `SumConstant`, `DriversConstant`, `FileConstants`,
`TokensConstant`, `MessagesConstant`, `TreesConstant`) and are
evaluated in the runs.

## 6. Proofs

TLAPS checks the following for all values of the constants.

`HubReload_proofs`, about `ChannelHub`:

- `TypeCorrect`: `Spec => []TypeOK`.
- `HandlesSafe`: `Spec => [](SoleOwner /\ OwnedNotCancelled)`, in every
  interleaving. The inductive invariant `Ownership` adds `CancelledStarted`: a
  cancelled pump was started. Without it `StartPump` might hand out a handle
  whose token is cancelled already.
- `SerialNoOrphans`, `SerialOnePump`: `SerialSpec` implies
  `[]DroppedHandleCancels` and `[]OnePumpPerChannel`. The inductive `SerialInv`
  adds to `Ownership`: `Exclusive`; `EmptyWhileActivating`, the entry of a
  channel someone is activating is empty, so the insert drops nothing; and
  `NoOrphan`, a pump that was not told to stop has an owner. The second fails the
  moment two threads activate one id, which is finding 1.
- `SerialImplementsSlots`: `SerialSpec` implements `PumpSlots`. `slot` is a
  `CHOOSE`, so the proof first shows with `SerialOnePump` that the pump in a slot
  is the one that serves (`SlotServes`), and then maps each step to `Start`,
  `Stop` or a stutter.

About `HubReload`: `ReloadHandlesSafe` and `ReloadImplementsSlots` carry the results
over to the hub with real pumps behind it. Each step of `ReloadNext` is a step of
`SerialNext` or leaves the hub's variables alone (`ReloadStepIsHubStep`), so
`ReloadSpec` implies `SerialSpec` (`ReloadIsSerial`, the safety half of `ImplementsHub`);
its fairness part stays with the run. Three more
theorems are about the loops, from the inductive `ReloadInv`:

- `ReloadTypeCorrect` (`LoopInv`): a task's place agrees with the hub's view of it, and
  a pump has a batch, an unbroken range of messages, exactly between its answer and
  its forwarding.
- `NoMessageFalls`: `[]NothingPassedOver`. The property speaks of the cursor in the
  store; `CoverInv` says the same of every copy of it, in the hands of the platform, of a
  caller about to start a pump, and of each pump of whatever generation.
- `OldPumpsSetEditsBack`: `EditKept`. `EditInv` says that the store, a pump that serves
  and a caller about to start one have the newest edit any pump was started with, or
  one that a cancelled pump had written over.

`Outbound_proofs`, about `TokenCache`: `TypeCorrect`, `OneEntry` and `MarginAlwaysKept`,
from the inductive `IInv`, which adds to the types that the clock is at most
`MaxTransit` ahead of an answer under way (`Transit`) and that each entry's expiry lies
the margin, less that delay, before the token's end (`EntryMargin`). About `Outbound`:

- `OutboundKeepsMargin`, by the same argument: the calls that go out use the cache by
  `TokenCache`'s steps or not at all.
- `OutboundTypeCorrect`, from `CallInv`: results, the target at hand and those that are
  left add up to the call's targets. It needs `MaxTargets > 0`: a bound of none would
  leave no room for the one target of a reply.
- `AlwaysReportsTruly`, by the drivers' rules one after the other, and
  `AlwaysRendersCurrent`, from `TemplateInv`: what a call finds in the table is the
  newest registration.

`QqStream_proofs`:

- `TypeCorrect`, `IndexesUnique`, `StreamsPerMessage`, `IdleNeverResumed`, from the
  inductive `IInv`. Beyond the types it says that the counter of a stream is ahead
  of every index on the wire or under way (`CounterAhead`: without it a new index
  could be an old one), that a stream sits in at most one slot and its chunks are
  for that slot's message (`SlotOwner`), `IndexUnique` and `StreamPerMessage` for the
  chunks still under way, and that no purged stream is in a slot (`ExpiredGone`). It
  needs no discipline of the callers.
- `BubblesInTurn` and `IdsInTurn`: `BubblePerReply` and `CarriesOwnId`, for replies in turn. `TurnInv` adds to
  `IInv` what ties the table to the one reply that is under way for a message:
  it is the only one (`OneActive`); the slot holds the stream of its chunk or was
  purged (`SlotHolds`); an unbroken stream in a slot has a reply that serves it
  (`SlotServed`), so a reply that begins finds none; a reply that did not lapse
  still has its slot (`KeepsSlot`); and the slot's id is its own (`SlotId`). The
  exceptions in the properties, `broken`, `lapsed` and `overlapped`, are exactly
  where these facts end.

`ReplyDrivers_proofs`, from the inductive `ReplyInv`. Its part for the shared loop,
`FeedInv`, says that `lastSent`, the pending chunk and the channel hold growing texts
up to what was written, and that nothing follows a terminal chunk; `QqInv`,
`FeishuInv` and `OneShotInv` tie each driver's phase to what the platform has.

- `ReplyTypeCorrect`: `[]TypeOK`; for QQ, each request but the closing one is paid for by
  a chunk (`posts + Held <= chunks`), which bounds the requests.
- `ReplyEndsWhole`: `[]EndsComplete`. A driver drops texts that equal `lastSent` and
  coalesces the others; that no text is lost follows from the channel's last chunk
  being what was written.
- `SilentOnceClosed` and `CardNumbersGrow`: the action properties `QuietAfterClose` and
  `SequenceGrows`. The second rests on `accepted = seq` until a request fails.
- `RefinesPromise`: `Spec => Reply!Init /\ [][Reply!Next]_(Reply!vars)`, the safety half of
  `KeepsPromise`; each step is mapped to a write, a show, an end, a failure or a stutter.

`QqGateway_proofs`: `GatewayTypeCorrect`, `EventsOnceInOrder`, `ResumeNamesWhatWasEmitted`,
from the inductive `GatewayInv`. What is emitted must not depend on how often a
connection broke, so the invariant relates the frames on the wire to the platform's
log: those of an attached session follow on from `lastSeq` without a gap (`Reads`), or
from READY if the session is new, and then none of its events was emitted yet
(`Attached`); `LogInv` says that it is the newest session that lives, and `ResumeInv`
that `session_id` and `last_seq` are set and cleared together.

`InboundPumps_proofs`: `InboundTypeCorrect`, `SettledAlwaysHandled`, `EmittedInOrderOnce`,
for any set of drivers. The inductive `PumpInv` has a part for each way to hand
messages over:

- Slack, DingTalk and Feishu (`AckedInv`): all that is older than an emitted message is
  settled or was sent twice (`EmittedBehind`). For that the frames matter: all that is
  older than a message on the wire is dealt with, in hand or further ahead on it
  (`InTurn`), with Feishu's pieces gathered or to come; a frame of a message that was
  sent once has not been read (`WireFresh`); and what is in hand is newer than all
  that was emitted, or a copy (`HandSound`).
- Discord (`DiscordInv`): the numbers on the wire grow and lie above what was emitted;
  what left the wire unread is lost.
- Telegram (`TelegramInv`): the handled messages are the oldest ones, what is confirmed or
  behind the offset is among them, and the batch in hand follows without a gap.
- WeClaw (`WeclawInv`): what is settled lies behind the saved cursor, and what lies behind
  the one in memory was handled, lost or is in hand.
- WeCom (`WecomInv`): nothing is emitted that is not answered for or posted again.

`FileReplies_proofs`, from the inductive `FileInv`:

- `FileTypeCorrect`: `[]TypeOK`, with offset and slices inside the file.
- `GivesUpForAReason`: `[]FailsForAReason`. `PartInv` follows the offset along the plan: it
  is where the accepted parts end, cut to the file (`Cut`), and the platform has all
  bytes before it; so a sound plan delivers all, and an upload that ends in error without
  a request having failed met a plan that lacks something or does not fit. `Sent` counts the bytes of the parts
  as pairs, since a sum over a sequence is a recursion; `SentAddsUp` proves that it
  grows by each part's size. `RetryInv` counts a request's failures along its attempts.
- `RefinesFilePromise`: the safety half of `KeepsPromise`, from `ShownInv`.

`Templates_proofs`:

- `EngineTypeCorrect`: `[]TypeOK`. The inductive `EngineInv` says of any text, proper or
  not, that the body of a block holds no closer (it was cut at the first), which is why
  `eval_if` never goes deeper than one call.
- `RenderingMeans`: `[]RendersMeaning`, for every vocabulary, list of trees and context
  with quiet values. The last pass is followed variable by variable: what is left of a
  piece after `Sub` is what the variables still to come make of it (`SubTowards`).
  What `expand_each` and `eval_if` make of a text is the least relation closed under
  three rules: a text without blocks stays, a block at the front is replaced, an opener
  that is never closed is written as it was (`EachReadings`, `IfReadings`). A text is cut
  at its first opener in one way only (`UniqueCut`), so a reading can be taken apart from
  the front, and each step of a pass keeps what is written followed by what is still to
  be made of the rest (`EachGoal`, `IfGoal`). Meanings are put together the other way
  round: the relations between a text and its meaning are `Multiplicative`, that is, they
  hold of a concatenation when they hold of its parts, which carries them from words to
  parts, nodes and trees. `RenderInv` joins the two: the first `k` pieces are done and the
  piece at hand is on its way (`Towards`) to what its tree means.
- `BuiltinCardAgrees`: `[]BuiltinAgrees`, from `RenderInv` by working out what the example
  card, the markdown and the text made beside it mean, with and without a status, and that
  the text is the beginning of the built-in one (`TextMeans`).

The induction these need is over data, and the library's induction theorems take an
operator. It is done with sets in place of operators: `Induction` (a set with 0 and all
successors holds every number) is proved by a pigeonhole argument, `SeqInduction` and
`ReadingsLeast` follow.

All proofs use the constants' assumptions of section 5 that concern their modules and no
others. Each inductive invariant was checked with TLC on the instance of its run
before it was proved (`PumpInv` with three messages as well), except `RenderInv`: it
quantifies over all texts, and the run checks what follows from it.

Three modules were written so that they can be reasoned about: `InOrder` describes a
sorted batch where a sort would be a recursion, `Sent` counts as said above, and the
templates flatten sequences of meanings instead of recursing over trees.

**Only model-checked**: all liveness, and with it the fairness part of `ImplementsHub`
and the ends that `StreamedReply` and `FileReply` promise. Every invariant and every
action property of the passing runs is proved. **Only proved**: `HandlesSound`, `OneEntry`,
what serial callers are promised, and the types of `QqStream`.

## 7. Findings

1. *Overlapping reloads leave a pump behind* (`HubOrphan`). Two threads in
   `activate` for one id both start a pump; the second `insert` (`hub.rs:251`)
   drops the first handle. `PumpHandle` has no `Drop`, and dropping a
   `CancellationToken` does not cancel it, so the first pump runs on and no call
   can reach it. `inbound.rs:82-83` says: "Dropping or calling `stop()` cancels
   the pump task."
2. *A chunk after DONE is not rejected* (`QqAfterDone`). `StreamState.done` is
   tested at `qq_bot.rs:271` and never set. If the answer to a DONE chunk is
   lost, the slot keeps the finished stream and the next reply to that message
   continues it. `qq_bot.rs:134` says: "Set after a DONE chunk is sent — further
   chunks are rejected."
3. *A failing request leaves a card streaming* (`CardLeftOpen`). Each request in
   `stream_card_updates` is followed by `?`; only the normal end reaches the
   request that turns streaming mode off. `inbound.rs:203-204` says: "After a
   terminal chunk the driver must close out the platform stream".
4. *Discord never resumes* (`DiscordResume`). Opcode 7 ends the connection
   (`discord_ws.rs:209`) and the next one identifies. `discord_ws.rs:9-10` says:
   "Resume-on-reconnect is attempted opportunistically when the server sends
   opcode 7 (Reconnect)".

More places where a comment says more than the code does, or two parts of the code
disagree, were met and are not runs of their own. In the templates:

- `json_template.rs:21` says of `{{#if field}}`: "Render block only when field is
  non-empty", and `:264` "non-empty/present". `is_truthy` (`:268`) asks of a url only that it
  is there, so the block of a url that is present and empty is shown, with a link to nothing. `Present` follows the
  documentation, and `RendersMeaning` holds because `Quiet` leaves this url out.
- A message without a status: the engine takes the emoji of info for its text and
  markdown (`json_template.rs:252`), `builtin.rs:10` and `:35` take none.
- The text beside a card or a markdown message is emoji, title and body in the engine
  (`json_template.rs:96`); the built-in text goes on with fields, url and footer
  (`builtin.rs:19-29`). `BuiltinAgrees` says that the one begins the other.
- The markdown of the two differs in its line breaks: without a body the engine leaves an
  empty paragraph where `builtin.rs:39` writes none, and `builtin.rs:44` sets the list off by
  a break more.
- `json_template.rs:316` calls `eval_if` a function that supports nesting; the block
  of an outer condition ends at the first `{{/if}}` (`json_template.rs:328`), so the
  rest of it is shown or left out apart from it. `RendersMeaning` excludes such
  templates.

Elsewhere:

- `inbound.rs:143-144` names Telegram's private chats as a place `reply_to_user`
  answers in; `telegram_bot.rs` does not implement it and the call is refused.
- `webhook.rs:15-18` lists a title among the fields of the body it posts; text and
  markdown are what is sent.
- `feishu_bot.rs:243` (`add_reaction`) takes any answer with status 200 for a success
  although Feishu reports refusals in the body, as `post_message` knows.

## 8. Not modelled, and what comes next

Left out, with the reason:

- *Event parsing, message formats, signatures, ciphers, frame codecs*: abstracted to
  forward or skip, to a template's version, to a request refused.
- *The broadcast channel's lag* (`hub.rs:103`): the loss is in tokio and is reported
  to the subscriber; no code of the crate reads from it.
- *An error page as a file* (`file.rs:101`): `KeepsPromise` is about the bytes the
  URL gave.
- *QQ's heartbeat*: it works on a copy of `last_seq` taken at Hello and ignores
  acknowledgements (`qq_bot_ws.rs:286`, `:313`); the model has its end with the
  connection, and a connection that died unnoticed is a break.
- *Collisions of `gen_msg_seq`*: streams are fresh values.
- *Growth*: the token caches keep entries of credentials that were rotated, and
  Feishu's reassembler a late duplicate of a piece until the connection ends; both
  are correct, and neither is bounded in the code.
- *The drivers' constructors, capability records and re-exports*: no state.

The order of work was: hub activation and its proofs, reply streams with theirs
and the reply drivers, tokens and their proofs, the QQ gateway, the other pumps, file
replies; then the hub with its pumps and the config store, outgoing calls, templates,
heartbeats and the webhook; then the proofs about replies, gateway, reloads, outgoing
calls, the other pumps, file replies and templates. What is left is a specification of
what the pumps promise, apart from how each platform hands messages over, that
`InboundPumps` and `QqGateway` implement.
