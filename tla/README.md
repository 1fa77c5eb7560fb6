# A TLA+ verification of DanmakuFlow

DanmakuFlow is a live-comment ("danmaku") service in Go: viewers connect by
WebSocket to a room, send comments that are validated, moderated, persisted and
broadcast, on one or several instances. This directory models the service from the
send path to moderation, administration and the bridge between instances, checks it
with TLC on small instances and proves its safety properties with TLAPS for instances
of any size.

Paths below are relative to the repository. `PROJECT.json` holds the same
information in tabular form: components, runs, the source lines of every
definition, findings, hazards, theorems.

## 1. Inventory

| Component | State | Operations | Talks to |
|---|---|---|---|
| Send path, `service/danmaku.go` | `accepting`, `inflight`, `closed`, `danmakuChan` | `HandleMessage`, `CreateDanmaku`, `createAndBroadcast`, `persistDanmaku` | room status, moderation, store or Kafka, hub |
| Asynchronous writer, `service/danmaku.go` | `danmakuChan`, the danmaku in hand | `danmakuConsumer` | store |
| Shutdown, `service/danmaku.go`, `main.go` | the above, `wg`, deadlines | `Shutdown`, the end of `main` | every other part |
| Handshake and quota, `websocket/handler.go`, `hub.go` | `connCounter`, `roomConnCount` | `ServeWs`, `TryAcquireConn` and its release closure | room status, hub |
| Rooms and hub, `websocket/hub.go` | `rooms`, `shuttingDown`; per room `clients`, `count`, `broadcast`, `stop`, `done` | `Room.Run`, `GetOrCreateRoom`, `RemoveRoomIfSame`, `BroadcastToRoom`, `Hub.Shutdown` | clients, Redis |
| Clients, `websocket/client.go` | `send`, `done`, `stopOnce` | `readPump`, `writePump`, `enqueue`, `stop` | room, quota, send path |
| Room lifecycle, `service/room.go`, `store/room*.go` | rooms table | `Create`, `StartRoom`, `EndRoom`, `GetStatus` | store |
| Redis bridge, `redisclient/pubsub.go`, `hub.go` | publish queue, subscription, back-off | `Publish`, `subscriptionLoop`, `redisPublishLoop`, `redisSubscribeLoop` | other instances |
| Kafka pipeline, `service/kafka.go` | topic, marked and committed offsets | `Produce`, `ConsumeClaim`, `processMessage`, `Start` | store |
| Moderation, `service/moderation.go` | danmaku status, reports, mutes, block list | `ReviewDanmaku`, `ReportDanmaku`, `ResolveReportWithAction`, `MuteUser`, `CheckContent` | store, hub |
| Administration, `service/admin.go` | roles, bans | `BanUser`, `UnbanUser`, `SetUserRole` | user store |
| Rate limiter, `service/danmaku.go` | last send time per user | `Allow` with its cleanup | send path |
| Reconnect, `websocket/handler.go`, `store` | history cursor | `sendHistoryOnReconnect`, `ListSince` | store, client |
| Authentication, HTTP handlers, configuration, metrics, benchmark | | single calls, no shared protocol | |

What is hard in this code:

- **Concurrency.** Every request, every pump, every room, the consumer and
  `Shutdown` are goroutines. They synchronise through atomics read in a certain
  order (`inflight` before `accepting`), channels whose closing must come last,
  and `sync.Once`.
- **Stale pointers.** A handshake keeps the `*Room` it was given while the room
  may be unmapped, replaced or stopped.
- **Failure.** Writes fail, hang, or take effect although they report an error;
  deadlines end a shutdown half way.
- **Races of read-check-update** on rooms, reviews, reports and roles.

What makes each modelled component correct:

- *Send path and shutdown*: no send on a closed channel or producer, one close,
  nothing lost, duplicated or reordered between channel and store, an
  acknowledgement is backed by a stored or buffered danmaku, `Shutdown` returns,
  and a `nil` from it means that everything is drained.
- *WebSocket layer*: quota returned exactly once, counts equal to memberships, no
  goroutine waits on a dead event loop, a room with clients stays mapped, ended
  rooms leave no open client.
- *Kafka pipeline*: a consumer that starts at a mark misses nothing that was not
  given up, redelivery changes no reviewed row, held-back danmaku stay hidden, and
  acknowledged ones reach the table.
- *Room lifecycle*: racing transitions have one winner, who is the owner; nothing
  begun after the end of a room is acknowledged; the table implements the state
  machine that `model.Room` documents.
- *Moderation and administration*: the room shows what the table says is approved,
  a review tells the room only what is new to it, a report is resolved only for an action that
  happened, a banned or muted user gets nothing through, and the site keeps an
  administrator.
- *Redis bridge*: other instances get a part of what was broadcast, at most once and in
  order as far as the broker answered, and nobody gets his own back; the subscription
  comes back after every break; the bridge stops when the hub does.
- *Reconnect*: what a returning viewer still misses after a complete replay is known
  exactly.
- *Block list and rate limiter*: a verdict agrees with what the folded text has of the
  folded words; no user sends more often than the interval allows.

## 2. Modules

| Module | Models | Kind |
|---|---|---|
| `DanmakuService` | send path, asynchronous writer, `Shutdown`, the end of `main` | state machine |
| `DanmakuServiceProofs` | its inductive invariant and theorems | proofs |
| `WsHub` | handshake, quota, rooms, clients, local broadcast, `Hub.Shutdown` | state machine |
| `WsHubProofs` | its inductive invariant and theorems | proofs |
| `RoomStateMachine` | what `model.Room` promises | abstract specification |
| `RoomLifecycle` | `RoomService` over a conditionally updated table | state machine, refines `RoomStateMachine` |
| `RoomLifecycleProofs` | its inductive invariant, theorems and the refinement | proofs |
| `KafkaPipeline` | `Produce`, consumer group sessions, `processMessage`, offsets, crash and restart | state machine |
| `KafkaPipelineProofs` | its inductive invariant and theorems | proofs |
| `AdminRoles` | `AdminService` behind `RequireRole` | state machine, part of `Moderation` |
| `Moderation` | `ModerationService`, the checks of a send, and all of `AdminRoles` | composition |
| `ModerationProofs` | the inductive invariant of both and theorems | proofs |
| `OrderedChannel` | what the bridge between instances promises | abstract specification |
| `RedisBridge` | publish queue and loop, subscription loop, local broadcast, the stop of both | state machine, refines `OrderedChannel` |
| `RedisBridgeProofs` | its inductive invariant and the refinement | proofs |
| `Reconnect` | the live stream, the viewer's cursor and `sendHistoryOnReconnect` | state machine |
| `ReconnectProofs` | its inductive invariant and theorems | proofs |
| `BlockList` | `loadBlocklist`, `normalizeContent`, the Aho-Corasick automaton | algorithm in steps, with its reference definition |
| `RateLimiter` | `rateLimiter.Allow` and its cleanup | state machine, part of `SendChecks` |
| `SendChecks` | the limiter in front of the block list | composition |
| `SendChecksProofs` | the limiter's invariant, the correctness of the automaton and of the trimming | proofs |
| `MC...` | finite sets for TLC, one per component | instances |

Operators whose comment begins with "Mutant:" are faulty variants of the operator
that follows them. They are not part of any specification; substituting one for
its original makes TLC report the property that `PROJECT.json` pairs it with,
which shows that the property depends on that piece of code.

### DanmakuService

A request is one call of `createAndBroadcast`; `pc` is its program point, with one
action per atomic access to shared state: `Register` (`inflight.Add(1)`),
`CheckAccepting`, `Moderate` (all checks that may refuse or flag), one of
`PersistKafka`, `PersistChan`, `PersistDirect`, then `Broadcast` and `Leave`
(the deferred `inflight.Add(-1)`). `mode` is the persistence path that
`NewDanmakuService` chose, one of `Modes`. A write succeeds, fails, or fails after taking effect;
nothing takes effect in a closed producer or database. The consumer receives,
writes and, when the channel is closed and empty, exits. A call of `Shutdown` is a
program point in `sd`; several callers model a retry or a second signal. After
main's call returned, with or without an error, main closes the hub, then the
database, and exits, at which point every goroutine stops. `sent` and `written`
are history variables.

Content, user, colour, JSON and metrics are not represented; the identity of a
danmaku is that of its request, because the code draws a fresh UUID for each.

### WsHub

`Room` objects are named after the connection that created them, so that an
unmapped object and its successor under the same id are different. The event loop
is a set of actions guarded by `run[o]`; unbuffered channels (`register`,
`unregister`) are joint steps of the two goroutines, and `select` is a choice
among the enabled ones. `RemoveRoomIfSame` is a step of its own after the
unregistration, because it waits for the hub's lock. `GetOrCreateRoom` is two
steps, because it reads `shuttingDown` before it takes the lock, and so is the lookup of
`BroadcastToRoom` (`FindRoom`). `client.stop` is
the operator `Stop`, one step for the body of the `Once`. Ping, pong and deadlines
are the read or write errors they end in. `MaxReplies` bounds the replies and
history pages of a connection. Redis is absent, as with an empty address in the
configuration.

### RoomLifecycle

`StartRoom` and `EndRoom` are two steps each: `ReadRoom` with all checks, and the
conditional `UpdateStatus`, which is one locked step in memory and one SQL
statement in MySQL. Either store call may fail, the update also after it took
effect. `mover` is a history variable, the user whose call moved a room; the state machine
`RoomStateMachine` lets only the owner move it. A send is `ValidateRoomForSend` and, later, `FinishSend`. Nothing in the
repository writes the reserved status `banned`; `BanRoom` is the external action
that does.

### KafkaPipeline

`DanmakuService` ends where `Produce` returns; this module begins there and ends at
the row in MySQL. `topic` is one partition (the key of a danmaku keeps all its events
in one), an append-only sequence; an event is the danmaku's id and review status,
without a status for schema version 1. The broker appends an event once per attempt of
`SendMessage`, possibly after the sender was told that it failed. Each instance has its
`Start` loop (`phase`), the channel `ready`, and a session with its position, its retries
and its mark. `StoreAdd` is one call of `store.Add`, so another instance, a review, a
rebalance or a crash may come between two tries. The coordinator gives the partition to
one session (`owner`), but a session that has to end may still work on it. What the
library does with marks at the end of a session depends on `AutoCommitEnable`, which
the code sets to `FALSE`. The pause after an error of `Consume` changes nothing and has
no action. `Review` is the update that `ReviewDanmaku` makes; `decided` and `skipped`
are history variables, `faults` bounds rebalances, crashes and shutdowns together.

### AdminRoles and Moderation

A call is one HTTP request (or one send), `pc` its program point; `"ok"` and `"error"`
are its answers. Every access to a table and every broadcast is a step, so that calls
interleave between a check and the update that rests on it: `RequireRole` reads the
role and leaves it in `user_role`, `CheckActor`, `CheckTarget` and `CheckOthers` are the
lookups of `CanTargetUser`, `SetUserRole` and `hasOtherAdmin`, `Apply` is the update. A
write succeeds, fails, or fails after it took effect; an error of the audit log, which
comes last, is of the third kind. `Moderation` extends `AdminRoles` and shares its calls:
a send looks up ban, mute and content, writes, broadcasts; a review reads the status
(`FindDanmaku`), updates it by id (`UpdateStatus`), then tells the room (`Notify`); a
resolution of a report runs the same review and, by its action, mutes or bans.
`screen[d]` is what the room was told last, in the order of the calls of
`BroadcastToRoom`.

The tables are those of MySQL, where an update of an unknown id matches no row. The
constant `UniqueIndex` tells the two report stores apart: MySQL's index over danmaku and
reporter turns down a second report, `MemoryReportStore` has none. Lookups of rows that
never change (the danmaku of a report, its author) are merged with the step before or
after them. Sends take the direct
persistence path; the others are in `DanmakuService` and `KafkaPipeline`. Expiry of a
mute is an action. `raced` and `lost` mark the danmaku for which the code promises
nothing (overlapping decisions, a write that took effect although it was answered by
an error); `overlapped`, `held`, `barred`, `skipped` and `closedBy` are history too.
`ModerationInv` is the invariant from which the properties follow.

### RedisBridge and OrderedChannel

A message is `<<i, n>>`, the n-th broadcast of instance `i`. `BroadcastToRoom` puts it
into the bounded queue or drops it; the publish loop takes it and publishes; the broker
(external) appends it to the stream of every connected subscriber; the subscription loop
skips what comes from its own instance and hands the rest to the channel, where it blocks
while the channel is full; `redisSubscribeLoop` passes it to the room, which may have no
place for it (`dropped`). Anything on its way to a subscriber whose connection breaks is
gone. A command that gets no answer is in `late`: the broker may execute it at any later
moment (`ExecuteLate`), also after the repetition of it and after newer commands.

`OrderedChannel` says what is left of that as a promise: `got[j]`, what `j` gave to its
rooms, holds only what others have sent, and the messages that are not in `unanswered` are
in it at most once and in order. A message is known as unanswered before anybody gets it.
The mapping is the identity on `sent`, `unanswered` and `got`; queues, streams and
connections are hidden.

Three facts about the libraries are used. The client repeats a command whose answer got
lost, as its default options say. `Publish` returns when its context is cancelled.
`ReceiveMessage` is a read from the socket without a deadline, which a cancelled context
does not interrupt; `main` closes the client only after `Hub.Shutdown` returned
(main.go:339-343), so an idle subscription may keep `Hub.Shutdown` waiting. A payload that
does not unmarshal (pubsub.go:157) does not occur, since only this program publishes on
its channels.

### Reconnect

A danmaku is built (gets its time, in milliseconds), written, and broadcast; the writing
and the broadcast come in either order, as on the asynchronous paths. The viewer keeps
the time and id of the danmaku it got last, as README.md tells clients to. On a return
`ServeWs` registers the client and then runs the replay: `QueryHistory` asks for one row
more than a page, `EnqueuePage` puts the page into the same queue that live messages go
to, and gives up when it is full. `ListSince` is the set of results that an ordered query
with a limit may have: rows after the cursor, in its order, and nothing left out but
behind a full result; there is always exactly one (`QueriesAreDetermined`). Ids are
numbers for their order only; which danmaku has which is open, like that of UUIDs.

### BlockList, RateLimiter and SendChecks

A node of the trie is the string that leads to it. `buildACA` is modelled in its steps,
one per child that gets its fail pointer, with every order in which Go may iterate over a
map; `Match` and the pass that drops zero-width characters are functions defined by
recursion along the text, and so is `NFKC`: it composes an accent with the letter right
before it and takes a ligature or a full-width letter apart. Characters are letters, their
capital, full-width and accented forms, a ligature, a combining accent, a zero-width
character, a space and the sign of a comment, enough for each step of `normalizeContent`
and `loadBlocklist` to do something, and for their order to matter: the composition comes
before the zero-width characters go. `Folded` is `normalizeContent` before the trimming.
The reference, `Hits`, is a search for the folded words in the folded text and does not use
the automaton; it takes the folding as it is. That the folding has a hole is what the
configuration `zero_width` shows. A list read from a file that could not be read to its end is a list like any
other; `MCSendChecks` has one.
`RateLimiter` has the map `lastTime`, its cleanup and
`lastCleanCount`; `SendChecks` lets users send over time, limiter first. All users of a
behaviour send one content, because a match changes nothing.

## 3. Runs

All instances are small sets of model values; deadlock checking is off because
every system here may come to rest (all requests answered, process exited).

| Run | Instance | Shows |
|---|---|---|
| `danmaku` | all three paths, 2 requests, channel of 1, two `Shutdown` calls, fair | `NoSendOnClosed`, `ChannelConservation`, `AckIsBacked`, `CleanShutdown`, `ShutdownInv` (with `TypeOK`), `NoAckAfterQuiescence`, `AcceptedIsAnswered`, `ShutdownReturns`, `BufferedIsWritten` |
| `hub_safety` | 3 connections from 2 IPs to one room, at most 1 per IP, 1 message, 1 reply, buffers of 1 | `CountIsClients`, `QuotaExact`, `MappedRoomAnswers`, `DoneRoomHasNoOpenClient`, `NonEmptyRoomKept` |
| `hub_live` | 2 connections of one IP, at most 1 per room, 1 message, 1 reply, fair | `HandshakeEnds`, `DepartureCompletes`, `SignalledRoomEnds` |
| `room_lifecycle` | 1 room, 2 users, 5 calls, users and calls symmetric | `OneWinner`, `NoSendAfterEnd`, `LifecycleInv` (with `TypeOK` and `OwnerWins`), refinement of `RoomStateMachine` |
| `kafka_pipeline` | 1 danmaku, 2 instances, 2 events, 2 faults | `MarkedIsSettled`, `DecisionStands`, `FlaggedNeedsReview` |
| `kafka_live` | 2 danmaku, 1 instance, 2 events, 1 fault, fair | `AckedIsStored` |
| `moderation` | 3 calls out of 15 requests, 2 administrators, 1 user, 1 danmaku, 1 room, `fail_closed` off; calls other than the reporting one symmetric | `AdminRemains`, `ScreenFollowsStatus`, `ResolvedIsBacked`, `BarredCannotSend`, `NoRepeatedNotice` |
| `redis_bridge` | 2 instances, one of which sends 2 messages, queues of 1, 1 repetition, 1 fault, fair | refinement of `OrderedChannel`, `SubscriptionRecovers`, `ShutdownStopsBridge`, `ReceivedIsPassedOn` |
| `reconnect` | 3 danmaku, 2 milliseconds, pages of 1, queue of 2, 2 lost connections | `CompensationIsComplete`, `PagesInOrder` |
| `send_checks` | 32 pairs of words without a file, with one and with one cut short, 22 texts, 2 users, interval 2, 5 units of time, cleanup beyond 1 entry | `RateRespected`, `VerdictIsRight` |

Why the bounds are enough to make the cases happen. With a channel of one, two
requests are a danmaku in the consumer's hand and one in the buffer, or one in the
buffer and one refused; two callers of `Shutdown` are a failed call and its retry, or two that race for the
swap. Three connections are an object that empties, the handshake that still holds
it, and the successor object; a limit of one per IP still lets all of them happen,
because the first of the shared IP has left. With buffers of one, a reply makes a client slow at the
next broadcast. In `hub_live` the limit of one per room makes the second connection
arrive while the first is on its way out, which is the contention at the event loop
that a departure can lose. One message cannot fill `room.broadcast`; a full one drops
the message and changes nothing else. Five calls are create, start, two racing ends
and a send. Two events are an event and its copy, or an event behind one that does not
unmarshal; two faults and two instances are a row written by an instance that already
lost the partition, and a redelivery to the other one after a review. In `kafka_live` the
second danmaku stands behind one that was given up. Three calls of
`moderation` are a report, its resolution and any third call between them, two reviews of
a send, or two administrators who demote each other under the eyes of a third request;
`fail_closed` off includes every behaviour of a lookup that succeeds. Two messages and
queues of one fill the publish queue and the channel; one fault is a lost answer with a
repeated or a late command, a broken connection, or an outage; larger combinations are
the matter of the proof. Three danmaku in two milliseconds are two with equal
times and one later; pages of one make a replay of several pages, and a queue of two
fills up during it. Pairs of words of up to three letters, one of which may be a prefix, a
suffix or the inside of the other, reach every case of the fail pointers; time 5 is
the first at which a cleanup with interval 2 drops an entry. Different rooms share no state, so more of them add interleavings and no
new interaction; the theorems below cover every number of requests and calls.

### Statements of the repository that do not hold

Two runs check a statement of a document, a comment or a test and end in a
counterexample. The configurations in the second part of the table do the same for
statements the modules hold beside their properties; they are not among the listed runs,
and `tlc -config <name>.cfg` on the MC module finds the counterexample.

| Configuration | Statement | What happens |
|---|---|---|
| run `hub_orphan` | README.md:625, only slow clients miss messages | a client registers in a room that was unmapped after the client got the pointer |
| run `kafka_reconnect` | README.md:106, the consumer reconnects by itself | `Setup` of the second session closes `ready` again and the process panics |
| `kafka_commit` (`MCKafkaPipeline`) | main.go:330, service/kafka.go:303, README.md:616, offsets are committed | nothing calls `Commit`, so `committed` never moves, every start begins at the oldest event, and only the idempotent insert saves the table (`ClosedIsCommitted`) |
| `report_twice` (`MCModeration`) | handler/report.go:38, a second report is forbidden | with `MemoryReportStore` two requests at the same time both insert (`OneReportEach`) |
| `review_twice` (`MCModeration`) | service/moderation.go:216, the same status again notifies nobody | two approvals that both read the old status both update and both broadcast (`SameStatusNotifiesOnce`) |
| `redis_repeat` (`MCRedisBridge`) | README.md:589 and 594, at most once, and a failed publication is not repeated | the client library repeats an unanswered `PUBLISH` that the broker did execute (`AtMostOnce`) |
| `redis_cancel` (`MCRedisBridge`) | redisclient/pubsub.go:112, the channel is closed when the context is cancelled | the loop stays in a read from an idle connection (`ChannelClosesOnCancel`, under `FairSpec`) |
| `zero_width` (`MCSendChecks`) | service/moderation_test.go:120, a word is hit once zero-width characters are removed | one between a letter and its accent prevents the composition, which comes first (`ZeroWidthHidesNothing`) |

More disagreements are visible in the actions and have no configuration of their own.

- service/danmaku.go:402 says that `Shutdown` may be retried; after a drain that timed
  out, the retry fails `ShutdownSwap` and returns `nil` with danmaku still buffered.
- websocket/hub.go:260 says that `GetOrCreateRoom` returns `nil` during shutdown; the flag
  is read before the lock, so a room may appear after the stop signals.
- README.md:601 says that a danmaku dropped by a full channel was already broadcast;
  `PersistChan` precedes `Broadcast`, and a refusal skips it.
- main.go:347 says that no writes remain when MySQL is closed; `MainCloseHub` follows an
  `"error"` of `Shutdown` too.
- websocket/hub.go:438 says that `Hub.Shutdown` waits for the rooms; `ShutdownStopRooms`
  returns without, because the wait group counts only the two Redis goroutines.
- README.md:550 speaks of at-least-once delivery after a reconnect. The two exceptions in
  `CompensationIsComplete` are gaps: a danmaku built before the cursor but broadcast after
  it, and one not yet written when the replay looked. A replay that was cut (a full queue,
  the limit of 1000, an error) leaves more, without telling the viewer.
- service/admin.go:150 protects the last administrator; two demotions that overlap pass
  the check both, which is the exception in `AdminRemains`.
- service/moderation.go:211-216 lists the notices of a review; of two overlapping reviews
  the later update wins the table and the later notice the screens, and they need not be
  the same one. A rejection that overtakes the broadcast of the send is undone on the
  screens by it. These are the exceptions (`raced`) in `ScreenFollowsStatus`.

### Fairness

- `DanmakuService!FairSpec`: the Go scheduler runs every goroutine that can run, so
  a request's local steps, a started `Shutdown`, the consumer's receive and exit, and
  main are weakly fair. `Moderate` is none of the local steps: it looks up bans and mutes in
  the database. The poll of `Shutdown` alternates between two points, so its
  deadline is strongly fair: the context ends, and the select then sees it. Writes to
  Kafka or the database and those lookups are *not* fair, they may hang; nobody needs to send or to call
  `Shutdown`.
- `AcceptedIsAnswered` is conditional on `LookupsAnswer`, weak fairness of the lookups.
- `BufferedIsWritten` is conditional on `StoreAnswers`, weak fairness of the
  consumer's write: the database answers, with success or an error.
- `WsHub!FairSpec`: weak fairness for goroutines that can run, including the read
  error and the writer's exit of a *closed* socket; strong fairness for a waiting
  register, unregister and stop signal, because `select` chooses among ready cases at
  random. Peers need not hang up and clients need not connect.
- `KafkaPipeline!FairSpec`: `ConsumeClaim` is a goroutine that receives what is there,
  so `Deliver` is weakly fair. Nothing promises that the group settles, that a process is
  restarted or that the database answers: `AckedIsStored` is conditional on a session
  that lasts and on `StoreAnswers`.
- `RedisBridge!FairSpec`: the loops are goroutines, so their steps are weakly fair, and so
  is a `Shutdown` that was called. An outage of Redis ends. Connections need not break, a
  read from an idle one need not return, cancelled or not, nobody needs to broadcast, and
  no publish needs to succeed or, once given up, to be executed.
- `ShutdownStopsBridge` is conditional on `ConnectionsEnd`: a connection whose reader was
  cancelled breaks at some time. The code does not see to it; `redis_cancel` is what
  happens without.

## 4. Proofs

All theorems hold for every set of callers, rooms, users, calls, danmaku and
instances, every finite set of requests and of connections (their numbers are what the
counters count), and every buffer size, page size, limit, interval and bound.
Assumptions are the named `ASSUME`s of the component modules, which TLC evaluates in the
runs: sizes are natural numbers, positive where the code needs it, special values are
none of the real ones, the site starts with an administrator, and the word lists are
finite sets of strings over an alphabet that holds the letters others are folded to.

The invariants of a run are seldom inductive. Each component module ends with the
strengthening that is (`ShutdownInv` and `CleanInv`, `LifecycleInv`, `PipelineInv`,
`ModerationInv`, `BridgeInv`, `HubInv`, `ReplayInv`, `LimiterInv`, `BlockInv`), a conjunction of named
parts, which says what each program point may rely on. TLC confirmed every one of them on
the instance of its run before it was proved (`BridgeInv` with both instances sending and
one fault, `BlockInv` with a clock that stands still); the runs list only
`ShutdownInv` and `LifecycleInv`, since the theorems make the others redundant there.

**`DanmakuServiceProofs`.** `ShutdownInv` is inductive. `NoSendOnClosed` alone is
not: that no request is at a writing point when the channel closes depends on the
counter being exact (`InflightCounts`), on `accepting` having been cleared before
the poll (`StoppedAccepting`), and on the fact that once one caller saw zero, the
requests that register later are turned away (`QuiescentIsFinal`). `SwapDecides`
ties the program points of the callers to `closed` and `chanClosed`. The argument
about the counter rests on two lemmas on cardinalities: a request that moves into
or out of the counted points changes it by one (`CountMoves`), and a count of zero
means that no request is at a counted point (`ZeroMeansQuiet`). From it follow
`InflightIsExact`, `NeverSendsOnClosed` and `ClosesOnce`. `AsyncPathConserves`
proves `ChannelConservation`, with typing from `ShutdownInv` and one lemma on
sequences (`HeadInHand`).

`AcknowledgedIsBacked` and `QuiescenceIsFinal` share one lemma, `AckEffect`: a step
acknowledges only a request that has passed its checks, and puts that danmaku where the
answer says. The second then follows because no request is at that point after the
poll. `NilMeansDrained` needs two more facts. `DrainInv`: the consumer ends only behind
the close and with nothing left, and what it ended is stored or was given up.
`WinnerDrains`: a caller that returned `nil` with the channel not drained left the drain
to another caller. With a single caller there is no other, which is where the
restriction in `CleanShutdown` comes from: a retry after a drain that timed out does
return `nil` too early.

**`RoomLifecycleProofs`.** `LifecycleInv` adds to the three safety properties what a
call knows at each program point (`CallKnows`): that it is the owner's, that the room
exists, and that a winning end is final. `Refinement` shows that every step of
`RoomLifecycle` is a step of `RoomStateMachine` or leaves the table alone; a step that moves
a room is the owner's because `CallKnows` keeps what `Check` found.

**`KafkaPipelineProofs`.** `PipelineInv` is inductive. `MarkedIsSettled` needs that a
session is at the message after its mark and works on an event of the partition
(`SessionPosition`); `FlaggedNeedsReview` needs that every event carries the status its
danmaku was accepted with (`TopicIsFaithful`) and that a row without a review has it too
(`RowsAreFaithful`). `AddRows` is the fact about the primary key: a row that exists stays
as it is. The proof covers any number of instances, events, rebalances and crashes.

**`ModerationProofs`.** `ModerationInv` is inductive. `PathInv` says which operations
reach a program point and what their checks left behind; everything else rests on it.
`AdminInv` is what a role change may rely on between its lookups and its update, as long
as no other one is under way. `SendInv` says that a danmaku has one send, and `ScreenInv`
(`DecidedInTurn`) relates, for one danmaku at a time, the status in the table, the status
a review read and what the room was told: at most one call is between its read and its
notice, and the screen is behind the table by exactly that call. `ReportInv` follows a
resolution from the lookup of the report to its closing, and `BarredInv` ties the history
of a send to the tables. From these follow `SiteKeepsAdmin`, `ScreenMatchesTable`,
`ResolutionsAreBacked`, `SanctionsHold` and the action property
`NoticesAreNew`.

**`WsHubProofs`.** `HubInv` is inductive: `ConnInv` (a connection has its room and its
pumps from the right step on), `RoomInv` (the clients of an object were registered with
it; it is empty before its loop, while it is removed, and after its loop), `MapInv` and
`OpenIsMember` (only `client.stop` takes a client out of its room). `QuotaExact` and
`CountIsClients` are in it as well: equalities with cardinalities, which rest on lemmas
about a connection that enters or leaves the counted set (`QuotaAcquired`,
`QuotaReleased`, `CountWithout`); a quota is released once because `done` and the exits
of the handshake exclude each other. `RemovalsAreSafe` is an action property: between
the departure of the last client and `RemoveRoomIfSame` the loop of the room accepts no
registration, and the object in the map is compared before it goes. `LimitsHold` states
what the exact counters are for.

**`RedisBridgeProofs`.** `BridgeInv` says that at every station of a message (the publish
queue, the job of the publish loop, the stream of a connection, the hand of the
subscription loop, the channel, the rooms) the messages of one source that are not in
`unanswered` are in strict order, behind those that are further on, and that past the hand
none is the instance's own. A message becomes unanswered while the publish loop holds it,
and until then it is at no station (`Placed`, `Behind`); `LateInv` says that what is
executed late is in `unanswered`. `BridgeKeepsOrder` is the refinement: a step of
`BroadcastToRoomLocal` is a `Deliver` of `OrderedChannel` or drops the message,
`BroadcastToRoom` a `Send`, `PublishUnanswered` an `Unanswered`, and every other step a
stutter.

**`ReconnectProofs`.** `ReplayInv` is inductive. `AheadInv` is its heart: a danmaku that
was broadcast and is neither with the viewer, nor in his queue, nor an exception, is still
ahead of the replay: after its cursor, in the page at hand, or behind the row that says
there is more. `CursorInv` and `PageInv` put what was sent before the cursor and the page
after it. The order of the cursor enters through four lemmas (`AfterIsTransitive`,
`AfterSeparates`, ...), and `BuiltInv` says that a danmaku has its time for good when it
is first seen. `ReplayIsComplete` and `ReplayIsOrdered` follow. `QueriesAreDetermined` shows
that `ListSince`, a set of results, has exactly one member: there is one by induction on
the limit, since a set of danmaku has a first one in the order of the cursor, and two
results agree row by row (`ResultsAgree`).

**`SendChecksProofs`.** `LimiterInv`: an entry the cleanup dropped was older than two
intervals and only grows older, so the map knows the last send of a user for as long as
it could hold up the next (`MapKnows`). `AllowEffect` says what one call leaves of the
map; `LimiterHolds` follows for any interval, 0 included.

The rest of the module proves the matching of the block list correct, for every pair of finite lists,
every content and every alphabet that holds the images of the folded letters.
`AutomatonHolds` is the invariant of `buildACA`, whatever the order of the children:
`TrieInv` (the trie has the words and is closed under beginnings), `LinkInv` (a fail
pointer leads to the longest shorter node that its node ends in), `OutputInv` (a node
reports only words it ends in, and a linked one reports a word if it ends in any) and
`QueueInv` (the queue is sorted by length within one level, and a linked node outside it
has no unlinked child). The step that needs all four is `TargetIs`: the node that `Follow`
finds is no longer than the parent, so it is linked already (`UnlinkedBehind`), and its
output is final. `FollowIs` shows that the fail chain ends at the longest node the string
with one more character ends in, by induction on the length of the node; `MatchIs` that
the automaton is at the longest node that the text read so far ends in, until a node
reports, by induction along the text. On the side of normalisation, `FoldedIs` shows that
the passes over a string stay among the strings, and `OccursTrimmed` that trimming the
text loses no occurrence of a trimmed word. Together they give `VerdictsAreRight`: the
verdict is right about the folded content. Nothing is proved about the folding itself,
which is not what the test asks of it (`zero_width`).

Induction enters through sets: every nonempty set of natural numbers has a least member
(`Least`, from `NatLessThanWellFounded` and `WFMin`), so a set that holds 0 and with a
number the next holds all up to a bound (`UpTo`). `Recursion` is the existence of a
function defined by recursion along `0..n`; with it, what `LET f[i \in 0..n] == ...`
denotes satisfies its equation.

The proofs also corrected the models. `CASE` with overlapping guards is a choice the
language leaves open, although TLC takes the first; the chains of early returns in
`AfterReview`, `FindDanmaku`, `Notify`, `FindReport`, `EnqueuePage` and `Checked` are now
`IF`/`ELSE`, in the order of the code. In `BlockList`, `Follow` now recurs over the nodes
that have a fail pointer, the only ones a chain meets; over all nodes, the definition said
nothing while some had none.

**Only model-checked**: every liveness property (`AcceptedIsAnswered`, `ShutdownReturns`,
`BufferedIsWritten`, `HandshakeEnds`, `DepartureCompletes`, `SignalledRoomEnds`,
`AckedIsStored`, `SubscriptionRecovers`, `ShutdownStopsBridge`, `ReceivedIsPassedOn`),
because fairness is outside the prover's reach. Every safety property of a passing run is
a theorem.

## 5. Not modelled

- Authentication: registration and login are single store operations around bcrypt and
  JWT. `AuthMiddleware` appears as the valid token of a request.
- The handlers that only list (reports, audit log, flagged danmaku, history over HTTP),
  the readiness probe, configuration, metrics, logging, the benchmark and the scripts:
  they change no state that a decision depends on.
- `ModerationService.ResolveReport`, which no route calls.
- Wall-clock time, except in `RateLimiter` and `Reconnect`, where it decides: deadlines,
  back-off and expiry are actions that may happen.
- The contents of messages and the JSON envelopes; Unicode beyond the characters that
  `BlockList` names.
- Why the rooms drop a message that came over the bridge (no such room, a full
  `room.broadcast`): in `RedisBridge` it is a choice.

## 6. Plan

What would extend the project:

1. `KafkaPipeline`: a bound on how far `committed` and the marks may lie apart in a
   variant that commits, should the code begin to.
2. Registration (`service/auth.go`): its uniqueness race, as a module of its own.
3. `BlockList`: a normal form that is taken after the zero-width characters went, and the
   proof that nothing is hidden by them then.
