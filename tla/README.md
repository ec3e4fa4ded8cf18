# TLA+ verification of the GitHub release notifier

The repository is two Go processes around PostgreSQL, RabbitMQ, Redis and an
SMTP server. The **monolith** takes subscriptions over REST, polls GitHub for
releases and publishes commands; the **notifier** consumes them and mails. This
directory holds TLA+ models of their stateful parts, the TLC runs that check
them on small instances, and TLAPS proofs of the safety properties
these runs establish, for every value of the constants.

`PROJECT.json` lists components, runs, mutants, the map from definitions to
source lines, findings, hazards and theorems. Run a model with
`tlc -config <run>.cfg <MC module>` and the proofs with
`tlapm <module>Proofs.tla`, a module at a time; the longest takes a few minutes.

## The system and its parts

| Part | Code | State | Module |
|---|---|---|---|
| Saga orchestrator | `internal/saga`, `internal/sagaevent` | `saga_instances`, the waiters map, the reply queue | `SagaOrchestrator`, abstractly `SagaLifecycle` |
| Subscription service | `internal/subscription`, `internal/api/rest/subscription` | `subscriptions` with its partial unique index | `SubscriptionService`, composed with the saga in `SubscribeFlow` |
| Notifier and its clients | `services/notification`, `internal/client/notification` | `sent_notifications` ledger, two queues | `Notifier`, abstractly `NotificationLedger` |
| Release poller, GitHub client and cache | `internal/release`, `internal/client/github`, `internal/repository` | `last_seen_tag`, Redis entries, the worker pool | `ReleasePoller` |
| AMQP publisher | `internal/messaging/publisher.go`, `messaging.go` | the cached channel and its lock | `BrokerPublisher` |
| AMQP consumer | `internal/messaging/consumer.go` | one unsettled delivery, the session | part of `SagaOrchestrator` and `Notifier`; the reconnect loop in `NotifierProcess` |
| Rate limiter | `internal/api/rest/middleware/ratelimit.go` | the visitors map | `RateLimiter` |
| Log sampler | `internal/platform/logger/sampling.go` | the windows map | `LogSampler` |
| Subscribe request in real time | `internal/api/rest/subscription`, `internal/client/github`, `internal/app/http.go` | a clock, the repository's cache entry | `SubscribeRequest` |
| Migrations | `internal/platform/postgres`, `internal/app/db.go`, `services/notification/app/db.go` | `schema_migrations`, the advisory lock | `Migrations` |
| Boot and shutdown of the monolith | `main`, `internal/app` | resources, goroutines, open requests | `MonolithProcess` |
| Boot and shutdown of the notifier | `services/notification/main`, `services/notification/app` | resources, four workers | `NotifierProcess` |

How they interact: `Subscribe` reserves a `pending` row and calls
`StartAndWait`. The orchestrator persists a saga, publishes a
send-confirmation command and waits. The notifier's participant mails the link
and replies; the reply consumer completes or compensates the saga and wakes the
caller; the reaper compensates sagas whose reply is late. Following the link
makes the row `active`. The poller compares GitHub's latest release with
`last_seen_tag`, persists the new tag and only then publishes one command per
active subscriber, which the notifier's e-mail consumer mails.

## Conventions

* Every database, broker, Redis, SMTP and GitHub call is one step. Code between
  two calls that touches only local state belongs to the step before it.
* A call ends **ok**, **lost** (it failed without effect) or **late** (it took
  effect and the caller saw an error: a lost connection, an expired context, a
  missing publisher confirm). Anything but ok spends one of `MaxFaults`. In
  `SubscriptionService` failures are not counted, and a late write is the write
  followed by the end of the call.
* A crash loses what is in memory and returns unacked deliveries to their
  queue; tables and durable queues stay.
* Payloads, texts, traces and metrics are left out. A message is the saga, the
  key or the release it is about.
* Definitions under a comment `Mutant:` are faulty variants of the definition
  after them. No specification uses them; they document which mistake each
  property detects.

## Modules

**`SagaLifecycle`** (abstract). Per saga: a durable state, whether its command
was dispatched, whether its subscription was undone, and the caller's answer. It
promises that completion and undo exclude each other, that a dispatched saga is
undone only after a claim, is `failed` only after the undo, and that "ok" is
said only of a completed saga.

**`SagaOrchestrator`**. `pc` gives the program point of every `StartAndWait`
call, of the reply consumer and of the reaper. `Create`, `Publish`,
`PublishConfirm`, `ReceiveOutcome`, `TimeOut`, `Disconnect` and `ReturnError`
are `StartAndWait`; `ClaimCompensation`, `Get`, `Cancel` and `MarkCompensated`
are `compensate`, which all three kinds of goroutine run; `HandleReply`,
`CompleteIfAwaiting`, `SignalWaiter`, `Ack` and `Requeue` are the consumer;
`Reap`, `ReapNext` and `ReapDone` the reaper. `Transition` is the guarded
`UPDATE` of `store.go`. The waiter's channel of capacity one is a value, so a
second signal is dropped as in the code. The participant is an environment
action that may duplicate its reply. `misled` is a history: the sagas whose
command was queued, or which were completed, by a call that reported an error
(`HidingCall`). Sagas are numbered by deadline, so
`ORDER BY timeout_at LIMIT` is the smallest numbers. Replies that do not decode
are left out: only the participant writes to that queue.

**`SubscriptionService`**. A `Subscribe` call makes at most one row and one
token, so calls name both. `Reserve`, `UpdateToken`, `Upsert` and `Insert` are
the steps of `reserveSubscription`; `Insert` and `WriteStatus` fail where the
unique index refuses them. `ReadToken` and `WriteStatus` are the two database
calls of `Confirm` and of `Unsubscribe`; between them anything can happen.

**`SubscribeFlow`** composes the service with `SagaLifecycle` (the
specification the orchestrator is shown to implement) through a shared step:
the saga's `Undo` *is* `SagaCanceller.Cancel` on the row. `Email` is the
participant's mail; only mailed tokens are clicked.

**`Notifier`**. Tasks (saga commands, e-mail commands, calls) go through
`Reserve`, `Send`, `Confirm` and then `Reply` or `Settle`. The ledger is the
two-phase one: a reserved row can be reserved again, a sent one cannot. Each
queue has one consumer goroutine; calls run concurrently. The constant
`StatementsOpen` says whether the ledger's prepared statements are open. The
client of a call may stop waiting (`GiveUp`: `CallTimeout`, `restTimeout`); the
handler goes on with a done context, so its remaining calls may fail without
spending a fault.

**`NotificationLedger`** (abstract). Per dedup key: attempts to mail, mails,
whether it is recorded as sent and whether somebody was told so. It promises that
no attempt starts once the key is recorded, that record and report come after a
mail, and that neither is withdrawn. `Notifier` implements it by counting the
handlers at `send`, the confirmed rows, and the keys that a saga reply, an acked
command or the answer of a call reports.

**`ReleasePoller`**. The poller goroutine with its cache-aside read
(`CacheGet`, `GetLatestRelease`, `CacheSet`), `Decide`, `UpdateLastSeen`,
`GetEmailsByRepo`, the worker pool (`TakeJob`, `SendOne`, `NotifyDone`) and
cancellation. `RateLimited` and `Backoff` are the client's loop over 429
answers. A call made after cancellation fails. `redisDown` records that a Redis
call failed, or the ping at boot. Releases are numbered and
only grow (a deleted release is not modelled), and the subscribers are fixed
during a behaviour. `last_checked_at` is written and never read: left out.

**`BrokerPublisher`**. Concurrent `Publish` calls over the cached channel: the
read-locked lookup, the re-check and redial under the write lock, the confirm,
`resetIfCurrent`, and `Close`. What follows a dial (channel, confirm mode,
declarations) belongs to its step. A dial whose caller's context ended goes on
(`GiveUp`, `DialLate`) until its connection is closed in the background
(`CloseStray`).

**`RateLimiter`**. The fixed window with a clock finer than a second, so the
rounding of `Retry-After` matters, and the cleanup at any time. `admitted` is the
history of when a client's requests passed, `refused` tells of a 429 in the present
tick. The code reads the clock under the mutex, so a request is one instant.

**`LogSampler`**. `sampler.allow` over a clock, for the one sampler that all
loggers of a process share. The code reads the clock before it takes the mutex, so
`Handle(k, t)` acts on a time `t` up to `MaxWait` old, and records may come out of
order. Two histories state the properties: `logged`, when the records of a message
got the mutex, and `written`, how many of them had been written after each.

**`SubscribeRequest`**. `POST /subscribe` in seconds since its header was read:
the cached repository check (`CacheGet`, `Found`), `doRequest` with its retries
(`CallGitHub`, `NextWait`, `WaitOver`), the reservation, the publish and the wait
for the saga, the write timeout (`Answer` tells what the handler answered from
what the client heard) and the shutdown (`Signal`, `Exit`). A step chooses the
instant at which its call ends among `Lengths` and its timeout. The AMQP calls of
a redial after the handshake (`publisher.go:109-121`) and the closes of a channel
(`publisher.go:150-160`) have neither a context nor a timeout: how long the broker
keeps them is chosen from `Stalls` and recorded in `stalled`. Database and
Redis calls take no time. The table and the saga's states are in the modules
above; here only how long things take matters.

**`Migrations`**. Instances that boot against one database: `runMigrations`
(`Begin`, `Stop`, `TellStop`), golang-migrate's lock, dirty mark, transaction and
clean mark (external), then `Open`, the two pings. A signal tells the run to stop
between two migrations, a fault ends a boot or kills a process anywhere.

**`MonolithProcess`**. Boot acquires six resources in order; each acquisition
registers the resource with the `closers` of `buildDependencies` or with the
deferred calls of `Run`, and closing works off these lists. A boot step that is
given the process context fails once a signal came; the broker publishers only
connect later and do not. Serving ends by a signal (`BeginShutdown`, `Drained`,
`PollerAwaited`) or by an error of the listener (`ServerError`), which does not
drain. One clock, `Expire`, is the deadline of both waits.

**`NotifierProcess`**. The four workers of `runServers` with one call or
delivery in progress each: servers listen, serve and drain; consumers dial, have
a session, pause and dial again. `Return` cancels the shared context. A boot that
fails closes what the branch of its failed step closes (`ClosedBy`) and then what
the deferred function does. As in the code, the ledger is closed again when
`buildDependencies` returns. gRPC's `GracefulStop` waits for handlers even after
`Stop`; the REST server's `Shutdown` gives up at its deadline.

The modules **`*Proofs`** hold the theorems, see Proofs below. The `MC*` modules
only extend a module and add what its configuration needs. `MCProcesses` (both processes, the
migrations, the publisher) and `MCRequestPath` (limiter, sampler, subscribe
request) each hold parts that share no state, and let a behaviour be of one of
them; their properties are conjunctions of the parts' properties.

## Runs

Passing:

| Run | Checks | Bounds |
|---|---|---|
| `Saga_faults` | the inductive invariant `IInv` with `TypeOK`, `OkIsFinal`, `NoLostWakeup`, `FailedNotCompleted`, `ImplementsLifecycle`, `CallersReturn`, `AwaitingIsLeft` | one saga with two faults of any kind and two copies of a reply; or two sagas and a reaper batch of one, with no fault and one reply at a time (`OneOrCalm`) |
| `Flow_table` | `IInv` with `TypeOK`, `AtMostOneLive`, `RefreshSingleWinner`, `DoubleOptIn`, `OkRowStays`, `LinkWorks` | three `Subscribe` calls and one click on one pair |
| `Notifier_shared` | `IInv` (with `TypeOK` and `ReportedIsMailed`: `SentReplyIsTrue`, `SettledIsMailed`, `CallAnswerIsTrue`), `DuplicatesPaid`, `ImplementsLedger`, `CommandsSettle` | a key shared by a saga command, two e-mail commands and a call that may time out; two malformed messages; two faults |
| `Poller_once` | `IInv` with `TypeOK`, `AtMostOnce`, `EventuallySeen`, `SubscribersNotified`, `PollerStops` | one repository, two releases, three subscribers, two workers, one retry, two faults, shutdowns |
| `Process_lifecycle` | `PartsInv`, the inductive invariants of the parts with their `TypeOK`; of the processes `NothingLeftOpen`, `CleanExitAnswered`, `WorkKeepsResources` (`PollerDrained` and `HandlersKeepResources`), `ConsumersComeBack`, `ProcessesExit` (`MonolithExits` and `StopsTogether`); of the migrations `SchemaBeforeServing`; of the publisher `FailsForACause`, `NoLeak`, `StrayIsClosed`, `RedialKept`, `PublishCallsReturn` | two requests, one fault in the monolith, two in the notifier; two instances, two migrations, two faults; three `Publish` calls, `Close`, two faults |
| `Request_path` | `PartsInv` (the inductive invariants of limiter, sampler and subscribe request, with their `TypeOK`), `WindowsBound` (`BurstBound` and `FloodThinned`), `TurnedAwayWasOver` (`RefusedWasOver` and `DroppedWasFlood`), `RetryAfterHonest`, `HandlerBounded`, `NotFoundIsTrue` | limit two, window of three ticks, two ticks per second, eleven ticks; sampler keeping one, then one in three, windows of three ticks over nine, a wait of at most one tick for the mutex, eight records; two subscribe requests with the code's timeouts and a broker that stalls for 100 s or not |

Failing, each showing a disagreement between the code and what the repository
says of it:

| Run | Property | What TLC shows |
|---|---|---|
| `Saga_failed_completed` | `FailedIsNoSuccess` | `Publish` reports an error for a command the broker stored, the saga completes before the compensation claims it, and the caller is told `ErrConfirmationFailed` |
| `Saga_stranded` | `EventuallyFinal` | a saga left in `compensating` by a failed call or a crash is never listed by the reaper |
| `Flow_active_undone` | `CompensatesPendingOnly` | the user confirms while the saga is being compensated; the active row is cancelled |
| `Flow_resurrected` | `StatusMachine` | `Confirm` read `pending`, the row was unsubscribed, `Confirm` writes `active` |
| `Notifier_as_wired` | `CommandsSettle` | `buildDependencies` leaves the ledger's statements closed, so commands are requeued for ever |
| `Request_unanswered` | `RealAnswer` | the saga's outcome arrives after the server's write timeout: the handler answers 200, the client hears nothing |

Why the bounds suffice. One saga meets every pair of its own actors (caller,
consumer, reaper) and two faults cover the deepest case, a lost compensation
followed by a crash; the second saga adds what sharing the consumer and a batch
smaller than the backlog can do. `OneOrCalm` cuts off states with two sagas by
arrivals, faults and replies only, of which no fairness is assumed, so the liveness
properties still see every continuation that must happen. A refresh race needs a
third call that made the row. One pair is enough because no operation reads two pairs. In `Flow_table` the answers other
than "ok" are represented by "timeout": the service treats them alike. Two
faults and three ways to one ledger key reach a concurrent reservation with a
crash after it. Three subscribers exceed the two workers. One retry stands for
the client's three: it has a last attempt and one before it. In the processes
one fault meets every boot step, and two let a worker fail while another is
reconnecting. Two migrations have a stop and a crash between them, and two
instances a holder of the lock and one that waits. In the publisher two faults
kill a channel and then fail the call that still holds it, or its redial. `SubscribeRequest` runs with
the code's own numbers (10 s write, client and shutdown timeouts, 3 retries, 120 s
reset cap, 5 s publish, 30 s saga and dial); calls last 0, 1 or 9 seconds or until
their timeout, which puts answers on both sides of every deadline.

The release path is not a run of its own. What the poller can do to the notifier
is to publish a command more than once, and two e-mail commands with one key in
`Notifier_shared` are that.

Conditions that are part of a property: `NoLostWakeup` and
`FailedNotCompleted` except the sagas in `misled`. A database error after the
commit of a completion makes the consumer requeue a reply whose second delivery
finds nothing to do, and the caller times out; a publish that fails after the
broker stored the command is what `Saga_failed_completed` shows. `AtMostOnce` is
claimed until a Redis call fails (`redisDown`); the other properties of the
poller hold whatever Redis does. `HandlerBounded` is relative to the longest
`Retry-After`, which the code does not cap, to how long the broker keeps the AMQP
calls without a timeout (`stalled`), and to a publisher that is not already
dialling for somebody else. `NotFoundIsTrue` is about the instant of the
answer. `OkRowStays` leaves out rows that
several sagas share; `LinkWorks` is about a link that still names its row, and
leaves out users who left and rows that its own or another saga undid: a
re-subscribe hands the *same* row to a second saga, and when the first is
compensated the shared row goes, whatever the second was told.

Deadlock is checked where the system has background work (`Saga_*`,
`Poller_*`); the others may end when all requests are done.

### Fairness

Goroutines that can take a step do (weak fairness of each request, of
`compensate`, of the consumer, the reaper, the poller and its workers), which is
what Go's scheduler and the timeouts of remote calls give, with the exception of
the AMQP calls that follow a dial (below). Time passes
(`Expire` of the saga clock and of cache entries). `BrokerPublisher` assumes
strong fairness of a `Publish` call, because `sync.RWMutex` does not starve a
waiter, and that the broker answers in the end. For a confirm `publishTimeout`
sees to that; for the calls that follow a dial it is an assumption about the broker, which every
liveness property of a part that publishes or consumes rests on.
`ConsumersComeBack` is about a broker that stays up in the end: faults are bounded.
Nothing is assumed of the notifier in `Saga_faults`, of clients, of crashes and of calls to the notifier.
In `Process_lifecycle` the main goroutine, the workers and the clocks run.
Handlers of the queues and of gRPC return, because each remote call they make has
a timeout or a context, the AMQP calls after a dial again excepted; the monolith's requests, its poller and REST handlers may
hang. `SessionEnds` is strongly fair because `select` chooses at random.
`CommandsSettle` follows because faults are bounded: "once calls stop failing".
`EventuallySeen` needs cache entries to expire, as they do for a positive
`REDIS_CACHE_TTL`. `Request_path` and `Migrations` state safety only.

## Proofs

Every theorem is about the specification the runs check, with the constants
left open. The pattern is the same everywhere: an inductive invariant `IInv`,
defined in the module of the component and checked by the component's run;
`Init => IInv`; one lemma per action or group of actions for
`IInv /\ [Next]_vars => IInv'`; the property from `IInv`. Two proofs need a second
invariant, `HonestInv` of the saga and `PaidInv` of the notifier; the runs check
the properties these imply.

| Module | Proved | For every |
|---|---|---|
| `SagaOrchestratorProofs` | `IInv`, `OkIsFinal`, `ReplyHasSaga`, `ImplementsLifecycle` and, through it, `SingleWinner` and the action property `WinnerIsFinal` of `SagaLifecycle`; `NoLostWakeup` and `FailedNotCompleted` | number of sagas, batch size, fault bound, set of outcomes |
| `SubscribeFlowProofs` | `IInv`, `AtMostOneLive`, `RefreshSingleWinner`, `DoubleOptIn`, `OkRowStays`, `LinkWorks` | set of calls, clicks and pairs |
| `NotifierProofs` | `IInv`, `ReportedIsMailed`, `DuplicatesPaid`, `ImplementsLedger` | finite set of commands and calls, keys, forms, fault bound; statements open or not |
| `ReleasePollerProofs` | `IInv`, `AtMostOnce` | set of repositories and subscribers, number of releases, workers, retries, faults |
| `BrokerPublisherProofs` | `FailsForACause`, `NoLeak`, the action property `RedialKept` | finite set of `Publish` calls, fault bound |
| `LogSamplerProofs` | `IInv` of the sampler, with `FloodThinned` and `DroppedWasFlood` | set of messages, settings, longest wait for the mutex, number of records |
| `ProcessesProofs` | `PartsInv`, `NothingLeftOpen`, `CleanExitAnswered`, `WorkKeepsResources`, `SchemaBeforeServing` | set of requests, of instances, of calls, fault bounds |
| `RequestPathProofs` | `PartsInv`, `WindowsBound`, `TurnedAwayWasOver`, `RetryAfterHonest`, `HandlerBounded`, `NotFoundIsTrue` | limit, window, tick and timeout, set of clients and messages, setting of the sampler, number of retries, headers GitHub may send, stalls of the broker |

The assumptions are the `ASSUME`s of the modules, evaluated by TLC in the runs:
constants that are numbers are naturals (positive where zero makes no sense, as
for a limit or a batch), sets of different things are disjoint, `NoRow` is no
row and `Nobody` no instance, and `Callers` and the notifier's tasks are finite
where a proof counts them. `RequestAssumption` also asks for a longest
`Retry-After`, which `HandlerBounded` is relative to, and states that the powers of
two up to the backoff's cap are between 1 and that of the cap, a fact of
arithmetic the provers do not know. `SamplerAssumption` asks for positive settings,
which `newSampler` sees to, and for a longest wait for the mutex, which the bounds
of the sampler are relative to. Nothing is assumed about the order of steps.

### Why the invariants are what they are

**Saga.** `OkIsFinal` is not inductive. An "ok" comes out of the waiter's
channel, so the channel may hold "completed" only for a completed saga, so the
consumer may be about to signal completion only after it made the transition
(`AnswerAgrees`, `ConsumerAgrees`). That the saga is not cancelled needs that
whoever is past the claim in `compensate` works on a saga that can no longer
complete (`CompensatePast`), that a cancel without a claim happens only where the
command never left (`CancelJustified`, `QuietRequest`), and that completions are
only about commands that did (`PublishedFirst`). `Persisted` carries
`ReplyHasSaga`. The proof goes through `Moves`, a summary of what a step may do to
each piece of the state: each action keeps to it, and `IInv` survives whatever
does. The refinement has one case per action, each a step of `SagaLifecycle` or a
stutter. `SingleWinner` and `WinnerIsFinal` are proved of `SagaLifecycle`, where they
take a page, and hold of the orchestrator because it implements it. `NoLostWakeup` and `FailedNotCompleted` need a second invariant,
`HonestInv`: a request that waits has a channel; of a saga that is not in `misled`,
a request that compensates has published nothing and a channel is empty after the
completion only until the consumer signals; and the consumer signals a failure
only of a final saga.

**Subscriptions.** The index and the compare-and-swap on the token give
`AtMostOneLive` and `RefreshSingleWinner` only together with `SeenAgrees` (a token
that was replaced never comes back) and `CallAgrees` (who has a row, and since
when). `RowAgrees` says who can have ended a row, which is what `OkRowStays` and
`LinkWorks` turn around; `ClickAgrees` carries the token's check over to the later
write. The saga enters only through `SagaAgrees`, which `SagaLifecycle` keeps.

**Notifier.** `ReportedIsMailed` needs that a confirmed row, a task about to
confirm and a task with a good outcome all have their mail. `ImplementsLedger` maps
attempts to the number of handlers at `send`, so its proof counts a finite set
that gains or loses one element. `DuplicatesPaid` is a budget: `Paid` adds to the mails sent
the goroutines that may still mail without a further fault (`Fresh`), and shows
that only a fault raises the sum, by at most the number of goroutines
(`OneAtATime`: each has one task in hand).

**Poller.** `AtMostOnce` holds because tags only move forward (`TagsOrdered`), what a
scan carries is no older than what is stored (`ScanAgrees`), and a command exists
only for a tag that is recorded, once (`CommandsOnce`): the tag is persisted before
the fan-out. All of it is guarded by `redisDown`, as the property is.

**Publisher.** The holder of the write lock is the dialling call, and nothing is
cached meanwhile, so a redial never overwrites an open channel. `Undisturbed` says
that without a fault or a `Close` everybody works on the one open channel, which is
why nobody fails. `given` counts the
dials left behind and is at most the number of failed calls, which bounds it.

**Migrations.** The holder of the advisory lock is the one inside the run
(`BootAgrees`); below the version each migration ran once, above it never, and the
one at the version is in doubt only while the version is dirty (`SchemaAgrees`),
which stops everybody else.

**Processes.** Whatever is held is registered with a closer, at every step of boot
and shutdown; requests and goroutines are bounded by the phase. The lemmas about
`Range` say what `Append`, a push and `Tail` do to it. The theorems about the
publisher are instantiated in `ProcessesProofs`, which also holds those about the
migrations, so that the safety of all four parts is proved of `LifeSpec`, which the
run checks.

**Request path.** For the limiter, a client is told a time after its window's end,
or the window has ended. `BurstBound` needs to know which requests the window
counts: `EntryAgrees` says that they are the last `count` ones of the client's past,
that the first of them opened the window, and that it came more than a window
after the request `Limit` places before it. `TwoWindows` then spans two windows.
For the sampler, `WindowAgrees` says the same of the records, that of the first `m`
of a window `KeptOf(m)` were written, and bounds how many were written in the tail of
the window before: a stretch that a window's length can cover is such a tail and
the beginning of the present window, and lemmas about quotients add the two up.
That records come out of order costs `MaxWait` on either side: `FloodThinned` is
about stretches of `Interval - MaxWait`, `DroppedWasFlood` about ones of
`Interval + MaxWait`. For the handler, `IInv` bounds the time at which each of its steps can
begin by the timeouts before it; the bound of the last is `HandlerBounded`.

### Only model-checked

* All liveness (`CallersReturn`, `AwaitingIsLeft`, `CommandsSettle`,
  `EventuallySeen`, `SubscribersNotified`, `PollerStops`, `ConsumersComeBack`,
  `ProcessesExit`, `StrayIsClosed`, `PublishCallsReturn`): fairness and `ENABLED` are out of this
  prover's reach.
* The disagreements the failing runs show are counterexamples and have no proof.

## Behaviour the properties step around

Seen while modelling, stated here without a run of its own:

* `StartAndWait` may time out and the saga still complete when the reply comes
  before the reaper; the README's 503 ("subscription was rolled back, safe to
  retry") then does not hold, while `docs/system-design.md` calls the outcome
  unknown.
* `compensateQuietly` logs an error and the caller hears
  `ErrConfirmationFailed` although nothing was compensated. The case in which it
  finds a completed saga has a run, `Saga_failed_completed`.
* `UpdateToken` compares the token and not the status, so a refresh may give a
  new token to a row that was confirmed or cancelled meanwhile.
* An error of the ledger's `Confirm` is only logged; together with a failed
  reply the redelivered command is mailed again.
* A Redis read error falls through to GitHub while a stale entry stays in Redis
  (`cached.go:87`). Scans can then see the new tag, the old one and the new one
  again, and each change notifies, although `docs/system-design.md:572` says
  "at most one time". The notifier's ledger normally absorbs the copy.
* `http.go:60` says "Drain poller regardless of Shutdown outcome", but the wait
  shares the deadline with `srv.Shutdown`: if requests use it up, the poller is
  not waited for. `PollerDrained` is therefore about the time before the
  deadline.
* A signal cancels the saga reply consumer at once, so a request that waits for
  a reply can only run into the shutdown deadline, and the exit code is 1. The
  consumer and the reaper are not waited for before the database is closed.
* A `REDIS_CACHE_TTL` of zero or less is accepted and means no expiry, so the
  first release cached would be served for ever.
* A process that dies inside a migration leaves a dirty version, which every
  later boot refuses until it is repaired by hand. `SchemaBeforeServing` holds.
* `runMigrations` returns nil when a signal stopped it half way. What keeps such
  a process from serving is that the pings that follow use the same context.
* The redial holds the publisher's mutex, which knows no context: with the broker
  away, callers wait for each other's dials one after the other. A broker that
  stalls after the handshake holds them for as long as it keeps the connection up,
  because the calls that follow have no timeout.
* A mail that SMTP refuses for good makes its command circulate: every failure
  requeues. `CommandsSettle` is about failures that end.
* `Metrics` decrements its in-flight gauge after the handler without `defer`, so
  a panic leaves it one too high (`middleware/metrics.go:57`).
* `Retry-After` in seconds is multiplied into nanoseconds; a value of centuries
  would overflow. Such values are outside `RetryAfters`.

## Not modelled

Configuration, trace ids, metrics, health checks, templates, input parsing, the
router and the stateless middleware (API key, headers, access log, trace),
generated code: stateless, pure formatting or I/O, with no state that two steps
could disagree about. In the modelled parts: `clientIP`, the SMTP dialogue (one
step), the transports of the verify-email clients (dialling, pools, headers),
`GetActiveByEmail` (a read), the single statements a repository prepares, and a
request that reaches a server over a kept-alive connection while it is closing.
Outside `SubscribeRequest`, waits and timeouts have no length: a clock may run out
at any time.

## Plan

1. Done: the models of all stateful parts; their abstract specifications; proofs
   of their safety properties.
2. Possible: the lengths of several callers' waits on the publisher's
   mutex; the monolith's shutdown composed with the saga's table.
