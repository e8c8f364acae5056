# TLA+ models of the gateway

Specifications of the parts of this repository in which quota can be lost or
given away (the billing session of a request, the life of an asynchronous task,
the choice of a channel with its retries) and of the two pages of the web console
with a concurrency of their own (the playground with its agent, the image
playground). The server is modelled at the granularity of one database, cache or
upstream call per step, the pages at that of one event handler or continuation of
an `await` per step. The models are checked with TLC on small instances; the
invariants, the action properties and the refinement that the passing runs check
are also proved with TLAPS for all instances (some under hypotheses that section 5
explains), so that liveness alone rests on TLC.

`PROJECT.json` lists the components, the runs, the source lines of every
definition, the findings, the hazards and the theorems.

## 1. Inventory of the system

The repository is an API gateway for language, image, video and music models
(a fork of new-api): Go server (`controller`, `middleware`, `model`, `relay`,
`service`, `setting`), two web consoles (`web`), a desktop shell (`electron`).
A request passes authentication, rate limits and the distributor, which selects
a channel (an upstream account); the relay converts it for the provider,
retries it on other channels, and charges the user's wallet or subscription and
the API token. Tasks (video, Suno) are submitted the same way and polled by a
background loop. Several nodes share one database (and Redis, if configured);
every node with `NODE_TYPE` other than `slave` runs the background loops.

| Component | State | Operations | Interacts with | What is hard | What makes it correct |
|---|---|---|---|---|---|
| Billing session (`service/billing_session.go`, `funding_source.go`, `billing.go`, `quota.go`, `relay_error_billing.go`, `violation_fee.go`) | `BillingSession` in memory; wallet, token, subscription and pre-consume record in the database | NewBillingSession, Reserve, Settle, Refund, TrySettleRelayErrorBilling, ChargeViolationFeeIfNeeded | relay loop (calls), refund goroutine, database | two accounts per step, fall-back between payers, asynchronous refund, retried refund, crash | charged exactly once, by one payer unless a task starts over after a failed write, token follows payer, nothing given back twice, one verdict |
| Asynchronous tasks (`service/task_polling.go`, `task_billing.go`, `model/task.go`, `relay/relay_task.go`) | rows of `tasks` | RelayTask (end), TaskPollingLoop, sweepTimedOutTasks, updateVideoTasks, updateSunoTasks, RefundTaskQuota, RecalculateTaskQuota, tryRealtimeFetch | upstream (polling), billing, other nodes | several pollers, sweeper and queries over one row, stale copies, lost acknowledgements | billed once, never opened again by a poller, every task ends or is left at 100% |
| Channel selection and status (`service/channel_select.go`, `model/channel_cache.go`, `model/channel.go`, `service/channel.go`, `middleware/distributor.go`, `controller/channel-test.go`) | `channelsIDM`, `group2model2channels`, `channels.status`; retry counter and group index in the request's context | Distribute, getChannel, shouldRetry, processChannelError, UpdateChannelStatus, InitChannelCache, testAllChannels | relay loop, database, administrators, other nodes | counter that is reset while the loop counts, rebuild against update, stale snapshot of the test | bounded attempts, no group overlooked, cache consistent and convergent |
| Image playground (`web/default/src/features/image-playground`, `controller/playground.go`, `model/playground_image_task.go`) | conversations in React state and in localStorage, `isGenerating`, pollers; rows of `playground_image_tasks` | handleSubmit, waitForImageTask, resume effect, sidebar; createPlaygroundImageTask, runPlaygroundImageTask | relay (through the task's goroutine), localStorage | handlers with old closures, an effect that cancels itself, reloads, a full storage, a restarted server | pictures reach their own entry, a pending task survives a reload, a submission ends and gives up its lock |
| Playground chat (`web/default/src/features/playground/hooks`, `lib/storage.ts`, `lib/message-utils.ts`) | conversations in React state and under four keys of localStorage; refs of the stream | sendChat, startStream, handleError, stopStream, edit, regenerate, delete, sidebar | relay (SSE), agent (same conversations) | callbacks that write to "the last message of the active conversation", refs shared by all requests, reconnections, partial saves, a submit that waits for its attachments | one generation at a time, it writes its own message, ends, and leaves nothing loading |
| Playground agent (`web/default/src/features/playground/index.tsx`, `lib/agent-tools.ts`) | `agentStreamControlRef`, pending approvals, the run's own array of messages | runAgentConversation, requestToolApproval, executeAgentToolCalls, stopAgentGeneration | relay (Responses stream), the user's workspace or helper | runs that outlive a Stop, arrays written over each other, approvals by promise | nothing is changed without approval, calls and results stay paired, runs end |
| Subscriptions (`model/subscription.go`) | plans, orders, `user_subscriptions`, ledger, records | order completion, rolling limits, cancel, invalidate, delete, expire, cleanup | billing session, payment webhooks, top-ups | row locks, repeated cancellation, windows | refunded once, limits hold |
| Realtime billing (`relay/channel/openai/relay-openai.go`, `service/quota.go`) | usage of the connection | PreWssConsumeQuota, PostWssConsumeQuota | billing session | two goroutines, charges beside the session | charged once |
| Quota caches, batch updater (`model/utils.go`, `user_cache.go`, `token_cache.go`) | Redis hashes, in-memory stores | fill, HINCRBY, flush | every debit | asynchronous fill, crash | cache follows the database |
| Rate limits (`middleware/model-rate-limit.go`, `common/limiter`) | Redis lists, token bucket | check, record | every request | check and record apart | the limit holds |
| Top-ups and redemption codes (`model/topup.go`, `model/redemption.go`) | orders, codes | webhook, redeem | payment providers | repeated delivery | credited once |
| Midjourney (`controller/midjourney.go`, `relay/mjproxy_handler.go`) | rows of `midjourneys` | poller, notification | upstream | two unguarded writers | as for tasks |
| Provider adaptors, pricing expressions, affinity rules, authentication, OAuth, settings, logs, the rest of the consoles | - | - | - | data conversion or administration | not modelled, see section 7 |

## 2. Plan

Order of work, the most important behaviour first:

1. `BillingSession` with the abstract `BillingContract` (done), its invariants
   and the refinement proved in `BillingSessionProofs`, `BillingLedgerProofs` and
   `BillingContractProofs` (done).
2. `TaskPolling` (done), proved about in `TaskPollingProofs` (done).
3. `ChannelSelect` (done), proved about in `ChannelSelectProofs` (done).
4. `ImagePlayground` (done), proved about in `ImagePlaygroundProofs` (done);
   `PlaygroundState`, `PlaygroundChat` and `PlaygroundAgent` with their
   composition `Playground` (done), proved about in `PlaygroundProofs` (done).
5. `Subscription`: plans and orders, rolling limits, cancellation refunds, with
   and without row locks (`BillingSession` has the pre-debit, settlement and refund
   of one subscription, with and without).
6. `RealtimeBilling`: the charges of a connection beside its billing session.
7. `QuotaCache` and `TopUp`, then `RateLimiter` and Midjourney.
8. Extensions of `ChannelSelect`: several keys per channel, deleted channels,
   the failing query at the start of a test round.

Proofs: of the modules that exist nothing but liveness is left to TLC; the modules
of items 5 to 8 bring their own.

Abstract specifications: `BillingContract` states what `BillingSettler`
(`relay/common/billing.go`) promises. A ledger in which each task has one
outcome is planned for `TaskPolling`.

## 3. Modules

### BillingSession, BillingContract

One user with a wallet, a token and a subscription, and a set of requests.
`pc[r]` is the place of the goroutine that serves request `r`, `rpc[r]` that of
its refund goroutine; `sess[r]` holds the fields of `BillingSession` and of its
funding source under their Go names; `record[r]` is the row of
`subscription_pre_consume_records`; `balance` holds the three accounts. Every
write takes an outcome from `Outcomes`: applied (`ok`), not applied (`fail`), or
applied although the caller sees an error (`lost`). `taken` and `trouble` are
history variables: what each account has lost to a request, and whether one of
its writes did not end `ok`. The charges are exact for requests without trouble;
the prohibitions (no over-refund, one verdict) hold for all.

`Begin` to `TokenRollback` are NewBillingSession with preConsume. A rejection is
final for `controller.Relay`, but not for RelayTask: TaskErrorFromAPIError
(`service/error.go:211`) drops "skip retry", shouldRetryTaskRelay
(`controller/relay.go:610`) lets 403 and 500 pass, and RelayTaskSubmit
(`relay/relay_task.go:206`) pre-consumes again as long as `info.Billing` is nil.
`RetryTask` is this, at most `RetryTimes` times; `FoundRecord` is the record a lost
acknowledgement has left for the second try. A wallet debit whose acknowledgement
was lost, followed by a retry that ends with the subscription, takes quota of both
payers: `OnePayer` says that nothing else does. `Reserve...`
are Reserve and its roll-back; `SettleFunding` and `SettleToken` are the two
halves of Settle; `SettleError`, `Refund`, `FeeFunding` and `FeeToken` are the
deferred error path of `controller.Relay`; `RefundWallet`, `RefundSubscription`,
`RefundExtra` and `RefundToken` are the refund goroutine with refundWithRetry.
`Expire` ends the subscription and `Crash` the process.

`BillingContract` knows two variables, the verdict on a session and what the
payer is out of pocket. `KeepsContract` maps `sess` and `taken` to them.

A transaction of `model/subscription.go` reads the row of the subscription,
computes, and saves the whole row. The code asks for a row lock with
`Set("gorm:query_option", "FOR UPDATE")`, which the gorm 1.25.2 of `go.mod`
ignores, so nothing but the isolation level of the database keeps two transactions
apart. `RowLocks` tells whether it does: with it a transaction is one step, without
it `ReadRow` notes in `rowRead` what the transaction has read, and what is saved
later is computed from that. Users and tokens are updated by one statement each.
`SubscriptionBooks` holds with `RowLocks` and is violated without
(`billing_lost_update`); everything else is claimed either way. `Limited` lets the
rolling limits, or a plan that excludes the model, refuse a debit at any time.

### TaskPolling

`row` is the table of tasks, `mem[p]` the copies an actor has read. Actors are
the polling loops of the nodes (`Pollers`) and users' queries (`Fetchers`).
`Sweep` to `SweepTask` are sweepTimedOutTasks, `List` and `Dispatch` the body of
the loop with its bulk failure, `FetchVideo` and `WriteVideo` are
updateVideoSingleTask, `FetchSuno` and `SaveSuno` updateSunoTasks (whose refund
comes first, whose write is unguarded), `AdjustFunding` and `AdjustToken` the two
halves of a refund or recalculation, `Query` and `QueryWrite` tryRealtimeFetch.
`Wins` is the guard of UpdateWithStatus. The upstream is external: it may answer
with any member of `Answers`, with an error, or (`StrayItems`) with an item
nobody asked for. A Suno item may bring a submit time of its own
(`task_polling.go:231`), which the sweeper's cutoff then goes by: `SaveSuno` takes
the task out of `aged`.

Three things the code does are named by the properties rather than ruled out:

* A query may open a task again that the sweeper has failed and refunded, because
  the upstream still works on it (`relay/channel/task/gemini/adaptor.go:226-229`,
  `relay_task.go:476-477`): its next failure refunds it a second time. `reopened`
  records it, and `NeverOverRefunded` makes no claim about such a task.
* An answer "in progress, 100%" (`task_polling.go:469-471`), or a Suno item with a
  reason and a status that is not terminal (`:234-236`), leaves a row at 100% that
  has not ended. Neither query of `model/task.go` (lines 294, 310) selects it, so it
  stays like that for ever. `TaskEnds` names the case (`Forgotten`).
* A stray item ends the goroutine of the loop. `TaskEnds` and `KeepsPolling` name
  the case (`NobodyPolls`, `pc = "dead"`).

### ChannelSelect

One node with the memory cache. `db` is the status column; `idm` and `listed`
are channelsIDM and the lists of group2model2channels. `Distribute`, `Prefer`
and `Refuse` are the distributor, `Fail`, `Retry` and `Succeed` the loop of Relay.
`FindAuto` is the search over the auto groups with its two resets of the
counter. `Lock`, `UpdateCache`, `UpdateRead` and `UpdateSave` are
UpdateChannelStatus under channelStatusLock; `SyncRead`, `SyncFails`, `SyncSwap`
and `SyncPanics` are InitChannelCache, run by the timer and by the handlers of
administrators (`Syncers`); `TestStart` and `Test` are testAllChannels;
`Administer` is a write to the shared database by an administrator or another
node. A draw by weight is a choice among the channels that can
be drawn. When a request ends its context is forgotten.

InitChannelCache drops the errors of both of its queries. Without channels it swaps
in an empty cache (`SyncFails`); with channels and without abilities it assigns to a
nil map (`channel_cache.go:50`) and panics, which the timer's goroutine does not
survive and the process neither (`SyncPanics`, `Restart`), while a handler is
recovered. `seen` is a history variable: the groups a request's search has looked
into. Disabling a channel after an error is up to the model where the code asks
settings (`service/channel.go:46`, AutoBan), so the model allows more.

### ImagePlayground

The page is one thread: an asynchronous function is cut at its awaits, and what
runs between two of them, with the render of the states it set, is one step.
`conversations`, `active` and `isGenerating` are the page's states, `stored` is
localStorage (a save may fail, or write the first of two keys only), `waits` the
calls of handleSubmit and waitForImageTask that wait for an answer, `converting`
the forms whose attachments are being converted, with the messages of the render
they belong to. `tasks` and `workers` are the server's rows and goroutines;
`ServerRestarts` drops the goroutines and leaves the rows. `EffectDue` and
`ResumePending` are the effect that resumes pending tasks, which runs before any
other event. Entries, submissions and tasks share a key, so that `ImagesOwn` can
say whose pictures an entry shows.

### PlaygroundState, PlaygroundChat, PlaygroundAgent, Playground

`PlaygroundState` holds the conversations, their copy under the keys of
localStorage, and the operations on both. `PlaygroundChat` adds the streamed
answers: the refs (`sseSource`, `retryTimeout`, `isStreamComplete`,
`streamStopped`) under their names, and the open connections with the call of
sendStreamRequest each belongs to, which the code does not know. `PlaygroundAgent`
adds the runs of the agent, each with its `workingMessages`. `Playground`
composes them with the user's operations and their locks.

A text is the set of its origins: the numbers of the connections that have sent a
part of it, and 0 for what the page itself has written. That is what `NoMixing`
needs and all that is kept of texts.

A call of a tool is the connection that brought it and the tool. That makes call ids
unique across answers, which is what the page expects of the upstream.

A submit without attachments is one step (`Submit`). With attachments it passes two
awaits (`prompt-input.tsx:709-719`, `playground-input.tsx:652`) during which the page
is not locked; the continuation then tests `disabled` and uses the messages, the mode
and `isAgentRunning` of the render it was submitted in. `StartConversion` puts these
into `converting`, `Converted` sends them whenever the conversion is over, whatever
the page does by then. A conversion that fails is one that never ends.

`interfered` is a history variable. Five operations get past the lock `isBusy` or
act on the wrong generation: the editor of a message that was opened before the
generation started (`applyEdit`), the pairing of the helper (`AutoPair`), a submit
whose attachments were being converted (`Converted`), Stop in the mode of the other
kind of generation, and Stop while a run of the agent is not streaming, which the run
survives. Only an operation that meets a generation sets it: a late submit on an idle
page starts the one generation there is, though it replaces what was written to the
conversation since by the older messages. After one of them two writers use the same
refs and messages, and the properties that depend on one writer (`OneGeneration`,
`WritesOwnMessage`, `NoMixing`, `IdleSettled`, `AnswersKept`) make no claim;
`LastOfMode`, `PairsValid`, `ApprovedOnly` and the liveness properties hold all
the same. The hazards in `PROJECT.json` name what goes wrong in each case.

## 4. Runs

| Run | Instance | Shows |
|---|---|---|
| `billing_pair` | two symmetric requests, one of them a task that may start over, failing writes, lost acknowledgements, one crash, expiry; rows serialised | `ChargedExactly`, `TokenFollowsPayer`, `OnePayer`, `NoOverRefund`, `SubscriptionBooks`, refinement `KeepsContract` |
| `billing_faults` | one request of every kind and preference, one repeated pre-consumption, Reserve, rolling limits, rows not serialised, failing writes, one crash, fairness | `TypeOK`, `ChargedExactly`, `SettledOrRefunded`, `PreConsumeEnds`, `ErrorsResolved` |
| `billing_error_billed` | a trusted user | violation of `BillableErrorIsBilled`: a billable error of a trusted user is free |
| `billing_lost_update` | two requests of one subscription, rows not serialised, no failure | violation of `SubscriptionBooks`: the later save drops the earlier debit |
| `task_video` | two nodes, one video task, failing writes, lost acknowledgements, a crash, a legacy and a recent task | `TypeOK`, `NeverOverRefunded`, `BilledOnce`, `TerminalStays` |
| `task_live` | one node, a Suno and a Gemini task, one polled per round, the sweeper, a query, early 100%, a later submit time, deleted channels, rows without ids, stray items, fairness | `NeverOverRefunded`, `TaskEnds`, `KeepsPolling` |
| `task_suno_twice` | two nodes, one Suno task | violation of `NeverOverRefunded`: refunded twice |
| `task_queried` | a Gemini task and a query | violation of `FailedTaskRefunded`: the query takes the failure away from the poller |
| `channel_select` | one request, two channels, two groups, two priorities, one retry, one test round, two events, fairness | `TypeOK`, `ListedEnabled`, `AttemptsBounded`, `NoGroupOverlooked`, `CacheConverges` |
| `image_tasks` | two submissions, two conversations, two polls each, a conversion, a failed save, a reload, restarts of the server, fairness | `OwnMessage`, `ImagesOwn`, `Recoverable`, `SettledStays`, `SubmissionEnds` |
| `playground_chat` | two requests, two conversations of both modes, one reconnection, a failed save, a reload, an editor or a deletion, one switch of conversation or mode, one submit with attachments, fairness | `TypeOK`, `OneGeneration`, `WritesOwnMessage`, `NoMixing`, `IdleSettled`, `LastOfMode`, `PairsValid`, `AnswersKept`, `GenerationEnds` |
| `playground_agent` | two requests of up to two answers, calls that need approval or have no tool, Stop, pairing, one submit with attachments, fairness | `PairsValid`, `ApprovedOnly`, `RunEnds` |

The four violations are described with the quoted lines under `findings` in
`PROJECT.json`.

### Bounds

* Billing: quotas from 0 to 5 around balances of 3 and 4, so that a balance is
  above, at and below the estimate, the actual cost is below and above the
  pre-debit, and the trust threshold is met by some and missed by other requests.
  Two requests suffice for every race on shared balances; a request meets its own
  refund goroutine with one. `RetryTimes = 1` gives a task a second pre-consumption
  after every way to lose the first.
* Tasks: a pre-debit of 1 or 2, completions that cost less or nothing more. Two
  nodes are what it takes to read one row twice. `QueryLimit = 1` with two tasks
  makes one of them wait. A Suno item brings one submit time: an upstream that put it
  off in every answer would keep a task from the sweeper for ever. `Query` leaves out
  a task that was opened again, so that a task is opened again once.
* Channels: channel 1 is in both groups, channel 2 with a lower priority in the
  second: the first group may be empty while the second is not, the second may
  lose one channel and shift its priorities, or both.
  `RetryTimes = 1` with two groups gives every order of "next priority", "next
  group" and "no group left". `MaxEvents = 2` and `MaxTests = 1` allow a write to
  cross a test round, a rebuild that fails and a status update. One rebuild runs at a time;
  that overlapping ones do no harm to the cache is proved (section 5).

* Image playground: two submissions are the least that can write over each other,
  two conversations the least that can be confused; two polls make a wait that is
  used up and one that is not.
* Playground: two requests give a new generation beside what an old one has left
  behind. `playground_chat` has one reconnection per request, so that there is a
  first, a last and a refused one; `playground_agent` has two answers per run, so
  that one ends the run and one reaches the step limit, and sets reconnections to 0
  (the chat run has an agent with one answer and one reconnection). Its answers call
  a tool that needs approval and one the page does not have; those of the chat run
  call one that needs none. Answers that mix the two, and more calls than
  MAX_TOOL_CALLS, are left to the proof, which is for any `Answers`. One submit with
  attachments may be pending in each run; the proof is for any number.

Deadlock is not checked: requests and tasks end, and the models with them.

### Fairness

* `BillingSession`: weak fairness of the goroutine of each request and of each
  refund goroutine. They are ordinary goroutines that wait for nothing but the
  database, whose calls return. Nothing forces a request to begin or to make a
  further attempt.
* `TaskPolling`: weak fairness of each step of a polling loop and of time (a task
  becomes old). The loop sleeps 15 seconds and starts again. The upstream is not
  fair: it may never answer.
* `ChannelSelect`: weak fairness of the rebuild timer, of a rebuild under way, and
  of UpdateChannelStatus. No fairness of requests,
  tests, administrators or upstreams. Failed rebuilds are bounded by
  `MaxEvents`, so a rebuild succeeds at last.

* `ImagePlayground`: weak fairness of the resume effect, of the conversion of
  attachments, and of the answers to each waiting call: an HTTP request of the
  page is answered or fails. The server's goroutines are not fair: a task may hang.
* `Playground`: weak fairness of what ends a connection or fires a timer
  (`SettleStep`; the relay bounds the silence of a stream) and of what a run of the
  agent waits for (`SettleRun`). No fairness of the user: an approval may never come,
  and `RunEnds` says so. A connection that ends without `[DONE]` leaves the page
  busy until Stop; `GenerationEnds` names the case (`silent`).

## 5. Proofs

All theorems hold for every value of the constants that satisfies the named
assumption of the component's module. Where a theorem needs more, the hypothesis
is part of its statement and explained below.

### Billing

`BillingSessionProofs` proves for every set of requests, every amount and every
pattern of failures

* `Invariance`: `Spec => []IInv`;
* `TypeCorrect`: `Spec => []TypeOK`;
* `NeverOverRefunds`: `Spec => []NoOverRefund`;
* `OneVerdict`: `Spec => []SettledOrRefunded`.

`NoOverRefund` is not inductive: that a refund of `tokenConsumed` leaves the
account's loss non-negative depends on what the session remembers, and that
depends on how far its goroutines are. `IInv` is `TypeOK` with, for each request,
`Control` (which fields are zero, which flags may be set, and which goroutine may
run at each place), `TokenHeld`, `WalletHeld` and `SubHeld` (the account has lost
at least what the session still has to give back, what Reserve has in flight
included), and that no account has a negative loss. The proof has a lemma for
each action; `OneRequest`, `QuietStep` and `PostStep` reduce a step of the system
to one of one request, with or without a posting.

`BillingLedgerProofs` goes from inequalities to equations:

* `LedgerInvariance`: `Spec => [](IInv /\ LInv)`;
* `OnePayerAlways`: `Spec => []OnePayer`;
* `ExactCharge`: `Spec => []ChargedExactly`;
* `TokenMatchesPayer`: `Spec => []TokenFollowsPayer`;
* `SubscriptionWithinTotal`: what the subscription has used stays between 0 and its
  total, also where transactions overwrite each other: each checks the total on the
  row it has read;
* `SubscriptionBooksKept`: `Spec => []SubscriptionBooks`, under `RowLocks`.

`LInv` has two parts. `OneSource` says that only the session's source has lost
anything, and that nothing has been lost where the fall-back to the other payer is
still possible; it assumes nothing of the outcomes, but is claimed only until a task
starts over after trouble (`Again`), where it is false. `Exact` says for a request
without trouble how much payer and token are out of pocket at every place of the
request and of its refund goroutine (`FundingDue`, `TokenDue`): during a refund
that depends on which of the legs has been posted, and for a subscription on its
record.

`SubscriptionBooks` says that what the subscription has used is the sum of what its
requests have taken. The sum is the cardinality of a set of units (`SumTaken`), one
for each request and unit it has taken, rather than a fold: a posting then adds or
removes an interval of units of one request, and no induction over the requests is
needed. That a credit of a subscription is never cut off at 0 follows from the same
equation, since no request gives back more than it has taken.

`BillingContractProofs` proves `ImplementsContract`: `Spec => KeepsContract`. Every
step maps to a step of `BillingContract` or to a stutter, under the refinement
mapping of `BillingSession` and with `IInv` and `LInv` before and after the step:
after "refunded" the payer's loss only falls, since the refund posts what `IInv`
holds ready for it, and after "settled" only the violation fee is added.

The billing theorems use `ReserveSafe`: where acknowledgements may be lost, Reserve
is not called. Without it they are false: `rollbackFundingReserve` takes back a
debit that the session does not know to have been applied. Nothing in the
repository calls Reserve so far.

### Tasks

`TaskPollingProofs` proves for any tasks, nodes and queries

* `TypeCorrect`: `Spec => []TypeOK`;
* `OneBiller`: at most one actor is billing a guarded task;
* `RefundBounded`: `Spec => []NeverOverRefunded`;
* `TaskBilledOnce`: `Spec => []BilledOnce`;
* `EndIsFinal`: `Spec => TerminalStays`, an action property;
* `EndStaysEnd`: with failures in bulk an ended task stays ended, though a success
  may become a failure.

A task is `Guarded` when every write of its row goes through UpdateWithStatus: a
video task, or a Gemini task that no query touches. Suno tasks and queried Gemini
tasks are not, and the runs `task_suno_twice` and `task_queried` show what becomes
of them; `OneBiller` and `EndStaysEnd` hold with them in the same system.
`NoBulkFailure` (every row has its ids, no channel is deleted) excludes
TaskBulkUpdateByID, which writes without the guard and refunds nobody, from
`TaskBilledOnce` and `EndIsFinal`, whose statements are false with it. The theorems
about money, `RefundBounded` and `TaskBilledOnce`, assume `~SettleMayFail`: a
settlement that fails at submission leaves a task that cost less than its row says.

The inductive invariant is `TypeInv /\ BillInv`. `TaskInv` says that a task which
goes on has cost its quota and that two owners are the same; `OwnerInv` says where
the owner is between its two postings; `CopyInv` says that the copy an actor holds
is of the same task and, until the actor itself ends it, has not ended, so that the
status UpdateWithStatus compares is one that a finished row no longer has.

### Channels

`ChannelSelectProofs` proves for any channels, groups and requests, any number of
rebuilds at a time and any number of tests and events

* `CacheConsistent`: `Spec => []ListedEnabled`;
* `SelectTypeCorrect`: `Spec => []TypeOK`;
* `AttemptsAreBounded`: `Spec => []AttemptsBounded`;
* `GroupsAllSearched`: `Spec => NoGroupOverlooked`, an action property.

`CacheInv` adds to `ListedEnabled` that the database, the cache and the rows of
a rebuild in progress are tables over the same channels. It rests on the two
critical sections of `channel_cache.go`: a channel leaves the lists in the section
that changes its status, and a rebuild replaces both maps in one.

`AttemptsBounded` is about a loop whose counter the search sets back. The invariant
`Budget` charges `RetryTimes + 1` attempts to each group the index has passed and
the rest to the counter; a counter that is to be reset belongs to a group that has
been left already. The search is followed by `FoundHolds` from the first group it
looks at to the one it ends in; minima of priorities come from `NatMinimum` in
`WellOrdering`, where the well-ordering of the natural numbers is brought into a
form without operator parameters. `GroupsAllSearched` adds `Looked`: every group
below the stored index is one the search has been in, whichever of the three
places of `channel_select.go` has moved the index on.

### Image playground

`ImagePlaygroundProofs` proves for any number of conversations, submissions,
conversions at a time, polls, reloads and failed saves

* `OwnPictures`: `Spec => []ImagesOwn`;
* `OwnEntry`: `Spec => []OwnMessage`;
* `AlwaysRecoverable`: `Spec => []Recoverable`;
* `ResultsStay`: `Spec => SettledStays`, an action property, about entries that show
  their pictures. Of an entry that shows an error nothing is claimed: after the last
  poll the page says that the task may be found in the history later
  (`index.tsx:450`), and yet it polls it no more.

None of these is inductive. `ImageInv` is the conjunction of `StateInv` (the
conversations of page and storage: distinct ids, each key once in a conversation,
pictures and tasks of the entry's own submission, and, since an old closure may
copy entries into another conversation, `AllWait`: of the copies that have a task
all wait for it or none does), `CaptureInv` (a closure holds no entry that waits for
a task), `WaitInv` and `PlaceInv` (the calls under way and where their entries are),
`CalmInv` (what holds as long as the user has not acted during a conversion: one
call at a time, the page locked, its entry in the active conversation) and
`SavedInv` (no save has failed since the submission). `AllWait` is what makes the
effect that resumes tasks harmless after a reload, and it is needed although no
property mentions it: a resumed task writes to every copy. The proof reduces the
updates of the page to `Rewritten` (which entries of which conversation an updater
changes) and the end of every call, with a result or an error, to `SettleKeeps`.

### Playground

`PlaygroundProofs` proves for any number of requests, conversations,
reconnections, answers, calls, reloads, failed saves and pending conversions, and of
runs at the same time

* `WorkspaceApproved`: `Spec => []ApprovedOnly`;
* `WellFormed`: `Spec => []ShapeInv`, and from it `LastOfModeKept`:
  `Spec => []LastOfMode`;
* `LockHolds`: `Spec => [](ShapeInv /\ GenInv)`, and from it `OneGenerationAlways`
  (`OneGeneration`), `OwnAnswer` (`WritesOwnMessage`), `TextsUnmixed` (`NoMixing`),
  `IdleIsSettled` (`IdleSettled`) and the action property `AnswersStay`
  (`AnswersKept`);
* `BudgetKept`: `Spec => [](ShapeInv /\ BudgetInv)`, and from it `TypeCorrect`
  (`TypeOK`);
* `CallsApart`: `Spec => [](ShapeInv /\ CallsInv)`, and from it `PairsAlways`
  (`PairsValid`).

There are five inductive invariants, each with a lemma for each action.

`AgentInv` is that of the approvals: a run which goes on after "approved" has the
user's approval, and a run which carries nothing out has no calls left. The answer
of the user and the calls it covers are forgotten together when the next answer
begins. `OneRun` reduces a step to the one run it changes.

`ShapeInv` says that the conversations of the page and of its storage, the streams
and the runs are well formed: distinct ids of conversations, no key or connection
above the counters, the active conversation and the remembered ones among those that
exist, an answer at the end of what a run works on, and well-formed messages in every
submit that waits for its attachments (`FormShape`). It holds whatever the user does.
`LastOfMode` needs the part about storage as well: a reload takes its conversations
from there, where a save may have written some of the keys only.

`GenInv` says that without interference the page is `Ordered` and that the messages
of every pending submit are settled (`CalmForms`), so that one that lands on an idle
page brings no old loading message back. `TidyInv` states
what the messages look like outside the one that is being written, `StreamInv`
ties refs, connections and timers to the call of sendStreamRequest they belong to,
and `AloneInv` says that a generation which is alive is the only one and that the
page is locked for it. The properties are about one message and one generation;
none of them survives a step by itself, because a callback finds its message by
position ("the last of the active conversation") and its stream by a shared ref,
and only the whole of `Ordered` says that these are the right ones. For the steps
of the agent it is enough that the run goes on or ends (`Proceeds`), which the
lemmas of the actions establish once for both `ShapeInv` and `GenInv`.

`BudgetInv` is why the counters stay within their types although no action is
guarded by the bound: a request brings `2 + 3 * MAX_AGENT_STEPS` keys and
`MAX_AGENT_STEPS * (MAX_STREAM_RETRIES + 1)` connections with it, and every step
that uses one takes it from what the run or call has left. What is left is the
cardinality of a set of slots, for the same reason as the sum above.

`CallsInv`, with `FormCalls`, says that no two answers of a conversation, of its
stored copy, of a run or of a pending submit share a call, and that the connection of a run that streams is new to its
messages. `PairsValid` then follows from `PairedLemma`: sanitizeResponsesInputItems
keeps an output only where a call waits for it, and a call that is kept is settled
by the first output after it. It is proved with interference as well: what two
writers can do to a conversation does not break the pairs of any input built from
it.

## 6. Only model-checked

Liveness (`PreConsumeEnds`, `ErrorsResolved`, `TaskEnds`, `KeepsPolling`,
`CacheConverges`, `SubmissionEnds`, `GenerationEnds`, `RunEnds`): it rests on the
fairness of actions, hence on ENABLED, which is out of the prover's reach. Where a
theorem has a hypothesis (`ReserveSafe`, `RowLocks`, `NoBulkFailure`,
`~SettleMayFail`), TLC
has checked the property on instances that satisfy it.

## 7. Not modelled

* Components with modules of their own to come: subscriptions as such, realtime
  billing, quota caches and batch updates, rate limits, top-ups and redemption
  codes, Midjourney, profit accounting.
* In `BillingSession`: the notices sent to users, the restriction of users with a
  low balance, free models (they have no session), several subscriptions of one
  user, subscriptions without a total (`amount_total = 0`). The cost of a request is a
  number; how prices and ratios make it up is floating-point arithmetic and left out.
  The estimate is the same in every retry of a task, though another group may change
  it.
* In `TaskPolling`: the submission before its settlement (of which `BillingSession`
  has the pre-consumption), the contents of a task, the providers' formats.
* In `ChannelSelect`: channels with several keys, the memory cache switched off,
  tokens bound to one channel, added and deleted channels, several models, how an
  affinity rule finds its channel, the price of an attempt (for billing expressions
  the ratio of the first group is kept on purpose, `relay/helper/price.go:287-301`).
* In `ImagePlayground`: prompts, pictures, models and groups.
* In `Playground`: requests without streaming (the page never makes one), reasoning
  texts, titles, settings, the migration of older stored data, the compatible mode
  of the agent (calls parsed from the text), choosing a workspace, what the tools do
  to files. `Reload` is a reload of the browser, which ends every request; leaving the
  page inside the application ends none of them (no hook has a clean-up), and what
  they do to a page that was opened again is not modelled. A connection that was
  closed delivers nothing more: an assumption about sse.js, which may still dispatch
  the rest of a batch after `close()` (the handler asks only whether the stream was
  stopped, `use-stream-request.ts:96-97`).
* The rest of the web consoles: forms and tables that show what the server answers,
  with no state that outlives a page and no protocol between two requests.
* Known weak points without a hazard entry of their own: a settlement or insertion
  of a task that fails is only logged (`controller/relay.go:571`, `:592`); a crash
  between two debits of a session is never made good; the channel test decides by a
  status it read a round ago (`controller/channel-test.go:931`); batched quota
  updates are lost with the process (`model/utils.go:72`); an image task is never
  ended after a restart (nothing calls FailStalePlaygroundImageTasks).
* Provider adaptors (data conversion), authentication and OAuth, settings, logs,
  notifications and the desktop shell: no shared state whose
  interleavings matter to the properties above.

## 8. Running

    tlc -config BillingPair.cfg MCBillingSession
    tlc -config TaskVideo.cfg MCTaskPolling
    tlc -config ChannelSelect.cfg MCChannelSelect
    tlc -config ImageTasks.cfg MCImagePlayground
    tlc -config PlaygroundChat.cfg MCPlayground
    tlapm BillingSessionProofs.tla
    tlapm BillingLedgerProofs.tla
    tlapm BillingContractProofs.tla
    tlapm TaskPollingProofs.tla
    tlapm WellOrdering.tla
    tlapm ChannelSelectProofs.tla
    tlapm ImagePlaygroundProofs.tla
    tlapm PlaygroundProofs.tla
