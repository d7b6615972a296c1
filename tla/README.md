# accrawl: a TLA+ verification project

accrawl logs in to banks with a browser that an LLM drives, extracts accounts,
transactions and positions, and publishes them through an API. The control-plane
(Fastify, PostgreSQL, pg-boss) owns the data and the schedule; the engine
(Express, Playwright) drives the browser; a phone companion relays one-time
codes and, for some banks, its network. What can go wrong is mostly a question
of *who may touch which row when*: a crawl is started by a schedule or a person,
runs for half an hour in another process, may be cancelled, may lose its process
or its answer, needs a code from a phone in the middle of it, and in the end must
publish its data exactly once while no second browser logs in to the same bank.

Paths below are relative to `src/apps/control-plane/src/` (CP) and
`src/apps/engine/src/` (EN).

## 1. Inventory

| component | state it keeps | operations | interacts with | what is hard |
| --- | --- | --- | --- | --- |
| crawl session lifecycle: CP `orchestration/run-crawl.ts`, `data/sessions.ts`, `data/cancel-session.ts` | the session row (status, lease, heartbeat), its `done` event, staged records | create (= lock), gate, dispatch, await, promote, finish, cancel, revoke, reap, sweep, purge | engine over HTTP and over the same tables; scheduler tick | three processes race on one row; a crash between any two steps; lost ACK; a fence that fails |
| engine execution: EN `index.ts`, `crawl-executor.ts`, `platform/postgres.ts` | active executions, tombstones, browser contexts | accept, preflight, loop, watchdog, close, complete, fence | control-plane, browser pool | cancellation against setup; teardown failure; a restart forgets the tombstones |
| scheduler, queue, bookkeeping: CP `scheduling/*`, `data/crawl-bookkeeping.ts`, `orchestration/recover-stranded-crawls.ts`, `data/connections.ts` | connection status, failure streak, schedule (enabled, revision, claim), due time, job queue | tick (reap, cancel release, recover, orphans, sweep, insert, decide, claim, enqueue, roll back), worker, manual crawl, edit, verify | sessions, pg-boss | overlapping ticks; a send that fails after it stored; a stale job; a streak read and written back without a lock |
| OTP relay: EN `agent/otp-state.ts`, `agent/agent-loop.ts`, `platform/postgres.ts`, CP `data/session-io.ts`, `data/otp-readiness.ts`, `notifications/companion-wake.ts` | `otp_*` columns, the agent's `OtpState`, wake-ups and relays in flight | prepare, confirm, wait, claim, resend, restart; wake, mark mode, mark ready; relay by SMS, email or operator | agent loop, phone, email watcher, console | a check before an LLM call and a write after it; late wake-ups; episodes |
| email OTP watcher: CP `email-otp/*` | IMAP cursor (`\Seen`), polling lease | poll, route, mark seen | OTP relay | an email consumed before anyone waits for it |
| agent loop, recovery: EN `agent/*` | goal, retry budgets, warnings, histories | one LLM step at a time; recovery of a failed action | OTP relay, write gate, browser | two code paths (main and recovery) that must do the same |
| egress guard and write gate: EN `browser/egress-guard.ts`, `write-gate.ts` | phase, verdict cache, requests on hold | route, hold, vet, time out | agent loop, LLM vet | phase against goal; several requests on hold |
| page capture: EN `browser/page-utils.ts`, `download-handler.ts` | masked fields, popups, downloads | mask, verify, shoot, restore; follow a popup | agent loop, frames | a script abandoned by its timer runs later |
| browser pool: EN `browser/browser-pool.ts` | Chrome processes, contexts | acquire, release, recycle | engine execution | a context that cannot be closed |
| device tunnel: EN `tunnel/*`, companion `TunnelService.kt` | parked crawls, tunnels, SOCKS connections | park, claim, TTL, frames, teardown | engine execution, phone | TTL racing a claim; reconnects; backpressure |
| Kubernetes job and hosted worker: EN `job-worker.ts`, `remote-job-worker.ts`, CP `routes/worker-broker.ts`, `data/worker-ownership.ts` | generation, lease, heartbeat, completion digest | start, heartbeat, complete, acknowledge a cancellation, reconcile | hosted store | lost answers and exact replays; a second pod; a lease measured on two clocks |
| hosted schedule: CP `data/hosted-schedule-policy.ts`, `orchestration/crawl-reconciliation-queue.ts` | due record, deferred callbacks | arm, deliver, advance, consume | task queue | callbacks delivered again, late, or to two instances |
| results and transaction identity: CP `data/store-crawl.ts`, `data/tx-identity.ts`, `data/plan-crawl-results.ts` | canonical accounts, transactions, positions | reconcile, promote | sessions | pending to posted; a replay of one promotion |
| transaction history upload: EN `transaction-history-store.ts` | chunks, digests | begin, append, seal | worker ownership | a repeated or reordered chunk |
| OAuth server: CP `routes/oauth.ts`, `data/oauth-grants.ts` | codes, grants, refresh tokens | authorize, exchange, refresh, revoke | data API | reuse of a rotated token; revocation racing a refresh |
| device pairing and devices: CP `data/device-pairing.ts`, `data/devices.ts` | intents, devices | create, claim, approve, complete, cancel, revoke | OTP relay, tunnel, sessions | the three parties' order |
| webhooks: CP `webhooks/dispatch.ts`, `data/webhook*.ts` | subscriptions, outbox | fan out, deliver, retry | run-crawl | duplicates and retries |
| connections and institutions, config scan, organization shares, tenancy, data API, API keys, operator login, encryption, notifications, migrations | rows | CRUD, pure lookups | all | little of it takes two steps |
| Android companion, web console, SDKs | queues, deduplication, screen-lock lease | clients | HTTP API | duplicate SMS signals |

`PROJECT.json` lists all of them under "components" with the state of their
modelling, and under "hazards" what is hard to test, each at its line.

What makes each modelled part correct:

* **sessions** - no two browsers at one bank; the lock is released only when the
  execution is over, and always in the end; a published outcome is final and
  agrees with the data.
* **scheduler** - a withdrawn claim never runs; the owner is asked for credentials
  only when that was earned; `syncing` always ends; finished work is published.
* **OTP relay** - the agent waits only while phones can answer; one code per
  episode; a code of an earlier episode is never typed; a login never spends more
  attempts than allowed.
* **agent loop** - success is reported only when it was earned; failures are
  counted once on either path; the loop ends; no reported movement is lost.
* **write gate** - a state-changing request leaves only with its own verdict.
* **page capture** - the code reaches the bank's form, and no picture or HTML.
* **tabs, pool** - the loop acts on an open page; a close fences what it began.
* **tunnel** - the parked caller is always told, and only when everything of its
  crawl is closed; bytes keep their order and queues their bound.
* **job, worker** - one login per job; whoever releases a connection has closed
  the browser; a stored completion is recognised when it comes again.
* **hosted schedule** - an occurrence runs once, behind its successor.
* **transactions** - two movements never become one row; a promotion counts once;
  a consumer that reads to the end has everything.
* **webhooks** - a finished delivery is finished; a refusal ends it.
* **OAuth** - a code and a refresh token are used once; no access outlives the
  consent behind it.
* **pairing** - the phone that gets credentials is the one the owner saw; a
  revoked phone takes part in nothing.

## 2. Modules

| module | what it is | run |
| --- | --- | --- |
| `SessionRow` | the contract of a connection's session rows: which outcomes, in which order, and when data may appear | (as `KeepsRowContract`) |
| `CrawlSession` | the sessions of one connection, self-hosted: runCrawl, cancellation, revocation, engine, tick; implements `SessionRow` | `crawl_*` |
| `CrawlScheduler` | the connection row, schedule, queue, bookkeeping and recovery; its sessions move by the actions of `SessionRow` (INSTANCE), so it composes with whatever keeps that contract | `sched_*` |
| `OtpRelay` | one session's OTP handshake between agent, row, wake-ups and relays | `phone` |
| `DevicePairing` | pairing request, device and key, the bound crawl, reads, push tokens | `phone` |
| `WriteGate` | the requests of the page, the cache of verdicts, the vet | `engine`, `agent_gate` |
| `AgentLoop` | the agent loop and its recovery path; `GatedSpec` composes it with `WriteGate`, whose phase it drives | `engine`, `agent_gate` |
| `StepTransactions` | how reported rows are told apart within a crawl | `engine` |
| `OtpMask` | screenshot and HTML while a code stands in a field | `engine` |
| `CrawlTabs` | popups, the page acted on, the page whose downloads are seen | `engine` |
| `BrowserPool` | the one Chromium: launches, contexts, closes | `engine` |
| `DeviceTunnel` | park, claim, TTL, listener, teardown and fence of one session | `tunnel` |
| `TunnelBridge` | the frames between browser, engine, phone and bank | `bridge` |
| `JobWorker` | pods, claim, lease and fence of a Kubernetes crawl job | `durable` |
| `HostedBroker` | hand-off, remote worker, broker and reconciliation of a hosted job | `durable` |
| `HostedSchedule` | due record and deferred callbacks of a hosted connection | `durable` |
| `TxStore` | identity, promotion and change cursor of transactions | `durable` |
| `Webhooks` | in-process fan-out, hosted outbox, the verifying receiver | `durable` |
| `OAuthGrants` | consent, codes, grants, token pairs and their revocation | `oauth` |
| `DurableRecords` | the composition of `JobWorker`, `HostedBroker`, `HostedSchedule`, `TxStore` and `Webhooks` | `durable` |
| `CrawlSessionProofs`, `CrawlSchedulerProofs`, `OtpRelayProofs`, `TxStoreProofs` | theorems about those modules; the first has the refinement of `SessionRow` too | |
| `EngineProofs`, `TunnelProofs`, `DurableProofs`, `AccessProofs` | theorems about the modules of one part of the system | |
| `MC*` | instances for TLC | |

`MCEngine`, `DurableRecords` and `MCPhone` hold several modules that share no
variable. Their initial state chooses one part, and only that part steps: the
state graph is the disjoint union of the parts' graphs, so nothing is checked
less than in a run of its own, and each property is about its own part (the
others are frozen in their initial states). Variables carry a letter of their
module (`g` gate, `a` agent, `u` tunnel, `k` bridge, ...) because of this.

Throughout, code between two awaits is one step, and so is a database
transaction that locks the row it reads. Whatever another process can do
between two steps is explored.

### CrawlSession

One variable per thing that races: the row (`status`, `done`, `staged`), the
`lease` (held, lapsed, stale heartbeat), `promoted`, and the place of each
process: `run` (runCrawl), `cancel` (cancelSession), `tick` and `todo`
(schedulerTick), `wire`, `exec`, `fenced` (the engine). Each database transaction
or guarded UPDATE is one step, so that everything two processes can do between
two of them is explored. The five active statuses are one value: no guard of
these operations tells them apart. `Faults` selects which faults an instance is
exposed to (a lost ACK, failing queries, a context that does not close, either
process crashing, the reaper's snapshot race, a revoked phone); all of them are
actions.

`RunGate` stands for the checks between createCrawlSession and dispatch, which
may refuse; prompt assembly and webhooks write nothing the rows show.
`EngineLoopEnds` is the agent loop as a whole: it ends with a success or a
failure, by itself or by the watchdog.

### CrawlScheduler

`failures` is the streak with the code's read and write as separate steps
(`RunCount`/`RunWrite`, `TickCount`/`TickWrite`), because applyCrawlFailure takes
no lock. It is capped one past the threshold: nothing in the code compares it
with more. `due` is one of absent, due, next, back-off. `claim` and `revision`
are the fences that a job carries. `origin`, `revoked`, `credited` and `repaired`
are history variables that no action reads. The due-select of a tick is folded
into the decision, which re-reads the row under its lock.

### OtpRelay

`requested`/`epoch`/`ready`/`mode`/`otp`/`key`/`status` are the columns;
`prepared`/`cached`/`consumed`/`filled`/`attempts` are OtpState; `pc`, `then` and
`recovering` say where the agent loop is. `posts` and `wakes` are wake-ups on
their way to and in the control-plane; `relay` holds the requests carrying a
code, whose steps are the reads and writes of session-io.ts with the LLM call
between two of them. What the agent does next, whether a sender matches and
whether a code is found in the text are free choices.

### AgentLoop and WriteGate

`aPc` is the place in the iteration (top, ask, handle, execute, recover, ...);
`aErrors` and `aNotFound` are the counters that recovery receives in `LoopState`
and hands back, against which `aFailed` counts independently what really failed.
The model's answer is any `Reply`; the data is the number of unique rows. A step
of the budget and the deadline are checked where the code checks them. In the
gate a request is the three things the guard can tell apart: host, method, and
the operation its identifiers name; `gReq` holds the intercepted ones, `gVerdicts`
the cache, `gAsked` (history) what the vet really answered. The vet's call is the
only await of an evaluation: other requests and the loop run during it.

### StepTransactions, OtpMask, CrawlTabs, BrowserPool

A movement is the fields that identify a row without a reference; the statement
may give two movements one reference. `Report` is one step's batch, with the main
path's set of demoted references or, in recovery, without. In `OtpMask` each frame
has a queue of scripts that run in order, perhaps after the timer that waited for
them has given up; capture is fail-closed. `CrawlTabs` has the listener that puts
a popup in place and the one that takes the loop back. `BrowserPool` numbers the
launches; a generation is moved on by each close, and every await is followed by
the code's check of it.

### DeviceTunnel and TunnelBridge

A park is a promise with a TTL. A socket claims it once, binds a listener, runs
the crawl, and tears down in the order of the code (browser, listener, socket),
each of which may fail. `fenceCrawl` cancels all of it and waits for a bind in
flight. The bridge counts frames: each side's queues, the reference-counted pause
of the shared receive side, the phone's threads per connection, the teardown that
goes through the connections while connects are queued.

### JobWorker, HostedBroker, HostedSchedule

A call to the database or the broker is three moments: sent, executed, answered,
with a crash or a loss possible between them. `JobWorker` has a clock because its
argument is about two clocks: the worker arms its local lease from the *start* of
an attempt, so it stops before the reaper may take the job. Work, fence and finish
query race each other as in `runJobWorker`: `fencing` and `closing` are a fence
without and with a finish query under way, and the catch block is entered with the
monitor still on (`retrying`) or off (`finishing`). `HostedBroker`'s
store executes the rules of worker-ownership.ts and hosted-dispatch-decisions.ts
atomically, as `WorkerBrokerStore` demands. `HostedSchedule` keeps the due record,
the tasks in the queue, and the ids a queue refuses to accept twice.

### TxStore and Webhooks

`TxStore` follows an observation from the update targets sent with a crawl,
through plan and promotion, to the cursor of a consumer; `tStore` selects the
PostgreSQL variant (one transaction) or the document one (plan, then commit
against a generation). Ids are numbers, all different, as the hashes of distinct
preimages are: accounts, references and places in a batch are digits, in any base
(`IdBase`). `Webhooks` has both deployments, a receiver with a replay window,
and instances whose delivery lease runs out.

### OAuthGrants and DevicePairing

Requests of `OAuthGrants` are cut wherever, at READ COMMITTED, another commit can
come between two statements; an insert's key-share lock does not conflict with a
revocation of the grant's row, which is what makes `RevokedIsDead` fail below.
`DevicePairing` is one request row after another, the devices they became, and
the locks a Companion read takes, for which a revocation waits.

## 3. Runs

| run | instance | question | result |
| --- | --- | --- | --- |
| `crawl_fenced` | 2 sessions; control-plane crashes | Is the lock held while a browser is driven, do outcome and data agree, is it a behaviour of `SessionRow`? | passes |
| `crawl_liveness` | 1 session, every fault, fairness | Is `completed` always promoted, and the lock released whatever dies? | passes |
| `crawl_ack_lost` | 2 sessions, ACKs may be lost | Can a retry start a second bank login? | yes |
| `sched_safety` | 1 session, 1 tick, 2 claims, 1 edit, all events but crashes | Claims, streak and needs_reauth under edits, failing sends, dead engines, cancellations | passes |
| `sched_liveness` | 1 session, 1 tick, 2 claims, crashes, fairness | Does `syncing` always end? | passes |
| `phone` | 1 relay, 1 code, 1 attempt per login, 2 episodes; 2 phones, 2 requests, 2 devices, 2 tokens | The OTP handshake across episodes; pairing, revocation and tokens under races | passes |
| `engine` | 2 requests; 4 steps; 3 movements with 1 reference in 3 reports; 2 frames, 2 captures; 2 popups; 2 crawls, 2 closers, 3 launches | Gate, loop, rows, capture, tabs and pool; held requests and the loop under fairness | passes |
| `agent_gate` | loop and gate together, 1 request | Is the session read-only once the goal is extract? | no |
| `tunnel` | 2 sockets, 2 parks, 1 fence, 1 failing close, fairness | Is a teardown complete and every park settled? | passes |
| `bridge` | 2 connections, 2 chunks up, 1 down | Order, backpressure and teardown of the shared WebSocket | passes |
| `durable` | 2 pods; 2 workers and dispatchers; 2 callbacks, 3 occurrences; 2 crawls of 2 rows, 2 references, 2 planners; 2 drains | What a durable record says was decided stays decided | passes |
| `oauth` | 2 concurrent requests, 1 code, 2 grants, 3 token pairs | Single use and the limits of a consent | passes |

Most of the invariants are conjunctions of named parts, each of which is a
definition with its own comment:

| property | its parts |
| --- | --- |
| `HealthIsHonest` | `ReauthJustified`, `SyncingWithinStreak`, `HealthyHasNoStreak` |
| `EpisodeIsCurrent` | `PreparedIsArmed`, `CachedIsLatest`, `ModeIsCurrent` |
| `PairingIsSound` | `PairedIsApproved`, `OneDevicePerRequest`, `CancelledGaveNothing` |
| `RevokedIsOut` | `RevokedPhoneRunsNothing`, `NoReadAfterRevoke` |
| `LoopIsHonest` | `SuccessIsEarned`, `FailuresAreCounted` |
| `CodeStaysHidden` | `NoCodeInPicture`, `NoCodeInHtml`, `SubmitReadsCode` |
| `RowsAreKept`, `TabsAreLive` | `NoMovementLost`; `ActivePageIsOpen` |
| `PoolIsFenced` | `CloseFencesEverything`, `OneBrowser` |
| `EngineMovesOn` | `HeldIsRouted`, `LoopEnds` |
| `TeardownIsComplete` | `FenceLeavesNothing`, `ResultBehindClosedTunnel`, `PendingIsParked` |
| `BridgeHoldsBack` | `ThrottledWhileAnyIsFull`, `UploadIsBounded` |
| `BridgeIsFaithful` | `StreamsAreOrdered`, `NoSocketOutlivesTunnel` |
| `OwnerIsFenced` | `WorkerStopsFirst`, `FinishedBehindFence`, `SuccessEndsAll` |
| `ReceiptStands` | `OneHandOff`, `ReceiptIsHonoured`, `AnsweredIsReconciled` |
| `ChainIsSafe` | `OccurrenceRunsOnce`, `SuccessorBeforeRun` |
| `IdentityIsSound` | `ReferenceIsUnique`, `ObservationsStayApart`, `OrderDoesNotMatter`, `DrainedConsumerIsCurrent` |
| `PromotionIsSafe` | `OnlyUpdatesOverwrite`, `PromotedOnce` |
| `OutboxIsSound` | `RedrainAgrees`, `BudgetEnds` |
| `RecordsStand` | `OneLogin`, `OutcomeStands`, `FinishedIsFinal`, `FanOutStops` |
| `UsedOnce` | `CodeUsedOnce`, `OneSuccessor`, `RevokedOnce` |
| `ConsentIsBound` | `CascadeIsComplete`, `NothingUnderDisabled`, `AccessWithinConsent`, `ConsentIsRecent` |

The type invariants of the modules without a run of their own are conjuncts of
the first property of their part.

### The two violations

Each states what a comment or a document of the repository says; the finding in
`PROJECT.json` quotes it.

* `crawl_ack_lost`: a POST /crawl whose answer is late is treated as refused. The
  row is failed, the lock is free, and the engine runs the crawl all the same;
  the next crawl starts a second login.
* `agent_gate`: the recovery path moves the goal to extract without `setPhase`,
  which the main path calls: until the main path's next change of goal the gate
  stays in its login phase, in which writes to the bank's hosts are not vetted.

### Known disagreements

Further statements of the repository that TLC refutes. They are definitions of
the modules, not runs; each is reproduced with the constants given here.

| definition | what is said, and what happens | constants |
| --- | --- | --- |
| `CancelledNeverPromoted` | revokeDeviceAccess cancels every active row of the phone, also one whose success is staged, which requestSessionCancellation refuses | `Faults = {"deviceRevoked"}`, `Sessions = {s1}` |
| `FailedHasNoSuccess` | the reaper's UPDATE, having waited for the engine's completion, re-reads the row but not the `done` event (READ COMMITTED) | `Faults = {"reapRace"}`, `Sessions = {s1}` |
| `StrandedUncredited` | a tick that finds the connection `syncing` with no active session takes its history for uncredited, while a fresh job waits in the queue | `sched_safety` with `Tokens = {c1}`, `MaxFailures = 1`, `MaxEdits = 0`, `Events = {}` |
| `SuccessPromoted` | the orphan pass looks only at `syncing` connections, and a manual crawl never sets that status; its staged success is deleted by retention | `sched_liveness` |
| `ReauthFixable` | nothing writes a connection's status when its credentials are saved, and both the scheduler and runCrawl refuse needs_reauth | `sched_liveness` with `Events = {"credentialsUpdated"}` |
| `NoStaleCode` | the epoch is compared before the LLM call and not in the update after it | `OtpRelay`'s `Spec`, `Relays = {r1, r2}`, `MaxAttempts = 2`, `MaxCodes = 1`, `MaxEpochs = 2` |
| `TtlSparesLiveCrawl` | "must never tear down a live crawl" (tunnel-server.ts): the TTL callback checks `claimed` before it awaits the terminal write and not after (lines 247-263) | those of `tunnel` |
| `RevokedIsDead` | "loses access at once" (oauth-grants.ts:80-90): a rotation that had checked the grant commits its pair after the cascade read the tokens; introspection calls that key inactive, verifyApiKey accepts it until it expires | those of `oauth` |
| `NoPhantomRow` | "Once a ref is demoted it stays demoted for the whole crawl": recovery accumulates without the demoted set, so a movement can be handed off under both identities | those of `engine` |
| `DownloadsAreSeen` | the tracker follows a popup and is not moved back when the popup closes | those of `engine` |

### Bounds, and why they are enough

* **One connection, one session's OTP, one device tunnel, one job, one client.** No
  operation reads two connections' sessions together, the otp columns belong to
  one session, and jobs, parks and grants are keyed by it.
* **Two sessions** in `crawl_fenced` and `crawl_ack_lost`: the lock is about a
  pair. The other questions of that module are about one row, and the theorems
  hold for any set.
* **One tick** in the scheduler runs. Two overlapping ticks exceed TLC; the
  theorems are for an arbitrary set `Ticks`.
* **`MaxFailures` 0 or 1, `MaxEdits` 1, two claims.** The comparisons are with the
  threshold itself, a second claim is what makes a job stale, and one edit is
  what withdraws a claim. A purged session id is used again, as a fresh one.
* **`MaxAttempts` 1 in `phone`** (2 in the code): the limit is then reached within
  the two episodes the run has.
* **Two of everything that races** (pods, workers, dispatchers, callers, drains,
  planners, requests, sockets, closers, phones): each race is about a pair, and
  the third party (a fence, the reaper, a revocation) is an action of its own.
* **3 launches** in `BrowserPool`: one that is closed, one that is under way when
  the close begins, one after it. **3 token pairs**: a pair, its successor, and a
  second successor if there could be one. **3 movements, 1 reference**: two that
  share it and one that has none. **`MaxListed = 2`**: a report demotes a reference
  of its own, or one that an earlier report or row gave.
* **`Lease = 2`, `Grace = 1`, `MaxTime = 4`**: a heartbeat can be in time, late
  within the grace, and too late, and the reaper's turn comes.
* **`PageLimit = 1`**: every page boundary is between two rows of one promotion.
* The relay caps (`MAX_SMS_RELAYS`, `MAX_OTP_ATTEMPTS`) only refuse a call, and
  `otp_relay_online` only selects a timeout: neither adds a behaviour.
* Claim tokens, idempotency keys, authorization codes and ids are random or
  hashes of distinct preimages: fresh.
* Deadlock is checked in the session and scheduler runs. The other systems really
  end: a session, a crawl, a park, a bounded number of requests.

### Timing

Where only the order of events matters, clocks are not modelled and what an
elapsed time enables is an action. The lease (`DEFAULT_LEASE_MS`, 40 minutes) is
longer than dispatch, agent loop and watchdog together: `LeaseLapses` is enabled
only when the execution cannot be running any more, which is what
`lib/crawl-budget.ts` computes. Retention (`Expired`) acts on rows that are days
old, which no live runCrawl can be. `JobWorker`, `HostedSchedule`, `Webhooks` and
`OAuthGrants` compare times, and have a clock; the timers of `JobWorker` are
punctual (the clock does not pass one that is due), since a worker whose timer
does not fire is not one the lease protects.

### Fairness

A live process takes its next step, because each of its waits has a timeout:
runCrawl's polls a deadline, a fence call a timeout, the agent loop a watchdog.
pg-boss starts a tick every minute and the clock advances. In `CrawlSession` the
passes of the tick are strongly fair: a crash or failing query may stop a tick
anywhere, but not every tick at the same pass. In `CrawlScheduler` restarts and
failing sends may happen at any point, but not for ever, and a job is not left in
the queue past the connection's next run for ever. Nothing is assumed of the
operator, of new crawls or of faults.

In `engine` the vet's 15-second timer is weakly fair for each request, and so is
the loop's next step (each of its awaits has a timeout); the page and the model's
answers are not. In `tunnel` the engine's own steps and timers
(`TunnelProgress`) are weakly fair; no phone need ever come.

## 4. What is proved

TLAPS proves these for every value of the constants.

**CrawlSession**, for any set of sessions and faults:

* `TypeCorrect`, `CompletedPromoted` and `OutcomeFinal` hold under every fault.
* `CancelledClean` under every fault but device revocation.
* `DrivenHoldsLock`, `SingleBankLogin` when no ACK is lost and no query fails,
  whatever crashes and however many contexts fail to close.
* `FailedClean`, and the refinement `ImplementsSessionRow` (CrawlSession implements
  SessionRow), without those and the reaper's race. The excluded faults are the
  ones under which TLC refutes the property (section 3), so the hypotheses cannot
  be dropped.

None of the properties is inductive. `DataInv` adds what ties them together: one
lock holder (the unique index), what the tick carries from its select to the
promotion, and where a staged or promoted success can be. `FenceInv` adds who may
still drive a browser: which steps of runCrawl imply that nothing was sent, or
that the execution is over, and that a lapsed lease means that nothing runs. The
refinement shows for each step of CrawlSession which step of SessionRow it is.

**CrawlScheduler**, for any number of overlapping ticks, sessions, claims, edits
and any threshold: `SchedulerTypeCorrect`, `ReauthIsJustified`,
`SyncingIsWithinStreak`, `ReauthIsKept`, `RevokedClaimsNeverRun`,
`HealthyIsHealthy` and their conjunction `HealthHonest`. `NextHealth` shows once
that every step does one of six things to the connection's health (`HealthStep`);
the three health theorems follow from those. `ClaimInv` says that the claim in the row is neither revoked nor
used; `StreakInv` that, until the first edit, no job is stale and what a rollback
would restore is still true.

**OtpRelay**, for any number of relays, codes and episodes and any limit of
attempts: `OtpTypeCorrect`, `PreparedMeansArmed`, `EpisodeYieldsOneCode`,
`CachedCodeIsLatest`, `LoginIsBounded`, `ModeIsOfThisEpisode`, and `EpisodeCurrent`,
which joins what they say of the open episode. `IInv` is their
conjunction with `NoCodeAtHand` (no code is cached on the way to a wait) and
`AttemptsCover` (each wait was counted before it began). They rest on each other:
a code is claimed in an open episode because the agent waits only when it
prepared one; none outlives its episode because none is cached on the way there.

**Engine** (`EngineProofs`).

* *WriteGate*, for any set of requests, with or without a vet, whatever the agent
  loop does to the phase: `DeniedByDefault`. `GateInv` adds that the cache is honest
  (a cached "read" is an answer the vet gave to a request that looks the same) and
  that only writes to the bank are held: a request can leave on the strength of
  the cache alone, so the property says nothing about the next request without
  the first of these.
* *AgentLoop*, composed with the gate (`GatedSpec`), for any budget of steps:
  `LoopHonest`. `LoopFits` ties the two counters to the budget (every failed retry
  since an action last succeeded has cost a step of its own), the error that is
  thrown to the way out, and the finish to the last answer.
* *BrowserPool*, for any number of launches, crawls and closers: `PoolFenced`.
  `PoolInv` relates the generation to what it was read for: the launch in flight is
  the only one and nothing is published meanwhile; a launch that a fence has
  overtaken has a closer waiting for it; a crawl that goes on with a browser goes on
  in that browser's generation, with a context no older than it.
* *StepTransactions*, for any statement, any number of reports and any number of
  rows in each: `RowsStayKept`. The argument is about the loop over a report's rows
  (`RowKeeps`): whatever a row does to the map, demotion of an earlier row included,
  every movement that had a row still has one. `MapFits` says that what lies under a
  key belongs there: under a reference a row that shows it, under a movement that
  movement; without it a replaced row could have been another movement's.
* *CrawlTabs*, for any number of popups and files: `TabsStayLive`.
* *OtpMask*, for any number of frames and captures: `CodeHidden`. `QueueFits` is
  about the scripts that outlived the timer that waited for them: wherever in a
  frame's queue a submission stands, the scripts before it leave the field restored
  (`Settled`), and a frame that passed the check has nothing left to run.

**Tunnel** (`TunnelProofs`).

* *DeviceTunnel*, for any number of sockets, parks and fences: `TunnelTeardown`.
  `CurIsWaiting` makes the entry of the map the promise that is pending;
  `OneHolder` gives the session's claim to one connection; `ListenerFits` makes the
  listener the registered tunnel's, so a handler that waits waits for its own;
  `FenceFits` says what a fence has behind it at each of its steps, for which the
  order "close, wait for binds, close again" is needed.
* *TunnelBridge*, for any number of connections and chunks and any watermarks:
  `BridgeDelivers`, `BridgeThrottles`. `UpFits` and `DownFits` follow the chunks: what
  is delivered, what the writer holds and what is on its way are consecutive
  (`Stream`). `PauseFits` is the reference count of the pause. `QueueFits` counts the
  connections that can queue no further chunk (`Quiet`): a queue past the watermark
  has made one connection quiet for each chunk it is past it.

**Durable records** (`DurableProofs`).

* *JobWorker*, for any number of pods, any lease longer than its grace and any
  horizon: `OwnerFenced`, `OneLoginOnly`. `JobInv` relates the two clocks: a
  confirmation and an unread answer are never newer than the lease they stand for
  (`LeaseCovers`), and the monitor has not passed its local deadline
  (`WithinDeadline`); together they give the grace. `OwnersOnly` says that whoever is
  past the claim, or has a browser, owns the job, and `NothingLeft` that a completed
  session or a job its worker ended leaves no browser and nobody about to start one.
* *HostedBroker*, for any number of workers and dispatchers: `ReceiptsStand`,
  `OutcomeOnce`. `OneAttempt` makes one attempt one request and one worker,
  `CallOfStep` says which request a worker can have out, and `StoredIsRecorded` what a
  positive answer to a completion rests on while it is still on its way.
* *HostedSchedule*, for any number of callers, revisions and occurrences:
  `ScheduleChain`. `CallFits` says what a handler has behind it at each of its steps,
  with `Past` for occurrences the due record has moved on from: another handler or an
  edit may advance the record under it, and it must still not run twice.
* *Webhooks*, for any number of attempts, drains and leases: `OutboxSound`,
  `DeliveriesStayFinished`, `FanOutEnds`. `RecordFits` bounds the attempts by the time
  that leases have run out, `ChainFits` makes the posts at a receiver the attempts of
  the head of the chain.
* `DurableRecordsStand` joins the four action properties (`RecordsStand`) for the
  composition that the run `durable` checks.

**Transactions** (`TxStoreProofs`), for any accounts and references, any number of
crawls, rows of a batch and planners, and any size of a page: `IdentityStaysSound`,
`PromotionStaysSafe`.

The promotion is a loop in which each row looks at what the earlier ones wrote.
`After(P, M)` says what the rows `P` of the batch `M` come to without the loop: an
observation is accepted, keeps its reference and gets its id depending on the set
`M` and on the rows the promotion began with (`KeepsAlike`, `RowUntouched`).
`PromotionIs` proves that the loop computes it, row by row, and so that a batch and
its reverse come to the same. That needs `AppliedApart` (two observations come to
two rows) and `CanonsApart` (no two of them get one reference): an update that
loses its reference may still have one, that of the row it was sent for, and
nobody else may be given it. `TxInv` adds what the other actors rely on: what a
running crawl was sent is still as it was sent; a stored batch has all its
claims (`ReplayIs`: promoting it again changes nothing); a plan whose generation is
the active one comes to what a promotion now would (`PlanFits`); and each version
the consumer has is the current one or after its cursor (`ConsumerFits`), which a
page keeps because it is closed under what comes before it (`PageIsFirst`).

**Access** (`AccessProofs`).

* *DevicePairing*, for any number of phones, requests, devices and tokens:
  `PairingSound`, `RevokedOut`, `NewerSurvives`. `PairInv` adds what the request's row
  and the device rows owe each other: what was shown is the claim and what is
  approved was shown; a device belongs to an earlier request or to the current one
  once that is consumed, and two devices to two requests (`OneDevicePerRequest`
  counts; `RequestsApart` is the same without counting); a token that the provider
  rejected is one the platform had dropped.
* *OAuthGrants*, for any number of requests, codes, grants and token pairs and any
  lifetimes: `OAuthUsedOnce`, `OAuthConsentBound`. `RequestFits` says what each request
  has read and what still holds of it, which at READ COMMITTED is little: a code
  it holds may be gone and a grant revoked. `LocksApart` is the lock on a grant's
  row; `KeyOfGrant` says that a key which outlives its cascade came late;
  `CodeOfGrant` and `TokenChain` are single use without counting.

A loop over data is proved about as a function on the numbers up to its length
(`LoopExists`, `PromotionLoopExists`), by induction over a set of numbers
(`AllNat`, from the least element of what is missing).

The assumptions on constants are those in the modules (`OAuthAssumption`,
`WaterAssumption`, `FollowedAssumption`, `TxAssumption`, ...): finite sets where
something is counted, positive limits, digits below their base, and a lease longer
than its grace. TLC evaluates them in
the runs, and has checked each inductive invariant above on its module.

**Only model-checked:** the liveness properties (`LockReleased`,
`SyncingResolved`, `ParkedIsSettled`, `EngineMovesOn`), because liveness under
fairness is out of the prover's reach; the two violations and the known
disagreements. Every invariant and action property of the passing runs is stated
by a theorem.

## 5. Observations

Met while modelling; none is a run of its own.

Sessions and schedule:

* `LockReleased` holds for an orphaned manual crawl only because retention deletes
  its row (see `SuccessPromoted`).
* `HealthyHasNoStreak` is stated until the first schedule edit: editing a schedule
  while a claim is out can restore a status older than a failure.
* A browser context that could not be closed keeps no lock once its row is
  released by the tick; what is driven holds the lock, what leaked does not.
* `cancelled` sessions are not seen by the first recovery pass, so a connection
  left `syncing` by one waits for its next claim.
* `transientRetryDelayMs` (data/crawl-bookkeeping.ts) is documented and tested
  and has no caller.
* Self-hosted, finishSession(true) whose markSessionTerminal throws after it
  committed sends `crawl.failed` for a completed session (run-crawl.ts 210-226,
  546-551); the stranded sweep sends no webhook at all.

OTP and phones:

* A code that arrives before the agent waits is refused: the email is flagged
  `\Seen` and the phone does not post it again (email-otp/watcher.ts:83). Only the
  operator can supply it.
* A late wake post is read in the episode it arrives in, so one episode may be
  decided twice; the second decision is as current as the first.
* The idempotency key keeps only the last key: a repeated SMS is recognised until
  another code was accepted.
* A push registration the phone gave up on can arrive after a newer one and
  overwrite it; the next rejected wake-up clears it, and the app posts its token
  when it starts.

Agent loop:

* Recovery's reportData does not reset `consecutiveStaleReports`, and an error
  thrown in recovery drops its category.
* "Crawl timed out" is classified page_capture_timeout where the comment
  (agent-loop.ts, near 838) says internal_error.

Hosted:

* A worker whose completion failed reports /failure instead of sending the same
  completion again; the broker refuses it if the completion was stored. The
  session is reconciled from the stored one.
* The reconciliation task that the completion route enqueues is not needed for
  durability: the one armed at the hand-off reaches the same state.
* A successor's wake-up that arrives while its predecessor's marker is pending is
  judged stale and acknowledged (hosted-schedule-policy.ts 143-148); the armed
  record then has no task left, and the sweep skips armed records. The chain of a
  hosted schedule therefore need not go on, and no liveness of it is claimed.
* Retries of the outbox keep their first timestamp: a receiver that uses the SDK's
  `toleranceSeconds` refuses a late retry, with a 4xx, which ends the delivery.

Transactions and OAuth:

* Resolving an update checks the account only; that is safe because the promotions
  of one connection are serialised by its lock.
* The hosted refresh rotation passes an access expiry that is not clamped to the
  grant, and leaves it to the store to end the key with it (comment at
  routes/oauth.ts 759-761); the PostgreSQL one clamps it.

## 6. Plan

Done: the modules of section 2, the proofs of section 4. Next:

1. `CrawlSession` composed with `JobWorker`: the Kubernetes job as the engine of a
   session, the reaper of one as an action of the other.
2. Transaction history upload: begin, append, seal, with repeated chunks.
3. Organization shares: invitation, acceptance, withdrawal.

## 7. Not modelled

The hosted document store (not in the repository) and the tenancy around it: the
modules that meet it use its interface and the repository's decision functions.
Transaction history upload and organization shares (see the plan). Prompt
assembly, providers and pricing; encryption; byte formats (tunnel frames, SOCKS
greeting); read-only projections of the data API; rendering; migrations; build
and dependency scripts. LLM answers, sender matching and extraction are free
choices wherever a module meets them. `PROJECT.json` gives the reason for each
component.
