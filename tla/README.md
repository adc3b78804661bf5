# A TLA+ verification of mkqd

mkqd is a daemon and a library that consumes BullMQ-compatible queues through
the mkq library. It starts one mkq worker per queue, gives each a handler (code
of the application, or one of the built-in executors that post a job to an HTTP
endpoint or deliver it to an ActivityPub inbox), serves health probes, and shuts
down by draining. Its command line also inspects and changes queues.

This directory holds TLA+ models of that program, TLC configurations that check
them on small instances, and TLAPS proofs for every instance. `PROJECT.json`
maps each definition to the lines it models, and lists the runs, the hazards
they are aimed at, and the theorems.

## 1. The system and its parts

| Part | Source | State | Operations | Module |
| --- | --- | --- | --- | --- |
| Runtime lifecycle | `runtime.go` | `started`, `stopped`, `workers`, `srv`, `client`, `rdb`, `stopOnce`, `stopErr` | `Start` and its rollback, `Run`, `Shutdown`, `stopWorkers`, `abortWorkers`, `drainWorker` | `Lifecycle`, `Budget` |
| Health server | `server.go` | listener, requests in flight | open, `Close`, `/readyz` | `Lifecycle`, `Budget` |
| Registration and tuning | `register.go`, part of `runtime.go` | `registry`, `order` | `Handle`, `HandleExecutor`, `buildConfiguredQueues`, `Check`, `Start` | `Registration` |
| Configuration | `config.go` | `Config` | `LoadConfig`, `ParseConfig`, `expandEnvNode`, `DecodeStrict`, `applyDefaults`, `Validate`, `autoPoolSize` | `Setup`, `Registration` |
| Executor registry | `executor.go` | type to factory | lookup, the factories | `Registration`, `Setup` |
| Retry-After | `retry_after.go` | none | `ParseRetryAfter`, `RetryAfter`, `retryDelay` | `RetryAfter` |
| HTTP and webhook executors | `executor/httpexec` | none | `Execute`, `send`, `mergeHeaders`, `classify` | `Attempt`, `Dispatch` |
| ActivityPub delivery | `executor/apdeliver` | none | `Execute`, payload checks, `classify` | `Attempt`, `Signing` |
| Signers | `executor/apdeliver/signer.go`, `remote.go` | the key cache of a `dir` signer | `BuildSigner`, `Sign`, `load` | `KeyCache`, `Attempt`, `Signing`, `Setup` |
| HTTP signatures | `httpsig` | none | `SignRequest`, `SigningString`, `validateKeyID`, `ParseSignatureHeader`, `Verify` | `HttpSig`, `Signing` |
| HTTP client, address guard | `internal/httpsend`, `internal/safedial` | idle connections | `NewClient`, `ReadBody`, `CheckAddr`, `IsPublic` | `SafeDial`, `Dispatch` |
| Operator commands | `cmd/mkqd` | queues in Redis | enqueue, pause, resume, retry, promote, rm, drain; queues, counts, list, job | `Admin`, `Inspect` |
| mkq library | not in this repository | workers, locks, jobs | take, finalise, recover, retry | external parts of the above |
| Logging, version, docs, examples | `logging.go`, `version.go`, `doc.go`, `examples` | none | none | not modelled |

How they interact: `New` validates a configuration and opens the Redis clients;
`Start` builds the configured queues, launches one worker per queue and then
opens the listener; a worker hands jobs to a handler, and a built-in executor
turns the answer it gets into "completed", "failed" or "again, after a delay";
`Shutdown` closes the listener, drains the workers, and closes the clients.
Operators work on the same Redis from other processes.

What makes this hard, and where it is covered:

- the drain budget, each worker's unwind grace, handlers that return or do not,
  kills and restarts all race each other (`Lifecycle`), and the listener, the
  drain and the unwind share one budget and an outer deadline (`Budget`);
- `Shutdown` may come from several goroutines, before, during or after a `Start`
  that succeeds, fails or is rolled back (`Lifecycle`);
- `/readyz` reads a flag and then pings, with a shutdown in between (`Lifecycle`);
- `Check` and `Start` both build queues in one registry (`Registration`), out of
  a file whose scalars may be references, empty, quoted or misspelt (`Setup`);
- an endpoint's answer may be lost after it accepted, and several attempts meet
  different failures (`Attempt`);
- a delay is a product in 64 bits that a server chooses (`RetryAfter`);
- a host name resolves anew at each dial, connections outlive requests and break
  under them, and one address has several forms (`Dispatch`, `SafeDial`);
- a key file is rotated between `stat`, lookup, read and store (`KeyCache`), and
  what was signed with it has to verify with the key that is published then
  (`Signing`, `HttpSig`);
- a command makes several Redis calls with nothing held between (`Admin`,
  `Inspect`).

## 2. The modules

### Lifecycle: the process

Its variables are the fields of `Runtime` (`started`, `stopped`, `workers`,
`srv`, `client`, `rdb`), program counters for the goroutines (`startPc`,
`stopPc`, `task` per worker being stopped, `caller` per call of `Shutdown`,
`probe` per `/readyz` request), what mkq holds (`worker`, `handler`, `job`,
`attempts`, `stalls`), the environment (`proc`, `budget`, `ends`), and history
(`succeeded`, `repeated`, `timedOut`, `killed`).

There is one action for every step between which another goroutine, Redis or a
kill can come:

- `Start`: `StartBuilds`/`StartBuildFails`, `Launch`/`LaunchFails` per queue,
  `Launched`, `Listen`/`ListenFails`, and the rollback `AbortTakes`, `AbortJoins`.
- `Shutdown`: `CallShutdown`, then inside the `sync.Once` `CloseServer`,
  `ServerDrained` or `ServerCut` or `ServerAbandoned`, `StopTakes`, `StopJoins`,
  `CloseClient`, `CloseRdb`, `SetStopped`, and `ReturnShutdown` for each caller.
- `drainWorker`: `DrainCall`, `DrainDone` or `DrainExpires`, `StopCall`,
  `StopDone` or `StopTimesOut`.
- mkq (external): `Take`, `HandlerReturns`, `Finalise`, `FinaliseLost` (the
  client is closed), `Recover` (stalled recovery, with its limit).
- the environment: `BudgetEnds`, `Kill`, `Exit`, `Restart`.

Time is "expired or not": a budget or grace may run out at any moment once it
has begun. That admits every real timing, so safety results are not weakened;
what cannot be said is how long something takes.

`Delivery` is the abstract specification of what the producer of a job is
promised: it knows jobs, successes and excuses, and no workers, processes or
shutdowns. `Lifecycle` implements it under `stateBar`, `succeeded` and
`excusedBar` (`DeliverySpec`).

### Budget: the end of Run against a clock

`Budget` follows one `Run` from `Start` to its return with an integer clock.
`run` is where `Run` is, `begun` and `deadline` are the times of the call of
`Shutdown` and of the end of its context, `task` and `graceEnd` the stop
goroutine of each worker, `handler`, `taken` and `cancelled` what each worker
slot does and since when, `visitor` a client on the listener, `signal` and
`killed` the supervisor. The steps are those of `Lifecycle` with the orders that
do not matter for time left out. `Tick` comes only when no step of the code is
`Due`: code that waits for nothing takes no time. Handlers and clients are free
to never end. A signal that comes during `Start` is taken up when `Start` has
returned, as `Run` does.

### Registration: from a file to workers

`New` normalises and validates one of a set of configurations; `register` is
`Handle`/`HandleExecutor`; `Check` and `Start` run `BuildOne` for each block;
`LaunchOne` resolves the tuning of each worker. Calls are taken one at a time:
`buildConfiguredQueues` works on the registry without the mutex, so an
application has to finish registering first (hazard `register.go:275`). A call
that is refused changes nothing and is not a step.

`Setup` puts the file before it. A file is its top-level keys, what it says
besides queues, and a block per queue with a scalar (a literal or a reference,
plain or quoted) and the options of its executor. `LoadConfig` expands and
decodes against an environment, and hands `Registration` the configuration that
results; `BuildFromText` lets `BuildOne` build an executor only for options that
its factory takes. An application may skip the file and give `New` a `Config`.

### RetryAfter and Attempt: one job through an executor

`RetryAfter` holds the pure functions over durations of a given width, with
`Asked`/`Honoured` as their reference definition in unbounded integers.
`Attempt` runs a job through `Begin`, `Decode`, `SignLocal`/`SignRemote`,
`CheckKeyID`, `Send`, `Read` and `Conclude`, with every early return of
`Execute` and every loss the network can cause. A payload is abstracted to the
one check it fails. `sent`, `accepted` and `unread` are history: the requests of
this attempt that were written, and what the endpoint did, which mkqd cannot see.
`ground` is history as well: whether payload, signer, address or answer have given
a reason to give up. `Resend` is net/http, which by itself sends a request again
that carries an idempotency key (`keyed`) and got no answer.

`Dispatch` is `Attempt` with `Send` in detail. `Build` puts the request's headers
together from configuration, payload and mkqd's own, in any order of the map;
`Dial` resolves the name anew and connects through the guard or a proxy,
`DialFails` is the error of a dial that reaches nothing, `Reuse` takes the
connection that `ReadAnswer` left idle, `Close` ends it. A connection that breaks
under `Reuse` before an answer comes has the request sent again if it is replayable
for net/http: a POST is by its headers, which `Build` put together, and mkqd sets
none of the two that count (`isReplayable`). `ImplementsAttempt` says that
`Dispatch` implements `Attempt`.

The guard is `SafeDial`. An address is a form (IPv4, IPv6, IPv4 mapped, translated
or compatible), the range of the host it leads to, and the range that its last 32
bits name when they are read as an IPv4 address. `IsPublic` is the code's sequence
of tests over these. Two kinds of address it cannot judge (`Recognised` leaves them
out). Of the special ranges of IPv6 the code names some and not fec0::/10,
2001:2::/48, 3fff::/20 and 5f00::/16, which pass for public. And it reads the
address inside a local NAT64 address out of the last 32 bits, where RFC 6052 puts
it for a prefix of 96 bits only.

### KeyCache: the `dir` signer

`load` is four steps (`LoadStats`, `LoadLooksUp`, `LoadReads`, `LoadStores`),
because the lock is held only around the map. The operator renames a new file
into place, or truncates and writes it, or removes it, between any two of them.

### HttpSig and Signing: a delivery and its inbox

`HttpSig` holds the functions of `httpsig.go` over requests and texts of tokens:
what `SignRequest` sets, the signing string, the `Signature` header as it is
written, split and read, and `Verify`. A digest stands for one body and a
signature for one key and string. `keyIDLimit` is a constant: 512 in the code, 4 in
the run, any number in the proofs.

`Signing` composes them with `KeyCache`: `BeginAttempt` and `GoOnLoading` are the
load of the delivery that is followed, `SignAndSend` signs what `BuildRequest`
made of the payload, `Wire` is what net/http makes of it, `Receive` is the inbox
behind a proxy that may rewrite one part, and `Publish` puts the file's key on
the actor. Other deliveries are there as their loads. What `Receive` does with a
message is a table over payloads, rewritings and keys, since no state enters it.

### Admin: the operator's commands

Each command is `Open` (list the queues), `Gate` (check the name), then its mkq
calls, each atomic in Redis. Producers, workers, other operators and clients that
remove a queue with its jobs (`QueueRemoved`) act in between. What each mkq call
does is external. A command line that is refused
before it reaches Redis is not a step; a command that fails forgets its memory
and leaves what its calls did. `touched` is history: the drains between whose
two counts somebody other than a producer moved jobs of the queue, or removed it.
`meant` is history: the queues that somebody ever meant to have.

`Inspect` adds the commands that only look. `OpenView` is `openInspector` with the
queues the command is to visit, which `counts` may be given by name; each has its
turn in `DefineListed`, which ends the command for a name that was not listed, or
opens the queue, which writes to Redis. `ReadCounts` and `ReadStatus`, `ReadJob` or
`ReadLast` read it. `gone` is history: the queues that were removed since they were
listed. One operator looks at a time, since two that do have nothing in common.

## 3. What TLC checks

Passing runs:

| Run | Question | Distinct states |
| --- | --- | --- |
| `lifecycle_safety` | Two queues, two jobs, two callers of `Shutdown`, a `/readyz` request: jobs are orphaned or repeated only after a kill or an outlived grace; `nil` means unwound; a returned `Shutdown` is final; a rollback is complete; nobody is cancelled early; 200 only while every worker takes jobs; nothing is done twice in one process; and `Lifecycle` implements `Delivery` | 1,321,547 |
| `lifecycle_fair` | `Shutdown` and `Start` return although no handler need ever return; if handlers do and a supervisor restarts, every job ends, through kills, shutdowns and failed starts | 212,164 |
| `budget` | `Shutdown` ends within budget and grace; a handler has the whole budget, and the whole grace after it; what an outer deadline has to be | 89,358 |
| `registration` | Every order of `Handle`, `Check` and `Start` over small files and environments: one worker per queue, with this `Start`'s executor, the tuning the file asks for, and a pool that fits or a warning | 791,189 |
| `signing` | Deliveries and other loads against rotation: no key older than the file's, a settled key is accepted, what is accepted is what was signed, nothing is given up while the file is there | 3,678,204 |
| `attempt` | Three attempts of every executor and signer: successes count once, failures have a cause, delays are the ones asked for, an attempt is one request unless somebody gave it an idempotency key, the guard lets through what is public and nothing else among the addresses it can judge, headers are mkqd's where it says so; and `Dispatch` implements `Attempt` | 3,598,972 |
| `admin` | Two operators, producers, workers and clients that remove queues: no command creates a queue that nobody ever meant to have; a command that looks changes nothing, except that it registers a queue again that was removed after it was listed; and drain's report is not too high, unless a worker or another operator moved jobs of the queue between its two counts or somebody removed it | 2,261,131 |

Every property of these runs has a mutant in `PROJECT.json`: a plausible bug in one mapped
definition under which TLC finds the property violated.

Runs that TLC refutes show where a sentence of the repository and its code
disagree. Each is a finding with the line quoted:

| Run | The sentence | What the code does |
| --- | --- | --- |
| `lifecycle_canceled` | `/readyz`: "workers are up and Redis answers `PING`, else 503" | with a context that is cancelled and not timed out, `Close` leaves requests in flight, which answer 200 while workers drain |
| `lifecycle_concurrent` | "Shutdown ... drains every worker" | a `Shutdown` during `Start` misses workers launched later |
| `keycache_coarse` | "rotating a key in place takes effect without a restart" | two writes of one size in one tick of the file clock look the same |
| `attempt_payload` | a defect of the payload is permanent | an unusable key id is retried |
| `attempt_refusal` | "`X-Mkqd-Retry: no` fails the job permanently whatever the status says" | a 2xx completes the job, header or not; a comment in `classify` and a test want it so |

The first three also show that the assumptions of the theorems (section 4) are
needed. Smaller differences that modelling brought up, and for which there is no
run:

- `retry_after.go:43` says that a negative `RetryAfterError.After` counts as
  zero; `retryDelay` leaves it to the configured backoff, and says why.
- "the application answers one request per attempt" (`README.md:307`) holds
  without an idempotency key. With `Idempotency-Key` or `X-Idempotency-Key` among
  the headers of configuration or payload, net/http sends the request again when a
  connection it had used before breaks under it (`OneRequestPerAttempt` is the half
  that holds).
- A looking command must not bring its subject into being (the comment of
  `openInspector`), and `inspector.queue` refuses names "that are not already in
  Redis". The list is as old as the command: a queue that is removed after it was
  listed is registered again (`LookingChangesNothing` allows for that alone).
- `isServing` is described as "workers are up and shutdown has not begun"; it
  holds from before the first launch until after both clients are closed.
  `/readyz` is right all the same, because of when the listener is open.
- `drainResult.Removed` "counts what actually disappeared"; it is a difference
  of two counts, which is too low when producers add in between, and too high
  when a worker or another operator moves jobs of the queue or somebody removes it
  (`DrainNotOverstated` is what holds without these).
- `counts` reads the counts and the pause state in two calls, so that a row may
  be paused and have a `counts.paused` of zero, or the other way round, when the
  queue is paused or resumed between them (hazard `inspect.go:248`).
- "Size any outer deadline ... for ctx + defaultUnwindGrace" (`runtime.go:230`)
  counts from the call of `Shutdown`. A signal that comes while `Start` runs
  waits for it, rollback included, and that time comes on top
  (`OuterDeadlineSuffices` says when it does not).
- "mergeHeaders overlays per-job headers on the configured ones"
  (`webhook.go:121`), by exact spelling: of two that differ only in case the
  order of a Go map decides, per attempt (`HeadersAsPromised` leaves these out).
- "the signing string reads it from the same place so the two cannot drift"
  (`httpsig.go:75`) holds of a host in ASCII. net/http sends another one in
  punycode, and trims a content type, after they were signed
  (`SettledKeyAccepted` leaves these out).
- A block for a queue that code has claimed is not built, so that a misspelt
  option in it goes unnoticed; so does any option of `log` (`FileUnderstood`).

### Bounds, and why they are enough

- `Lifecycle`: two queues and two jobs give a worker that drains beside one that
  times out, and a launch that fails after one that succeeded. Two callers give
  a second one that waits for the first. `MaxEnds = 2` (kills, shutdowns and
  failed starts together) gives every pair of ends with a restart between them,
  so that a job orphaned in one process is met by the next. One attempt and one
  stalled recovery suffice for the safety run. `lifecycle_fair` has one queue and
  one job with two attempts and a recovery, both kinds of context, the listener,
  and `MaxEnds = 3`: two ends can each interrupt the job before a third. Two jobs
  that share a slot are beyond its time, so that the strong fairness of `Take` is
  not put to the test there. For the safety properties the proofs cover every other
  combination that their assumptions admit.
- `Registration`: files of at most two blocks, which may clash, be empty, wrong
  or unlinked; three calls of `Check` and `Start`, so that two checks precede a
  start or one follows it.
- `Attempt`: a duration has 6 bits, a second is 4 units and the cap is 3
  seconds, so that headers lie on both sides of zero, the cap and the width, and
  a wrapped product may be negative, zero or small. The statuses take a member
  of each row of the README's tables and of the gaps between them. `MaxResends = 1`
  lets net/http send a request twice in one attempt, which is what the properties
  tell apart from once.
- `Budget`: two workers, one with two slots, so that a handler ends beside one
  that does not and one worker is done before another. A budget of 3 ticks, a
  grace of 2 and an outer deadline of their sum; `LastCall` lets a signal come
  before, at and after the end of `Start`, and `Horizon` lies beyond every
  deadline, so that a late return would be seen.
- `Setup`: an environment that lacks the variable, or has a number, nothing or a
  word in it; scalars that are literal, empty, references with and without a
  default, and quoted; each executor's options in order, misspelt and unusable.
- `Signing`: a key, its successor and four times, a load beside the delivery's.
  Key ids with each character the header treats specially, one that is empty, a
  host and a content type that net/http changes, and payload headers that
  collide with signed ones. `keycache_coarse` has three writes and four times.
- `Dispatch`: a host that is public in two forms, one that is private in two, one
  that changes, with a mixed list, and one whose addresses the guard cannot judge;
  headers that collide with mkqd's and with each other, in both spellings, without
  and with idempotency keys. `PublicExactly` and the guard's theorems cover every
  kind of address.
- `Admin`: two operators and two queues, each of which may or may not exist at
  the start, and one job, of the first queue. It is enough for a drain to delete
  it, a producer to add it again, and the second count to see it; the second queue
  is there for names that are listed, removed or unknown, and may be paused.
  A view of both queues meets a second operator at each of its calls. The
  proofs have jobs in every queue.

Symmetry is used for callers, loaders, operators, and in `lifecycle_safety` for the
two queues together with their jobs, never with liveness properties. Deadlock is checked where
the process can always go on; it is off where the program may stop for good, and
where `MaxEnds` stops it.

### Fairness, and why the code justifies it

`RuntimeFairness` (in `FairSpec`) is weak fairness of the goroutines of
`Start`, `Shutdown` and `drainWorker`, and of the ends of the budget, of each
grace and of a request. The Go scheduler runs runnable goroutines; the contexts
come from `context.WithTimeout`, and `/readyz` bounds its ping. Nothing is
assumed of handlers, which is the point of `ShutdownReturns` and `StartReturns`. A
context that an
application never cancels would not end: the budget of `Run` always does.

`JobFairness` (the premise of `JobsFinish`) adds that handlers return, that a finished
handler records its outcome, that stalled jobs are found, that a process that
shut down exits and that a supervisor restarts one that ended; and strong
fairness of `Take`, since a worker that polls for ever is not passed over for
ever although other jobs may take its slot in between. These are assumptions on
mkq and on the deployment, and no other property has them.

## 4. What TLAPS proves

For every value of the constants that satisfies the named assumptions:

| Module | Theorem | Says |
| --- | --- | --- |
| `LifecycleProofs` | `Invariance` | `IInv` always holds |
| | `OrphansExcused`, `RepeatsExcused`, `NilIsUnwound`, `FinalShutdown`, `RollsBack`, `CancelsLate` | the safety properties of `lifecycle_safety` |
| | `ReadyIsUp` | `/readyz` answers 200 only while all workers take jobs |
| | `GoesForward` | `Start`, `Shutdown`, the stopping of each worker and each caller only go forward (`OnlyForward`) |
| | `FreeInvariance`, `TypeCorrect`, `ResultIsShared` | also with a `Shutdown` during `Start`: the state keeps its type, and all callers get one result, with both clients closed |
| | `ImplementsDelivery` | `Lifecycle` implements `Delivery` |
| `BudgetProofs` | `BudgetInvariant`, `ReturnInTime`, `DrainInFull`, `GraceIsFull`, `OuterDeadline` | the safety properties of `budget` |
| `DispatchProofs` | `RetryAfterExact` | the delay computed in the width is the one asked for, up to the cap |
| | `AttemptInvariance`, `CountsOnce`, `FailsForCause`, `WaitsAsAsked`, `RequestedOnce` | what `attempt` checks of a job's attempts |
| | `DefectsStay` | nothing is sent for a payload with a defect, and one that mkqd finds by itself costs one attempt |
| | `PublicExactly` | among the addresses that the code can judge, `IsPublic` holds of exactly those that lead to a global one; of the four ranges it does not list it holds always, of a local NAT64 address exactly if the last 32 bits are global |
| | `DispatchImplementsAttempt`, `DispatchCountsOnce`, `DispatchFailsForCause`, `DispatchWaitsAsAsked`, `DispatchRequestsOnce`, `DispatchSendsNoDefect` | `Dispatch` implements `Attempt`, and what is proved there holds of it |
| | `GuardHolds`, `GuardFailsNoPublic` | with the guard on nothing that is not public is reached, and nothing public fails by it, as far as the code can judge the address |
| | `HeadersHold` | a request carries the headers of mkqd, payload and configuration as promised |
| `SigningProofs` | `RotationTakesEffect` | no load returns a key older than the file's when it began |
| | `SigningImplementsCache`, `DeliveriesFollowRotation` | deliveries use the cache as `KeyCache` says, and so none signs with an older key |
| | `SettledKeyUsed`, `UnknownOnlyWithoutFile` | a settled key is the one that signs; a delivery is given up for want of a key only without a file |
| | `RoundTrip` | `ParseSignatureHeader` reads what `SignRequest` wrote, for key ids and covered headers of any length |
| | `AcceptsWhatWasSigned`, `SettledKeyIsAccepted` | an inbox accepts only what was signed; it accepts what was signed with a settled key |
| `InspectProofs` | `InspectInvariant`, `OnPurpose`, `NotOverstated`, `LooksOnly` | what `admin` checks |
| `RegistrationProofs` | lemmas only | `registeredQueues`, sums, tuning, and how each step keeps the parts of `SetupInv` |
| `SetupProofs` | `RuntimeInvariant` | `SetupInv` always holds of a `Runtime` |
| | `CodeWins`, `Serves`, `Freshness`, `Predicts`, `Precedence`, `Understands`, `PoolIsFit` | what `registration` checks |
| `Induction` | lemmas only | induction and recursion over the natural numbers, for the loops |

**Assumptions.** The ranges of the constants (`LifecycleAssumption`,
`BudgetAssumption`, `KeyCacheAssumption`, `SigningAssumption`,
`JobsAssumption`, `HttpSigAssumption`, `RetryAfterAssumption`,
`AttemptAssumption`, `DispatchAssumption`, `AdminAssumption`,
`RegistrationAssumption`, `SetupAssumption`). Those on payloads, headers,
configurations and files say what the types of Go say: a key id is a text, a
header of the payload is marked as the payload's, the settings of a queue are
numbers or unset. The built-in concurrency is positive, as in the code, and
the empty name, which `Validate` and `Handle` refuse, is not among the names of
queues. The theorems
about `Lifecycle` are for callers that call `Shutdown` not while `Start` runs, and
`Start` not once `Shutdown` has begun or returned (`~ConcurrentStop`), except for
`FreeInvariance` and the two that rest on it. `Run` is such a caller;
`lifecycle_concurrent` shows that the first half is needed. The second is, since
`Start` looks at `started` and not at `stopped`: after a `Shutdown` it would go on
to launch workers. `ReadyIsUp` also takes contexts that end by
deadline, as that of `Run` does; `lifecycle_canceled` shows why.
`RotationTakesEffect`, `DeliveriesFollowRotation`, `SettledKeyUsed`,
`SettledKeyIsAccepted` and `UnknownOnlyWithoutFile` assume that no two writes share a modification time
(`~Coarse`); `keycache_coarse` shows why.

**The argument for Lifecycle.** None of the safety properties is inductive: that
a job is not orphaned depends on `CloseClient` coming after `StopJoins`, which
waits for every `task`, which is finished only when its worker has no handler
left or ran out of its grace. `IInv` says all of that at once:

- `ControlInv`: the fields of `Runtime` are functions of where `Start` and
  `Shutdown` are, and the worker lists of `Start`, its rollback and `Shutdown`
  are disjoint in time;
- `QueueInv`: what each stop goroutine implies of its worker, and that an error
  of it means an outlived grace;
- `JobInv`: a job is held exactly while a handler runs it over an open client;
  a handler outlives the client, and a success outlives its record, only with
  an excuse;
- `CallerInv`: results come from the joined errors, which contain every outlived
  grace;
- `ServerInv`: the listener is open only between the last launch and the first
  drain, and no request outlives it.

One lemma per part shows that each action preserves it (`TypeStep`,
`ControlStep`, `QueueStep`, `JobInvStep`, `CallerStep`, `ServerStep`), citing
the other parts before the step; the frame lemmas (`StartFrame`,
`ShutdownFrame`, `TaskFrame`, `JobFrame`, `ProbeFrame`) dispose of the actions
that do not touch it. TLC checks `IInv` itself in `lifecycle_safety`.

**Whoever calls Shutdown when.** `lifecycle_concurrent` shows what a `Shutdown`
during `Start` breaks. `FreeInv` is what it does not break: the clients and the
flag follow the body of `Shutdown`, results come from its errors, and a job is
held exactly while a handler has it over an open client. None of it depends on
the lists of workers. `SharedResult`, the half of `ShutdownIsFinal` that the
`sync.Once` gives, follows without `~ConcurrentStop`.

**The safety half of termination.** That `Shutdown` returns and that every job ends is
liveness, and only model-checked. What can be proved of the first is that nothing
goes round: under `OnlyForward` a process has finitely many steps of `Start`,
`Shutdown` and the goroutines that stop workers. What is left to TLC is that none of
them gets stuck. `OnlyForward` needs `IInv`: that a worker which `abortWorkers` or
`stopWorkers` takes has no goroutine yet that stops it.

**Delivery.** Each action is shown to be a step of `Delivery` on one job, a
fault, or a stutter; the facts about excuses come from `IInv`.

**KeyCache.** `NoStaleKey` needs that a stat identifies the key that was in the
file: `CacheInv` says that equal modification times, in the cache or in two
loads, mean the same key, and that a cached key is no older than its stat's.

**Attempt.** `AttemptInv` adds where a success that was read is kept during an
attempt, that a reason to give up leads to a permanent result at once, that
the result is the one the answer calls for, and that only a request with an
idempotency key has been written before `client.Do` returns. What is a reason to
give up is said apart from what `Execute` does: by the payload's defect, by the
signer's answer, by the guard, and by the statuses and the header that the README
lists (`Refuses`), less the 2xx (`attempt_refusal`). `WaitsAsAsked` rests on
`RetryAfterExact`: `maxDeltaSeconds` is exactly the bound up to which the
product does not wrap, and everything beyond it is over the cap as well.
`DefectsStay` is the complement of the finding of `attempt_payload`: an unusable
key id may be retried, but it is never sent. Its invariant `DefectInv` says at
which check an attempt with each defect ends.

**Budget.** `BudgetInv` gives each wait of `Shutdown` its deadline (the listener
and the drain that of the context, each stop that of its own grace) and says that
the clock does not pass one that has not been dealt with. Together they bound the
return; that a cancelled handler was cancelled exactly at the deadline gives
`DrainedInFull`, and that a task is done only when its worker is idle or its
grace is over gives `GraceInFull`. `OuterDeadline` is an invariant of its own
over `killed`, `signal` and `begun`.

**Signing.** Each step is a step of `KeyCache` or leaves its variables alone,
which gives `SigningImplementsCache` and, with it, everything about the cache.
The invariant has two halves. `KeyInv` adds that while file and published key
agree nobody has a newer key, so that "no older than the file's" is "the
published one"; and that a load which found no file has `gone`. `DeliveryInv`
says that a request on its way could be signed, under a key id that the header
can carry. Together they are `SigningInv`.

What the inbox makes of a request rests on the text of the header, and so on
`RoundTrip`. It is proved part by part. The pass of `splitParams` over a text
followed by another is the pass over the second, begun where the first ended
(an induction over the length). A quoted value without a quote in it is passed
over as a whole, whatever commas it has, so that the four parameters come out as
four parts; `Cut` and `Trim` give name and value back, and `Fields` undoes
`SpaceJoin` (again an induction). From there `Verify` compares
two signing strings. Each rewriting of a proxy changes one line that the required
headers cover, or the digest, or nothing that is covered.

**Dispatch.** `DispatchStep` maps `Build`, `Close` and what precedes a send to
stutters, `Reuse`, `Dial` and `DialFails` to a `Send` of `Attempt`, and a `Reuse`
whose connection breaks to a `Resend`. The last needs that the request has a key
only if configuration or payload gave it one (`KeyGiven`), and so `HeaderInv`: a
header of mkqd's own that made requests replayable would break the refinement.
`GuardInv` says that the address of a request and of an idle connection passed
`IsPublic` when it was dialled; `PublicExactly` turns that into the range.
`HeaderInv` says that a request that is ready is one that `send` can build of this
configuration and payload, and what `Requests` builds is shown to keep each
promise.

**Admin and Inspect.** That a drain does not overstate takes an account of its
three calls: `Accounts` says that, as long as nobody but producers touches the
queue, what the first count saw is still in the queue or among what was deleted.
Jobs that arrive only enlarge a bucket, and the jobs of other queues are not
counted. `Trusts` says that the queues a command found listed were meant to be,
which they stay when they are removed (`MeantStays`), so that a `Define` of a listed
queue makes none that nobody meant. `ViewInv` says the same of a looking command,
and that what it has listed is there or in `gone`; `LookStep` concludes what its
steps write.

**Registration and Setup.** `SetupInv` follows a `Runtime` from the file to its
workers:

- `ConfigInv`: the configuration is one that `Validate` took, and one that was
  read from a file has what file and environment say;
- `RegistryInv`: what code registers is in the registry as well as in
  `Runtime.order` (`register` looks for a taken name in the one,
  `buildConfiguredQueues` in the other), and `order` has nothing that is neither
  registered nor declared;
- `BuildInv`: the blocks before the one that is built are in `order`, and after
  `Start` has built them their executors are this call's;
- `PrefixInv`: without a queue of code, `registeredQueues` is a beginning of the
  declared queues, which ties the pool that `New` computes from the file to what
  `Start` sums up;
- `LaunchInv`: the workers are the first of `registeredQueues`, each with its
  resolved tuning, and a report of `Check` says the same;
- `FactoryInv`: a queue built from a file has options that its factory takes.

`registeredQueues` and the sums are loops. That the first has no repetitions and
the members of `order`, and that it grows by one at an `Append`, are inductions
over `order` (`FirstsOfAppend` and the lemmas beside it).

**Induction.** The library's induction theorems take an operator, which the
provers cannot instantiate. `Induction` states induction over a set instead, and
proves it from the library's theorem that a well-founded relation has minimal
elements. `Recursion` gives what a recursive function needs to be unfolded.

**Only model-checked.** Liveness (`ShutdownReturns`, `StartReturns`, `JobsFinish`)
is beyond this prover, as is everything about ENABLED (above is what is proved of
its safety half). Every invariant, action
property and refinement of the passing runs has a theorem.

## 5. What is not modelled

- The grammars of YAML and of durations, PEM and JSON: libraries do that. The
  models start from what they yield, a failure included. Only one scalar per
  queue is followed through `config.go`.
- Address ranges as bit patterns: `SafeDial` names each prefix of the code, and
  cannot tell whether its digits are the right ones. Four ranges that the code does
  not name are there as well (section 2), and there may be more.
- Concurrent writes of the registry map (hazard `register.go:275`): `Check` in
  one goroutine beside `Handle` in another. No document promises that, and Go
  may end the process there.
- `RegisterExecutor`: runs in package `init`, in one goroutine, and panics on a
  clash. `keys` and `version` of the command line, `/healthz` and `/metrics`:
  read and print. Logging, version, examples: no state.
- What `list` shows: one call reads a page, and jobs that move between two pages
  are seen twice or not at all by construction. Its `page * size` may overflow
  for page numbers nobody has (hazard `inspect.go:346`).
- The return value, the wording of failures, and the HMAC of a dispatch: data
  that no property tells apart.

## 6. State of the work

Everything that changes state is modelled, except what section 5 names. What
would be worth having next: a larger part of a configuration file than one scalar
per queue.

## 7. Running it

    tlc -config MCLifecycleSafety.cfg MCLifecycle     # any cfg with its module
    tlapm LifecycleProofs.tla                          # any *Proofs module

A configuration `MC<Name><Variant>.cfg` belongs to module `MC<Name>`.
