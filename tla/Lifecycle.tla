------------------------------ MODULE Lifecycle ------------------------------
(***************************************************************************)
(* The life of one mkqd process over a shared Redis: Runtime.Start with    *)
(* its rollback, the health listener, Runtime.Shutdown with its drain and  *)
(* its unwind grace (runtime.go, server.go), the mkq workers and handlers  *)
(* they govern, and the crashes, exits and restarts around them.           *)
(*                                                                         *)
(* Time is abstracted to "expired or not": the shutdown budget and every   *)
(* unwind grace may run out at any moment after they start.                *)
(***************************************************************************)
EXTENDS Naturals, FiniteSets

CONSTANTS
  Queues,         \* the queues Start launches a worker for
  Jobs,           \* the jobs that are in Redis
  QueueOf,        \* the queue each job was added to
  Concurrency,    \* handlers one worker runs at a time
  MaxAttempts,    \* attempts a job has before it is failed
  MaxStalled,     \* max_stalled_count: recoveries before it is failed
  Callers,        \* goroutines that may call Shutdown
  Probes,         \* HTTP clients of /readyz
  ServerEnabled,  \* Config.serverEnabled
  CtxKinds,       \* how the context given to Shutdown may end
  ConcurrentStop, \* whether Start and Shutdown may meet: a Shutdown while Start
                  \* runs, or a Start once a Shutdown has begun or returned
  MaxEnds         \* bound: kills, Shutdown calls and failed Starts

ASSUME LifecycleAssumption ==
  /\ QueueOf \in [Jobs -> Queues]
  /\ Concurrency \in Nat \ {0}
  /\ MaxAttempts \in Nat \ {0}
  /\ MaxStalled \in Nat
  /\ MaxEnds \in Nat
  /\ ServerEnabled \in BOOLEAN
  /\ ConcurrentStop \in BOOLEAN
  /\ CtxKinds \subseteq {"deadline", "canceled"}

VARIABLES
  proc,       \* the operating system process
  startPc,    \* where Runtime.Start is
  todo,       \* queues Start has still to launch
  started,    \* Runtime.started
  stopped,    \* Runtime.stopped
  workers,    \* Runtime.workers: the queues whose worker is recorded
  srv,        \* Runtime.srv and the state of its http.Server
  client,     \* whether the mkq client is open
  rdb,        \* whether the probe client is open
  stopPc,     \* where the body of Shutdown's sync.Once is
  budget,     \* the context given to Shutdown
  abortSet,   \* the workers abortWorkers took
  stopSet,    \* the workers stopWorkers took
  task,       \* the goroutine that stops the worker of a queue
  errs,       \* the errors Shutdown joins into stopErr
  caller,     \* each caller of Shutdown
  worker,     \* the mkq worker of a queue
  handler,    \* the handler running a job in this process
  job,        \* each job in Redis
  attempts,   \* failed attempts of a job
  stalls,     \* times a job was recovered from the stalled state
  probe,      \* each /readyz request
  ends,       \* kills, Shutdown calls and failed Starts so far
  succeeded,  \* history: jobs some handler has returned nil for
  repeated,   \* history: jobs handed to a handler after that
  timedOut,   \* history: queues whose Stop ran out of grace
  killed      \* history: whether the process was ever killed

startVars == <<startPc, todo, started>>
stopVars  == <<stopped, stopPc, budget, stopSet, errs, caller>>
redisVars == <<client, rdb>>
mkqVars   == <<worker, handler, job, attempts, stalls, succeeded, repeated>>
envVars   == <<proc, ends, killed>>

vars == <<startVars, stopVars, redisVars, mkqVars, envVars,
          workers, srv, abortSet, task, probe, timedOut>>

StartPcs   == {"idle", "launch", "listen", "abort", "rollback", "ok", "failed"}
StopPcs    == {"idle", "server", "closing", "take", "join", "client", "rdb", "flag", "done"}
TaskStates == {"none", "drainCall", "drain", "stopCall", "stop", "nil", "err"}
Returned   == {"ok", "retry", "fail"}

TypeOK ==
  /\ proc \in {"up", "down"}
  /\ startPc \in StartPcs
  /\ todo \in SUBSET Queues
  /\ started \in BOOLEAN
  /\ stopped \in BOOLEAN
  /\ workers \in SUBSET Queues
  /\ srv \in {"none", "up", "closing", "closed", "abandoned"}
  /\ client \in {"open", "closed"}
  /\ rdb \in {"open", "closed"}
  /\ stopPc \in StopPcs
  /\ budget \in {"live", "deadline", "canceled"}
  /\ abortSet \in SUBSET Queues
  /\ stopSet \in SUBSET Queues
  /\ task \in [Queues -> TaskStates]
  /\ errs \in SUBSET {"server", "workers", "client", "rdb"}
  /\ caller \in [Callers -> {"idle", "waiting", "nil", "error"}]
  /\ worker \in [Queues -> {"none", "running", "draining", "cancelled"}]
  /\ handler \in [Jobs -> {"none", "running", "cancelled"} \cup Returned]
  /\ job \in [Jobs -> {"wait", "held", "orphan", "completed", "failed"}]
  /\ attempts \in [Jobs -> 0..(MaxAttempts - 1)]
  /\ stalls \in [Jobs -> 0..MaxStalled]
  /\ probe \in [Probes -> {"idle", "accepted", "ping", "200", "503"}]
  /\ ends \in 0..MaxEnds
  /\ succeeded \in SUBSET Jobs
  /\ repeated \in SUBSET Jobs
  /\ timedOut \in SUBSET Queues
  /\ killed \in BOOLEAN

(***************************************************************************)
(* Initial state: New has returned, every client is open.                  *)
(***************************************************************************)

(* The fields of a Runtime that New has just built. *)
FreshProcess ==
  /\ startPc = "idle"
  /\ todo = Queues
  /\ started = FALSE
  /\ stopped = FALSE
  /\ workers = {}
  /\ srv = "none"
  /\ client = "open"
  /\ rdb = "open"
  /\ stopPc = "idle"
  /\ budget = "live"
  /\ abortSet = {}
  /\ stopSet = {}
  /\ task = [q \in Queues |-> "none"]
  /\ errs = {}
  /\ caller = [c \in Callers |-> "idle"]
  /\ worker = [q \in Queues |-> "none"]
  /\ handler = [j \in Jobs |-> "none"]
  /\ probe = [p \in Probes |-> "idle"]

Init ==
  /\ proc = "up"
  /\ FreshProcess
  /\ job = [j \in Jobs |-> "wait"]
  /\ attempts = [j \in Jobs |-> 0]
  /\ stalls = [j \in Jobs |-> 0]
  /\ ends = 0
  /\ succeeded = {}
  /\ repeated = {}
  /\ timedOut = {}
  /\ killed = FALSE

----------------------------------------------------------------------------
(***************************************************************************)
(* Runtime.Start.                                                          *)
(***************************************************************************)

(* Goroutines of a process run only while the process is up. *)
Up == proc = "up"

(* A kill, a Shutdown and a failed Start each end a process. *)
CountEnd == ends < MaxEnds /\ ends' = ends + 1

(* Start: sets started under the mutex and builds the configured queues.   *)
(* (buildConfiguredQueues itself is module Registration.) Start looks at   *)
(* started alone: it is the caller, with ~ConcurrentStop, that does not    *)
(* start a Runtime whose Shutdown has begun or returned.                   *)
StartBuilds ==
  /\ Up /\ startPc = "idle" /\ (ConcurrentStop \/ stopPc = "idle")
  /\ started' = TRUE
  /\ startPc' = "launch"
  /\ UNCHANGED <<todo, stopVars, redisVars, mkqVars, envVars,
                 workers, srv, abortSet, task, probe, timedOut>>

(* Start: a queue cannot be built, or there is none. started stays set. *)
StartBuildFails ==
  /\ Up /\ startPc = "idle" /\ (ConcurrentStop \/ stopPc = "idle")
  /\ CountEnd
  /\ started' = TRUE
  /\ startPc' = "failed"
  /\ UNCHANGED <<todo, stopVars, redisVars, mkqVars, proc, killed,
                 workers, srv, abortSet, task, probe, timedOut>>

(* What `rt.workers = append(rt.workers, ...)` may leave behind. The append *)
(* holds no lock: when takeWorkers runs beside it, the element or the reset *)
(* may be the write that is lost.                                           *)
Appended(q) ==
  {workers \cup {q}} \cup
  (IF stopPc \in {"idle", "server", "closing", "take"}
   THEN {} ELSE {workers, stopSet \cup {q}})

(* One turn of Start's loop: the worker of q runs and is recorded. *)
Launch(q) ==
  /\ Up /\ startPc = "launch" /\ q \in todo
  /\ worker' = [worker EXCEPT ![q] = "running"]
  /\ workers' \in Appended(q)
  /\ todo' = todo \ {q}
  /\ UNCHANGED <<startPc, started, stopVars, redisVars, handler, job, attempts,
                 stalls, succeeded, repeated, envVars, srv, abortSet, task,
                 probe, timedOut>>

(* A rollback that only reports the error and leaves the workers running. *)
LaunchFailsNoRollback(q) ==
  /\ Up /\ startPc = "launch" /\ q \in todo
  /\ CountEnd
  /\ startPc' = "failed"
  /\ UNCHANGED <<todo, started, stopVars, redisVars, mkqVars, proc, killed,
                 workers, srv, abortSet, task, probe, timedOut>>

(* mkq.Process refuses q: Start rolls back. *)
LaunchFails(q) ==
  /\ Up /\ startPc = "launch" /\ q \in todo
  /\ CountEnd
  /\ startPc' = "abort"
  /\ UNCHANGED <<todo, started, stopVars, redisVars, mkqVars, proc, killed,
                 workers, srv, abortSet, task, probe, timedOut>>

(* Every worker is launched; the listener, when there is one, comes last. *)
Launched ==
  /\ Up /\ startPc = "launch" /\ todo = {}
  /\ startPc' = IF ServerEnabled THEN "listen" ELSE "ok"
  /\ UNCHANGED <<todo, started, stopVars, redisVars, mkqVars, envVars,
                 workers, srv, abortSet, task, probe, timedOut>>

(* newHealthServer binds and serves. *)
Listen ==
  /\ Up /\ startPc = "listen"
  /\ srv' = "up"
  /\ startPc' = "ok"
  /\ UNCHANGED <<todo, started, stopVars, redisVars, mkqVars, envVars,
                 workers, abortSet, task, probe, timedOut>>

(* newHealthServer cannot bind: Start rolls back. *)
ListenFails ==
  /\ Up /\ startPc = "listen"
  /\ CountEnd
  /\ startPc' = "abort"
  /\ UNCHANGED <<todo, started, stopVars, redisVars, mkqVars, proc, killed,
                 workers, srv, abortSet, task, probe, timedOut>>

(* abortWorkers drains instead of stopping, with no deadline to bound it. *)
AbortTakesToDrain ==
  /\ Up /\ startPc = "abort"
  /\ abortSet' = workers
  /\ workers' = {}
  /\ task' = [q \in Queues |-> IF q \in workers THEN "drainCall" ELSE task[q]]
  /\ startPc' = "rollback"
  /\ UNCHANGED <<todo, started, stopVars, redisVars, mkqVars, envVars,
                 srv, probe, timedOut>>

(* abortWorkers: takeWorkers, and a goroutine that calls Stop for each. *)
AbortTakes ==
  /\ Up /\ startPc = "abort"
  /\ abortSet' = workers
  /\ workers' = {}
  /\ task' = [q \in Queues |-> IF q \in workers THEN "stopCall" ELSE task[q]]
  /\ startPc' = "rollback"
  /\ UNCHANGED <<todo, started, stopVars, redisVars, mkqVars, envVars,
                 srv, probe, timedOut>>

(* abortWorkers: the WaitGroup is done and Start returns its error. *)
AbortJoins ==
  /\ Up /\ startPc = "rollback"
  /\ \A q \in abortSet : task[q] \in {"nil", "err"}
  /\ startPc' = "failed"
  /\ UNCHANGED <<todo, started, stopVars, redisVars, mkqVars, envVars,
                 workers, srv, abortSet, task, probe, timedOut>>

----------------------------------------------------------------------------
(***************************************************************************)
(* Runtime.Shutdown.                                                       *)
(***************************************************************************)

(* A plain "already stopping" flag instead of the sync.Once. *)
CallShutdownFlag(c) ==
  /\ Up /\ caller[c] = "idle"
  /\ ConcurrentStop \/ startPc \in {"idle", "ok", "failed"}
  /\ IF stopPc = "idle"
     THEN CountEnd /\ stopPc' = "server" /\ caller' = [caller EXCEPT ![c] = "waiting"]
     ELSE UNCHANGED <<ends, stopPc>> /\ caller' = [caller EXCEPT ![c] = "nil"]
  /\ UNCHANGED <<startVars, stopped, budget, stopSet, errs, redisVars, mkqVars,
                 proc, killed, workers, srv, abortSet, task, probe, timedOut>>

(* A Shutdown that runs its body again once it is done. *)
CallShutdownAgain(c) ==
  /\ Up /\ caller[c] = "idle"
  /\ ConcurrentStop \/ startPc \in {"idle", "ok", "failed"}
  /\ caller' = [caller EXCEPT ![c] = "waiting"]
  /\ IF stopPc \in {"idle", "done"}
     THEN CountEnd /\ stopPc' = "server"
     ELSE UNCHANGED <<ends, stopPc>>
  /\ UNCHANGED <<startVars, stopped, budget, stopSet, errs, redisVars, mkqVars,
                 proc, killed, workers, srv, abortSet, task, probe, timedOut>>

(* A call of Shutdown. The first one runs the body of the sync.Once, every *)
(* other waits for it. Run calls Shutdown only after a Start that          *)
(* succeeded; an application that calls Start itself pairs any Start with  *)
(* a Shutdown; `mkqd check` and the inspect commands never call Start.     *)
CallShutdown(c) ==
  /\ Up /\ caller[c] = "idle"
  /\ ConcurrentStop \/ startPc \in {"idle", "ok", "failed"}
  /\ caller' = [caller EXCEPT ![c] = "waiting"]
  /\ IF stopPc = "idle"
     THEN CountEnd /\ stopPc' = "server"
     ELSE UNCHANGED <<ends, stopPc>>
  /\ UNCHANGED <<startVars, stopped, budget, stopSet, errs, redisVars, mkqVars,
                 proc, killed, workers, srv, abortSet, task, probe, timedOut>>

(* The context given to Shutdown ends while Shutdown runs. *)
BudgetEnds ==
  /\ Up /\ stopPc \notin {"idle", "done"} /\ budget = "live"
  /\ budget' \in CtxKinds
  /\ UNCHANGED <<startVars, stopped, stopPc, stopSet, errs, caller, redisVars,
                 mkqVars, envVars, workers, srv, abortSet, task, probe, timedOut>>

(* srv.Close: http.Server.Shutdown stops listening first. *)
CloseServer ==
  /\ Up /\ stopPc = "server"
  /\ IF srv = "none"
     THEN stopPc' = "take" /\ UNCHANGED srv
     ELSE stopPc' = "closing" /\ srv' = "closing"
  /\ UNCHANGED <<startVars, stopped, budget, stopSet, errs, caller, redisVars,
                 mkqVars, envVars, workers, abortSet, task, probe, timedOut>>

InFlight == {p \in Probes : probe[p] \in {"accepted", "ping"}}

(* srv.Close that does not wait for the requests in flight. *)
ServerDrainedEarly ==
  /\ Up /\ stopPc = "closing"
  /\ srv' = "closed"
  /\ stopPc' = "take"
  /\ UNCHANGED <<startVars, stopped, budget, stopSet, errs, caller, redisVars,
                 mkqVars, envVars, workers, abortSet, task, probe, timedOut>>

(* srv.Close: the requests in flight are answered. *)
ServerDrained ==
  /\ Up /\ stopPc = "closing" /\ InFlight = {}
  /\ srv' = "closed"
  /\ stopPc' = "take"
  /\ UNCHANGED <<startVars, stopped, budget, stopSet, errs, caller, redisVars,
                 mkqVars, envVars, workers, abortSet, task, probe, timedOut>>

(* srv.Close: the deadline passes and the connections are cut. *)
ServerCut ==
  /\ Up /\ stopPc = "closing" /\ budget = "deadline"
  /\ srv' = "closed"
  /\ probe' = [p \in Probes |-> IF p \in InFlight THEN "idle" ELSE probe[p]]
  /\ errs' \in {errs, errs \cup {"server"}}
  /\ stopPc' = "take"
  /\ UNCHANGED <<startVars, stopped, budget, stopSet, caller, redisVars,
                 mkqVars, envVars, workers, abortSet, task, timedOut>>

(* srv.Close: a cancelled context is no DeadlineExceeded, so the requests  *)
(* in flight keep their connections and the error is reported.             *)
ServerAbandoned ==
  /\ Up /\ stopPc = "closing" /\ budget = "canceled"
  /\ srv' = "abandoned"
  /\ errs' = errs \cup {"server"}
  /\ stopPc' = "take"
  /\ UNCHANGED <<startVars, stopped, budget, stopSet, caller, redisVars,
                 mkqVars, envVars, workers, abortSet, task, probe, timedOut>>

(* stopWorkers: takeWorkers, and a goroutine in drainWorker for each. *)
StopTakes ==
  /\ Up /\ stopPc = "take"
  /\ stopSet' = workers
  /\ workers' = {}
  /\ task' = [q \in Queues |-> IF q \in workers THEN "drainCall" ELSE task[q]]
  /\ stopPc' = "join"
  /\ UNCHANGED <<startVars, stopped, budget, errs, caller, redisVars, mkqVars,
                 envVars, srv, abortSet, probe, timedOut>>

(* stopWorkers that returns once one worker has stopped. *)
StopJoinsFirst ==
  /\ Up /\ stopPc = "join"
  /\ stopSet # {} => \E q \in stopSet : task[q] \in {"nil", "err"}
  /\ errs' = IF \E q \in stopSet : task[q] = "err" THEN errs \cup {"workers"} ELSE errs
  /\ stopPc' = "client"
  /\ UNCHANGED <<startVars, stopped, budget, stopSet, caller, redisVars, mkqVars,
                 envVars, workers, srv, abortSet, task, probe, timedOut>>

(* stopWorkers: the WaitGroup is done. *)
StopJoins ==
  /\ Up /\ stopPc = "join"
  /\ \A q \in stopSet : task[q] \in {"nil", "err"}
  /\ errs' = IF \E q \in stopSet : task[q] = "err" THEN errs \cup {"workers"} ELSE errs
  /\ stopPc' = "client"
  /\ UNCHANGED <<startVars, stopped, budget, stopSet, caller, redisVars, mkqVars,
                 envVars, workers, srv, abortSet, task, probe, timedOut>>

(* client.Close: no lock is renewed and no job is finalised from here on,  *)
(* so a job still held stays in `active` until stalled recovery.           *)
CloseClient ==
  /\ Up /\ stopPc = "client"
  /\ client' = "closed"
  /\ job' = [j \in Jobs |-> IF job[j] = "held" THEN "orphan" ELSE job[j]]
  /\ errs' \in {errs, errs \cup {"client"}}
  /\ stopPc' = "rdb"
  /\ UNCHANGED <<startVars, stopped, budget, stopSet, caller, rdb, worker, handler,
                 attempts, stalls, succeeded, repeated, envVars, workers, srv,
                 abortSet, task, probe, timedOut>>

(* rdb.Close *)
CloseRdb ==
  /\ Up /\ stopPc = "rdb"
  /\ rdb' = "closed"
  /\ errs' \in {errs, errs \cup {"rdb"}}
  /\ stopPc' = "flag"
  /\ UNCHANGED <<startVars, stopped, budget, stopSet, caller, client, mkqVars,
                 envVars, workers, srv, abortSet, task, probe, timedOut>>

(* Shutdown sets stopped under the mutex, and stopErr. *)
SetStopped ==
  /\ Up /\ stopPc = "flag"
  /\ stopped' = TRUE
  /\ stopPc' = "done"
  /\ UNCHANGED <<startVars, budget, stopSet, errs, caller, redisVars, mkqVars,
                 envVars, workers, srv, abortSet, task, probe, timedOut>>

(* Every caller gets stopErr. *)
ReturnShutdown(c) ==
  /\ Up /\ stopPc = "done" /\ caller[c] = "waiting"
  /\ caller' = [caller EXCEPT ![c] = IF errs = {} THEN "nil" ELSE "error"]
  /\ UNCHANGED <<startVars, stopped, stopPc, budget, stopSet, errs, redisVars,
                 mkqVars, envVars, workers, srv, abortSet, task, probe, timedOut>>

----------------------------------------------------------------------------
(***************************************************************************)
(* The goroutine that stops the worker of q: drainWorker's Drain and then  *)
(* Stop, or abortWorkers' Stop alone.                                      *)
(***************************************************************************)

HandlersOf(q) == {j \in Jobs : QueueOf[j] = q /\ handler[j] # "none"}

(* Every handler of q has returned and finalised its job. *)
Unwound(q) == HandlersOf(q) = {}

(* The worker takes nothing more and its handlers see ctx.Done. *)
Cancel(q) ==
  /\ worker' = [worker EXCEPT ![q] = "cancelled"]
  /\ handler' = [j \in Jobs |-> IF QueueOf[j] = q /\ handler[j] = "running"
                                THEN "cancelled" ELSE handler[j]]

(* Shutdown as it was before it drained: Stop at once. *)
DrainCallCancels(q) ==
  /\ Up /\ task[q] = "drainCall"
  /\ task' = [task EXCEPT ![q] = "stop"]
  /\ Cancel(q)
  /\ UNCHANGED <<startVars, stopVars, redisVars, job, attempts, stalls,
                 succeeded, repeated, envVars, workers, srv, abortSet, probe, timedOut>>

(* Drain is called: the worker stops taking jobs, its handlers go on. *)
DrainCall(q) ==
  /\ Up /\ task[q] = "drainCall"
  /\ task' = [task EXCEPT ![q] = "drain"]
  /\ worker' = [worker EXCEPT ![q] = "draining"]
  /\ UNCHANGED <<startVars, stopVars, redisVars, handler, job, attempts, stalls,
                 succeeded, repeated, envVars, workers, srv, abortSet, probe, timedOut>>

(* Drain returns nil. *)
DrainDone(q) ==
  /\ Up /\ task[q] = "drain" /\ Unwound(q)
  /\ task' = [task EXCEPT ![q] = "nil"]
  /\ UNCHANGED <<startVars, stopVars, redisVars, mkqVars, envVars, workers, srv,
                 abortSet, probe, timedOut>>

(* drainWorker without the second wait. *)
DrainExpiresNoWait(q) ==
  /\ Up /\ task[q] = "drain" /\ budget # "live"
  /\ task' = [task EXCEPT ![q] = "nil"]
  /\ Cancel(q)
  /\ UNCHANGED <<startVars, stopVars, redisVars, job, attempts, stalls,
                 succeeded, repeated, envVars, workers, srv, abortSet, probe, timedOut>>

(* Drain runs out of budget: it cancels the handlers and returns. *)
DrainExpires(q) ==
  /\ Up /\ task[q] = "drain" /\ budget # "live"
  /\ task' = [task EXCEPT ![q] = "stopCall"]
  /\ Cancel(q)
  /\ UNCHANGED <<startVars, stopVars, redisVars, job, attempts, stalls,
                 succeeded, repeated, envVars, workers, srv, abortSet, probe, timedOut>>

(* Stop is called, with a context of its own. *)
StopCall(q) ==
  /\ Up /\ task[q] = "stopCall"
  /\ task' = [task EXCEPT ![q] = "stop"]
  /\ Cancel(q)
  /\ UNCHANGED <<startVars, stopVars, redisVars, job, attempts, stalls,
                 succeeded, repeated, envVars, workers, srv, abortSet, probe, timedOut>>

(* Stop returns nil. *)
StopDone(q) ==
  /\ Up /\ task[q] = "stop" /\ Unwound(q)
  /\ task' = [task EXCEPT ![q] = "nil"]
  /\ UNCHANGED <<startVars, stopVars, redisVars, mkqVars, envVars, workers, srv,
                 abortSet, probe, timedOut>>

(* Stop on a context that never ends. *)
StopTimesOutNever(q) == FALSE /\ q \in Queues /\ UNCHANGED vars

(* The unwind grace runs out: Stop returns the error of its context. *)
StopTimesOut(q) ==
  /\ Up /\ task[q] = "stop"
  /\ task' = [task EXCEPT ![q] = "err"]
  /\ timedOut' = timedOut \cup {q}
  /\ UNCHANGED <<startVars, stopVars, redisVars, mkqVars, envVars, workers, srv,
                 abortSet, probe>>

----------------------------------------------------------------------------
(***************************************************************************)
(* mkq: what a worker does with the jobs of its queue.                     *)
(***************************************************************************)

(* A running worker with a free slot takes a waiting job and locks it. *)
Take(j) ==
  /\ Up /\ client = "open" /\ worker[QueueOf[j]] = "running"
  /\ job[j] = "wait"
  /\ Cardinality(HandlersOf(QueueOf[j])) < Concurrency
  /\ job' = [job EXCEPT ![j] = "held"]
  /\ handler' = [handler EXCEPT ![j] = "running"]
  /\ repeated' = IF j \in succeeded THEN repeated \cup {j} ELSE repeated
  /\ UNCHANGED <<startVars, stopVars, redisVars, worker, attempts, stalls, succeeded,
                 envVars, workers, srv, abortSet, task, probe, timedOut>>

(* The handler returns nil, an error to retry, or an unrecoverable error. *)
HandlerReturns(j) ==
  /\ Up /\ handler[j] \in {"running", "cancelled"}
  /\ \E outcome \in Returned :
       /\ handler' = [handler EXCEPT ![j] = outcome]
       /\ succeeded' = IF outcome = "ok" THEN succeeded \cup {j} ELSE succeeded
  /\ UNCHANGED <<startVars, stopVars, redisVars, worker, job, attempts, stalls, repeated,
                 envVars, workers, srv, abortSet, task, probe, timedOut>>

(* moveToFinished, or the move back to the queue for another attempt. *)
Finalise(j) ==
  /\ Up /\ client = "open" /\ handler[j] \in Returned
  /\ LET again == handler[j] = "retry" /\ attempts[j] + 1 < MaxAttempts
     IN /\ job' = [job EXCEPT ![j] = IF handler[j] = "ok" THEN "completed"
                                     ELSE IF again THEN "wait" ELSE "failed"]
        /\ attempts' = [attempts EXCEPT ![j] = IF again THEN @ + 1 ELSE @]
  /\ handler' = [handler EXCEPT ![j] = "none"]
  /\ UNCHANGED <<startVars, stopVars, redisVars, worker, stalls, succeeded, repeated,
                 envVars, workers, srv, abortSet, task, probe, timedOut>>

(* The same after client.Close: the outcome cannot be recorded. *)
FinaliseLost(j) ==
  /\ Up /\ client = "closed" /\ handler[j] \in Returned
  /\ handler' = [handler EXCEPT ![j] = "none"]
  /\ UNCHANGED <<startVars, stopVars, redisVars, worker, job, attempts, stalls,
                 succeeded, repeated, envVars, workers, srv, abortSet, task, probe,
                 timedOut>>

(* A recovery that drops a job instead of putting it back. *)
RecoverDrops(j) ==
  /\ job[j] = "orphan"
  /\ stalls[j] < MaxStalled
  /\ stalls' = [stalls EXCEPT ![j] = @ + 1]
  /\ UNCHANGED <<startVars, stopVars, redisVars, worker, handler, job, attempts, succeeded,
                 repeated, envVars, workers, srv, abortSet, task, probe, timedOut>>

(* The lock of an active job has lapsed and the stalled scanner of some    *)
(* worker on the queue, of this process or another, finds it.              *)
Recover(j) ==
  /\ job[j] = "orphan"
  /\ job' = [job EXCEPT ![j] = IF stalls[j] < MaxStalled THEN "wait" ELSE "failed"]
  /\ stalls' = [stalls EXCEPT ![j] = IF @ < MaxStalled THEN @ + 1 ELSE @]
  /\ UNCHANGED <<startVars, stopVars, redisVars, worker, handler, attempts, succeeded,
                 repeated, envVars, workers, srv, abortSet, task, probe, timedOut>>

----------------------------------------------------------------------------
(***************************************************************************)
(* The /readyz handler.                                                    *)
(***************************************************************************)

isServing == started /\ ~stopped

(* A request is accepted. *)
ProbeArrives(p) ==
  /\ Up /\ srv = "up" /\ p \notin InFlight
  /\ probe' = [probe EXCEPT ![p] = "accepted"]
  /\ UNCHANGED <<startVars, stopVars, redisVars, mkqVars, envVars, workers, srv,
                 abortSet, task, timedOut>>

(* The handler asks isServing. *)
ProbeChecks(p) ==
  /\ Up /\ probe[p] = "accepted"
  /\ probe' = [probe EXCEPT ![p] = IF isServing THEN "ping" ELSE "503"]
  /\ UNCHANGED <<startVars, stopVars, redisVars, mkqVars, envVars, workers, srv,
                 abortSet, task, timedOut>>

(* The handler pings Redis, which may not answer in time, and replies. *)
ProbePings(p) ==
  /\ Up /\ probe[p] = "ping"
  /\ \E code \in IF rdb = "open" THEN {"200", "503"} ELSE {"503"} :
       probe' = [probe EXCEPT ![p] = code]
  /\ UNCHANGED <<startVars, stopVars, redisVars, mkqVars, envVars, workers, srv,
                 abortSet, task, timedOut>>

----------------------------------------------------------------------------
(***************************************************************************)
(* The process.                                                            *)
(***************************************************************************)

(* The process is gone: what its handlers held stays in `active`. *)
EndProcess ==
  /\ proc' = "down"
  /\ startPc' = "idle" /\ todo' = Queues /\ started' = FALSE
  /\ stopped' = FALSE /\ stopPc' = "idle" /\ budget' = "live"
  /\ stopSet' = {} /\ errs' = {} /\ caller' = [c \in Callers |-> "idle"]
  /\ client' = "open" /\ rdb' = "open" /\ srv' = "none"
  /\ workers' = {} /\ abortSet' = {} /\ task' = [q \in Queues |-> "none"]
  /\ worker' = [q \in Queues |-> "none"]
  /\ handler' = [j \in Jobs |-> "none"]
  /\ probe' = [p \in Probes |-> "idle"]
  /\ job' = [j \in Jobs |-> IF job[j] = "held" THEN "orphan" ELSE job[j]]
  /\ UNCHANGED <<attempts, stalls, succeeded, repeated, timedOut>>

(* SIGKILL, or a crash, at any moment. *)
Kill ==
  /\ Up /\ CountEnd
  /\ EndProcess
  /\ killed' = TRUE

(* main returns: after Shutdown, or after a Start that failed. *)
Exit ==
  /\ Up
  /\ \A c \in Callers : caller[c] # "waiting"
  /\ \/ stopPc = "done"
     \/ startPc = "failed" /\ stopPc = "idle"
  /\ EndProcess
  /\ UNCHANGED <<ends, killed>>

(* The supervisor starts the process again; New connects. *)
Restart ==
  /\ proc = "down"
  /\ proc' = "up"
  /\ UNCHANGED <<startVars, stopVars, redisVars, mkqVars, ends, killed, workers, srv,
                 abortSet, task, probe, timedOut>>

----------------------------------------------------------------------------
StartStep ==
  \/ StartBuilds \/ StartBuildFails
  \/ \E q \in Queues : Launch(q) \/ LaunchFails(q)
  \/ Launched \/ Listen \/ ListenFails
  \/ AbortTakes \/ AbortJoins

ShutdownStep ==
  \/ BudgetEnds
  \/ CloseServer \/ ServerDrained \/ ServerCut \/ ServerAbandoned
  \/ StopTakes \/ StopJoins
  \/ CloseClient \/ CloseRdb \/ SetStopped
  \/ \E c \in Callers : CallShutdown(c) \/ ReturnShutdown(c)

TaskStep(q) ==
  \/ DrainCall(q) \/ DrainDone(q) \/ DrainExpires(q)
  \/ StopCall(q) \/ StopDone(q) \/ StopTimesOut(q)

JobStep(j) ==
  Take(j) \/ HandlerReturns(j) \/ Finalise(j) \/ FinaliseLost(j) \/ Recover(j)

ProbeStep(p) == ProbeArrives(p) \/ ProbeChecks(p) \/ ProbePings(p)

Next ==
  \/ StartStep
  \/ ShutdownStep
  \/ \E q \in Queues : TaskStep(q)
  \/ \E j \in Jobs : JobStep(j)
  \/ \E p \in Probes : ProbeStep(p)
  \/ Kill \/ Exit \/ Restart

Spec == Init /\ [][Next]_vars

(* A process that is up keeps taking its own steps: the goroutines of      *)
(* Start, Shutdown and the stopping of workers are scheduled, a deadline   *)
(* and a grace do run out, and requests are answered (ping is bounded by   *)
(* pingTimeout). Nothing is assumed of handlers.                           *)
RuntimeFairness ==
  /\ WF_vars(StartBuilds \/ StartBuildFails)
  /\ WF_vars(\E q \in Queues : Launch(q) \/ LaunchFails(q))
  /\ WF_vars(Launched \/ Listen \/ ListenFails \/ AbortTakes \/ AbortJoins)
  /\ WF_vars(BudgetEnds)
  /\ WF_vars(CloseServer \/ ServerDrained \/ ServerCut \/ ServerAbandoned)
  /\ WF_vars(StopTakes \/ StopJoins \/ CloseClient \/ CloseRdb \/ SetStopped)
  /\ \A c \in Callers : WF_vars(ReturnShutdown(c))
  /\ \A q \in Queues : /\ WF_vars(DrainCall(q) \/ DrainDone(q) \/ DrainExpires(q))
                       /\ WF_vars(StopCall(q) \/ StopDone(q) \/ StopTimesOut(q))
  /\ \A p \in Probes : WF_vars(ProbeChecks(p) \/ ProbePings(p))

(* What a job needs besides: workers poll, handlers return, stalled jobs   *)
(* are found, and the supervisor brings an ended process back.             *)
JobFairness ==
  /\ \A j \in Jobs : /\ SF_vars(Take(j))
                     /\ WF_vars(HandlerReturns(j))
                     /\ WF_vars(Finalise(j) \/ FinaliseLost(j))
                     /\ WF_vars(Recover(j))
  /\ WF_vars(Exit)
  /\ WF_vars(Restart)

FairSpec == Spec /\ RuntimeFairness

----------------------------------------------------------------------------
(***************************************************************************)
(* Safety.                                                                 *)
(***************************************************************************)

(* Shutdown and the startup rollback keep jobs out of stalled recovery: a  *)
(* job is left in `active` without an owner only by a kill, or when the    *)
(* Stop of its queue's worker ran out of its unwind grace. (drainWorker    *)
(* waits twice so that finalisation does not race the Redis close.)        *)
OrphanExcused ==
  \A j \in Jobs : job[j] = "orphan" => killed \/ QueueOf[j] \in timedOut

(* A job whose handler has succeeded goes out a second time only for the   *)
(* same two reasons, over any number of stops and restarts: a deploy does  *)
(* not resend what was delivered.                                          *)
RepeatExcused ==
  \A j \in repeated : killed \/ QueueOf[j] \in timedOut

(* After a Start that succeeded, a Shutdown that returns nil has unwound   *)
(* every handler: stopErr cannot hide a worker whose Stop failed.          *)
NilMeansUnwound ==
  (\E c \in Callers : caller[c] = "nil") /\ startPc = "ok" =>
    \A j \in Jobs : handler[j] = "none" /\ job[j] # "held"

(* When a call of Shutdown has returned, both clients are closed, and all  *)
(* calls return the same stopErr: the sync.Once makes later callers wait   *)
(* for the first, also when the first came while Start was running.        *)
SharedResult ==
  \A c \in Callers : caller[c] \in {"nil", "error"} =>
    /\ client = "closed" /\ rdb = "closed" /\ ~isServing
    /\ \A d \in Callers : caller[d] \in {"nil", "error"} => caller[d] = caller[c]

(* Once any call of Shutdown has returned, no worker can take a job        *)
(* either. This needs ~ConcurrentStop in both its parts: a Shutdown while  *)
(* Start runs misses workers, and a Start after Shutdown has returned      *)
(* would launch new ones.                                                  *)
ShutdownIsFinal ==
  /\ SharedResult
  /\ (\E c \in Callers : caller[c] \in {"nil", "error"}) =>
       \A q \in Queues : worker[q] # "running"

(* When Start has returned an error, abortWorkers has left no worker that  *)
(* takes jobs, none recorded, and no listener.                             *)
RollbackComplete ==
  startPc = "failed" =>
    /\ workers = {} /\ srv = "none"
    /\ \A q \in Queues : worker[q] \in {"none", "cancelled"}

(* In-flight handlers are allowed to finish: a handler is cancelled only   *)
(* after the context given to Shutdown has ended, or when Start failed.    *)
CancelledOnlyLate ==
  (\E j \in Jobs : handler[j] = "cancelled") =>
    budget # "live" \/ startPc \in {"rollback", "failed"}

(* /readyz answers 200 only while the worker of every queue is taking jobs *)
(* and the client is open: the listener opens after the last worker and is *)
(* closed, or cut, before the first is drained.                            *)
ReadyMeansUp ==
  [][\A p \in Probes : probe[p] = "ping" /\ probe'[p] = "200" =>
       client = "open" /\ \A q \in Queues : worker[q] = "running"]_vars

(* From a to b is no step or one up. *)
Upward(rank, a, b) == a = b \/ rank[a] < rank[b]

(* The order in which Start, the body of Shutdown, the stopping of one     *)
(* worker and a caller of Shutdown go through their steps.                 *)
StartRank  == [idle |-> 0, launch |-> 1, listen |-> 2, abort |-> 3, rollback |-> 4,
               ok |-> 5, failed |-> 5]
StopRank   == [idle |-> 0, server |-> 1, closing |-> 2, take |-> 3, join |-> 4,
               client |-> 5, rdb |-> 6, flag |-> 7, done |-> 8]
TaskRank   == [none |-> 0, drainCall |-> 1, drain |-> 2, stopCall |-> 3, stop |-> 4,
               nil |-> 5, err |-> 5]
CallerRank == [idle |-> 0, waiting |-> 1, nil |-> 2, error |-> 2]

(* Nothing is done twice in one process: Start and Shutdown run once, a    *)
(* worker is launched once and stopped by one goroutine, whichever of      *)
(* stopWorkers and abortWorkers took it, and a result once returned        *)
(* stands. Each step of theirs brings one of them closer to its end, so    *)
(* that a process has only finitely many.                                  *)
OnlyForward ==
  [][Up /\ Up' =>
       /\ Upward(StartRank, startPc, startPc') /\ todo' \subseteq todo
       /\ Upward(StopRank, stopPc, stopPc')
       /\ \A q \in Queues : Upward(TaskRank, task[q], task'[q])
       /\ \A c \in Callers : Upward(CallerRank, caller[c], caller'[c])]_vars

----------------------------------------------------------------------------
(***************************************************************************)
(* The inductive invariant behind the safety properties, for callers that  *)
(* call Shutdown only when Start has returned or was not called, and Start *)
(* only before Shutdown (~ConcurrentStop).                                 *)
(***************************************************************************)

(* stopWorkers has not yet taken the workers; it has joined them. *)
BeforeTake == stopPc \in {"idle", "server", "closing", "take"}
AfterJoin  == stopPc \in {"client", "rdb", "flag", "done"}

(* How the fields of the Runtime follow from where Start and Shutdown are. *)
ControlInv ==
  /\ (client = "closed") <=> stopPc \in {"rdb", "flag", "done"}
  /\ (rdb = "closed") <=> stopPc \in {"flag", "done"}
  /\ stopped <=> stopPc = "done"
  /\ stopPc # "idle" => startPc \in {"idle", "ok", "failed"}
  /\ startPc = "idle" => todo = Queues
  /\ startPc \in {"listen", "ok"} => todo = {}
  /\ workers = IF startPc \in {"launch", "listen", "abort"} \/ (startPc = "ok" /\ BeforeTake)
               THEN Queues \ todo ELSE {}
  /\ abortSet = IF startPc \in {"rollback", "failed"} THEN Queues \ todo ELSE {}
  /\ stopSet = IF startPc = "ok" /\ ~BeforeTake THEN Queues ELSE {}

(* The worker of q and the goroutine that stops it. *)
QueueInv(q) ==
  /\ q \in todo <=> worker[q] = "none"
  /\ q \in abortSet \cup stopSet <=> task[q] # "none"
  /\ task[q] = "none" => worker[q] = IF q \in workers THEN "running" ELSE "none"
  /\ task[q] \in {"drainCall", "drain"} => startPc = "ok"
  /\ task[q] = "drainCall" => worker[q] = "running"
  /\ task[q] = "drain" => worker[q] = "draining"
  /\ task[q] \in {"stopCall", "stop"} => budget # "live" \/ startPc = "rollback"
  /\ task[q] \in {"stop", "err"} => worker[q] = "cancelled"
  /\ task[q] = "nil" => worker[q] \in {"draining", "cancelled"}
  /\ task[q] = "err" => q \in timedOut
  /\ startPc = "failed" \/ AfterJoin => task[q] \in {"none", "nil", "err"}
  /\ worker[q] = "draining" => startPc = "ok"

(* The two reasons for which a job may be delivered again. *)
Excused(j) == killed \/ QueueOf[j] \in timedOut

(* A job, its handler, and the worker the handler runs in. *)
JobInv(j) ==
  /\ job[j] = "held" <=> handler[j] # "none" /\ client = "open"
  /\ handler[j] # "none" => worker[QueueOf[j]] # "none" /\ task[QueueOf[j]] # "nil"
  /\ handler[j] # "none" /\ client = "closed" => Excused(j)
  /\ handler[j] = "cancelled" => budget # "live" \/ startPc \in {"rollback", "failed"}
  /\ job[j] = "orphan" => Excused(j)
  /\ j \in succeeded => \/ Excused(j)
                        \/ job[j] = "completed"
                        \/ job[j] = "held" /\ handler[j] = "ok"
  /\ j \in repeated => Excused(j)

(* What stopErr and the callers of Shutdown know. *)
CallerInv ==
  /\ \A c \in Callers : /\ caller[c] = "nil" => stopPc = "done" /\ errs = {}
                        /\ caller[c] = "error" => stopPc = "done" /\ errs # {}
  /\ AfterJoin /\ (\E q \in stopSet : task[q] = "err") => errs # {}

(* The listener is open only between the last Launch and the first Drain, *)
(* and no request outlives it.                                            *)
ServerInv ==
  /\ srv # "none" => startPc = "ok"
  /\ srv = "up" => stopPc \in {"idle", "server"}
  /\ srv = "closing" <=> stopPc = "closing"
  /\ CtxKinds \subseteq {"deadline"} =>
       /\ budget # "canceled" /\ srv # "abandoned"
       /\ srv \in {"none", "closed"} => InFlight = {}

(* TypeOK and the parts above are preserved together by every step: the    *)
(* promises of Shutdown rest on all of runtime.go's control at once.       *)
IInv ==
  /\ TypeOK
  /\ ControlInv
  /\ \A q \in Queues : QueueInv(q)
  /\ \A j \in Jobs : JobInv(j)
  /\ CallerInv
  /\ ServerInv

----------------------------------------------------------------------------
(***************************************************************************)
(* Lifecycle implements Delivery.                                          *)
(***************************************************************************)

(* The job as its producer sees it: an orphan is lost until recovered. *)
Seen(s) ==
  CASE s = "wait"   -> "waiting"
    [] s = "held"   -> "running"
    [] s = "orphan" -> "lost"
    [] OTHER        -> "done"

stateBar == [j \in Jobs |-> Seen(job[j])]

excusedBar == {j \in Jobs : Excused(j)}

D == INSTANCE Delivery WITH state <- stateBar, sent <- succeeded, excused <- excusedBar

(* Start, Shutdown, rollback, exits, kills and restarts are invisible to   *)
(* the producer of a job except as excused faults: every behaviour of the  *)
(* process keeps the promise that Delivery states.                         *)
DeliverySpec == D!Spec

----------------------------------------------------------------------------
(***************************************************************************)
(* Liveness.                                                               *)
(***************************************************************************)

(* Shutdown returns whatever the handlers do, also when they ignore their  *)
(* context for ever.                                                       *)
ShutdownReturns == \A c \in Callers : caller[c] = "waiting" ~> caller[c] # "waiting"

(* Start returns whatever the handlers do: the rollback is bounded.        *)
StartReturns == startPc \notin {"idle", "ok", "failed"} ~> startPc \in {"idle", "ok", "failed"}

(* No job is lost: every job is completed or failed in the end, through    *)
(* kills, shutdowns and failed starts, provided that handlers return, mkq  *)
(* finds stalled jobs and the process is started again.                    *)
JobsFinish == JobFairness => \A j \in Jobs : <>[](job[j] \in {"completed", "failed"})

============================================================================
