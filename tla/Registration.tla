---------------------------- MODULE Registration ----------------------------
(***************************************************************************)
(* From a configuration to running workers: New (applyDefaults, Validate), *)
(* Handle and HandleExecutor, buildConfiguredQueues as Check and Start run *)
(* it, the tuning of each worker and the size of the Redis pool            *)
(* (config.go, register.go, and Start and Check of runtime.go).            *)
(*                                                                         *)
(* Calls come one at a time, in any order and any number: register takes   *)
(* the mutex but buildConfiguredQueues does not, so an application has to  *)
(* finish registering before another goroutine runs Check. A call that is  *)
(* refused changes nothing and is not a step.                              *)
(***************************************************************************)
EXTENDS Integers, FiniteSets, Sequences, Functions

CONSTANTS
  Names,       \* queue names
  Configs,     \* configurations New may be given
  CodeTunes,   \* what QueueOptions may set
  Linked,      \* executor types whose package is linked in
  Builtin,     \* the built-in default of each field
  Headroom,    \* poolHeadroom
  Unset,       \* a nil pointer
  MaxCalls     \* bound: calls of Check and Start

(* The knobs of a queue. rateLimit stands for its max and its window. *)
Fields == {"concurrency", "lockDuration", "stalledInterval",
           "maxStalledCount", "jobMetrics", "rateLimit"}

NoTune == [f \in Fields |-> Unset]

(* What the types of Go say of a tuning and of a Config. *)
Tunings == [Fields -> Int \cup {Unset}]

ConfigRecords ==
  [addrs : Nat, log : {"", "known", "other"}, shutdownTimeout : Int, poolSize : Int,
   defaults : {d \in Tunings : d["concurrency"] \in Int},
   queues : Seq([name : Names \cup {""}, tune : Tunings, executor : STRING])]

ASSUME RegistrationAssumption ==
  /\ "" \notin Names /\ Unset \notin Int
  /\ Builtin \in Tunings /\ Builtin["concurrency"] \in Nat \ {0}
  /\ Headroom \in Nat /\ MaxCalls \in Nat
  /\ CodeTunes \subseteq Tunings /\ Configs \subseteq ConfigRecords

VARIABLES
  cfg,        \* Runtime.cfg
  pc,         \* where the call in progress is
  next,       \* the block buildConfiguredQueues is at
  registry,   \* Runtime.registry
  order,      \* Runtime.order
  started,    \* Runtime.started
  todo,       \* queues Start has still to launch
  workers,    \* the workers launched: queue, tuning and whose handler runs
  warned,     \* whether warnPoolSize spoke up
  calls,      \* calls of Check and Start so far
  startCall,  \* history: which of them was Start
  predicted   \* history: what Queues and QueueTuning said after a good Check

vars == <<cfg, pc, next, registry, order, started, todo, workers, warned, calls,
          startCall, predicted>>

----------------------------------------------------------------------------
(***************************************************************************)
(* Configuration.                                                          *)
(***************************************************************************)

(* A zero in `defaults` means the built-in value; job_metrics has none. *)
applyDefaults(c) ==
  [c EXCEPT !.shutdownTimeout = IF @ = 0 THEN 30 ELSE @,
            !.log = IF @ = "" THEN "known" ELSE @,
            !.defaults = [f \in Fields |-> IF f # "jobMetrics" /\ @[f] = 0
                                           THEN Builtin[f] ELSE @[f]]]

Validate(c) ==
  /\ c.addrs > 0
  /\ c.log = "known"
  /\ c.defaults["concurrency"] >= 1
  /\ c.shutdownTimeout >= 0
  /\ \A i \in DOMAIN c.queues :
       LET q == c.queues[i] IN
       /\ q.name # "" /\ q.executor # ""
       /\ \A k \in 1..(i - 1) : c.queues[k].name # q.name
       /\ \A f \in {"concurrency", "rateLimit"} : q.tune[f] # Unset => q.tune[f] >= 1

Declared == {cfg.queues[i].name : i \in DOMAIN cfg.queues}

Sum(s) ==
  LET total[i \in 0..Len(s)] == IF i = 0 THEN 0 ELSE total[i - 1] + s[i]
  IN total[Len(s)]

declaredConcurrency ==
  LET each == [i \in DOMAIN cfg.queues |->
                 LET n == cfg.queues[i].tune["concurrency"]
                 IN IF n # Unset THEN n ELSE cfg.defaults["concurrency"]]
  IN IF Sum(each) = 0 THEN cfg.defaults["concurrency"] ELSE Sum(each)

autoPoolSize == declaredConcurrency + Headroom

(* The pool New opens the client with (universalOptions). *)
PoolSize == IF cfg.poolSize = 0 THEN autoPoolSize ELSE cfg.poolSize

----------------------------------------------------------------------------
(***************************************************************************)
(* Tuning.                                                                 *)
(***************************************************************************)

(* Overlay with its two layers swapped. *)
overlaySwapped(t, over) == [f \in Fields |-> IF t[f] # Unset THEN t[f] ELSE over[f]]

overlay(t, over) == [f \in Fields |-> IF over[f] # Unset THEN over[f] ELSE t[f]]

resolve(t) == overlay(cfg.defaults, t)

(* The first block with that name, as queueConfig finds it. *)
queueConfig(name) ==
  LET i == CHOOSE i \in DOMAIN cfg.queues :
             /\ cfg.queues[i].name = name
             /\ \A k \in 1..(i - 1) : cfg.queues[k].name # name
  IN cfg.queues[i]

resolveTuning(name) ==
  LET t == registry[name].tune
  IN resolve(IF name \in Declared THEN overlay(t, queueConfig(name).tune) ELSE t)

(* registeredQueues without its `seen` set. *)
registeredQueuesRaw == order

(* A loop that keeps each name at its first place only. *)
Firsts(names) ==
  LET out[i \in 0..Len(names)] ==
        IF i = 0 THEN <<>>
        ELSE LET before == out[i - 1] IN
             IF names[i] \in Range(before) THEN before ELSE Append(before, names[i])
  IN out[Len(names)]

registeredQueues == Firsts(order)

----------------------------------------------------------------------------
(***************************************************************************)
(* The Runtime.                                                            *)
(***************************************************************************)

None == [fromCode |-> FALSE, tune |-> NoTune, by |-> 0]

Init ==
  /\ cfg \in Configs
  /\ pc = "new"
  /\ next = 1
  /\ registry = [n \in Names |-> None]
  /\ order = <<>>
  /\ started = FALSE
  /\ todo = <<>>
  /\ workers = <<>>
  /\ warned = FALSE
  /\ calls = 0
  /\ startCall = 0
  /\ predicted = <<>>

(* New: a configuration that does not validate yields no Runtime. *)
New ==
  /\ pc = "new"
  /\ cfg' = applyDefaults(cfg)
  /\ pc' = IF Validate(applyDefaults(cfg)) THEN "idle" ELSE "refused"
  /\ UNCHANGED <<next, registry, order, started, todo, workers, warned, calls,
                 startCall, predicted>>

(* Handle or HandleExecutor registers a queue from code. *)
register(name, t) ==
  /\ pc = "idle" /\ ~started
  /\ name \notin Range(order)
  /\ registry' = [registry EXCEPT ![name] = [fromCode |-> TRUE, tune |-> t, by |-> 0]]
  /\ order' = Append(order, name)
  /\ predicted' = <<>>
  /\ UNCHANGED <<cfg, pc, next, started, todo, workers, warned, calls, startCall>>

(* Check, once Redis has answered its ping. *)
Check ==
  /\ pc = "idle" /\ calls < MaxCalls
  /\ calls' = calls + 1
  /\ pc' = "check"
  /\ next' = 1
  /\ UNCHANGED <<cfg, registry, order, started, todo, workers, warned, startCall, predicted>>

(* Start, the first time: later calls are refused. *)
Start ==
  /\ pc = "idle" /\ ~started /\ calls < MaxCalls
  /\ started' = TRUE
  /\ calls' = calls + 1
  /\ startCall' = calls + 1
  /\ pc' = "start"
  /\ next' = 1
  /\ UNCHANGED <<cfg, registry, order, todo, workers, warned, predicted>>

(* buildConfiguredQueues returns an error; what it built so far stays. *)
BuildFails ==
  /\ pc' = IF pc = "start" THEN "failed" ELSE "idle"
  /\ UNCHANGED <<next, registry, order>>

(* buildConfiguredQueues that keeps what an earlier call built. *)
BuildOneKeeping ==
  /\ pc \in {"check", "start"} /\ next <= Len(cfg.queues)
  /\ LET qc == cfg.queues[next] IN
     IF qc.name \in Range(order)
     THEN next' = next + 1 /\ UNCHANGED <<pc, registry, order>>
     ELSE \/ BuildFails
          \/ /\ qc.executor \in Linked
             /\ registry' = [registry EXCEPT ![qc.name] =
                               [fromCode |-> FALSE, tune |-> NoTune, by |-> calls]]
             /\ order' = Append(order, qc.name)
             /\ next' = next + 1
             /\ UNCHANGED pc
  /\ UNCHANGED <<cfg, started, todo, workers, warned, calls, startCall, predicted>>

(* buildConfiguredQueues that lets the configured executor win. *)
BuildOneOverCode ==
  /\ pc \in {"check", "start"} /\ next <= Len(cfg.queues)
  /\ LET qc == cfg.queues[next] IN
     IF registry[qc.name].fromCode /\ qc.executor = "none"
     THEN next' = next + 1 /\ UNCHANGED <<pc, registry, order>>
     ELSE \/ BuildFails
          \/ /\ qc.executor \in Linked
             /\ registry' = [registry EXCEPT ![qc.name] =
                               [fromCode |-> FALSE, tune |-> NoTune, by |-> calls]]
             /\ order' = Append(order, qc.name)
             /\ next' = next + 1
             /\ UNCHANGED pc
  /\ UNCHANGED <<cfg, started, todo, workers, warned, calls, startCall, predicted>>

(* One turn of buildConfiguredQueues: a queue that code claimed is left    *)
(* alone; one without an executor, with a type that is not linked or with  *)
(* a factory that fails is an error; any other is built anew.              *)
BuildOne ==
  /\ pc \in {"check", "start"} /\ next <= Len(cfg.queues)
  /\ LET qc == cfg.queues[next] IN
     IF registry[qc.name].fromCode
     THEN next' = next + 1 /\ UNCHANGED <<pc, registry, order>>
     ELSE \/ BuildFails
          \/ /\ qc.executor \in Linked
             /\ registry' = [registry EXCEPT ![qc.name] =
                               [fromCode |-> FALSE, tune |-> NoTune, by |-> calls]]
             /\ order' = Append(order, qc.name)
             /\ next' = next + 1
             /\ UNCHANGED pc
  /\ UNCHANGED <<cfg, started, todo, workers, warned, calls, startCall, predicted>>

(* What Queues and QueueTuning report. *)
Report == {<<n, resolveTuning(n)>> : n \in Range(registeredQueues)}

(* Check returns nil. *)
CheckDone ==
  /\ pc = "check" /\ next > Len(cfg.queues)
  /\ pc' = "idle"
  /\ predicted' = IF started THEN predicted ELSE <<Report>>
  /\ UNCHANGED <<cfg, next, registry, order, started, todo, workers, warned, calls, startCall>>

(* warnPoolSize that compares with the declared queues only. *)
warnPoolSizeDeclared(names) == cfg.poolSize # 0 /\ PoolSize < declaredConcurrency + Headroom
                               /\ names # <<>>

warnPoolSize(names) ==
  PoolSize < Sum([i \in DOMAIN names |-> resolveTuning(names[i])["concurrency"]]) + Headroom

(* Start has built its queues: without any it fails. *)
StartResolves ==
  /\ pc = "start" /\ next > Len(cfg.queues)
  /\ todo' = registeredQueues
  /\ IF registeredQueues = <<>>
     THEN pc' = "failed" /\ UNCHANGED warned
     ELSE pc' = "launch" /\ warned' = warnPoolSize(registeredQueues)
  /\ UNCHANGED <<cfg, next, registry, order, started, workers, calls, startCall, predicted>>

(* A launch that forgets the block of the file. *)
LaunchOneNoFile ==
  /\ pc = "launch" /\ todo # <<>>
  /\ workers' = Append(workers, [queue |-> Head(todo), by |-> registry[Head(todo)].by,
                                 tune |-> resolve(registry[Head(todo)].tune)])
  /\ todo' = Tail(todo)
  /\ UNCHANGED <<cfg, pc, next, registry, order, started, warned, calls, startCall, predicted>>

(* One turn of Start's loop: r.start with the resolved options. *)
LaunchOne ==
  /\ pc = "launch" /\ todo # <<>>
  /\ workers' = Append(workers, [queue |-> Head(todo), by |-> registry[Head(todo)].by,
                                 tune |-> resolveTuning(Head(todo))])
  /\ todo' = Tail(todo)
  /\ UNCHANGED <<cfg, pc, next, registry, order, started, warned, calls, startCall, predicted>>

(* r.start fails: the workers launched so far are taken down. *)
LaunchFails ==
  /\ pc = "launch" /\ todo # <<>>
  /\ workers' = <<>>
  /\ pc' = "failed"
  /\ UNCHANGED <<cfg, next, registry, order, started, todo, warned, calls, startCall, predicted>>

(* Start returns nil. Check may still be called. *)
StartDone ==
  /\ pc = "launch" /\ todo = <<>>
  /\ pc' = "idle"
  /\ UNCHANGED <<cfg, next, registry, order, started, todo, workers, warned, calls,
                 startCall, predicted>>

Next ==
  \/ New
  \/ \E n \in Names, t \in CodeTunes : register(n, t)
  \/ Check \/ CheckDone
  \/ Start \/ StartResolves \/ LaunchOne \/ LaunchFails \/ StartDone
  \/ BuildOne

Spec == Init /\ [][Next]_vars

----------------------------------------------------------------------------
(***************************************************************************)
(* Properties.                                                             *)
(***************************************************************************)

Handled == {n \in Names : registry[n].fromCode}

(* Start has returned nil. *)
Serving == started /\ pc \in {"idle", "check"} /\ workers # <<>>

(* When Start returns nil there is exactly one worker for each queue that  *)
(* is declared or was registered from code, however often Check has put    *)
(* the declared ones in Runtime.order before.                              *)
ServesEachOnce ==
  Serving =>
    /\ {workers[i].queue : i \in DOMAIN workers} = Declared \cup Handled
    /\ \A i, k \in DOMAIN workers : workers[i].queue = workers[k].queue => i = k

(* The code handler wins: once code has registered a queue, no Check and   *)
(* no Start ever puts an executor of the configuration in its place.       *)
CodeHandlerWins ==
  [][\A n \in Names : registry[n].fromCode => registry'[n] = registry[n]]_vars

(* A worker of a declared queue runs the executor that this Start built,   *)
(* never one that an earlier Check left in the registry.                   *)
FreshExecutors ==
  \A i \in DOMAIN workers :
    workers[i].queue \notin Handled => workers[i].by = startCall

(* Each knob of a worker is the one of its block in the file when the      *)
(* block sets it, else the one given in code, else the default.            *)
PrecedenceHolds ==
  \A w \in Range(workers), f \in Fields :
    LET blocks == {i \in DOMAIN cfg.queues :
                     cfg.queues[i].name = w.queue /\ cfg.queues[i].tune[f] # Unset}
        inCode == registry[w.queue].tune[f]
    IN IF blocks # {} THEN \A i \in blocks : w.tune[f] = cfg.queues[i].tune[f]
       ELSE IF inCode # Unset THEN w.tune[f] = inCode
       ELSE w.tune[f] = cfg.defaults[f]

(* A pool too small for the workers that run has been warned about, and a  *)
(* process that is configured by its file alone, with the pool left to     *)
(* autoPoolSize, gives no such warning.                                    *)
PoolFits ==
  Serving =>
    /\ warned \/ PoolSize >= Headroom +
                   Sum([i \in DOMAIN workers |-> workers[i].tune["concurrency"]])
    /\ Handled = {} /\ cfg.poolSize = 0 => ~warned

(* What Queues and QueueTuning report after a Check that passed is what a  *)
(* Start runs, when nothing was registered in between.                     *)
CheckPredictsStart ==
  Serving /\ predicted # <<>> =>
    predicted = <<{<<workers[i].queue, workers[i].tune>> : i \in DOMAIN workers}>>

============================================================================
