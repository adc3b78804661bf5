------------------------------- MODULE Budget -------------------------------
(***************************************************************************)
(* How long Run takes to end (runtime.go: Run, Start's rollback, Shutdown, *)
(* stopWorkers, drainWorker, abortWorkers; server.go: Close), on one clock *)
(* with the handlers, the clients of the health listener, the signal and   *)
(* the SIGKILL that an outer deadline sends. Module Lifecycle has the same *)
(* calls without a clock: there each timer may expire at any moment.       *)
(*                                                                         *)
(* The code's own steps take no time: the clock stands still while one of  *)
(* them is due. Start, handlers and HTTP clients take as long as they like.*)
(***************************************************************************)
EXTENDS Integers

CONSTANTS
  Workers,    \* the workers Start launches
  Slots,      \* the handlers that may run at a time
  WorkerOf,   \* the worker of each slot
  Timeout,    \* Config.ShutdownTimeout
  Grace,      \* Runtime.unwindGrace
  Outer,      \* how long after its signal SIGKILL follows
  LastCall,   \* bound: when Start has ended and the signal has come
  Horizon     \* bound: the last tick of the clock

ASSUME BudgetAssumption ==
  /\ WorkerOf \in [Slots -> Workers]
  /\ Timeout \in Nat /\ Grace \in Nat /\ Outer \in Nat
  /\ LastCall \in Nat /\ Horizon \in Nat

VARIABLES
  now,        \* the clock
  run,        \* where Run is
  signal,     \* when SIGTERM came; Never before
  begun,      \* when Shutdown, or a rollback, was called
  deadline,   \* of the context Shutdown was given
  visitor,    \* whether the listener is serving a request
  task,       \* the goroutine that stops a worker
  graceEnd,   \* the deadline of that worker's Stop
  handler,    \* the handler in a slot
  taken,      \* history: when its job was taken
  cancelled,  \* history: when it was cancelled
  killed      \* whether SIGKILL has struck

vars == <<now, run, signal, begun, deadline, visitor, task, graceEnd,
          handler, taken, cancelled, killed>>
clocks == <<now, signal, begun, deadline>>

Never == -1
Times == Nat \cup {Never}

TypeOK ==
  /\ now \in Nat
  /\ run \in {"starting", "serving", "closing", "draining", "done", "aborting", "failed"}
  /\ signal \in Times /\ begun \in Times /\ deadline \in Times
  /\ visitor \in BOOLEAN /\ killed \in BOOLEAN
  /\ task \in [Workers -> {"none", "drain", "stop", "done"}]
  /\ graceEnd \in [Workers -> Times]
  /\ handler \in [Slots -> {"none", "running", "cancelled"}]
  /\ taken \in [Slots -> Times] /\ cancelled \in [Slots -> Times]

(* Run has called Start. *)
Init ==
  /\ now = 0 /\ run = "starting"
  /\ signal = Never /\ begun = Never /\ deadline = Never
  /\ visitor = FALSE /\ killed = FALSE
  /\ task = [w \in Workers |-> "none"] /\ graceEnd = [w \in Workers |-> Never]
  /\ handler = [s \in Slots |-> "none"]
  /\ taken = [s \in Slots |-> Never] /\ cancelled = [s \in Slots |-> Never]

Idle(w) == \A s \in Slots : WorkerOf[s] = w => handler[s] = "none"
Stopped == \A w \in Workers : task[w] = "done"

----------------------------------------------------------------------------
(***************************************************************************)
(* Start and Run.                                                          *)
(***************************************************************************)

StartReturns ==
  /\ run = "starting" /\ run' = "serving"
  /\ UNCHANGED <<clocks, visitor, task, graceEnd, handler, taken, cancelled, killed>>

(* The handlers of worker set W that are still running lose their context. *)
Cancel(W) ==
  LET hit == {s \in Slots : WorkerOf[s] \in W /\ handler[s] = "running"} IN
  /\ handler' = [s \in Slots |-> IF s \in hit THEN "cancelled" ELSE handler[s]]
  /\ cancelled' = [s \in Slots |-> IF s \in hit THEN now ELSE cancelled[s]]

(* Start fails on the way: abortWorkers stops all workers at once, under   *)
(* one context.                                                            *)
StartFails ==
  /\ run = "starting" /\ run' = "aborting" /\ begun' = now
  /\ task' = [w \in Workers |-> "stop"]
  /\ graceEnd' = [w \in Workers |-> now + Grace]
  /\ Cancel(Workers)
  /\ UNCHANGED <<now, signal, deadline, visitor, taken, killed>>

(* SIGTERM. While Start runs nobody waits for it yet. *)
Signal ==
  /\ run \in {"starting", "serving"} /\ signal = Never /\ signal' = now
  /\ UNCHANGED <<now, run, begun, deadline, visitor, task, graceEnd, handler,
                 taken, cancelled, killed>>

(* A shutdown in the context that the signal has cancelled. *)
BeginShutdownCancelled ==
  /\ run = "serving" /\ signal # Never /\ run' = "closing"
  /\ begun' = now /\ deadline' = now
  /\ UNCHANGED <<now, signal, visitor, task, graceEnd, handler, taken, cancelled, killed>>

(* Run gives Shutdown a context of its own, with the whole budget. *)
BeginShutdown ==
  /\ run = "serving" /\ signal # Never /\ run' = "closing"
  /\ begun' = now /\ deadline' = now + Timeout
  /\ UNCHANGED <<now, signal, visitor, task, graceEnd, handler, taken, cancelled, killed>>

----------------------------------------------------------------------------
(***************************************************************************)
(* Shutdown.                                                               *)
(***************************************************************************)

(* A Close that waits for the last client. *)
ListenerClosedUnbounded == ~visitor

(* healthServer.Close: no client is left, or the budget is spent. *)
ListenerClosed == ~visitor \/ now >= deadline

(* Close returns, and stopWorkers starts a goroutine for each worker. *)
CloseListener ==
  /\ run = "closing" /\ ListenerClosed
  /\ run' = "draining" /\ visitor' = FALSE
  /\ task' = [w \in Workers |-> "drain"]
  /\ UNCHANGED <<clocks, graceEnd, handler, taken, cancelled, killed>>

Done(w) == task' = [task EXCEPT ![w] = "done"]

(* Drain or Stop returns nil: the worker holds no job. *)
WorkerIdle(w) ==
  /\ task[w] \in {"drain", "stop"} /\ Idle(w) /\ Done(w)
  /\ UNCHANGED <<clocks, run, visitor, graceEnd, handler, taken, cancelled, killed>>

(* drainWorker that gives Stop the context that has just expired. *)
DrainExpiresSameCtx(w) ==
  /\ task[w] = "drain" /\ now >= deadline
  /\ task' = [task EXCEPT ![w] = "stop"]
  /\ graceEnd' = [graceEnd EXCEPT ![w] = deadline]
  /\ Cancel({w})
  /\ UNCHANGED <<clocks, run, visitor, taken, killed>>

(* drainWorker that grants the whole budget a second time. *)
DrainExpiresTwice(w) ==
  /\ task[w] = "drain" /\ now >= deadline
  /\ task' = [task EXCEPT ![w] = "stop"]
  /\ graceEnd' = [graceEnd EXCEPT ![w] = now + Timeout + Grace]
  /\ Cancel({w})
  /\ UNCHANGED <<clocks, run, visitor, taken, killed>>

(* drainWorker: Drain cancels the handlers and returns; Stop waits for     *)
(* them in a context of its own.                                           *)
DrainExpires(w) ==
  /\ task[w] = "drain" /\ now >= deadline
  /\ task' = [task EXCEPT ![w] = "stop"]
  /\ graceEnd' = [graceEnd EXCEPT ![w] = now + Grace]
  /\ Cancel({w})
  /\ UNCHANGED <<clocks, run, visitor, taken, killed>>

(* Stop gives up on the worker. *)
StopExpires(w) ==
  /\ task[w] = "stop" /\ now >= graceEnd[w] /\ Done(w)
  /\ UNCHANGED <<clocks, run, visitor, graceEnd, handler, taken, cancelled, killed>>

(* wg.Wait returns; the Redis clients are closed, or Start's error is out. *)
Return ==
  /\ run \in {"draining", "aborting"} /\ Stopped
  /\ run' = IF run = "draining" THEN "done" ELSE "failed"
  /\ UNCHANGED <<clocks, visitor, task, graceEnd, handler, taken, cancelled, killed>>

----------------------------------------------------------------------------
(***************************************************************************)
(* Everything else (external).                                             *)
(***************************************************************************)

(* A worker that has not been told to stop takes a job. *)
Take(s) ==
  /\ run \in {"starting", "serving", "closing"} /\ handler[s] = "none"
  /\ handler' = [handler EXCEPT ![s] = "running"]
  /\ taken' = [taken EXCEPT ![s] = now]
  /\ cancelled' = [cancelled EXCEPT ![s] = Never]
  /\ UNCHANGED <<clocks, run, visitor, task, graceEnd, killed>>

(* The handler returns and its job is finalised while Redis can be reached. *)
Finish(s) ==
  /\ run \notin {"done", "failed"} /\ handler[s] # "none"
  /\ handler' = [handler EXCEPT ![s] = "none"]
  /\ taken' = [taken EXCEPT ![s] = Never]
  /\ cancelled' = [cancelled EXCEPT ![s] = Never]
  /\ UNCHANGED <<clocks, run, visitor, task, graceEnd, killed>>

(* A request arrives at the open listener; its client reads at its leisure. *)
Visit ==
  /\ run = "serving" /\ ~visitor /\ visitor' = TRUE
  /\ UNCHANGED <<clocks, run, task, graceEnd, handler, taken, cancelled, killed>>

Leave ==
  /\ visitor /\ visitor' = FALSE
  /\ UNCHANGED <<clocks, run, task, graceEnd, handler, taken, cancelled, killed>>

(* The outer deadline. *)
Kill ==
  /\ run \notin {"done", "failed"} /\ signal # Never /\ now > signal + Outer
  /\ killed' = TRUE
  /\ UNCHANGED <<clocks, run, visitor, task, graceEnd, handler, taken, cancelled>>

(* A step of the code that waits for nothing. *)
Due ==
  \/ run = "serving" /\ signal # Never
  \/ run = "closing" /\ ListenerClosed
  \/ \E w \in Workers :
       \/ task[w] \in {"drain", "stop"} /\ Idle(w)
       \/ task[w] = "drain" /\ now >= deadline
       \/ task[w] = "stop" /\ now >= graceEnd[w]
  \/ run \in {"draining", "aborting"} /\ Stopped

Tick ==
  /\ ~Due /\ run \notin {"done", "failed"}
  /\ now < (IF run \in {"starting", "serving"} THEN LastCall ELSE Horizon)
  /\ now' = now + 1
  /\ UNCHANGED <<run, signal, begun, deadline, visitor, task, graceEnd, handler,
                 taken, cancelled, killed>>

----------------------------------------------------------------------------
Shutdown ==
  \/ BeginShutdown \/ CloseListener \/ Return
  \/ \E w \in Workers : WorkerIdle(w) \/ DrainExpires(w) \/ StopExpires(w)

Next ==
  /\ ~killed
  /\ \/ StartReturns \/ StartFails \/ Signal \/ Shutdown
     \/ \E s \in Slots : Take(s) \/ Finish(s)
     \/ Visit \/ Leave \/ Kill \/ Tick

Spec == Init /\ [][Next]_vars

----------------------------------------------------------------------------
(***************************************************************************)
(* Properties.                                                             *)
(***************************************************************************)

(* Shutdown returns within its context's budget and one unwind grace, for  *)
(* any number of workers that ignore their cancellation and any client     *)
(* that hangs on to the listener ("Shutdown can therefore outlive ctx by   *)
(* up to five seconds", runtime.go); a rollback returns within one grace.  *)
ReturnsInTime ==
  /\ run \in {"closing", "draining"} => now <= begun + Timeout + Grace
  /\ run = "aborting" => now <= begun + Grace

(* A handler that was running when Shutdown began has the whole budget     *)
(* before it is cancelled, however much of it the listener's clients use   *)
(* up (Run: WithoutCancel; Shutdown: the listener is closed first).        *)
DrainedInFull ==
  \A s \in Slots :
    handler[s] = "cancelled" /\ run \in {"draining", "done"} /\ taken[s] <= begun
      => cancelled[s] - begun >= Timeout

(* The Redis clients are closed over a handler's head only when it had a   *)
(* whole unwind grace to return after its cancellation (drainWorker): a    *)
(* job of a handler that minds its context is never left to stalled        *)
(* recovery.                                                               *)
GraceInFull ==
  run \in {"done", "failed"} =>
    \A s \in Slots : handler[s] # "none" =>
      handler[s] = "cancelled" /\ now >= cancelled[s] + Grace

(* An outer deadline of the budget and one grace, counted from the signal, *)
(* is enough, as README.md says under Shutdown; except that a signal that  *)
(* comes while Start runs is not acted upon before Start has returned, and *)
(* that time comes on top.                                                 *)
OuterDeadlineSuffices ==
  Outer >= Timeout + Grace /\ killed => begun # signal

(* The inductive form of ReturnsInTime, DrainedInFull and GraceInFull:     *)
(* each wait of Shutdown has a deadline that is no later than the last     *)
(* one, and the clock stands still at a deadline until it is dealt with.   *)
BudgetInv ==
  /\ TypeOK
  /\ run \in {"closing", "draining", "done"} => begun \in Nat /\ deadline = begun + Timeout
  /\ run = "aborting" => begun \in Nat
  /\ run \in {"starting", "serving"} => begun = Never
  /\ run \in {"starting", "serving", "closing"} => \A w \in Workers : task[w] = "none"
  /\ run = "closing" => now <= deadline
  /\ run \in {"draining", "aborting", "done", "failed"} =>
       \A w \in Workers : task[w] # "none"
  /\ run = "draining" => \A w \in Workers :
       /\ task[w] = "drain" => now <= deadline
       /\ task[w] = "stop" => graceEnd[w] = deadline + Grace
  /\ run \in {"aborting", "failed"} => \A w \in Workers :
       /\ task[w] # "drain"
       /\ task[w] = "stop" => graceEnd[w] = begun + Grace
  /\ run \in {"draining", "aborting"} => \A w \in Workers :
       task[w] = "stop" => now <= graceEnd[w]
  /\ run \in {"draining", "aborting"} /\ Stopped =>
       now <= begun + Grace + (IF run = "draining" THEN Timeout ELSE 0)
  /\ run \in {"done", "failed"} => Stopped
  /\ \A s \in Slots :
       /\ handler[s] = "cancelled" =>
            /\ task[WorkerOf[s]] \in {"stop", "done"}
            /\ cancelled[s] = IF run \in {"aborting", "failed"} THEN begun ELSE deadline
       /\ handler[s] = "running" => task[WorkerOf[s]] \in {"none", "drain"}
       /\ handler[s] # "none" /\ task[WorkerOf[s]] = "done" => now >= cancelled[s] + Grace

============================================================================
