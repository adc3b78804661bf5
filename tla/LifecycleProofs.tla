-------------------------- MODULE LifecycleProofs --------------------------
(***************************************************************************)
(* The safety properties of Lifecycle, for any number of queues, jobs,     *)
(* callers and requests. Shutdown is assumed not to be called while Start  *)
(* still runs, nor Start once Shutdown has begun (~ConcurrentStop), which  *)
(* is how Run calls them; the run lifecycle_concurrent shows what happens  *)
(* otherwise, and the part on FreeInv what holds all the same.             *)
(*                                                                         *)
(* One lemma per conjunct of IInv shows that every step preserves it, with *)
(* one step of the proof per action that can disturb it; the frame lemmas  *)
(* dispose of the others. The theorems follow from IInv. The last part     *)
(* shows that Lifecycle implements Delivery.                               *)
(***************************************************************************)
EXTENDS Lifecycle, TLAPS

USE LifecycleAssumption

(* Each step of Start is upward in StartRank. *)
LEMMA StartOrder ==
  /\ \A a : Upward(StartRank, a, a)
  /\ \A b \in {"launch", "failed"} : Upward(StartRank, "idle", b)
  /\ \A b \in {"listen", "ok", "abort"} : Upward(StartRank, "launch", b)
  /\ \A b \in {"ok", "abort"} : Upward(StartRank, "listen", b)
  /\ Upward(StartRank, "abort", "rollback")
  /\ Upward(StartRank, "rollback", "failed")
BY DEF Upward, StartRank

(* Each step of the body of Shutdown is upward in StopRank. *)
LEMMA StopOrder ==
  /\ \A a : Upward(StopRank, a, a)
  /\ Upward(StopRank, "idle", "server")
  /\ \A b \in {"closing", "take"} : Upward(StopRank, "server", b)
  /\ Upward(StopRank, "closing", "take")
  /\ Upward(StopRank, "take", "join")
  /\ Upward(StopRank, "join", "client")
  /\ Upward(StopRank, "client", "rdb")
  /\ Upward(StopRank, "rdb", "flag")
  /\ Upward(StopRank, "flag", "done")
BY DEF Upward, StopRank

(* Each step of stopping one worker is upward in TaskRank. *)
LEMMA TaskOrder ==
  /\ \A a : Upward(TaskRank, a, a)
  /\ \A b \in {"drainCall", "stopCall"} : Upward(TaskRank, "none", b)
  /\ Upward(TaskRank, "drainCall", "drain")
  /\ \A b \in {"stopCall", "nil"} : Upward(TaskRank, "drain", b)
  /\ Upward(TaskRank, "stopCall", "stop")
  /\ \A b \in {"nil", "err"} : Upward(TaskRank, "stop", b)
BY DEF Upward, TaskRank

(* Each step of a caller of Shutdown is upward in CallerRank. *)
LEMMA CallerOrder ==
  /\ \A a : Upward(CallerRank, a, a)
  /\ Upward(CallerRank, "idle", "waiting")
  /\ \A b \in {"nil", "error"} : Upward(CallerRank, "waiting", b)
BY DEF Upward, CallerRank

(* Every step keeps the state well typed: the bounded counters included. *)
LEMMA TypeStep ==
  ASSUME TypeOK, [Next]_vars
  PROVE  TypeOK'
<1> USE DEF TypeOK, StartPcs, StopPcs, TaskStates, Returned, startVars, stopVars, redisVars,
   mkqVars, envVars, vars
<1>1. CASE StartBuilds
  BY <1>1 DEF StartBuilds, Up, CountEnd
<1>2. CASE StartBuildFails
  BY <1>2 DEF StartBuildFails, Up, CountEnd
<1>3. ASSUME NEW q \in Queues, Launch(q) PROVE TypeOK'
  BY <1>3 DEF Launch, Up, CountEnd, Appended
<1>4. ASSUME NEW q \in Queues, LaunchFails(q) PROVE TypeOK'
  BY <1>4 DEF LaunchFails, Up, CountEnd, Appended
<1>5. CASE Launched
  <2>1. startPc' \in StartPcs
    BY <1>5, Zenon DEF Launched
  <2>q. QED
    BY <1>5, <2>1 DEF Launched
<1>6. CASE Listen
  BY <1>6 DEF Listen, Up, CountEnd
<1>7. CASE ListenFails
  BY <1>7 DEF ListenFails, Up, CountEnd
<1>8. CASE AbortTakes
  BY <1>8 DEF AbortTakes, Up, CountEnd
<1>9. CASE AbortJoins
  BY <1>9 DEF AbortJoins, Up, CountEnd
<1>10. CASE BudgetEnds
  BY <1>10 DEF BudgetEnds, Up, InFlight
<1>11. CASE CloseServer
  BY <1>11 DEF CloseServer, Up, InFlight
<1>12. CASE ServerDrained
  BY <1>12 DEF ServerDrained, Up, InFlight
<1>13. CASE ServerCut
  BY <1>13 DEF ServerCut, Up, InFlight
<1>14. CASE ServerAbandoned
  BY <1>14, Zenon DEF ServerAbandoned, Up, InFlight
<1>15. CASE StopTakes
  BY <1>15 DEF StopTakes, Up, InFlight
<1>16. CASE StopJoins
  BY <1>16 DEF StopJoins, Up, InFlight
<1>17. CASE CloseClient
  BY <1>17 DEF CloseClient, Up, InFlight
<1>18. CASE CloseRdb
  BY <1>18 DEF CloseRdb, Up, InFlight
<1>19. CASE SetStopped
  BY <1>19 DEF SetStopped, Up, InFlight
<1>20. ASSUME NEW c \in Callers, CallShutdown(c) PROVE TypeOK'
  BY <1>20 DEF CallShutdown, Up, CountEnd
<1>21. ASSUME NEW c \in Callers, ReturnShutdown(c) PROVE TypeOK'
  BY <1>21 DEF ReturnShutdown, Up, CountEnd
<1>22. ASSUME NEW q \in Queues, DrainCall(q) PROVE TypeOK'
  BY <1>22 DEF DrainCall, Up, Cancel, Unwound, HandlersOf
<1>23. ASSUME NEW q \in Queues, DrainDone(q) PROVE TypeOK'
  BY <1>23 DEF DrainDone, Up, Cancel, Unwound, HandlersOf
<1>24. ASSUME NEW q \in Queues, DrainExpires(q) PROVE TypeOK'
  BY <1>24 DEF DrainExpires, Up, Cancel, Unwound, HandlersOf
<1>25. ASSUME NEW q \in Queues, StopCall(q) PROVE TypeOK'
  BY <1>25 DEF StopCall, Up, Cancel, Unwound, HandlersOf
<1>26. ASSUME NEW q \in Queues, StopDone(q) PROVE TypeOK'
  BY <1>26 DEF StopDone, Up, Cancel, Unwound, HandlersOf
<1>27. ASSUME NEW q \in Queues, StopTimesOut(q) PROVE TypeOK'
  BY <1>27 DEF StopTimesOut, Up, Cancel, Unwound, HandlersOf
<1>28. ASSUME NEW j \in Jobs, Take(j) PROVE TypeOK'
  BY <1>28 DEF Take, Up
<1>29. ASSUME NEW j \in Jobs, HandlerReturns(j) PROVE TypeOK'
  BY <1>29 DEF HandlerReturns, Up
<1>30. ASSUME NEW j \in Jobs, Finalise(j) PROVE TypeOK'
  BY <1>30 DEF Finalise, Up
<1>31. ASSUME NEW j \in Jobs, FinaliseLost(j) PROVE TypeOK'
  BY <1>31 DEF FinaliseLost, Up
<1>32. ASSUME NEW j \in Jobs, Recover(j) PROVE TypeOK'
  BY <1>32 DEF Recover, Up
<1>33. ASSUME NEW p \in Probes, ProbeArrives(p) PROVE TypeOK'
  BY <1>33 DEF ProbeArrives, Up, InFlight
<1>34. ASSUME NEW p \in Probes, ProbeChecks(p) PROVE TypeOK'
  BY <1>34 DEF ProbeChecks, Up, InFlight
<1>35. ASSUME NEW p \in Probes, ProbePings(p) PROVE TypeOK'
  BY <1>35 DEF ProbePings, Up, InFlight
<1>36. CASE Kill
  <2> USE <1>36 DEF Kill
  <2>1. ends' \in 0..MaxEnds
    BY DEF CountEnd
  <2>2. job' \in [Jobs -> {"wait", "held", "orphan", "completed", "failed"}]
    BY Zenon DEF EndProcess
  <2>3. attempts' = attempts /\ stalls' = stalls /\ succeeded' = succeeded
        /\ repeated' = repeated /\ timedOut' = timedOut
    BY Zenon DEF EndProcess
  <2>4. /\ proc' = "down" /\ startPc' \in StartPcs /\ todo' \in SUBSET Queues
        /\ started' \in BOOLEAN /\ stopped' \in BOOLEAN /\ killed' \in BOOLEAN
        /\ stopPc' \in StopPcs /\ budget' = "live" /\ stopSet' = {} /\ errs' = {}
        /\ client' = "open" /\ rdb' = "open" /\ srv' = "none" /\ workers' = {} /\ abortSet' = {}
    BY Zenon DEF EndProcess
  <2>5. /\ task' \in [Queues -> TaskStates]
        /\ caller' \in [Callers -> {"idle", "waiting", "nil", "error"}]
        /\ worker' \in [Queues -> {"none", "running", "draining", "cancelled"}]
        /\ handler' \in [Jobs -> {"none", "running", "cancelled"} \cup Returned]
        /\ probe' \in [Probes -> {"idle", "accepted", "ping", "200", "503"}]
    BY Zenon DEF EndProcess
  <2> HIDE <1>36
  <2>q. QED
    BY <2>1, <2>2, <2>3, <2>4, <2>5, Zenon
<1>37. CASE Exit
  BY <1>37, Zenon DEF Exit, Up, CountEnd, EndProcess
<1>38. CASE Restart
  BY <1>38 DEF Restart
<1>39. CASE UNCHANGED vars
  BY <1>39 DEF vars
<1>q. QED
  BY <1>1, <1>2, <1>3, <1>4, <1>5, <1>6, <1>7, <1>8, <1>9, <1>10, <1>11, <1>12, <1>13,
     <1>14, <1>15, <1>16, <1>17, <1>18, <1>19, <1>20, <1>21, <1>22, <1>23, <1>24, <1>25,
     <1>26, <1>27, <1>28, <1>29, <1>30, <1>31, <1>32, <1>33, <1>34, <1>35, <1>36, <1>37,
     <1>38, <1>39, Zenon
     DEF Next, StartStep, ShutdownStep, TaskStep, JobStep, ProbeStep

(* A step of Start leaves Shutdown, the clients, the jobs and the requests *)
(* alone. It may launch a worker, or hand it to a goroutine that stops it. *)
LEMMA StartFrame ==
  ASSUME TypeOK, StartStep
  PROVE  /\ UNCHANGED <<stopVars, redisVars, handler, job, attempts, stalls, succeeded,
                        repeated, proc, killed, timedOut, probe>>
         /\ startPc # "ok"
         /\ startPc \in {"rollback", "failed"} => startPc' \in {"rollback", "failed"}
         /\ Listen \/ UNCHANGED srv
         /\ \A q \in Queues : worker'[q] \in {worker[q], "running"}
         /\ \A q \in Queues : task'[q] \in {task[q], "stopCall"}
<1> USE DEF mkqVars, envVars
<1>1. CASE StartBuilds \/ StartBuildFails
  BY <1>1, Zenon DEF StartBuilds, StartBuildFails
<1>2. ASSUME NEW q \in Queues, Launch(q)
      PROVE  /\ UNCHANGED <<stopVars, redisVars, handler, job, attempts, stalls, succeeded,
                            repeated, proc, killed, timedOut, probe, srv, task>>
             /\ startPc = "launch"
             /\ \A k \in Queues : worker'[k] \in {worker[k], "running"}
  <2>1. worker' = [worker EXCEPT ![q] = "running"]
    BY <1>2, Zenon DEF Launch
  <2>2. \A k \in Queues : worker'[k] \in {worker[k], "running"}
    BY <2>1, Zenon DEF TypeOK
  <2> QED
    BY <1>2, <2>2, Zenon DEF Launch
<1>3. ASSUME NEW q \in Queues, LaunchFails(q)
      PROVE  /\ UNCHANGED <<stopVars, redisVars, mkqVars, proc, killed, timedOut, probe, srv, task>>
             /\ startPc = "launch"
  BY <1>3, Zenon DEF LaunchFails
<1>4. CASE Launched \/ Listen
  BY <1>4, Zenon DEF Launched, Listen
<1>5. CASE ListenFails \/ AbortJoins
  BY <1>5, Zenon DEF ListenFails, AbortJoins
<1>6. CASE AbortTakes
  BY <1>6, Zenon DEF AbortTakes
<1>7. CASE \E q \in Queues : Launch(q) \/ LaunchFails(q)
  BY <1>2, <1>3, <1>7, Zenon
<1> QED
  BY <1>1, <1>4, <1>5, <1>6, <1>7, Zenon DEF StartStep

(* A step of Shutdown leaves Start, the workers and their handlers alone,  *)
(* and the jobs as well unless it closes the client.                       *)
LEMMA ShutdownFrame ==
  ASSUME ShutdownStep
  PROVE  /\ UNCHANGED <<startVars, worker, handler, attempts, stalls, succeeded, repeated,
                        proc, killed, abortSet, timedOut>>
         /\ CloseClient \/ UNCHANGED <<client, job>>
         /\ budget # "live" => UNCHANGED budget
         /\ \A q \in Queues : task'[q] \in {task[q], "drainCall"}
<1> USE DEF redisVars, mkqVars, envVars
<1>1. CASE BudgetEnds \/ CloseServer \/ ServerDrained
  BY <1>1, Zenon DEF BudgetEnds, CloseServer, ServerDrained
<1>2. CASE ServerCut \/ ServerAbandoned \/ StopJoins
  BY <1>2, Zenon DEF ServerCut, ServerAbandoned, StopJoins
<1>3. CASE StopTakes
  BY <1>3, Zenon DEF StopTakes
<1>4. CASE CloseClient \/ CloseRdb \/ SetStopped
  BY <1>4, Zenon DEF CloseClient, CloseRdb, SetStopped
<1>5. CASE \E c \in Callers : CallShutdown(c) \/ ReturnShutdown(c)
  BY <1>5, Zenon DEF CallShutdown, ReturnShutdown
<1> QED
  BY <1>1, <1>2, <1>3, <1>4, <1>5, Zenon DEF ShutdownStep

(* Stopping a worker touches the worker, its handlers and its own progress. *)
LEMMA TaskFrame ==
  ASSUME NEW q \in Queues, TaskStep(q)
  PROVE  UNCHANGED <<startVars, stopVars, redisVars, job, succeeded, repeated,
                     attempts, stalls, envVars, workers, srv, abortSet, probe>>
BY Zenon DEF TaskStep, DrainCall, DrainDone, DrainExpires, StopCall, StopDone, StopTimesOut, mkqVars

(* What mkq does with a job leaves Start, Shutdown and the workers alone. *)
LEMMA JobFrame ==
  ASSUME NEW j \in Jobs, JobStep(j)
  PROVE  UNCHANGED <<startVars, stopVars, redisVars, worker, envVars, workers,
                     srv, abortSet, task, probe, timedOut>>
<1>1. CASE Take(j)
  BY <1>1, Zenon DEF Take
<1>2. CASE HandlerReturns(j)
  BY <1>2, Zenon DEF HandlerReturns
<1>3. CASE Finalise(j)
  BY <1>3, Zenon DEF Finalise
<1>4. CASE FinaliseLost(j)
  BY <1>4, Zenon DEF FinaliseLost
<1>5. CASE Recover(j)
  BY <1>5, Zenon DEF Recover
<1>q. QED
  BY <1>1, <1>2, <1>3, <1>4, <1>5, Zenon DEF JobStep

(* A request to /readyz changes nothing but its own progress. *)
LEMMA ProbeFrame ==
  ASSUME NEW p \in Probes, ProbeStep(p)
  PROVE  UNCHANGED <<startVars, stopVars, redisVars, mkqVars, envVars, workers,
                     srv, abortSet, task, timedOut>>
BY Zenon DEF ProbeStep, ProbeArrives, ProbeChecks, ProbePings

(* Every step keeps the fields of the Runtime in step with the control of *)
(* Start and of Shutdown.                                                  *)
LEMMA ControlStep ==
  ASSUME IInv, ~ConcurrentStop, [Next]_vars
  PROVE  ControlInv'
<1>t. ASSUME NEW q \in Queues, TaskStep(q) PROVE ControlInv'
  BY <1>t, TaskFrame, Zenon DEF IInv, ControlInv, BeforeTake, startVars, stopVars,
     redisVars, envVars
<1>j. ASSUME NEW j \in Jobs, JobStep(j) PROVE ControlInv'
  BY <1>j, JobFrame, Zenon DEF IInv, ControlInv, BeforeTake, startVars, stopVars, redisVars, envVars
<1>p. ASSUME NEW p \in Probes, ProbeStep(p) PROVE ControlInv'
  BY <1>p, ProbeFrame, Zenon DEF IInv, ControlInv, BeforeTake, startVars, stopVars,
     redisVars, mkqVars, envVars
<1>a. /\ ControlInv /\ startPc \in StartPcs /\ stopPc \in StopPcs
      /\ todo \in SUBSET Queues /\ stopped \in BOOLEAN
      /\ client \in {"open", "closed"} /\ rdb \in {"open", "closed"}
  BY Zenon DEF IInv, TypeOK
<1> USE <1>a DEF ControlInv, BeforeTake, StartPcs, StopPcs, startVars, stopVars, redisVars,
   mkqVars, envVars, vars
<1>1. CASE StartBuilds
  BY <1>1, Zenon DEF StartBuilds, Up, CountEnd
<1>2. CASE StartBuildFails
  BY <1>2, Zenon DEF StartBuildFails, Up, CountEnd
<1>3. ASSUME NEW q \in Queues, Launch(q) PROVE ControlInv'
  BY <1>3, SMTT(30) DEF Launch, Up, CountEnd, Appended
<1>4. ASSUME NEW q \in Queues, LaunchFails(q) PROVE ControlInv'
  BY <1>4, Zenon DEF LaunchFails, Up, CountEnd, Appended
<1>5. CASE Launched
  BY <1>5, Zenon DEF Launched, Up, CountEnd
<1>6. CASE Listen
  BY <1>6, Zenon DEF Listen, Up, CountEnd
<1>7. CASE ListenFails
  BY <1>7, Zenon DEF ListenFails, Up, CountEnd
<1>8. CASE AbortTakes
  BY <1>8, Zenon DEF AbortTakes, Up, CountEnd
<1>9. CASE AbortJoins
  BY <1>9, Zenon DEF AbortJoins, Up, CountEnd
<1>10. CASE BudgetEnds
  BY <1>10, Zenon DEF BudgetEnds, Up, InFlight
<1>11. CASE CloseServer
  BY <1>11, Zenon DEF CloseServer, Up, InFlight
<1>12. CASE ServerDrained
  BY <1>12, Zenon DEF ServerDrained, Up, InFlight
<1>13. CASE ServerCut
  BY <1>13, Zenon DEF ServerCut, Up, InFlight
<1>14. CASE ServerAbandoned
  BY <1>14, Zenon DEF ServerAbandoned, Up, InFlight
<1>15. CASE StopTakes
  BY <1>15, Zenon DEF StopTakes, Up, InFlight
<1>16. CASE StopJoins
  BY <1>16, Zenon DEF StopJoins, Up, InFlight
<1>17. CASE CloseClient
  BY <1>17, Zenon DEF CloseClient, Up, InFlight
<1>18. CASE CloseRdb
  BY <1>18, Zenon DEF CloseRdb, Up, InFlight
<1>19. CASE SetStopped
  BY <1>19, Zenon DEF SetStopped, Up, InFlight
<1>20. ASSUME NEW c \in Callers, CallShutdown(c) PROVE ControlInv'
  BY <1>20, Zenon DEF CallShutdown, Up, CountEnd
<1>21. ASSUME NEW c \in Callers, ReturnShutdown(c) PROVE ControlInv'
  BY <1>21, Zenon DEF ReturnShutdown, Up, CountEnd
<1>36. CASE Kill
  BY <1>36, Zenon DEF Kill, Up, CountEnd, EndProcess
<1>37. CASE Exit
  BY <1>37, Zenon DEF Exit, Up, CountEnd, EndProcess
<1>38. CASE Restart
  BY <1>38, Zenon DEF Restart
<1>39. CASE UNCHANGED vars
  BY <1>39, Zenon DEF vars
<1>q. QED
  BY <1>1, <1>2, <1>3, <1>4, <1>5, <1>6, <1>7, <1>8, <1>9, <1>10, <1>11, <1>12, <1>13,
     <1>14, <1>15, <1>16, <1>17, <1>18, <1>19, <1>20, <1>21, <1>36, <1>37, <1>38, <1>39,
     <1>t, <1>j, <1>p, Zenon
     DEF Next, StartStep, ShutdownStep

(* Every step keeps the goroutine that stops a worker and the worker in    *)
(* step: what has been drained or stopped never takes a job again.         *)
LEMMA QueueStep ==
  ASSUME IInv, ~ConcurrentStop, [Next]_vars
  PROVE  \A q \in Queues : QueueInv(q)'
<1> SUFFICES ASSUME NEW k \in Queues PROVE QueueInv(k)'
  BY Zenon
<1>j. ASSUME NEW j \in Jobs, JobStep(j) PROVE QueueInv(k)'
  BY <1>j, JobFrame, Zenon DEF IInv, QueueInv, AfterJoin, startVars, stopVars, redisVars, envVars
<1>p. ASSUME NEW p \in Probes, ProbeStep(p) PROVE QueueInv(k)'
  BY <1>p, ProbeFrame, Zenon DEF IInv, QueueInv, AfterJoin, startVars, stopVars, redisVars,
     mkqVars, envVars
<1>a. /\ ControlInv /\ QueueInv(k) /\ startPc \in StartPcs /\ stopPc \in StopPcs
      /\ task \in [Queues -> TaskStates]
      /\ worker \in [Queues -> {"none", "running", "draining", "cancelled"}]
  BY Zenon DEF IInv, TypeOK
<1> USE <1>a DEF ControlInv, QueueInv, BeforeTake, AfterJoin, StartPcs, StopPcs, TaskStates,
   startVars, stopVars, redisVars, mkqVars, envVars, vars
<1>1. CASE StartBuilds
  BY <1>1, Zenon DEF StartBuilds, Up, CountEnd
<1>2. CASE StartBuildFails
  BY <1>2, Zenon DEF StartBuildFails, Up, CountEnd
<1>3. ASSUME NEW q \in Queues, Launch(q) PROVE QueueInv(k)'
  BY <1>3, Zenon DEF Launch, Up, CountEnd, Appended
<1>4. ASSUME NEW q \in Queues, LaunchFails(q) PROVE QueueInv(k)'
  BY <1>4, Zenon DEF LaunchFails, Up, CountEnd, Appended
<1>5. CASE Launched
  BY <1>5, Zenon DEF Launched, Up, CountEnd
<1>6. CASE Listen
  BY <1>6, Zenon DEF Listen, Up, CountEnd
<1>7. CASE ListenFails
  BY <1>7, Zenon DEF ListenFails, Up, CountEnd
<1>8. CASE AbortTakes
  BY <1>8, Zenon DEF AbortTakes, Up, CountEnd
<1>9. CASE AbortJoins
  BY <1>9, Zenon DEF AbortJoins, Up, CountEnd
<1>10. CASE BudgetEnds
  BY <1>10, Zenon DEF BudgetEnds, Up, InFlight
<1>11. CASE CloseServer
  BY <1>11, Zenon DEF CloseServer, Up, InFlight
<1>12. CASE ServerDrained
  BY <1>12, Zenon DEF ServerDrained, Up, InFlight
<1>13. CASE ServerCut
  BY <1>13, Zenon DEF ServerCut, Up, InFlight
<1>14. CASE ServerAbandoned
  BY <1>14, Zenon DEF ServerAbandoned, Up, InFlight
<1>15. CASE StopTakes
  BY <1>15, Zenon DEF StopTakes, Up, InFlight
<1>16. CASE StopJoins
  BY <1>16, Zenon DEF StopJoins, Up, InFlight
<1>17. CASE CloseClient
  BY <1>17, Zenon DEF CloseClient, Up, InFlight
<1>18. CASE CloseRdb
  BY <1>18, Zenon DEF CloseRdb, Up, InFlight
<1>19. CASE SetStopped
  BY <1>19, Zenon DEF SetStopped, Up, InFlight
<1>20. ASSUME NEW c \in Callers, CallShutdown(c) PROVE QueueInv(k)'
  <2>1. UNCHANGED <<startVars, budget, stopSet, worker, workers, abortSet, task, timedOut>>
    BY <1>20, Zenon DEF CallShutdown
  <2>2. stopPc' \in {stopPc, "server"}
    BY <1>20, Zenon DEF CallShutdown
  <2>q. QED
    BY <2>1, <2>2, Zenon
<1>21. ASSUME NEW c \in Callers, ReturnShutdown(c) PROVE QueueInv(k)'
  BY <1>21, Zenon DEF ReturnShutdown, Up, CountEnd
<1>22. ASSUME NEW q \in Queues, DrainCall(q) PROVE QueueInv(k)'
  BY <1>22, Zenon DEF DrainCall, Up, Cancel, Unwound, HandlersOf
<1>23. ASSUME NEW q \in Queues, DrainDone(q) PROVE QueueInv(k)'
  BY <1>23, Zenon DEF DrainDone, Up, Cancel, Unwound, HandlersOf
<1>24. ASSUME NEW q \in Queues, DrainExpires(q) PROVE QueueInv(k)'
  BY <1>24, Zenon DEF DrainExpires, Up, Cancel, Unwound, HandlersOf
<1>25. ASSUME NEW q \in Queues, StopCall(q) PROVE QueueInv(k)'
  BY <1>25, Zenon DEF StopCall, Up, Cancel, Unwound, HandlersOf
<1>26. ASSUME NEW q \in Queues, StopDone(q) PROVE QueueInv(k)'
  BY <1>26, Zenon DEF StopDone, Up, Cancel, Unwound, HandlersOf
<1>27. ASSUME NEW q \in Queues, StopTimesOut(q) PROVE QueueInv(k)'
  BY <1>27, Zenon DEF StopTimesOut, Up, Cancel, Unwound, HandlersOf
<1>36. CASE Kill
  BY <1>36, Zenon DEF Kill, Up, CountEnd, EndProcess
<1>37. CASE Exit
  BY <1>37, Zenon DEF Exit, Up, CountEnd, EndProcess
<1>38. CASE Restart
  BY <1>38, Zenon DEF Restart
<1>39. CASE UNCHANGED vars
  BY <1>39, Zenon DEF vars
<1>q. QED
  BY <1>1, <1>2, <1>3, <1>4, <1>5, <1>6, <1>7, <1>8, <1>9, <1>10, <1>11, <1>12, <1>13,
     <1>14, <1>15, <1>16, <1>17, <1>18, <1>19, <1>20, <1>21, <1>22, <1>23, <1>24, <1>25,
     <1>26, <1>27, <1>36, <1>37, <1>38, <1>39, <1>j, <1>p, Zenon
     DEF Next, StartStep, ShutdownStep, TaskStep

(* Every step keeps the job, its handler and the excuses in step: this is  *)
(* where the second wait of drainWorker is needed.                         *)
LEMMA JobInvStep ==
  ASSUME IInv, ~ConcurrentStop, [Next]_vars
  PROVE  \A j \in Jobs : JobInv(j)'
<1> SUFFICES ASSUME NEW i \in Jobs PROVE JobInv(i)'
  BY Zenon
<1>a. /\ ControlInv /\ JobInv(i) /\ QueueOf[i] \in Queues /\ QueueInv(QueueOf[i])
      /\ client \in {"open", "closed"}
      /\ task \in [Queues -> TaskStates]
      /\ worker \in [Queues -> {"none", "running", "draining", "cancelled"}]
      /\ handler \in [Jobs -> {"none", "running", "cancelled"} \cup Returned]
      /\ job \in [Jobs -> {"wait", "held", "orphan", "completed", "failed"}]
  BY Zenon DEF IInv, TypeOK
<1>p. ASSUME NEW p \in Probes, ProbeStep(p) PROVE JobInv(i)'
  BY <1>a, <1>p, ProbeFrame, Zenon DEF JobInv, Excused, startVars, stopVars, redisVars,
     mkqVars, envVars
<1> USE <1>a DEF ControlInv, QueueInv, JobInv, Excused, BeforeTake, AfterJoin, TaskStates,
   Returned, startVars, stopVars, redisVars, mkqVars, envVars, vars
<1>1. CASE StartStep
  <2>1. /\ UNCHANGED <<stopVars, redisVars, handler, job, succeeded, repeated, killed, timedOut>>
        /\ startPc \in {"rollback", "failed"} => startPc' \in {"rollback", "failed"}
        /\ worker'[QueueOf[i]] \in {worker[QueueOf[i]], "running"}
        /\ task'[QueueOf[i]] \in {task[QueueOf[i]], "stopCall"}
    BY <1>1, StartFrame, Zenon DEF IInv
  <2>q. QED
    BY <2>1, Zenon
<1>2. CASE ShutdownStep /\ ~CloseClient
  <2>1. /\ UNCHANGED <<startVars, worker, handler, succeeded, repeated, killed, timedOut, client, job>>
        /\ budget # "live" => UNCHANGED budget
        /\ task'[QueueOf[i]] \in {task[QueueOf[i]], "drainCall"}
    BY <1>2, ShutdownFrame, Zenon
  <2>q. QED
    BY <2>1, Zenon
<1>17. CASE CloseClient
  <2>1. stopPc = "client" /\ client = "open" /\ client' = "closed"
    BY <1>17, Zenon DEF CloseClient
  <2>2. UNCHANGED <<startPc, budget, worker, handler, succeeded, repeated, killed, task, timedOut>>
    BY <1>17, Zenon DEF CloseClient
  <2>3. job'[i] = IF job[i] = "held" THEN "orphan" ELSE job[i]
    BY <1>17, Zenon DEF CloseClient
  <2>4. handler[i] # "none" => QueueOf[i] \in timedOut
    BY <2>1, Zenon
  <2>q. QED
    BY <2>1, <2>2, <2>3, <2>4, Zenon
<1>22. ASSUME NEW q \in Queues, DrainCall(q) PROVE JobInv(i)'
  BY <1>22, Zenon DEF DrainCall, Up, Cancel, Unwound, HandlersOf
<1>23. ASSUME NEW q \in Queues, DrainDone(q) PROVE JobInv(i)'
  BY <1>23, Zenon DEF DrainDone, Up, Cancel, Unwound, HandlersOf
<1>24. ASSUME NEW q \in Queues, DrainExpires(q) PROVE JobInv(i)'
  <2>1. UNCHANGED <<startPc, budget, client, job, succeeded, repeated, killed, timedOut>>
    BY <1>24, Zenon DEF DrainExpires
  <2>2. task' = [task EXCEPT ![q] = "stopCall"] /\ worker' = [worker EXCEPT ![q] = "cancelled"]
    BY <1>24, Zenon DEF DrainExpires, Cancel
  <2>3. handler'[i] = IF QueueOf[i] = q /\ handler[i] = "running" THEN "cancelled" ELSE handler[i]
    BY <1>24, Zenon DEF DrainExpires, Cancel
  <2>4. budget # "live"
    BY <1>24, Zenon DEF DrainExpires
  <2>q. QED
    BY <2>1, <2>2, <2>3, <2>4, Zenon
<1>25. ASSUME NEW q \in Queues, StopCall(q) PROVE JobInv(i)'
  BY <1>25, SMTT(30) DEF StopCall, Up, Cancel, Unwound, HandlersOf
<1>26. ASSUME NEW q \in Queues, StopDone(q) PROVE JobInv(i)'
  BY <1>26, Zenon DEF StopDone, Up, Cancel, Unwound, HandlersOf
<1>27. ASSUME NEW q \in Queues, StopTimesOut(q) PROVE JobInv(i)'
  BY <1>27, Zenon DEF StopTimesOut, Up, Cancel, Unwound, HandlersOf
<1>28. ASSUME NEW j \in Jobs, Take(j) PROVE JobInv(i)'
  BY <1>28, SMTT(30) DEF Take, Up
<1>29. ASSUME NEW j \in Jobs, HandlerReturns(j) PROVE JobInv(i)'
  BY <1>29, Zenon DEF HandlerReturns, Up
<1>30. ASSUME NEW j \in Jobs, Finalise(j) PROVE JobInv(i)'
  BY <1>30, Zenon DEF Finalise, Up
<1>31. ASSUME NEW j \in Jobs, FinaliseLost(j) PROVE JobInv(i)'
  BY <1>31, Zenon DEF FinaliseLost, Up
<1>32. ASSUME NEW j \in Jobs, Recover(j) PROVE JobInv(i)'
  BY <1>32, Zenon DEF Recover, Up
<1>36. CASE Kill
  BY <1>36, Zenon DEF Kill, Up, CountEnd, EndProcess
<1>37. CASE Exit
  BY <1>37, Zenon DEF Exit, Up, CountEnd, EndProcess
<1>38. CASE Restart
  BY <1>38, Zenon DEF Restart
<1>39. CASE UNCHANGED vars
  BY <1>39, Zenon DEF vars
<1>q. QED
  BY <1>1, <1>2, <1>17, <1>22, <1>23, <1>24, <1>25, <1>26, <1>27, <1>28, <1>29, <1>30, <1>31, <1>32,
     <1>36, <1>37, <1>38, <1>39, <1>p, Zenon DEF Next, TaskStep, JobStep

(* Every step keeps what stopErr says in step with how the workers ended. *)
LEMMA CallerStep ==
  ASSUME IInv, ~ConcurrentStop, [Next]_vars
  PROVE  CallerInv'
<1>j. ASSUME NEW j \in Jobs, JobStep(j) PROVE CallerInv'
  BY <1>j, JobFrame, Zenon DEF IInv, CallerInv, AfterJoin, startVars, stopVars, redisVars, envVars
<1>p. ASSUME NEW p \in Probes, ProbeStep(p) PROVE CallerInv'
  BY <1>p, ProbeFrame, Zenon DEF IInv, CallerInv, AfterJoin, startVars, stopVars, redisVars,
     mkqVars, envVars
<1>a. /\ CallerInv /\ \A q \in Queues : AfterJoin => task[q] \in {"none", "nil", "err"}
      /\ stopSet \subseteq Queues /\ caller \in [Callers -> {"idle", "waiting", "nil", "error"}]
  BY Zenon DEF IInv, TypeOK, QueueInv
<1>s. CASE StartStep
  <2>1. UNCHANGED <<stopVars>> /\ \A q \in Queues : task'[q] \in {task[q], "stopCall"}
    BY <1>s, StartFrame, Zenon DEF IInv
  <2>q. QED
    BY <1>a, <2>1, Zenon DEF CallerInv, AfterJoin, stopVars
<1>t. ASSUME NEW q \in Queues, TaskStep(q) PROVE CallerInv'
  <2>1. ~AfterJoin
    BY <1>a, <1>t, Zenon DEF TaskStep, DrainCall, DrainDone, DrainExpires, StopCall,
       StopDone, StopTimesOut
  <2>q. QED
    BY <1>a, <1>t, <2>1, TaskFrame, Zenon DEF CallerInv, AfterJoin, stopVars
<1> USE <1>a DEF CallerInv, AfterJoin, startVars, stopVars, vars
<1>1. CASE BudgetEnds \/ CloseServer \/ ServerDrained
  BY <1>1, Zenon DEF BudgetEnds, CloseServer, ServerDrained
<1>2. CASE ServerCut \/ ServerAbandoned \/ StopTakes
  BY <1>2, Zenon DEF ServerCut, ServerAbandoned, StopTakes
<1>3. CASE StopJoins
  BY <1>3, Zenon DEF StopJoins
<1>4. CASE CloseClient \/ CloseRdb \/ SetStopped
  BY <1>4, Zenon DEF CloseClient, CloseRdb, SetStopped
<1>5. ASSUME NEW c \in Callers, CallShutdown(c) PROVE CallerInv'
  BY <1>5, Zenon DEF CallShutdown
<1>6. ASSUME NEW c \in Callers, ReturnShutdown(c) PROVE CallerInv'
  BY <1>6, Zenon DEF ReturnShutdown
<1>7. CASE Kill \/ Exit
  BY <1>7, Zenon DEF Kill, Exit, EndProcess
<1>8. CASE Restart \/ UNCHANGED vars
  BY <1>8, Zenon DEF Restart
<1>q. QED
  BY <1>1, <1>2, <1>3, <1>4, <1>5, <1>6, <1>7, <1>8, <1>s, <1>t, <1>j, <1>p, Zenon
     DEF Next, ShutdownStep

(* Every step keeps the listener and its requests in step with Shutdown. *)
LEMMA ServerStep ==
  ASSUME IInv, ~ConcurrentStop, [Next]_vars
  PROVE  ServerInv'
<1>t. ASSUME NEW q \in Queues, TaskStep(q) PROVE ServerInv'
  BY <1>t, TaskFrame, Zenon DEF IInv, ServerInv, InFlight, startVars, stopVars, redisVars, envVars
<1>j. ASSUME NEW j \in Jobs, JobStep(j) PROVE ServerInv'
  BY <1>j, JobFrame, Zenon DEF IInv, ServerInv, InFlight, startVars, stopVars, redisVars, envVars
<1>a. /\ ControlInv /\ ServerInv /\ stopPc \in StopPcs
      /\ srv \in {"none", "up", "closing", "closed", "abandoned"}
      /\ probe \in [Probes -> {"idle", "accepted", "ping", "200", "503"}]
  BY Zenon DEF IInv, TypeOK
<1> USE <1>a DEF ServerInv, InFlight, startVars, stopVars, vars
<1>1. CASE Listen
  BY <1>1, Zenon DEF Listen, ControlInv
<1>2. CASE StartStep /\ ~Listen
  <2>1. UNCHANGED <<stopVars, srv, probe>> /\ startPc # "ok"
    BY <1>2, StartFrame, Zenon DEF IInv
  <2>q. QED
    BY <2>1, Zenon
<1>3. CASE BudgetEnds
  BY <1>3, Zenon DEF BudgetEnds
<1>4. CASE CloseServer
  BY <1>4, Zenon DEF CloseServer
<1>5. CASE ServerDrained \/ ServerCut \/ ServerAbandoned
  BY <1>5, Zenon DEF ServerDrained, ServerCut, ServerAbandoned
<1>6. CASE StopTakes \/ StopJoins
  BY <1>6, Zenon DEF StopTakes, StopJoins
<1>7. CASE CloseClient \/ CloseRdb \/ SetStopped
  BY <1>7, Zenon DEF CloseClient, CloseRdb, SetStopped
<1>8. ASSUME NEW c \in Callers, CallShutdown(c) \/ ReturnShutdown(c) PROVE ServerInv'
  BY <1>8, Zenon DEF CallShutdown, ReturnShutdown
<1>33. ASSUME NEW p \in Probes, ProbeArrives(p) PROVE ServerInv'
  BY <1>33, Zenon DEF ProbeArrives, Up, InFlight
<1>34. ASSUME NEW p \in Probes, ProbeChecks(p) PROVE ServerInv'
  BY <1>34, Zenon DEF ProbeChecks, Up, InFlight
<1>35. ASSUME NEW p \in Probes, ProbePings(p) PROVE ServerInv'
  BY <1>35, Zenon DEF ProbePings, Up, InFlight
<1>36. CASE Kill
  BY <1>36, Zenon DEF Kill, Up, CountEnd, EndProcess
<1>37. CASE Exit
  BY <1>37, Zenon DEF Exit, Up, CountEnd, EndProcess
<1>38. CASE Restart
  BY <1>38, Zenon DEF Restart
<1>39. CASE UNCHANGED vars
  BY <1>39, Zenon DEF vars
<1>q. QED
  BY <1>1, <1>2, <1>3, <1>4, <1>5, <1>6, <1>7, <1>8, <1>33, <1>34, <1>35, <1>36, <1>37,
     <1>38, <1>39,
     <1>t, <1>j, Zenon DEF Next, ShutdownStep, ProbeStep

(* A Runtime that New has just built satisfies the invariant. *)
LEMMA InitIInv ==
  ASSUME Init PROVE IInv
<1> USE DEF Init, FreshProcess
<1>1. TypeOK
  <2>1. 0 \in 0..(MaxAttempts - 1) /\ 0 \in 0..MaxStalled /\ 0 \in 0..MaxEnds
    BY SMTT(30)
  <2>2. /\ attempts \in [Jobs -> 0..(MaxAttempts - 1)]
        /\ stalls \in [Jobs -> 0..MaxStalled]
        /\ ends \in 0..MaxEnds
    BY <2>1, Zenon
  <2>3. /\ handler \in [Jobs -> {"none", "running", "cancelled"} \cup Returned]
        /\ task \in [Queues -> TaskStates]
    BY Zenon DEF TaskStates
  <2>q. QED
    BY <2>2, <2>3, Zenon DEF TypeOK, StartPcs, StopPcs
<1>2. ControlInv
  BY Zenon DEF ControlInv, BeforeTake
<1>3. \A q \in Queues : QueueInv(q)
  BY Zenon DEF QueueInv, AfterJoin
<1>4. \A j \in Jobs : JobInv(j)
  BY Zenon DEF JobInv, Excused
<1>5. CallerInv /\ ServerInv
  BY Zenon DEF CallerInv, ServerInv, InFlight, AfterJoin
<1>q. QED
  BY <1>1, <1>2, <1>3, <1>4, <1>5, Zenon DEF IInv

(* IInv holds in every reachable state of Start, Shutdown and the workers. *)
THEOREM Invariance ==
  ASSUME ~ConcurrentStop PROVE Spec => []IInv
<1>1. Init => IInv
  BY InitIInv, Zenon
<1>2. IInv /\ [Next]_vars => IInv'
  <2> SUFFICES ASSUME IInv, [Next]_vars PROVE IInv'
    BY Zenon
  <2>1. TypeOK' /\ ControlInv'
    BY TypeStep, ControlStep, Zenon DEF IInv
  <2>2. \A q \in Queues : QueueInv(q)'
    BY QueueStep, Zenon
  <2>3. \A j \in Jobs : JobInv(j)'
    BY JobInvStep, Zenon
  <2>4. CallerInv' /\ ServerInv'
    BY CallerStep, ServerStep, Zenon
  <2>q. QED
    BY <2>1, <2>2, <2>3, <2>4, Zenon DEF IInv
<1>q. QED
  BY <1>1, <1>2, PTL DEF Spec

(* A job is left in `active` without an owner only by a kill or by a       *)
(* handler that outlived the unwind grace: no Shutdown, however it races   *)
(* its budget against the handlers, and no rollback of Start does it.      *)
THEOREM OrphansExcused ==
  ASSUME ~ConcurrentStop PROVE Spec => []OrphanExcused
<1>1. IInv => OrphanExcused
  BY Zenon DEF IInv, JobInv, Excused, OrphanExcused
<1>q. QED
  BY <1>1, Invariance, PTL

(* A job whose handler has succeeded is handed out again only for the same *)
(* two reasons, over any number of processes.                              *)
THEOREM RepeatsExcused ==
  ASSUME ~ConcurrentStop PROVE Spec => []RepeatExcused
<1>1. IInv => RepeatExcused
  BY Zenon DEF IInv, TypeOK, JobInv, Excused, RepeatExcused
<1>q. QED
  BY <1>1, Invariance, PTL

(* A Shutdown that returns nil after a Start that succeeded has left no    *)
(* handler running and no job held: stopErr hides no failed Stop.          *)
THEOREM NilIsUnwound ==
  ASSUME ~ConcurrentStop PROVE Spec => []NilMeansUnwound
<1>1. IInv => NilMeansUnwound
  <2> SUFFICES ASSUME IInv, NEW c \in Callers, caller[c] = "nil", startPc = "ok", NEW j \in Jobs
               PROVE  handler[j] = "none" /\ job[j] # "held"
    BY Zenon DEF NilMeansUnwound
  <2>1. stopPc = "done" /\ errs = {} /\ stopSet = Queues
    BY Zenon DEF IInv, CallerInv, ControlInv, BeforeTake
  <2>2. task[QueueOf[j]] = "nil"
    <3>1. QueueOf[j] \in stopSet /\ AfterJoin
      BY <2>1, Zenon DEF AfterJoin
    <3>2. task[QueueOf[j]] # "err"
      BY <2>1, <3>1, Zenon DEF IInv, CallerInv
    <3>3. task[QueueOf[j]] \in {"nil", "err"}
      BY <3>1, Zenon DEF IInv, QueueInv
    <3>q. QED
      BY <3>2, <3>3, Zenon
  <2>q. QED
    BY <2>2, Zenon DEF IInv, JobInv
<1>q. QED
  BY <1>1, Invariance, PTL

(* When any call of Shutdown returns, no worker takes jobs, both clients   *)
(* are closed and all callers get the same result.                         *)
THEOREM FinalShutdown ==
  ASSUME ~ConcurrentStop PROVE Spec => []ShutdownIsFinal
<1>1. IInv => ShutdownIsFinal
  BY Zenon DEF IInv, TypeOK, ControlInv, BeforeTake, AfterJoin, QueueInv, CallerInv,
         ShutdownIsFinal, SharedResult, isServing
<1>q. QED
  BY <1>1, Invariance, PTL

(* A Start that returns an error leaves no worker that takes jobs, none    *)
(* recorded and no listener.                                               *)
THEOREM RollsBack ==
  ASSUME ~ConcurrentStop PROVE Spec => []RollbackComplete
<1>1. IInv => RollbackComplete
  BY Zenon DEF IInv, TypeOK, TaskStates, ControlInv, QueueInv, ServerInv, RollbackComplete
<1>q. QED
  BY <1>1, Invariance, PTL

(* Handlers keep their context until the budget of Shutdown has ended,     *)
(* unless Start itself failed.                                             *)
THEOREM CancelsLate ==
  ASSUME ~ConcurrentStop PROVE Spec => []CancelledOnlyLate
<1>1. IInv => CancelledOnlyLate
  BY Zenon DEF IInv, JobInv, CancelledOnlyLate
<1>q. QED
  BY <1>1, Invariance, PTL

(* /readyz answers 200 only while every worker takes jobs, when the context *)
(* of Shutdown ends by its deadline, as the one of Run does.                *)
THEOREM ReadyIsUp ==
  ASSUME ~ConcurrentStop, CtxKinds \subseteq {"deadline"} PROVE Spec => ReadyMeansUp
<1> DEFINE Ready ==
      \A p \in Probes : probe[p] = "ping" /\ probe'[p] = "200" =>
        client = "open" /\ \A q \in Queues : worker[q] = "running"
<1>1. IInv => [Ready]_vars
  <2> SUFFICES ASSUME IInv, NEW p \in Probes, probe[p] = "ping"
               PROVE  client = "open" /\ \A q \in Queues : worker[q] = "running"
    BY Zenon
  <2>1. srv \in {"up", "closing"} /\ startPc = "ok"
    BY Zenon DEF IInv, TypeOK, ServerInv, InFlight
  <2>2. stopPc \in {"idle", "server", "closing"}
    BY <2>1, Zenon DEF IInv, ServerInv
  <2>q. QED
    BY <2>1, <2>2, Zenon DEF IInv, TypeOK, ControlInv, BeforeTake, QueueInv
<1>q. QED
  BY <1>1, Invariance, PTL DEF ReadyMeansUp

(* A step of Start goes forward, and a worker that abortWorkers takes has  *)
(* no goroutine that stops it yet.                                         *)
LEMMA StartForward ==
  ASSUME IInv, ~ConcurrentStop, StartStep
  PROVE  /\ Upward(StartRank, startPc, startPc') /\ todo' \subseteq todo
         /\ \A q \in Queues : Upward(TaskRank, task[q], task'[q])
<1>1. CASE AbortTakes
  <2>1. \A q \in workers : task[q] = "none"
    BY <1>1, Zenon DEF AbortTakes, IInv, TypeOK, ControlInv, BeforeTake, QueueInv
  <2>2. \A q \in Queues : task'[q] = IF q \in workers THEN "stopCall" ELSE task[q]
    BY <1>1, Zenon DEF AbortTakes
  <2>3. \A q \in Queues : Upward(TaskRank, task[q], task'[q])
    BY <2>1, <2>2, TaskOrder, Zenon
  <2> QED
    BY <1>1, <2>3, StartOrder, Zenon DEF AbortTakes
<1>2. ASSUME UNCHANGED task PROVE \A q \in Queues : Upward(TaskRank, task[q], task'[q])
  BY <1>2, TaskOrder, Zenon
<1>3. CASE StartBuilds \/ StartBuildFails
  BY <1>2, <1>3, StartOrder, Zenon DEF StartBuilds, StartBuildFails
<1>4. ASSUME NEW q \in Queues, Launch(q)
      PROVE  UNCHANGED <<startPc, task>> /\ todo' \subseteq todo
  BY <1>4, Zenon DEF Launch
<1>5. ASSUME NEW q \in Queues, LaunchFails(q)
      PROVE  startPc = "launch" /\ startPc' = "abort" /\ UNCHANGED <<todo, task>>
  BY <1>5, Zenon DEF LaunchFails
<1>6. CASE Launched \/ Listen
  BY <1>2, <1>6, StartOrder, Zenon DEF Launched, Listen
<1>7. CASE ListenFails \/ AbortJoins
  BY <1>2, <1>7, StartOrder, Zenon DEF ListenFails, AbortJoins
<1>8. CASE \E q \in Queues : Launch(q) \/ LaunchFails(q)
  BY <1>2, <1>4, <1>5, <1>8, StartOrder, Zenon
<1> QED
  BY <1>1, <1>3, <1>6, <1>7, <1>8, Zenon DEF StartStep

(* So does one of Shutdown, and so it is with stopWorkers. *)
LEMMA ShutdownForward ==
  ASSUME IInv, ~ConcurrentStop, ShutdownStep
  PROVE  /\ Upward(StopRank, stopPc, stopPc')
         /\ \A q \in Queues : Upward(TaskRank, task[q], task'[q])
         /\ \A c \in Callers : Upward(CallerRank, caller[c], caller'[c])
<1>1. ASSUME StopTakes
      PROVE  /\ Upward(StopRank, stopPc, stopPc')
             /\ \A q \in Queues : Upward(TaskRank, task[q], task'[q])
  <2>1. \A q \in workers : task[q] = "none"
    BY <1>1, Zenon DEF StopTakes, IInv, TypeOK, ControlInv, BeforeTake, QueueInv
  <2>2. \A q \in Queues : task'[q] = IF q \in workers THEN "drainCall" ELSE task[q]
    BY <1>1, Zenon DEF StopTakes
  <2>3. \A q \in Queues : Upward(TaskRank, task[q], task'[q])
    BY <2>1, <2>2, TaskOrder, Zenon
  <2> QED
    BY <1>1, <2>3, StopOrder, Zenon DEF StopTakes
<1>2. ASSUME UNCHANGED task PROVE \A q \in Queues : Upward(TaskRank, task[q], task'[q])
  BY <1>2, TaskOrder, Zenon
<1>3. ASSUME UNCHANGED caller
      PROVE  \A c \in Callers : Upward(CallerRank, caller[c], caller'[c])
  BY <1>3, CallerOrder, Zenon
<1>4. caller \in [Callers -> {"idle", "waiting", "nil", "error"}]
  BY Zenon DEF IInv, TypeOK
<1>5. ASSUME NEW c \in Callers, CallShutdown(c)
      PROVE  /\ Upward(StopRank, stopPc, stopPc') /\ UNCHANGED task
             /\ \A d \in Callers : Upward(CallerRank, caller[d], caller'[d])
  BY <1>4, <1>5, StopOrder, CallerOrder, Zenon DEF CallShutdown
<1>6. ASSUME NEW c \in Callers, ReturnShutdown(c)
      PROVE  /\ Upward(StopRank, stopPc, stopPc') /\ UNCHANGED task
             /\ \A d \in Callers : Upward(CallerRank, caller[d], caller'[d])
  BY <1>4, <1>6, StopOrder, CallerOrder, Zenon DEF ReturnShutdown
<1>7. CASE BudgetEnds \/ CloseServer \/ ServerDrained
  BY <1>2, <1>3, <1>7, StopOrder, Zenon DEF BudgetEnds, CloseServer, ServerDrained
<1>8. CASE ServerCut \/ ServerAbandoned \/ StopJoins
  BY <1>2, <1>3, <1>8, StopOrder, Zenon DEF ServerCut, ServerAbandoned, StopJoins
<1>9. CASE CloseClient \/ CloseRdb \/ SetStopped
  BY <1>2, <1>3, <1>9, StopOrder, Zenon DEF CloseClient, CloseRdb, SetStopped
<1>10. CASE \E c \in Callers : CallShutdown(c) \/ ReturnShutdown(c)
  BY <1>2, <1>5, <1>6, <1>10, Zenon
<1>11. CASE StopTakes
  BY <1>1, <1>3, <1>11, Zenon DEF StopTakes
<1> QED
  BY <1>7, <1>8, <1>9, <1>10, <1>11, Zenon DEF ShutdownStep

(* Start, Shutdown, the stopping of each worker and each caller go through *)
(* their steps once and in order.                                          *)
THEOREM GoesForward ==
  ASSUME ~ConcurrentStop PROVE Spec => OnlyForward
<1> DEFINE Forward ==
      Up /\ Up' =>
        /\ Upward(StartRank, startPc, startPc') /\ todo' \subseteq todo
        /\ Upward(StopRank, stopPc, stopPc')
        /\ \A q \in Queues : Upward(TaskRank, task[q], task'[q])
        /\ \A c \in Callers : Upward(CallerRank, caller[c], caller'[c])
<1>1. IInv /\ [Next]_vars => [Forward]_vars
  <2> SUFFICES ASSUME IInv, Next, Up, Up' PROVE Forward
    BY Zenon
  <2>1. CASE StartStep
    BY <2>1, StartForward, StartFrame, StopOrder, CallerOrder, Zenon DEF stopVars, IInv
  <2>2. CASE ShutdownStep
    <3>1. UNCHANGED startVars
      BY <2>2, ShutdownFrame, Zenon
    <3> QED
      BY <2>2, <3>1, ShutdownForward, StartOrder, Zenon DEF startVars
  <2>3. ASSUME NEW q \in Queues, TaskStep(q) PROVE Forward
    <3>1. \A k \in Queues : Upward(TaskRank, task[k], task'[k])
      <4>1. task \in [Queues -> TaskStates]
        BY Zenon DEF IInv, TypeOK
      <4>2. CASE DrainCall(q) \/ DrainDone(q) \/ DrainExpires(q)
        BY <4>1, <4>2, TaskOrder, Zenon DEF DrainCall, DrainDone, DrainExpires
      <4>3. CASE StopCall(q) \/ StopDone(q) \/ StopTimesOut(q)
        BY <4>1, <4>3, TaskOrder, Zenon DEF StopCall, StopDone, StopTimesOut
      <4> QED
        BY <2>3, <4>2, <4>3, Zenon DEF TaskStep
    <3> QED
      BY <2>3, <3>1, TaskFrame, StartOrder, StopOrder, CallerOrder, Zenon
         DEF startVars, stopVars
  <2>4. ASSUME NEW j \in Jobs, JobStep(j) PROVE Forward
    BY <2>4, JobFrame, StartOrder, StopOrder, TaskOrder, CallerOrder, Zenon
       DEF startVars, stopVars
  <2>5. ASSUME NEW p \in Probes, ProbeStep(p) PROVE Forward
    BY <2>5, ProbeFrame, StartOrder, StopOrder, TaskOrder, CallerOrder, Zenon
       DEF startVars, stopVars
  <2>6. ~Kill /\ ~Exit /\ ~Restart
    BY Zenon DEF Kill, Exit, EndProcess, Restart, Up
  <2> QED
    BY <2>1, <2>2, <2>3, <2>4, <2>5, <2>6, Zenon DEF Next
<1> QED
  BY <1>1, Invariance, PTL DEF Spec, OnlyForward

----------------------------------------------------------------------------
(***************************************************************************)
(* What holds even when Shutdown is called while Start runs.               *)
(***************************************************************************)

(* The clients and the flag follow the body of Shutdown, results come from *)
(* its errors, and a job is held exactly while a handler has it over an    *)
(* open client.                                                            *)
ClosingInv ==
  /\ (client = "closed") <=> stopPc \in {"rdb", "flag", "done"}
  /\ (rdb = "closed") <=> stopPc \in {"flag", "done"}
  /\ stopped <=> stopPc = "done"
  /\ \A c \in Callers : /\ caller[c] = "nil" => stopPc = "done" /\ errs = {}
                        /\ caller[c] = "error" => stopPc = "done" /\ errs # {}

HeldInv == \A j \in Jobs : job[j] = "held" <=> handler[j] # "none" /\ client = "open"

FreeInv == TypeOK /\ ClosingInv /\ HeldInv

(* The body of Shutdown closes the clients once and in order, and its      *)
(* callers return when it is done.                                         *)
LEMMA ClosingStep ==
  ASSUME FreeInv, [Next]_vars
  PROVE  ClosingInv'
<1> USE DEF FreeInv, ClosingInv
<1>1. CASE StartStep
  BY <1>1, StartFrame, SMTT(30) DEF stopVars, redisVars
<1>2. ASSUME NEW q \in Queues, TaskStep(q) PROVE ClosingInv'
  BY <1>2, TaskFrame, Zenon DEF stopVars, redisVars
<1>3. ASSUME NEW j \in Jobs, JobStep(j) PROVE ClosingInv'
  BY <1>3, JobFrame, Zenon DEF stopVars, redisVars
<1>4. ASSUME NEW p \in Probes, ProbeStep(p) PROVE ClosingInv'
  BY <1>4, ProbeFrame, Zenon DEF stopVars, redisVars
<1>5. CASE BudgetEnds \/ CloseServer \/ ServerDrained
  BY <1>5, SMTT(30) DEF BudgetEnds, CloseServer, ServerDrained, redisVars
<1>6. CASE ServerCut \/ ServerAbandoned \/ StopTakes \/ StopJoins
  <2>1. UNCHANGED <<stopped, caller, redisVars>> /\ stopPc' \in {"take", "join", "client"}
        /\ stopPc \in {"closing", "take", "join"}
    BY <1>6, Zenon DEF ServerCut, ServerAbandoned, StopTakes, StopJoins
  <2> QED
    BY <2>1, Zenon DEF redisVars
<1>7. CASE CloseClient \/ CloseRdb \/ SetStopped
  BY <1>7, SMTT(30) DEF CloseClient, CloseRdb, SetStopped, redisVars
<1>8. ASSUME NEW c \in Callers, CallShutdown(c) PROVE ClosingInv'
  BY <1>8, Zenon DEF CallShutdown, redisVars, TypeOK
<1>9. ASSUME NEW c \in Callers, ReturnShutdown(c) PROVE ClosingInv'
  BY <1>9, Zenon DEF ReturnShutdown, redisVars, TypeOK
<1>10. CASE Kill \/ Exit
  BY <1>10, Zenon DEF Kill, Exit, EndProcess
<1>11. CASE Restart
  BY <1>11, Zenon DEF Restart, stopVars, redisVars
<1>12. CASE UNCHANGED vars
  BY <1>12, Zenon DEF vars, stopVars, redisVars
<1> QED
  BY <1>1, <1>2, <1>3, <1>4, <1>5, <1>6, <1>7, <1>8, <1>9, <1>10, <1>11, <1>12, Zenon
     DEF Next, ShutdownStep

(* Every step of the process is one of a job, one that loses all that is   *)
(* held, or one after which the same jobs have handlers as before.         *)
LEMMA JobsMeet ==
  ASSUME TypeOK, [Next]_vars
  PROVE  \/ \E j \in Jobs : JobStep(j)
         \/ /\ job' = [j \in Jobs |-> IF job[j] = "held" THEN "orphan" ELSE job[j]]
            /\ UNCHANGED <<attempts, stalls>>
            /\ client' = "closed" \/ handler' = [j \in Jobs |-> "none"]
         \/ /\ UNCHANGED <<client, job, attempts, stalls>>
            /\ \A j \in Jobs : handler'[j] = "none" <=> handler[j] = "none"
<1>1. CASE StartStep
  BY <1>1, StartFrame, Zenon DEF redisVars
<1>2. ASSUME NEW q \in Queues, TaskStep(q)
      PROVE  /\ UNCHANGED <<client, job, attempts, stalls>>
             /\ \A j \in Jobs : handler'[j] = "none" <=> handler[j] = "none"
  <2>1. UNCHANGED <<client, job, attempts, stalls>>
    BY <1>2, TaskFrame, Zenon DEF redisVars
  <2>2. CASE Cancel(q)
    BY <2>1, <2>2, Zenon DEF Cancel
  <2>3. CASE UNCHANGED handler
    BY <2>1, <2>3, Zenon
  <2>4. Cancel(q) \/ UNCHANGED handler
    BY <1>2, Zenon DEF TaskStep, DrainCall, DrainDone, DrainExpires, StopCall, StopDone,
       StopTimesOut,
                mkqVars
  <2> QED
    BY <2>1, <2>2, <2>3, <2>4, Zenon
<1>3. CASE ShutdownStep
  BY <1>3, ShutdownFrame, Zenon DEF CloseClient
<1>4. ASSUME NEW p \in Probes, ProbeStep(p)
      PROVE  UNCHANGED <<client, handler, job, attempts, stalls>>
  BY <1>4, ProbeFrame, Zenon DEF redisVars, mkqVars
<1>5. CASE Kill \/ Exit
  BY <1>5, Zenon DEF Kill, Exit, EndProcess
<1>6. CASE Restart \/ UNCHANGED vars
  BY <1>6, Zenon DEF Restart, vars, redisVars, mkqVars
<1> QED
  BY <1>1, <1>2, <1>3, <1>4, <1>5, <1>6, Zenon DEF Next

(* A job that is taken, returned or finalised stays held or leaves with    *)
(* its handler; one that is recovered has none.                            *)
LEMMA HeldStep ==
  ASSUME FreeInv, [Next]_vars
  PROVE  HeldInv'
<1> USE DEF HeldInv
<1>t. /\ HeldInv
      /\ job \in [Jobs -> {"wait", "held", "orphan", "completed", "failed"}]
      /\ handler \in [Jobs -> {"none", "running", "cancelled"} \cup Returned]
  BY Zenon DEF FreeInv, TypeOK
<1>1. ASSUME NEW j \in Jobs, Take(j) PROVE HeldInv'
  <2>1. /\ client = "open" /\ UNCHANGED client
        /\ job' = [job EXCEPT ![j] = "held"] /\ handler' = [handler EXCEPT ![j] = "running"]
    BY <1>1, Zenon DEF Take, redisVars
  <2> QED
    BY <1>t, <2>1, Zenon
<1>2. ASSUME NEW j \in Jobs, HandlerReturns(j) PROVE HeldInv'
  <2>1. PICK r \in Returned :
          handler[j] # "none" /\ UNCHANGED <<client, job>> /\ handler' = [handler EXCEPT ![j] = r]
    BY <1>2, Zenon DEF HandlerReturns, redisVars
  <2> QED
    BY <1>t, <2>1, Zenon DEF Returned
<1>3. ASSUME NEW j \in Jobs, Finalise(j) PROVE HeldInv'
  <2>1. PICK s \in {"wait", "completed", "failed"} :
          /\ UNCHANGED client /\ job' = [job EXCEPT ![j] = s]
          /\ handler' = [handler EXCEPT ![j] = "none"]
    BY <1>3, Zenon DEF Finalise, redisVars
  <2> QED
    BY <1>t, <2>1, Zenon
<1>6. ASSUME NEW j \in Jobs, FinaliseLost(j) PROVE HeldInv'
  <2>1. client = "closed" /\ UNCHANGED <<client, job>> /\ handler' = [handler EXCEPT ![j] = "none"]
    BY <1>6, Zenon DEF FinaliseLost, redisVars
  <2> QED
    BY <1>t, <2>1, Zenon
<1>7. ASSUME NEW j \in Jobs, Recover(j) PROVE HeldInv'
  <2>1. PICK s \in {"wait", "failed"} :
          job[j] = "orphan" /\ UNCHANGED <<client, handler>> /\ job' = [job EXCEPT ![j] = s]
    BY <1>7, Zenon DEF Recover, redisVars
  <2> QED
    BY <1>t, <2>1, Zenon
<1>4. CASE /\ job' = [j \in Jobs |-> IF job[j] = "held" THEN "orphan" ELSE job[j]]
           /\ client' = "closed" \/ handler' = [j \in Jobs |-> "none"]
  BY <1>t, <1>4, Zenon
<1>5. CASE /\ UNCHANGED <<client, job>>
           /\ \A j \in Jobs : handler'[j] = "none" <=> handler[j] = "none"
  BY <1>t, <1>5, Zenon
<1> QED
  BY <1>1, <1>2, <1>3, <1>4, <1>5, <1>6, <1>7, JobsMeet, Zenon DEF JobStep, FreeInv

(* FreeInv holds in every reachable state, whoever calls Shutdown when.    *)
THEOREM FreeInvariance == Spec => []FreeInv
<1>1. Init => FreeInv
  BY InitIInv, Zenon DEF IInv, FreeInv, ClosingInv, ControlInv, CallerInv, HeldInv, JobInv
<1>2. FreeInv /\ [Next]_vars => FreeInv'
  BY TypeStep, ClosingStep, HeldStep, Zenon DEF FreeInv
<1> QED
  BY <1>1, <1>2, PTL DEF Spec

(* Every variable keeps its type: no counter of attempts, of recoveries or *)
(* of ends passes its limit, and no step leaves an undefined phase.        *)
THEOREM TypeCorrect == Spec => []TypeOK
<1>1. FreeInv => TypeOK
  BY Zenon DEF FreeInv
<1> QED
  BY <1>1, FreeInvariance, PTL

(* All calls of Shutdown return one result, with both clients closed, also *)
(* when one of them came while Start was launching workers.                *)
THEOREM ResultIsShared == Spec => []SharedResult
<1>1. FreeInv => SharedResult
  BY Zenon DEF FreeInv, ClosingInv, SharedResult, isServing
<1> QED
  BY <1>1, FreeInvariance, PTL

----------------------------------------------------------------------------
(***************************************************************************)
(* Lifecycle implements Delivery.                                          *)
(***************************************************************************)

(* What one assignment to a job in Redis does to the producer's view. *)
LEMMA SeenOne ==
  ASSUME TypeOK, NEW j \in Jobs, NEW s, job' = [job EXCEPT ![j] = s]
  PROVE  stateBar' = [stateBar EXCEPT ![j] = Seen(s)]
BY Zenon DEF TypeOK, stateBar

(* The steps that leave the producer's view alone. *)
LEMMA SeenSame ==
  ASSUME UNCHANGED <<job, succeeded, timedOut, killed>>
  PROVE  UNCHANGED D!vars
BY Zenon DEF D!vars, stateBar, excusedBar, Excused

(* When the timeouts and kills are unchanged, so are the excuses. *)
LEMMA ExcusesSame ==
  ASSUME UNCHANGED <<timedOut, killed>> PROVE excusedBar' = excusedBar
BY Zenon DEF excusedBar, Excused

(* A step that loses every held job, all of them excused by then, is a     *)
(* fault of Delivery.                                                      *)
LEMMA LoseHeld ==
  ASSUME TypeOK, excusedBar \subseteq excusedBar', succeeded' = succeeded,
         job' = [j \in Jobs |-> IF job[j] = "held" THEN "orphan" ELSE job[j]],
         \A j \in Jobs : job[j] = "held" => j \in excusedBar'
  PROVE  D!Fault
<1> DEFINE L == {j \in Jobs : job[j] = "held"}
<1>1. L \in SUBSET excusedBar'
  BY Zenon
<1>2. \A j \in L : stateBar[j] = "running"
  BY Zenon DEF stateBar, Seen
<1>3. stateBar' = [j \in Jobs |-> IF j \in L THEN "lost" ELSE stateBar[j]]
  BY Zenon DEF stateBar, Seen
<1>4. excusedBar' \in SUBSET Jobs
  BY Zenon DEF excusedBar
<1>q. QED
  BY <1>1, <1>2, <1>3, <1>4, Zenon DEF D!Fault

(* Every step of the process is a step of Delivery or changes nothing that *)
(* a producer can see.                                                     *)
LEMMA DeliveryStep ==
  ASSUME IInv, ~ConcurrentStop, [Next]_vars
  PROVE  [D!Next]_(D!vars)
<1> TypeOK /\ ControlInv
  BY Zenon DEF IInv
<1> QueueOf \in [Jobs -> Queues]
  BY LifecycleAssumption, Zenon
<1>1. CASE UNCHANGED <<job, succeeded, timedOut, killed>>
  BY <1>1, SeenSame, Zenon
<1>2. ASSUME NEW j \in Jobs, Take(j) PROVE D!Begin(j)
  <2>1. stateBar[j] = "waiting" /\ stateBar' = [stateBar EXCEPT ![j] = "running"]
    BY <1>2, SeenOne, Zenon DEF Take, stateBar, Seen
  <2>2. j \in succeeded => j \in excusedBar
    BY <1>2, Zenon DEF Take, IInv, JobInv, excusedBar
  <2>3. succeeded' = succeeded /\ excusedBar' = excusedBar
    BY <1>2, ExcusesSame, Zenon DEF Take, envVars
  <2>q. QED
    BY <2>1, <2>2, <2>3, Zenon DEF D!Begin
<1>3. ASSUME NEW j \in Jobs, HandlerReturns(j) PROVE D!Succeed(j) \/ UNCHANGED D!vars
  <2>1. stateBar[j] = "running" \/ j \in excusedBar
    BY <1>3, Zenon DEF HandlerReturns, IInv, TypeOK, JobInv, stateBar, Seen, excusedBar
  <2>2. stateBar' = stateBar /\ excusedBar' = excusedBar
    BY <1>3, ExcusesSame, Zenon DEF HandlerReturns, stateBar, envVars
  <2>3. succeeded' = succeeded \cup {j} \/ succeeded' = succeeded
    BY <1>3, Zenon DEF HandlerReturns
  <2>q. QED
    BY <2>1, <2>2, <2>3, Zenon DEF D!Succeed, D!vars
<1>4. ASSUME NEW j \in Jobs, Finalise(j) PROVE D!Finish(j) \/ D!Retry(j)
  <2>1. job[j] = "held" /\ stateBar[j] = "running"
    BY <1>4, Zenon DEF Finalise, Returned, IInv, JobInv, stateBar, Seen
  <2>2. succeeded' = succeeded /\ excusedBar' = excusedBar
    BY <1>4, ExcusesSame, Zenon DEF Finalise, envVars
  <2>3. CASE handler[j] = "retry" /\ attempts[j] + 1 < MaxAttempts
    <3>1. stateBar' = [stateBar EXCEPT ![j] = "waiting"]
      BY <1>4, <2>3, SeenOne, Zenon DEF Finalise, Seen
    <3>2. j \in succeeded => j \in excusedBar
      BY <2>1, <2>3, Zenon DEF IInv, JobInv, excusedBar
    <3>q. QED
      BY <2>1, <2>2, <3>1, <3>2, Zenon DEF D!Retry
  <2>4. CASE ~(handler[j] = "retry" /\ attempts[j] + 1 < MaxAttempts)
    <3>1. PICK s \in {"completed", "failed"} : job' = [job EXCEPT ![j] = s]
      BY <1>4, <2>4, Zenon DEF Finalise
    <3>2. Seen(s) = "done"
      BY Zenon DEF Seen
    <3>3. stateBar' = [stateBar EXCEPT ![j] = "done"]
      BY <3>1, <3>2, SeenOne, Zenon
    <3>q. QED
      BY <2>1, <2>2, <3>3, Zenon DEF D!Finish
  <2>q. QED
    BY <2>3, <2>4, Zenon
<1>5. ASSUME NEW j \in Jobs, Recover(j) PROVE D!Recover(j)
  <2>1. stateBar[j] = "lost"
    BY <1>5, Zenon DEF Recover, stateBar, Seen
  <2>2. \E s \in {"waiting", "done"} : stateBar' = [stateBar EXCEPT ![j] = s]
    <3>1. PICK s \in {"wait", "failed"} : job' = [job EXCEPT ![j] = s]
      BY <1>5, Zenon DEF Recover
    <3>2. Seen(s) \in {"waiting", "done"}
      BY Zenon DEF Seen
    <3>q. QED
      BY <3>1, <3>2, SeenOne, Zenon
  <2>3. succeeded' = succeeded /\ excusedBar' = excusedBar
    BY <1>5, ExcusesSame, Zenon DEF Recover, envVars
  <2>q. QED
    BY <2>1, <2>2, <2>3, Zenon DEF D!Recover
<1>6. ASSUME NEW q \in Queues, StopTimesOut(q) PROVE D!Fault
  <2>1. excusedBar \subseteq excusedBar' /\ excusedBar' \in SUBSET Jobs
    BY <1>6, Zenon DEF StopTimesOut, envVars, excusedBar, Excused
  <2>2. stateBar' = stateBar /\ succeeded' = succeeded
    BY <1>6, Zenon DEF StopTimesOut, mkqVars, stateBar
  <2>3. stateBar' = [j \in Jobs |-> IF j \in {} THEN "lost" ELSE stateBar[j]]
    BY <2>2, Zenon DEF stateBar
  <2>4. \E L \in SUBSET excusedBar' :
          /\ \A j \in L : stateBar[j] = "running"
          /\ stateBar' = [j \in Jobs |-> IF j \in L THEN "lost" ELSE stateBar[j]]
    <3> {} \in SUBSET excusedBar'
      BY Zenon
    <3> WITNESS {} \in SUBSET excusedBar'
    <3>q. QED
      BY <2>3, Zenon
  <2>q. QED
    BY <2>1, <2>2, <2>4, Zenon DEF D!Fault
<1>7. CASE CloseClient
  <2>1. ASSUME NEW j \in Jobs, job[j] = "held" PROVE j \in excusedBar
    <3>1. handler[j] # "none" /\ task[QueueOf[j]] # "nil" /\ worker[QueueOf[j]] # "none"
      BY <2>1, Zenon DEF IInv, JobInv
    <3>2. task[QueueOf[j]] \in {"none", "err"}
      BY <1>7, <3>1, Zenon DEF CloseClient, IInv, TypeOK, QueueInv, AfterJoin
    <3>3. workers = {}
      BY <1>7, Zenon DEF CloseClient, ControlInv, BeforeTake
    <3>q. QED
      BY <3>1, <3>2, <3>3, Zenon DEF IInv, QueueInv, excusedBar, Excused
  <2>2. excusedBar' = excusedBar
    BY <1>7, ExcusesSame, Zenon DEF CloseClient, envVars
  <2>3. D!Fault
    BY <1>7, <2>1, <2>2, LoseHeld, Zenon DEF CloseClient
  <2>q. QED
    BY <2>3, Zenon DEF D!Next
<1>8. CASE Kill
  <2>1. excusedBar' = Jobs
    BY <1>8, Zenon DEF Kill, excusedBar, Excused
  <2>2. excusedBar \subseteq excusedBar'
    BY <2>1, Zenon DEF excusedBar
  <2>3. D!Fault
    BY <1>8, <2>1, <2>2, LoseHeld, Zenon DEF Kill, EndProcess
  <2>q. QED
    BY <2>3, Zenon DEF D!Next
<1>9. CASE Exit
  <2>1. ASSUME NEW j \in Jobs, job[j] = "held" PROVE j \in excusedBar
    <3>1. /\ handler[j] # "none" /\ client = "open"
          /\ task[QueueOf[j]] # "nil" /\ worker[QueueOf[j]] # "none"
      BY <2>1, Zenon DEF IInv, JobInv
    <3>2. startPc = "failed" /\ workers = {}
      BY <1>9, <3>1, Zenon DEF Exit, ControlInv, BeforeTake
    <3>q. QED
      BY <3>1, <3>2, Zenon DEF IInv, TypeOK, QueueInv, excusedBar, Excused
  <2>2. excusedBar' = excusedBar
    BY <1>9, ExcusesSame, Zenon DEF Exit, EndProcess
  <2>3. D!Fault
    BY <1>9, <2>1, <2>2, LoseHeld, Zenon DEF Exit, EndProcess
  <2>q. QED
    BY <2>3, Zenon DEF D!Next
<1>q. QED
  <2>1. CASE Next
    <3>1. CASE StartStep
      BY <3>1, <1>1, Zenon DEF StartStep, StartBuilds, StartBuildFails, Launch, LaunchFails,
         Launched,
                        Listen, ListenFails, AbortTakes, AbortJoins, mkqVars, envVars
    <3>2. CASE ShutdownStep
      BY <3>2, <1>1, <1>7, Zenon DEF D!Next, ShutdownStep, BudgetEnds, CloseServer, ServerDrained,
                        ServerCut, ServerAbandoned, StopTakes, StopJoins, CloseRdb, SetStopped,
                        CallShutdown, ReturnShutdown, mkqVars, envVars
    <3>3. ASSUME NEW q \in Queues, TaskStep(q) PROVE [D!Next]_(D!vars)
      BY <3>3, <1>1, <1>6, Zenon DEF D!Next, TaskStep, DrainCall, DrainDone, DrainExpires, StopCall,
                        StopDone, mkqVars, envVars
    <3>4. ASSUME NEW j \in Jobs, JobStep(j) PROVE [D!Next]_(D!vars)
      BY <3>4, <1>1, <1>2, <1>3, <1>4, <1>5, Zenon DEF D!Next, JobStep, FinaliseLost, envVars
    <3>5. ASSUME NEW p \in Probes, ProbeStep(p) PROVE [D!Next]_(D!vars)
      BY <3>5, <1>1, Zenon DEF ProbeStep, ProbeArrives, ProbeChecks, ProbePings, mkqVars, envVars
    <3>6. CASE Restart
      BY <3>6, <1>1, Zenon DEF Restart, mkqVars
    <3>q. QED
      BY <2>1, <3>1, <3>2, <3>3, <3>4, <3>5, <3>6, <1>8, <1>9, Zenon DEF Next, D!Next
  <2>2. CASE UNCHANGED vars
    BY <2>2, <1>1, Zenon DEF vars, mkqVars, envVars
  <2>q. QED
    BY <2>1, <2>2, Zenon

(* Over any number of starts, drains, rollbacks, exits and kills, what the *)
(* producer of a job sees is a behaviour of Delivery.                      *)
THEOREM ImplementsDelivery ==
  ASSUME ~ConcurrentStop PROVE Spec => DeliverySpec
<1>1. Init => D!Init
  BY Zenon DEF Init, D!Init, stateBar, Seen, excusedBar, Excused
<1>2. IInv /\ [Next]_vars => [D!Next]_(D!vars)
  BY DeliveryStep, Zenon
<1>q. QED
  BY <1>1, <1>2, Invariance, PTL DEF Spec, DeliverySpec, D!Spec

============================================================================
