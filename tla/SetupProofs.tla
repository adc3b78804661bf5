---------------------------- MODULE SetupProofs ----------------------------
(***************************************************************************)
(* Proofs about modules Registration and Setup: for any configuration,     *)
(* file and environment, any queues of code and any number of Checks and   *)
(* failed Starts, a Runtime that serves has one worker per queue, tuned as *)
(* promised, with an executor of its own Start and a pool that carries     *)
(* them, as Check predicted; and a handler of code stays.                  *)
(*                                                                         *)
(* SetupInv is the inductive invariant, one conjunct per concern: the      *)
(* configuration, the registry, the build, the order of the queues, the    *)
(* options of the queues of a file, all from RegistrationProofs, and the   *)
(* workers.                                                                *)
(***************************************************************************)
EXTENDS RegistrationProofs

(***************************************************************************)
(* The workers.                                                            *)
(***************************************************************************)

(* What a step that leaves the tuning of each queue alone leaves alone. *)
LEMMA Stable ==
  ASSUME RegistryInv, cfg' = cfg, registeredQueues' = registeredQueues,
         \A n \in Names : registry'[n].tune = registry[n].tune
  PROVE  /\ \A i \in 1..Len(registeredQueues) :
              resolveTuning(registeredQueues[i])' = resolveTuning(registeredQueues[i])
         /\ Report' = Report
         /\ warnPoolSize(registeredQueues)' = warnPoolSize(registeredQueues)
<1> DEFINE rq == registeredQueues
<1>1. /\ DOMAIN rq = 1..Len(rq) /\ \A i \in 1..Len(rq) : rq[i] \in Names
      /\ rq' = rq
  BY Queues
<1>2. \A n \in Names : resolveTuning(n)' = resolveTuning(n)
  BY DEF resolveTuning, resolve, queueConfig, Declared
<1>3. \A i \in 1..Len(rq) : resolveTuning(rq[i])' = resolveTuning(rq[i])
  BY <1>1, <1>2
<1>4. Report' = Report
  <2>1. \A n \in Range(rq) : n \in Names
    BY <1>1 DEF Range
  <2>2. Range(rq)' = Range(rq)
    BY <1>1
  <2> HIDE DEF rq
  <2> QED
    BY <1>2, <2>1, <2>2 DEF Report, rq
<1>5. warnPoolSize(rq)' = warnPoolSize(rq)
  <2> DEFINE each == [i \in DOMAIN rq |-> resolveTuning(rq[i])["concurrency"]]
  <2>1. each' = each
    BY <1>1, <1>3
  <2>2. PoolSize' = PoolSize
    BY DEF PoolSize, autoPoolSize, declaredConcurrency
  <2>3. warnPoolSize(rq) = (PoolSize < Sum(each) + Headroom)
    BY DEF warnPoolSize
  <2>4. warnPoolSize(rq)' = (PoolSize' < Sum(each') + Headroom)
    BY DEF warnPoolSize
  <2> HIDE DEF each
  <2> QED
    BY <2>1, <2>2, <2>3, <2>4
<1> QED
  BY <1>3, <1>4, <1>5

(* The workers are those of the first queues, and the other queues are     *)
(* still to come.                                                          *)
Launching ==
  /\ Len(registeredQueues) = Len(workers) + Len(todo)
  /\ \A i \in 1..Len(workers) :
       /\ workers[i].queue = registeredQueues[i]
       /\ workers[i].tune = resolveTuning(registeredQueues[i])
       /\ registeredQueues[i] \notin Handled => workers[i].by = startCall
  /\ \A i \in 1..Len(todo) : todo[i] = registeredQueues[Len(workers) + i]
  /\ pc # "launch" => todo = <<>>
  /\ warned = warnPoolSize(registeredQueues)

(* Start has launched the first of its queues, and a Check that passed is  *)
(* right about what it reported.                                           *)
LaunchInv ==
  /\ (\E S : workers \in Seq(S)) /\ todo \in Seq(Names)
  /\ ~Resolved => workers = <<>>
  /\ Resolved => Launching
  /\ predicted # <<>> => predicted = <<Report>>

(* Start launches one worker per queue, in the order of the queues. *)
LEMMA LaunchStep ==
  ASSUME ConfigInv, RegistryInv, RegistryInv', BuildInv, LaunchInv, [SetupNext]_setupVars
  PROVE  LaunchInv'
<1> DEFINE rq == registeredQueues
<1>i. /\ (\E S : workers \in Seq(S)) /\ todo \in Seq(Names)
      /\ ~Resolved => workers = <<>>
      /\ Resolved => Launching
      /\ predicted # <<>> => predicted = <<Report>>
  BY DEF LaunchInv
<1>t. /\ rq \in Seq(Names) /\ Len(rq) \in Nat /\ DOMAIN rq = 1..Len(rq)
      /\ \A i \in 1..Len(rq) : rq[i] \in Names
  BY Queues
<1>w. Len(workers) \in Nat /\ Len(todo) \in Nat
  BY <1>i
<1>k. ASSUME cfg' = cfg, rq' = rq, Handled' = Handled,
             \A n \in Names : registry'[n].tune = registry[n].tune,
             UNCHANGED <<workers, todo, warned, startCall>>, Resolved' <=> Resolved,
             pc' # "launch" => pc # "launch" \/ todo = <<>>,
             predicted' \in {predicted, <<Report>>}
      PROVE  LaunchInv'
  <2>1. /\ \A i \in 1..Len(rq) : resolveTuning(rq[i])' = resolveTuning(rq[i])
        /\ Report' = Report /\ warnPoolSize(rq)' = warnPoolSize(rq)
    BY <1>k, Stable
  <2>2. Resolved => Launching'
    <3> SUFFICES ASSUME Resolved PROVE Launching'
      OBVIOUS
    <3>1. Launching
      BY <1>i
    <3>2. Len(rq)' = Len(workers') + Len(todo')
      BY <1>k, <3>1 DEF Launching
    <3>3. ASSUME NEW i \in 1..Len(workers')
          PROVE  /\ workers'[i].queue = rq'[i]
                 /\ workers'[i].tune = resolveTuning(rq[i])'
                 /\ rq'[i] \notin Handled' => workers'[i].by = startCall'
      <4>1. i \in 1..Len(workers) /\ i \in 1..Len(rq)
        BY <1>k, <1>w, <1>t, <3>1 DEF Launching
      <4> HIDE DEF rq
      <4> QED
        BY <1>k, <2>1, <3>1, <4>1 DEF Launching, rq
    <3>4. \A i \in 1..Len(todo') : todo'[i] = rq'[Len(workers') + i]
      BY <1>k, <3>1, Zenon DEF Launching
    <3>5. pc' # "launch" => todo' = <<>>
      BY <1>k, <3>1 DEF Launching
    <3>6. warned' = warnPoolSize(rq)'
      BY <1>k, <2>1, <3>1 DEF Launching
    <3> QED
      BY <3>2, <3>3, <3>4, <3>5, <3>6 DEF Launching
  <2> QED
    BY <1>i, <1>k, <2>1, <2>2 DEF LaunchInv
<1>u. ASSUME UNCHANGED <<registry, order>>
      PROVE  /\ Handled' = Handled /\ rq' = rq
             /\ \A n \in Names : registry'[n].tune = registry[n].tune
  BY <1>u DEF Handled, registeredQueues
<1>n. ASSUME ~Resolved, ~Resolved', UNCHANGED <<workers, todo>>, predicted' = <<>>
      PROVE  LaunchInv'
  BY <1>i, <1>n DEF LaunchInv
<1>1. CASE LoadConfig
  <2>1. ~started /\ predicted = <<>> /\ UNCHANGED <<started, workers, todo, predicted>>
    BY <1>1 DEF LoadConfig, BuildInv, Formed
  <2> QED
    BY <1>n, <2>1 DEF Resolved
<1>2. CASE NewRuntime
  <2>1. ~started /\ predicted = <<>> /\ UNCHANGED <<started, workers, todo, predicted>>
    BY <1>2 DEF NewRuntime, New, BuildInv, Formed
  <2> QED
    BY <1>n, <2>1 DEF Resolved
<1>3. CASE BuildFromText
  <2> DEFINE x == cfg.queues[next].name
  <2>1. /\ pc \in {"check", "start"} /\ Formed
        /\ x \in Names /\ x \in Declared
        /\ UNCHANGED <<cfg, started, todo, workers, warned, calls, startCall, predicted>>
        /\ \/ next' = next + 1 /\ UNCHANGED <<pc, registry, order>>
           \/ /\ pc' = (IF pc = "start" THEN "failed" ELSE "idle")
              /\ UNCHANGED <<next, registry, order>>
           \/ /\ x \in Names \ Handled /\ next' = next + 1 /\ pc' = pc
              /\ registry' = [registry EXCEPT ![x] = BuiltEntry]
              /\ order' = Append(order, x)
    BY <1>3, Turns
  <2> HIDE DEF x
  <2>2. Resolved' <=> Resolved
    BY <2>1 DEF Resolved
  <2>3. CASE UNCHANGED <<registry, order>>
    BY <1>k, <1>u, <2>1, <2>2, <2>3
  <2>4. CASE /\ x \in Names \ Handled /\ next' = next + 1 /\ pc' = pc
             /\ registry' = [registry EXCEPT ![x] = BuiltEntry]
             /\ order' = Append(order, x)
    <3>1. BuiltEntry \in Entries /\ BuiltEntry.tune = NoTune /\ ~BuiltEntry.fromCode
      BY DEF BuiltEntry, Entries, NoTune, Tunings, RegistryInv
    <3>2. Formed' /\ next' \in Nat \ {0} /\ calls' \in Nat
      BY <2>1, <2>4 DEF RegistryInv, Formed
    <3>3. /\ Handled' = Handled
          /\ registry'[x] = BuiltEntry /\ \A n \in Names \ {x} : registry'[n] = registry[n]
          /\ rq' = IF x \in Range(order) THEN rq ELSE Append(rq, x)
      BY <2>1, <2>4, <3>1, <3>2, Joins, Zenon
    <3>4. \A n \in Names : registry'[n].tune = registry[n].tune
      BY <2>4, <3>1, <3>3 DEF RegistryInv
    <3>5. CASE Resolved \/ predicted # <<>>
      <4>1. x \in Range(order)
        BY <2>1, <3>5 DEF BuildInv
      <4> QED
        BY <1>k, <2>1, <2>2, <3>3, <3>4, <4>1
    <3>6. CASE ~Resolved /\ predicted = <<>>
      BY <1>n, <2>1, <2>2, <3>6
    <3> QED
      BY <3>5, <3>6
  <2> QED
    BY <2>1, <2>3, <2>4
<1>4. CASE \E n \in Names, t \in CodeTunes : register(n, t)
  BY <1>4, <1>n DEF register, Resolved
<1>5. CASE Check \/ CheckDone
  <2>1. /\ Resolved' <=> Resolved
        /\ pc' # "launch" /\ pc # "launch"
        /\ UNCHANGED <<cfg, registry, order, workers, todo, warned, startCall>>
        /\ predicted' \in {predicted, <<Report>>}
    BY <1>5 DEF Check, CheckDone, Resolved
  <2> QED
    BY <1>k, <1>u, <2>1
<1>6. CASE Start
  <2>1. ~Resolved /\ ~Resolved'
        /\ UNCHANGED <<cfg, registry, order, workers, todo, warned, predicted>>
    BY <1>6 DEF Start, Resolved
  <2>2. Report' = Report
    BY <1>u, <2>1, Stable
  <2> QED
    BY <1>i, <2>1, <2>2 DEF LaunchInv
<1>7. CASE StartResolves
  <2>1. /\ ~Resolved /\ started /\ started' = started /\ workers = <<>>
        /\ todo' = rq
        /\ UNCHANGED <<cfg, registry, order, workers, startCall, predicted>>
        /\ IF rq = <<>> THEN pc' = "failed" ELSE pc' = "launch" /\ warned' = warnPoolSize(rq)
    BY <1>7, <1>i DEF StartResolves, Resolved, BuildInv
  <2>2. /\ rq' = rq /\ Report' = Report /\ warnPoolSize(rq)' = warnPoolSize(rq)
    BY <1>u, <2>1, Stable
  <2>3. CASE rq = <<>>
    <3>1. ~Resolved'
      BY <2>1, <2>3 DEF Resolved
    <3> QED
      BY <1>i, <1>t, <2>1, <2>2, <3>1 DEF LaunchInv
  <2>4. CASE rq # <<>>
    <3>1. Resolved' /\ pc' = "launch" /\ warned' = warnPoolSize(rq)'
      BY <2>1, <2>2, <2>4 DEF Resolved
    <3>2. Len(workers') = 0 /\ Len(todo') = Len(rq)'
      BY <2>1, <2>2
    <3>3. \A i \in 1..Len(todo') : todo'[i] = rq'[Len(workers') + i]
      <4> HIDE DEF rq
      <4> QED
        BY <1>t, <2>1, <2>2, <3>2
    <3>4. Len(rq)' = Len(workers') + Len(todo')
      BY <1>t, <2>2, <3>2
    <3>5. Launching'
      BY <3>1, <3>2, <3>3, <3>4 DEF Launching
    <3> QED
      BY <1>i, <1>t, <2>1, <2>2, <3>1, <3>5 DEF LaunchInv
  <2> QED
    BY <2>3, <2>4
<1>8. CASE LaunchOne
  <2> DEFINE w == [queue |-> Head(todo), by |-> registry[Head(todo)].by,
                   tune |-> resolveTuning(Head(todo))]
  <2>1. /\ pc = "launch" /\ pc' = "launch" /\ todo # <<>>
        /\ workers' = Append(workers, w) /\ todo' = Tail(todo)
        /\ UNCHANGED <<cfg, registry, order, started, warned, startCall, predicted>>
    BY <1>8 DEF LaunchOne
  <2>2. Resolved /\ Resolved'
    BY <2>1 DEF BuildInv, Resolved
  <2>3. Launching
    BY <1>i, <2>2
  <2>4. /\ Handled' = Handled /\ rq' = rq /\ Report' = Report
        /\ \A i \in 1..Len(rq) : resolveTuning(rq[i])' = resolveTuning(rq[i])
        /\ warnPoolSize(rq)' = warnPoolSize(rq)
    BY <1>u, <2>1, Stable
  <2>5. /\ Tail(todo) \in Seq(Names) /\ Len(Tail(todo)) = Len(todo) - 1 /\ Len(todo) > 0
        /\ Head(todo) = todo[1] /\ \A i \in 1..(Len(todo) - 1) : Tail(todo)[i] = todo[i + 1]
    BY <1>i, <2>1
  <2>6. /\ \E S : workers' \in Seq(S)
        /\ Len(workers') = Len(workers) + 1 /\ workers'[Len(workers) + 1] = w
        /\ \A i \in 1..Len(workers) : workers'[i] = workers[i]
    <3> HIDE DEF w
    <3>1. PICK S : workers \in Seq(S)
      BY <1>i
    <3>2. workers \in Seq(S \cup {w})
      BY <3>1
    <3> QED
      BY <2>1, <3>2, Appended
  <2>7. Head(todo) = rq[Len(workers) + 1] /\ Len(workers) + 1 \in 1..Len(rq)
    BY <1>w, <2>3, <2>5 DEF Launching
  <2>8. rq[Len(workers) + 1] \notin Handled => w.by = startCall
    <3>1. rq[Len(workers) + 1] \in Range(order)
      <4>1. Range(rq) = Range(order)
        BY Queues
      <4>2. rq[Len(workers) + 1] \in Range(rq)
        <5> HIDE DEF rq
        <5> QED
          BY <1>t, <2>7 DEF Range
      <4> QED
        BY <4>1, <4>2
    <3>2. rq[Len(workers) + 1] \in Handled \cup Declared
      BY <3>1 DEF RegistryInv
    <3> QED
      BY <2>1, <2>7, <3>2 DEF BuildInv, Fresh
  <2>9. w.queue = rq[Len(workers) + 1] /\ w.tune = resolveTuning(rq[Len(workers) + 1])
    BY <2>7
  <2> HIDE DEF w, rq
  <2>10. ASSUME NEW i \in 1..Len(workers')
         PROVE  /\ workers'[i].queue = rq'[i]
                /\ workers'[i].tune = resolveTuning(rq[i])'
                /\ rq'[i] \notin Handled' => workers'[i].by = startCall'
    <3>1. i \in 1..Len(workers) \/ i = Len(workers) + 1
      BY <1>w, <2>6
    <3>2. i \in 1..Len(rq)
      BY <1>t, <1>w, <2>7, <3>1
    <3>3. CASE i \in 1..Len(workers)
      BY <2>1, <2>3, <2>4, <2>6, <3>2, <3>3 DEF Launching, rq
    <3>4. CASE i = Len(workers) + 1
      BY <2>1, <2>4, <2>6, <2>8, <2>9, <3>2, <3>4
    <3> QED
      BY <3>1, <3>3, <3>4
  <2>11. \A i \in 1..Len(todo') : todo'[i] = rq'[Len(workers') + i]
    <3> SUFFICES ASSUME NEW i \in 1..Len(todo') PROVE todo'[i] = rq'[Len(workers') + i]
      OBVIOUS
    <3>1. i \in 1..(Len(todo) - 1) /\ todo'[i] = todo[i + 1] /\ i + 1 \in 1..Len(todo)
      BY <1>w, <2>1, <2>5
    <3>2. todo[i + 1] = rq[Len(workers) + (i + 1)]
      BY <2>3, <3>1 DEF Launching, rq
    <3>3. Len(workers') + i = Len(workers) + (i + 1)
      BY <1>w, <2>6
    <3> QED
      BY <2>4, <3>1, <3>2, <3>3
  <2>12. Len(rq') = Len(workers') + Len(todo')
    <3>1. Len(rq) = Len(workers) + Len(todo)
      BY <2>3 DEF Launching, rq
    <3>2. Len(todo') = Len(todo) - 1 /\ Len(workers') = Len(workers) + 1 /\ rq' = rq
      BY <2>1, <2>4, <2>5, <2>6
    <3> QED
      BY <1>w, <3>1, <3>2
  <2>13. warned' = warnPoolSize(rq)'
    BY <2>1, <2>3, <2>4 DEF Launching, rq
  <2>14. Launching'
    BY <2>1, <2>10, <2>11, <2>12, <2>13 DEF Launching, rq
  <2> QED
    BY <1>i, <2>1, <2>2, <2>4, <2>5, <2>6, <2>14 DEF LaunchInv
<1>9. CASE LaunchFails
  <2>1. /\ ~Resolved' /\ workers' = <<>>
        /\ UNCHANGED <<cfg, registry, order, todo, predicted>>
    BY <1>9 DEF LaunchFails, Resolved
  <2>2. Report' = Report
    BY <1>u, <2>1, Stable
  <2>3. <<>> \in Seq({})
    OBVIOUS
  <2> QED
    BY <1>i, <2>1, <2>2, <2>3 DEF LaunchInv
<1>10. CASE StartDone
  <2>1. /\ Resolved' <=> Resolved
        /\ UNCHANGED <<cfg, registry, order, workers, todo, warned, startCall, predicted>>
        /\ todo = <<>>
    BY <1>10 DEF StartDone, Resolved
  <2> QED
    BY <1>k, <1>u, <2>1
<1>11. CASE UNCHANGED setupVars
  <2>1. /\ Resolved' <=> Resolved
        /\ UNCHANGED <<cfg, pc, registry, order, workers, todo, warned, startCall, predicted>>
    BY <1>11 DEF setupVars, vars, Resolved
  <2> QED
    BY <1>k, <1>u, <2>1
<1> QED
  BY <1>1, <1>2, <1>3, <1>4, <1>5, <1>6, <1>7, <1>8, <1>9, <1>10, <1>11 DEF SetupNext, Goes

(***************************************************************************)
(* The invariant, and what follows.                                        *)
(***************************************************************************)

(* The inductive invariant. *)
SetupInv ==
  ConfigInv /\ RegistryInv /\ BuildInv /\ PrefixInv /\ LaunchInv /\ FactoryInv

(* Every Runtime that New, Load, Register, Check and Start can reach       *)
(* satisfies the invariant.                                                *)
THEOREM RuntimeInvariant == SetupSpec => []SetupInv
<1>1. SetupInit => SetupInv
  <2> SUFFICES ASSUME SetupInit PROVE SetupInv
    OBVIOUS
  <2>1. ConfigInv /\ RegistryInv
    BY ConfigStart, RegistryStart
  <2>2. /\ pc = "new" /\ order = <<>> /\ ~started /\ workers = <<>> /\ todo = <<>>
        /\ predicted = <<>>
    BY DEF SetupInit, Init
  <2>3. BuildInv
    BY <2>2 DEF BuildInv, Formed, Resolved
  <2>4. PrefixInv
    <3>1. registeredQueues = <<>> /\ Len(<<>>) = 0
      BY <2>1, <2>2, Queues DEF Formed
    <3>2. Len(cfg.queues) \in Nat
      <4>1. \E S : cfg.queues \in Seq(S)
        BY <2>1, Zenon DEF ConfigInv, ConfigRecords
      <4> QED
        BY <4>1
    <3> QED
      BY <2>2, <3>1, <3>2 DEF PrefixInv
  <2>5. LaunchInv
    <3>1. workers \in Seq({}) /\ todo \in Seq(Names)
      BY <2>2
    <3> QED
      BY <2>2, <3>1 DEF LaunchInv, Resolved
  <2>6. FactoryInv
    BY <2>2 DEF FactoryInv, Range
  <2> QED
    BY <2>1, <2>3, <2>4, <2>5, <2>6 DEF SetupInv
<1>2. SetupInv /\ [SetupNext]_setupVars => SetupInv'
  <2> SUFFICES ASSUME SetupInv, [SetupNext]_setupVars PROVE SetupInv'
    OBVIOUS
  <2>1. ConfigInv'
    BY ConfigStep DEF SetupInv
  <2>2. RegistryInv'
    BY <2>1, RegistryStep DEF SetupInv
  <2>3. BuildInv' /\ LaunchInv' /\ FactoryInv'
    BY <2>2, BuildStep, LaunchStep, FactoryStep DEF SetupInv
  <2>4. PrefixInv'
    BY <2>1, <2>2, PrefixStep DEF SetupInv
  <2> QED
    BY <2>1, <2>2, <2>3, <2>4 DEF SetupInv
<1> QED
  BY <1>1, <1>2, PTL DEF SetupSpec

(* A handler that code has registered stays: neither Check nor Start, nor  *)
(* a failed one of either, puts a configured queue in its place.           *)
THEOREM CodeWins == SetupSpec => CodeHandlerWins
<1>1. SetupInv /\ SetupInv' /\ [SetupNext]_setupVars =>
        [\A n \in Names : registry[n].fromCode => registry'[n] = registry[n]]_vars
  BY RegistryStep DEF SetupInv
<1> QED
  BY <1>1, RuntimeInvariant, PTL DEF SetupSpec, CodeHandlerWins

(* A worker, while Start launches and after. *)
LEMMA Workers ==
  ASSUME SetupInv
  PROVE  /\ DOMAIN workers = 1..Len(workers) /\ Len(workers) \in Nat
         /\ Len(workers) <= Len(registeredQueues)
         /\ \A i \in 1..Len(workers) :
              /\ workers[i].queue = registeredQueues[i] /\ workers[i].queue \in Names
              /\ workers[i].queue \in Range(order)
              /\ workers[i].tune = resolveTuning(workers[i].queue)
              /\ workers[i].queue \notin Handled => workers[i].by = startCall
         /\ workers # <<>> => Resolved /\ Formed
         /\ Serving => Len(workers) = Len(registeredQueues)
<1> DEFINE rq == registeredQueues
<1>1. /\ rq \in Seq(Names) /\ Range(rq) = Range(order) /\ Len(rq) \in Nat
      /\ DOMAIN rq = 1..Len(rq) /\ \A i \in 1..Len(rq) : rq[i] \in Names
  BY Queues DEF SetupInv
<1>2. /\ (\E S : workers \in Seq(S)) /\ todo \in Seq(Names)
      /\ ~Resolved => workers = <<>>
      /\ Resolved => Launching
  BY DEF SetupInv, LaunchInv
<1>3. DOMAIN workers = 1..Len(workers) /\ Len(workers) \in Nat /\ Len(todo) \in Nat
  BY <1>2
<1>4. Resolved => Formed
  BY DEF Resolved, Formed
<1>5. \A i \in 1..Len(rq) : rq[i] \in Range(order)
  <2> HIDE DEF rq
  <2> QED
    BY <1>1, Zenon DEF Range
<1>6. CASE ~Resolved
  <2>1. workers = <<>> /\ Len(workers) = 0
    BY <1>2, <1>6
  <2> QED
    BY <1>1, <1>3, <2>1 DEF Serving
<1>7. CASE Resolved
  <2>1. Len(workers) <= Len(rq)
    BY <1>1, <1>2, <1>3, <1>7 DEF Launching
  <2>2. Serving => Len(workers) = Len(rq)
    <3>1. Serving => todo = <<>>
      BY <1>2, <1>7 DEF Serving, Launching
    <3>2. Len(<<>>) = 0
      OBVIOUS
    <3>3. Len(rq) = Len(workers) + Len(todo)
      BY <1>2, <1>7 DEF Launching
    <3> QED
      BY <1>3, <3>1, <3>2, <3>3
  <2>3. \A i \in 1..Len(workers) : i \in 1..Len(rq)
    BY <1>1, <1>3, <2>1
  <2>4. \A i \in 1..Len(workers) :
          /\ workers[i].queue = rq[i] /\ workers[i].tune = resolveTuning(rq[i])
          /\ rq[i] \notin Handled => workers[i].by = startCall
    BY <1>2, <1>7 DEF Launching
  <2> QED
    BY <1>1, <1>3, <1>4, <1>5, <1>7, <2>1, <2>2, <2>3, <2>4, Zenon
<1> QED
  BY <1>6, <1>7

(* A Runtime that serves has exactly one worker per queue it knows, and    *)
(* none is left out, however often Check or a failed Start came before.    *)
THEOREM Serves == SetupSpec => []ServesEachOnce
<1>1. ASSUME SetupInv PROVE ServesEachOnce
  <2> SUFFICES ASSUME Serving
               PROVE  /\ {workers[i].queue : i \in DOMAIN workers} = Declared \cup Handled
                      /\ \A i, k \in DOMAIN workers : workers[i].queue = workers[k].queue => i = k
    BY DEF ServesEachOnce
  <2> DEFINE rq == registeredQueues
  <2>1. /\ DOMAIN workers = 1..Len(rq) /\ DOMAIN rq = 1..Len(rq)
        /\ \A i \in 1..Len(rq) : workers[i].queue = rq[i]
    BY <1>1, Workers, Queues DEF SetupInv
  <2>2. /\ Range(rq) = Range(order)
        /\ \A i, k \in 1..Len(rq) : rq[i] = rq[k] => i = k
    BY <1>1, Queues DEF SetupInv
  <2>3. Range(order) = Declared \cup Handled
    <3>1. Resolved
      BY <1>1, Workers DEF Serving
    <3>2. Declared \subseteq Range(order)
      BY <1>1, <3>1 DEF SetupInv, BuildInv
    <3> QED
      BY <1>1, <3>2 DEF SetupInv, RegistryInv
  <2> HIDE DEF rq
  <2>4. {workers[i].queue : i \in DOMAIN workers} = Range(rq)
    BY <2>1 DEF Range
  <2> QED
    BY <2>1, <2>2, <2>3, <2>4
<1> QED
  BY <1>1, RuntimeInvariant, PTL

(* The executor of a configured queue is built by the Start that serves    *)
(* it, not left over from a Check or from a Start that failed.             *)
THEOREM Freshness == SetupSpec => []FreshExecutors
<1>1. ASSUME SetupInv PROVE FreshExecutors
  BY <1>1, Workers DEF FreshExecutors
<1> QED
  BY <1>1, RuntimeInvariant, PTL

(* Once Check has passed, Start comes to the queues and tuning that Check  *)
(* reported.                                                               *)
THEOREM Predicts == SetupSpec => []CheckPredictsStart
<1>1. ASSUME SetupInv PROVE CheckPredictsStart
  <2> SUFFICES ASSUME Serving, predicted # <<>>
               PROVE  predicted = <<{<<workers[i].queue, workers[i].tune>> : i \in DOMAIN workers}>>
    BY DEF CheckPredictsStart
  <2> DEFINE rq == registeredQueues
  <2>1. /\ DOMAIN workers = 1..Len(rq) /\ DOMAIN rq = 1..Len(rq)
        /\ \A i \in 1..Len(rq) : workers[i].queue = rq[i] /\ workers[i].tune = resolveTuning(rq[i])
    BY <1>1, Workers, Queues DEF SetupInv
  <2>2. predicted = <<Report>>
    BY <1>1 DEF SetupInv, LaunchInv
  <2>3. Report = {<<rq[i], resolveTuning(rq[i])>> : i \in DOMAIN rq}
    BY DEF Report, Range
  <2> HIDE DEF rq
  <2>4. {<<workers[i].queue, workers[i].tune>> : i \in DOMAIN workers}
          = {<<rq[i], resolveTuning(rq[i])>> : i \in DOMAIN rq}
    BY <2>1
  <2> QED
    BY <2>2, <2>3, <2>4
<1> QED
  BY <1>1, RuntimeInvariant, PTL

(* The value of a knob, whether there is a block for the queue or not. *)
LEMMA Tuned ==
  ASSUME ConfigInv, Formed, NEW q, NEW f \in Fields
  PROVE  LET else == IF registry[q].tune[f] # Unset THEN registry[q].tune[f] ELSE cfg.defaults[f]
         IN /\ \A i \in 1..Len(cfg.queues) : cfg.queues[i].name = q =>
                 resolveTuning(q)[f] = IF cfg.queues[i].tune[f] # Unset
                                       THEN cfg.queues[i].tune[f] ELSE else
            /\ q \notin Declared => resolveTuning(q)[f] = else
<1> DEFINE t == registry[q].tune
           else == IF t[f] # Unset THEN t[f] ELSE cfg.defaults[f]
<1>1. ASSUME NEW i \in 1..Len(cfg.queues), cfg.queues[i].name = q
      PROVE  resolveTuning(q)[f] = IF cfg.queues[i].tune[f] # Unset
                                   THEN cfg.queues[i].tune[f] ELSE else
  <2>1. q \in Declared /\ i \in DOMAIN cfg.queues
    BY <1>1, BlockNames
  <2>2. \A k \in DOMAIN cfg.queues : cfg.queues[k].name = q => k = i
    BY <1>1, BlockNames
  <2>3. \A k \in 1..(i - 1) : cfg.queues[k].name # q
    BY <1>1, BlockNames
  <2>4. queueConfig(q) = cfg.queues[i]
    <3> DEFINE P(k) == cfg.queues[k].name = q /\ \A j \in 1..(k - 1) : cfg.queues[j].name # q
               c == CHOOSE k \in DOMAIN cfg.queues : P(k)
    <3>1. i \in DOMAIN cfg.queues /\ P(i)
      BY <1>1, <2>1, <2>3
    <3>2. c \in DOMAIN cfg.queues /\ cfg.queues[c].name = q
      BY <3>1
    <3>3. queueConfig(q) = cfg.queues[c]
      BY DEF queueConfig
    <3> HIDE DEF c
    <3> QED
      BY <2>2, <3>2, <3>3
  <2>5. resolveTuning(q) = overlay(cfg.defaults, overlay(t, cfg.queues[i].tune))
    BY <2>1, <2>4 DEF resolveTuning, resolve
  <2> QED
    BY <2>5 DEF overlay
<1>2. ASSUME q \notin Declared PROVE resolveTuning(q)[f] = else
  <2>1. resolveTuning(q) = overlay(cfg.defaults, t)
    BY <1>2 DEF resolveTuning, resolve
  <2> QED
    BY <2>1 DEF overlay
<1> QED
  BY <1>1, <1>2

(* The tuning of each worker follows the documented precedence, knob by    *)
(* knob: the block of the queue, its options in code, the defaults.        *)
THEOREM Precedence == SetupSpec => []PrecedenceHolds
<1>1. ASSUME SetupInv PROVE PrecedenceHolds
  <2> SUFFICES ASSUME NEW w \in Range(workers), NEW f \in Fields
      PROVE LET blocks == {i \in DOMAIN cfg.queues :
                             cfg.queues[i].name = w.queue /\ cfg.queues[i].tune[f] # Unset}
                inCode == registry[w.queue].tune[f]
            IN IF blocks # {} THEN \A i \in blocks : w.tune[f] = cfg.queues[i].tune[f]
               ELSE IF inCode # Unset THEN w.tune[f] = inCode
               ELSE w.tune[f] = cfg.defaults[f]
    BY DEF PrecedenceHolds
  <2> DEFINE q == w.queue
             else == IF registry[q].tune[f] # Unset THEN registry[q].tune[f] ELSE cfg.defaults[f]
  <2>1. PICK k \in DOMAIN workers : w = workers[k]
    BY DEF Range
  <2>2. Formed /\ w.tune = resolveTuning(q)
    <3>1. k \in 1..Len(workers) /\ workers # <<>>
      BY <1>1, <2>1, Workers
    <3> QED
      BY <1>1, <2>1, <3>1, Workers
  <2>3. DOMAIN cfg.queues = 1..Len(cfg.queues)
    BY <1>1, <2>2, BlockNames DEF SetupInv
  <2>4. /\ \A i \in DOMAIN cfg.queues : cfg.queues[i].name = q =>
             w.tune[f] = IF cfg.queues[i].tune[f] # Unset THEN cfg.queues[i].tune[f] ELSE else
        /\ q \notin Declared => w.tune[f] = else
    BY <1>1, <2>2, <2>3, Tuned DEF SetupInv
  <2>5. q \in Declared <=> \E i \in DOMAIN cfg.queues : cfg.queues[i].name = q
    BY DEF Declared
  <2> QED
    BY <2>4, <2>5
<1> QED
  BY <1>1, RuntimeInvariant, PTL

(* A Runtime of a file serves what the file says, with the environment in  *)
(* its place.                                                              *)
THEOREM Understands == SetupSpec => []FileUnderstood
<1>1. ASSUME SetupInv PROVE FileUnderstood
  <2> SUFFICES ASSUME Serving, text # Absent
      PROVE /\ text.keys \subseteq KnownFields
            /\ \A i \in DOMAIN text.blocks, w \in Range(workers) :
                 LET block == text.blocks[i]
                     s == block.concurrency
                     value == IF s.var # Absent /\ env[s.var] # Absent THEN env[s.var] ELSE s.default
                     inCode == registry[block.name].tune["concurrency"] IN
                 w.queue = block.name =>
                   /\ value \notin {Absent, Words} /\ ~s.quoted
                   /\ w.tune["concurrency"] = IF value # Empty THEN value
                                              ELSE IF inCode # Unset THEN inCode
                                              ELSE cfg.defaults["concurrency"]
                   /\ block.options.typo => block.options.type = "log" \/ block.name \in Handled
    BY Zenon DEF FileUnderstood
  <2>1. Formed
    BY <1>1, Workers DEF Serving
  <2>2. text.keys \subseteq KnownFields
    BY <1>1, <2>1, FileBlocks DEF SetupInv
  <2>3. ASSUME NEW i \in DOMAIN text.blocks, NEW w \in Range(workers),
               w.queue = text.blocks[i].name
        PROVE  LET block == text.blocks[i]
                   s == block.concurrency
                   value == IF s.var # Absent /\ env[s.var] # Absent THEN env[s.var] ELSE s.default
                   inCode == registry[block.name].tune["concurrency"] IN
               /\ value \notin {Absent, Words} /\ ~s.quoted
               /\ w.tune["concurrency"] = IF value # Empty THEN value
                                          ELSE IF inCode # Unset THEN inCode
                                          ELSE cfg.defaults["concurrency"]
               /\ block.options.typo => block.options.type = "log" \/ block.name \in Handled
    <3> DEFINE block == text.blocks[i]
               s == block.concurrency
               value == IF s.var # Absent /\ env[s.var] # Absent THEN env[s.var] ELSE s.default
               inCode == registry[block.name].tune["concurrency"]
               q == cfg.queues[i]
    <3>1. /\ i \in 1..Len(cfg.queues) /\ q.name = block.name
          /\ q.tune = [NoTune EXCEPT !["concurrency"] = Decode(s, env)]
          /\ expandEnv(s, env) \in Int \cup {Empty} /\ ~s.quoted
          /\ IsSet(s, env) \/ s.default # Absent
      BY <1>1, <2>1, FileBlocks, Zenon DEF SetupInv
    <3>2. PICK k \in DOMAIN workers : w = workers[k]
      BY DEF Range
    <3>3. w.tune = resolveTuning(block.name) /\ block.name \in Range(order)
      <4>1. k \in 1..Len(workers)
        BY <1>1, <3>2, Workers
      <4> QED
        BY <1>1, <2>3, <3>2, <4>1, Workers, Zenon
    <3>4. value = expandEnv(s, env)
      BY <3>1 DEF expandEnv, IsSet
    <3>5. value \notin {Absent, Words}
      BY <3>1, <3>4, SetupAssumption
    <3>6. w.tune["concurrency"] = IF q.tune["concurrency"] # Unset THEN q.tune["concurrency"]
                                  ELSE IF inCode # Unset THEN inCode
                                  ELSE cfg.defaults["concurrency"]
      <4>1. "concurrency" \in Fields
        BY DEF Fields
      <4>2. ASSUME NEW f \in Fields, NEW n, NEW m \in 1..Len(cfg.queues), cfg.queues[m].name = n
            PROVE  resolveTuning(n)[f] =
                     IF cfg.queues[m].tune[f] # Unset THEN cfg.queues[m].tune[f]
                     ELSE IF registry[n].tune[f] # Unset THEN registry[n].tune[f]
                     ELSE cfg.defaults[f]
        BY <1>1, <2>1, <4>2, Tuned DEF SetupInv
      <4>3. resolveTuning(block.name)["concurrency"] =
              IF q.tune["concurrency"] # Unset THEN q.tune["concurrency"]
              ELSE IF inCode # Unset THEN inCode ELSE cfg.defaults["concurrency"]
        BY <3>1, <4>1, <4>2, Zenon
      <4> QED
        BY <3>3, <4>3
    <3>7. q.tune["concurrency"] = IF value = Empty THEN Unset ELSE value
      BY <3>1, <3>4, Zenon DEF Decode, NoTune, Fields
    <3>8. value # Empty => value # Unset
      BY <3>1, <3>4, RegistrationAssumption, Zenon
    <3>9. block.options.typo => block.options.type = "log" \/ block.name \in Handled
      <4>1. block.name \notin Handled => factory(block.options)
        BY <1>1, <3>3 DEF SetupInv, FactoryInv
      <4> QED
        BY <4>1 DEF factory, newHTTPExecutor, newWebhookExecutor, newDeliverExecutor, DecodeStrict
    <3> HIDE DEF value, inCode, q, s, block
    <3>10. w.tune["concurrency"] = IF value # Empty THEN value
                                   ELSE IF inCode # Unset THEN inCode
                                   ELSE cfg.defaults["concurrency"]
      BY <3>6, <3>7, <3>8
    <3> QED
      BY <3>1, <3>5, <3>9, <3>10, Zenon DEF value, inCode, s, block
  <2> QED
    BY <2>2, <2>3, Zenon
<1> QED
  BY <1>1, RuntimeInvariant, PTL

(* A pool is as large as the concurrency of its workers and the headroom   *)
(* ask, or Start has warned; and a pool that mkqd sizes itself for queues  *)
(* of the configuration alone needs no warning.                            *)
THEOREM PoolIsFit == SetupSpec => []PoolFits
<1>1. ASSUME SetupInv PROVE PoolFits
  <2> SUFFICES ASSUME Serving
      PROVE /\ warned \/ PoolSize >= Headroom +
                 Sum([i \in DOMAIN workers |-> workers[i].tune["concurrency"]])
            /\ Handled = {} /\ cfg.poolSize = 0 => ~warned
    BY DEF PoolFits
  <2> DEFINE rq == registeredQueues
             qs == cfg.queues
             default == cfg.defaults["concurrency"]
             R == [i \in 1..Len(rq) |-> resolveTuning(rq[i])["concurrency"]]
             D == [i \in 1..Len(qs) |-> IF qs[i].tune["concurrency"] # Unset
                                        THEN qs[i].tune["concurrency"] ELSE default]
  <2>1. Formed /\ Resolved
    BY <1>1, Workers DEF Serving
  <2>2. /\ DOMAIN workers = 1..Len(rq) /\ DOMAIN rq = 1..Len(rq) /\ Len(rq) \in Nat
        /\ \A i \in 1..Len(rq) : workers[i].tune = resolveTuning(rq[i]) /\ rq[i] \in Names
    BY <1>1, Workers, Queues DEF SetupInv
  <2>3. /\ Len(qs) \in Nat /\ DOMAIN qs = 1..Len(qs)
        /\ \A i \in 1..Len(qs) : qs[i].tune["concurrency"] \in Int \cup {Unset}
    BY <1>1, <2>1, BlockNames DEF SetupInv, Tunings, Fields
  <2>4. default \in Int /\ default >= 1 /\ cfg.poolSize \in Int /\ Headroom \in Int
    <3>1. cfg \in ConfigRecords /\ Validate(cfg)
      BY <1>1, <2>1 DEF SetupInv, ConfigInv
    <3>2. default \in Int /\ cfg.poolSize \in Int
      BY <3>1, Zenon DEF ConfigRecords
    <3>3. default >= 1
      BY <3>1, Zenon DEF Validate
    <3>4. Headroom \in Nat
      BY RegistrationAssumption, Zenon
    <3> HIDE DEF default
    <3> QED
      BY <3>2, <3>3, <3>4
  <2>5. \A n \in Names : registry[n].tune["concurrency"] \in Int \cup {Unset}
    BY <1>1 DEF SetupInv, RegistryInv, Entries, Tunings, Fields
  <2>6. ASSUME NEW q
        PROVE  LET else == IF registry[q].tune["concurrency"] # Unset
                           THEN registry[q].tune["concurrency"] ELSE default
               IN /\ \A i \in 1..Len(qs) : qs[i].name = q =>
                       resolveTuning(q)["concurrency"] = IF qs[i].tune["concurrency"] # Unset
                                                         THEN qs[i].tune["concurrency"] ELSE else
                  /\ q \notin Declared => resolveTuning(q)["concurrency"] = else
    <3>1. "concurrency" \in Fields
      BY DEF Fields
    <3> QED
      BY <1>1, <2>1, <3>1, Tuned DEF SetupInv
  <2> HIDE DEF rq, qs, default
  <2>7. \A n \in Names : resolveTuning(n)["concurrency"] \in Int
    <3> SUFFICES ASSUME NEW n \in Names PROVE resolveTuning(n)["concurrency"] \in Int
      OBVIOUS
    <3>1. n \in Declared <=> \E i \in 1..Len(qs) : qs[i].name = n
      BY <2>3 DEF Declared, qs
    <3> QED
      BY <2>3, <2>4, <2>5, <2>6, <3>1
  <2>8. R \in Seq(Int) /\ D \in Seq(Int)
    <3>1. \A i \in 1..Len(rq) : R[i] \in Int
      BY <2>2, <2>7
    <3>2. \A i \in 1..Len(qs) : D[i] \in Int
      BY <2>3, <2>4
    <3>3. R \in [1..Len(rq) -> Int] /\ D \in [1..Len(qs) -> Int]
      BY <3>1, <3>2
    <3>4. Len(rq) \in Nat /\ Len(qs) \in Nat
      BY <2>2, <2>3
    <3>5. ASSUME NEW n \in Nat, NEW f \in [1..n -> Int] PROVE f \in Seq(Int)
      OBVIOUS
    <3> HIDE DEF R, D
    <3> QED
      BY <3>3, <3>4, <3>5
  <2>9. Sum(R) \in Int /\ Sum(D) \in Int
    <3> HIDE DEF R, D
    <3> QED
      BY <2>8, SumIsInt
  <2>10. [i \in DOMAIN workers |-> workers[i].tune["concurrency"]] = R
    BY <2>2
  <2>11. warned <=> PoolSize < Sum(R) + Headroom
    <3>1. warned = warnPoolSize(rq)
      BY <1>1, <2>1 DEF SetupInv, LaunchInv, Launching, rq
    <3>2. warnPoolSize(rq) = (PoolSize < Sum(R) + Headroom)
      BY <2>2 DEF warnPoolSize
    <3> QED
      BY <3>1, <3>2, Zenon
  <2>12. PoolSize = IF cfg.poolSize = 0
                    THEN (IF Sum(D) = 0 THEN default ELSE Sum(D)) + Headroom ELSE cfg.poolSize
    BY <2>3 DEF PoolSize, autoPoolSize, declaredConcurrency, qs, default
  <2>13. ASSUME Handled = {} PROVE R = D
    <3>1. /\ Len(rq) <= Len(qs) /\ \A i \in 1..Len(rq) : rq[i] = qs[i].name
      BY <1>1, <2>13 DEF SetupInv, PrefixInv, rq, qs
    <3>2. Len(qs) <= Len(rq)
      <4>1. CASE Len(qs) = 0
        BY <2>2, <4>1
      <4>2. CASE Len(qs) # 0
        <5> DEFINE n == qs[Len(qs)].name
        <5>1. n \in Declared
          BY <2>3, <4>2 DEF Declared, qs
        <5>2. n \in Range(rq)
          BY <1>1, <2>1, <5>1, Queues DEF SetupInv, BuildInv, rq
        <5>3. PICK j \in 1..Len(rq) : rq[j] = n
          BY <2>2, <5>2 DEF Range
        <5>4. j \in 1..Len(qs) /\ qs[j].name = qs[Len(qs)].name
          BY <2>2, <2>3, <3>1, <5>3
        <5>5. j = Len(qs)
          BY <1>1, <2>1, <2>3, <4>2, <5>4, BlockNames DEF SetupInv, qs
        <5> QED
          BY <2>2, <5>5
      <4> QED
        BY <4>1, <4>2
    <3>3. Len(rq) = Len(qs)
      <4>1. Len(rq) \in Nat /\ Len(qs) \in Nat /\ Len(rq) <= Len(qs) /\ Len(qs) <= Len(rq)
        BY <2>2, <2>3, <3>1, <3>2
      <4> QED
        BY <4>1
    <3>4. ASSUME NEW i \in 1..Len(qs) PROVE R[i] = D[i]
      <4>1. i \in 1..Len(rq) /\ rq[i] = qs[i].name /\ rq[i] \in Names
        BY <2>2, <3>1, <3>3
      <4>2. registry[rq[i]].tune["concurrency"] = Unset
        BY <1>1, <2>13, <4>1 DEF SetupInv, RegistryInv, NoTune, Fields
      <4> QED
        BY <2>6, <4>1, <4>2
    <3> QED
      BY <3>3, <3>4
  <2> HIDE DEF R, D
  <2>14. warned \/ PoolSize >= Headroom + Sum(R)
    <3>1. PoolSize \in Int
      BY <2>4, <2>9, <2>12
    <3> QED
      BY <2>4, <2>9, <2>11, <3>1
  <2>15. ASSUME Handled = {}, cfg.poolSize = 0 PROVE ~warned
    <3>1. Sum(R) = Sum(D)
      BY <2>13, <2>15
    <3>2. ~(PoolSize < Sum(R) + Headroom)
      BY <2>4, <2>9, <2>12, <2>15, <3>1
    <3> QED
      BY <2>11, <3>2
  <2> QED
    BY <2>10, <2>14, <2>15
<1> QED
  BY <1>1, RuntimeInvariant, PTL

============================================================================
