---------------------------- MODULE BudgetProofs ----------------------------
(***************************************************************************)
(* Proofs about module Budget, for every set of workers and handlers, any  *)
(* budget, grace and outer deadline, and a clock without bounds of its own *)
(* (LastCall and Horizon are arbitrary).                                   *)
(***************************************************************************)
EXTENDS Budget, TLAPS

(* Run calls Start in a state that satisfies the invariant. *)
LEMMA BudgetInit == Init => BudgetInv
<1> SUFFICES ASSUME Init PROVE BudgetInv
  OBVIOUS
<1>1. visitor \in BOOLEAN /\ killed \in BOOLEAN
  BY DEF Init
<1>2. TypeOK
  BY <1>1 DEF Init, TypeOK, Times
<1> QED
  BY <1>2, BudgetAssumption DEF Init, BudgetInv, Stopped

(* Cancelling the handlers of some workers keeps the histories well typed, *)
(* stamps the handlers that were running with the time, and leaves all     *)
(* others alone.                                                           *)
LEMMA CancelEffect ==
  ASSUME TypeOK, NEW W \in SUBSET Workers, Cancel(W)
  PROVE  /\ handler' \in [Slots -> {"none", "running", "cancelled"}]
         /\ cancelled' \in [Slots -> Times]
         /\ \A s \in Slots : WorkerOf[s] \in W /\ handler[s] = "running" =>
              handler'[s] = "cancelled" /\ cancelled'[s] = now
         /\ \A s \in Slots : WorkerOf[s] \notin W \/ handler[s] # "running" =>
              handler'[s] = handler[s] /\ cancelled'[s] = cancelled[s]
  BY BudgetAssumption DEF TypeOK, Cancel, Times

(* Every step preserves the invariant. *)
LEMMA BudgetStep == BudgetInv /\ [Next]_vars => BudgetInv'
<1> SUFFICES ASSUME BudgetInv, [Next]_vars PROVE BudgetInv'
  OBVIOUS
<1>t. TypeOK
  BY DEF BudgetInv
<1>1. CASE UNCHANGED vars
  BY <1>1 DEF vars, BudgetInv, TypeOK, Stopped
<1>2. CASE StartReturns
  BY <1>2, BudgetAssumption DEF StartReturns, clocks, BudgetInv, TypeOK, Stopped
<1>3. CASE StartFails
  <2>1. Cancel(Workers)
    BY <1>3 DEF StartFails
  <2>2. /\ handler' \in [Slots -> {"none", "running", "cancelled"}]
        /\ cancelled' \in [Slots -> Times]
        /\ \A s \in Slots : handler[s] = "running" =>
             handler'[s] = "cancelled" /\ cancelled'[s] = now
        /\ \A s \in Slots : handler[s] # "running" =>
             handler'[s] = handler[s] /\ cancelled'[s] = cancelled[s]
    BY <2>1, <1>t, CancelEffect, BudgetAssumption
  <2> QED
    BY <1>3, <2>2, BudgetAssumption DEF StartFails, BudgetInv, TypeOK, Stopped, Times
<1>4. CASE Signal
  BY <1>4, BudgetAssumption DEF Signal, BudgetInv, TypeOK, Stopped, Times
<1>5. CASE BeginShutdown
  BY <1>5, BudgetAssumption DEF BeginShutdown, BudgetInv, TypeOK, Stopped, Times
<1>6. CASE CloseListener
  <2>1. visitor' \in BOOLEAN
    BY <1>6 DEF CloseListener
  <2> QED
    BY <1>6, <2>1, BudgetAssumption DEF CloseListener, clocks, BudgetInv, TypeOK, Stopped
<1>7. CASE Return
  BY <1>7, BudgetAssumption DEF Return, clocks, BudgetInv, TypeOK, Stopped
<1>8. ASSUME NEW w \in Workers, WorkerIdle(w) PROVE BudgetInv'
  BY <1>8, BudgetAssumption DEF WorkerIdle, Done, Idle, clocks, BudgetInv, TypeOK, Stopped
<1>9. ASSUME NEW w \in Workers, DrainExpires(w) PROVE BudgetInv'
  <2>1. Cancel({w})
    BY <1>9 DEF DrainExpires
  <2>2. /\ handler' \in [Slots -> {"none", "running", "cancelled"}]
        /\ cancelled' \in [Slots -> Times]
        /\ \A s \in Slots : WorkerOf[s] = w /\ handler[s] = "running" =>
             handler'[s] = "cancelled" /\ cancelled'[s] = now
        /\ \A s \in Slots : WorkerOf[s] # w \/ handler[s] # "running" =>
             handler'[s] = handler[s] /\ cancelled'[s] = cancelled[s]
    BY <2>1, <1>t, <1>9, CancelEffect, BudgetAssumption
  <2> QED
    BY <1>9, <2>2, BudgetAssumption DEF DrainExpires, clocks, BudgetInv, TypeOK, Stopped, Times
<1>10. ASSUME NEW w \in Workers, StopExpires(w) PROVE BudgetInv'
  BY <1>10, BudgetAssumption DEF StopExpires, Done, clocks, BudgetInv, TypeOK, Stopped
<1>11. ASSUME NEW s \in Slots, Take(s) PROVE BudgetInv'
  BY <1>11, BudgetAssumption DEF Take, clocks, BudgetInv, TypeOK, Stopped, Times
<1>12. ASSUME NEW s \in Slots, Finish(s) PROVE BudgetInv'
  BY <1>12, BudgetAssumption DEF Finish, clocks, BudgetInv, TypeOK, Stopped, Times
<1>13. CASE Visit \/ Leave
  <2>1. visitor' \in BOOLEAN
    BY <1>13 DEF Visit, Leave
  <2>2. UNCHANGED <<clocks, run, task, graceEnd, handler, taken, cancelled, killed>>
    BY <1>13 DEF Visit, Leave
  <2> QED
    BY <2>1, <2>2 DEF clocks, BudgetInv, TypeOK, Stopped
<1>14. CASE Kill
  BY <1>14, BudgetAssumption DEF Kill, clocks, BudgetInv, TypeOK, Stopped
<1>15. CASE Tick
  BY <1>15, BudgetAssumption DEF Tick, Due, ListenerClosed, BudgetInv, TypeOK, Stopped
<1> QED
  BY <1>1, <1>2, <1>3, <1>4, <1>5, <1>6, <1>7, <1>8, <1>9, <1>10, <1>11, <1>12,
     <1>13, <1>14, <1>15 DEF Next, Shutdown

(* What the invariant says of each property. *)
LEMMA BudgetImplies ==
  ASSUME BudgetInv
  PROVE  ReturnsInTime /\ DrainedInFull /\ GraceInFull
<1>1. ReturnsInTime
  <2>1. ASSUME run = "draining", ~Stopped PROVE now <= deadline + Grace
    <3>1. PICK w \in Workers : task[w] # "done"
      BY <2>1 DEF Stopped
    <3> QED
      BY <2>1, <3>1, BudgetAssumption DEF BudgetInv, TypeOK
  <2>2. ASSUME run = "aborting", ~Stopped PROVE now <= begun + Grace
    <3>1. PICK w \in Workers : task[w] # "done"
      BY <2>2 DEF Stopped
    <3> QED
      BY <2>2, <3>1, BudgetAssumption DEF BudgetInv, TypeOK
  <2> QED
    BY <2>1, <2>2, BudgetAssumption DEF ReturnsInTime, BudgetInv, TypeOK
<1>2. DrainedInFull
  BY BudgetAssumption DEF DrainedInFull, BudgetInv, TypeOK
<1>3. GraceInFull
  BY BudgetAssumption DEF GraceInFull, BudgetInv, TypeOK, Stopped
<1> QED
  BY <1>1, <1>2, <1>3

(* The invariant holds in every reachable state of Run's end. *)
THEOREM BudgetInvariant == Spec => []BudgetInv
  BY BudgetInit, BudgetStep, PTL DEF Spec

(* Shutdown outlives its context by no more than one grace, and a rollback *)
(* lasts no longer than one, whatever handlers and clients do and however  *)
(* many workers there are.                                                 *)
THEOREM ReturnInTime == Spec => []ReturnsInTime
<1>1. BudgetInv => ReturnsInTime
  BY BudgetImplies
<1> QED
  BY <1>1, BudgetInvariant, PTL

(* A handler that runs when Shutdown begins has the whole budget. *)
THEOREM DrainInFull == Spec => []DrainedInFull
<1>1. BudgetInv => DrainedInFull
  BY BudgetImplies
<1> QED
  BY <1>1, BudgetInvariant, PTL

(* A cancelled handler has a whole grace before Redis is out of its reach. *)
THEOREM GraceIsFull == Spec => []GraceInFull
<1>1. BudgetInv => GraceInFull
  BY BudgetImplies
<1> QED
  BY <1>1, BudgetInvariant, PTL

(* An outer deadline of budget and grace after the signal never strikes a  *)
(* shutdown that began at the signal.                                      *)
THEOREM OuterDeadline == Spec => []OuterDeadlineSuffices
<1>1. Init => OuterDeadlineSuffices
  BY DEF Init, OuterDeadlineSuffices
<1>2. BudgetInv /\ OuterDeadlineSuffices /\ [Next]_vars => OuterDeadlineSuffices'
  <2> SUFFICES ASSUME BudgetInv, OuterDeadlineSuffices, [Next]_vars,
                      Outer >= Timeout + Grace, killed'
               PROVE  begun' # signal'
    BY DEF OuterDeadlineSuffices
  <2>1. CASE killed
    BY <2>1 DEF OuterDeadlineSuffices, Next, vars
  <2>2. CASE ~killed
    <3>1. Kill
      BY <2>2 DEF Next, Shutdown, vars, StartReturns, StartFails, Signal, BeginShutdown,
         CloseListener, Return, WorkerIdle, DrainExpires, StopExpires, Take, Finish,
         Visit, Leave, Tick
    <3>2. ReturnsInTime
      BY BudgetImplies
    <3>3. begun = Never \/ now <= begun + Timeout + Grace
      BY <3>1, <3>2, BudgetAssumption DEF Kill, ReturnsInTime, BudgetInv, TypeOK
    <3> QED
      BY <3>1, <3>3, BudgetAssumption DEF Kill, clocks, BudgetInv, TypeOK, Times, Never
  <2> QED
    BY <2>1, <2>2
<1> QED
  BY <1>1, <1>2, BudgetInvariant, PTL DEF Spec

============================================================================
