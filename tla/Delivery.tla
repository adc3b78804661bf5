------------------------------ MODULE Delivery ------------------------------
(***************************************************************************)
(* What a mkqd deployment promises the producer of a job, without workers, *)
(* processes or shutdowns: a job is run until it is done, and what has     *)
(* succeeded runs again only when there is an excuse, which is a killed    *)
(* process or a handler that outlived its unwind grace.                    *)
(***************************************************************************)
CONSTANT Jobs

VARIABLES
  state,    \* where each job is
  sent,     \* jobs some handler has succeeded for
  excused   \* jobs that may be delivered again

vars == <<state, sent, excused>>

TypeOK ==
  /\ state \in [Jobs -> {"waiting", "running", "lost", "done"}]
  /\ sent \in SUBSET Jobs
  /\ excused \in SUBSET Jobs

Init ==
  /\ state = [j \in Jobs |-> "waiting"]
  /\ sent = {}
  /\ excused = {}

(* A handler gets the job. *)
Begin(j) ==
  /\ state[j] = "waiting"
  /\ j \in sent => j \in excused
  /\ state' = [state EXCEPT ![j] = "running"]
  /\ UNCHANGED <<sent, excused>>

(* A handler succeeds; the one of an excused job may be late. *)
Succeed(j) ==
  /\ state[j] = "running" \/ j \in excused
  /\ sent' = sent \cup {j}
  /\ UNCHANGED <<state, excused>>

(* The outcome is recorded. *)
Finish(j) ==
  /\ state[j] = "running"
  /\ state' = [state EXCEPT ![j] = "done"]
  /\ UNCHANGED <<sent, excused>>

(* The handler failed and the job has attempts left. *)
Retry(j) ==
  /\ state[j] = "running"
  /\ j \in sent => j \in excused
  /\ state' = [state EXCEPT ![j] = "waiting"]
  /\ UNCHANGED <<sent, excused>>

(* A fault excuses jobs and may lose running ones: nothing but excused     *)
(* jobs is ever lost.                                                      *)
Fault ==
  /\ excused' \in SUBSET Jobs /\ excused \subseteq excused'
  /\ \E L \in SUBSET excused' :
       /\ \A j \in L : state[j] = "running"
       /\ state' = [j \in Jobs |-> IF j \in L THEN "lost" ELSE state[j]]
  /\ UNCHANGED sent

(* Stalled recovery puts a lost job back, or gives it up. *)
Recover(j) ==
  /\ state[j] = "lost"
  /\ \E s \in {"waiting", "done"} : state' = [state EXCEPT ![j] = s]
  /\ UNCHANGED <<sent, excused>>

Next ==
  \/ \E j \in Jobs : Begin(j) \/ Succeed(j) \/ Finish(j) \/ Retry(j) \/ Recover(j)
  \/ Fault

Spec == Init /\ [][Next]_vars

============================================================================
