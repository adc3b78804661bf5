------------------------------ MODULE Inspect ------------------------------
(***************************************************************************)
(* Module Admin together with the commands that only look: queues, counts, *)
(* list and job (cmd/mkqd/inspect.go). An operator looks at each queue of  *)
(* a list with one or two calls, and prints when the last one is done.     *)
(*                                                                         *)
(* One operator at a time looks: two that do have nothing in common.       *)
(***************************************************************************)
EXTENDS Admin

CONSTANT Nobody

VARIABLE view  \* the looking command

(* by: who gave the command; todo: the queues it has yet to look at;       *)
(* listed: inspector.present; queue: the one it looks at, at step; gone    *)
(* (history): the queues that were removed since they were listed.         *)
NoView ==
  [by |-> Nobody, name |-> "none", todo |-> {}, listed |-> {}, gone |-> {},
   step |-> "none", queue |-> Nobody]

inspectVars == <<vars, view>>

InspectInit == Init /\ view = NoView

(* openInspector and resolveQueues: all queues for queues and for counts   *)
(* without a name, the ones that are named for counts, one for the rest.   *)
OpenView(o) ==
  /\ view = NoView /\ pc[o] = "shell"
  /\ \E name \in {"queues", "counts", "list", "job"}, names \in SUBSET Queues :
       /\ \/ name = "queues" /\ names = known
          \/ name = "counts" /\ (names = known \/ names # {})
          \/ name \in {"list", "job"} /\ Cardinality(names) = 1
       /\ view' = [NoView EXCEPT !.by = o, !.name = name, !.step = "next",
                                 !.todo = names, !.listed = known]
  /\ UNCHANGED vars

Opens(q) ==
  /\ known' = known \cup {q}
  /\ view' = [view EXCEPT !.step = "call", !.queue = q, !.todo = @ \ {q}]

(* inspector.queue for a name that it does not look up. *)
DefineAny ==
  /\ view.step = "next"
  /\ \E q \in view.todo : Opens(q)
  /\ UNCHANGED <<at, paused, pc, command, meant, touched>>

(* inspector.queue: a name that was not listed ends the command, when it   *)
(* is its turn; Define registers the queue in Redis.                       *)
DefineListed ==
  /\ view.step = "next"
  /\ \E q \in view.todo :
       IF q \in view.listed THEN Opens(q) ELSE view' = NoView /\ UNCHANGED known
  /\ UNCHANGED <<at, paused, pc, command, meant, touched>>

(* Counts, the first of the two calls for a row. *)
ReadCounts ==
  /\ view.step = "call" /\ view.name = "counts"
  /\ view' = [view EXCEPT !.step = "status"]
  /\ UNCHANGED vars

(* IsPaused completes the row, and the loop goes on. *)
ReadStatus ==
  /\ view.step = "status" \/ (view.step = "call" /\ view.name = "queues")
  /\ view' = [view EXCEPT !.step = "next", !.queue = Nobody]
  /\ UNCHANGED vars

(* Get, which fails for a job that is not there, before GetJobLogs. *)
ReadJob ==
  /\ view.step = "call" /\ view.name = "job"
  /\ view' = IF \E j \in Jobs : QueueOf[j] = view.queue /\ at[j] # "none"
             THEN [view EXCEPT !.step = "logs"] ELSE NoView
  /\ UNCHANGED vars

(* ListJobs, or GetJobLogs: the last call of its command. *)
ReadLast ==
  /\ view.step = "logs" \/ (view.step = "call" /\ view.name = "list")
  /\ view' = NoView
  /\ UNCHANGED vars

(* The loop is over and the rows are printed; or a call failed, or         *)
(* inspectTimeout is over.                                                 *)
EndView ==
  /\ view # NoView /\ view' = NoView
  /\ UNCHANGED vars

(* A step of module Admin by another operator or by anybody else. *)
Meanwhile ==
  /\ Others \/ \E o \in Operators \ {view.by} : Step(o)
  /\ view' = [view EXCEPT !.gone = @ \cup (view.listed \cap (known \ known'))]

InspectNext ==
  \/ \E o \in Operators : OpenView(o)
  \/ DefineListed \/ ReadCounts \/ ReadStatus \/ ReadJob \/ ReadLast \/ EndView
  \/ Meanwhile

InspectSpec == InspectInit /\ [][InspectNext]_inspectVars

----------------------------------------------------------------------------
(***************************************************************************)
(* Properties.                                                             *)
(***************************************************************************)

(* A command that only looks changes nothing in Redis, although it opens   *)
(* each queue with Define, which writes, and others make queues after the  *)
(* list it checks against was taken. One thing it can change: it registers *)
(* a queue again that was removed after that (inspector.queue).            *)
LookingChangesNothing ==
  [][view'.step # view.step =>
       /\ UNCHANGED <<at, paused>>
       /\ known \subseteq known' /\ known' \subseteq known \cup view.gone]_inspectVars

============================================================================
