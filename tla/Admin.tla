------------------------------- MODULE Admin -------------------------------
(***************************************************************************)
(* The operator's commands (cmd/mkqd/admin.go, inspect.go) against a Redis *)
(* that producers, workers and other operators use at the same time, and   *)
(* where clients other than mkqd may remove a queue altogether.            *)
(*                                                                         *)
(* Each command first lists the queues in Redis (openInspector), then      *)
(* checks the name it was given against that list, and then makes one mkq  *)
(* call, or, for drain, three. Every call is atomic in Redis; nothing      *)
(* holds between two of them. Any call may fail or time out, and the       *)
(* command then ends with an error. What mkq's calls do is external.       *)
(***************************************************************************)
EXTENDS Integers, FiniteSets

CONSTANTS
  Queues, Jobs,
  QueueOf,    \* the queue of each job
  Operators,
  Commands    \* the command lines they may give

Buckets == {"none", "wait", "prioritized", "delayed", "active", "completed", "failed"}
Pending == {"wait", "prioritized", "delayed"}

(* A command line. "sure" is drain's --yes and enqueue's --create, "to" is *)
(* the bucket enqueue's flags choose, "from" the one retry names, and      *)
(* "delayed" drain's -delayed.                                             *)
CommandLines ==
  [name : {"enqueue", "pause", "resume", "retry", "promote", "rm", "drain"},
   queue : Queues, job : Jobs, sure : BOOLEAN, delayed : BOOLEAN,
   to : Pending, from : {"failed", "completed"}]

ASSUME AdminAssumption ==
  /\ IsFiniteSet(Jobs) /\ QueueOf \in [Jobs -> Queues]
  /\ Commands \subseteq CommandLines /\ Commands # {}

VARIABLES
  known,    \* the queues that are registered in Redis
  at,       \* the bucket of each job; "none" when it is not in Redis
  paused,   \* the queues that are paused
  pc,       \* where each operator's command is
  cmd,      \* the command line
  present,  \* inspector.present
  before,   \* the counts the command has taken
  removed,  \* drainResult.Removed: what drain prints, by bucket
  deleted,  \* history: the jobs this drain deleted, by bucket
  meant,    \* history: queues that somebody meant to have, now or earlier
  touched   \* history: drains with whose queue others than producers meddled

redis == <<known, at, paused>>
command == <<cmd, present, before, removed, deleted>>
vars == <<redis, pc, command, meant, touched>>

Counted == [Pending -> 0..Cardinality(Jobs)]
NoCounts == [b \in Pending |-> 0]

In(q, b) == {j \in Jobs : QueueOf[j] = q /\ at[j] = b}

(* mkq's Counts, of the buckets drain reports on. *)
Counts(q) == [b \in Pending |-> Cardinality(In(q, b))]

TypeOK ==
  /\ known \subseteq Queues /\ paused \subseteq Queues /\ meant \subseteq Queues
  /\ at \in [Jobs -> Buckets]
  /\ pc \in [Operators -> {"shell", "gate", "call", "drain", "recount", "printed"}]
  /\ cmd \in [Operators -> Commands]
  /\ present \in [Operators -> SUBSET Queues]
  /\ before \in [Operators -> Counted]
  /\ removed \in [Operators -> Counted]
  /\ deleted \in [Operators -> [Pending -> SUBSET Jobs]]
  /\ touched \subseteq Operators

NoCommand == CHOOSE c \in Commands : TRUE
NothingDeleted == [b \in Pending |-> {}]

(* Some queues exist, with no jobs in them. *)
Init ==
  /\ known \in SUBSET Queues /\ meant = known
  /\ at = [j \in Jobs |-> "none"]
  /\ paused = {}
  /\ pc = [o \in Operators |-> "shell"]
  /\ cmd = [o \in Operators |-> NoCommand]
  /\ present = [o \in Operators |-> {}]
  /\ before = [o \in Operators |-> NoCounts]
  /\ removed = [o \in Operators |-> NoCounts]
  /\ deleted = [o \in Operators |-> NothingDeleted]
  /\ touched = {}

----------------------------------------------------------------------------
(***************************************************************************)
(* Everybody else (external).                                              *)
(***************************************************************************)

Moves(j, from, to) == at[j] = from /\ at' = [at EXCEPT ![j] = to]

(* Jobs of q were moved while other operators are draining it. *)
Touches(q, others) ==
  touched' = touched \cup {o \in others : pc[o] \in {"drain", "recount"} /\ cmd[o].queue = q}

ProducerAdds(j) ==
  /\ \E b \in Pending : Moves(j, "none", b)
  /\ known' = known \cup {QueueOf[j]} /\ meant' = meant \cup {QueueOf[j]}
  /\ UNCHANGED <<paused, pc, command, touched>>

WorkerTakes(j) ==
  /\ QueueOf[j] \notin paused
  /\ Moves(j, "wait", "active") \/ Moves(j, "prioritized", "active")
  /\ Touches(QueueOf[j], Operators)
  /\ UNCHANGED <<known, paused, pc, command, meant>>

WorkerFinishes(j) ==
  /\ \E b \in {"completed", "failed", "delayed"} : Moves(j, "active", b)
  /\ Touches(QueueOf[j], Operators)
  /\ UNCHANGED <<known, paused, pc, command, meant>>

DelayPasses(j) ==
  /\ Moves(j, "delayed", "wait")
  /\ Touches(QueueOf[j], Operators)
  /\ UNCHANGED <<known, paused, pc, command, meant>>

(* No command of mkqd does this; BullMQ's obliterate does. *)
QueueRemoved(q) ==
  /\ q \in known
  /\ known' = known \ {q} /\ paused' = paused \ {q}
  /\ at' = [j \in Jobs |-> IF QueueOf[j] = q THEN "none" ELSE at[j]]
  /\ Touches(q, Operators)
  /\ UNCHANGED <<pc, command, meant>>

Others ==
  \/ \E j \in Jobs : ProducerAdds(j) \/ WorkerTakes(j) \/ WorkerFinishes(j) \/ DelayPasses(j)
  \/ \E q \in Queues : QueueRemoved(q)

----------------------------------------------------------------------------
(***************************************************************************)
(* The commands.                                                           *)
(***************************************************************************)

Goes(o, to) == pc' = [pc EXCEPT ![o] = to]

(* The command ends, well or with an error, and its memory with it. *)
Ends(o) ==
  /\ Goes(o, "shell")
  /\ cmd' = [cmd EXCEPT ![o] = NoCommand]
  /\ present' = [present EXCEPT ![o] = {}]
  /\ before' = [before EXCEPT ![o] = NoCounts]
  /\ removed' = [removed EXCEPT ![o] = NoCounts]
  /\ deleted' = [deleted EXCEPT ![o] = NothingDeleted]

(* openInspector, for a command line that is not refused: a drain without  *)
(* --yes gets no further.                                                  *)
Open(o) ==
  /\ pc[o] = "shell"
  /\ \E c \in Commands :
       /\ c.name = "drain" => c.sure
       /\ cmd' = [cmd EXCEPT ![o] = c]
  /\ Goes(o, "gate")
  /\ present' = [present EXCEPT ![o] = known]
  /\ UNCHANGED <<redis, before, removed, deleted, meant, touched>>

(* inspector.queue without its check: Define makes the queue. *)
GateOpen(o) ==
  /\ pc[o] = "gate"
  /\ Goes(o, "call")
  /\ known' = known \cup {cmd[o].queue}
  /\ UNCHANGED <<at, paused, command, meant, touched>>

(* inspector.queue, and createQueue for enqueue --create. Define registers *)
(* the queue in Redis, again if it was removed since it was listed; the    *)
(* list is not looked at any more.                                         *)
Gate(o) ==
  LET q == cmd[o].queue
      create == cmd[o].name = "enqueue" /\ cmd[o].sure IN
  /\ pc[o] = "gate"
  /\ IF q \in present[o] \/ create
     THEN /\ Goes(o, "call")
          /\ known' = known \cup {q}
          /\ meant' = IF q \in present[o] THEN meant ELSE meant \cup {q}
          /\ present' = [present EXCEPT ![o] = {}]
          /\ UNCHANGED <<cmd, before, removed, deleted>>
     ELSE Ends(o) /\ UNCHANGED <<known, meant>>
  /\ UNCHANGED <<at, paused, touched>>

Calls(o, name) == pc[o] = "call" /\ cmd[o].name = name

(* An explicit id that is taken adds nothing. *)
Enqueue(o) ==
  LET j == cmd[o].job IN
  /\ Calls(o, "enqueue")
  /\ IF at[j] = "none" THEN Moves(j, "none", cmd[o].to) ELSE UNCHANGED at
  /\ Ends(o)
  /\ UNCHANGED <<known, paused, meant, touched>>

PauseResume(o) ==
  /\ \/ Calls(o, "pause") /\ paused' = paused \cup {cmd[o].queue}
     \/ Calls(o, "resume") /\ paused' = paused \ {cmd[o].queue}
  /\ Ends(o)
  /\ UNCHANGED <<known, at, meant, touched>>

(* withJob: retry, promote and rm; mkq refuses a job in another bucket. *)
WithJob(o) ==
  LET j == cmd[o].job
      ok == QueueOf[j] = cmd[o].queue IN
  /\ \/ Calls(o, "retry") /\ ok /\ Moves(j, cmd[o].from, "wait")
     \/ Calls(o, "promote") /\ ok /\ Moves(j, "delayed", "wait")
     \/ Calls(o, "rm") /\ ok /\ at[j] \notin {"none", "active"} /\ Moves(j, at[j], "none")
  /\ Ends(o)
  /\ Touches(cmd[o].queue, Operators \ {o})
  /\ UNCHANGED <<known, paused, meant>>

(* Drain counts, deletes, and counts again. *)
CountBefore(o) ==
  /\ Calls(o, "drain")
  /\ before' = [before EXCEPT ![o] = Counts(cmd[o].queue)]
  /\ Goes(o, "drain")
  /\ UNCHANGED <<redis, cmd, present, removed, deleted, meant, touched>>

(* DrainPending keeps the delayed jobs unless it was told otherwise, and   *)
(* the next iterations of schedulers even then.                            *)
DrainPending(o) ==
  LET q == cmd[o].queue IN
  /\ pc[o] = "drain"
  /\ \E late \in IF cmd[o].delayed THEN SUBSET In(q, "delayed") ELSE {{}} :
       LET out == [b \in Pending |-> IF b = "delayed" THEN late ELSE In(q, b)] IN
       /\ deleted' = [deleted EXCEPT ![o] = out]
       /\ at' = [j \in Jobs |-> IF \E b \in Pending : j \in out[b] THEN "none" ELSE at[j]]
  /\ Goes(o, "recount")
  /\ Touches(q, Operators \ {o})
  /\ UNCHANGED <<known, paused, cmd, present, before, removed, meant>>

(* A report of what was there before the drain. *)
RecountBefore(o) ==
  /\ pc[o] = "recount"
  /\ removed' = [removed EXCEPT ![o] = before[o]]
  /\ Goes(o, "printed")
  /\ UNCHANGED <<redis, cmd, present, before, deleted, meant, touched>>

(* The report: the positive differences between the two counts. *)
Recount(o) ==
  LET after == Counts(cmd[o].queue) IN
  /\ pc[o] = "recount"
  /\ removed' = [removed EXCEPT ![o] =
        [b \in Pending |-> IF before[o][b] - after[b] > 0 THEN before[o][b] - after[b] ELSE 0]]
  /\ Goes(o, "printed")
  /\ UNCHANGED <<redis, cmd, present, before, deleted, meant, touched>>

(* A call fails, or the command's inspectTimeout is over. *)
Fails(o) ==
  /\ pc[o] \in {"gate", "call", "drain", "recount"}
  /\ Ends(o)
  /\ touched' = touched \ {o}
  /\ UNCHANGED <<redis, meant>>

(* Drain exits; the operator may give another command. *)
Exit(o) ==
  /\ pc[o] = "printed"
  /\ Ends(o)
  /\ touched' = touched \ {o}
  /\ UNCHANGED <<redis, meant>>

Step(o) ==
  \/ Open(o) \/ Gate(o) \/ Enqueue(o) \/ PauseResume(o) \/ WithJob(o)
  \/ CountBefore(o) \/ DrainPending(o) \/ Recount(o)
  \/ Fails(o) \/ Exit(o)

Next == Others \/ \E o \in Operators : Step(o)

Spec == Init /\ [][Next]_vars

----------------------------------------------------------------------------
(***************************************************************************)
(* Properties.                                                             *)
(***************************************************************************)

(* No command leaves a queue behind that nobody ever meant to have: each   *)
(* queue in Redis was there at the start, has had a job added by a         *)
(* producer, or was asked for with enqueue --create (inspector.queue,      *)
(* createQueue). One of these that was removed may come back.              *)
QueuesOnPurpose == known \subseteq meant

(* What drain prints, per bucket, is no more than what it deleted, unless  *)
(* a worker or another operator moved jobs of the queue between its two    *)
(* counts, or somebody removed it: jobs that producers add meanwhile never *)
(* count as removed (cmdDrain).                                            *)
DrainNotOverstated ==
  \A o \in Operators \ touched : pc[o] = "printed" /\ cmd[o].name = "drain" =>
    \A b \in Pending : removed[o][b] <= Cardinality(deleted[o][b])

(* A command trusts its list of queues for as long as it likes: a queue    *)
(* may go away, but somebody has meant to have it.                         *)
Trusts(o) == present[o] \subseteq meant

(* A drain that nobody meddles with finds again, at each step, what its    *)
(* first count has seen: in the queue, or among what it deleted.           *)
Accounts(o) ==
  LET q == cmd[o].queue IN
  o \notin touched => \A b \in Pending :
    /\ pc[o] = "drain" => before[o][b] <= Cardinality(In(q, b))
    /\ pc[o] = "recount" =>
         before[o][b] <= Cardinality(deleted[o][b]) + Cardinality(In(q, b))
    /\ pc[o] = "printed" => removed[o][b] <= Cardinality(deleted[o][b])

(* The inductive form of QueuesOnPurpose and DrainNotOverstated. *)
AdminInv ==
  /\ TypeOK /\ QueuesOnPurpose
  /\ \A o \in Operators : Trusts(o) /\ Accounts(o)

============================================================================
