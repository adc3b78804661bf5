--------------------------- MODULE InspectProofs ---------------------------
(***************************************************************************)
(* Proofs about modules Admin and Inspect: for any queues, jobs, operators *)
(* and command lines, no command makes a queue by accident, drain reports  *)
(* no more than it deleted, and a command that looks makes no queue, save  *)
(* one that it saw and that was removed.                                   *)
(***************************************************************************)
EXTENDS Inspect, FiniteSetTheorems, TLAPS

(* A set of jobs has a size, and no more members than a larger one. *)
LEMMA Sizes ==
  ASSUME NEW T \in SUBSET Jobs, NEW S \in SUBSET T
  PROVE  /\ IsFiniteSet(S) /\ IsFiniteSet(T)
         /\ Cardinality(S) \in 0..Cardinality(Jobs)
         /\ Cardinality(S) <= Cardinality(T)
<1>1. IsFiniteSet(T)
  BY FS_Subset, AdminAssumption
<1>2. IsFiniteSet(S) /\ Cardinality(S) <= Cardinality(T)
  BY <1>1, FS_Subset
<1>3. S \in SUBSET Jobs
  OBVIOUS
<1>4. Cardinality(S) <= Cardinality(Jobs)
  BY <1>3, FS_Subset, AdminAssumption
<1>5. Cardinality(S) \in Nat /\ Cardinality(Jobs) \in Nat
  BY <1>2, FS_CardinalityType, AdminAssumption
<1> QED
  BY <1>1, <1>2, <1>4, <1>5

(* Jobs that leave a set are as many as it is smaller by. *)
LEMMA Leaving ==
  ASSUME NEW S \in SUBSET Jobs, NEW T \in SUBSET S
  PROVE  Cardinality(S) = Cardinality(T) + Cardinality(S \ T)
<1>1. IsFiniteSet(S) /\ IsFiniteSet(T)
  BY Sizes
<1>2. Cardinality(S \ T) = Cardinality(S) - Cardinality(S \cap T)
  BY <1>1, FS_Difference
<1>3. S \cap T = T
  OBVIOUS
<1>4. Cardinality(S) \in Nat /\ Cardinality(T) \in Nat
  BY <1>1, FS_CardinalityType
<1>5. Cardinality(S \ T) = Cardinality(S) - Cardinality(T)
  BY <1>2, <1>3
<1> QED
  BY <1>4, <1>5

(* The difference that drain reports. *)
LEMMA Difference ==
  ASSUME NEW x \in Int, NEW y \in Nat, NEW z \in Nat, x <= z + y
  PROVE  (IF x - y > 0 THEN x - y ELSE 0) <= z
OBVIOUS

(* There are finitely many jobs, so that a count is a number. *)
LEMMA SizeType == \A S \in SUBSET Jobs : Cardinality(S) \in Nat
<1> SUFFICES ASSUME NEW S \in SUBSET Jobs PROVE Cardinality(S) \in Nat
  OBVIOUS
<1>1. IsFiniteSet(S)
  BY FS_Subset, AdminAssumption
<1> QED
  BY <1>1, FS_CardinalityType

(* A count of a queue is within the number of jobs. *)
LEMMA CountsType == \A q : Counts(q) \in Counted
<1> SUFFICES ASSUME NEW q, NEW b \in Pending
             PROVE  Cardinality(In(q, b)) \in 0..Cardinality(Jobs)
  BY DEF Counts, Counted
<1>1. In(q, b) \in SUBSET Jobs
  BY DEF In
<1> QED
  BY <1>1, Sizes

(* What a command line is. *)
LEMMA CommandType ==
  ASSUME NEW c \in Commands
  PROVE  /\ c.queue \in Queues /\ c.job \in Jobs /\ c.to \in Pending
         /\ c.from \in {"failed", "completed"}
BY AdminAssumption DEF CommandLines

(* An operator between two commands has one of the known values.           *)
LEMMA NoCommandType == NoCommand \in Commands
BY AdminAssumption DEF NoCommand

(* So have the counts and the deletions of a drain that has not begun.     *)
LEMMA EmptyType == NoCounts \in Counted /\ NothingDeleted \in [Pending -> SUBSET Jobs]
<1>1. Cardinality(Jobs) \in Nat
  BY FS_CardinalityType, AdminAssumption
<1> QED
  BY <1>1 DEF NoCounts, Counted, NothingDeleted

(* AdminInv holds before the first command. *)
LEMMA AdminInit == Init => AdminInv
<1> SUFFICES ASSUME Init PROVE AdminInv
  OBVIOUS
<1>1. TypeOK
  BY NoCommandType, EmptyType DEF Init, TypeOK, Buckets
<1> QED
  BY <1>1 DEF Init, AdminInv, QueuesOnPurpose, Trusts, Accounts

----------------------------------------------------------------------------
(***************************************************************************)
(* One step of module Admin.                                               *)
(***************************************************************************)

(* Where a job goes is of no concern to the other queues. *)
LEMMA OtherQueue ==
  ASSUME TypeOK, NEW j \in Jobs, NEW from, NEW to, Moves(j, from, to),
         NEW q, q # QueueOf[j], NEW b
  PROVE  In(q, b)' = In(q, b)
BY DEF TypeOK, Moves, In

(* A job that was not in Redis takes nothing away from any bucket. *)
LEMMA NewJob ==
  ASSUME TypeOK, NEW j \in Jobs, NEW to, Moves(j, "none", to),
         NEW q, NEW b \in Pending
  PROVE  In(q, b) \subseteq In(q, b)'
BY DEF TypeOK, Moves, In, Pending

(* An end of a command keeps the types of its memory. *)
LEMMA EndsType ==
  ASSUME TypeOK, NEW o \in Operators, Ends(o)
  PROVE  /\ pc' \in [Operators -> {"shell", "gate", "call", "drain", "recount", "printed"}]
         /\ cmd' \in [Operators -> Commands]
         /\ present' \in [Operators -> SUBSET Queues]
         /\ before' \in [Operators -> Counted]
         /\ removed' \in [Operators -> Counted]
         /\ deleted' \in [Operators -> [Pending -> SUBSET Jobs]]
BY NoCommandType, EmptyType DEF TypeOK, Ends, Goes

(* A step of somebody else leaves alone what a drain counts on, as long as *)
(* it takes no job from the buckets of its queue or is put down as having  *)
(* touched them.                                                           *)
LEMMA AccountsKept ==
  ASSUME TypeOK, TypeOK', NEW o \in Operators, Accounts(o),
         /\ pc'[o] = pc[o] /\ cmd'[o] = cmd[o] /\ before'[o] = before[o]
         /\ removed'[o] = removed[o] /\ deleted'[o] = deleted[o],
         o \in touched => o \in touched',
         o \notin touched' /\ pc[o] \in {"drain", "recount"} =>
           \A b \in Pending : In(cmd[o].queue, b) \subseteq In(cmd[o].queue, b)'
  PROVE  Accounts(o)'
<1> DEFINE q == cmd[o].queue
<1> SUFFICES ASSUME o \notin touched', NEW b \in Pending
             PROVE  /\ pc[o] = "drain" => before[o][b] <= Cardinality(In(q, b)')
                    /\ pc[o] = "recount" =>
                         before[o][b] <= Cardinality(deleted[o][b]) + Cardinality(In(q, b)')
                    /\ pc[o] = "printed" => removed[o][b] <= Cardinality(deleted[o][b])
  BY DEF Accounts, In
<1>1. /\ before[o][b] \in Int
      /\ deleted[o][b] \in SUBSET Jobs
      /\ In(q, b)' \in SUBSET Jobs /\ In(q, b) \in SUBSET Jobs
  BY DEF TypeOK, Counted, In
<1>2. Cardinality(deleted[o][b]) \in Int /\ Cardinality(In(q, b)) \in Int /\ Cardinality(In(q, b)') \in Int
  BY <1>1, Sizes
<1>3. pc[o] \in {"drain", "recount"} => Cardinality(In(q, b)) <= Cardinality(In(q, b)')
  BY <1>1, Sizes
<1> QED
  BY <1>1, <1>2, <1>3 DEF Accounts

(* The same for the list of queues: it was meant once and for all. *)
LEMMA OthersKept ==
  ASSUME AdminInv, TypeOK', meant \subseteq meant', NEW o \in Operators,
         /\ pc'[o] = pc[o] /\ cmd'[o] = cmd[o] /\ present'[o] = present[o]
         /\ before'[o] = before[o] /\ removed'[o] = removed[o] /\ deleted'[o] = deleted[o],
         o \in touched => o \in touched',
         o \notin touched' /\ pc[o] \in {"drain", "recount"} =>
           \A b \in Pending : In(cmd[o].queue, b) \subseteq In(cmd[o].queue, b)'
  PROVE  Trusts(o)' /\ Accounts(o)'
<1>1. TypeOK /\ Trusts(o) /\ Accounts(o)
  BY DEF AdminInv
<1>2. Accounts(o)'
  BY <1>1, AccountsKept
<1> QED
  BY <1>1, <1>2 DEF Trusts

(* Producers, workers and the passing of time. *)
LEMMA ElsewhereStep ==
  ASSUME AdminInv, NEW j \in Jobs,
         ProducerAdds(j) \/ WorkerTakes(j) \/ WorkerFinishes(j) \/ DelayPasses(j)
  PROVE  AdminInv'
<1>t. TypeOK
  BY DEF AdminInv
<1>q. QueueOf[j] \in Queues
  BY AdminAssumption
<1>1. CASE ProducerAdds(j)
  <2>1. PICK b \in Pending : Moves(j, "none", b)
    BY <1>1 DEF ProducerAdds
  <2>2. TypeOK' /\ QueuesOnPurpose'
    BY <1>1, <1>t, <1>q, <2>1 DEF ProducerAdds, Moves, command, AdminInv, TypeOK, QueuesOnPurpose, Pending, Buckets
  <2>3. \A q, c : c \in Pending => In(q, c) \subseteq In(q, c)'
    BY <1>t, <2>1, NewJob
  <2>4. ASSUME NEW o \in Operators PROVE Trusts(o)' /\ Accounts(o)'
    <3>1. /\ meant \subseteq meant' /\ UNCHANGED <<pc, command, touched>>
      BY <1>1 DEF ProducerAdds
    <3> QED
      BY <2>2, <2>3, <3>1, OthersKept DEF command
  <2> QED
    BY <2>2, <2>4 DEF AdminInv
<1>2. CASE WorkerTakes(j) \/ WorkerFinishes(j) \/ DelayPasses(j)
  <2>1. /\ UNCHANGED <<known, paused, pc, command, meant>>
        /\ Touches(QueueOf[j], Operators)
        /\ \E from, to \in Buckets : Moves(j, from, to)
    BY <1>2 DEF WorkerTakes, WorkerFinishes, DelayPasses, Buckets
  <2>2. PICK from, to \in Buckets : Moves(j, from, to)
    BY <2>1
  <2>3. TypeOK' /\ QueuesOnPurpose'
    BY <1>t, <2>1, <2>2 DEF Moves, Touches, command, AdminInv, TypeOK, QueuesOnPurpose
  <2>4. ASSUME NEW o \in Operators PROVE Trusts(o)' /\ Accounts(o)'
    <3>1. o \in touched => o \in touched'
      BY <2>1 DEF Touches
    <3>2. ASSUME o \notin touched', pc[o] \in {"drain", "recount"}, NEW b \in Pending
          PROVE  In(cmd[o].queue, b) \subseteq In(cmd[o].queue, b)'
      <4>1. cmd[o].queue # QueueOf[j]
        BY <2>1, <3>2 DEF Touches
      <4>2. \A q : q # QueueOf[j] => In(q, b)' = In(q, b)
        BY <1>t, <2>2, OtherQueue
      <4> QED
        BY <2>1, <4>1, <4>2 DEF command
    <3> QED
      BY <2>1, <2>3, <3>1, <3>2, OthersKept DEF command
  <2> QED
    BY <2>3, <2>4 DEF AdminInv
<1> QED
  BY <1>1, <1>2

(* A queue that is removed goes with its jobs, and every drain of it was   *)
(* meddled with.                                                           *)
LEMMA RemovalStep ==
  ASSUME AdminInv, NEW q \in Queues, QueueRemoved(q)
  PROVE  AdminInv'
<1>t. TypeOK /\ QueuesOnPurpose
  BY DEF AdminInv
<1>1. /\ known' = known \ {q} /\ paused' = paused \ {q}
      /\ at' = [j \in Jobs |-> IF QueueOf[j] = q THEN "none" ELSE at[j]]
      /\ Touches(q, Operators) /\ UNCHANGED <<pc, command, meant>>
  BY DEF QueueRemoved
<1>2. TypeOK' /\ QueuesOnPurpose'
  BY <1>t, <1>1 DEF Touches, command, TypeOK, QueuesOnPurpose, Buckets
<1>3. ASSUME NEW o \in Operators PROVE Trusts(o)' /\ Accounts(o)'
  <2>1. o \in touched => o \in touched'
    BY <1>1 DEF Touches
  <2>2. ASSUME o \notin touched', pc[o] \in {"drain", "recount"}, NEW b \in Pending
        PROVE  In(cmd[o].queue, b) \subseteq In(cmd[o].queue, b)'
    <3>1. cmd[o].queue # q /\ cmd' = cmd
      BY <1>1, <2>2 DEF Touches, command
    <3>2. \A r : r # q => In(r, b) \subseteq In(r, b)'
      BY <1>t, <1>1 DEF In, TypeOK
    <3> QED
      BY <3>1, <3>2
  <2> QED
    BY <1>1, <1>2, <2>1, <2>2, OthersKept DEF command
<1> QED
  BY <1>2, <1>3 DEF AdminInv

(* A command that ends leaves nothing to account for. *)
LEMMA EndsKeeps ==
  ASSUME TypeOK, NEW o \in Operators, Ends(o)
  PROVE  /\ Trusts(o)' /\ Accounts(o)'
         /\ \A p \in Operators \ {o} :
              /\ pc'[p] = pc[p] /\ cmd'[p] = cmd[p] /\ present'[p] = present[p]
              /\ before'[p] = before[p] /\ removed'[p] = removed[p] /\ deleted'[p] = deleted[p]
<1>1. pc'[o] = "shell" /\ present'[o] = {}
  BY DEF TypeOK, Ends, Goes
<1> QED
  BY <1>1 DEF TypeOK, Ends, Goes, Trusts, Accounts

(* The steps of a command before and beside the call that it makes. *)
LEMMA GateStep ==
  ASSUME AdminInv, NEW o \in Operators,
         Open(o) \/ Gate(o) \/ PauseResume(o) \/ Fails(o) \/ Exit(o)
  PROVE  AdminInv'
<1>t. TypeOK /\ QueuesOnPurpose /\ Trusts(o)
  BY DEF AdminInv
<1>c. cmd[o] \in Commands /\ cmd[o].queue \in Queues
  BY <1>t, CommandType DEF TypeOK
<1>a. \A q, b : UNCHANGED at => In(q, b)' = In(q, b)
  BY DEF In
<1>1. CASE Open(o)
  <2>1. PICK c \in Commands : cmd' = [cmd EXCEPT ![o] = c]
    BY <1>1 DEF Open
  <2>2. TypeOK' /\ QueuesOnPurpose'
    BY <1>1, <1>t, <2>1 DEF Open, Goes, redis, TypeOK, QueuesOnPurpose
  <2>3. Trusts(o)' /\ Accounts(o)'
    <3>1. pc'[o] = "gate" /\ present'[o] = known /\ UNCHANGED meant
      BY <1>1, <1>t DEF Open, Goes, redis, TypeOK
    <3> QED
      BY <1>t, <3>1 DEF QueuesOnPurpose, Trusts, Accounts
  <2>4. ASSUME NEW p \in Operators \ {o} PROVE Trusts(p)' /\ Accounts(p)'
    <3>1. /\ pc'[p] = pc[p] /\ cmd'[p] = cmd[p] /\ present'[p] = present[p]
          /\ UNCHANGED <<meant, at, before, removed, deleted, touched>>
      BY <1>1, <1>t, <2>1 DEF Open, Goes, redis, TypeOK
    <3> QED
      BY <1>a, <2>2, <3>1, OthersKept
  <2> QED
    BY <2>2, <2>3, <2>4 DEF AdminInv
<1>2. CASE Gate(o) /\ ~Ends(o)
  <2>1. /\ pc[o] = "gate" /\ Goes(o, "call") /\ known' = known \cup {cmd[o].queue}
        /\ meant' = IF cmd[o].queue \in present[o] THEN meant ELSE meant \cup {cmd[o].queue}
        /\ present' = [present EXCEPT ![o] = {}]
        /\ UNCHANGED <<cmd, before, removed, deleted, at, paused, touched>>
    BY <1>2 DEF Gate
  <2>2. TypeOK' /\ QueuesOnPurpose'
    BY <1>t, <1>c, <2>1 DEF Goes, TypeOK, QueuesOnPurpose, Trusts
  <2>3. Trusts(o)' /\ Accounts(o)'
    <3>1. pc'[o] = "call" /\ present'[o] = {}
      BY <1>t, <2>1 DEF Goes, TypeOK
    <3> QED
      BY <3>1 DEF Trusts, Accounts
  <2>4. ASSUME NEW p \in Operators \ {o} PROVE Trusts(p)' /\ Accounts(p)'
    <3>1. pc'[p] = pc[p] /\ present'[p] = present[p] /\ meant \subseteq meant'
      BY <1>t, <2>1 DEF Goes, TypeOK
    <3> QED
      BY <1>a, <2>1, <2>2, <3>1, OthersKept
  <2> QED
    BY <2>2, <2>3, <2>4 DEF AdminInv
<1>3. CASE Ends(o) /\ (Gate(o) \/ PauseResume(o) \/ Fails(o) \/ Exit(o))
  <2>1. /\ UNCHANGED <<known, at, meant>> /\ paused' \subseteq Queues
        /\ touched' \subseteq Operators /\ touched \ {o} \subseteq touched'
    <3>1. CASE PauseResume(o)
      BY <3>1, <1>t, <1>c DEF PauseResume, Calls, TypeOK
    <3>2. CASE Fails(o) \/ Exit(o)
      BY <3>2, <1>t DEF Fails, Exit, redis, TypeOK
    <3>3. CASE Gate(o)
      <4>1. pc'[o] = "shell"
        BY <1>3, <1>t DEF Ends, Goes, TypeOK
      <4>2. ~Goes(o, "call")
        BY <4>1, <1>t DEF Goes, TypeOK
      <4> QED
        BY <3>3, <4>2, <1>t DEF Gate, TypeOK
    <3> QED
      BY <1>3, <3>1, <3>2, <3>3
  <2>2. TypeOK' /\ QueuesOnPurpose'
    BY <1>3, <1>t, <2>1, EndsType DEF TypeOK, QueuesOnPurpose
  <2>3. ASSUME NEW p \in Operators \ {o} PROVE Trusts(p)' /\ Accounts(p)'
    <3>1. /\ pc'[p] = pc[p] /\ cmd'[p] = cmd[p] /\ present'[p] = present[p]
          /\ before'[p] = before[p] /\ removed'[p] = removed[p] /\ deleted'[p] = deleted[p]
      BY <1>3, <1>t, EndsKeeps
    <3>2. \A q, b : In(q, b)' = In(q, b)
      BY <1>a, <2>1
    <3> QED
      BY <2>1, <2>2, <3>1, <3>2, OthersKept
  <2> QED
    BY <1>3, <1>t, <2>2, <2>3, EndsKeeps DEF AdminInv
<1> QED
  BY <1>1, <1>2, <1>3 DEF Gate, PauseResume, Fails, Exit

(* The calls that move one job. *)
LEMMA JobStep ==
  ASSUME AdminInv, NEW o \in Operators, Enqueue(o) \/ WithJob(o)
  PROVE  AdminInv'
<1>t. TypeOK /\ QueuesOnPurpose
  BY DEF AdminInv
<1> DEFINE j == cmd[o].job
<1>c. cmd[o] \in Commands /\ j \in Jobs /\ cmd[o].to \in Pending /\ cmd[o].from \in {"failed", "completed"}
  BY <1>t, CommandType DEF TypeOK
<1>e. Ends(o) /\ UNCHANGED <<known, paused, meant>>
  BY DEF Enqueue, WithJob
<1>1. CASE Enqueue(o)
  <2>1. TypeOK' /\ QueuesOnPurpose'
    BY <1>1, <1>t, <1>c, <1>e, EndsType DEF Enqueue, Moves, TypeOK, QueuesOnPurpose, Pending, Buckets
  <2>2. \A q, b : b \in Pending => In(q, b) \subseteq In(q, b)'
    <3>1. CASE Moves(j, "none", cmd[o].to)
      BY <1>t, <1>c, <3>1, NewJob
    <3>2. CASE UNCHANGED at
      BY <3>2 DEF In
    <3> QED
      BY <1>1, <3>1, <3>2 DEF Enqueue
  <2>3. ASSUME NEW p \in Operators \ {o} PROVE Trusts(p)' /\ Accounts(p)'
    <3>1. UNCHANGED touched
      BY <1>1 DEF Enqueue
    <3> QED
      BY <1>t, <1>e, <2>1, <2>2, <3>1, EndsKeeps, OthersKept
  <2> QED
    BY <1>t, <1>e, <2>1, <2>3, EndsKeeps DEF AdminInv
<1>2. CASE WithJob(o)
  <2>1. /\ QueueOf[j] = cmd[o].queue /\ Touches(cmd[o].queue, Operators \ {o})
        /\ \E from, to \in Buckets : Moves(j, from, to)
    BY <1>2, <1>t, <1>c DEF WithJob, Calls, TypeOK, Buckets
  <2>2. PICK from, to \in Buckets : Moves(j, from, to)
    BY <2>1
  <2>3. TypeOK' /\ QueuesOnPurpose'
    BY <1>t, <1>c, <1>e, <2>1, <2>2, EndsType DEF Touches, Moves, TypeOK, QueuesOnPurpose
  <2>4. ASSUME NEW p \in Operators \ {o} PROVE Trusts(p)' /\ Accounts(p)'
    <3>1. p \in touched => p \in touched'
      BY <2>1 DEF Touches
    <3>2. ASSUME p \notin touched', pc[p] \in {"drain", "recount"}, NEW b \in Pending
          PROVE  In(cmd[p].queue, b) \subseteq In(cmd[p].queue, b)'
      <4>1. cmd[p].queue # QueueOf[j]
        BY <2>1, <3>2 DEF Touches
      <4>2. \A q : q # QueueOf[j] => In(q, b)' = In(q, b)
        BY <1>t, <1>c, <2>2, OtherQueue
      <4> QED
        BY <1>t, <1>e, <4>1, <4>2, EndsKeeps
    <3> QED
      BY <1>t, <1>e, <2>3, <3>1, <3>2, EndsKeeps, OthersKept
  <2> QED
    BY <1>t, <1>e, <2>3, <2>4, EndsKeeps DEF AdminInv
<1> QED
  BY <1>1, <1>2

(* The three calls of drain: each accounts for what the one before it left. *)
LEMMA DrainStep ==
  ASSUME AdminInv, NEW o \in Operators, CountBefore(o) \/ DrainPending(o) \/ Recount(o)
  PROVE  AdminInv'
<1>t. TypeOK /\ QueuesOnPurpose /\ Trusts(o) /\ Accounts(o)
  BY DEF AdminInv
<1> DEFINE q == cmd[o].queue
<1>a. \A r, b : UNCHANGED at => In(r, b)' = In(r, b)
  BY DEF In
<1>i. \A r, b : In(r, b) \in SUBSET Jobs /\ Cardinality(In(r, b)) \in Nat
  <2>1. \A r, b : In(r, b) \in SUBSET Jobs
    BY DEF In
  <2> QED
    BY <2>1, SizeType
<1>1. CASE CountBefore(o)
  <2>1. TypeOK' /\ QueuesOnPurpose'
    BY <1>1, <1>t, CountsType DEF CountBefore, Goes, redis, TypeOK, QueuesOnPurpose
  <2>2. /\ pc[o] = "call" /\ pc'[o] = "drain" /\ before'[o] = Counts(q)
        /\ UNCHANGED <<redis, cmd, present, meant>>
    BY <1>1, <1>t DEF CountBefore, Calls, Goes, TypeOK
  <2>3. Trusts(o)'
    BY <1>t, <2>2 DEF Trusts
  <2>4. Accounts(o)'
    <3>1. ASSUME NEW b \in Pending PROVE before'[o][b] <= Cardinality(In(q, b)')
      <4>1. In(q, b)' = In(q, b) /\ before'[o][b] = Cardinality(In(q, b))
        BY <1>a, <2>2 DEF Counts, redis
      <4> QED
        BY <1>i, <4>1
    <3> QED
      BY <2>2, <3>1 DEF Accounts, In
  <2>5. ASSUME NEW p \in Operators \ {o} PROVE Trusts(p)' /\ Accounts(p)'
    <3>1. /\ pc'[p] = pc[p] /\ before'[p] = before[p]
          /\ UNCHANGED <<meant, at, cmd, present, removed, deleted, touched>>
      BY <1>1, <1>t DEF CountBefore, Goes, redis, TypeOK
    <3> QED
      BY <1>a, <2>1, <3>1, OthersKept
  <2> QED
    BY <2>1, <2>3, <2>4, <2>5 DEF AdminInv
<1>2. CASE Recount(o)
  <2> DEFINE d(b) == before[o][b] - Counts(q)[b]
             out == [b \in Pending |-> IF d(b) > 0 THEN d(b) ELSE 0]
  <2>0. removed' = [removed EXCEPT ![o] = out] /\ Goes(o, "printed") /\ pc[o] = "recount"
    BY <1>2 DEF Recount
  <2>1. before[o] \in Counted /\ Counts(q) \in Counted /\ Cardinality(Jobs) \in Nat
    BY <1>t, CountsType, FS_CardinalityType, AdminAssumption DEF TypeOK
  <2>2. out \in Counted
    BY <2>1 DEF Counted
  <2>3. TypeOK' /\ QueuesOnPurpose'
    <3> HIDE DEF out
    <3>1. UNCHANGED <<known, at, paused, cmd, present, before, deleted, meant, touched>>
      BY <1>2 DEF Recount, redis
    <3>2. /\ pc' \in [Operators -> {"shell", "gate", "call", "drain", "recount", "printed"}]
          /\ removed' \in [Operators -> Counted]
      BY <1>t, <2>0, <2>2 DEF Goes, TypeOK
    <3> QED
      BY <1>t, <3>1, <3>2 DEF TypeOK, QueuesOnPurpose
  <2>4. pc'[o] = "printed" /\ removed'[o] = out /\ UNCHANGED <<cmd, present, deleted, meant, touched>>
    <3> HIDE DEF out
    <3> QED
      BY <1>2, <1>t, <2>0 DEF Recount, Goes, TypeOK
  <2>5. Trusts(o)'
    BY <1>t, <2>4 DEF Trusts
  <2>6. Accounts(o)'
    <3> SUFFICES ASSUME o \notin touched, NEW b \in Pending
                 PROVE  out[b] <= Cardinality(deleted[o][b])
      BY <2>4 DEF Accounts
    <3>1. before[o][b] <= Cardinality(deleted[o][b]) + Cardinality(In(q, b))
      BY <1>t, <2>0 DEF Accounts
    <3>2. deleted[o][b] \in SUBSET Jobs
      BY <1>t DEF TypeOK
    <3>3. Cardinality(deleted[o][b]) \in Nat /\ Cardinality(In(q, b)) \in Nat
      BY <1>i, <3>2, SizeType
    <3>4. before[o][b] \in Int
      BY <2>1 DEF Counted
    <3>5. out[b] = IF before[o][b] - Cardinality(In(q, b)) > 0
                   THEN before[o][b] - Cardinality(In(q, b)) ELSE 0
      BY DEF Counts
    <3> HIDE DEF out
    <3> QED
      BY <3>1, <3>3, <3>4, <3>5, Difference
  <2>7. ASSUME NEW p \in Operators \ {o} PROVE Trusts(p)' /\ Accounts(p)'
    <3>1. /\ pc'[p] = pc[p] /\ removed'[p] = removed[p]
          /\ UNCHANGED <<meant, at, cmd, present, before, deleted, touched>>
      <4> HIDE DEF out
      <4> QED
        BY <1>2, <1>t, <2>0 DEF Recount, Goes, redis, TypeOK
    <3> QED
      BY <1>a, <2>3, <3>1, OthersKept
  <2> QED
    BY <2>3, <2>5, <2>6, <2>7 DEF AdminInv
<1>3. CASE DrainPending(o)
  <2>0. PICK late \in (IF cmd[o].delayed THEN SUBSET In(q, "delayed") ELSE {{}}) :
          LET out == [b \in Pending |-> IF b = "delayed" THEN late ELSE In(q, b)] IN
          /\ deleted' = [deleted EXCEPT ![o] = out]
          /\ at' = [j \in Jobs |-> IF \E b \in Pending : j \in out[b] THEN "none" ELSE at[j]]
    BY <1>3 DEF DrainPending
  <2> DEFINE out == [b \in Pending |-> IF b = "delayed" THEN late ELSE In(q, b)]
  <2>1. \A b \in Pending : out[b] \in SUBSET In(q, b)
    BY <2>0
  <2>2. out \in [Pending -> SUBSET Jobs]
    BY <1>i, <2>1
  <2>3. /\ deleted' = [deleted EXCEPT ![o] = out]
        /\ at' = [j \in Jobs |-> IF \E b \in Pending : j \in out[b] THEN "none" ELSE at[j]]
    BY <2>0
  <2> HIDE DEF out
  <2>4. /\ pc[o] = "drain" /\ Goes(o, "recount") /\ Touches(q, Operators \ {o})
        /\ UNCHANGED <<known, paused, cmd, present, before, removed, meant>>
    BY <1>3 DEF DrainPending
  <2>5. TypeOK' /\ QueuesOnPurpose'
    BY <1>t, <2>2, <2>3, <2>4 DEF Goes, Touches, TypeOK, QueuesOnPurpose, Buckets
  <2>6. pc'[o] = "recount" /\ deleted'[o] = out
    BY <1>t, <2>3, <2>4 DEF Goes, TypeOK
  <2>7. Trusts(o)'
    BY <1>t, <2>4 DEF Trusts
  <2>8. ASSUME NEW b \in Pending PROVE In(q, b)' = In(q, b) \ out[b]
    <3>1. q' = q
      BY <2>4
    <3>2. \A c \in Pending : out[c] \subseteq {j \in Jobs : QueueOf[j] = q /\ at[j] = c}
      BY <2>1 DEF In
    <3> QED
      BY <1>t, <2>3, <3>1, <3>2 DEF In, Pending, TypeOK
  <2>9. Accounts(o)'
    <3> SUFFICES ASSUME o \notin touched, NEW b \in Pending
                 PROVE  before[o][b] <= Cardinality(out[b]) + Cardinality(In(q, b)')
      BY <2>4, <2>6 DEF Accounts, Touches
    <3>1. before[o][b] <= Cardinality(In(q, b))
      BY <1>t, <2>4 DEF Accounts
    <3>2. Cardinality(In(q, b)) = Cardinality(out[b]) + Cardinality(In(q, b) \ out[b])
      BY <1>i, <2>1, Leaving
    <3>3. Cardinality(In(q, b)') = Cardinality(In(q, b) \ out[b])
      BY <2>8
    <3> QED
      BY <3>1, <3>2, <3>3
  <2>10. ASSUME NEW p \in Operators \ {o} PROVE Trusts(p)' /\ Accounts(p)'
    <3>1. /\ pc'[p] = pc[p] /\ deleted'[p] = deleted[p] /\ (p \in touched => p \in touched')
      BY <1>t, <2>3, <2>4 DEF Goes, Touches, TypeOK
    <3>2. ASSUME p \notin touched', pc[p] \in {"drain", "recount"}, NEW b \in Pending
          PROVE  In(cmd[p].queue, b) \subseteq In(cmd[p].queue, b)'
      <4>1. cmd[p].queue # q
        BY <2>4, <3>2 DEF Touches
      <4>2. \A r : r # q => In(r, b) \subseteq In(r, b)'
        BY <1>t, <2>1, <2>3 DEF In, TypeOK
      <4> QED
        BY <2>4, <4>1, <4>2
    <3> QED
      BY <2>4, <2>5, <3>1, <3>2, OthersKept
  <2> QED
    BY <2>5, <2>7, <2>9, <2>10 DEF AdminInv
<1> QED
  BY <1>1, <1>2, <1>3

(* Every step of an operator, a producer or a worker keeps AdminInv.       *)
LEMMA AdminStep == AdminInv /\ [Next]_vars => AdminInv'
<1> SUFFICES ASSUME AdminInv, [Next]_vars PROVE AdminInv'
  OBVIOUS
<1>1. CASE \E o \in Operators : Step(o)
  BY <1>1, GateStep, JobStep, DrainStep DEF Step
<1>2. CASE Others
  BY <1>2, ElsewhereStep, RemovalStep DEF Others
<1>3. CASE UNCHANGED vars
  <2>1. UNCHANGED <<known, at, paused, pc, cmd, present, before, removed, deleted, meant, touched>>
    BY <1>3 DEF vars, redis, command
  <2>2. TypeOK' /\ QueuesOnPurpose'
    BY <2>1 DEF AdminInv, TypeOK, QueuesOnPurpose
  <2>3. \A q, b : In(q, b)' = In(q, b)
    BY <2>1 DEF In
  <2> QED
    BY <2>1, <2>2, <2>3, OthersKept DEF AdminInv
<1> QED
  BY <1>1, <1>2, <1>3 DEF Next

----------------------------------------------------------------------------
(***************************************************************************)
(* The looking commands.                                                   *)
(***************************************************************************)

(* What a looking command has in hand: each queue that it found listed was *)
(* meant to be, and is still there unless it was removed.                  *)
ViewInv == view.listed \subseteq meant /\ view.listed \subseteq known \cup view.gone

ViewType ==
  view \in [by : Operators \cup {Nobody}, name : {"none", "queues", "counts", "list", "job"},
            todo : SUBSET Queues, listed : SUBSET Queues, gone : SUBSET Queues,
            step : {"none", "next", "call", "status", "logs"}, queue : Queues \cup {Nobody}]

InspectInv == AdminInv /\ ViewType /\ ViewInv

(* What was meant stays so. *)
LEMMA MeantStays == [Next]_vars => meant \subseteq meant'
BY DEF Next, Others, Step, vars, Open, Gate, Enqueue, PauseResume, WithJob, CountBefore,
       DrainPending, Recount, Fails, Exit, ProducerAdds, WorkerTakes, WorkerFinishes,
       DelayPasses, QueueRemoved

(* All that a step of a command that looks can do to module Admin. *)
Looked ==
  /\ known \subseteq known' /\ known' \subseteq known \cup view.gone
  /\ known' \subseteq known \cup view.listed
  /\ UNCHANGED <<at, paused, pc, command, meant, touched>>

(* Every step is one of module Admin or does no more than that. *)
LEMMA LookStep ==
  ASSUME InspectInv, [InspectNext]_inspectVars
  PROVE  Meanwhile \/ Looked
<1>1. CASE DefineListed
  BY <1>1 DEF DefineListed, Opens, InspectInv, ViewInv, Looked
<1>2. CASE UNCHANGED vars
  BY <1>2 DEF vars, redis, Looked
<1> QED
  BY <1>1, <1>2 DEF InspectNext, inspectVars, OpenView, ReadCounts, ReadStatus, ReadJob, ReadLast, EndView

(* It keeps AdminInv. *)
LEMMA LookedKeeps ==
  ASSUME InspectInv, Looked PROVE AdminInv'
<1>t. TypeOK /\ QueuesOnPurpose /\ view.listed \subseteq meant
  BY DEF InspectInv, AdminInv, ViewInv
<1>1. TypeOK' /\ QueuesOnPurpose'
  BY <1>t DEF Looked, command, TypeOK, QueuesOnPurpose
<1>2. \A q, b : In(q, b)' = In(q, b)
  BY DEF Looked, In
<1> QED
  BY <1>1, <1>2, OthersKept DEF InspectInv, AdminInv, Looked, command

(* InspectInv holds before the first command that looks. *)
LEMMA InspectStart == InspectInit => InspectInv
<1> SUFFICES ASSUME InspectInit PROVE InspectInv
  OBVIOUS
<1>1. AdminInv
  BY AdminInit DEF InspectInit
<1>2. ViewType /\ ViewInv
  BY DEF InspectInit, NoView, ViewType, ViewInv
<1> QED
  BY <1>1, <1>2 DEF InspectInv

(* The steps of the command that looks. *)
LEMMA ViewStep ==
  ASSUME InspectInv, Looked,
         \/ \E o \in Operators : OpenView(o)
         \/ DefineListed \/ ReadCounts \/ ReadStatus \/ ReadJob \/ ReadLast \/ EndView
         \/ UNCHANGED view
  PROVE  ViewType' /\ ViewInv'
<1>t. ViewType /\ ViewInv /\ TypeOK /\ QueuesOnPurpose
  BY DEF InspectInv, AdminInv
<1>u. known \subseteq known' /\ meant' = meant
  BY DEF Looked
<1>n. ASSUME view' = NoView PROVE ViewType' /\ ViewInv'
  BY <1>n DEF NoView, ViewType, ViewInv
<1>1. ASSUME NEW o \in Operators, OpenView(o) PROVE ViewType' /\ ViewInv'
  <2>1. PICK name \in {"queues", "counts", "list", "job"}, names \in SUBSET Queues :
          view' = [NoView EXCEPT !.by = o, !.name = name, !.step = "next",
                                 !.todo = names, !.listed = known]
    BY <1>1 DEF OpenView
  <2>2. known \in SUBSET Queues /\ known \subseteq meant
    BY <1>t DEF TypeOK, QueuesOnPurpose
  <2> QED
    BY <1>u, <2>1, <2>2 DEF NoView, ViewType, ViewInv
<1>2. CASE DefineListed
  <2>1. ASSUME NEW q \in view.todo, Opens(q) PROVE ViewType' /\ ViewInv'
    BY <1>t, <1>u, <2>1 DEF Opens, ViewType, ViewInv
  <2> QED
    BY <1>2, <1>n, <2>1 DEF DefineListed
<1>3. CASE ReadCounts \/ ReadStatus
  BY <1>t, <1>u, <1>3 DEF ReadCounts, ReadStatus, ViewType, ViewInv
<1>4. CASE ReadJob
  <2>1. CASE view' = [view EXCEPT !.step = "logs"]
    BY <2>1, <1>t, <1>u DEF ViewType, ViewInv
  <2> QED
    BY <1>4, <1>n, <2>1 DEF ReadJob
<1>5. CASE ReadLast \/ EndView
  BY <1>5, <1>n DEF ReadLast, EndView
<1>6. CASE UNCHANGED view
  BY <1>6, <1>t, <1>u DEF ViewType, ViewInv
<1> QED
  BY <1>1, <1>2, <1>3, <1>4, <1>5, <1>6

(* Every step, of a command that looks or of another, keeps InspectInv.    *)
LEMMA InspectStep == InspectInv /\ [InspectNext]_inspectVars => InspectInv'
<1> SUFFICES ASSUME InspectInv, [InspectNext]_inspectVars PROVE InspectInv'
  OBVIOUS
<1>t. AdminInv /\ ViewType /\ ViewInv
  BY DEF InspectInv
<1>1. CASE Meanwhile
  <2>1. Next
    BY <1>1 DEF Meanwhile, Next
  <2>2. AdminInv' /\ meant \subseteq meant'
    BY <1>t, <2>1, AdminStep, MeantStays
  <2>3. view' = [view EXCEPT !.gone = @ \cup (view.listed \cap (known \ known'))]
    BY <1>1 DEF Meanwhile
  <2> QED
    BY <1>t, <2>2, <2>3 DEF ViewType, ViewInv, InspectInv
<1>2. CASE ~Meanwhile
  <2>1. Looked
    BY <1>2, LookStep
  <2>2. AdminInv'
    BY <2>1, LookedKeeps
  <2>3. ViewType' /\ ViewInv'
    BY <1>2, <2>1, ViewStep DEF InspectNext, inspectVars
  <2> QED
    BY <2>2, <2>3 DEF InspectInv
<1> QED
  BY <1>1, <1>2

----------------------------------------------------------------------------
(* The inductive invariant of all commands, for any number of operators,   *)
(* queues and jobs and any command lines.                                  *)
THEOREM InspectInvariant == InspectSpec => []InspectInv
<1>1. InspectInit => InspectInv
  BY InspectStart
<1>2. InspectInv /\ [InspectNext]_inspectVars => InspectInv'
  BY InspectStep
<1> QED
  BY <1>1, <1>2, PTL DEF InspectSpec

(* No command leaves a queue behind that nobody ever meant to have. *)
THEOREM OnPurpose == InspectSpec => []QueuesOnPurpose
<1>1. InspectInv => QueuesOnPurpose
  BY DEF InspectInv, AdminInv
<1> QED
  BY <1>1, InspectInvariant, PTL

(* Drain reports no more than it deleted, whatever producers add, as long  *)
(* as no worker and no other operator moves jobs of its queue.             *)
THEOREM NotOverstated == InspectSpec => []DrainNotOverstated
<1>1. InspectInv => DrainNotOverstated
  BY DEF InspectInv, AdminInv, Accounts, DrainNotOverstated
<1> QED
  BY <1>1, InspectInvariant, PTL

(* A command that looks changes nothing in Redis, other than to register a *)
(* queue again that was removed after it was listed (inspector.queue).     *)
THEOREM LooksOnly == InspectSpec => LookingChangesNothing
<1>1. InspectInv /\ [InspectNext]_inspectVars =>
        [view'.step # view.step =>
           /\ UNCHANGED <<at, paused>>
           /\ known \subseteq known' /\ known' \subseteq known \cup view.gone]_inspectVars
  <2> SUFFICES ASSUME InspectInv, [InspectNext]_inspectVars, view'.step # view.step
               PROVE  /\ UNCHANGED <<at, paused>>
                      /\ known \subseteq known' /\ known' \subseteq known \cup view.gone
    OBVIOUS
  <2>1. CASE Meanwhile
    BY <2>1 DEF Meanwhile, InspectInv, ViewType
  <2> QED
    BY <2>1, LookStep DEF Looked
<1> QED
  BY <1>1, InspectInvariant, PTL DEF InspectSpec, LookingChangesNothing

=============================================================================
