------------------------------ MODULE MCAdmin ------------------------------
(* Small instances of module Admin for TLC. *)
EXTENDS Admin, TLC

CONSTANTS q1, q2, j1, o1, o2

\* The first queue has all the jobs, the second none.
InFirst == [j \in Jobs |-> q1]

Line(n, q, j) ==
  [name |-> n, queue |-> q, job |-> j, sure |-> FALSE, delayed |-> FALSE,
   to |-> "wait", from |-> "failed"]
Sure(c) == [c EXCEPT !.sure = TRUE]

\* Every command, on queues that may or may not exist.
EveryCommand ==
  {Line(n, q1, j1) : n \in {"enqueue", "resume", "retry", "promote", "rm", "drain"}}
  \cup {Line("pause", q, j1) : q \in Queues}
  \cup {Sure(Line("enqueue", q1, j1)), [Line("retry", q1, j1) EXCEPT !.from = "completed"]}
  \cup {[Sure(Line("drain", q1, j1)) EXCEPT !.delayed = d] : d \in BOOLEAN}

\* The operators are interchangeable.
OperatorSymmetry == Permutations(Operators)

============================================================================
