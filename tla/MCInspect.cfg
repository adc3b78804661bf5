SPECIFICATION InspectSpec
CONSTANTS
  q1 = q1  q2 = q2
  j1 = j1
  o1 = o1  o2 = o2
  Queues = {q1, q2}
  Jobs = {j1}
  QueueOf <- InFirst
  Operators = {o1, o2}
  Nobody = Nobody
  Commands <- EveryCommand
INVARIANTS
  QueuesOnPurpose
  DrainNotOverstated
PROPERTY LookingChangesNothing
SYMMETRY OperatorSymmetry
