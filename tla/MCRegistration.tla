--------------------------- MODULE MCRegistration ---------------------------
(* A small instance of module Registration for TLC. *)
EXTENDS Registration, TLC

CONSTANTS a, b

MCBuiltin == [NoTune EXCEPT !["concurrency"] = 2, !["maxStalledCount"] = 1,
                            !["lockDuration"] = 3, !["stalledInterval"] = 3]

Zeros == [f \in Fields |-> IF f = "rateLimit" THEN Unset ELSE 0]

Set(f, n) == [NoTune EXCEPT ![f] = n]

MCCodeTunes == {NoTune, Set("concurrency", 4), Set("rateLimit", 2)}

\* What a block of the file may look like, wrong ones included.
Blocks ==
  [name : {a, b}, tune : {NoTune, Set("concurrency", 1), Set("rateLimit", 1)},
   executor : {"none", "log", "unlinked"}]

WrongBlocks ==
  {[name |-> "", tune |-> NoTune, executor |-> "log"],
   [name |-> a, tune |-> NoTune, executor |-> ""],
   [name |-> a, tune |-> Set("concurrency", 0), executor |-> "log"],
   [name |-> a, tune |-> Set("rateLimit", 0), executor |-> "log"]}

Files == {<<>>} \cup {<<x>> : x \in Blocks \cup WrongBlocks} \cup Blocks \X Blocks

Base == [addrs |-> 1, log |-> "", shutdownTimeout |-> 0, poolSize |-> 0,
         defaults |-> Zeros, queues |-> <<>>]

WrongConfigs ==
  {[Base EXCEPT !.addrs = 0], [Base EXCEPT !.log = "other"],
   [Base EXCEPT !.shutdownTimeout = -1],
   [Base EXCEPT !.defaults = [@ EXCEPT !["concurrency"] = -1]]}

MCConfigs == WrongConfigs \cup
  {[Base EXCEPT !.queues = f, !.poolSize = p] : f \in Files, p \in {0, 4}}

============================================================================
