----------------------------- MODULE RetryAfter -----------------------------
(***************************************************************************)
(* How long a server's Retry-After makes a job wait (retry_after.go).      *)
(*                                                                         *)
(* A duration is an int64 of nanoseconds; here it is an integer of the     *)
(* width MaxInt gives it, a second is Second units, and every product is   *)
(* taken in that width. A header is a record: its form, and the number of  *)
(* seconds (delta-seconds) or the second of the clock (HTTP-date) it says. *)
(***************************************************************************)
EXTENDS Integers

CONSTANTS
  MaxInt,        \* math.MaxInt64
  Second,        \* time.Second
  maxRetryAfter  \* the cap on a delay

ASSUME RetryAfterAssumption ==
  /\ MaxInt \in Nat /\ Second \in Nat \ {0} /\ maxRetryAfter \in Nat
  /\ Second <= MaxInt /\ maxRetryAfter <= MaxInt

MinInt == -MaxInt - 1
Durations == MinInt..MaxInt

(* Two's complement arithmetic, and the saturating one of time.Time.Sub. *)
Wrap(x) == ((x - MinInt) % (2 * MaxInt + 2)) + MinInt
Saturate(x) == IF x > MaxInt THEN MaxInt ELSE IF x < MinInt THEN MinInt ELSE x

Headers == [form : {"none", "junk", "seconds", "date"}, n : Int]

maxDeltaSeconds == MaxInt \div Second

(* A delay that is or is not there. *)
Delay(d) == [ok |-> TRUE, d |-> d]
Declined == [ok |-> FALSE, d |-> 0]

(* ParseRetryAfter without the bound on delta-seconds. *)
ParseRetryAfterWrapping(h, now) ==
  IF h.form = "seconds" /\ h.n >= 0 THEN Delay(Wrap(h.n * Second))
  ELSE IF h.form = "date" /\ Saturate(h.n * Second - now) > 0
  THEN Delay(Saturate(h.n * Second - now))
  ELSE Declined

(* A number ParseInt cannot hold is out of range: very long, if positive. *)
ParseRetryAfter(h, now) ==
  CASE h.form = "seconds" /\ h.n < 0                -> Declined
    [] h.form = "seconds" /\ h.n \in 0..maxDeltaSeconds -> Delay(Wrap(h.n * Second))
    [] h.form = "seconds" /\ h.n > maxDeltaSeconds  -> Delay(MaxInt)
    [] h.form = "date" /\ Saturate(h.n * Second - now) > 0
                                                    -> Delay(Saturate(h.n * Second - now))
    [] OTHER                                        -> Declined

(* RetryAfter wraps an error in a RetryAfterError when the delay is        *)
(* positive. The error's hint is a Delay or Declined.                      *)
RetryAfter(p) == IF p.ok /\ p.d > 0 THEN p ELSE Declined

(* retryDelay: the override the runtime gives mkq, or none. *)
retryDelay(hint) ==
  IF ~hint.ok \/ hint.d < 0 THEN Declined
  ELSE IF hint.d > maxRetryAfter THEN Delay(maxRetryAfter)
  ELSE hint

----------------------------------------------------------------------------
(* What the header asks for, in integers of no width: the seconds from now *)
(* that a server wants to be left alone.                                   *)
Asked(h, now) ==
  IF h.form = "seconds" THEN h.n * Second
  ELSE IF h.form = "date" THEN h.n * Second - now
  ELSE 0

(* The delay a server's answer leads to: what it asks for, up to the cap,  *)
(* and the configured backoff when it asks for no time at all.             *)
Honoured(h, now) ==
  IF Asked(h, now) <= 0 THEN Declined
  ELSE IF Asked(h, now) > maxRetryAfter THEN Delay(maxRetryAfter)
  ELSE Delay(Asked(h, now))

============================================================================
