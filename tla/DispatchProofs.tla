--------------------------- MODULE DispatchProofs ---------------------------
(***************************************************************************)
(* Proofs about modules Attempt and Dispatch: how an attempt ends, for any *)
(* answer of the server; that the guard keeps requests on the public       *)
(* internet for any behaviour of the name service; and that requests and   *)
(* connections implement the Send of module Attempt, so that its theorems  *)
(* hold of them.                                                           *)
(***************************************************************************)
EXTENDS Dispatch, TLAPS

(***************************************************************************)
(* Durations.                                                              *)
(***************************************************************************)

(* A product that fits the width is exact. *)
LEMMA WrapExact == ASSUME NEW x \in 0..MaxInt PROVE Wrap(x) = x
<1> USE RetryAfterAssumption
<1> DEFINE m == 2 * MaxInt + 2
<1>1. x - MinInt \in 0..(m - 1) /\ m \in Nat \ {0}
  BY DEF MinInt
<1>2. (x - MinInt) % m = x - MinInt
  BY <1>1
<1> QED
  BY <1>2 DEF Wrap, MinInt

(* The largest number of seconds that fits is the quotient of the width. *)
LEMMA MaxDelta ==
  ASSUME NEW n \in Nat
  PROVE  n <= maxDeltaSeconds <=> n * Second <= MaxInt
<1> USE RetryAfterAssumption
<1> DEFINE q == MaxInt \div Second
           r == MaxInt % Second
<1>1. q \in Nat /\ r \in Nat /\ r < Second /\ MaxInt = q * Second + r
  OBVIOUS
<1> HIDE DEF q, r
<1>2. ASSUME n <= q PROVE n * Second <= MaxInt
  <2>1. n * Second <= q * Second
    BY <1>1, <1>2
  <2> QED
    BY <1>1, <2>1
<1>3. ASSUME n > q PROVE n * Second > MaxInt
  <2>1. n >= q + 1
    BY <1>1, <1>3
  <2>2. n * Second >= (q + 1) * Second
    BY <1>1, <2>1
  <2>3. (q + 1) * Second = q * Second + Second
    BY <1>1
  <2> QED
    BY <1>1, <2>2, <2>3
<1> QED
  BY <1>1, <1>2, <1>3 DEF maxDeltaSeconds, q

(* A positive delay that an executor passes on is cut at the cap. *)
LEMMA DelayCut ==
  ASSUME NEW d \in Int, d > 0
  PROVE  retryDelay(RetryAfter(Delay(d))) =
           IF d > maxRetryAfter THEN Delay(maxRetryAfter) ELSE Delay(d)
<1>1. Delay(d).ok /\ Delay(d).d = d
  BY DEF Delay
<1>2. RetryAfter(Delay(d)) = Delay(d)
  BY <1>1 DEF RetryAfter
<1>3. ~(~Delay(d).ok \/ Delay(d).d < 0)
  BY <1>1
<1> QED
  BY <1>1, <1>2, <1>3 DEF retryDelay

(* For every header, clock, width and cap, the override the runtime gives  *)
(* mkq is the delay the server asked for in unbounded arithmetic, cut at   *)
(* the cap, and none if it asked for no wait: no header wraps into a short *)
(* delay (retry_after.go, ParseRetryAfter, RetryAfter, retryDelay).        *)
THEOREM RetryAfterExact ==
  ASSUME NEW h \in Headers, NEW now \in Int
  PROVE  retryDelay(RetryAfter(ParseRetryAfter(h, now))) = Honoured(h, now)
<1> USE RetryAfterAssumption
<1> DEFINE s == h.n * Second
<1>0. h.n \in Int /\ s \in Int
  BY DEF Headers
<1>6. maxDeltaSeconds \in Nat
  BY DEF maxDeltaSeconds
<1>1. CASE h.form = "seconds" /\ h.n < 0
  <2>1. s <= 0
    BY <1>0, <1>1
  <2>2. ParseRetryAfter(h, now) = Declined
    BY <1>0, <1>1, <1>6 DEF ParseRetryAfter
  <2>3. Asked(h, now) = s
    BY <1>1 DEF Asked
  <2> HIDE DEF s
  <2> QED
    BY <1>0, <2>1, <2>2, <2>3 DEF RetryAfter, retryDelay, Honoured, Declined
<1>2. CASE h.form = "seconds" /\ h.n \in 0..maxDeltaSeconds
  <2>1. s \in 0..MaxInt
    <3>1. s <= MaxInt
      BY <1>0, <1>2, MaxDelta DEF maxDeltaSeconds
    <3>2. s >= 0
      BY <1>2
    <3> QED
      BY <1>0, <3>1, <3>2
  <2>2. Wrap(s) = s
    BY <2>1, WrapExact
  <2>3. ParseRetryAfter(h, now) = Delay(s)
    BY <1>0, <1>2, <2>2 DEF ParseRetryAfter, maxDeltaSeconds
  <2>4. Asked(h, now) = s
    BY <1>2 DEF Asked
  <2> HIDE DEF s
  <2> QED
    BY <2>1, <2>3, <2>4 DEF RetryAfter, retryDelay, Honoured, Declined, Delay
<1>3. CASE h.form = "seconds" /\ h.n > maxDeltaSeconds
  <2>0. maxDeltaSeconds \in Nat
    BY DEF maxDeltaSeconds
  <2>1. s > MaxInt
    BY <1>0, <1>3, <2>0, MaxDelta
  <2>2. ParseRetryAfter(h, now) = Delay(MaxInt)
    BY <1>0, <1>3, <2>0 DEF ParseRetryAfter
  <2>3. Asked(h, now) = s
    BY <1>3 DEF Asked
  <2> HIDE DEF s
  <2>4. Honoured(h, now) = Delay(maxRetryAfter)
    BY <1>0, <2>1, <2>3 DEF Honoured
  <2>5. CASE MaxInt > maxRetryAfter
    BY <2>2, <2>4, <2>5, DelayCut
  <2>6. CASE MaxInt = maxRetryAfter
    BY <2>2, <2>4, <2>6, DelayCut
  <2> QED
    BY <2>5, <2>6
<1>4. CASE h.form = "date"
  <2> DEFINE t == s - now
  <2>1. t \in Int /\ Asked(h, now) = t
    BY <1>0, <1>4 DEF Asked
  <2>2. ParseRetryAfter(h, now) = IF Saturate(t) > 0 THEN Delay(Saturate(t)) ELSE Declined
    BY <1>4 DEF ParseRetryAfter
  <2> HIDE DEF t
  <2>3. CASE t <= 0
    <3>1. Saturate(t) <= 0
      BY <2>1, <2>3 DEF Saturate, MinInt
    <3>2. ParseRetryAfter(h, now) = Declined
      BY <2>1, <2>2, <3>1 DEF Saturate, MinInt
    <3> QED
      BY <2>1, <2>3, <3>2 DEF RetryAfter, retryDelay, Honoured, Declined
  <2>4. CASE t > 0
    <3>1. Saturate(t) \in Int /\ Saturate(t) > 0 /\ Saturate(t) = (IF t > MaxInt THEN MaxInt ELSE t)
      BY <2>1, <2>4 DEF Saturate, MinInt
    <3>2. ParseRetryAfter(h, now) = Delay(Saturate(t))
      BY <2>2, <3>1
    <3>3. retryDelay(RetryAfter(Delay(Saturate(t)))) =
            IF Saturate(t) > maxRetryAfter THEN Delay(maxRetryAfter) ELSE Delay(Saturate(t))
      BY <3>1, DelayCut
    <3>4. Honoured(h, now) = IF t > maxRetryAfter THEN Delay(maxRetryAfter) ELSE Delay(t)
      BY <2>1, <2>4 DEF Honoured
    <3>5. CASE t <= MaxInt
      BY <2>1, <3>1, <3>2, <3>3, <3>4, <3>5
    <3>6. CASE t > MaxInt
      <4>1. Saturate(t) = MaxInt /\ t > maxRetryAfter
        BY <2>1, <3>1, <3>6
      <4>2. MaxInt > maxRetryAfter \/ MaxInt = maxRetryAfter
        OBVIOUS
      <4> QED
        BY <3>2, <3>3, <3>4, <4>1, <4>2
    <3> QED
      BY <2>1, <3>5, <3>6
  <2> QED
    BY <2>1, <2>3, <2>4
<1>5. CASE h.form \in {"none", "junk"}
  BY <1>5 DEF ParseRetryAfter, RetryAfter, retryDelay, Honoured, Asked, Declined
<1> QED
  BY <1>0, <1>1, <1>2, <1>3, <1>4, <1>5, <1>6 DEF Headers

(***************************************************************************)
(* Attempts.                                                               *)
(***************************************************************************)

(* Wrapping and saturating both give a duration. *)
LEMMA Fits == ASSUME NEW x \in Int PROVE Wrap(x) \in Durations /\ Saturate(x) \in Durations
<1> USE RetryAfterAssumption
<1>1. 2 * MaxInt + 2 \in Nat \ {0}
  OBVIOUS
<1>2. (x - MinInt) % (2 * MaxInt + 2) \in 0..(2 * MaxInt + 1)
  BY <1>1 DEF MinInt
<1>3. Wrap(x) \in Durations
  BY <1>2 DEF Wrap, Durations, MinInt
<1>4. Saturate(x) \in Durations
  BY DEF Saturate, Durations, MinInt
<1> QED
  BY <1>3, <1>4

(* A hint read from a header is a delay or none. *)
LEMMA HintType ==
  ASSUME NEW h \in Headers, NEW now \in Int
  PROVE  RetryAfter(ParseRetryAfter(h, now)) \in DelayHints
<1> USE RetryAfterAssumption
<1>1. h.n * Second \in Int /\ h.n * Second - now \in Int
  BY DEF Headers
<1>2. Declined \in DelayHints
  BY DEF Declined, DelayHints, Durations, MinInt
<1>3. ASSUME NEW d \in Durations PROVE Delay(d) \in DelayHints
  BY DEF Delay, DelayHints
<1>4. MaxInt \in Durations
  BY DEF Durations, MinInt
<1>5. ParseRetryAfter(h, now) \in
        {Declined, Delay(Wrap(h.n * Second)), Delay(MaxInt), Delay(Saturate(h.n * Second - now))}
  BY DEF ParseRetryAfter
<1>6. ParseRetryAfter(h, now) \in DelayHints
  BY <1>1, <1>2, <1>3, <1>4, <1>5, Fits, Zenon
<1> QED
  BY <1>2, <1>6 DEF RetryAfter

(* The override is never negative. *)
LEMMA OverrideType ==
  ASSUME NEW hint \in DelayHints PROVE retryDelay(hint).d \in Nat
<1> USE RetryAfterAssumption
<1>1. hint.d \in Int
  BY DEF DelayHints, Durations, MinInt
<1>2. CASE ~hint.ok \/ hint.d < 0
  BY <1>2 DEF retryDelay, Declined
<1>3. CASE hint.ok /\ hint.d > maxRetryAfter
  BY <1>1, <1>3 DEF retryDelay, Delay
<1>4. CASE hint.ok /\ hint.d >= 0 /\ ~(hint.d > maxRetryAfter)
  BY <1>1, <1>4 DEF retryDelay
<1> QED
  BY <1>1, <1>2, <1>3, <1>4

(* A 2xx is in none of the ranges that delivery refuses. *)
LEMMA SuccessNotRefused ==
  ASSUME NEW s \in Int, Is2xx(s) PROVE s \notin (300..499) \ {401, 408, 429}
BY DEF Is2xx

(* Execute's switch does what the README's tables say: success for a 2xx,  *)
(* permanent failure for another answer that they call a refusal, and a    *)
(* hint only for a retry.                                                  *)
LEMMA OutcomeClass ==
  ASSUME NEW k, NEW a \in Answers
  PROVE  /\ Outcome(k, a) \in Results
         /\ Outcome(k, a).what = "nil" <=> Is2xx(a.status)
         /\ Outcome(k, a).what = "permanent" <=> Fatal(k, a)
         /\ Outcome(k, a).what = "error" =>
              Outcome(k, a).hint = RetryAfter(ParseRetryAfter(a.after, Now))
<1>1. a.status \in Int /\ a.after \in Headers /\ Now \in Int
  <2>1. a.status \in Statuses /\ a.after \in Hints
    BY DEF Answers
  <2>2. Now \in Int
    BY AttemptAssumption, RetryAfterAssumption DEF Durations, MinInt
  <2>3. Statuses \subseteq Int
    BY AttemptAssumption
  <2>4. Hints \subseteq Headers
    BY AttemptAssumption
  <2> QED
    BY <2>1, <2>2, <2>3, <2>4, Zenon
<1> DEFINE r == RetryAfter(ParseRetryAfter(a.after, Now))
<1>2. r \in DelayHints
  BY <1>1, HintType
<1>3. Declined \in DelayHints
  BY RetryAfterAssumption DEF Declined, DelayHints, Durations, MinInt
<1>4. [Error EXCEPT !.hint = r] = [what |-> "error", hint |-> r]
  BY DEF Error
<1> HIDE DEF r
<1>5. CASE Is2xx(a.status)
  <2>1. classify(k, a) = "success"
    <3>1. httpClassify(a) = "success"
      BY <1>5 DEF httpClassify
    <3>2. a.status \notin (300..499) \ {401, 408, 429}
      BY <1>1, <1>5, SuccessNotRefused
    <3>3. deliverClassify(a) = "success"
      BY <1>5, <3>2 DEF deliverClassify
    <3> QED
      BY <3>1, <3>3 DEF classify
  <2>2. Outcome(k, a) = Nil
    BY <2>1 DEF Outcome
  <2> QED
    BY <1>3, <1>5, <2>2 DEF Nil, Results, Fatal
<1>6. CASE Fatal(k, a)
  <2>1. classify(k, a) = "permanent"
    <3>1. CASE k = "deliver"
      <4>1. deliverClassify(a) = "permanent"
        BY <1>1, <1>6, <3>1 DEF deliverClassify, Is2xx, Refuses, Fatal
      <4> QED
        BY <3>1, <4>1 DEF classify
    <3>2. CASE k # "deliver"
      <4>1. httpClassify(a) = "permanent"
        BY <1>1, <1>6, <3>2 DEF httpClassify, Refuses, Fatal
      <4> QED
        BY <3>2, <4>1 DEF classify
    <3> QED
      BY <3>1, <3>2
  <2>2. Outcome(k, a) = Permanent
    BY <2>1 DEF Outcome
  <2> QED
    BY <1>3, <1>6, <2>2 DEF Permanent, Results, Fatal
<1>7. CASE ~Is2xx(a.status) /\ ~Fatal(k, a)
  <2>1. classify(k, a) = "retry"
    <3>1. CASE k = "deliver"
      <4>1. deliverClassify(a) = "retry"
        BY <1>1, <1>7, <3>1 DEF deliverClassify, Is2xx, Refuses, Fatal
      <4> QED
        BY <3>1, <4>1 DEF classify
    <3>2. CASE k # "deliver"
      <4>1. httpClassify(a) = "retry"
        BY <1>1, <1>7, <3>2 DEF httpClassify, Refuses, Fatal
      <4> QED
        BY <3>2, <4>1 DEF classify
    <3> QED
      BY <3>1, <3>2
  <2>2. Outcome(k, a) = [what |-> "error", hint |-> r]
    BY <2>1, <1>4 DEF Outcome, r
  <2> QED
    BY <1>2, <1>7, <2>2 DEF Results, r
<1>8. Fatal(k, a) => ~Is2xx(a.status)
  BY DEF Fatal
<1> QED
  BY <1>5, <1>6, <1>7, <1>8

(* Every step of an attempt keeps the state well typed. *)
LEMMA AttemptType == TypeOK /\ AttemptInv /\ [Next]_vars => TypeOK'
<1> SUFFICES ASSUME TypeOK, AttemptInv, [Next]_vars PROVE TypeOK'
  OBVIOUS
<1> USE AttemptAssumption
<1> USE DEF config, mkqVars
<1>a. Nil \in Results /\ Permanent \in Results /\ Error \in Results
  BY RetryAfterAssumption DEF Nil, Permanent, Error, Results, DelayHints, Declined, Durations, MinInt
<1>1. CASE Begin
  BY <1>a, <1>1 DEF Begin, TypeOK
<1>2. CASE Decode
  <2>1. \/ pc' \in {"sign", "send"} /\ result' = result
        \/ pc' = "done" /\ result' = Permanent
    <3>1. CASE fault \in {"none", "unknown", "keyid"}
      BY <1>2, <3>1 DEF Decode, GoesOn
    <3>2. CASE fault \notin {"none", "unknown", "keyid"}
      BY <1>2, <3>2 DEF Decode, Returns
    <3> QED
      BY <3>1, <3>2, Zenon
  <2>2. /\ UNCHANGED <<kind, signer, fault, keyed, job, made, delay, resp, sent, accepted, unread>>
        /\ ground' = (ground \/ fault \in Undeliverable)
    BY <1>2, Zenon DEF Decode, Met
  <2>3. /\ pc' \in {"idle", "decode", "sign", "check", "send", "read", "done"}
        /\ result' \in Results /\ ground' \in BOOLEAN
    <3>1. result \in Results /\ ground \in BOOLEAN
      BY Zenon DEF TypeOK
    <3> QED
      BY <1>a, <2>1, <2>2, <3>1, Zenon
  <2> QED
    BY <2>2, <2>3, Zenon DEF TypeOK
<1>3. CASE ExecuteCustom
  <2>1. PICK w \in {"nil", "permanent", "error"}, h \in Hints :
          /\ Returns([what |-> w,
                      hint |-> IF w # "nil" /\ h.form = "seconds"
                               THEN Delay(Saturate(h.n * Second)) ELSE Declined])
          /\ accepted' = IF w = "nil" THEN accepted + 1 ELSE accepted
          /\ ground' = (ground \/ w = "permanent")
    BY <1>3, Zenon DEF ExecuteCustom, Met
  <2>2. h \in Headers
    OBVIOUS
  <2>3. h.n * Second \in Int
    BY <2>2, RetryAfterAssumption DEF Headers
  <2>4. Delay(Saturate(h.n * Second)) \in DelayHints /\ Declined \in DelayHints
    BY <2>3, Fits, RetryAfterAssumption DEF Delay, Declined, DelayHints, Durations, MinInt
  <2>5. result' \in Results /\ pc' = "done"
    BY <2>1, <2>4 DEF Returns, Results
  <2>6. accepted' \in Nat /\ ground' \in BOOLEAN
    BY <2>1 DEF TypeOK
  <2> QED
    BY <1>3, <2>5, <2>6 DEF ExecuteCustom, TypeOK
<1>4. CASE SignLocal
  BY <1>a, <1>4 DEF SignLocal, SignRequest, Returns, GoesOn, Met, TypeOK
<1>5. CASE SignRemote
  <2>1. pc' \in {"check", "done"} /\ result' \in Results
    BY <1>a, <1>5 DEF SignRemote, SignRequest, NotSent, Returns, GoesOn, TypeOK
  <2>2. ground' \in BOOLEAN
    BY <1>5, Zenon DEF SignRemote, NotSent, Met, TypeOK
  <2> QED
    BY <1>5, <2>1, <2>2 DEF SignRemote, TypeOK
<1>6. CASE CheckKeyID
  BY <1>a, <1>6 DEF CheckKeyID, Returns, GoesOn, TypeOK
<1>7. CASE Send
  <2>1. pc' \in {"read", "done"} /\ result' \in Results
    BY <1>a, <1>7 DEF Send, NotSent, Returns, GoesOn, TypeOK
  <2>2. resp' \in Answers \cup {NoAnswer}
    BY <1>7 DEF Send, Unanswered, Answered, TypeOK
  <2>3. sent' \in Nat /\ accepted' \in Nat /\ unread' \in Nat
    BY <1>7 DEF Send, Unanswered, Answered, TypeOK
  <2>4. ground' \in BOOLEAN
    BY <1>7, Zenon DEF Send, NotSent, Met, TypeOK
  <2> QED
    BY <1>7, <2>1, <2>2, <2>3, <2>4 DEF Send, TypeOK
<1>8. CASE Read
  <2>1. resp \in Answers
    BY <1>8 DEF Read, AttemptInv
  <2>2. Outcome(kind, resp) \in Results
    BY <2>1, OutcomeClass
  <2>3. pc' = "done" /\ result' \in Results
    BY <1>a, <1>8, <2>2 DEF Read, Returns
  <2>4. resp' \in Answers \cup {NoAnswer} /\ unread' \in Nat
    BY <1>8, <2>1 DEF Read, TypeOK
  <2>5. ground' \in BOOLEAN
    BY <1>8, Zenon DEF Read, Met, TypeOK
  <2> QED
    BY <1>8, <2>3, <2>4, <2>5 DEF Read, TypeOK
<1>9. CASE Conclude
  <2>1. retryDelay(result.hint).d \in Nat
    BY OverrideType DEF TypeOK, Results
  <2>2. made + 1 \in 0..MaxAttempts
    BY <1>9 DEF Conclude, AttemptInv, TypeOK
  <2> QED
    BY <1>9, <2>1, <2>2 DEF Conclude, Complete, Fail, Retry, TypeOK
<1>10. CASE Promote
  BY <1>10 DEF Promote, TypeOK
<1>11. CASE Resend
  BY <1>11 DEF Resend, Unanswered, TypeOK
<1>12. CASE UNCHANGED vars
  BY <1>12 DEF vars, TypeOK
<1> QED
  BY <1>1, <1>2, <1>3, <1>4, <1>5, <1>6, <1>7, <1>8, <1>9, <1>10, <1>11, <1>12 DEF Next

(* An attempt keeps AttemptInv: a success is held from the answer to the   *)
(* completion of the job, a ground from its discovery to the failure.      *)
LEMMA AttemptStep == AttemptInv /\ [Next]_vars => AttemptInv'
<1> SUFFICES ASSUME AttemptInv, [Next]_vars PROVE AttemptInv'
  OBVIOUS
<1>0. TypeOK /\ TypeOK'
  BY AttemptType DEF AttemptInv
<1>a. Nil.what = "nil" /\ Permanent.what = "permanent" /\ Error.what = "error"
  BY DEF Nil, Permanent, Error
<1>b. sent \in Nat /\ accepted \in Nat /\ unread \in Nat /\ made \in Nat /\ MaxAttempts \in Nat
  BY <1>0, AttemptAssumption DEF TypeOK
<1>c. ~Is2xx(NoAnswer.status)
  BY DEF Is2xx, NoAnswer
<1> USE <1>0, <1>a, <1>b, <1>c DEF AttemptInv, OneRequestPerAttempt, DelayHonoured, config, mkqVars
<1>1. CASE Begin
  BY <1>1 DEF Begin
<1>2. CASE Decode
  <2>1. \/ /\ pc' = (IF kind = "deliver" THEN "sign" ELSE "send")
           /\ fault \in {"none", "unknown", "keyid"}
        \/ pc' = "done" /\ result' = Permanent /\ fault \in Undeliverable
    <3>1. fault \in Undeliverable \cup {"none", "unknown", "keyid"}
      BY DEF TypeOK, Faults, HTTPFaults, WebhookFaults, DeliverFaults, Undeliverable
    <3> QED
      BY <1>2, <3>1 DEF Decode, Returns, GoesOn
  <2>2. ground' <=> fault \in Undeliverable
    BY <1>2, Zenon DEF Decode, Met
  <2>3. "none" \notin Undeliverable /\ "unknown" \notin Undeliverable /\ "keyid" \notin Undeliverable
    BY DEF Undeliverable
  <2>4. \/ pc' \in {"sign", "send"} /\ ~ground'
        \/ pc' = "done" /\ result' = Permanent /\ ground'
    BY <2>1, <2>2, <2>3
  <2> QED
    BY <1>2, <2>4 DEF Decode
<1>3. CASE ExecuteCustom
  <2>1. PICK w \in {"nil", "permanent", "error"}, h \in Hints :
          /\ Returns([what |-> w,
                      hint |-> IF w # "nil" /\ h.form = "seconds"
                               THEN Delay(Saturate(h.n * Second)) ELSE Declined])
          /\ accepted' = IF w = "nil" THEN accepted + 1 ELSE accepted
          /\ ground' = (ground \/ w = "permanent")
    BY <1>3, Zenon DEF ExecuteCustom, Met
  <2>2. pc' = "done" /\ result'.what = w
    BY <2>1 DEF Returns
  <2>3. job = "active" /\ resp = NoAnswer /\ ~ground /\ accepted = unread
    BY <1>3 DEF ExecuteCustom
  <2>4. UNCHANGED <<job, made, resp, sent, unread, delay, kind, keyed>> /\ (ground' <=> w = "permanent")
    BY <1>3, <2>1, <2>3, Zenon DEF ExecuteCustom
  <2>5. accepted' - unread' = IF result'.what = "nil" THEN 1 ELSE 0
    BY <2>1, <2>2, <2>3, <2>4
  <2> QED
    BY <2>2, <2>3, <2>4, <2>5
<1>4. CASE SignLocal
  BY <1>4, Zenon DEF SignLocal, SignRequest, Returns, GoesOn, Met
<1>5. CASE SignRemote
  <2>1. job = "active" /\ resp = NoAnswer /\ ~ground /\ accepted = unread
    BY <1>5 DEF SignRemote
  <2>2. \/ pc' = "check" /\ ~ground'
        \/ pc' = "done" /\ result' = Permanent /\ ground'
        \/ pc' = "done" /\ result' = Error /\ ~ground'
    <3>1. ASSUME NEW a, SignRequest(remoteSign(a)),
                 ground' = (ground \/ a.status = 410 \/ (a.status = 404 /\ a.json))
          PROVE  \/ pc' = "check" /\ ~ground'
                 \/ pc' = "done" /\ result' = Permanent /\ ground'
                 \/ pc' = "done" /\ result' = Error /\ ~ground'
      <4>1. ground' <=> isNoSuchKey(a.status, a.json)
        BY <2>1, <3>1, Zenon DEF isNoSuchKey
      <4>2. isNoSuchKey(a.status, a.json) <=> remoteSign(a) = "unknown"
        BY DEF remoteSign
      <4> QED
        BY <3>1, <4>1, <4>2 DEF SignRequest, Returns, GoesOn
    <3>2. ASSUME NEW e \in DialFaults, NotSent(e)
          PROVE  \/ pc' = "done" /\ result' = Permanent /\ ground'
                 \/ pc' = "done" /\ result' = Error /\ ~ground'
      BY <2>1, <3>2, Zenon DEF NotSent, Met, isBlocked, Returns
    <3> QED
      BY <1>5, <3>1, <3>2, Zenon DEF SignRemote, Met
  <2> QED
    BY <1>5, <2>1, <2>2 DEF SignRemote
<1>6. CASE CheckKeyID
  BY <1>6 DEF CheckKeyID, Returns, GoesOn
<1>7. CASE Send
  <2>1. job = "active" /\ resp = NoAnswer /\ ~ground /\ accepted = unread /\ (sent = 0 \/ keyed)
    BY <1>7 DEF Send
  <2>2. ASSUME NEW e \in DialFaults, NotSent(e)
        PROVE  \/ pc' = "done" /\ result' = Permanent /\ ground'
               \/ pc' = "done" /\ result' = Error /\ ~ground'
    BY <2>1, <2>2, Zenon DEF NotSent, Met, isBlocked, Returns
  <2>3. CASE (\E e \in DialFaults : NotSent(e)) /\ UNCHANGED <<resp, sent, accepted, unread>>
    BY <1>7, <2>1, <2>2, <2>3 DEF Send
  <2>4. CASE Unanswered /\ Returns(Error) /\ UNCHANGED ground
    BY <1>7, <2>1, <2>4 DEF Send, Unanswered, Returns
  <2>5. CASE (\E a \in Answers : Answered(a)) /\ GoesOn("read") /\ UNCHANGED ground
    BY <1>7, <2>1, <2>5 DEF Send, Answered, GoesOn
  <2> QED
    BY <1>7, <2>3, <2>4, <2>5, Zenon DEF Send
<1>8. CASE Read
  <2>1. resp \in Answers
    BY <1>8 DEF Read
  <2>2. /\ Outcome(kind, resp).what = "nil" <=> Is2xx(resp.status)
        /\ Outcome(kind, resp).what = "permanent" <=> Fatal(kind, resp)
    BY <2>1, OutcomeClass
  <2>3. job = "active" /\ ~ground /\ pc' = "done"
    BY <1>8 DEF Read, Returns
  <2>4. CASE /\ result' = Outcome(kind, resp)
             /\ ground' = (ground \/ Fatal(kind, resp))
             /\ UNCHANGED <<resp, unread>>
    <3>1. ground' <=> result'.what = "permanent"
      BY <2>2, <2>3, <2>4, Zenon
    <3>2. accepted' - unread' = IF result'.what = "nil" THEN 1 ELSE 0
      BY <1>8, <2>2, <2>4 DEF Read
    <3>3. UNCHANGED <<kind, keyed, job, made, delay, sent>>
      BY <1>8 DEF Read
    <3>4. result' = Outcome(kind', resp')
      BY <2>4, <3>3
    <3> QED
      BY <2>3, <3>1, <3>2, <3>3, <3>4
  <2>5. CASE /\ result' = Error
             /\ unread' = IF Is2xx(resp.status) THEN unread + 1 ELSE unread
             /\ resp' = NoAnswer /\ UNCHANGED ground
    <3>1. accepted' - unread' = 0
      BY <1>8, <2>5 DEF Read
    <3> QED
      BY <1>8, <2>3, <2>5, <3>1 DEF Read
  <2> QED
    BY <1>8, <2>4, <2>5 DEF Read, Returns, Met
<1>9. CASE Conclude
  <2>1. ASSUME resp # NoAnswer, result.what = "error"
        PROVE  retryDelay(result.hint) = Honoured(resp.after, Now)
    <3>1. resp \in Answers /\ result = Outcome(kind, resp)
      BY <1>9, <2>1 DEF Conclude, TypeOK
    <3>2. result.hint = RetryAfter(ParseRetryAfter(resp.after, Now))
      BY <2>1, <3>1, OutcomeClass
    <3>3. resp.after \in Headers
      BY <3>1, AttemptAssumption DEF Answers
    <3>4. Now \in Int
      BY AttemptAssumption, RetryAfterAssumption DEF Durations, MinInt
    <3> QED
      BY <3>2, <3>3, <3>4, RetryAfterExact
  <2>2. CASE Complete
    BY <1>9, <2>2 DEF Conclude, Complete
  <2>3. CASE Fail
    BY <1>9, <2>3 DEF Conclude, Fail
  <2>4. CASE Retry
    BY <1>9, <2>1, <2>4 DEF Conclude, Retry
  <2> QED
    BY <1>9, <2>2, <2>3, <2>4 DEF Conclude
<1>10. CASE Promote
  BY <1>10 DEF Promote
<1>11. CASE Resend
  BY <1>11 DEF Resend, Unanswered
<1>12. CASE UNCHANGED vars
  BY <1>12 DEF vars, TypeOK, Outcome, classify
<1> QED
  BY <1>1, <1>2, <1>3, <1>4, <1>5, <1>6, <1>7, <1>8, <1>9, <1>10, <1>11, <1>12, Zenon DEF Next

(* A job that has just been added satisfies AttemptInv. *)
LEMMA AttemptInit == Init => AttemptInv
<1> SUFFICES ASSUME Init PROVE AttemptInv
  OBVIOUS
<1>1. Error \in Results /\ Error.what = "error"
  BY RetryAfterAssumption DEF Error, Results, DelayHints, Declined, Durations, MinInt
<1>2. TypeOK
  <2>1. made \in 0..MaxAttempts /\ delay \in Nat /\ sent \in Nat /\ accepted \in Nat /\ unread \in Nat
    BY AttemptAssumption DEF Init
  <2> QED
    BY <1>1, <2>1, Zenon DEF Init, TypeOK
<1> QED
  BY <1>1, <1>2, AttemptAssumption DEF Init, AttemptInv, OneRequestPerAttempt, DelayHonoured

(* AttemptInv holds of every job, for all executors, statuses and headers. *)
THEOREM AttemptInvariance == Spec => []AttemptInv
BY AttemptInit, AttemptStep, PTL DEF Spec

(* An endpoint sees a job again after accepting it only when each earlier  *)
(* acceptance was lost on the way back, and only a success that was read   *)
(* completes a job (httpexec.go, send; apdeliver.go, Execute).             *)
THEOREM CountsOnce == Spec => []SuccessCountsOnce
<1>1. AttemptInv => SuccessCountsOnce
  BY DEF AttemptInv, SuccessCountsOnce
<1> QED
  BY <1>1, AttemptInvariance, PTL

(* Transient trouble never fails a job before its last attempt, and a      *)
(* reason that lies in the payload, the signer, the address or the answer  *)
(* ends it at once (the two classify functions, isNoSuchKey, isBlocked and *)
(* the error paths of Execute).                                            *)
THEOREM FailsForCause == Spec => []GivesUpForCause
<1>1. AttemptInv => GivesUpForCause
  BY DEF AttemptInv, GivesUpForCause
<1> QED
  BY <1>1, AttemptInvariance, PTL

(* A retry waits for what the server asked, up to the cap, in every        *)
(* attempt of every job (retry_after.go, retryDelay).                      *)
THEOREM WaitsAsAsked == Spec => []DelayHonoured
<1>1. AttemptInv => DelayHonoured
  BY DEF AttemptInv
<1> QED
  BY <1>1, AttemptInvariance, PTL

(* Without an idempotency key no attempt writes two requests (httpexec.go, *)
(* send; apdeliver.go, Execute: one client.Do).                            *)
THEOREM RequestedOnce == Spec => []OneRequestPerAttempt
<1>1. AttemptInv => OneRequestPerAttempt
  BY DEF AttemptInv
<1> QED
  BY <1>1, AttemptInvariance, PTL

(* Where an attempt at a defective payload can be, and what it returns. *)
DefectInv ==
  fault # "none" =>
    /\ kind # "custom" /\ (fault \in {"unknown", "keyid"} => kind = "deliver")
    /\ pc \in {"idle", "decode", "sign", "check", "done"}
    /\ pc # "idle" => job = "active"
    /\ pc = "sign" => fault \in {"unknown", "keyid"}
    /\ pc = "check" => fault = "keyid" /\ ~FoundAtOnce
    /\ pc = "done" => result.what # "nil" /\ (FoundAtOnce => result.what = "permanent")
    /\ accepted = 0 /\ job # "completed"
    /\ FoundAtOnce => \/ made = 0 /\ job \in {"wait", "active"}
                      \/ made = 1 /\ job = "failed" /\ pc = "idle"

(* No defect gets past the check that is made for it. *)
LEMMA DefectStep ==
  ASSUME DefectInv, [Next]_vars PROVE DefectInv'
<1> SUFFICES ASSUME fault' # "none" PROVE DefectInv'
  BY DEF DefectInv
<1> USE DEF DefectInv, FoundAtOnce, config, mkqVars, Returns, GoesOn, Permanent, Error
<1>1. CASE Begin
  BY <1>1 DEF Begin
<1>2. CASE Decode
  BY <1>2 DEF Decode
<1>3. CASE ExecuteCustom
  BY <1>3 DEF ExecuteCustom
<1>4. CASE SignLocal
  <2>1. /\ fault # "none" /\ pc = "sign" /\ kind = "deliver" /\ job = "active" /\ accepted = 0
        /\ fault = "unknown" \/ fault = "keyid"
        /\ FoundAtOnce => made = 0
        /\ UNCHANGED <<kind, signer, fault, job, made, accepted>>
    BY <1>4 DEF SignLocal
  <2>2. PICK s \in {"unknown", "signed", "error"} :
          SignRequest(s) /\ (s # "unknown" => ~FoundAtOnce /\ fault = "keyid")
    BY <1>4, <2>1 DEF SignLocal
  <2> QED
    BY <2>1, <2>2 DEF SignRequest
<1>5. CASE SignRemote
  <2>1. fault = "unknown" \/ fault = "keyid"
    BY <1>5 DEF SignRemote
  <2> QED
    BY <1>5, <2>1 DEF SignRemote, NotSent, SignRequest, remoteSign, isNoSuchKey
<1>6. CASE CheckKeyID \/ Send \/ Resend \/ Read
  BY <1>6 DEF CheckKeyID, Send, Resend, Read
<1>7. CASE Conclude
  BY <1>7 DEF Conclude, Complete, Fail, Retry
<1>8. CASE Promote
  BY <1>8 DEF Promote
<1>9. CASE UNCHANGED vars
  BY <1>9 DEF vars
<1> QED
  BY <1>1, <1>2, <1>3, <1>4, <1>5, <1>6, <1>7, <1>8, <1>9 DEF Next

(* Nothing is sent for a payload with a defect, and a defect that mkqd     *)
(* finds by itself costs one attempt, in every executor and for every      *)
(* signer.                                                                 *)
THEOREM DefectsStay == Spec => []DefectNeverSent
<1>1. Init => DefectInv
  BY DEF Init, DefectInv, Faults, HTTPFaults, WebhookFaults, FoundAtOnce
<1>2. DefectInv => DefectNeverSent
  BY DEF DefectInv, DefectNeverSent
<1> QED
  BY <1>1, <1>2, DefectStep, PTL DEF Spec

----------------------------------------------------------------------------
(***************************************************************************)
(* Requests and connections.                                               *)
(***************************************************************************)

(* IsPublic takes an address for public exactly if its packets arrive at a *)
(* public host, in whatever form it is written, as long as the code can    *)
(* judge it. It passes the ranges of IPv6 that it does not list, and of an *)
(* address behind a local NAT64 it sees what the last 32 bits say.         *)
THEOREM PublicExactly ==
  ASSUME NEW a \in Addrs
  PROVE  /\ Recognised(a) => (IsPublic(a) <=> a.range = "global")
         /\ a.form = "v6" /\ a.range \in Unlisted => IsPublic(a)
         /\ a.form = "localNat64" => (IsPublic(a) <=> a.low = "global")
<1>1. CASE a \in [form : {"v4", "mapped"} \cup Embedding, range : V4Ranges, low : V4Ranges]
            /\ (a.low = a.range \/ a.form = "localNat64")
  <2>1. a.low \in V4Ranges /\ a.form \in {"v4", "mapped"} \cup Embedding
    BY <1>1
  <2>2. IsPublic(a) <=> a.low \notin Predicates \cup blockedPrefixes["v4"]
    <3>1. CASE a.form = "mapped"
      BY <1>1, <3>1 DEF IsPublic, Unmap, IsPublicPlain, Embedding
    <3>2. CASE a.form = "v4"
      BY <1>1, <3>2 DEF IsPublic, Unmap, IsPublicPlain, Embedding
    <3>3. CASE a.form \in Embedding
      BY <1>1, <3>3 DEF IsPublic, Unmap, IsPublicPlain, Embedding
    <3> QED
      BY <2>1, <3>1, <3>2, <3>3
  <2>3. IsPublic(a) <=> a.low = "global"
    BY <2>1, <2>2 DEF V4Ranges, Predicates, blockedPrefixes
  <2>4. a.form # "v6"
    BY <2>1 DEF Embedding
  <2> QED
    BY <2>3, <2>4 DEF Recognised
<1>2. ASSUME NEW r \in V6Ranges, a = [form |-> "v6", range |-> r, low |-> r]
      PROVE  IsPublic(a) <=> r \in {"global"} \cup Unlisted
  <2>1. IsPublic(a) <=> r \notin Predicates \cup blockedPrefixes["v6"]
    BY <1>2 DEF IsPublic, Unmap, IsPublicPlain, Embedding
  <2> QED
    BY <2>1 DEF V6Ranges, Predicates, blockedPrefixes, Unlisted
<1>3. CASE \E r \in V6Ranges : a = [form |-> "v6", range |-> r, low |-> r]
  <2>1. PICK r \in V6Ranges : a = [form |-> "v6", range |-> r, low |-> r]
    BY <1>3
  <2>2. "global" \notin Unlisted
    BY DEF Unlisted
  <2> QED
    BY <1>2, <2>1, <2>2 DEF Recognised
<1> QED
  BY <1>1, <1>3 DEF Addrs

(* What the headers keep: a request that is ready is one that send builds  *)
(* of this configuration and payload, and what says that there is a key is *)
(* right about them.                                                       *)
HeaderInv ==
  /\ \A h \in extra.over : h.by = "payload"
  /\ keyed = HasKey(extra.base \cup extra.over)
  /\ req = {} \/ req \in Requests(extra, secret)

(* What the payload sets is marked as its own from the start. *)
LEMMA HeaderStart == DispatchInit => HeaderInv
<1> SUFFICES ASSUME DispatchInit PROVE \A h \in extra.over : h.by = "payload"
  BY Zenon DEF HeaderInv, DispatchInit
<1>1. ASSUME NEW s \in HeaderSets PROVE \A h \in s.over : h.by = "payload"
  BY DispatchAssumption DEF HeadersBy
<1>2. PICK s \in HeaderSets :
        \/ extra = s
        \/ extra = [s EXCEPT !.over = {}]
        \/ extra = [base |-> {}, over |-> {x \in s.over : x.name \in IdempotencyKeys},
                    name |-> "plain"]
  <2>1. extra \in Extras(kind)
    BY Zenon DEF DispatchInit
  <2> QED
    BY <2>1 DEF Extras
<1>3. [s EXCEPT !.over = {}].over = {}
  BY DispatchAssumption
<1>4. extra.over \subseteq s.over
  <2>1. CASE extra = [base |-> {}, over |-> {x \in s.over : x.name \in IdempotencyKeys},
                      name |-> "plain"]
    BY <2>1
  <2>2. CASE extra = s \/ extra = [s EXCEPT !.over = {}]
    BY <1>3, <2>2, Zenon
  <2> QED
    BY <1>2, <2>1, <2>2, Zenon
<1> QED
  BY <1>1, <1>4

(* Only Build makes a request, out of headers that no step changes.        *)
LEMMA HeaderStep == HeaderInv /\ [DispatchNext]_dispatchVars => HeaderInv'
<1> SUFFICES ASSUME HeaderInv, [DispatchNext]_dispatchVars PROVE HeaderInv'
  OBVIOUS
<1>1. /\ UNCHANGED <<extra, secret, keyed>>
      /\ req' = {} \/ req' = req \/ req' \in Requests(extra, secret)
  <2>1. CASE Build
    BY <2>1 DEF Build, setup, vars
  <2>2. CASE \E a : Post(a)
    BY <2>2 DEF Post, Written, setup, config
  <2>3. CASE Written /\ UNCHANGED req
    BY <2>3 DEF Written, setup, config
  <2>4. CASE DialFails
    BY <2>4 DEF DialFails, setup, config
  <2>5. CASE ReadAnswer \/ Close
    BY <2>5 DEF ReadAnswer, Read, Close, setup, config, vars
  <2>6. CASE /\ \/ Begin \/ Decode \/ ExecuteCustom \/ SignLocal \/ SignRemote
                \/ CheckKeyID \/ Conclude \/ Promote
             /\ UNCHANGED netVars
    <3>1. UNCHANGED config
      BY <2>6, Zenon DEF Begin, Decode, ExecuteCustom, SignLocal, SignRemote,
                         CheckKeyID, Conclude, Promote
    <3> QED
      BY <2>6, <3>1 DEF netVars, config
  <2>7. CASE UNCHANGED dispatchVars
    BY <2>7 DEF dispatchVars, netVars, vars
  <2>8. Reuse \/ Dial => (\E a : Post(a)) \/ (Written /\ UNCHANGED req)
    BY DEF Reuse, Dial
  <2> QED
    BY <2>1, <2>2, <2>3, <2>4, <2>5, <2>6, <2>7, <2>8 DEF DispatchNext
<1>2. /\ Requests(extra, secret)' = Requests(extra, secret)
      /\ HasKey(extra.base \cup extra.over)' = HasKey(extra.base \cup extra.over)
  BY <1>1
<1> QED
  BY <1>1, <1>2 DEF HeaderInv

(* What send builds is as promised, for any headers and any secrets.       *)
LEMMA RequestAsPromised ==
  ASSUME NEW ex, NEW sec, NEW r \in Requests(ex, sec), \A h \in ex.over : h.by = "payload"
  PROVE  /\ \A h \in r : h.name \in Reserved => h.by = "mkqd"
         /\ (\E h \in r : h.name = "X-Mkqd-Signature") <=> sec.base \/ sec.over
         /\ \A h \in ex.over : h.name \notin Reserved =>
              \/ \E q \in r : q.name = h.name /\ q.by = "payload"
              \/ \E b \in ex.base : b.name = h.name /\ b.as # h.as
         /\ \A h \in r : validHeaderValue(h.value)
         /\ \A h \in r : h.name \in Reserved \/ \E m \in ex.base \cup ex.over : m.name = h.name
<1> DEFINE merged == {h \in mergeHeaders(ex.base, ex.over) : ~isReservedHeader(h)}
           names == {h.name : h \in merged}
           own == OwnHeaders(sec)
           value(n) == IF n = "X-Mkqd-Job-Name" THEN sanitizeHeaderValue(ex.name) ELSE "plain"
<1>1. PICK last \in [names -> merged] :
        /\ \A n \in names : last[n].name = n
        /\ r = {[name |-> n, by |-> "mkqd", value |-> value(n)] : n \in own} \cup
               {[name |-> n, by |-> last[n].by, value |-> "plain"] : n \in names \ own}
  BY Zenon DEF Requests
<1>2. names \cap Reserved = {}
  BY DEF isReservedHeader
<1>3. own \subseteq Reserved /\ "X-Mkqd-Signature" \in Reserved
  BY DEF OwnHeaders, Reserved
<1>4. "X-Mkqd-Signature" \in own <=> sec.base \/ sec.over
  BY <1>3 DEF OwnHeaders
<1>5. \A n : value(n) # "odd"
  BY DEF sanitizeHeaderValue
<1> HIDE DEF value, own
<1>6. /\ \A h \in r : (h.name \in own /\ h.by = "mkqd" /\ h.value # "odd")
                      \/ (h.name \in names /\ h.value = "plain")
      /\ \A n \in own : \E h \in r : h.name = n
      /\ \A n \in names \ own : \E h \in r : h.name = n /\ h.by = last[n].by
  <2> DEFINE mine(n) == [name |-> n, by |-> "mkqd", value |-> value(n)]
             given(n) == [name |-> n, by |-> last[n].by, value |-> "plain"]
  <2>1. r = {mine(n) : n \in own} \cup {given(n) : n \in names \ own}
    BY <1>1
  <2>2. \A n : mine(n).name = n /\ mine(n).by = "mkqd" /\ mine(n).value # "odd"
    BY <1>5
  <2>3. \A n : given(n).name = n /\ given(n).by = last[n].by /\ given(n).value = "plain"
    OBVIOUS
  <2> HIDE DEF mine, given, names, merged
  <2>4. \A h \in r : (\E n \in own : h = mine(n)) \/ (\E n \in names : h = given(n))
    BY <2>1
  <2>5. (\A n \in own : mine(n) \in r) /\ (\A n \in names \ own : given(n) \in r)
    BY <2>1
  <2>6. ASSUME NEW h \in r
        PROVE  \/ h.name \in own /\ h.by = "mkqd" /\ h.value # "odd"
               \/ h.name \in names /\ h.value = "plain"
    <3>1. CASE \E n \in own : h = mine(n)
      BY <2>2, <3>1, Zenon
    <3>2. ASSUME NEW n \in names, h = given(n) PROVE h.name \in names /\ h.value = "plain"
      BY <2>3, <3>2, Zenon
    <3> QED
      BY <2>4, <3>1, <3>2, Zenon
  <2>7. \A n \in own : \E h \in r : h.name = n
    BY <2>2, <2>5, Zenon
  <2>8. \A n \in names \ own : \E h \in r : h.name = n /\ h.by = last[n].by
    <3>1. ASSUME NEW n \in names \ own
          PROVE  given(n) \in r /\ given(n).name = n /\ given(n).by = last[n].by
      BY <2>3, <2>5, Zenon
    <3> QED
      BY <3>1, Zenon
  <2> QED
    BY <2>6, <2>7, <2>8
<1>7. ASSUME NEW h \in ex.over, h.name \notin Reserved
      PROVE  \/ \E q \in r : q.name = h.name /\ q.by = "payload"
             \/ \E b \in ex.base : b.name = h.name /\ b.as # h.as
  <2>1. h \in merged /\ h.name \in names
    BY <1>7 DEF mergeHeaders, isReservedHeader
  <2> DEFINE l == last[h.name]
  <2>2. l \in merged /\ l.name = h.name
    BY <1>1, <2>1
  <2>3. PICK q \in r : q.name = h.name /\ q.by = l.by
    BY <1>3, <1>6, <1>7, <2>1
  <2> HIDE DEF l, names
  <2>4. l \in ex.over \/ (l \in ex.base /\ <<l.name, l.as>> # <<h.name, h.as>>)
    BY <2>2 DEF mergeHeaders
  <2> QED
    BY <2>2, <2>3, <2>4
<1>8. \A n \in names : \E m \in ex.base \cup ex.over : m.name = n
  BY DEF mergeHeaders
<1> HIDE DEF names, merged
<1>9. \A h \in r : h.name \in Reserved \/ \E m \in ex.base \cup ex.over : m.name = h.name
  BY <1>3, <1>6, <1>8
<1>10. \A h \in r : h.name \in Reserved => h.by = "mkqd"
  BY <1>2, <1>6
<1>11. (\E h \in r : h.name = "X-Mkqd-Signature") <=> sec.base \/ sec.over
  BY <1>2, <1>3, <1>4, <1>6
<1>12. \A h \in r : validHeaderValue(h.value)
  BY <1>6 DEF validHeaderValue
<1> QED
  BY <1>7, <1>9, <1>10, <1>11, <1>12

(* Every request that goes out carries the headers that are promised, for  *)
(* any headers and secrets of configuration and payload and any name of a  *)
(* job (httpexec.go, send; webhook.go, mergeHeaders).                      *)
THEOREM HeadersHold == DispatchSpec => []HeadersAsPromised
<1>1. HeaderInv => HeadersAsPromised
  BY RequestAsPromised DEF HeaderInv, HeadersAsPromised
<1> QED
  BY <1>1, HeaderStart, HeaderStep, PTL DEF DispatchSpec

(* A request that net/http would send twice has its key from configuration *)
(* or payload: none of the headers that mkqd sets by itself is one.        *)
LEMMA KeyGiven == HeaderInv /\ isReplayable => keyed
<1> SUFFICES ASSUME HeaderInv, isReplayable PROVE HasKey(extra.base \cup extra.over)
  BY DEF HeaderInv
<1>1. CASE kind = "deliver"
  BY <1>1 DEF isReplayable, HasKey
<1>2. CASE kind # "deliver"
  <2>1. PICK h \in req : h.name \in IdempotencyKeys
    BY <1>2 DEF isReplayable, HasKey
  <2>2. req \in Requests(extra, secret)
    BY <2>1 DEF HeaderInv
  <2>3. h.name \in Reserved \/ \E m \in extra.base \cup extra.over : m.name = h.name
    BY <2>2, RequestAsPromised DEF HeaderInv
  <2>4. h.name \notin Reserved
    BY <2>1 DEF IdempotencyKeys, Reserved
  <2> QED
    BY <2>1, <2>3, <2>4 DEF HasKey
<1> QED
  BY <1>1, <1>2

(* Every step of a request or a connection is a step of Attempt, or none.  *)
LEMMA DispatchStep == HeaderInv /\ [DispatchNext]_dispatchVars => [Next]_vars
<1> SUFFICES ASSUME HeaderInv, [DispatchNext]_dispatchVars PROVE [Next]_vars
  OBVIOUS
<1>p. ASSUME NEW a, pc = "send", Post(a) PROVE Send
  BY <1>p DEF Post, Written, Send
<1>1. CASE Build
  BY <1>1 DEF Build
<1>2. CASE Reuse
  <2>1. pc = "send"
    BY <1>2 DEF Reuse, Ready
  <2>2. CASE Post(idle)
    BY <1>p, <2>1, <2>2 DEF Next
  <2>3. CASE /\ isReplayable /\ sent < MaxResends
             /\ Written /\ Unanswered
             /\ UNCHANGED <<pc, result, req, peer>>
    BY <2>1, <2>3, KeyGiven DEF Written, Resend, Next
  <2> QED
    BY <1>2, <2>2, <2>3 DEF Reuse
<1>3. CASE Dial
  BY <1>3, <1>p DEF Dial, Ready, Next
<1>4. CASE DialFails
  BY <1>4 DEF DialFails, Ready, Send, Next
<1>5. CASE ReadAnswer
  BY <1>5 DEF ReadAnswer, Next
<1>6. CASE Close
  BY <1>6 DEF Close
<1>7. CASE \/ Begin \/ Decode \/ ExecuteCustom \/ SignLocal \/ SignRemote
           \/ CheckKeyID \/ Conclude \/ Promote
  BY <1>7 DEF Next
<1>8. CASE UNCHANGED dispatchVars
  BY <1>8 DEF dispatchVars
<1> QED
  BY <1>1, <1>2, <1>3, <1>4, <1>5, <1>6, <1>7, <1>8 DEF DispatchNext

(* With requests and connections in detail, and with what net/http sends   *)
(* again by itself, the queue sees no more than what module Attempt        *)
(* describes (httpexec.go, send; apdeliver.go, Execute).                   *)
THEOREM DispatchImplementsAttempt == DispatchSpec => ImplementsAttempt
<1>1. DispatchInit => Init
  BY DEF DispatchInit
<1> QED
  BY <1>1, HeaderStart, HeaderStep, DispatchStep, PTL
  DEF DispatchSpec, Spec, ImplementsAttempt

(* One request per attempt on whatever connection, redirected or broken,   *)
(* unless configuration or payload have an idempotency key among their     *)
(* headers: mkqd adds none (httpexec.go, send; httpsend.go, NewClient).    *)
THEOREM DispatchRequestsOnce == DispatchSpec => []OneRequestPerAttempt
BY DispatchImplementsAttempt, RequestedOnce, PTL DEF ImplementsAttempt

(* So a success is still counted once, whatever the connections do.        *)
THEOREM DispatchCountsOnce == DispatchSpec => []SuccessCountsOnce
BY DispatchImplementsAttempt, CountsOnce, PTL DEF ImplementsAttempt

(* A job fails for a documented reason or at its last attempt only, also   *)
(* when its headers cannot be sent or the guard refuses its destination.   *)
THEOREM DispatchFailsForCause == DispatchSpec => []GivesUpForCause
BY DispatchImplementsAttempt, FailsForCause, PTL DEF ImplementsAttempt

(* And the next attempt waits as long as the last answer asked, up to the  *)
(* cap, whatever connection the answer came on.                            *)
THEOREM DispatchWaitsAsAsked == DispatchSpec => []DelayHonoured
BY DispatchImplementsAttempt, WaitsAsAsked, PTL DEF ImplementsAttempt

(* No connection is dialled or reused for a payload with a defect. *)
THEOREM DispatchSendsNoDefect == DispatchSpec => []DefectNeverSent
BY DispatchImplementsAttempt, DefectsStay, PTL DEF ImplementsAttempt

(* What the guard keeps: both promises, and that the destination is one of *)
(* the configured ones.                                                    *)
GuardInv == host \in Hosts /\ ReachesOnlyPublic /\ GuardSparesPublic

(* No address was reached and none is kept before the first attempt.       *)
LEMMA GuardStart == DispatchInit => GuardInv
BY DEF DispatchInit, GuardInv, ReachesOnlyPublic, GuardSparesPublic

(* A request sent to an address that the guard lets pass keeps GuardInv.   *)
LEMMA PostKeeps ==
  ASSUME NEW a, GuardInv, Post(a),
         guarded => a = None \/ (Recognised(a) => a.range = "global")
  PROVE  GuardInv'
<1>1. UNCHANGED <<guarded, host, blocked>> /\ idle' = None /\ peer' \in {None, a}
  BY DEF Post, Written, setup
<1> QED
  BY <1>1 DEF GuardInv, ReachesOnlyPublic, GuardSparesPublic, None

(* Only a dial that passed the guard adds an address. *)
LEMMA GuardStep == GuardInv /\ [DispatchNext]_dispatchVars => GuardInv'
<1> SUFFICES ASSUME GuardInv, [DispatchNext]_dispatchVars PROVE GuardInv'
  OBVIOUS
<1>l. ASSUME NEW addrs \in host.lists
      PROVE  /\ 1 \in DOMAIN addrs
             /\ \A i \in DOMAIN addrs : addrs[i] \in Addrs
             /\ host.always => \A i \in DOMAIN addrs : addrs[i].range = "global" /\ Recognised(addrs[i])
  BY <1>l, DispatchAssumption DEF GuardInv
<1>1. CASE Build
  BY <1>1 DEF Build, setup, GuardInv, ReachesOnlyPublic, GuardSparesPublic
<1>2. CASE Reuse
  <2>1. guarded => idle = None \/ (Recognised(idle) => idle.range = "global")
    BY DEF GuardInv, ReachesOnlyPublic
  <2>2. CASE Post(idle)
    BY <2>1, <2>2, PostKeeps
  <2>3. CASE Written /\ UNCHANGED peer
    BY <2>3 DEF Written, setup, GuardInv, ReachesOnlyPublic, GuardSparesPublic
  <2> QED
    BY <1>2, <2>2, <2>3 DEF Reuse
<1>3. CASE Dial
  <2>1. PICK addrs \in host.lists :
          \E a \in (IF UsesProxy(guarded) THEN {addrs[i] : i \in DOMAIN addrs}
                    ELSE Connects(guarded, addrs)) : Post(a)
    BY <1>3 DEF Dial
  <2>2. PICK a \in (IF UsesProxy(guarded) THEN {addrs[i] : i \in DOMAIN addrs}
                    ELSE Connects(guarded, addrs)) : Post(a)
    BY <2>1
  <2>3. ASSUME guarded, Recognised(a) PROVE a.range = "global"
    <3>1. PICK i \in DOMAIN addrs : a = addrs[i] /\ CheckAddr(guarded, addrs[i])
      BY <2>2, <2>3, Zenon DEF UsesProxy, Connects
    <3>2. addrs[i] \in Addrs
      BY <1>l
    <3> QED
      BY <2>3, <3>1, <3>2, PublicExactly DEF CheckAddr
  <2> QED
    BY <2>2, <2>3, PostKeeps
<1>4. CASE DialFails
  <2>1. UNCHANGED <<guarded, host, peer, idle>>
    BY <1>4 DEF DialFails, setup
  <2>2. CASE blocked' => blocked
    BY <2>1, <2>2 DEF GuardInv, ReachesOnlyPublic, GuardSparesPublic
  <2>3. CASE blocked' /\ ~blocked
    <3>1. PICK addrs \in host.lists : "blocked" \in DialErrors(guarded, addrs)
      <4>1. PICK addrs \in host.lists, e \in DialFaults :
              e \in DialErrors(guarded, addrs) /\ blocked' = (blocked \/ e = "blocked")
        BY <1>4, Zenon DEF DialFails
      <4>2. e = "blocked"
        BY <2>3, <4>1, Zenon
      <4> QED
        BY <4>1, <4>2, Zenon
    <3>2. ~CheckAddr(guarded, addrs[1])
      BY <3>1 DEF DialErrors
    <3>3. guarded /\ ~(addrs[1].range = "global" /\ Recognised(addrs[1]))
      BY <1>l, <3>2, PublicExactly DEF CheckAddr
    <3>4. ~host.always
      BY <1>l, <3>3
    <3> QED
      BY <2>1, <3>3, <3>4 DEF GuardInv, ReachesOnlyPublic, GuardSparesPublic
  <2> QED
    BY <2>2, <2>3
<1>5. CASE ReadAnswer
  <2>1. UNCHANGED <<guarded, host, blocked>> /\ peer' = None /\ idle' \in {None, peer}
    BY <1>5 DEF ReadAnswer, setup
  <2> QED
    BY <2>1 DEF GuardInv, ReachesOnlyPublic, GuardSparesPublic
<1>6. CASE Close
  BY <1>6 DEF Close, setup, GuardInv, ReachesOnlyPublic, GuardSparesPublic
<1>7. CASE UNCHANGED netVars
  BY <1>7 DEF netVars, GuardInv, ReachesOnlyPublic, GuardSparesPublic
<1> QED
  BY <1>1, <1>2, <1>3, <1>4, <1>5, <1>6, <1>7 DEF DispatchNext, dispatchVars

(* With the guard on, no request of any attempt to an address that the     *)
(* code can judge arrives anywhere but at a public host, for every list of *)
(* addresses a name may resolve to at each dial (safedial.go; httpsend.go, *)
(* NewClient).                                                             *)
THEOREM GuardHolds == DispatchSpec => []ReachesOnlyPublic
<1>1. GuardInv => ReachesOnlyPublic
  BY DEF GuardInv
<1> QED
  BY <1>1, GuardStart, GuardStep, PTL DEF DispatchSpec

(* And it fails no job whose destination is public (httpexec.go, send).    *)
THEOREM GuardFailsNoPublic == DispatchSpec => []GuardSparesPublic
<1>1. GuardInv => GuardSparesPublic
  BY DEF GuardInv
<1> QED
  BY <1>1, GuardStart, GuardStep, PTL DEF DispatchSpec

=============================================================================
