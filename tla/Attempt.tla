------------------------------ MODULE Attempt ------------------------------
(***************************************************************************)
(* One job on its way through the built-in executors (executor/httpexec,   *)
(* executor/apdeliver) and the runtime's retryDelay: each attempt decodes  *)
(* the payload, has it signed, posts it, reads the answer and classifies   *)
(* it; mkq then completes the job, fails it or schedules another attempt.  *)
(*                                                                         *)
(* The network may lose a request, an answer or the rest of an answer, the *)
(* endpoint and the signer may give any answer, and the executor's timeout *)
(* may strike at each of the three; what the endpoint did is then unknown. *)
(* `ground` records the reasons to give up that the world provides, before *)
(* anything is said of what Execute makes of them.                         *)
(***************************************************************************)
EXTENDS RetryAfter

CONSTANTS
  Kinds,        \* the executors: of "http", "webhook", "deliver", "custom"
  Signers,      \* the signers of "deliver": of "file", "dir", "remote"
  Statuses,     \* the statuses the endpoint and the signer answer with
  Hints,        \* the Retry-After headers they send
  Now,          \* the time of an answer
  Backoff,      \* the configured delay between attempts
  MaxAttempts,  \* the job's attempts
  MaxResends    \* bound: how often the transport sends one request again

ASSUME AttemptAssumption ==
  /\ Kinds \subseteq {"http", "webhook", "deliver", "custom"}
  /\ Signers \subseteq {"file", "dir", "remote"}
  /\ Statuses \subseteq 100..599
  /\ Hints \subseteq Headers
  /\ Now \in Durations /\ Backoff \in Nat
  /\ MaxAttempts \in Nat \ {0}
  /\ MaxResends \in Nat

VARIABLES
  job,       \* mkq's state of the job
  made,      \* attemptsMade
  kind,      \* the executor of its queue
  signer,    \* the signer of a "deliver" executor
  fault,     \* what is wrong with the payload, or "none"
  keyed,     \* whether its requests carry an idempotency key
  pc,        \* where the running attempt is
  resp,      \* the answer of the endpoint
  result,    \* what Execute returns
  delay,     \* the delay mkq gives the next attempt
  sent,      \* history: requests of this attempt that were written
  accepted,  \* history: requests the endpoint answered with success
  unread,    \* history: those of them whose answer was not read
  ground     \* history: whether a documented reason to give up was met

vars == <<job, made, kind, signer, fault, keyed, pc, resp, result, delay,
          sent, accepted, unread, ground>>
config == <<kind, signer, fault, keyed>>
mkqVars == <<job, made, delay>>
----------------------------------------------------------------------------
Is2xx(s) == s \in 200..299
Answers == [status : Statuses, no : BOOLEAN, after : Hints]
NoAnswer == [status |-> 0, no |-> FALSE, after |-> [form |-> "none", n |-> 0]]

(* What Execute returns: nil, permanent(...) or an error, with a hint. *)
Nil       == [what |-> "nil", hint |-> Declined]
Permanent == [what |-> "permanent", hint |-> Declined]
Error     == [what |-> "error", hint |-> Declined]
DelayHints == [ok : BOOLEAN, d : Durations]
Results   == [what : {"nil", "permanent", "error"}, hint : DelayHints]

(* What can be wrong with a payload: for an http executor, data that does  *)
(* not encode; for a webhook, JSON, target or headers; for a delivery, the *)
(* same and its body and content type, a key the signer does not hold      *)
(* ("unknown") and one that no Signature header can carry ("keyid").       *)
HTTPFaults    == {"json"}
WebhookFaults == {"json", "url", "headers"}
DeliverFaults == {"json", "body", "contentType", "url", "headers", "unknown", "keyid"}

Faults(k) ==
  CASE k = "http"    -> HTTPFaults
    [] k = "webhook" -> WebhookFaults
    [] k = "deliver" -> DeliverFaults
    [] OTHER -> {}

SignersOf(k) == IF k = "deliver" THEN Signers ELSE {"none"}

TypeOK ==
  /\ job \in {"wait", "active", "delayed", "completed", "failed"}
  /\ made \in 0..MaxAttempts
  /\ kind \in Kinds /\ signer \in SignersOf(kind)
  /\ fault \in Faults(kind) \cup {"none"} /\ keyed \in BOOLEAN
  /\ pc \in {"idle", "decode", "sign", "check", "send", "read", "done"}
  /\ resp \in Answers \cup {NoAnswer}
  /\ result \in Results
  /\ delay \in Nat
  /\ sent \in Nat /\ accepted \in Nat /\ unread \in Nat /\ ground \in BOOLEAN

(* A job was added to the queue. *)
Init ==
  /\ job = "wait" /\ made = 0 /\ delay = 0
  /\ kind \in Kinds /\ signer \in SignersOf(kind)
  /\ fault \in Faults(kind) \cup {"none"} /\ keyed \in BOOLEAN
  /\ pc = "idle" /\ resp = NoAnswer /\ result = Error
  /\ sent = 0 /\ accepted = 0 /\ unread = 0 /\ ground = FALSE

----------------------------------------------------------------------------
(***************************************************************************)
(* Execute.                                                                *)
(***************************************************************************)

(* A worker takes the job and calls the executor's handler. *)
Begin ==
  /\ job = "wait"
  /\ job' = "active" /\ pc' = "decode"
  /\ resp' = NoAnswer /\ result' = Error /\ sent' = 0
  /\ UNCHANGED <<config, made, delay, accepted, unread, ground>>

Returns(r) == pc' = "done" /\ result' = r
GoesOn(to) == pc' = to /\ UNCHANGED result

(* The world provides a reason to give up, or it does not. *)
Met(reason) == ground' = (ground \/ reason)

(* What a payload can have that makes every attempt at it vain. *)
Undeliverable == {"json", "body", "contentType", "url", "headers"}

(* Payload checks; those of the signing key come with the signature. *)
Decode ==
  /\ pc = "decode" /\ kind # "custom"
  /\ IF fault \in {"none", "unknown", "keyid"}
     THEN GoesOn(IF kind = "deliver" THEN "sign" ELSE "send")
     ELSE Returns(Permanent)
  /\ Met(fault \in Undeliverable)
  /\ UNCHANGED <<config, mkqVars, resp, sent, accepted, unread>>

(* A custom executor returns what it likes, RetryAfterError included. *)
ExecuteCustom ==
  /\ pc = "decode" /\ kind = "custom"
  /\ \E w \in {"nil", "permanent", "error"}, h \in Hints :
       /\ Returns([what |-> w,
                   hint |-> IF w # "nil" /\ h.form = "seconds"
                            THEN Delay(Saturate(h.n * Second)) ELSE Declined])
       /\ accepted' = IF w = "nil" THEN accepted + 1 ELSE accepted
       /\ Met(w = "permanent")
  /\ UNCHANGED <<config, mkqVars, resp, sent, unread>>

(* isNoSuchKey without its look at the content type. *)
isNoSuchKeyBare(status, json) == status \in {404, 410}

(* A missing route is not a missing key: a 404 counts only with JSON. *)
isNoSuchKey(status, json) == status = 410 \/ (status = 404 /\ json)

(* remoteSigner.Sign. An answer may be cut short, and a whole one may hold *)
(* no usable signature, or one by another key.                             *)
remoteSign(a) ==
  IF isNoSuchKey(a.status, a.json) THEN "unknown"
  ELSE IF a.whole /\ Is2xx(a.status) /\ a.signature THEN "signed"
  ELSE "error"

(* SignRequest, and what Execute makes of its failure: an unknown key is   *)
(* permanent, a failure to sign is not.                                    *)
SignRequest(s) ==
  \/ s = "signed" /\ GoesOn("check")
  \/ s = "unknown" /\ Returns(Permanent)
  \/ s = "error" /\ Returns(Error)

(* A file signer refuses every key but its own, a dir signer the ones it   *)
(* has no file for; while a file is replaced that is one it should have.   *)
SignLocal ==
  /\ pc = "sign" /\ signer \in {"file", "dir"}
  /\ \E s \in IF fault = "unknown" \/ (signer = "file" /\ fault = "keyid")
               THEN {"unknown"}
               ELSE {"signed", "error"} \cup (IF signer = "dir" THEN {"unknown"} ELSE {}) :
       SignRequest(s) /\ Met(s = "unknown")
  /\ UNCHANGED <<config, mkqVars, resp, sent, accepted, unread>>

(* What keeps a request from going out: the guard refuses the address, or  *)
(* the network fails.                                                      *)
DialFaults == {"blocked", "failed"}

(* errors.Is(err, safedial.ErrBlocked). *)
isBlocked(e) == e = "blocked"

(* client.Do without an answer: permanent when the guard refused. *)
NotSent(e) ==
  /\ Returns(IF isBlocked(e) THEN Permanent ELSE Error)
  /\ Met(e = "blocked")

(* A remote signer is out of reach, blocked by the dialer (the operator's  *)
(* mistake), or answers; it says that it has no key with a 410 or with a   *)
(* 404 of its own, and signs for no key it does not have.                  *)
SignRemote ==
  /\ pc = "sign" /\ signer = "remote"
  /\ \/ \E e \in DialFaults : NotSent(e)
     \/ \E a \in [status : Statuses, json : BOOLEAN, whole : BOOLEAN, signature : BOOLEAN] :
          /\ fault = "unknown" => ~Is2xx(a.status)
          /\ SignRequest(remoteSign(a))
          /\ Met(a.status = 410 \/ (a.status = 404 /\ a.json))
  /\ UNCHANGED <<config, mkqVars, resp, sent, accepted, unread>>

(* validateKeyID, on the signature that came back. *)
CheckKeyID ==
  /\ pc = "check"
  /\ IF fault = "keyid" THEN Returns(Error) ELSE GoesOn("send")
  /\ UNCHANGED <<config, mkqVars, resp, sent, accepted, unread, ground>>

(* A request is written and no answer comes: the endpoint has accepted it, *)
(* or has not.                                                             *)
Unanswered ==
  /\ sent' = sent + 1
  /\ \/ UNCHANGED <<accepted, unread>>
     \/ accepted' = accepted + 1 /\ unread' = unread + 1
  /\ UNCHANGED resp

(* A request is written and answered with a. *)
Answered(a) ==
  /\ sent' = sent + 1
  /\ accepted' = IF Is2xx(a.status) THEN accepted + 1 ELSE accepted
  /\ resp' = a
  /\ UNCHANGED unread

(* client.Do: not sent, lost on either way, or answered. *)
Send ==
  /\ pc = "send"
  /\ \/ (\E e \in DialFaults : NotSent(e)) /\ UNCHANGED <<resp, sent, accepted, unread>>
     \/ Unanswered /\ Returns(Error) /\ UNCHANGED ground
     \/ (\E a \in Answers : Answered(a)) /\ GoesOn("read") /\ UNCHANGED ground
  /\ UNCHANGED <<config, mkqVars>>

(* Within client.Do, net/http (external) sends a request again that got no *)
(* answer on a connection it had used before, if it carries an idempotency *)
(* key; its body can be had again, since bytes.NewReader gives a GetBody.  *)
Resend ==
  /\ pc = "send" /\ keyed /\ sent < MaxResends
  /\ Unanswered
  /\ UNCHANGED <<config, mkqVars, pc, result, ground>>

(* classify of httpexec, where X-Mkqd-Retry: no makes a failure final, and *)
(* of apdeliver, where what the fediverse takes for transient is retried.  *)
httpClassify(a) ==
  CASE Is2xx(a.status) -> "success"
    [] ~Is2xx(a.status) /\ (a.no \/ a.status \in (300..399) \cup {400, 409, 410, 422})
         -> "permanent"
    [] OTHER -> "retry"

deliverClassify(a) ==
  CASE Is2xx(a.status) -> "success"
    [] a.status \in (300..499) \ {401, 408, 429} -> "permanent"
    [] OTHER -> "retry"

classify(k, a) == IF k = "deliver" THEN deliverClassify(a) ELSE httpClassify(a)

(* Execute's switch over the class of the answer. *)
Outcome(k, a) ==
  CASE classify(k, a) = "success"   -> Nil
    [] classify(k, a) = "permanent" -> Permanent
    [] OTHER -> [Error EXCEPT !.hint = RetryAfter(ParseRetryAfter(a.after, Now))]

(* The answers that fail a job for good, as the README has them: the       *)
(* statuses of its two tables and, for a dispatch, X-Mkqd-Retry: no.       *)
Refuses(k, a) ==
  IF k = "deliver" THEN a.status \in 300..499 /\ a.status \notin {401, 408, 429}
  ELSE a.status \in 300..399 \/ a.status \in {400, 409, 410, 422} \/ a.no

(* The reason to give up that an answer is. A success never is one: that   *)
(* is what the comment in classify says of X-Mkqd-Retry, and not what the  *)
(* README says (RefusalIsFinal).                                           *)
Fatal(k, a) == Refuses(k, a) /\ ~Is2xx(a.status)

(* A body that is cut short is not looked at: classification comes after.  *)
ReadJudgesFirst ==
  /\ pc = "read"
  /\ Returns(Outcome(kind, resp))
  /\ \/ UNCHANGED <<resp, unread>> /\ Met(Fatal(kind, resp))
     \/ /\ unread' = IF Is2xx(resp.status) THEN unread + 1 ELSE unread
        /\ resp' = NoAnswer /\ UNCHANGED ground
  /\ UNCHANGED <<config, mkqVars, sent, accepted>>

(* ReadBody and the switch: an answer whose body is cut short is an error, *)
(* whatever its status.                                                    *)
Read ==
  /\ pc = "read"
  /\ \/ /\ Returns(Outcome(kind, resp))
        /\ Met(Fatal(kind, resp))
        /\ UNCHANGED <<resp, unread>>
     \/ /\ Returns(Error)
        /\ unread' = IF Is2xx(resp.status) THEN unread + 1 ELSE unread
        /\ resp' = NoAnswer
        /\ UNCHANGED ground
  /\ UNCHANGED <<config, mkqVars, sent, accepted>>

----------------------------------------------------------------------------
(***************************************************************************)
(* mkq, as the runtime uses it (external).                                 *)
(***************************************************************************)

(* Another attempt, after the runtime's delay or the configured one. *)
Retry ==
  LET over == retryDelay(result.hint) IN
  /\ result.what = "error" /\ made + 1 < MaxAttempts
  /\ delay' = IF over.ok THEN over.d ELSE Backoff
  /\ job' = IF delay' > 0 THEN "delayed" ELSE "wait"
  /\ made' = made + 1

Complete ==
  /\ result.what = "nil"
  /\ job' = "completed" /\ made' = made + 1 /\ UNCHANGED delay

(* ErrUnrecoverable, or the last attempt: decided before any delay is. *)
Fail ==
  /\ result.what = "permanent" \/ (result.what = "error" /\ made + 1 >= MaxAttempts)
  /\ job' = "failed" /\ made' = made + 1 /\ UNCHANGED delay

Conclude ==
  /\ pc = "done" /\ pc' = "idle"
  /\ Complete \/ Fail \/ Retry
  /\ UNCHANGED <<config, resp, result, sent, accepted, unread, ground>>

(* The delay is over. *)
Promote ==
  /\ job = "delayed" /\ job' = "wait"
  /\ UNCHANGED <<config, made, delay, pc, resp, result, sent, accepted, unread, ground>>

Next ==
  \/ Begin \/ Decode \/ ExecuteCustom \/ SignLocal \/ SignRemote
  \/ CheckKeyID \/ Send \/ Resend \/ Read \/ Conclude \/ Promote

Spec == Init /\ [][Next]_vars

----------------------------------------------------------------------------
(***************************************************************************)
(* Properties.                                                             *)
(***************************************************************************)

(* Between attempts, the job is completed exactly when one success of the  *)
(* endpoint was read to its end. So the endpoint sees the job again after  *)
(* it has accepted it only if each earlier acceptance was lost on the way  *)
(* back (send, Execute: ReadBody fails after a 2xx), and a job that failed *)
(* or waits has no success that mkqd knows of.                             *)
SuccessCountsOnce ==
  pc = "idle" => accepted - unread = (IF job = "completed" THEN 1 ELSE 0)

(* A job is given up only for a reason that lies in the payload, the       *)
(* signer, the address or the answer (Met): bad luck with the network, the *)
(* endpoint or the signer over several attempts fails it no earlier than   *)
(* its last attempt. And such a reason ends it at once. The reasons are    *)
(* those of the README's "The HTTP dispatch contract" and "Delivery        *)
(* outcomes", except that a 2xx is none (Decode, Sign, isBlocked,          *)
(* classify).                                                              *)
GivesUpForCause ==
  /\ job = "failed" => ground \/ made = MaxAttempts
  /\ ground => job \in {"active", "failed"}

(* A retry waits as long as the server asked, computed in integers of no   *)
(* width, but no longer than the cap; the configured backoff stands when   *)
(* the server asked for nothing (ParseRetryAfter, RetryAfter, retryDelay). *)
DelayHonoured ==
  pc = "idle" /\ made > 0 /\ job \in {"wait", "delayed"} /\ resp # NoAnswer =>
    delay = IF Honoured(resp.after, Now).ok THEN Honoured(resp.after, Now).d
            ELSE Backoff

(* The endpoint gets one request per attempt, whatever breaks or redirects *)
(* (README, "the application answers one request per attempt"), unless     *)
(* configuration or payload give it an idempotency key: client.Do then     *)
(* may send it again by itself.                                            *)
OneRequestPerAttempt == sent > 1 => keyed

(* The inductive form of these: where a success that was read is held      *)
(* during an attempt, which attempts end in a permanent failure, that the  *)
(* result of an attempt is the one its answer calls for, and what may have *)
(* been written before client.Do returns.                                  *)
AttemptInv ==
  /\ TypeOK
  /\ pc = "idle" <=> job # "active"
  /\ job \notin {"completed", "failed"} => made < MaxAttempts
  /\ accepted - unread =
       IF \/ job = "completed"
          \/ pc = "read" /\ Is2xx(resp.status)
          \/ pc = "done" /\ result.what = "nil"
       THEN 1 ELSE 0
  /\ job = "failed" => ground \/ made = MaxAttempts
  /\ ground => job = "failed" \/ (pc = "done" /\ result.what = "permanent")
  /\ pc = "done" /\ result.what = "permanent" => ground
  /\ pc = "read" => resp \in Answers
  /\ pc \in {"decode", "sign", "check", "send"} => resp = NoAnswer
  /\ pc = "done" /\ resp # NoAnswer => result = Outcome(kind, resp)
  /\ pc \in {"decode", "sign", "check"} => sent = 0
  /\ pc = "send" => sent = 0 \/ keyed
  /\ OneRequestPerAttempt
  /\ DelayHonoured

(* README: a status that its tables call a permanent failure fails the job *)
(* permanently, and so does X-Mkqd-Retry: no "whatever the status says",   *)
(* once the answer is read (classify of httpexec).                         *)
RefusalIsFinal ==
  [][pc = "read" /\ resp' = resp /\ Refuses(kind, resp) => result'.what = "permanent"]_vars

(* apdeliver.go, Execute: every defect of the payload is a permanent       *)
(* failure; here, of a payload whose key id the signer has signed with.    *)
BadPayloadIsPermanent ==
  [][pc = "check" /\ fault # "none" /\ pc' = "done" => result'.what = "permanent"]_vars

(* The defects that an executor finds out by itself: all but a key that a  *)
(* remote signer does not have or that only validateKeyID refuses.         *)
FoundAtOnce ==
  fault \in {"unknown", "keyid"} => signer = "file" \/ (signer = "dir" /\ fault = "unknown")

(* What remains of that for every defect: nothing is ever sent for such a  *)
(* payload and its job does not complete. Those found at once have one     *)
(* attempt.                                                                *)
DefectNeverSent ==
  fault # "none" =>
    /\ pc \notin {"send", "read"} /\ accepted = 0 /\ job # "completed"
    /\ FoundAtOnce => made = 0 \/ (made = 1 /\ job = "failed")

============================================================================
