------------------------------ MODULE Signing ------------------------------
(***************************************************************************)
(* Deliveries that are signed with a "dir" signer and checked by an inbox, *)
(* while the actor's key is rotated: executor/apdeliver builds the request *)
(* and SignRequest (module HttpSig) has it signed with the key that        *)
(* dirSigner.load (module KeyCache) returns; net/http sends it; the inbox  *)
(* verifies it with the key the actor publishes.                           *)
(*                                                                         *)
(* One of KeyCache's loaders is followed through its attempts. The others  *)
(* meet it only in the file and the cache, so their loads are all that is  *)
(* kept of theirs.                                                         *)
(***************************************************************************)
EXTENDS KeyCache, HttpSig

CONSTANTS
  Own,          \* the loader that is followed
  Jobs,         \* [id, host, contentType, headers]: the payloads
  Rewritings    \* what may happen to a request on its way

ASSUME SigningAssumption == Own \in Loaders

ASSUME JobsAssumption ==
  Jobs \subseteq [id : Seq(STRING), host : STRING, contentType : STRING,
                  headers : SUBSET STRING]

VARIABLES
  job,        \* the payload that is delivered
  published,  \* the key an inbox finds published for the key id
  stage,      \* the attempt, once it has its key
  via,        \* what has happened to its request on the way
  calm,       \* history: file and published key agree since the attempt began
  gone        \* history: the file was missing at some time since then

deliveryVars == <<job, published, stage, via, calm, gone>>
signingVars == <<vars, deliveryVars>>

SigningInit ==
  /\ Init
  /\ job \in Jobs /\ published = key
  /\ stage = "none" /\ via = "none" /\ calm = FALSE /\ gone = FALSE

----------------------------------------------------------------------------
(***************************************************************************)
(* The request.                                                            *)
(***************************************************************************)

HeaderNames == {"date", "digest", "content-type", "user-agent", "accept", "x-note"}

(* A check that forgets one of the headers SignRequest sets by itself. *)
isSignedOrReservedButDate(name) ==
  name \in {"host", "digest", "signature", "content-type",
            "content-length", "user-agent", "accept"}

isSignedOrReserved(name) ==
  name \in {"host", "date", "digest", "signature", "content-type",
            "content-length", "user-agent", "accept"}

(* Execute: headers of the payload, then the executor's own. *)
BuildRequest(p) ==
  [target |-> "post /inbox", host |-> p.host, body |-> "activity",
   header |-> [n \in HeaderNames |->
     CASE n = "content-type" -> p.contentType
       [] n = "user-agent" -> "mkqd"
       [] n = "accept" -> "activity+json"
       [] OTHER -> IF n \in p.headers /\ ~isSignedOrReserved(n) THEN "payload" ELSE ""]]

(* net/http writes a host in ASCII and header values without white space   *)
(* around them.                                                            *)
Wire(req) ==
  [req EXCEPT !.host = IF @ = "idn" THEN "xn--idn" ELSE @,
              !.header["content-type"] = IF @ = " padded " THEN "padded" ELSE @]

(* A payload that is sent just as it was signed. *)
Verbatim(p) == Wire(BuildRequest(p)) = BuildRequest(p)

(* What SignRequest makes of a payload with key k. *)
Message(p, k) ==
  LET req == Dress(BuildRequest(p), "now") IN
  [req |-> req, text |-> FormatSignature(p.id, DefaultHeaders),
   sig |-> Sign(k, SigningString(req, DefaultHeaders))]

(* What arrives of it, after a proxy that may rewrite a part. *)
Arrived(p, k, how) ==
  LET m == Message(p, k)  w == [m EXCEPT !.req = Wire(m.req)] IN
  CASE how = "target"  -> [w EXCEPT !.req.target = "post /other"]
    [] how = "host"    -> [w EXCEPT !.req.host = "backend"]
    [] how = "body"    -> [w EXCEPT !.req.body = "recoded"]
    [] how = "digest"  -> [w EXCEPT !.req.body = "recoded",
                                    !.req.header["digest"] = Digest("recoded")]
    [] how = "date"    -> [w EXCEPT !.req.header["date"] = "later"]
    [] how = "note"    -> [w EXCEPT !.req.header["x-note"] = "proxied"]
    [] how = "headers" -> [w EXCEPT !.text = FormatSignature(p.id, <<"date">>)]
    [] OTHER           -> w

(* The inbox verifies what arrives with the published key of the key id,   *)
(* and refuses a date that is not of today. (A table: nothing in it        *)
(* depends on the state.)                                                  *)
Accepted ==
  [p \in Jobs |-> [how \in Rewritings |-> [k \in Keys |-> [pub \in Keys |->
     LET m == Arrived(p, k, how) IN
     /\ Verify(m.req, m.text, m.sig, pub)
     /\ ParseSignatureHeader(m.text).keyID = p.id
     /\ m.req.header["date"] \in {"now", "later"}]]]]

----------------------------------------------------------------------------
(***************************************************************************)
(* The operator: the file (KeyCache), and what the actor publishes.        *)
(***************************************************************************)

Rotate ==
  /\ Rename \/ Write
  /\ calm' = FALSE
  /\ UNCHANGED <<job, published, stage, via, gone>>

BeginRotation == Truncate /\ UNCHANGED deliveryVars

Withdraw ==
  /\ Remove
  /\ gone' = (gone \/ pc[Own] \in {"lookup", "read"})
  /\ UNCHANGED <<job, published, stage, via, calm>>

Publish ==
  /\ published # key /\ published' = key
  /\ UNCHANGED <<vars, job, stage, via, calm, gone>>

----------------------------------------------------------------------------
(***************************************************************************)
(* An attempt.                                                             *)
(***************************************************************************)

(* dirSigner.Sign calls load; what SignRequest dresses before, nobody else *)
(* sees.                                                                   *)
BeginAttempt ==
  /\ job.id # <<>> /\ stage = "none" /\ LoadStats(Own)
  /\ calm' = (published = key) /\ gone' = (body = "absent")
  /\ UNCHANGED <<job, published, stage, via>>

GoOnLoading ==
  /\ LoadLooksUp(Own) \/ LoadReads(Own) \/ LoadStores(Own)
  /\ UNCHANGED deliveryVars

(* An unknown key is permanent, and so is the default key, which a dir     *)
(* signer does not have; all else is retried.                              *)
FailToSign ==
  /\ stage = "none"
  /\ \/ (job.id = <<>> \/ pc[Own] = "unknown") /\ stage' = "unknown"
     \/ pc[Own] = "error" /\ stage' = "error"
  /\ UNCHANGED <<vars, job, published, via, calm, gone>>

(* The signature is made; its key id must fit into the header. *)
SignAndSend ==
  /\ pc[Own] = "key" /\ stage = "none"
  /\ stage' = IF /\ Signable(Message(job, got[Own]).req, DefaultHeaders)
                 /\ validateKeyID(job.id)
              THEN "sent" ELSE "error"
  /\ UNCHANGED <<vars, job, published, via, calm, gone>>

Receive(how) ==
  /\ stage = "sent"
  /\ stage' = IF Accepted[job][how][got[Own]][published] THEN "accepted" ELSE "refused"
  /\ via' = how
  /\ UNCHANGED <<vars, job, published, calm, gone>>

(* Execute returns; the worker goes on to its next attempt. *)
EndAttempt ==
  /\ stage \notin {"none", "sent"}
  /\ Again(Own) \/ (pc[Own] = "idle" /\ UNCHANGED vars)
  /\ stage' = "none" /\ via' = "none" /\ calm' = FALSE /\ gone' = FALSE
  /\ UNCHANGED <<job, published>>

SigningNext ==
  \/ Rotate \/ BeginRotation \/ Withdraw \/ Publish
  \/ BeginAttempt \/ GoOnLoading \/ FailToSign \/ SignAndSend
  \/ \E how \in Rewritings : Receive(how)
  \/ EndAttempt
  \/ \E l \in Loaders \ {Own} : Load(l) /\ UNCHANGED deliveryVars

SigningSpec == SigningInit /\ [][SigningNext]_signingVars

----------------------------------------------------------------------------
(***************************************************************************)
(* Properties.                                                             *)
(***************************************************************************)

(* A rotation is over once the file holds the published key: an attempt    *)
(* that begins then is not refused, whatever other attempts have left in   *)
(* the cache, whatever headers its payload sets and whatever its key id    *)
(* looks like in the Signature header. It takes an inbox URL in ASCII and  *)
(* a content type without white space around it: net/http sends others     *)
(* differently from how SignRequest has signed them.                       *)
SettledKeyAccepted ==
  stage = "refused" /\ via = "none" /\ calm => ~Verbatim(job)

(* Whether what arrives of a message says what was signed. (A table.) *)
AsSigned ==
  [p \in Jobs |-> [how \in Rewritings |-> [k \in Keys |->
     LET m == Message(p, k)  came == Arrived(p, k, how) IN
     /\ came.req.body = m.req.body
     /\ SigningString(came.req, DefaultHeaders) = SigningString(m.req, DefaultHeaders)
     /\ ParseSignatureHeader(came.text).keyID = p.id]]]

(* What an inbox accepts is what was signed: every header the signature    *)
(* covers, the body, and the key id (Verify, requireCoverage, Digest).     *)
AcceptedAsSigned == stage = "accepted" => AsSigned[job][via][got[Own]]

(* A delivery is given up for want of a key only if it names none or the   *)
(* file was missing while it ran: a rotation that renames, or writes in    *)
(* place, costs retries at most (load: only ErrNotExist is ErrUnknownKey). *)
(* One that removes the file first does fail the deliveries of that time.  *)
GivenUpOnlyWithoutFile ==
  stage = "unknown" => gone \/ job.id = <<>>

(* The inductive form of AcceptedAsSigned: a request that is on its way is *)
(* one that could be signed, under a key id that the header can carry, and *)
(* the attempt keeps its key until it ends.                                *)
DeliveryInv ==
  /\ job \in Jobs /\ published \in Keys
  /\ stage \in {"sent", "accepted", "refused"} =>
       /\ pc[Own] = "key" /\ validateKeyID(job.id)
       /\ Signable(Message(job, got[Own]).req, DefaultHeaders)
  /\ AcceptedAsSigned

(* The key side of SettledKeyAccepted, and the inductive form of it and of *)
(* GivenUpOnlyWithoutFile: in an attempt that began with the published key *)
(* in the file, that is still the key, and the one the load returns; a     *)
(* load that finds no file has gone through a time without one.            *)
KeyInv ==
  /\ CacheInv
  /\ published \in Keys /\ published <= key
  /\ calm => published = key /\ since[Own] = key
  /\ cached.ok => cached.key <= key
  /\ \A l \in Loaders : pc[l] \in {"store", "key"} => got[l] <= key
  /\ calm /\ pc[Own] = "key" => got[Own] = published
  /\ pc[Own] \in {"lookup", "read"} /\ body = "absent" => gone
  /\ pc[Own] = "unknown" => gone
  /\ GivenUpOnlyWithoutFile

(* Both together: what every step of a delivery keeps. *)
SigningInv == KeyInv /\ DeliveryInv

============================================================================
