------------------------------ MODULE Dispatch ------------------------------
(***************************************************************************)
(* Module Attempt with its Send in detail: the request that httpexec.send  *)
(* builds, and the connection it goes out on, dialled through the guard of *)
(* module SafeDial or left idle by an earlier request of the queue. What a *)
(* host name resolves to may change from one dial to the next.             *)
(***************************************************************************)
EXTENDS Attempt, SafeDial

CONSTANTS
  Hosts,       \* destinations: [always, lists]: whether only public addresses, in
               \*   forms that the guard can judge, occur among the lists of
               \*   addresses that their name resolves to
  HeaderSets,  \* [base, over, name]: configured headers, those of a payload,
               \*   and whether the job's name is "plain" or no header value
  Secrets      \* [base, over]: whether a secret is configured, and in the payload

(* The headers that can be set, by "config" or by "payload". *)
HeadersBy(who) == [name : STRING, as : {"canonical", "other"}, by : {who}]

(* An address list is never empty. *)
ASSUME DispatchAssumption ==
  /\ \A h \in Hosts : \A l \in h.lists :
       /\ l \in Seq(Addrs) /\ Len(l) > 0
       /\ h.always => \A i \in DOMAIN l : l[i].range = "global" /\ Recognised(l[i])
  /\ HeaderSets \subseteq [base : SUBSET HeadersBy("config"),
                           over : SUBSET HeadersBy("payload"), name : {"plain", "odd"}]

VARIABLES
  guarded,   \* ~allowPrivate of the executor
  host,      \* the destination
  extra,     \* the headers of configuration and payload
  secret,    \* their secrets
  req,       \* the headers of the request that is ready to be sent
  peer,      \* the address a request was sent to
  idle,      \* the address of the transport's idle connection
  blocked    \* history: whether the guard has failed an attempt

netVars == <<guarded, host, extra, secret, req, peer, idle, blocked>>
setup == <<guarded, host, extra, secret>>
dispatchVars == <<vars, netVars>>

None == [form |-> "none", range |-> "none", low |-> "none"]

(* The headers by which net/http takes a POST for one that may be sent     *)
(* twice (external).                                                       *)
IdempotencyKeys == {"Idempotency-Key", "X-Idempotency-Key"}
HasKey(headers) == \E h \in headers : h.name \in IdempotencyKeys

(* allowPrivate of an executor: on by default for "http" only. *)
Guarded(k, option) ==
  IF k = "http" THEN option = "false" ELSE option # "true"

(* The headers of configuration and payload that come into a request. Of   *)
(* those of a delivery (module Signing) only a key matters here.           *)
Extras(k) ==
  CASE k = "webhook" -> HeaderSets
    [] k = "http" -> {[h EXCEPT !.over = {}] : h \in HeaderSets}
    [] OTHER -> {[base |-> {}, over |-> {x \in h.over : x.name \in IdempotencyKeys},
                  name |-> "plain"] : h \in HeaderSets}

DispatchInit ==
  /\ Init
  /\ guarded \in {Guarded(kind, o) : o \in {"unset", "true", "false"}}
  /\ host \in Hosts
  /\ extra \in Extras(kind)
  /\ keyed = HasKey(extra.base \cup extra.over)
  /\ secret \in (IF kind = "webhook" THEN Secrets
                 ELSE IF kind = "http" THEN {[s EXCEPT !.over = FALSE] : s \in Secrets}
                 ELSE {[base |-> FALSE, over |-> FALSE]})
  /\ req = {} /\ peer = None /\ idle = None /\ blocked = FALSE

----------------------------------------------------------------------------
(***************************************************************************)
(* The request of send (httpexec.go, webhook.go). A header is [name, as,   *)
(* by]: its name, how it is spelt, and who has set it. X-Mkqd-Job-Name     *)
(* stands for the four headers about the job, X-Mkqd-Attempt for the       *)
(* headers that are numbers.                                               *)
(***************************************************************************)

Reserved == {"Content-Type", "User-Agent", "X-Mkqd-Signature", "X-Mkqd-Attempt", "X-Mkqd-Job-Name"}

(* A comparison that minds the case. *)
isReservedHeaderExact(h) == h.as = "canonical" /\ h.name \in Reserved

(* strings.EqualFold, and a prefix in lower case. *)
isReservedHeader(h) == h.name \in Reserved

(* The bytes that no header value may have become underscores; net/http    *)
(* fails a request with a value that is not valid.                         *)
sanitizeHeaderValue(v) == IF v = "odd" THEN "underscored" ELSE v
validHeaderValue(v) == v # "odd"

(* mergeHeaders: a map with the spelling as its key. *)
mergeHeaders(base, over) ==
  over \cup {b \in base : \A h \in over : <<b.name, b.as>> # <<h.name, h.as>>}

(* The headers that mkqd sets, if it gave the job's id as an idempotency   *)
(* key as well.                                                            *)
OwnHeadersAndKey(sec) == Reserved \cup {"Idempotency-Key"}

(* The headers that mkqd sets: a signature only if there is a secret. *)
OwnHeaders(sec) ==
  Reserved \ (IF sec.over \/ sec.base THEN {} ELSE {"X-Mkqd-Signature"})

(* The headers of the map are set in any order, the last one of a name     *)
(* stands, and then mkqd sets its own.                                     *)
Requests(ex, sec) ==
  LET merged == {h \in mergeHeaders(ex.base, ex.over) : ~isReservedHeader(h)}
      names == {h.name : h \in merged}
      own == OwnHeaders(sec)
      value(n) == IF n = "X-Mkqd-Job-Name" THEN sanitizeHeaderValue(ex.name) ELSE "plain"
  IN {{[name |-> n, by |-> "mkqd", value |-> value(n)] : n \in own} \cup
      {[name |-> n, by |-> last[n].by, value |-> "plain"] : n \in names \ own} :
        last \in {f \in [names -> merged] : \A n \in names : f[n].name = n}}

Build ==
  /\ pc = "send" /\ req = {} /\ kind \in {"http", "webhook"}
  /\ req' \in Requests(extra, secret)
  /\ UNCHANGED <<vars, setup, peer, idle, blocked>>

----------------------------------------------------------------------------
(***************************************************************************)
(* client.Do.                                                              *)
(***************************************************************************)

(* Whether client.Do is about to be called. *)
Ready == pc = "send" /\ (req # {} \/ kind = "deliver")

(* The request, which net/http found valid, is written, and the connection *)
(* it goes out on is not idle any more.                                    *)
Written ==
  /\ \A h \in req : validHeaderValue(h.value)
  /\ idle' = None
  /\ UNCHANGED <<config, mkqVars, ground, setup, blocked>>

(* A client that follows a redirect, with the method and the body kept. *)
PostFollows(a) ==
  /\ Written
  /\ \/ Unanswered /\ Returns(Error) /\ peer' = None /\ req' = {}
     \/ \E r \in Answers : IF r.status \in 300..399
          THEN Unanswered /\ UNCHANGED <<pc, result, peer, req>>
          ELSE Answered(r) /\ GoesOn("read") /\ peer' = a /\ req' = {}

(* One request and what comes of it: NewClient follows no redirect. *)
Post(a) ==
  /\ Written
  /\ req' = {}
  /\ \/ Unanswered /\ Returns(Error) /\ peer' = None
     \/ (\E r \in Answers : Answered(r)) /\ GoesOn("read") /\ peer' = a

(* Whether net/http takes the request for one that may be sent twice. The  *)
(* headers of a delivery are those of its payload and signed ones.         *)
isReplayable == HasKey(IF kind = "deliver" THEN extra.over ELSE req)

(* On a connection that an earlier request has left. If it breaks before   *)
(* an answer comes, the request goes out again on another one, provided    *)
(* that it is replayable (net/http: shouldRetryRequest). If it breaks      *)
(* before anything was written, that is Close.                             *)
Reuse ==
  /\ Ready /\ idle # None
  /\ \/ Post(idle)
     \/ /\ isReplayable /\ sent < MaxResends
        /\ Written /\ Unanswered
        /\ UNCHANGED <<pc, result, req, peer>>

(* On a new connection, or one of the proxy, which resolves the name. *)
Dial ==
  /\ Ready /\ idle = None
  /\ \E addrs \in host.lists :
       \E a \in (IF UsesProxy(guarded) THEN {addrs[i] : i \in DOMAIN addrs}
                 ELSE Connects(guarded, addrs)) : Post(a)

(* No connection: permanent when the guard refused the address. *)
DialFails ==
  /\ Ready /\ idle = None
  /\ \E addrs \in host.lists, e \in DialFaults :
       /\ e \in DialErrors(guarded, addrs)
       /\ NotSent(e)
       /\ blocked' = (blocked \/ e = "blocked")
  /\ req' = {}
  /\ UNCHANGED <<config, mkqVars, resp, sent, accepted, unread, setup, peer, idle>>

(* ReadBody and the switch. The connection of an answer that was read to   *)
(* its end becomes idle, unless more was left of it than drainLimit.       *)
ReadAnswer ==
  /\ Read
  /\ idle' \in {None} \cup (IF resp' = NoAnswer THEN {} ELSE {peer})
  /\ peer' = None
  /\ UNCHANGED <<setup, req, blocked>>

(* An idle connection ends: IdleConnTimeout, or the other side, also when  *)
(* a request has just been given it.                                       *)
Close ==
  /\ idle # None /\ idle' = None
  /\ UNCHANGED <<vars, setup, req, peer, blocked>>

DispatchNext ==
  \/ Build \/ Reuse \/ Dial \/ DialFails \/ ReadAnswer \/ Close
  \/ /\ \/ Begin \/ Decode \/ ExecuteCustom \/ SignLocal \/ SignRemote
        \/ CheckKeyID \/ Conclude \/ Promote
     /\ UNCHANGED netVars

DispatchSpec == DispatchInit /\ [][DispatchNext]_dispatchVars

----------------------------------------------------------------------------
(***************************************************************************)
(* Properties.                                                             *)
(***************************************************************************)

(* With the guard on, no request arrives outside the public internet:      *)
(* whatever the name resolves to at each dial, through whatever form of    *)
(* address, on a new connection or an old one, over several attempts       *)
(* ("the check runs against the address actually being connected to",      *)
(* README). CheckAddr, IsPublic, NewClient. This is said of addresses that *)
(* the code can judge: not of four ranges of IPv6 that it does not list,   *)
(* nor of a local NAT64 that keeps the address elsewhere than at the end.  *)
ReachesOnlyPublic ==
  guarded => \A a \in {peer, idle} \ {None} : Recognised(a) => a.range = "global"

(* The guard fails no job whose destination is public in every form its    *)
(* address takes: a network that translates addresses is not taken for a   *)
(* private one, and an outage is retried (send: isBlocked). A form that    *)
(* the code misreads is not among them (host.always).                      *)
GuardSparesPublic == blocked => guarded /\ ~host.always

(* Whatever a payload or the configuration sets, and however they spell    *)
(* it, the headers that mkqd defines carry mkqd's values, a signature is   *)
(* there exactly if there is a secret, a payload's header beats a          *)
(* configured one of the same spelling, and no name of a job makes the     *)
(* request one that net/http refuses at every attempt (send, mergeHeaders, *)
(* isReservedHeader, sanitizeHeaderValue).                                 *)
HeadersAsPromised ==
  req # {} =>
    /\ \A h \in req : h.name \in Reserved => h.by = "mkqd"
    /\ (\E h \in req : h.name = "X-Mkqd-Signature") <=> secret.base \/ secret.over
    /\ \A h \in extra.over : h.name \notin Reserved =>
         \/ \E r \in req : r.name = h.name /\ r.by = "payload"
         \/ \E b \in extra.base : b.name = h.name /\ b.as # h.as
    /\ \A h \in req : validHeaderValue(h.value)

(* Requests, connections and the guard, seen from the queue, are no more   *)
(* than what module Attempt says of a Send: what is proved there of every  *)
(* job holds with them.                                                    *)
ImplementsAttempt == Spec

============================================================================
