--------------------------- MODULE SigningProofs ---------------------------
(***************************************************************************)
(* Proofs about modules HttpSig, KeyCache and Signing: what a Signature    *)
(* header that SignRequest writes is read back as, which key a load        *)
(* returns among any number of concurrent ones, and what follows for what  *)
(* an inbox accepts.                                                       *)
(***************************************************************************)
EXTENDS Signing, Induction, SequenceTheorems

(***************************************************************************)
(* The key cache.                                                          *)
(***************************************************************************)

USE KeyCacheAssumption

(* Every step keeps the state well typed. *)
LEMMA CacheType == TypeOK /\ [Next]_vars => TypeOK'
<1> SUFFICES ASSUME TypeOK, [Next]_vars PROVE TypeOK'
  OBVIOUS
<1> USE DEF TypeOK, Keys, Stats, Touch
<1>1. CASE Rename
  BY <1>1 DEF Rename, loadVars
<1>2. CASE Truncate
  BY <1>2 DEF Truncate, loadVars
<1>3. CASE Write
  BY <1>3 DEF Write, loadVars
<1>4. CASE Remove
  BY <1>4 DEF Remove, loadVars
<1> DEFINE Points == {"idle", "lookup", "read", "store", "key", "unknown", "error"}
<1>a. ASSUME NEW l \in Loaders, NEW e \in Points, NEW k \in Keys, Ends(l, e, k)
      PROVE pc' \in [Loaders -> Points] /\ got' \in [Loaders -> Keys]
  BY <1>a DEF Ends
<1>5. ASSUME NEW l \in Loaders, LoadStats(l) PROVE TypeOK'
  <2>1. \E e \in Points : Ends(l, e, 0)
    BY <1>5 DEF LoadStats
  <2>2. 0 \in Keys
    OBVIOUS
  <2>3. pc' \in [Loaders -> Points] /\ got' \in [Loaders -> Keys]
    BY <2>1, <2>2, <1>a
  <2>4. st' \in [Loaders -> Stats]
    BY <1>5 DEF LoadStats, Stat
  <2>5. since' \in [Loaders -> Keys]
    BY <1>5 DEF LoadStats
  <2> QED
    BY <1>5, <2>3, <2>4, <2>5 DEF LoadStats, fileVars
<1>6. ASSUME NEW l \in Loaders, LoadLooksUp(l) PROVE TypeOK'
  <2>1. \E e \in Points, k \in Keys : Ends(l, e, k)
    <3>1. 0 \in Keys /\ cached.key \in Keys
      OBVIOUS
    <3> QED
      BY <1>6, <3>1 DEF LoadLooksUp
  <2>2. pc' \in [Loaders -> Points] /\ got' \in [Loaders -> Keys]
    BY <2>1, <1>a
  <2> QED
    BY <1>6, <2>2 DEF LoadLooksUp, fileVars
<1>7. ASSUME NEW l \in Loaders, LoadReads(l) PROVE TypeOK'
  <2>1. \E e \in Points, k \in Keys : Ends(l, e, k)
    <3>1. 0 \in Keys /\ key \in Keys
      OBVIOUS
    <3> QED
      BY <1>7, <3>1 DEF LoadReads
  <2>2. pc' \in [Loaders -> Points] /\ got' \in [Loaders -> Keys]
    BY <2>1, <1>a
  <2> QED
    BY <1>7, <2>2 DEF LoadReads, fileVars
<1>8. ASSUME NEW l \in Loaders, LoadStores(l) PROVE TypeOK'
  BY <1>8 DEF LoadStores, Ends, fileVars
<1>9. ASSUME NEW l \in Loaders, Again(l) PROVE TypeOK'
  BY <1>9 DEF Again, Ends, fileVars
<1>10. CASE UNCHANGED vars
  BY <1>10 DEF vars
<1> QED
  BY <1>1, <1>2, <1>3, <1>4, <1>5, <1>6, <1>7, <1>8, <1>9, <1>10 DEF Next, Load

(* When every write has a time of its own, each step keeps CacheInv: the   *)
(* operator's writes move the file past every stat, and a load copies only *)
(* a stat whose key is known.                                              *)
LEMMA CacheStep ==
  ASSUME ~Coarse PROVE CacheInv /\ [Next]_vars => CacheInv'
<1> SUFFICES ASSUME CacheInv, [Next]_vars PROVE CacheInv'
  OBVIOUS
<1>0. TypeOK /\ TypeOK'
  BY CacheType DEF CacheInv
<1> USE <1>0 DEF CacheInv, Stated, Dated
<1>1. CASE Rename
  BY <1>1 DEF Rename, Touch, loadVars, TypeOK, Keys, Stats
<1>2. CASE Truncate
  BY <1>2 DEF Truncate, Touch, loadVars, TypeOK, Keys, Stats
<1>3. CASE Write
  BY <1>3 DEF Write, Touch, loadVars, TypeOK, Keys, Stats
<1>4. CASE Remove
  BY <1>4 DEF Remove, loadVars
<1>5. ASSUME NEW l \in Loaders, LoadStats(l) PROVE CacheInv'
  BY <1>5 DEF LoadStats, Ends, Stat, fileVars, TypeOK, Keys, Stats
<1>6. ASSUME NEW l \in Loaders, LoadLooksUp(l) PROVE CacheInv'
  BY <1>6 DEF LoadLooksUp, Ends, fileVars, TypeOK, Keys, Stats
<1>7. ASSUME NEW l \in Loaders, LoadReads(l) PROVE CacheInv'
  BY <1>7 DEF LoadReads, Ends, fileVars, TypeOK, Keys, Stats
<1>8. ASSUME NEW l \in Loaders, LoadStores(l) PROVE CacheInv'
  <2>1. UNCHANGED <<body, key, mtime, st, since>> /\ pc[l] = "store"
    BY <1>8 DEF LoadStores, fileVars
  <2>2. /\ cached'.key = got[l] /\ cached'.st = st[l] /\ cached'.since = since[l]
    BY <1>8 DEF LoadStores
  <2>3. /\ pc'[l] = "key"
        /\ \A m \in Loaders \ {l} : pc'[m] = pc[m]
        /\ \A m \in Loaders : got'[m] = got[m]
    BY <1>8 DEF LoadStores, Ends, TypeOK
  <2>4. Stated' \subseteq Stated /\ l \in Stated
    BY <2>1, <2>3
  <2> QED
    BY <2>1, <2>2, <2>3, <2>4
<1>9. ASSUME NEW l \in Loaders, Again(l) PROVE CacheInv'
  BY <1>9 DEF Again, Ends, fileVars, TypeOK
<1>10. CASE UNCHANGED vars
  BY <1>10 DEF vars
<1> QED
  BY <1>1, <1>2, <1>3, <1>4, <1>5, <1>6, <1>7, <1>8, <1>9, <1>10, Zenon DEF Next, Load

(* The cache starts empty, and no load has begun. *)
LEMMA CacheInit == Init => CacheInv
BY DEF Init, CacheInv, TypeOK, Keys, Stats, NoStat, Stated, Dated

(* A dir signer (signer.go, load) never signs with a key older than the    *)
(* one in the file when the load began, for any number of concurrent loads *)
(* and rotations, provided each write of the file changes its modification *)
(* time.                                                                   *)
THEOREM RotationTakesEffect ==
  ASSUME ~Coarse PROVE Spec => []NoStaleKey
<1>1. Init => CacheInv
  BY CacheInit
<1>2. CacheInv /\ [Next]_vars => CacheInv'
  BY CacheStep
<1>3. CacheInv => NoStaleKey
  BY DEF CacheInv, NoStaleKey
<1> QED
  BY <1>1, <1>2, <1>3, PTL DEF Spec

----------------------------------------------------------------------------
(***************************************************************************)
(* Deliveries.                                                             *)
(***************************************************************************)

USE SigningAssumption

(* A step of a delivery is a step of the cache, or none of its business. *)
LEMMA SigningStepIsCacheStep == [SigningNext]_signingVars => [Next]_vars
<1> SUFFICES ASSUME [SigningNext]_signingVars PROVE [Next]_vars
  OBVIOUS
<1>1. CASE UNCHANGED signingVars
  BY <1>1 DEF signingVars
<1>2. CASE Rotate \/ BeginRotation \/ Withdraw
  <2>1. Rename \/ Write \/ Truncate \/ Remove
    BY <1>2, Zenon DEF Rotate, BeginRotation, Withdraw
  <2> QED
    BY <2>1, Zenon DEF Next
<1>3. CASE Publish \/ FailToSign \/ SignAndSend \/ \E how \in Rewritings : Receive(how)
  BY <1>3 DEF Publish, FailToSign, SignAndSend, Receive
<1>4. CASE BeginAttempt \/ GoOnLoading \/ EndAttempt
  BY <1>4 DEF BeginAttempt, GoOnLoading, EndAttempt, Next, Load
<1>5. ASSUME NEW l \in Loaders \ {Own}, Load(l) PROVE [Next]_vars
  BY <1>5 DEF Next
<1> QED
  BY <1>1, <1>2, <1>3, <1>4, <1>5 DEF SigningNext

(* Deliveries use the key cache as module KeyCache describes its use. *)
THEOREM SigningImplementsCache == SigningSpec => Spec
<1>1. SigningInit => Init
  BY DEF SigningInit
<1> QED
  BY <1>1, SigningStepIsCacheStep, PTL DEF SigningSpec, Spec

(* So no delivery is signed with a key older than the one that was in the  *)
(* file when its signer was asked for, beside rotations and other workers. *)
THEOREM DeliveriesFollowRotation ==
  ASSUME ~Coarse PROVE SigningSpec => []NoStaleKey
BY SigningImplementsCache, RotationTakesEffect, PTL

(* Another worker's load changes nothing but the cache, its own place, and *)
(* leaves in the cache only a key that it has read.                        *)
LEMMA OthersLoad ==
  ASSUME TypeOK, NEW l \in Loaders \ {Own}, Load(l)
  PROVE  /\ UNCHANGED <<body, key, mtime, pc[Own], got[Own], since[Own]>>
         /\ UNCHANGED cached \/ (pc[l] = "store" /\ cached' =
              [ok |-> TRUE, key |-> got[l], st |-> st[l], since |-> since[l]])
         /\ \A m \in Loaders \ {l} : pc'[m] = pc[m] /\ got'[m] = got[m]
         /\ pc'[l] \in {"store", "key"} =>
              \/ got'[l] = got[l] /\ pc[l] = "store"
              \/ got'[l] = cached.key /\ cached.ok
              \/ got'[l] = key
<1>1. CASE LoadStats(l)
  BY <1>1 DEF LoadStats, Ends, fileVars, TypeOK
<1>2. CASE LoadLooksUp(l)
  BY <1>2 DEF LoadLooksUp, Ends, fileVars, TypeOK
<1>3. CASE LoadReads(l)
  BY <1>3 DEF LoadReads, Ends, fileVars, TypeOK
<1>4. CASE LoadStores(l)
  BY <1>4 DEF LoadStores, Ends, fileVars, TypeOK
<1>5. CASE Again(l)
  BY <1>5 DEF Again, Ends, fileVars, TypeOK
<1> QED
  BY <1>1, <1>2, <1>3, <1>4, <1>5 DEF Load

(* Every step preserves what KeyInv adds to CacheInv. *)
LEMMA KeyStep ==
  ASSUME ~Coarse PROVE KeyInv /\ [SigningNext]_signingVars => KeyInv'
<1> SUFFICES ASSUME KeyInv, [SigningNext]_signingVars PROVE KeyInv'
  OBVIOUS
<1>0. CacheInv /\ CacheInv'
  BY SigningStepIsCacheStep, CacheStep DEF KeyInv
<1>t. TypeOK /\ TypeOK' /\ NoStaleKey'
  BY <1>0 DEF CacheInv, NoStaleKey
<1>k. key \in Nat /\ \A l \in Loaders : got[l] \in Nat /\ got'[l] \in Nat
  BY <1>t DEF TypeOK, Keys
<1>i. /\ published \in Keys /\ published <= key
      /\ calm => published = key /\ since[Own] = key
      /\ cached.ok => cached.key <= key
      /\ \A l \in Loaders : pc[l] \in {"store", "key"} => got[l] <= key
      /\ calm /\ pc[Own] = "key" => got[Own] = published
      /\ pc[Own] \in {"lookup", "read"} /\ body = "absent" => gone
      /\ pc[Own] = "unknown" => gone
      /\ stage = "unknown" => gone \/ job.id = <<>>
  BY DEF KeyInv, GivenUpOnlyWithoutFile
<1> USE <1>0, <1>t DEF GivenUpOnlyWithoutFile
<1>1. CASE UNCHANGED signingVars
  BY <1>1 DEF signingVars, vars, deliveryVars, KeyInv
<1>2. CASE Rotate
  <2>1. ~calm' /\ UNCHANGED <<published, stage, gone, job>>
    BY <1>2, Zenon DEF Rotate
  <2>2. key' = key + 1 /\ body' = "whole" /\ UNCHANGED <<cached, pc, got, since>>
    BY <1>2 DEF Rotate, Rename, Write, loadVars
  <2>3. published \in Int /\ cached.key \in Int
    BY <1>i DEF TypeOK, Keys
  <2>4. published' <= key' /\ (cached'.ok => cached'.key <= key')
    BY <1>i, <1>k, <2>1, <2>2, <2>3
  <2>5. \A l \in Loaders : pc'[l] \in {"store", "key"} => got'[l] <= key'
    BY <1>i, <1>k, <2>2
  <2> QED
    BY <1>i, <2>1, <2>2, <2>4, <2>5 DEF KeyInv
<1>3. CASE BeginRotation
  BY <1>3 DEF BeginRotation, Truncate, loadVars, deliveryVars, KeyInv
<1>4. CASE Withdraw
  <2>1. (gone \/ pc[Own] \in {"lookup", "read"}) => gone'
    BY <1>4, Zenon DEF Withdraw
  <2>2. UNCHANGED <<key, cached, pc, got, since, job, published, stage, calm>>
    BY <1>4 DEF Withdraw, Remove, loadVars
  <2> QED
    BY <2>1, <2>2 DEF KeyInv
<1>5. CASE Publish
  BY <1>5 DEF Publish, vars, KeyInv, TypeOK, Keys
<1>6. CASE BeginAttempt
  <2>1. /\ UNCHANGED <<body, key, cached, job, published, stage>>
        /\ calm' = (published = key) /\ gone' = (body = "absent")
    BY <1>6 DEF BeginAttempt, LoadStats, fileVars
  <2>2. /\ since'[Own] = key
        /\ \A l \in Loaders \ {Own} : pc'[l] = pc[l] /\ got'[l] = got[l]
        /\ pc'[Own] \in {"unknown", "error", "lookup"}
        /\ pc'[Own] = "unknown" => body = "absent"
    BY <1>6 DEF BeginAttempt, LoadStats, Ends, TypeOK
  <2>3. stage = "none"
    BY <1>6 DEF BeginAttempt
  <2> QED
    BY <2>1, <2>2, <2>3, Zenon DEF KeyInv
<1>7. CASE GoOnLoading
  <2>1. CASE LoadLooksUp(Own)
    <3>1. UNCHANGED <<body, key, cached, since, job, published, stage, calm, gone>>
      BY <1>7, <2>1 DEF GoOnLoading, LoadLooksUp, fileVars, deliveryVars
    <3>2. /\ pc[Own] = "lookup"
          /\ \A l \in Loaders \ {Own} : pc'[l] = pc[l] /\ got'[l] = got[l]
          /\ \/ pc'[Own] = "key" /\ got'[Own] = cached.key /\ cached.ok
             \/ pc'[Own] = "read"
      BY <2>1 DEF LoadLooksUp, Ends, TypeOK
    <3>3. pc'[Own] = "key" => got'[Own] >= since'[Own]
      BY DEF NoStaleKey
    <3>4. \A l \in Loaders : pc'[l] \in {"store", "key"} => got'[l] <= key'
      BY <3>1, <3>2 DEF KeyInv
    <3>5. calm' /\ pc'[Own] = "key" => got'[Own] = published'
      <4>1. calm => published = key /\ since[Own] = key
        BY DEF KeyInv
      <4>2. Own \in Loaders
        BY SigningAssumption
      <4> QED
        BY <3>1, <3>3, <3>4, <4>1, <4>2, <1>k
    <3> QED
      BY <1>i, <3>1, <3>2, <3>4, <3>5 DEF KeyInv
  <2>2. CASE LoadReads(Own)
    <3>1. UNCHANGED <<body, key, cached, since, job, published, stage, calm, gone>>
      BY <1>7, <2>2 DEF GoOnLoading, LoadReads, fileVars, deliveryVars
    <3>2. /\ \A l \in Loaders \ {Own} : pc'[l] = pc[l] /\ got'[l] = got[l]
          /\ \/ pc'[Own] = "unknown" /\ pc[Own] = "read" /\ body = "absent"
             \/ pc'[Own] = "error"
             \/ pc'[Own] = "store" /\ got'[Own] = key
      BY <2>2 DEF LoadReads, Ends, TypeOK
    <3>3. \A l \in Loaders : pc'[l] \in {"store", "key"} => got'[l] <= key'
      BY <3>1, <3>2, <1>k DEF KeyInv
    <3> QED
      BY <3>1, <3>2, <3>3 DEF KeyInv
  <2>3. CASE LoadStores(Own)
    <3>1. UNCHANGED <<body, key, since, job, published, stage, calm, gone>>
      BY <1>7, <2>3 DEF GoOnLoading, LoadStores, fileVars, deliveryVars
    <3>2. /\ pc[Own] = "store" /\ pc'[Own] = "key" /\ got'[Own] = got[Own]
          /\ \A l \in Loaders \ {Own} : pc'[l] = pc[l] /\ got'[l] = got[l]
          /\ cached'.key = got[Own]
      BY <2>3 DEF LoadStores, Ends, TypeOK
    <3>3. got'[Own] >= since'[Own]
      BY <3>2 DEF NoStaleKey
    <3>4. \A l \in Loaders : pc'[l] \in {"store", "key"} => got'[l] <= key'
      BY <1>i, <3>1, <3>2
    <3>5. calm' => got'[Own] = published'
      BY <1>i, <1>k, <3>1, <3>2, <3>3, <3>4
    <3>6. cached'.key <= key'
      BY <1>i, <3>1, <3>2
    <3> QED
      BY <1>i, <3>1, <3>2, <3>4, <3>5, <3>6 DEF KeyInv
  <2> QED
    BY <1>7, <2>1, <2>2, <2>3 DEF GoOnLoading
<1>8. CASE FailToSign
  BY <1>8 DEF FailToSign, vars, KeyInv
<1>9. CASE SignAndSend
  BY <1>9 DEF SignAndSend, vars, KeyInv
<1>10. ASSUME NEW how \in Rewritings, Receive(how) PROVE KeyInv'
  BY <1>10 DEF Receive, vars, KeyInv
<1>11. CASE EndAttempt
  <2>1. ~calm' /\ stage' = "none" /\ UNCHANGED <<job, published>>
    BY <1>11 DEF EndAttempt
  <2>2. CASE Again(Own)
    <3>1. UNCHANGED <<body, key, cached>> /\ pc'[Own] = "idle"
      BY <2>2 DEF Again, Ends, fileVars, TypeOK
    <3>2. \A l \in Loaders \ {Own} : pc'[l] = pc[l] /\ got'[l] = got[l]
      BY <2>2 DEF Again, Ends, TypeOK
    <3> QED
      BY <1>i, <2>1, <3>1, <3>2 DEF KeyInv
  <2>3. CASE pc[Own] = "idle" /\ UNCHANGED vars
    <3>1. UNCHANGED <<body, key, cached, pc, got>> /\ pc'[Own] = "idle"
      BY <2>3 DEF vars
    <3> QED
      BY <1>i, <2>1, <3>1, Zenon DEF KeyInv
  <2> QED
    BY <1>11, <2>2, <2>3 DEF EndAttempt
<1>12. ASSUME NEW l \in Loaders \ {Own}, Load(l), UNCHANGED deliveryVars PROVE KeyInv'
  <2>1. /\ UNCHANGED <<body, key, mtime, pc[Own], got[Own], since[Own]>>
        /\ UNCHANGED cached \/ (pc[l] = "store" /\ cached' =
             [ok |-> TRUE, key |-> got[l], st |-> st[l], since |-> since[l]])
        /\ \A m \in Loaders \ {l} : pc'[m] = pc[m] /\ got'[m] = got[m]
        /\ pc'[l] \in {"store", "key"} =>
             \/ got'[l] = got[l] /\ pc[l] = "store"
             \/ got'[l] = cached.key /\ cached.ok
             \/ got'[l] = key
    BY <1>12, OthersLoad
  <2> QED
    <3>1. UNCHANGED <<job, published, stage, calm, gone>>
      BY <1>12 DEF deliveryVars
    <3>2. cached'.ok => cached'.key <= key'
      <4>1. CASE UNCHANGED cached
        BY <1>i, <2>1, <4>1
      <4>2. CASE pc[l] = "store" /\ cached'.key = got[l]
        BY <1>i, <2>1, <4>2
      <4> QED
        BY <2>1, <4>1, <4>2
    <3>3. \A m \in Loaders : pc'[m] \in {"store", "key"} => got'[m] <= key'
      <4>1. \A m \in Loaders \ {l} : pc'[m] \in {"store", "key"} => got'[m] <= key'
        BY <1>i, <2>1
      <4>2. pc'[l] \in {"store", "key"} => got'[l] <= key'
        <5>1. key' = key /\ key <= key
          BY <1>k, <2>1
        <5>2. CASE got'[l] = got[l] /\ pc[l] = "store"
          BY <1>i, <5>1, <5>2
        <5>3. CASE got'[l] = cached.key /\ cached.ok
          BY <1>i, <5>1, <5>3
        <5>4. CASE got'[l] = key
          BY <5>1, <5>4
        <5> QED
          BY <2>1, <5>2, <5>3, <5>4
      <4> QED
        BY <4>1, <4>2
    <3>4. UNCHANGED <<body, key, pc[Own], got[Own], since[Own]>>
      BY <2>1
    <3>5. /\ published' \in Keys /\ published' <= key'
          /\ calm' => published' = key' /\ since'[Own] = key'
          /\ calm' /\ pc'[Own] = "key" => got'[Own] = published'
          /\ pc'[Own] \in {"lookup", "read"} /\ body' = "absent" => gone'
          /\ pc'[Own] = "unknown" => gone'
          /\ stage' = "unknown" => gone' \/ job'.id = <<>>
      BY <1>i, <3>1, <3>4
    <3> QED
      BY <3>2, <3>3, <3>5 DEF KeyInv
<1> QED
  BY <1>1, <1>2, <1>3, <1>4, <1>5, <1>6, <1>7, <1>8, <1>9, <1>10, <1>11, <1>12
     DEF SigningNext

(* Deliveries start with the published key in the file. *)
LEMMA KeyStart == SigningInit => KeyInv
<1> SUFFICES ASSUME SigningInit PROVE KeyInv
  OBVIOUS
<1>1. CacheInv /\ ~calm /\ pc[Own] = "idle"
  BY CacheInit DEF SigningInit, Init
<1>2. ~cached.ok
  BY DEF SigningInit, Init
<1>3. published \in Keys /\ published <= key
  BY KeyCacheAssumption DEF SigningInit, Init, Keys
<1>4. (\A l \in Loaders : pc[l] = "idle") /\ stage = "none"
  BY DEF SigningInit, Init
<1> QED
  BY <1>1, <1>2, <1>3, <1>4 DEF KeyInv, GivenUpOnlyWithoutFile

(* A rotation that never removes the file fails no delivery for good, for  *)
(* any number of concurrent deliveries, if each write changes the time.    *)
THEOREM UnknownOnlyWithoutFile ==
  ASSUME ~Coarse PROVE SigningSpec => []GivenUpOnlyWithoutFile
<1>1. KeyInv => GivenUpOnlyWithoutFile
  BY DEF KeyInv
<1> QED
  BY <1>1, KeyStart, KeyStep, PTL DEF SigningSpec

----------------------------------------------------------------------------
(***************************************************************************)
(* The Signature header.                                                   *)
(***************************************************************************)

(* What a pass has come to, over texts of the tokens C. *)
Passes(C) == [parts : Seq(Seq(C)), cur : Seq(C), inQuotes : BOOLEAN]

(* A character takes a pass to a pass. *)
LEMMA PassStep ==
  ASSUME NEW C, NEW acc \in Passes(C), NEW c \in C
  PROVE  splitStep(acc, c) \in Passes(C)
<1>1. /\ acc.parts \in Seq(Seq(C)) /\ acc.cur \in Seq(C) /\ acc.inQuotes \in BOOLEAN
  BY DEF Passes
<1>2. /\ Append(acc.parts, acc.cur) \in Seq(Seq(C)) /\ Append(acc.cur, c) \in Seq(C)
      /\ <<>> \in Seq(C)
  BY <1>1
<1> QED
  BY <1>1, <1>2, Zenon DEF splitStep, Passes

(* The values f[0], f[1], ... of a pass over v that starts with acc. *)
PassOver(f, C, v, acc) ==
  /\ f \in [0..Len(v) -> Passes(C)] /\ f[0] = acc
  /\ \A i \in 1..Len(v) : f[i] = splitStep(f[i - 1], v[i])

(* Scan is the last of them. *)
LEMMA ScanLoop ==
  ASSUME NEW C, NEW v \in Seq(C), NEW acc \in Passes(C)
  PROVE  \E f : PassOver(f, C, v, acc) /\ Scan(v, acc) = f[Len(v)]
<1> DEFINE n == Len(v)
           S == Passes(C)
           g == [p \in (1..n) \X S |-> splitStep(p[2], v[p[1]])]
           Loop(f) == [i \in 0..n |-> IF i = 0 THEN acc ELSE splitStep(f[i - 1], v[i])]
<1>1. n \in Nat /\ (\A i \in 1..n : v[i] \in C) /\ acc \in S
  OBVIOUS
<1> HIDE DEF n, S
<1>2. \A i \in 1..n, o \in S : splitStep(o, v[i]) \in S
  BY <1>1, PassStep DEF S
<1>3. g \in [(1..n) \X S -> S]
  BY <1>2
<1>4. \A i \in 1..n, o \in S : g[<<i, o>>] = splitStep(o, v[i])
  OBVIOUS
<1> HIDE DEF g
<1>5. PICK f \in [0..n -> S] : Iterates(f, n, acc, g)
  BY <1>1, <1>3, Recursion, Zenon
<1>6. \A i \in 1..n : f[i - 1] \in S
  BY <1>1
<1>7. \A i \in 1..n : f[i] = splitStep(f[i - 1], v[i])
  BY <1>4, <1>5, <1>6, Zenon DEF Iterates
<1>8. f = Loop(f)
  <2>1. DOMAIN f = 0..n /\ f = [i \in 0..n |-> f[i]]
    OBVIOUS
  <2>2. ASSUME NEW i \in 0..n PROVE f[i] = Loop(f)[i]
    <3>1. i = 0 \/ i \in 1..n
      BY <1>1
    <3> QED
      BY <3>1, <1>5, <1>7, Zenon DEF Iterates
  <2> QED
    BY <2>1, <2>2, Zenon
<1> DEFINE F == CHOOSE h : h = Loop(h)
<1>9. F = Loop(F)
  BY <1>8, Zenon
<1>10. Scan(v, acc) = F[n]
  BY DEF Scan, n
<1>11. F[0] = acc /\ \A i \in 1..n : F[i] = splitStep(F[i - 1], v[i])
  <2> HIDE DEF F
  <2> DEFINE M == Loop(F)
  <2>1. M[0] = acc /\ \A i \in 1..n : M[i] = splitStep(F[i - 1], v[i])
    BY <1>1
  <2>2. F = M
    BY <1>9, Zenon
  <2> HIDE DEF M
  <2> QED
    BY <2>1, <2>2
<1> HIDE DEF F
<1>12. F = [i \in 0..n |-> F[i]]
  BY <1>9
<1>13. F \in [0..n -> S]
  <2> DEFINE T == {i \in 0..n : F[i] \in S}
  <2>1. 0 \in T
    BY <1>1, <1>11
  <2>2. ASSUME NEW i \in 1..n, i - 1 \in T PROVE i \in T
    <3>1. F[i - 1] \in S /\ i \in 0..n
      BY <2>2, <1>1
    <3> QED
      BY <3>1, <1>2, <1>11
  <2>3. \A i \in 0..n : i \in T
    <3> HIDE DEF T
    <3> QED
      BY <1>1, <2>1, <2>2, InductTo, Zenon
  <2> QED
    BY <2>3, <1>12
<1> QED
  BY <1>10, <1>11, <1>13, Zenon DEF PassOver, n, S

(* A pass over two texts goes on, in the second, from what it has come to *)
(* in the first.                                                          *)
LEMMA ScanConcat ==
  ASSUME NEW C, NEW u \in Seq(C), NEW w \in Seq(C), NEW acc \in Passes(C)
  PROVE  Scan(u, acc) \in Passes(C) /\ Scan(u \o w, acc) = Scan(w, Scan(u, acc))
<1> DEFINE m == Len(u)
           n == Len(w)
           v == u \o w
           mid == Scan(u, acc)
<1>1. /\ m \in Nat /\ n \in Nat /\ v \in Seq(C) /\ Len(v) = m + n
      /\ \A i \in 1..m : v[i] = u[i]
      /\ \A i \in 1..n : v[m + i] = w[i]
  OBVIOUS
<1>2. PICK f : PassOver(f, C, u, acc) /\ mid = f[m]
  BY ScanLoop
<1>3. /\ f \in [0..m -> Passes(C)] /\ f[0] = acc
      /\ \A i \in 1..m : f[i] = splitStep(f[i - 1], u[i])
  BY <1>2, Zenon DEF PassOver
<1>m. mid \in Passes(C)
  BY <1>1, <1>2, <1>3
<1> HIDE DEF m, n, v, mid
<1>4. PICK g : PassOver(g, C, w, mid) /\ Scan(w, mid) = g[n]
  BY <1>m, ScanLoop, Zenon DEF n
<1>g. /\ g \in [0..n -> Passes(C)] /\ g[0] = mid
      /\ \A i \in 1..n : g[i] = splitStep(g[i - 1], w[i])
  BY <1>4, Zenon DEF PassOver, n
<1>5. PICK h : PassOver(h, C, v, acc) /\ Scan(v, acc) = h[m + n]
  <2>1. PICK h : PassOver(h, C, v, acc) /\ Scan(v, acc) = h[Len(v)]
    BY <1>1, ScanLoop, Zenon
  <2> QED
    BY <1>1, <2>1, Zenon
<1>h. /\ h[0] = acc
      /\ \A i \in 1..(m + n) : h[i] = splitStep(h[i - 1], v[i])
  BY <1>1, <1>5, Zenon DEF PassOver
<1>6. \A i \in 0..m : h[i] = f[i]
  <2> DEFINE T == {i \in 0..m : h[i] = f[i]}
  <2>1. 0 \in T
    BY <1>1, <1>3, <1>h
  <2>2. ASSUME NEW i \in 1..m, i - 1 \in T PROVE i \in T
    <3>1. i \in 1..(m + n) /\ i \in 0..m /\ v[i] = u[i] /\ h[i - 1] = f[i - 1]
      BY <1>1, <2>2
    <3> QED
      BY <3>1, <1>3, <1>h
  <2>3. \A i \in 0..m : i \in T
    <3> HIDE DEF T
    <3> QED
      BY <1>1, <2>1, <2>2, InductTo, Zenon
  <2> QED
    BY <2>3
<1>7. \A i \in 0..n : h[m + i] = g[i]
  <2> DEFINE T == {i \in 0..n : h[m + i] = g[i]}
  <2>1. 0 \in T
    BY <1>1, <1>2, <1>g, <1>6
  <2>2. ASSUME NEW i \in 1..n, i - 1 \in T PROVE i \in T
    <3>1. /\ m + i \in 1..(m + n) /\ i \in 0..n /\ v[m + i] = w[i]
          /\ (m + i) - 1 = m + (i - 1) /\ h[m + (i - 1)] = g[i - 1]
      BY <1>1, <2>2
    <3> QED
      BY <3>1, <1>g, <1>h
  <2>3. \A i \in 0..n : i \in T
    <3> HIDE DEF T
    <3> QED
      BY <1>1, <2>1, <2>2, InductTo, Zenon
  <2> QED
    BY <2>3
<1>8. n \in 0..n
  BY <1>1
<1> QED
  BY <1>m, <1>4, <1>5, <1>7, <1>8 DEF v, mid

(* One character is one step. *)
LEMMA ScanOne ==
  ASSUME NEW C, NEW c \in C, NEW acc \in Passes(C)
  PROVE  Scan(<<c>>, acc) = splitStep(acc, c)
<1> DEFINE v == <<c>>
<1>1. v \in Seq(C) /\ Len(v) = 1 /\ v[1] = c
  OBVIOUS
<1> HIDE DEF v
<1>2. PICK f : PassOver(f, C, v, acc) /\ Scan(v, acc) = f[Len(v)]
  BY <1>1, ScanLoop, Zenon
<1>3. 1 \in 1..1 /\ 1 - 1 = 0
  OBVIOUS
<1>4. f[1] = splitStep(f[0], c) /\ f[0] = acc
  BY <1>1, <1>2, <1>3 DEF PassOver
<1> QED
  BY <1>1, <1>2, <1>4, Zenon DEF v

(* t is s with e after its last element. *)
Grown(S, s, e, t) ==
  /\ t \in Seq(S) /\ Len(t) = Len(s) + 1 /\ t[Len(s) + 1] = e
  /\ \A i \in 1..Len(s) : t[i] = s[i]

(* What Append returns. *)
LEMMA AppendGrows ==
  ASSUME NEW S, NEW s, s \in Seq(S), NEW e, e \in S
  PROVE  Grown(S, s, e, Append(s, e))
<1>1. Append(s, e) \in Seq(S) /\ Len(Append(s, e)) = Len(s) + 1
  OBVIOUS
<1>2. Append(s, e)[Len(s) + 1] = e
  OBVIOUS
<1>3. \A i \in 1..Len(s) : Append(s, e)[i] = s[i]
  OBVIOUS
<1> QED
  BY <1>1, <1>2, <1>3, Zenon DEF Grown

(* The text up to a place ends with what is there. *)
LEMMA Prefix ==
  ASSUME NEW C, NEW w, w \in Seq(C), NEW j, j \in 1..Len(w)
  PROVE  SubSeq(w, 1, j) = Append(SubSeq(w, 1, j - 1), w[j])
<1> DEFINE a == SubSeq(w, 1, j)
           b == SubSeq(w, 1, j - 1)
           e == w[j]
           c == Append(b, e)
<1>0. Len(w) \in Nat /\ j \in Nat /\ e \in C /\ \A i \in 1..Len(w) : w[i] \in C
  OBVIOUS
<1>1. a \in Seq(C) /\ Len(a) = j /\ \A i \in 1..j : a[i] = w[i]
  BY <1>0
<1>2. b \in Seq(C) /\ Len(b) = j - 1 /\ \A i \in 1..(j - 1) : b[i] = w[i]
  BY <1>0
<1> HIDE DEF a, b
<1>3. Grown(C, b, e, c)
  BY <1>0, <1>2, AppendGrows, Zenon
<1> HIDE DEF c
<1>4. c \in Seq(C) /\ Len(c) = j /\ c[j] = e /\ \A i \in 1..(j - 1) : c[i] = w[i]
  BY <1>0, <1>2, <1>3 DEF Grown
<1>5. \A i \in 1..Len(a) : a[i] = c[i]
  BY <1>0, <1>1, <1>4
<1>6. a = c
  BY <1>1, <1>4, <1>5, SeqEqual
<1> QED
  BY <1>6, Zenon DEF a, b, c

(* Inside quotes, what is not a quote is passed over. *)
LEMMA ScanInside ==
  ASSUME NEW C, NEW v \in Seq(C), QUOTE \notin Range(v),
         NEW ps \in Seq(Seq(C)), NEW cur \in Seq(C)
  PROVE  Scan(v, [parts |-> ps, cur |-> cur, inQuotes |-> TRUE])
           = [parts |-> ps, cur |-> cur \o v, inQuotes |-> TRUE]
<1> DEFINE n == Len(v)
           m == Len(cur)
           w == cur \o v
           Inside(t) == [parts |-> ps, cur |-> t, inQuotes |-> TRUE]
<1>1. /\ n \in Nat /\ m \in Nat /\ w \in Seq(C) /\ Len(w) = m + n
      /\ \A i \in 1..m : w[i] = cur[i]
      /\ \A i \in 1..n : v[i] \in C /\ w[m + i] = v[i] /\ v[i] # QUOTE
  BY DEF Range
<1>2. \A t \in Seq(C) : Inside(t) \in Passes(C)
  BY DEF Passes
<1>3. \A t \in Seq(C), c \in C : c # QUOTE => splitStep(Inside(t), c) = Inside(Append(t, c))
  BY DEF splitStep
<1>4. SubSeq(w, 1, m) = cur
  <2>1. \A i \in 1..m : w[i] \in C
    BY <1>1
  <2>2. /\ SubSeq(w, 1, m) \in Seq(C) /\ Len(SubSeq(w, 1, m)) = m
        /\ \A i \in 1..m : SubSeq(w, 1, m)[i] = cur[i]
    <3> HIDE DEF m, w
    <3>1. /\ SubSeq(w, 1, m) \in Seq(C) /\ Len(SubSeq(w, 1, m)) = m
          /\ \A i \in 1..m : SubSeq(w, 1, m)[i] = w[i]
      BY <1>1, <2>1
    <3> QED
      BY <1>1, <3>1
  <2> QED
    BY <2>2, SeqEqual
<1>5. SubSeq(w, 1, m + n) = w
  BY <1>1, SubSeqFull
<1>6. \A i \in 1..n : /\ SubSeq(w, 1, m + (i - 1)) \in Seq(C)
                       /\ SubSeq(w, 1, m + i) = Append(SubSeq(w, 1, m + (i - 1)), v[i])
  <2> HIDE DEF m, n, w
  <2> TAKE i \in 1..n
  <2>1. m + i \in 1..Len(w) /\ (m + i) - 1 = m + (i - 1)
    BY <1>1
  <2>2. SubSeq(w, 1, m + i) = Append(SubSeq(w, 1, m + (i - 1)), w[m + i])
    BY <1>1, <2>1, Prefix, Zenon
  <2>3. SubSeq(w, 1, m + (i - 1)) \in Seq(C)
    BY <1>1, <2>1
  <2> QED
    BY <1>1, <2>2, <2>3
<1> HIDE DEF n, m, w, Inside
<1>7. PICK f : PassOver(f, C, v, Inside(cur)) /\ Scan(v, Inside(cur)) = f[n]
  BY <1>2, ScanLoop, Zenon DEF n
<1>8. f[0] = Inside(cur) /\ \A i \in 1..n : f[i] = splitStep(f[i - 1], v[i])
  BY <1>7, Zenon DEF PassOver, n
<1> DEFINE T == {i \in 0..n : f[i] = Inside(SubSeq(w, 1, m + i))}
<1>9. 0 \in T
  <2>1. 0 \in 0..n /\ m + 0 = m
    BY <1>1
  <2> QED
    BY <1>4, <1>8, <2>1, Zenon
<1>10. ASSUME NEW i \in 1..n, i - 1 \in T PROVE i \in T
  <2>1. f[i - 1] = Inside(SubSeq(w, 1, m + (i - 1))) /\ i \in 0..n
    BY <1>1, <1>10
  <2>2. f[i] = Inside(Append(SubSeq(w, 1, m + (i - 1)), v[i]))
    BY <1>1, <1>3, <1>6, <1>8, <2>1, Zenon
  <2> QED
    BY <1>6, <2>1, <2>2, Zenon
<1>11. \A i \in 0..n : i \in T
  <2> HIDE DEF T
  <2> QED
    BY <1>1, <1>9, <1>10, InductTo, Zenon
<1>12. n \in T
  <2> HIDE DEF T
  <2> QED
    BY <1>1, <1>11
<1>13. f[n] = Inside(w)
  BY <1>5, <1>12, Zenon
<1> QED
  BY <1>7, <1>13, Zenon DEF Inside, w

(* Short sequences grow as they are written. *)
LEMMA AppendToTuple ==
  ASSUME NEW C, NEW x \in C, NEW y \in C, NEW z \in C
  PROVE  Append(<<x>>, y) = <<x, y>> /\ Append(<<x, y>>, z) = <<x, y, z>>
<1>1. Append(<<x>>, y) = <<x, y>>
  <2> DEFINE s == Append(<<x>>, y)
             t == <<x, y>>
  <2>1. t \in Seq(C) /\ Len(t) = 2 /\ t[1] = x /\ t[2] = y
    OBVIOUS
  <2>2. s \in Seq(C) /\ Len(s) = 2 /\ s[1] = x /\ s[2] = y
    OBVIOUS
  <2> HIDE DEF s, t
  <2>3. \A i \in 1..Len(s) : s[i] = t[i]
    BY <2>1, <2>2
  <2> QED
    BY <2>1, <2>2, <2>3, SeqEqual, Zenon DEF s, t
<1>2. Append(<<x, y>>, z) = <<x, y, z>>
  <2> DEFINE s == Append(<<x, y>>, z)
             t == <<x, y, z>>
  <2>1. t \in Seq(C) /\ Len(t) = 3 /\ t[1] = x /\ t[2] = y /\ t[3] = z
    OBVIOUS
  <2>2. s \in Seq(C) /\ Len(s) = 3 /\ s[1] = x /\ s[2] = y /\ s[3] = z
    OBVIOUS
  <2> HIDE DEF s, t
  <2>3. \A i \in 1..Len(s) : s[i] = t[i]
    BY <2>1, <2>2
  <2>4. s = t
    BY <2>1, <2>2, <2>3, SeqEqual, Zenon
  <2> QED
    BY <2>4, Zenon DEF s, t
<1> QED
  BY <1>1, <1>2

(* A pass outside quotes. *)
Outside(p, t) == [parts |-> p, cur |-> t, inQuotes |-> FALSE]

(* Neither the name nor the value ends a quoted part. *)
LEMMA ScanQuoted ==
  ASSUME NEW C, NEW name \in C, NEW value \in Seq(C), EQUALS \in C, QUOTE \in C,
         name \notin {COMMA, QUOTE}, QUOTE \notin Range(value),
         NEW ps \in Seq(Seq(C))
  PROVE  Scan(Quoted(name, value), Outside(ps, <<>>)) = Outside(ps, Quoted(name, value))
<1> DEFINE In(t) == [parts |-> ps, cur |-> t, inQuotes |-> TRUE]
           Out(t) == [parts |-> ps, cur |-> t, inQuotes |-> FALSE]
           h == <<name, EQUALS, QUOTE>>
           q == <<QUOTE>>
<1>1. h \in Seq(C) /\ q \in Seq(C) /\ <<>> \in Seq(C) /\ h \o value \in Seq(C)
  OBVIOUS
<1>2. \A t \in Seq(C) : In(t) \in Passes(C) /\ Out(t) \in Passes(C)
  BY DEF Passes
<1>3. ASSUME NEW t \in Seq(C)
      PROVE  /\ splitStep(Out(t), name) = Out(Append(t, name))
             /\ splitStep(Out(t), EQUALS) = Out(Append(t, EQUALS))
             /\ splitStep(Out(t), QUOTE) = In(Append(t, QUOTE))
             /\ splitStep(In(t), QUOTE) = Out(Append(t, QUOTE))
  BY Zenon DEF splitStep, COMMA, QUOTE, EQUALS
<1>4. Scan(h, Out(<<>>)) = In(h)
  <2>1. Len(h) = 3 /\ h[1] = name /\ h[2] = EQUALS /\ h[3] = QUOTE
    OBVIOUS
  <2>2. /\ <<name>> \in Seq(C) /\ Append(<<>>, name) = <<name>>
        /\ <<name, EQUALS>> \in Seq(C) /\ Append(<<name>>, EQUALS) = <<name, EQUALS>>
        /\ Append(<<name, EQUALS>>, QUOTE) = h
    <3>1. Append(<<>>, name) = <<name>> /\ <<name>> \in Seq(C) /\ <<name, EQUALS>> \in Seq(C)
      OBVIOUS
    <3>2. Append(<<name>>, EQUALS) = <<name, EQUALS>>
      BY AppendToTuple, Zenon
    <3>3. Append(<<name, EQUALS>>, QUOTE) = h
      BY AppendToTuple, Zenon
    <3> QED
      BY <3>1, <3>2, <3>3, Zenon
  <2> HIDE DEF In, Out, h
  <2>3. PICK f : PassOver(f, C, h, Out(<<>>)) /\ Scan(h, Out(<<>>)) = f[Len(h)]
    BY <1>1, <1>2, ScanLoop, Zenon
  <2>4. /\ f[0] = Out(<<>>) /\ f[1] = splitStep(f[0], name)
        /\ f[2] = splitStep(f[1], EQUALS) /\ f[3] = splitStep(f[2], QUOTE)
    <3>1. 1 \in 1..3 /\ 2 \in 1..3 /\ 3 \in 1..3 /\ 1 - 1 = 0 /\ 2 - 1 = 1 /\ 3 - 1 = 2
      OBVIOUS
    <3> QED
      BY <2>1, <2>3, <3>1 DEF PassOver
  <2>5. f[1] = Out(<<name>>)
    BY <1>1, <1>3, <2>2, <2>4, Zenon
  <2>6. f[2] = Out(<<name, EQUALS>>)
    BY <1>3, <2>2, <2>4, <2>5, Zenon
  <2>7. f[3] = In(h)
    BY <1>3, <2>2, <2>4, <2>6, Zenon
  <2> QED
    BY <2>1, <2>3, <2>7, Zenon
<1>5. Scan(value, In(h)) = In(h \o value)
  <2> HIDE DEF h
  <2> QED
    BY <1>1, ScanInside, Zenon
<1> DEFINE b == h \o value
<1> HIDE DEF In, Out, h
<1>6. Scan(b, Out(<<>>)) = In(b)
  <2>1. Scan(h \o value, Out(<<>>)) = Scan(value, Scan(h, Out(<<>>)))
    <3>1. h \in Seq(C) /\ value \in Seq(C) /\ Out(<<>>) \in Passes(C)
      BY <1>1, <1>2, Zenon
    <3> QED
      BY <3>1, ScanConcat
  <2> QED
    BY <1>4, <1>5, <2>1, Zenon
<1> HIDE DEF b
<1>7. Scan(q, In(b)) = Out(Append(b, QUOTE))
  BY <1>1, <1>2, <1>3, ScanOne, Zenon DEF b
<1>8. Append(b, QUOTE) = b \o q
  BY <1>1, AppendIsConcat, Zenon DEF b
<1>9. Scan(b \o q, Out(<<>>)) = Out(b \o q)
  <2>1. b \in Seq(C) /\ q \in Seq(C) /\ Out(<<>>) \in Passes(C)
    BY <1>1, <1>2, Zenon DEF b
  <2> HIDE DEF q
  <2>2. Scan(b \o q, Out(<<>>)) = Scan(q, Scan(b, Out(<<>>)))
    BY <2>1, ScanConcat
  <2> QED
    BY <1>6, <1>7, <1>8, <2>2, Zenon
<1>10. Quoted(name, value) = b \o q
  BY Zenon DEF Quoted, b, h
<1> QED
  BY <1>9, <1>10, Zenon DEF Out, Outside

(* The least and the greatest of some numbers are the ones chosen as such. *)
LEMMA Extremes ==
  ASSUME NEW S \in SUBSET Int, NEW m \in S
  PROVE  /\ (\A j \in S : m <= j) => (CHOOSE i \in S : \A j \in S : i <= j) = m
         /\ (\A j \in S : m >= j) => (CHOOSE i \in S : \A j \in S : i >= j) = m
<1>1. ASSUME \A j \in S : m <= j PROVE (CHOOSE i \in S : \A j \in S : i <= j) = m
  <2> DEFINE c == CHOOSE i \in S : \A j \in S : i <= j
  <2>1. c \in S /\ \A j \in S : c <= j
    BY <1>1, Zenon
  <2> HIDE DEF c
  <2>2. c = m
    BY <1>1, <2>1
  <2> QED
    BY <2>2 DEF c
<1>2. ASSUME \A j \in S : m >= j PROVE (CHOOSE i \in S : \A j \in S : i >= j) = m
  <2> DEFINE c == CHOOSE i \in S : \A j \in S : i >= j
  <2>1. c \in S /\ \A j \in S : c >= j
    BY <1>2, Zenon
  <2> HIDE DEF c
  <2>2. c = m
    BY <1>2, <2>1
  <2> QED
    BY <2>2 DEF c
<1> QED
  BY <1>1, <1>2

(* strings.Trim keeps what stands between the first and the last kept. *)
LEMMA Trimmed ==
  ASSUME NEW C, NEW s \in Seq(C), NEW cs, NEW lo \in 1..Len(s), NEW hi \in 1..Len(s),
         s[lo] \notin cs, s[hi] \notin cs,
         \A i \in 1..Len(s) : s[i] \notin cs => lo <= i /\ i <= hi
  PROVE  Trim(s, cs) = SubSeq(s, lo, hi)
<1> DEFINE keep == {i \in DOMAIN s : s[i] \notin cs}
<1>1. DOMAIN s = 1..Len(s) /\ Len(s) \in Nat
  OBVIOUS
<1>2. lo \in keep /\ hi \in keep /\ (\A j \in keep : lo <= j /\ hi >= j) /\ keep \subseteq Int
  BY <1>1
<1> HIDE DEF keep
<1>3. (CHOOSE i \in keep : \A j \in keep : i <= j) = lo
  BY <1>2, Extremes
<1>4. (CHOOSE i \in keep : \A j \in keep : i >= j) = hi
  BY <1>2, Extremes
<1>5. keep # {}
  BY <1>2
<1> QED
  BY <1>3, <1>4, <1>5, Zenon DEF Trim, keep

(* The text of the covered headers, word by word. *)
LEMMA Joined ==
  ASSUME NEW C, SPACE \in C, NEW hs \in Seq(C), Len(hs) > 0
  PROVE  /\ SpaceJoin(hs) \in Seq(C) /\ Len(SpaceJoin(hs)) = 2 * Len(hs) - 1
         /\ \A k \in 1..Len(hs) : SpaceJoin(hs)[2 * k - 1] = hs[k]
         /\ \A k \in 1..(Len(hs) - 1) : SpaceJoin(hs)[2 * k] = SPACE
         /\ Range(SpaceJoin(hs)) \subseteq Range(hs) \cup {SPACE}
<1> DEFINE n == Len(hs)
           t == SpaceJoin(hs)
<1>1. n \in Nat /\ n >= 1 /\ 2 * n - 1 \in Nat /\ \A k \in 1..n : hs[k] \in C
  OBVIOUS
<1>2. /\ t = [i \in 1..(2 * n - 1) |-> IF i % 2 = 1 THEN hs[(i + 1) \div 2] ELSE SPACE]
      /\ DOMAIN t = 1..(2 * n - 1)
  BY DEF SpaceJoin
<1> HIDE DEF n, t
<1>3. \A i \in 1..(2 * n - 1) : t[i] = IF i % 2 = 1 THEN hs[(i + 1) \div 2] ELSE SPACE
  BY <1>2
<1>4. \A i \in 1..(2 * n - 1) : (i + 1) \div 2 \in 1..n
  BY <1>1
<1>5. \A i \in 1..(2 * n - 1) : t[i] \in C /\ t[i] \in Range(hs) \cup {SPACE}
  BY <1>1, <1>3, <1>4 DEF n, Range
<1>6. t \in Seq(C) /\ Len(t) = 2 * n - 1
  BY <1>1, <1>2, <1>5
<1>7. ASSUME NEW k \in 1..n PROVE t[2 * k - 1] = hs[k]
  BY <1>1, <1>3
<1>8. ASSUME NEW k \in 1..(n - 1) PROVE t[2 * k] = SPACE
  BY <1>1, <1>3
<1>9. Range(t) \subseteq Range(hs) \cup {SPACE}
  BY <1>2, <1>5 DEF Range
<1> QED
  BY <1>6, <1>7, <1>8, <1>9 DEF n, t

(* The values f[0], f[1], ... of the loop of Fields over text. *)
FieldsOver(f, C, text) ==
  /\ f \in [0..Len(text) -> Seq(C)] /\ f[0] = <<>>
  /\ \A i \in 1..Len(text) :
       f[i] = IF text[i] = SPACE THEN f[i - 1] ELSE Append(f[i - 1], text[i])

(* Fields is the last of them. *)
LEMMA FieldsLoop ==
  ASSUME NEW C, NEW text \in Seq(C)
  PROVE  \E f : FieldsOver(f, C, text) /\ Fields(text) = f[Len(text)]
<1> DEFINE n == Len(text)
           S == Seq(C)
           Turn(i, o) == IF text[i] = SPACE THEN o ELSE Append(o, text[i])
           g == [p \in (1..n) \X S |-> Turn(p[1], p[2])]
           Loop(f) == [i \in 0..n |-> IF i = 0 THEN <<>>
                                      ELSE IF text[i] = SPACE THEN f[i - 1]
                                      ELSE Append(f[i - 1], text[i])]
<1>1. n \in Nat /\ <<>> \in S /\ \A i \in 1..n : text[i] \in C
  OBVIOUS
<1>2. \A i \in 1..n, o \in S : Turn(i, o) \in S
  BY <1>1
<1> HIDE DEF n, S
<1>3. g \in [(1..n) \X S -> S]
  <2> HIDE DEF Turn
  <2> QED
    BY <1>2
<1>4. \A i \in 1..n, o \in S : g[<<i, o>>] = Turn(i, o)
  <2> HIDE DEF Turn
  <2> QED
    OBVIOUS
<1> HIDE DEF g
<1>5. PICK f \in [0..n -> S] : Iterates(f, n, <<>>, g)
  BY <1>1, <1>3, Recursion, Zenon
<1>6. \A i \in 1..n : f[i - 1] \in S
  BY <1>1
<1>7. \A i \in 1..n : f[i] = Turn(i, f[i - 1])
  <2> HIDE DEF Turn
  <2> QED
    BY <1>4, <1>5, <1>6, Zenon DEF Iterates
<1>8. f = Loop(f)
  <2>1. DOMAIN f = 0..n /\ f = [i \in 0..n |-> f[i]]
    OBVIOUS
  <2>2. ASSUME NEW i \in 0..n PROVE f[i] = Loop(f)[i]
    <3>1. i = 0 \/ i \in 1..n
      BY <1>1
    <3> QED
      BY <3>1, <1>5, <1>7, Zenon DEF Iterates
  <2> QED
    BY <2>1, <2>2, Zenon
<1> DEFINE F == CHOOSE h : h = Loop(h)
<1>9. F = Loop(F)
  BY <1>8, Zenon
<1>10. Fields(text) = F[n]
  BY DEF Fields, n
<1>11. F[0] = <<>> /\ \A i \in 1..n : F[i] = Turn(i, F[i - 1])
  <2> HIDE DEF F
  <2> DEFINE M == Loop(F)
  <2>1. M[0] = <<>> /\ \A i \in 1..n : M[i] = Turn(i, F[i - 1])
    BY <1>1
  <2>2. F = M
    BY <1>9, Zenon
  <2> HIDE DEF M, Turn
  <2> QED
    BY <2>1, <2>2
<1> HIDE DEF F
<1>12. F = [i \in 0..n |-> F[i]]
  BY <1>9
<1>13. F \in [0..n -> S]
  <2> DEFINE T == {i \in 0..n : F[i] \in S}
  <2>1. 0 \in T
    BY <1>1, <1>11
  <2>2. ASSUME NEW i \in 1..n, i - 1 \in T PROVE i \in T
    <3>1. F[i - 1] \in S /\ i \in 0..n
      BY <2>2, <1>1
    <3> HIDE DEF Turn
    <3> QED
      BY <3>1, <1>2, <1>11
  <2>3. \A i \in 0..n : i \in T
    <3> HIDE DEF T
    <3> QED
      BY <1>1, <2>1, <2>2, InductTo, Zenon
  <2> QED
    BY <2>3, <1>12
<1> QED
  BY <1>10, <1>11, <1>13, Zenon DEF FieldsOver, n, S

(* strings.Fields takes apart what strings.Join with spaces has put        *)
(* together, whatever the words, as long as none is a space.               *)
LEMMA FieldsOfJoined ==
  ASSUME NEW C, SPACE \in C, NEW hs \in Seq(C), Len(hs) > 0, SPACE \notin Range(hs)
  PROVE  Fields(SpaceJoin(hs)) = hs
<1> DEFINE n == Len(hs)
           t == SpaceJoin(hs)
<1>1. n \in Nat /\ n >= 1 /\ \A k \in 1..n : hs[k] \in C /\ hs[k] # SPACE
  BY DEF Range
<1>2. /\ t \in Seq(C) /\ Len(t) = 2 * n - 1
      /\ \A k \in 1..n : t[2 * k - 1] = hs[k]
      /\ \A k \in 1..(n - 1) : t[2 * k] = SPACE
  BY Joined
<1>3. SubSeq(hs, 1, 0) = <<>> /\ SubSeq(hs, 1, n) = hs
  BY SubSeqEmpty, SubSeqFull
<1>4. \A k \in 1..n : SubSeq(hs, 1, k) = Append(SubSeq(hs, 1, k - 1), hs[k])
  BY <1>1
<1> HIDE DEF n, t
<1>5. PICK f : FieldsOver(f, C, t) /\ Fields(t) = f[2 * n - 1]
  BY <1>2, FieldsLoop, Zenon
<1>6. f[0] = <<>> /\ \A i \in 1..(2 * n - 1) :
        f[i] = IF t[i] = SPACE THEN f[i - 1] ELSE Append(f[i - 1], t[i])
  BY <1>2, <1>5, Zenon DEF FieldsOver
<1> DEFINE T == {k \in 0..n : k > 0 => f[2 * k - 1] = SubSeq(hs, 1, k)}
<1>7. 0 \in T
  BY <1>1
<1>8. ASSUME NEW k \in 1..n, k - 1 \in T PROVE k \in T
  <2>1. f[2 * k - 2] = SubSeq(hs, 1, k - 1)
    <3>1. CASE k = 1
      <4>1. 2 * k - 2 = 0 /\ k - 1 = 0
        BY <3>1
      <4> QED
        BY <4>1, <1>3, <1>6, Zenon
    <3>2. CASE k # 1
      <4>1. /\ k - 1 \in 1..(n - 1) /\ 2 * (k - 1) \in 1..(2 * n - 1)
            /\ 2 * (k - 1) = 2 * k - 2 /\ k - 1 > 0
        BY <1>1, <3>2
      <4>2. f[2 * (k - 1) - 1] = SubSeq(hs, 1, k - 1)
        BY <1>8, <4>1
      <4>3. f[2 * (k - 1)] = f[2 * (k - 1) - 1]
        BY <1>2, <1>6, <4>1, Zenon
      <4> QED
        BY <4>1, <4>2, <4>3
    <3> QED
      BY <3>1, <3>2
  <2>2. 2 * k - 1 \in 1..(2 * n - 1) /\ (2 * k - 1) - 1 = 2 * k - 2 /\ k \in 0..n
    BY <1>1
  <2>3. t[2 * k - 1] = hs[k] /\ hs[k] # SPACE
    BY <1>1, <1>2, Zenon
  <2>4. f[2 * k - 1] = Append(f[(2 * k - 1) - 1], hs[k])
    BY <1>6, <2>2, <2>3, Zenon
  <2>5. f[2 * k - 1] = SubSeq(hs, 1, k)
    BY <1>4, <2>1, <2>2, <2>4, Zenon
  <2> QED
    BY <2>2, <2>5, Zenon
<1>9. \A k \in 0..n : k \in T
  <2> HIDE DEF T
  <2> QED
    BY <1>1, <1>7, <1>8, InductTo, Zenon
<1>10. f[2 * n - 1] = SubSeq(hs, 1, n)
  <2>1. n \in 0..n /\ n > 0
    BY <1>1
  <2> QED
    BY <1>9, <2>1, Zenon
<1> QED
  BY <1>3, <1>5, <1>10, Zenon DEF t

(* The tokens of a quoted value, by their place. *)
LEMMA QuotedTokens ==
  ASSUME NEW C, NEW name \in C, NEW value \in Seq(C), EQUALS \in C, QUOTE \in C
  PROVE  /\ Quoted(name, value) \in Seq(C) /\ Len(Quoted(name, value)) = Len(value) + 4
         /\ Quoted(name, value)[1] = name
         /\ Quoted(name, value)[2] = EQUALS
         /\ Quoted(name, value)[3] = QUOTE
         /\ \A i \in 1..Len(value) : Quoted(name, value)[i + 3] = value[i]
         /\ Quoted(name, value)[Len(value) + 4] = QUOTE
<1> DEFINE h == <<name, EQUALS, QUOTE>>
           q == <<QUOTE>>
           b == h \o value
<1>1. h \in Seq(C) /\ Len(h) = 3 /\ h[1] = name /\ h[2] = EQUALS /\ h[3] = QUOTE
  OBVIOUS
<1>2. q \in Seq(C) /\ Len(q) = 1 /\ q[1] = QUOTE
  OBVIOUS
<1>3. Len(value) \in Nat
  OBVIOUS
<1> HIDE DEF h, q
<1>4. /\ b \in Seq(C) /\ Len(b) = Len(value) + 3
      /\ \A i \in 1..3 : b[i] = h[i]
      /\ \A i \in 1..Len(value) : b[i + 3] = value[i]
  <2>1. /\ b \in Seq(C) /\ Len(b) = Len(h) + Len(value)
        /\ \A i \in 1..(Len(h) + Len(value)) :
             b[i] = IF i <= Len(h) THEN h[i] ELSE value[i - Len(h)]
    BY <1>1, ConcatProperties, Zenon
  <2> HIDE DEF b
  <2>2. ASSUME NEW i \in 1..Len(value) PROVE b[i + 3] = value[i]
    <3>1. i + 3 \in 1..(3 + Len(value)) /\ ~(i + 3 <= 3) /\ (i + 3) - 3 = i
      BY <1>3
    <3> QED
      BY <2>1, <3>1, <1>1
  <2> QED
    BY <1>1, <1>3, <2>1, <2>2
<1> HIDE DEF b
<1>5. /\ b \o q \in Seq(C) /\ Len(b \o q) = Len(value) + 4
      /\ \A i \in 1..(Len(value) + 3) : (b \o q)[i] = b[i]
      /\ (b \o q)[Len(value) + 4] = q[1]
  <2>1. Len(b \o q) = Len(b) + Len(q) /\ b \o q \in Seq(C)
    BY <1>2, <1>4, ConcatProperties, Zenon
  <2>2. \A i \in 1..(Len(b) + Len(q)) :
          (b \o q)[i] = IF i <= Len(b) THEN b[i] ELSE q[i - Len(b)]
    BY <1>2, <1>4, ConcatProperties, Zenon
  <2>3. Len(value) + 4 \in 1..(Len(b) + Len(q)) /\ (Len(value) + 4) - Len(b) = 1
    BY <1>2, <1>3, <1>4
  <2>4. (b \o q)[Len(value) + 4] = q[1]
    BY <2>2, <2>3, <1>3, <1>4
  <2> QED
    BY <2>1, <2>2, <2>4, <1>2, <1>3, <1>4
<1>6. Quoted(name, value) = b \o q
  BY DEF Quoted, b, h, q
<1> QED
  <2>1. 1 \in 1..3 /\ 2 \in 1..3 /\ 3 \in 1..3 /\ \A i \in 1..3 : i \in 1..(Len(value) + 3)
    BY <1>3
  <2>2. \A i \in 1..Len(value) : i + 3 \in 1..(Len(value) + 3)
    BY <1>3
  <2>3. \A i \in 1..3 : (b \o q)[i] = h[i]
    BY <2>1, <1>4, <1>5, Zenon
  <2>4. \A i \in 1..Len(value) : (b \o q)[i + 3] = value[i]
    BY <2>2, <1>4, <1>5, Zenon
  <2>5. (b \o q)[1] = name /\ (b \o q)[2] = EQUALS /\ (b \o q)[3] = QUOTE
    BY <2>1, <2>3, <1>1, Zenon
  <2> QED
    BY <2>4, <2>5, <1>2, <1>5, <1>6, Zenon

(* strings.Cut and Trim give back the name and the value of a quoted part. *)
LEMMA CutQuoted ==
  ASSUME NEW C, NEW name \in C, NEW value \in Seq(C), EQUALS \in C, QUOTE \in C,
         name \notin {EQUALS, SPACE}, QUOTE \notin Range(value), Len(value) > 0
  PROVE  /\ EQUALS \in Range(Quoted(name, value))
         /\ Cut(Quoted(name, value)) = [name |-> <<name>>, value |-> value]
<1> DEFINE q == Quoted(name, value)
           n == Len(value)
<1>1. n \in Nat /\ n > 0 /\ \A i \in 1..n : value[i] \in C /\ value[i] # QUOTE
  BY DEF Range
<1>2. /\ q \in Seq(C) /\ Len(q) = n + 4
      /\ q[1] = name /\ q[2] = EQUALS /\ q[3] = QUOTE
      /\ \A i \in 1..n : q[i + 3] = value[i]
      /\ q[n + 4] = QUOTE
  BY QuotedTokens
<1> HIDE DEF q, n
<1>3. DOMAIN q = 1..(n + 4) /\ \A i \in 1..(n + 4) : q[i] \in C
  BY <1>1, <1>2
<1> DEFINE First(i) == q[i] = EQUALS /\ \A j \in 1..(i - 1) : q[j] # EQUALS
           at == CHOOSE i \in DOMAIN q : First(i)
<1>4. at = 2
  <2>1. 2 \in DOMAIN q /\ q[1] # EQUALS
    BY <1>1, <1>2, <1>3
  <2>2. First(2)
    BY <1>2, <2>1
  <2>3. at \in DOMAIN q /\ First(at)
    BY <2>1, <2>2, Zenon
  <2> HIDE DEF at
  <2>4. at \in Int /\ at >= 1 /\ at # 1
    BY <1>1, <1>2, <1>3, <2>1, <2>3
  <2>5. 2 \notin 1..(at - 1)
    BY <1>2, <2>3
  <2> QED
    BY <2>4, <2>5
<1> DEFINE s == SubSeq(q, 1, 1)
           r == SubSeq(q, 3, n + 4)
<1>5. Trim(s, {SPACE}) = <<name>>
  <2>1. s \in Seq(C) /\ Len(s) = 1 /\ s[1] = name
    BY <1>1, <1>2, <1>3
  <2> HIDE DEF s
  <2>2. Trim(s, {SPACE}) = SubSeq(s, 1, 1)
    <3>1. 1 \in 1..Len(s) /\ s[1] \notin {SPACE} /\ \A i \in 1..Len(s) : 1 <= i /\ i <= 1
      BY <2>1
    <3> QED
      BY <2>1, <3>1, Trimmed, Zenon
  <2>3. SubSeq(s, 1, 1) = s
    BY <2>1, SubSeqFull
  <2>4. s = <<name>>
    <3>1. <<name>> \in Seq(C) /\ Len(<<name>>) = 1 /\ <<name>>[1] = name
      OBVIOUS
    <3>2. \A i \in 1..Len(s) : s[i] = <<name>>[i]
      BY <2>1, <3>1
    <3> QED
      BY <2>1, <3>1, <3>2, SeqEqual
  <2> QED
    BY <2>2, <2>3, <2>4
<1>6. /\ r \in Seq(C) /\ Len(r) = n + 2 /\ r[1] = QUOTE /\ r[n + 2] = QUOTE
      /\ \A i \in 1..n : r[i + 1] = value[i]
  <2>1. r \in Seq(C) /\ Len(r) = n + 2 /\ \A i \in 1..(n + 2) : r[i] = q[i + 2]
    BY <1>1, <1>2, <1>3
  <2> HIDE DEF r
  <2>2. 1 \in 1..(n + 2) /\ n + 2 \in 1..(n + 2) /\ 1 + 2 = 3 /\ (n + 2) + 2 = n + 4
    BY <1>1
  <2>3. ASSUME NEW i \in 1..n PROVE r[i + 1] = value[i]
    <3>1. i + 1 \in 1..(n + 2) /\ (i + 1) + 2 = i + 3
      BY <1>1
    <3> QED
      BY <1>2, <2>1, <3>1
  <2> QED
    BY <1>2, <2>1, <2>2, <2>3
<1> HIDE DEF r
<1>7. Trim(r, {SPACE}) = r
  <2>1. r[1] \notin {SPACE} /\ r[n + 2] \notin {SPACE}
    BY <1>6, Zenon DEF QUOTE, SPACE
  <2>2. 1 \in 1..Len(r) /\ n + 2 \in 1..Len(r) /\ \A i \in 1..Len(r) : 1 <= i /\ i <= n + 2
    BY <1>1, <1>6
  <2>3. Trim(r, {SPACE}) = SubSeq(r, 1, n + 2)
    BY <1>6, <2>1, <2>2, Trimmed, Zenon
  <2> QED
    BY <1>6, <2>3, SubSeqFull, Zenon
<1>8. Trim(r, {QUOTE}) = value
  <2>1. \A i \in 1..n : r[i + 1] \notin {QUOTE}
    BY <1>1, <1>6
  <2>2. r[2] \notin {QUOTE} /\ r[n + 1] \notin {QUOTE}
    <3>1. 1 \in 1..n /\ n \in 1..n /\ 1 + 1 = 2
      BY <1>1
    <3> QED
      BY <2>1, <3>1
  <2>3. \A i \in 1..Len(r) : r[i] \notin {QUOTE} => 2 <= i /\ i <= n + 1
    BY <1>1, <1>6
  <2>4. 2 \in 1..Len(r) /\ n + 1 \in 1..Len(r)
    BY <1>1, <1>6
  <2>5. Trim(r, {QUOTE}) = SubSeq(r, 2, n + 1)
    BY <1>6, <2>2, <2>3, <2>4, Trimmed, Zenon
  <2> DEFINE u == SubSeq(r, 2, n + 1)
  <2>6. u \in Seq(C) /\ Len(u) = n /\ \A i \in 1..n : u[i] = r[i + 1]
    <3>1. \A i \in 2..(n + 1) : r[i] \in C
      BY <1>1, <1>6
    <3> QED
      BY <1>1, <1>6, <3>1
  <2> HIDE DEF u
  <2>7. \A i \in 1..Len(u) : u[i] = value[i]
    BY <1>6, <2>6
  <2>8. u = value
    BY <2>6, <2>7, SeqEqual DEF n
  <2> QED
    BY <2>5, <2>8, Zenon DEF u
<1>9. EQUALS \in Range(q)
  BY <1>1, <1>2, <1>3 DEF Range
<1>10. Cut(q) = [name |-> Trim(SubSeq(q, 1, at - 1), {SPACE}),
                 value |-> Trim(Trim(SubSeq(q, at + 1, Len(q)), {SPACE}), {QUOTE})]
  BY Zenon DEF Cut
<1>11. 2 - 1 = 1 /\ 2 + 1 = 3
  OBVIOUS
<1> HIDE DEF at
<1>12. Cut(q) = [name |-> Trim(s, {SPACE}), value |-> Trim(Trim(r, {SPACE}), {QUOTE})]
  BY <1>2, <1>4, <1>10, <1>11, Zenon DEF r
<1> HIDE DEF s
<1> QED
  BY <1>5, <1>7, <1>8, <1>9, <1>12, Zenon DEF q

(* The last part of a name gives its value. *)
LEMMA ValueAt ==
  ASSUME NEW S, NEW parts \in Seq(S), NEW k \in 1..Len(parts), NEW name,
         EQUALS \in Range(parts[k]), Cut(parts[k]).name = <<name>>,
         \A j \in 1..Len(parts) : Cut(parts[j]).name = <<name>> => j = k
  PROVE  ValueOf(parts, name) = Cut(parts[k]).value
<1> DEFINE at == {i \in DOMAIN parts :
                    EQUALS \in Range(parts[i]) /\ Cut(parts[i]).name = <<name>>}
<1>1. DOMAIN parts = 1..Len(parts) /\ Len(parts) \in Nat
  OBVIOUS
<1>2. at = {k}
  BY <1>1, Zenon
<1>3. at # {} /\ at \in SUBSET Int /\ k \in at /\ \A j \in at : k >= j
  <2> HIDE DEF at
  <2> QED
    BY <1>2
<1>4. (CHOOSE i \in at : \A j \in at : i >= j) = k
  <2> HIDE DEF at
  <2> QED
    BY <1>3, Extremes
<1> QED
  BY <1>3, <1>4, Zenon DEF ValueOf

(* A part as SignRequest writes them: the name is a word, the value has no *)
(* quote in it.                                                            *)
IsPart(C, name, value) ==
  /\ name \in C /\ name \notin {COMMA, QUOTE, EQUALS, SPACE}
  /\ value \in Seq(C) /\ Len(value) > 0 /\ QUOTE \notin Range(value)

(* The tokens of a Signature header, and what the pass over a text that    *)
(* begins at its start has come to: the parts p, and then t, not in quotes. *)
Separators == {EQUALS, QUOTE, COMMA, SPACE}

Reaches(C, u, p, t) ==
  /\ u \in Seq(C) /\ p \in Seq(Seq(C)) /\ t \in Seq(C)
  /\ Scan(u, Outside(<<>>, <<>>)) = Outside(p, t)

AfterComma(u, name, value) == u \o <<COMMA>> \o Quoted(name, value)

(* A first part. *)
LEMMA FirstPart ==
  ASSUME NEW C, Separators \subseteq C, NEW name, NEW value, IsPart(C, name, value)
  PROVE  Reaches(C, Quoted(name, value), <<>>, Quoted(name, value))
<1>1. /\ name \in C /\ value \in Seq(C) /\ name \notin {COMMA, QUOTE}
      /\ QUOTE \notin Range(value) /\ EQUALS \in C /\ QUOTE \in C
  BY Zenon DEF IsPart, Separators
<1>2. <<>> \in Seq(C) /\ <<>> \in Seq(Seq(C))
  OBVIOUS
<1>3. Quoted(name, value) \in Seq(C)
  BY <1>1, QuotedTokens
<1>4. Scan(Quoted(name, value), Outside(<<>>, <<>>)) = Outside(<<>>, Quoted(name, value))
  BY <1>1, <1>2, ScanQuoted, Zenon
<1> QED
  BY <1>2, <1>3, <1>4, Zenon DEF Reaches

(* A comma after a part, and another part. *)
LEMMA NextPart ==
  ASSUME NEW C, Separators \subseteq C, NEW u, NEW p, NEW t, Reaches(C, u, p, t),
         NEW name, NEW value, IsPart(C, name, value)
  PROVE  Reaches(C, AfterComma(u, name, value), Append(p, t), Quoted(name, value))
<1> DEFINE c == <<COMMA>>
           q == Quoted(name, value)
           uc == u \o c
           acc == Outside(<<>>, <<>>)
<1>0. /\ name \in C /\ value \in Seq(C) /\ name \notin {COMMA, QUOTE}
      /\ QUOTE \notin Range(value) /\ EQUALS \in C /\ QUOTE \in C /\ COMMA \in C
  BY Zenon DEF IsPart, Separators
<1>r. u \in Seq(C) /\ p \in Seq(Seq(C)) /\ t \in Seq(C) /\ Scan(u, acc) = Outside(p, t)
  BY Zenon DEF Reaches
<1>1. c \in Seq(C) /\ <<>> \in Seq(C) /\ <<>> \in Seq(Seq(C)) /\ Append(p, t) \in Seq(Seq(C))
  BY <1>0, <1>r
<1>2. q \in Seq(C)
  BY <1>0, QuotedTokens
<1>3. /\ Outside(p, t) \in Passes(C) /\ Outside(Append(p, t), <<>>) \in Passes(C)
      /\ acc \in Passes(C)
  BY <1>1, <1>r DEF Passes, Outside
<1>4. splitStep(Outside(p, t), COMMA) = Outside(Append(p, t), <<>>)
  BY DEF splitStep, Outside
<1>5. Scan(q, Outside(Append(p, t), <<>>)) = Outside(Append(p, t), q)
  BY <1>0, <1>1, ScanQuoted, Zenon
<1> HIDE DEF q, acc
<1>6. Scan(c, Outside(p, t)) = Outside(Append(p, t), <<>>)
  BY <1>0, <1>3, <1>4, ScanOne, Zenon
<1> HIDE DEF c
<1>7. uc \in Seq(C) /\ uc \o q \in Seq(C)
  BY <1>1, <1>2, <1>r
<1>8. Scan(uc, acc) = Scan(c, Scan(u, acc))
  BY <1>1, <1>3, <1>r, ScanConcat
<1> HIDE DEF uc
<1>9. Scan(uc \o q, acc) = Scan(q, Scan(uc, acc))
  BY <1>2, <1>3, <1>7, ScanConcat
<1>10. Scan(uc \o q, acc) = Outside(Append(p, t), q)
  BY <1>5, <1>6, <1>8, <1>9, <1>r, Zenon
<1>11. AfterComma(u, name, value) = uc \o q
  BY Zenon DEF AfterComma, uc, c, q
<1> QED
  BY <1>1, <1>2, <1>7, <1>10, <1>11, Zenon DEF Reaches, acc, q

(* Four elements, one appended after another. *)
LEMMA FourAppended ==
  \A k, g, h, s :
    Append(Append(Append(Append(<<>>, k), g), h), s) = <<k, g, h, s>>
<1> TAKE k, g, h, s
<1> DEFINE X == {k, g, h, s}
           p1 == Append(<<>>, k)
           p2 == Append(p1, g)
           p3 == Append(p2, h)
           p4 == Append(p3, s)
           q == <<k, g, h, s>>
<1>1. k \in X /\ g \in X /\ h \in X /\ s \in X
  OBVIOUS
<1> HIDE DEF X
<1>2. p1 \in Seq(X) /\ Len(p1) = 1 /\ p1[1] = k
  BY <1>1
<1> HIDE DEF p1
<1>3. p2 \in Seq(X) /\ Len(p2) = 2 /\ p2[1] = k /\ p2[2] = g
  <2>1. Grown(X, p1, g, p2)
    BY <1>1, <1>2, AppendGrows, Zenon
  <2> HIDE DEF p2
  <2> QED
    BY <1>2, <2>1 DEF Grown
<1> HIDE DEF p2
<1>4. p3 \in Seq(X) /\ Len(p3) = 3 /\ p3[1] = k /\ p3[2] = g /\ p3[3] = h
  <2>1. Grown(X, p2, h, p3)
    BY <1>1, <1>3, AppendGrows, Zenon
  <2> HIDE DEF p3
  <2> QED
    BY <1>3, <2>1 DEF Grown
<1> HIDE DEF p3
<1>5. p4 \in Seq(X) /\ Len(p4) = 4 /\ p4[1] = k /\ p4[2] = g /\ p4[3] = h /\ p4[4] = s
  <2>1. Grown(X, p3, s, p4)
    BY <1>1, <1>4, AppendGrows, Zenon
  <2> HIDE DEF p4
  <2> QED
    BY <1>4, <2>1 DEF Grown
<1> HIDE DEF p4
<1>6. q \in Seq(X) /\ Len(q) = 4 /\ q[1] = k /\ q[2] = g /\ q[3] = h /\ q[4] = s
  BY <1>1
<1> HIDE DEF q
<1>7. \A i \in 1..Len(p4) : p4[i] = q[i]
  BY <1>5, <1>6
<1>8. p4 = q
  BY <1>5, <1>6, <1>7, SeqEqual
<1> QED
  BY <1>8, Zenon DEF p1, p2, p3, p4, q

(* splitParams takes four parts with commas between them apart. *)
LEMMA SplitsFour ==
  ASSUME NEW C, Separators \subseteq C,
         NEW n1, NEW w1, IsPart(C, n1, w1), NEW n2, NEW w2, IsPart(C, n2, w2),
         NEW n3, NEW w3, IsPart(C, n3, w3), NEW n4, NEW w4, IsPart(C, n4, w4)
  PROVE  splitParams(AfterComma(AfterComma(AfterComma(Quoted(n1, w1), n2, w2), n3, w3), n4, w4))
           = <<Quoted(n1, w1), Quoted(n2, w2), Quoted(n3, w3), Quoted(n4, w4)>>
<1> DEFINE K == Quoted(n1, w1)
           A == Quoted(n2, w2)
           H == Quoted(n3, w3)
           S == Quoted(n4, w4)
           v == AfterComma(AfterComma(AfterComma(K, n2, w2), n3, w3), n4, w4)
           p == Append(Append(Append(<<>>, K), A), H)
<1>1. Reaches(C, K, <<>>, K)
  BY FirstPart, Zenon
<1>2. Reaches(C, AfterComma(K, n2, w2), Append(<<>>, K), A)
  BY <1>1, NextPart, Zenon
<1>3. Reaches(C, AfterComma(AfterComma(K, n2, w2), n3, w3), Append(Append(<<>>, K), A), H)
  BY <1>2, NextPart, Zenon
<1>4. Reaches(C, v, p, S)
  BY <1>3, NextPart, Zenon
<1>5. S # <<>>
  <2>1. n4 \in C /\ w4 \in Seq(C) /\ EQUALS \in C /\ QUOTE \in C
    BY Zenon DEF IsPart, Separators
  <2>2. S \in Seq(C) /\ Len(S) = Len(w4) + 4 /\ Len(w4) \in Nat
    BY <2>1, QuotedTokens
  <2> QED
    BY <2>2
<1> HIDE DEF K, A, H, S, v
<1>6. splitParams(v) = Append(p, S)
  <2> HIDE DEF p
  <2>1. Scan(v, [parts |-> <<>>, cur |-> <<>>, inQuotes |-> FALSE]) =
          [parts |-> p, cur |-> S, inQuotes |-> FALSE]
    BY <1>4, Zenon DEF Reaches, Outside
  <2> QED
    BY <1>5, <2>1 DEF splitParams
<1>7. Append(p, S) = <<K, A, H, S>>
  BY FourAppended, Zenon
<1> QED
  BY <1>6, <1>7, Zenon DEF K, A, H, S, v

(* What SignRequest writes, ParseSignatureHeader reads: any key id without *)
(* a quote comes back whole, commas and all, and so do the headers.        *)
THEOREM RoundTrip ==
  ASSUME NEW id \in Seq(STRING), Len(id) > 0, QUOTE \notin Range(id),
         NEW hs \in Seq(STRING \cup RequiredHeaders \cup {"content-type"}),
         Len(hs) > 0, Range(hs) \cap {QUOTE, SPACE} = {}
  PROVE  ParseSignatureHeader(FormatSignature(id, hs)) =
           [ok |-> TRUE, keyID |-> id, headers |-> hs, signature |-> <<"sig">>]
<1> DEFINE W == {"keyId", "algorithm", "rsa-sha256", "headers", "signature", "sig",
                 EQUALS, QUOTE, COMMA, SPACE}
           R == STRING \cup RequiredHeaders \cup {"content-type"}
           C == R \cup W
<1>1. W \subseteq C /\ id \in Seq(C) /\ hs \in Seq(C)
  <2>1. STRING \subseteq C /\ R \subseteq C /\ hs \in Seq(R)
    BY Zenon
  <2> HIDE DEF C, R
  <2>2. id \in Seq(C) /\ hs \in Seq(C)
    BY <2>1, SeqMonotonic, Zenon
  <2> QED
    BY <2>2, Zenon DEF C
<1>2. /\ "keyId" \in C /\ "algorithm" \in C /\ "rsa-sha256" \in C /\ "headers" \in C
      /\ "signature" \in C /\ "sig" \in C
      /\ EQUALS \in C /\ QUOTE \in C /\ COMMA \in C /\ SPACE \in C
  BY <1>1, Zenon
<1> HIDE DEF C
<1>3. /\ \A name \in {"keyId", "algorithm", "headers", "signature"} :
           name \notin {COMMA, QUOTE, EQUALS, SPACE}
      /\ "sig" # QUOTE /\ "rsa-sha256" # QUOTE /\ SPACE # QUOTE
  BY Zenon DEF COMMA, QUOTE, EQUALS, SPACE
<1> DEFINE alg == <<"rsa-sha256">>
           sig == <<"sig">>
           text == SpaceJoin(hs)
<1>4. /\ alg \in Seq(C) /\ Len(alg) > 0 /\ QUOTE \notin Range(alg)
      /\ sig \in Seq(C) /\ Len(sig) > 0 /\ QUOTE \notin Range(sig)
  BY <1>2, <1>3 DEF Range
<1>5. text \in Seq(C) /\ Len(text) > 0 /\ QUOTE \notin Range(text) /\ Fields(text) = hs
  <2>1. /\ text \in Seq(C) /\ Len(text) = 2 * Len(hs) - 1
        /\ Range(text) \subseteq Range(hs) \cup {SPACE}
    BY <1>1, <1>2, Joined
  <2>2. Len(hs) \in Nat /\ Len(text) > 0
    BY <2>1
  <2>3. QUOTE \notin Range(text)
    BY <1>3, <2>1, Zenon
  <2>4. SPACE \notin Range(hs)
    BY Zenon
  <2>5. Fields(text) = hs
    BY <1>1, <1>2, <2>4, FieldsOfJoined
  <2> QED
    BY <2>1, <2>2, <2>3, <2>5
<1> HIDE DEF W, R, alg, sig, text
<1>6. /\ IsPart(C, "keyId", id) /\ IsPart(C, "algorithm", alg)
      /\ IsPart(C, "headers", text) /\ IsPart(C, "signature", sig)
  BY <1>1, <1>2, <1>3, <1>4, <1>5, Zenon DEF IsPart
<1> DEFINE K == Quoted("keyId", id)
           A == Quoted("algorithm", alg)
           H == Quoted("headers", text)
           S == Quoted("signature", sig)
           ps == <<K, A, H, S>>
<1>7. splitParams(FormatSignature(id, hs)) = ps
  <2>1. FormatSignature(id, hs) =
          AfterComma(AfterComma(AfterComma(K, "algorithm", alg), "headers", text),
                     "signature", sig)
    BY Zenon DEF FormatSignature, AfterComma, alg, sig, text
  <2>2. Separators \subseteq C
    BY <1>2, Zenon DEF Separators
  <2>3. splitParams(AfterComma(AfterComma(AfterComma(Quoted("keyId", id), "algorithm", alg),
                                          "headers", text), "signature", sig))
          = <<Quoted("keyId", id), Quoted("algorithm", alg), Quoted("headers", text),
              Quoted("signature", sig)>>
    BY <1>6, <2>2, SplitsFour
  <2> QED
    BY <2>1, <2>3, Zenon
<1>8. ASSUME NEW name, NEW value, IsPart(C, name, value)
      PROVE  /\ Quoted(name, value) \in Seq(C) /\ EQUALS \in Range(Quoted(name, value))
             /\ Cut(Quoted(name, value)) = [name |-> <<name>>, value |-> value]
  <2>1. /\ name \in C /\ name \notin {EQUALS, SPACE} /\ value \in Seq(C) /\ Len(value) > 0
        /\ QUOTE \notin Range(value)
    BY <1>8, Zenon DEF IsPart
  <2>2. Quoted(name, value) \in Seq(C)
    BY <1>2, <2>1, QuotedTokens
  <2> QED
    BY <1>2, <2>1, <2>2, CutQuoted
<1>9. /\ EQUALS \in Range(K) /\ Cut(K) = [name |-> <<"keyId">>, value |-> id]
      /\ EQUALS \in Range(A) /\ Cut(A) = [name |-> <<"algorithm">>, value |-> alg]
      /\ EQUALS \in Range(H) /\ Cut(H) = [name |-> <<"headers">>, value |-> text]
      /\ EQUALS \in Range(S) /\ Cut(S) = [name |-> <<"signature">>, value |-> sig]
      /\ K \in Seq(C) /\ A \in Seq(C) /\ H \in Seq(C) /\ S \in Seq(C)
  BY <1>6, <1>8, Zenon
<1> HIDE DEF K, A, H, S
<1>10. /\ ps \in Seq(Seq(C)) /\ Len(ps) = 4
       /\ ps[1] = K /\ ps[2] = A /\ ps[3] = H /\ ps[4] = S
  BY <1>9
<1> HIDE DEF ps
<1>11. /\ ValueOf(ps, "keyId") = id /\ ValueOf(ps, "headers") = text
       /\ ValueOf(ps, "signature") = sig
  <2>1. /\ Cut(ps[1]).name = <<"keyId">> /\ Cut(ps[2]).name = <<"algorithm">>
        /\ Cut(ps[3]).name = <<"headers">> /\ Cut(ps[4]).name = <<"signature">>
    BY <1>9, <1>10
  <2>2. \A j \in 1..Len(ps) : j = 1 \/ j = 2 \/ j = 3 \/ j = 4
    BY <1>10
  <2>3. /\ <<"keyId">> # <<"algorithm">> /\ <<"keyId">> # <<"headers">>
        /\ <<"keyId">> # <<"signature">> /\ <<"algorithm">> # <<"headers">>
        /\ <<"algorithm">> # <<"signature">> /\ <<"headers">> # <<"signature">>
    OBVIOUS
  <2>4. /\ \A j \in 1..Len(ps) : Cut(ps[j]).name = <<"keyId">> => j = 1
        /\ \A j \in 1..Len(ps) : Cut(ps[j]).name = <<"headers">> => j = 3
        /\ \A j \in 1..Len(ps) : Cut(ps[j]).name = <<"signature">> => j = 4
    BY <2>1, <2>2, <2>3, Zenon
  <2>5. 1 \in 1..Len(ps) /\ 3 \in 1..Len(ps) /\ 4 \in 1..Len(ps)
    BY <1>10
  <2>6. /\ EQUALS \in Range(ps[1]) /\ EQUALS \in Range(ps[3]) /\ EQUALS \in Range(ps[4])
        /\ Cut(ps[1]).value = id /\ Cut(ps[3]).value = text /\ Cut(ps[4]).value = sig
    BY <1>9, <1>10
  <2>v. ASSUME NEW k \in 1..Len(ps), NEW name, EQUALS \in Range(ps[k]), Cut(ps[k]).name = <<name>>,
               \A j \in 1..Len(ps) : Cut(ps[j]).name = <<name>> => j = k
        PROVE  ValueOf(ps, name) = Cut(ps[k]).value
    BY <1>10, <2>v, ValueAt, Zenon
  <2>7. ValueOf(ps, "keyId") = Cut(ps[1]).value
    BY <2>1, <2>4, <2>5, <2>6, <2>v, Zenon
  <2>8. ValueOf(ps, "headers") = Cut(ps[3]).value
    BY <2>1, <2>4, <2>5, <2>6, <2>v, Zenon
  <2>9. ValueOf(ps, "signature") = Cut(ps[4]).value
    BY <2>1, <2>4, <2>5, <2>6, <2>v, Zenon
  <2> QED
    BY <2>6, <2>7, <2>8, <2>9
<1>12. id # <<>> /\ sig # <<>> /\ hs # <<>>
  BY <1>4
<1> QED
  BY <1>5, <1>7, <1>11, <1>12, Zenon DEF ParseSignatureHeader, sig

----------------------------------------------------------------------------
(***************************************************************************)
(* What an inbox accepts.                                                  *)
(***************************************************************************)

(* What validateKeyID lets into the header. *)
LEMMA ValidKeyID ==
  ASSUME NEW id, id \in Seq(STRING), validateKeyID(id)
  PROVE  Len(id) > 0 /\ QUOTE \notin Range(id)
<1>1. id # <<>> /\ Range(id) \cap {CONTROL, QUOTE, BACKSLASH} = {}
  BY Zenon DEF validateKeyID
<1>2. Len(id) > 0
  BY <1>1
<1>3. QUOTE \notin Range(id)
  BY <1>1, Zenon
<1> QED
  BY <1>2, <1>3

(* The headers that SignRequest covers. *)
LEMMA CoveredHeaders ==
  /\ DefaultHeaders \in Seq(STRING \cup RequiredHeaders \cup {"content-type"})
  /\ Len(DefaultHeaders) = 5
  /\ Range(DefaultHeaders) = RequiredHeaders \cup {"content-type"}
  /\ Range(DefaultHeaders) \cap {QUOTE, SPACE} = {}
<1> DEFINE X == STRING \cup RequiredHeaders \cup {"content-type"}
<1>1. /\ "(request-target)" \in X /\ "host" \in X /\ "date" \in X /\ "digest" \in X
      /\ "content-type" \in X
  BY Zenon DEF RequiredHeaders
<1> HIDE DEF X
<1>2. DefaultHeaders \in Seq(X) /\ Len(DefaultHeaders) = 5
  BY <1>1 DEF DefaultHeaders
<1>3. Range(DefaultHeaders) = RequiredHeaders \cup {"content-type"}
  <2>1. /\ DOMAIN DefaultHeaders = 1..5
        /\ DefaultHeaders[1] = "(request-target)" /\ DefaultHeaders[2] = "host"
        /\ DefaultHeaders[3] = "date" /\ DefaultHeaders[4] = "digest"
        /\ DefaultHeaders[5] = "content-type"
    BY DEF DefaultHeaders
  <2> QED
    BY <2>1 DEF Range, RequiredHeaders
<1>4. QUOTE \notin RequiredHeaders \cup {"content-type"} /\ SPACE \notin RequiredHeaders \cup {"content-type"}
  BY DEF RequiredHeaders, QUOTE, SPACE
<1> QED
  BY <1>2, <1>3, <1>4, Zenon DEF X

(* A key id that SignRequest accepts comes out of the header as it went    *)
(* in, and so do the covered headers (SignRequest, ParseSignatureHeader).  *)
LEMMA ReadsBack ==
  ASSUME NEW id, id \in Seq(STRING), validateKeyID(id)
  PROVE  /\ ParseSignatureHeader(FormatSignature(id, DefaultHeaders)) =
              [ok |-> TRUE, keyID |-> id, headers |-> DefaultHeaders, signature |-> <<"sig">>]
         /\ ParseSignatureHeader(FormatSignature(id, <<"date">>)) =
              [ok |-> TRUE, keyID |-> id, headers |-> <<"date">>, signature |-> <<"sig">>]
<1>1. Len(id) > 0 /\ QUOTE \notin Range(id)
  BY ValidKeyID, Zenon
<1> DEFINE d == <<"date">>
           X == STRING \cup RequiredHeaders \cup {"content-type"}
<1>2. d \in Seq(X) /\ Len(d) > 0 /\ Range(d) \cap {QUOTE, SPACE} = {}
  <2>1. "date" \in X
    BY DEF RequiredHeaders
  <2> HIDE DEF X
  <2>2. d \in Seq(X) /\ Len(d) > 0
    BY <2>1
  <2>3. Range(d) = {"date"}
    BY DEF Range
  <2>4. "date" # QUOTE /\ "date" # SPACE
    BY DEF QUOTE, SPACE
  <2> QED
    BY <2>2, <2>3, <2>4, Zenon
<1>3. Len(DefaultHeaders) > 0
  BY CoveredHeaders
<1> HIDE DEF d
<1>4. ParseSignatureHeader(FormatSignature(id, d)) =
        [ok |-> TRUE, keyID |-> id, headers |-> d, signature |-> <<"sig">>]
  BY <1>1, <1>2, RoundTrip, Zenon
<1>5. ParseSignatureHeader(FormatSignature(id, DefaultHeaders)) =
        [ok |-> TRUE, keyID |-> id, headers |-> DefaultHeaders, signature |-> <<"sig">>]
  BY <1>1, <1>3, CoveredHeaders, RoundTrip, Zenon
<1> QED
  BY <1>4, <1>5, Zenon DEF d

(* The request that is signed: its date and its digest are SignRequest's. *)
LEMMA SignedRequest ==
  ASSUME NEW p, NEW k
  PROVE  LET m == Message(p, k) IN
         /\ m.text = FormatSignature(p.id, DefaultHeaders)
         /\ m.sig = Sign(k, SigningString(m.req, DefaultHeaders))
         /\ m.req = Dress(BuildRequest(p), "now")
         /\ m.req.body = "activity"
         /\ DOMAIN m.req.header = HeaderNames
         /\ m.req.header["date"] = "now"
         /\ m.req.header["digest"] = Digest("activity")
<1> DEFINE b == BuildRequest(p)
           d == Dress(b, "now")
<1>1. /\ b.body = "activity" /\ DOMAIN b.header = HeaderNames /\ b.header["date"] = ""
      /\ b = [target |-> b.target, host |-> b.host, body |-> b.body, header |-> b.header]
  <2>1. "date" \in HeaderNames /\ isSignedOrReserved("date")
    BY DEF HeaderNames, isSignedOrReserved
  <2> QED
    BY <2>1 DEF BuildRequest
<1>2. "date" \in HeaderNames /\ "digest" \in HeaderNames /\ "date" # "digest"
  BY DEF HeaderNames
<1> HIDE DEF b
<1>3. /\ d.body = "activity" /\ DOMAIN d.header = HeaderNames
      /\ d.header["date"] = "now" /\ d.header["digest"] = Digest("activity")
  BY <1>1, <1>2, Zenon DEF Dress
<1> HIDE DEF d
<1>4. Message(p, k) = [req |-> d, text |-> FormatSignature(p.id, DefaultHeaders),
                       sig |-> Sign(k, SigningString(d, DefaultHeaders))]
  BY Zenon DEF Message, d, b
<1>5. /\ Message(p, k).req = d
      /\ Message(p, k).text = FormatSignature(p.id, DefaultHeaders)
      /\ Message(p, k).sig = Sign(k, SigningString(d, DefaultHeaders))
  BY <1>4
<1> QED
  BY <1>3, <1>5, Zenon DEF d, b

(* What a rewriting leaves alone. *)
LEMMA ArrivedParts ==
  ASSUME NEW p, NEW k, NEW how
  PROVE  LET m == Message(p, k)  came == Arrived(p, k, how) IN
         /\ came.sig = m.sig
         /\ came.text = IF how = "headers" THEN FormatSignature(p.id, <<"date">>) ELSE m.text
         /\ came.req.body \in {"activity", "recoded"}
         /\ DOMAIN came.req.header = HeaderNames
<1> DEFINE m == Message(p, k)
           x == Wire(m.req)
           w == [m EXCEPT !.req = x]
           came == Arrived(p, k, how)
<1>1. /\ m.req.body = "activity" /\ DOMAIN m.req.header = HeaderNames
      /\ m = [req |-> m.req, text |-> m.text, sig |-> m.sig]
      /\ m.req = [target |-> m.req.target, host |-> m.req.host, body |-> m.req.body,
                  header |-> m.req.header]
  <2>1. m.req.body = "activity" /\ DOMAIN m.req.header = HeaderNames /\ m.req = Dress(BuildRequest(p), "now")
    BY SignedRequest, Zenon
  <2>2. m = [req |-> m.req, text |-> m.text, sig |-> m.sig]
    BY DEF Message
  <2>3. Dress(BuildRequest(p), "now") =
          [target |-> m.req.target, host |-> m.req.host, body |-> m.req.body,
                  header |-> m.req.header]
    BY <2>1, Zenon DEF Dress, BuildRequest
  <2> QED
    BY <2>1, <2>2, <2>3
<1>2. Arrived(p, k, how) =
        CASE how = "target"  -> [w EXCEPT !.req.target = "post /other"]
          [] how = "host"    -> [w EXCEPT !.req.host = "backend"]
          [] how = "body"    -> [w EXCEPT !.req.body = "recoded"]
          [] how = "digest"  -> [w EXCEPT !.req.body = "recoded",
                                          !.req.header["digest"] = Digest("recoded")]
          [] how = "date"    -> [w EXCEPT !.req.header["date"] = "later"]
          [] how = "note"    -> [w EXCEPT !.req.header["x-note"] = "proxied"]
          [] how = "headers" -> [w EXCEPT !.text = FormatSignature(p.id, <<"date">>)]
          [] OTHER           -> w
  BY DEF Arrived
<1> HIDE DEF m
<1>3. PICK t, h, f : /\ x = [target |-> t, host |-> h, body |-> "activity", header |-> f]
                     /\ DOMAIN f = HeaderNames
  <2> DEFINE r == m.req
             o == IF r.host = "idn" THEN "xn--idn" ELSE r.host
             g == [r.header EXCEPT !["content-type"] = IF @ = " padded " THEN "padded" ELSE @]
  <2>1. DOMAIN g = HeaderNames
    BY <1>1
  <2>2. x = [r EXCEPT !.host = o, !.header = g]
    BY <1>1 DEF Wire
  <2> HIDE DEF o, g
  <2>3. x = [target |-> r.target, host |-> o, body |-> "activity", header |-> g]
    <3> HIDE DEF x
    <3> QED
      BY <1>1, <2>2, Zenon
  <2> QED
    BY <2>1, <2>3, Zenon
<1> HIDE DEF x
<1>4. w = [req |-> x, text |-> m.text, sig |-> m.sig]
  BY <1>1
<1>w. /\ w = [req |-> [target |-> t, host |-> h, body |-> "activity", header |-> f],
             text |-> m.text, sig |-> m.sig]
  BY <1>3, <1>4, Zenon
<1> HIDE DEF w
<1>5. CASE how = "target"
  <2>1. came = [w EXCEPT !.req.target = "post /other"]
    BY <1>2, <1>5
  <2> QED
    BY <1>3, <1>w, <1>5, <2>1 DEF m
<1>6. CASE how = "host"
  BY <1>2, <1>3, <1>w, <1>6 DEF m
<1>7. CASE how = "body"
  BY <1>2, <1>3, <1>w, <1>7 DEF m
<1>8. CASE how = "digest"
  <2>1. came = [w EXCEPT !.req.body = "recoded", !.req.header["digest"] = Digest("recoded")]
    BY <1>2, <1>8
  <2> DEFINE g == [f EXCEPT !["digest"] = Digest("recoded")]
  <2>2. came = [req |-> [target |-> t, host |-> h, body |-> "recoded", header |-> g],
                text |-> m.text, sig |-> m.sig]
    <3> HIDE DEF came
    <3>1. came = [[w EXCEPT !.req.body = "recoded"]
                    EXCEPT !.req.header["digest"] = Digest("recoded")]
      BY <2>1
    <3>2. [w EXCEPT !.req.body = "recoded"] =
            [req |-> [target |-> t, host |-> h, body |-> "recoded", header |-> f],
             text |-> m.text, sig |-> m.sig]
      BY <1>w
    <3> DEFINE y == [req |-> [target |-> t, host |-> h, body |-> "recoded", header |-> f],
                     text |-> m.text, sig |-> m.sig]
    <3>3. [y EXCEPT !.req.header["digest"] = Digest("recoded")] =
            [req |-> [target |-> t, host |-> h, body |-> "recoded", header |-> g],
             text |-> m.text, sig |-> m.sig]
      OBVIOUS
    <3>4. came = [y EXCEPT !.req.header["digest"] = Digest("recoded")]
      <4> HIDE DEF y
      <4>1. [w EXCEPT !.req.body = "recoded"] = y
        BY <3>2, Zenon DEF y
      <4> QED
        BY <3>1, <4>1, Zenon
    <3> QED
      BY <3>3, <3>4, Zenon
  <2>3. DOMAIN g = HeaderNames
    BY <1>3
  <2> HIDE DEF g
  <2> QED
    BY <1>8, <2>2, <2>3 DEF m
<1>9. CASE how = "date"
  BY <1>2, <1>3, <1>w, <1>9 DEF m
<1>10. CASE how = "note"
  BY <1>2, <1>3, <1>w, <1>10 DEF m
<1>11. CASE how = "headers"
  BY <1>2, <1>3, <1>w, <1>11 DEF m
<1>12. CASE how \notin {"target", "host", "body", "digest", "date", "note", "headers"}
  <2>1. came = w
    BY <1>2, <1>12, Zenon
  <2> QED
    BY <1>3, <1>w, <1>12, <2>1 DEF m
<1> QED
  BY <1>5, <1>6, <1>7, <1>8, <1>9, <1>10, <1>11, <1>12, Zenon

(* The digest is a line of what is signed. *)
LEMMA DigestLine ==
  ASSUME NEW r, DOMAIN r.header = HeaderNames
  PROVE  SigningString(r, DefaultHeaders)[4] = <<"digest", r.header["digest"]>>
<1>1. 4 \in DOMAIN DefaultHeaders /\ DefaultHeaders[4] = "digest"
  BY DEF DefaultHeaders
<1>2. SigningString(r, DefaultHeaders)[4] = SigningLine(r, "digest")
  BY <1>1 DEF SigningString
<1>3. "digest" \in HeaderNames
  BY DEF HeaderNames
<1>4. HeaderGet(r, "digest") = r.header["digest"]
  BY <1>3 DEF HeaderGet
<1> QED
  BY <1>2, <1>4 DEF SigningLine

(* A message whose key id is valid says what was signed if it is accepted: *)
(* Verify recomputes the signing string and the digest from the request as *)
(* it came, and requireCoverage refuses a header list that was cut short.  *)
LEMMA AcceptedSays ==
  ASSUME NEW p \in Jobs, NEW how \in Rewritings, NEW k \in Keys, NEW pub \in Keys,
         validateKeyID(p.id), Accepted[p][how][k][pub]
  PROVE  AsSigned[p][how][k]
<1> DEFINE m == Message(p, k)
           c == Arrived(p, k, how)
<1>id. p.id \in Seq(STRING)
  BY JobsAssumption
<1>m. /\ m.text = FormatSignature(p.id, DefaultHeaders)
      /\ m.sig = Sign(k, SigningString(m.req, DefaultHeaders))
      /\ m.req.body = "activity"
      /\ DOMAIN m.req.header = HeaderNames
      /\ m.req.header["digest"] = Digest("activity")
  BY SignedRequest, Zenon
<1>c. /\ c.sig = m.sig
      /\ c.text = IF how = "headers" THEN FormatSignature(p.id, <<"date">>) ELSE m.text
      /\ c.req.body \in {"activity", "recoded"}
      /\ DOMAIN c.req.header = HeaderNames
  BY ArrivedParts, Zenon
<1>a. Verify(c.req, c.text, c.sig, pub) /\ ParseSignatureHeader(c.text).keyID = p.id
  BY Zenon DEF Accepted
<1> HIDE DEF m, c
<1>v. LET parsed == ParseSignatureHeader(c.text) IN
      /\ requireCoverage(parsed.headers)
      /\ HeaderGet(c.req, "digest") = Digest(c.req.body)
      /\ c.sig = Sign(pub, SigningString(c.req, parsed.headers))
  BY <1>a, Zenon DEF Verify
<1>1. how # "headers"
  <2> SUFFICES ASSUME how = "headers" PROVE FALSE
    OBVIOUS
  <2>1. c.text = FormatSignature(p.id, <<"date">>)
    BY <1>c
  <2>2. ParseSignatureHeader(c.text).headers = <<"date">>
    <3>1. ParseSignatureHeader(c.text) =
            [ok |-> TRUE, keyID |-> p.id, headers |-> <<"date">>, signature |-> <<"sig">>]
      BY <1>id, <2>1, ReadsBack, Zenon
    <3> QED
      BY <3>1
  <2>3. "host" \in Range(<<"date">>)
    BY <1>v, <2>2, Zenon DEF requireCoverage, RequiredHeaders
  <2> QED
    BY <2>3 DEF Range
<1>2. ParseSignatureHeader(c.text).headers = DefaultHeaders
  <2>1. ParseSignatureHeader(c.text) =
          [ok |-> TRUE, keyID |-> p.id, headers |-> DefaultHeaders, signature |-> <<"sig">>]
    BY <1>id, <1>m, <1>c, <1>1, ReadsBack, Zenon
  <2> QED
    BY <2>1
<1>3. SigningString(c.req, DefaultHeaders) = SigningString(m.req, DefaultHeaders)
  <2>1. Sign(k, SigningString(m.req, DefaultHeaders)) =
          Sign(pub, SigningString(c.req, DefaultHeaders))
    BY <1>m, <1>c, <1>v, <1>2, Zenon
  <2> QED
    BY <2>1, Zenon DEF Sign
<1>4. c.req.header["digest"] = Digest("activity")
  <2>1. <<"digest", c.req.header["digest"]>> = <<"digest", m.req.header["digest"]>>
    BY <1>m, <1>c, <1>3, DigestLine, Zenon
  <2> QED
    BY <1>m, <2>1, Zenon
<1>5. c.req.body = m.req.body
  <2>1. "digest" \in HeaderNames
    BY DEF HeaderNames
  <2>2. Digest(c.req.body) = Digest("activity")
    BY <1>c, <1>v, <1>4, <2>1, Zenon DEF HeaderGet
  <2>3. Digest("activity") # Digest("recoded")
    BY DEF Digest
  <2> QED
    BY <1>m, <1>c, <2>2, <2>3, Zenon
<1> QED
  BY <1>a, <1>3, <1>5, Zenon DEF AsSigned, m, c

(* A message that no proxy and no net/http has changed is accepted with    *)
(* the key that signed it.                                                 *)
LEMMA VerbatimAccepted ==
  ASSUME NEW p \in Jobs, "none" \in Rewritings, NEW k \in Keys,
         validateKeyID(p.id), Signable(Message(p, k).req, DefaultHeaders), Verbatim(p)
  PROVE  Accepted[p]["none"][k][k]
<1> DEFINE m == Message(p, k)
           c == Arrived(p, k, "none")
           b == BuildRequest(p)
<1>id. p.id \in Seq(STRING)
  BY JobsAssumption
<1>m. /\ m.text = FormatSignature(p.id, DefaultHeaders)
      /\ m.sig = Sign(k, SigningString(m.req, DefaultHeaders))
      /\ m.req = Dress(b, "now")
      /\ m.req.body = "activity"
      /\ DOMAIN m.req.header = HeaderNames
      /\ m.req.header["date"] = "now"
      /\ m.req.header["digest"] = Digest("activity")
  BY SignedRequest, Zenon
<1>1. Wire(m.req) = m.req
  <2>1. /\ b = [target |-> b.target, host |-> b.host, body |-> b.body, header |-> b.header]
        /\ DOMAIN b.header = HeaderNames /\ Wire(b) = b
        /\ b.header = [n \in HeaderNames |-> b.header[n]]
    BY Zenon DEF BuildRequest, Verbatim
  <2> HIDE DEF b
  <2>2. "content-type" \in HeaderNames /\ "date" \in HeaderNames /\ "digest" \in HeaderNames
        /\ "content-type" \notin {"date", "digest"}
    BY DEF HeaderNames
  <2>3. b.host # "idn" /\ b.header["content-type"] # " padded "
    <3>1. Wire(b).host = IF b.host = "idn" THEN "xn--idn" ELSE b.host
      BY <2>1 DEF Wire
    <3>2. Wire(b).header["content-type"] =
            IF b.header["content-type"] = " padded " THEN "padded" ELSE b.header["content-type"]
      BY <2>1, <2>2, Zenon DEF Wire
    <3> QED
      BY <2>1, <3>1, <3>2, Zenon
  <2> DEFINE d == Dress(b, "now")
  <2>4. /\ d = [target |-> d.target, host |-> d.host, body |-> d.body, header |-> d.header]
        /\ d.host = b.host /\ d.header["content-type"] = b.header["content-type"]
        /\ d.header = [n \in HeaderNames |-> d.header[n]]
    <3> DEFINE g == [b.header EXCEPT !["date"] = IF @ = "" THEN "now" ELSE @]
               h == [g EXCEPT !["digest"] = Digest(b.body)]
    <3>1. h["content-type"] = b.header["content-type"] /\ h = [n \in HeaderNames |-> h[n]]
      BY <2>1, <2>2, Zenon
    <3>2. d = [b EXCEPT !.header = h]
      BY <2>1, <2>2, Zenon DEF Dress
    <3> HIDE DEF h, d
    <3>3. d = [target |-> b.target, host |-> b.host, body |-> b.body, header |-> h]
      BY <2>1, <3>2
    <3> QED
      BY <3>1, <3>3
  <2> HIDE DEF d
  <2>5. d.host # "idn" /\ d.header["content-type"] # " padded "
    BY <2>3, <2>4, Zenon
  <2>6. Wire(d) = [d EXCEPT !.host = d.host, !.header = [d.header EXCEPT !["content-type"] = @]]
    BY <2>4, <2>5, Zenon DEF Wire
  <2>7. [d.header EXCEPT !["content-type"] = @] = d.header
    BY <2>4
  <2>8. [d EXCEPT !.host = d.host, !.header = d.header] = d
    BY <2>4, Zenon
  <2> QED
    BY <1>m, <2>6, <2>7, <2>8, Zenon DEF d
<1>2. c = m
  <2>1. c = [m EXCEPT !.req = Wire(m.req)]
    BY DEF Arrived
  <2>2. m = [req |-> m.req, text |-> m.text, sig |-> m.sig]
    BY DEF Message
  <2> HIDE DEF m, c
  <2> QED
    BY <1>1, <2>1, <2>2
<1> HIDE DEF m, c, b
<1>3. ParseSignatureHeader(m.text) =
        [ok |-> TRUE, keyID |-> p.id, headers |-> DefaultHeaders, signature |-> <<"sig">>]
  BY <1>id, <1>m, ReadsBack, Zenon
<1>4. requireCoverage(DefaultHeaders)
  BY CoveredHeaders, Zenon DEF requireCoverage
<1>5. HeaderGet(m.req, "digest") = Digest(m.req.body)
  BY <1>m, Zenon DEF HeaderGet, HeaderNames
<1>6. Signable(m.req, DefaultHeaders)
  BY Zenon DEF m
<1>7. Verify(m.req, m.text, m.sig, k)
  <2> DEFINE q == ParseSignatureHeader(m.text)
  <2>1. q.ok /\ q.headers = DefaultHeaders /\ q.signature = <<"sig">>
    BY <1>3
  <2> HIDE DEF q
  <2> QED
    BY <1>m, <1>4, <1>5, <1>6, <2>1, Zenon DEF Verify, q
<1>8. ParseSignatureHeader(m.text).keyID = p.id
  BY <1>3
<1> QED
  BY <1>m, <1>2, <1>7, <1>8, Zenon DEF Accepted, c

(* While job, key, stage and way of the followed attempt stay, so does     *)
(* DeliveryInv.                                                            *)
LEMMA DeliveryStays ==
  ASSUME DeliveryInv, UNCHANGED <<job, stage, via, pc[Own], got[Own]>>, published' \in Keys
  PROVE  DeliveryInv'
<1>1. job' = job /\ stage' = stage /\ via' = via /\ pc'[Own] = pc[Own] /\ got'[Own] = got[Own]
  OBVIOUS
<1> QED
  BY <1>1, Zenon DEF DeliveryInv, AcceptedAsSigned

(* Every step keeps DeliveryInv. *)
LEMMA DeliveryStep ==
  TypeOK /\ DeliveryInv /\ [SigningNext]_signingVars => DeliveryInv'
<1> SUFFICES ASSUME TypeOK, DeliveryInv, [SigningNext]_signingVars PROVE DeliveryInv'
  OBVIOUS
<1>0. job \in Jobs /\ published \in Keys /\ key \in Keys /\ got[Own] \in Keys
  BY DEF DeliveryInv, TypeOK
<1> DEFINE Flying(s) == s \in {"sent", "accepted", "refused"}
<1>a. ASSUME UNCHANGED <<job, published>>, ~Flying(stage') PROVE DeliveryInv'
  <2>1. stage' # "accepted" /\ stage' \notin {"sent", "accepted", "refused"}
    BY <1>a
  <2> QED
    BY <1>0, <1>a, <2>1, Zenon DEF DeliveryInv, AcceptedAsSigned
<1>1. CASE UNCHANGED signingVars
  <2>1. UNCHANGED <<job, stage, via, pc[Own], got[Own], published>>
    BY <1>1, Zenon DEF signingVars, vars, deliveryVars
  <2> QED
    BY <1>0, <2>1, DeliveryStays
<1>2. CASE Rotate \/ BeginRotation \/ Withdraw
  <2>1. UNCHANGED <<job, stage, via, published>>
    BY <1>2, Zenon DEF Rotate, BeginRotation, Withdraw, deliveryVars
  <2>2. UNCHANGED loadVars
    BY <1>2, Zenon DEF Rotate, BeginRotation, Withdraw, Rename, Write, Truncate, Remove
  <2>3. UNCHANGED <<pc[Own], got[Own]>>
    BY <2>2 DEF loadVars
  <2> QED
    BY <1>0, <2>1, <2>3, DeliveryStays
<1>3. CASE Publish
  <2>1. UNCHANGED <<job, stage, via, pc[Own], got[Own]>> /\ published' = key
    BY <1>3 DEF Publish, vars
  <2> QED
    BY <1>0, <2>1, DeliveryStays
<1>4. CASE BeginAttempt
  <2>1. UNCHANGED <<job, published>> /\ stage' = "none"
    BY <1>4 DEF BeginAttempt
  <2> QED
    BY <1>a, <2>1
<1>5. CASE GoOnLoading
  <2>1. UNCHANGED <<job, published, stage>> /\ pc[Own] # "key"
    BY <1>5, Zenon DEF GoOnLoading, deliveryVars, LoadLooksUp, LoadReads, LoadStores
  <2>2. ~Flying(stage')
    BY <2>1 DEF DeliveryInv
  <2> QED
    BY <1>a, <2>1, <2>2
<1>6. CASE FailToSign
  <2>1. UNCHANGED <<job, published>> /\ stage' \in {"unknown", "error"}
    BY <1>6 DEF FailToSign
  <2> QED
    BY <1>a, <2>1
<1>7. CASE SignAndSend
  <2>1. UNCHANGED <<job, published, pc[Own], got[Own]>> /\ pc[Own] = "key"
    BY <1>7 DEF SignAndSend, vars
  <2>2. \/ stage' = "error"
        \/ /\ stage' = "sent" /\ validateKeyID(job.id)
           /\ Signable(Message(job, got[Own]).req, DefaultHeaders)
    BY <1>7, Zenon DEF SignAndSend
  <2>3. CASE stage' = "error"
    BY <1>a, <2>1, <2>3
  <2>4. CASE /\ stage' = "sent" /\ validateKeyID(job.id)
             /\ Signable(Message(job, got[Own]).req, DefaultHeaders)
    <3>1. stage' # "accepted"
      BY <2>4
    <3>2. job' = job /\ published' = published /\ pc'[Own] = "key" /\ got'[Own] = got[Own]
      BY <2>1
    <3> QED
      BY <1>0, <2>4, <3>1, <3>2, Zenon DEF DeliveryInv, AcceptedAsSigned
  <2> QED
    BY <2>2, <2>3, <2>4
<1>8. ASSUME NEW how \in Rewritings, Receive(how) PROVE DeliveryInv'
  <2>1. /\ job' = job /\ published' = published /\ via' = how /\ stage = "sent"
        /\ pc'[Own] = pc[Own] /\ got'[Own] = got[Own]
    BY <1>8 DEF Receive, vars
  <2>2. /\ pc[Own] = "key" /\ validateKeyID(job.id)
        /\ Signable(Message(job, got[Own]).req, DefaultHeaders)
    BY <2>1 DEF DeliveryInv
  <2>3. stage' = "accepted" => Accepted[job][how][got[Own]][published]
    <3>1. stage' = IF Accepted[job][how][got[Own]][published] THEN "accepted" ELSE "refused"
      BY <1>8, Zenon DEF Receive
    <3>2. "accepted" # "refused"
      OBVIOUS
    <3> QED
      BY <3>1, <3>2, Zenon
  <2>4. stage' = "accepted" => AsSigned[job][how][got[Own]]
    BY <1>0, <2>2, <2>3, AcceptedSays, Zenon
  <2> QED
    BY <1>0, <2>1, <2>2, <2>4, Zenon DEF DeliveryInv, AcceptedAsSigned
<1>9. CASE EndAttempt
  <2>1. UNCHANGED <<job, published>> /\ stage' = "none"
    BY <1>9 DEF EndAttempt
  <2> QED
    BY <1>a, <2>1
<1>10. ASSUME NEW l \in Loaders \ {Own}, Load(l), UNCHANGED deliveryVars PROVE DeliveryInv'
  <2>1. UNCHANGED <<pc[Own], got[Own]>>
    BY <1>10, OthersLoad, Zenon
  <2>2. UNCHANGED <<job, stage, via, published>>
    BY <1>10 DEF deliveryVars
  <2> QED
    BY <1>0, <2>1, <2>2, DeliveryStays
<1> QED
  BY <1>1, <1>2, <1>3, <1>4, <1>5, <1>6, <1>7, <1>8, <1>9, <1>10 DEF SigningNext

(* A delivery starts before its first attempt. *)
LEMMA DeliveryStart == SigningInit => TypeOK /\ DeliveryInv
<1> SUFFICES ASSUME SigningInit PROVE TypeOK /\ DeliveryInv
  OBVIOUS
<1>1. TypeOK
  BY CacheInit DEF SigningInit, CacheInv
<1>2. job \in Jobs /\ published \in Keys /\ stage = "none"
  BY KeyCacheAssumption DEF SigningInit, Init, Keys
<1> QED
  BY <1>1, <1>2 DEF DeliveryInv, AcceptedAsSigned

(* What an inbox accepts is what was signed, for every payload and key id  *)
(* of any length, whatever is done to the request on its way and however   *)
(* rotations interleave: SignRequest, ParseSignatureHeader and Verify of   *)
(* httpsig.go agree on what a signature covers.                            *)
THEOREM AcceptsWhatWasSigned == SigningSpec => []AcceptedAsSigned
<1>1. TypeOK /\ DeliveryInv /\ [SigningNext]_signingVars => (TypeOK /\ DeliveryInv)'
  BY CacheType, SigningStepIsCacheStep, DeliveryStep
<1>2. DeliveryInv => AcceptedAsSigned
  BY DEF DeliveryInv
<1> QED
  BY DeliveryStart, <1>1, <1>2, PTL DEF SigningSpec


(* A request that arrives unchanged, from an attempt that began with the   *)
(* published key in the file, is accepted.                                 *)
LEMMA SettledStep ==
  SigningInv /\ SettledKeyAccepted /\ [SigningNext]_signingVars => SettledKeyAccepted'
<1> SUFFICES ASSUME SigningInv, SettledKeyAccepted, [SigningNext]_signingVars
             PROVE  SettledKeyAccepted'
  OBVIOUS
<1>0. /\ job \in Jobs /\ published \in Keys
      /\ stage \in {"sent", "accepted", "refused"} =>
           /\ pc[Own] = "key" /\ validateKeyID(job.id)
           /\ Signable(Message(job, got[Own]).req, DefaultHeaders)
      /\ calm /\ pc[Own] = "key" => got[Own] = published
  BY DEF SigningInv, KeyInv, DeliveryInv
<1>a. ASSUME stage' # "refused" PROVE SettledKeyAccepted'
  BY <1>a DEF SettledKeyAccepted
<1>b. ASSUME UNCHANGED <<job, stage, via>>, calm' => calm PROVE SettledKeyAccepted'
  <2>1. job' = job /\ stage' = stage /\ via' = via
    BY <1>b
  <2> QED
    BY <1>b, <2>1, Zenon DEF SettledKeyAccepted
<1>1. CASE UNCHANGED deliveryVars
  BY <1>1, <1>b DEF deliveryVars
<1>2. CASE Rotate
  BY <1>2, <1>b DEF Rotate
<1>3. CASE Withdraw \/ Publish
  BY <1>3, <1>b DEF Withdraw, Publish
<1>4. CASE BeginAttempt \/ FailToSign \/ SignAndSend \/ EndAttempt
  <2>1. stage' # "refused"
    BY <1>4, Zenon DEF BeginAttempt, FailToSign, SignAndSend, EndAttempt
  <2> QED
    BY <1>a, <2>1
<1>5. ASSUME NEW how \in Rewritings, Receive(how) PROVE SettledKeyAccepted'
  <2> SUFFICES ASSUME stage' = "refused", via' = "none", calm', Verbatim(job') PROVE FALSE
    BY Zenon DEF SettledKeyAccepted
  <2>1. job' = job /\ stage = "sent" /\ how = "none" /\ calm
    BY <1>5 DEF Receive
  <2>2. /\ pc[Own] = "key" /\ validateKeyID(job.id) /\ got[Own] = published
        /\ Signable(Message(job, published).req, DefaultHeaders)
    BY <1>0, <2>1, Zenon
  <2>3. Accepted[job]["none"][published][published]
    BY <1>0, <2>1, <2>2, VerbatimAccepted, Zenon
  <2>4. stage' = "accepted"
    BY <1>5, <2>1, <2>2, <2>3, Zenon DEF Receive
  <2> QED
    BY <2>4
<1> QED
  BY <1>1, <1>2, <1>3, <1>4, <1>5
     DEF SigningNext, signingVars, BeginRotation, GoOnLoading

(* An attempt that begins when the file holds the published key, and is    *)
(* not overtaken by a rotation, signs with the published key, and sends    *)
(* only what could be signed: for any number of concurrent deliveries, if  *)
(* each write changes the time.                                            *)
THEOREM SettledKeyUsed ==
  ASSUME ~Coarse PROVE SigningSpec => []SigningInv
<1>1. SigningInit => SigningInv
  BY KeyStart, DeliveryStart DEF SigningInv
<1>2. SigningInv /\ [SigningNext]_signingVars => SigningInv'
  <2>1. KeyInv => TypeOK
    BY DEF KeyInv, CacheInv
  <2> QED
    BY <2>1, KeyStep, DeliveryStep DEF SigningInv
<1> QED
  BY <1>1, <1>2, PTL DEF SigningSpec

(* Once a rotation has settled, no delivery whose request net/http sends   *)
(* as it was signed is refused: the published key signs it, the header     *)
(* carries its key id and its covered headers through, and the inbox finds *)
(* the digest and the signing string it recomputes.                        *)
THEOREM SettledKeyIsAccepted ==
  ASSUME ~Coarse PROVE SigningSpec => []SettledKeyAccepted
<1>1. SigningInit => SettledKeyAccepted
  BY DEF SigningInit, SettledKeyAccepted
<1>2. SigningInv /\ SettledKeyAccepted /\ [SigningNext]_signingVars => SettledKeyAccepted'
  BY SettledStep
<1> QED
  BY SettledKeyUsed, <1>1, <1>2, PTL DEF SigningSpec

============================================================================
