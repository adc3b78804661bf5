------------------------ MODULE RegistrationProofs ------------------------
(***************************************************************************)
(* Lemmas about modules Registration and Setup: what the loops over queues *)
(* compute, and the part of the inductive invariant that is about the      *)
(* configuration, the registry, and how far Check and Start have come in   *)
(* building the queues. Module SetupProofs has the theorems.               *)
(***************************************************************************)
EXTENDS Setup, Induction

(***************************************************************************)
(* Loops over sequences.                                                   *)
(***************************************************************************)

(* The loop of registeredQueues, as far as it has come at each name. *)
LEMMA FirstsLoop ==
  ASSUME NEW S, NEW s \in Seq(S)
  PROVE  \E f \in [0..Len(s) -> Seq(S)] :
           /\ f[0] = <<>> /\ Firsts(s) = f[Len(s)]
           /\ \A i \in 1..Len(s) :
                f[i] = IF s[i] \in Range(f[i - 1]) THEN f[i - 1] ELSE Append(f[i - 1], s[i])
<1> DEFINE n == Len(s)
           g == [p \in (1..n) \X Seq(S) |->
                   IF s[p[1]] \in Range(p[2]) THEN p[2] ELSE Append(p[2], s[p[1]])]
           Loop(f) == [i \in 0..n |->
                         IF i = 0 THEN <<>>
                         ELSE IF s[i] \in Range(f[i - 1]) THEN f[i - 1]
                         ELSE Append(f[i - 1], s[i])]
<1>1. n \in Nat /\ <<>> \in Seq(S) /\ \A i \in 1..n : s[i] \in S
  OBVIOUS
<1>2. g \in [(1..n) \X Seq(S) -> Seq(S)]
  BY <1>1
<1>3. \A i \in 1..n, o \in Seq(S) :
        g[<<i, o>>] = IF s[i] \in Range(o) THEN o ELSE Append(o, s[i])
  OBVIOUS
<1> HIDE DEF g, n
<1>4. PICK f \in [0..n -> Seq(S)] : Iterates(f, n, <<>>, g)
  BY <1>1, <1>2, Recursion, Zenon
<1>5. \A i \in 1..n : f[i - 1] \in Seq(S)
  BY <1>1
<1>6. \A i \in 1..n : f[i] = IF s[i] \in Range(f[i - 1]) THEN f[i - 1] ELSE Append(f[i - 1], s[i])
  BY <1>3, <1>4, <1>5, Zenon DEF Iterates
<1>7. f = Loop(f)
  <2>1. DOMAIN f = 0..n /\ f = [i \in 0..n |-> f[i]]
    OBVIOUS
  <2>2. ASSUME NEW i \in 0..n PROVE f[i] = Loop(f)[i]
    <3>1. i = 0 \/ i \in 1..n
      BY <1>1
    <3> QED
      BY <3>1, <1>4, <1>6, Zenon DEF Iterates
  <2> QED
    BY <2>1, <2>2, Zenon
<1> DEFINE F == CHOOSE h : h = Loop(h)
<1>8. F = Loop(F)
  BY <1>7, Zenon
<1>9. Firsts(s) = F[n]
  BY DEF Firsts, n
<1>10. /\ F[0] = <<>>
       /\ \A i \in 1..n :
            F[i] = IF s[i] \in Range(F[i - 1]) THEN F[i - 1] ELSE Append(F[i - 1], s[i])
  <2> HIDE DEF F
  <2> DEFINE L == Loop(F)
  <2>1. /\ DOMAIN L = 0..n /\ L[0] = <<>>
        /\ \A i \in 1..n :
             L[i] = IF s[i] \in Range(F[i - 1]) THEN F[i - 1] ELSE Append(F[i - 1], s[i])
    BY <1>1
  <2>2. F = L
    BY <1>8, Zenon
  <2> HIDE DEF L
  <2> QED
    BY <2>1, <2>2
<1> HIDE DEF F
<1>f. F = [i \in 0..n |-> F[i]]
  BY <1>8
<1>11. F \in [0..n -> Seq(S)]
  <2> DEFINE T == {i \in 0..n : F[i] \in Seq(S)}
  <2>1. 0 \in T
    <3>1. F[0] = <<>>
      BY <1>10
    <3>2. F[0] \in Seq(S)
      BY <3>1, <1>1
    <3> QED
      BY <3>2, <1>1
  <2>2. ASSUME NEW i \in 1..n, i - 1 \in T PROVE i \in T
    <3>1. F[i - 1] \in Seq(S) /\ s[i] \in S /\ i \in 0..n
      BY <2>2, <1>1
    <3>2. F[i] = IF s[i] \in Range(F[i - 1]) THEN F[i - 1] ELSE Append(F[i - 1], s[i])
      BY <1>10
    <3>3. F[i] \in Seq(S)
      <4>1. Append(F[i - 1], s[i]) \in Seq(S)
        BY <3>1
      <4> QED
        BY <3>1, <3>2, <4>1
    <3> QED
      BY <3>1, <3>3
  <2>3. \A i \in 0..n : i \in T
    <3> HIDE DEF T
    <3> QED
      BY <1>1, <2>1, <2>2, InductTo, Zenon
  <2> QED
    BY <2>3, <1>f
<1> QED
  BY <1>9, <1>10, <1>11 DEF n

(* A sequence that has grown by one. *)
LEMMA Appended ==
  ASSUME NEW S, NEW s \in Seq(S), NEW x \in S
  PROVE  /\ Append(s, x) \in Seq(S) /\ Len(Append(s, x)) = Len(s) + 1
         /\ Append(s, x)[Len(s) + 1] = x
         /\ \A i \in 1..Len(s) : Append(s, x)[i] = s[i]
         /\ Range(Append(s, x)) = Range(s) \cup {x}
<1>1. /\ Append(s, x) \in Seq(S) /\ Len(Append(s, x)) = Len(s) + 1
      /\ Append(s, x)[Len(s) + 1] = x
      /\ \A i \in 1..Len(s) : Append(s, x)[i] = s[i]
  OBVIOUS
<1> DEFINE t == Append(s, x)
<1>2. Len(s) \in Nat /\ DOMAIN s = 1..Len(s) /\ DOMAIN t = 1..(Len(s) + 1)
  OBVIOUS
<1> HIDE DEF t
<1>3. Range(t) = Range(s) \cup {x}
  BY <1>1, <1>2 DEF Range, t
<1> QED
  BY <1>1, <1>3 DEF t

(* registeredQueues has the names of its argument, each once. *)
LEMMA FirstsAre ==
  ASSUME NEW S, NEW s \in Seq(S)
  PROVE  /\ Firsts(s) \in Seq(S) /\ Range(Firsts(s)) = Range(s)
         /\ \A i, k \in 1..Len(Firsts(s)) : Firsts(s)[i] = Firsts(s)[k] => i = k
<1> DEFINE n == Len(s)
           Once(o) == \A i, k \in 1..Len(o) : o[i] = o[k] => i = k
           Upto(i) == {s[k] : k \in 1..i}
<1>1. n \in Nat /\ Range(s) = Upto(n) /\ \A i \in 1..n : s[i] \in S
  BY DEF Range
<1>2. PICK f \in [0..n -> Seq(S)] :
        /\ f[0] = <<>> /\ Firsts(s) = f[n]
        /\ \A i \in 1..n :
             f[i] = IF s[i] \in Range(f[i - 1]) THEN f[i - 1] ELSE Append(f[i - 1], s[i])
  BY FirstsLoop
<1> HIDE DEF n
<1> DEFINE T == {i \in 0..n : Range(f[i]) = Upto(i) /\ Once(f[i])}
<1>3. 0 \in T
  <2>1. f[0] = <<>> /\ 0 \in 0..n
    BY <1>1, <1>2
  <2>2. Range(<<>>) = {} /\ Upto(0) = {} /\ Once(<<>>)
    BY DEF Range
  <2> QED
    BY <2>1, <2>2
<1>4. ASSUME NEW i \in 1..n, i - 1 \in T PROVE i \in T
  <2> DEFINE o == f[i - 1]
  <2>1. /\ o \in Seq(S) /\ s[i] \in S /\ i \in 0..n
        /\ Range(o) = Upto(i - 1) /\ Once(o)
    BY <1>1, <1>4
  <2>2. Upto(i) = Upto(i - 1) \cup {s[i]}
    OBVIOUS
  <2>3. f[i] = IF s[i] \in Range(o) THEN o ELSE Append(o, s[i])
    BY <1>2
  <2> HIDE DEF o
  <2>4. CASE s[i] \in Range(o)
    <3>1. s[i] \in Range(o)
      BY <2>1, <2>4
    <3> QED
      BY <2>1, <2>2, <2>3, <2>4, <3>1
  <2>5. CASE s[i] \notin Range(o)
    <3>1. f[i] = Append(o, s[i])
      BY <2>3, <2>5
    <3>2. Range(f[i]) = Range(o) \cup {s[i]}
      BY <2>1, <3>1, Appended
    <3>3. Once(f[i])
      BY <2>1, <2>5, <3>1, Appended DEF Range
    <3> QED
      BY <2>1, <2>2, <3>2, <3>3
  <2> QED
    BY <2>4, <2>5
<1>5. \A i \in 0..n : i \in T
  <2> HIDE DEF T
  <2> QED
    BY <1>1, <1>3, <1>4, InductTo, Zenon
<1>6. n \in T /\ f[n] \in Seq(S)
  BY <1>1, <1>5
<1> QED
  BY <1>1, <1>2, <1>6, Zenon

(* One more name joins unless it is there already. *)
LEMMA FirstsOfAppend ==
  ASSUME NEW S, NEW s \in Seq(S), NEW x \in S
  PROVE  Firsts(Append(s, x)) =
           IF x \in Range(s) THEN Firsts(s) ELSE Append(Firsts(s), x)
<1> DEFINE n == Len(s)
           t == Append(s, x)
<1>1. /\ n \in Nat /\ t \in Seq(S) /\ Len(t) = n + 1 /\ t[n + 1] = x
      /\ \A i \in 1..n : t[i] = s[i]
  BY Appended
<1>2. PICK f \in [0..n -> Seq(S)] :
        /\ f[0] = <<>> /\ Firsts(s) = f[n]
        /\ \A i \in 1..n :
             f[i] = IF s[i] \in Range(f[i - 1]) THEN f[i - 1] ELSE Append(f[i - 1], s[i])
  BY FirstsLoop
<1> HIDE DEF n, t
<1>t. t \in Seq(S)
  BY <1>1, Zenon
<1>3. PICK h \in [0..Len(t) -> Seq(S)] :
        /\ h[0] = <<>> /\ Firsts(t) = h[Len(t)]
        /\ \A i \in 1..Len(t) :
             h[i] = IF t[i] \in Range(h[i - 1]) THEN h[i - 1] ELSE Append(h[i - 1], t[i])
  BY <1>t, FirstsLoop, Zenon
<1> DEFINE T == {i \in 0..n : f[i] = h[i]}
<1>4. 0 \in T
  BY <1>1, <1>2, <1>3
<1>5. ASSUME NEW i \in 1..n, i - 1 \in T PROVE i \in T
  <2>1. f[i - 1] = h[i - 1] /\ t[i] = s[i] /\ i \in 1..Len(t) /\ i \in 0..n
    BY <1>1, <1>5
  <2>2. f[i] = IF s[i] \in Range(f[i - 1]) THEN f[i - 1] ELSE Append(f[i - 1], s[i])
    BY <1>2
  <2>3. h[i] = IF t[i] \in Range(h[i - 1]) THEN h[i - 1] ELSE Append(h[i - 1], t[i])
    BY <2>1, <1>3, Zenon
  <2>4. f[i] = h[i]
    BY <2>1, <2>2, <2>3
  <2> QED
    BY <2>1, <2>4
<1>6. \A i \in 0..n : i \in T
  <2> HIDE DEF T
  <2> QED
    BY <1>1, <1>4, <1>5, InductTo, Zenon
<1>7. h[n] = Firsts(s)
  BY <1>1, <1>2, <1>6
<1>8. h[n + 1] = IF x \in Range(h[n]) THEN h[n] ELSE Append(h[n], x)
  <2>1. n + 1 \in 1..Len(t) /\ (n + 1) - 1 = n
    BY <1>1
  <2> QED
    BY <1>1, <1>3, <2>1, Zenon
<1>9. x \in Range(Firsts(s)) <=> x \in Range(s)
  BY FirstsAre
<1> QED
  BY <1>1, <1>3, <1>7, <1>8, <1>9 DEF t

(* No name, no queue. *)
LEMMA FirstsOfNone == Firsts(<<>>) = <<>>
<1>1. ASSUME NEW S, NEW s \in Seq(S), Len(s) = 0 PROVE Firsts(s) = <<>>
  BY <1>1, FirstsLoop, Zenon
<1>2. <<>> \in Seq({}) /\ Len(<<>>) = 0
  OBVIOUS
<1> QED
  BY <1>1, <1>2, Zenon

(* A sum of integers is one. *)
LEMMA SumIsInt ==
  ASSUME NEW s \in Seq(Int)
  PROVE  Sum(s) \in Int
<1> DEFINE n == Len(s)
           g == [p \in (1..n) \X Int |-> p[2] + s[p[1]]]
           Loop(f) == [i \in 0..n |-> IF i = 0 THEN 0 ELSE f[i - 1] + s[i]]
           F == CHOOSE h : h = Loop(h)
<1>1. n \in Nat /\ \A i \in 1..n : s[i] \in Int
  OBVIOUS
<1>2. g \in [(1..n) \X Int -> Int]
  BY <1>1
<1>3. \A i \in 1..n, v \in Int : g[<<i, v>>] = v + s[i]
  OBVIOUS
<1>4. Sum(s) = F[n]
  BY DEF Sum
<1> HIDE DEF g, n
<1>5. PICK f \in [0..n -> Int] : Iterates(f, n, 0, g)
  <2> DEFINE Z == Int
             z == 0
  <2>1. n \in Nat /\ z \in Z /\ g \in [(1..n) \X Z -> Z]
    BY <1>1, <1>2
  <2> HIDE DEF Z, z
  <2>2. \E f \in [0..n -> Z] : Iterates(f, n, z, g)
    BY <2>1, Recursion, Zenon
  <2> QED
    BY <2>2 DEF Z, z
<1>6. f = Loop(f)
  <2>1. ASSUME NEW i \in 0..n PROVE f[i] = Loop(f)[i]
    <3>1. CASE i = 0
      BY <3>1, <1>5 DEF Iterates
    <3>2. CASE i # 0
      <4>1. i \in 1..n /\ f[i - 1] \in Int
        BY <3>2, <1>1
      <4>2. f[i] = f[i - 1] + s[i]
        BY <4>1, <1>3, <1>5, Zenon DEF Iterates
      <4> QED
        BY <3>2, <4>2
    <3> QED
      BY <3>1, <3>2
  <2> QED
    BY <2>1
<1>7. F = Loop(F)
  BY <1>6, Zenon
<1> HIDE DEF F
<1>8. F[0] = 0 /\ \A i \in 1..n : F[i] = F[i - 1] + s[i]
  <2> DEFINE L == Loop(F)
  <2>1. L[0] = 0 /\ \A i \in 1..n : L[i] = F[i - 1] + s[i]
    BY <1>1
  <2>2. F = L
    BY <1>7, Zenon
  <2> HIDE DEF L
  <2> QED
    BY <2>1, <2>2
<1> DEFINE T == {i \in 0..n : F[i] \in Int}
<1>9. 0 \in T
  BY <1>1, <1>8
<1>10. ASSUME NEW i \in 1..n, i - 1 \in T PROVE i \in T
  <2>1. F[i - 1] \in Int /\ s[i] \in Int /\ F[i] = F[i - 1] + s[i] /\ i \in 0..n
    BY <1>1, <1>8, <1>10
  <2>2. F[i] \in Int
    BY <2>1
  <2> QED
    BY <2>1, <2>2
<1>11. \A i \in 0..n : i \in T
  <2> HIDE DEF T
  <2> QED
    BY <1>1, <1>9, <1>10, InductTo, Zenon
<1> QED
  BY <1>1, <1>4, <1>11

(***************************************************************************)
(* The configuration.                                                      *)
(***************************************************************************)

(* There is a Runtime. *)
Formed == pc \notin {"new", "refused"}

(* Where a Runtime, or the call that makes it, can be. *)
Stages == {"new", "refused", "idle", "check", "start", "launch", "failed"}

(* A Runtime has a valid configuration, and one that is read from a file   *)
(* has what the file says.                                                 *)
ConfigInv ==
  /\ cfg \in ConfigRecords /\ pc \in Stages
  /\ text \in Texts \cup {Absent} /\ env \in Envs
  /\ Formed => Validate(cfg) /\ (text # Absent => loaded)
  /\ text # Absent /\ loaded => Parses(text, env) /\ cfg.queues = Parsed(text, env).queues

(* withDefaults makes a Config of a Config. *)
LEMMA DefaultsTyped ==
  ASSUME NEW c \in ConfigRecords
  PROVE  applyDefaults(c) \in ConfigRecords /\ applyDefaults(c).queues = c.queues
<1> DEFINE d == [f \in Fields |-> IF f # "jobMetrics" /\ c.defaults[f] = 0
                                  THEN Builtin[f] ELSE c.defaults[f]]
<1>1. c.defaults \in Tunings /\ c.defaults["concurrency"] \in Int
  BY Zenon DEF ConfigRecords
<1>2. Builtin \in Tunings /\ Builtin["concurrency"] \in Int
  <2>1. Builtin["concurrency"] \in Nat \ {0} /\ Builtin \in Tunings
    BY RegistrationAssumption, Zenon
  <2> QED
    BY <2>1
<1>3. d \in Tunings /\ d["concurrency"] \in Int
  BY <1>1, <1>2 DEF Tunings, Fields
<1>4. applyDefaults(c) = [c EXCEPT !.shutdownTimeout = IF @ = 0 THEN 30 ELSE @,
                                   !.log = IF @ = "" THEN "known" ELSE @, !.defaults = d]
  BY DEF applyDefaults
<1> DEFINE D == {x \in Tunings : x["concurrency"] \in Int}
           Q == Seq([name : Names \cup {""}, tune : Tunings, executor : STRING])
<1>5. d \in D
  BY <1>3
<1>6. ConfigRecords = [addrs : Nat, log : {"", "known", "other"}, shutdownTimeout : Int, poolSize : Int,
                       defaults : D, queues : Q]
  BY Zenon DEF ConfigRecords
<1> DEFINE l == IF c.log = "" THEN "known" ELSE c.log
           t == IF c.shutdownTimeout = 0 THEN 30 ELSE c.shutdownTimeout
<1> HIDE DEF d, D, Q
<1>7. l \in {"", "known", "other"} /\ t \in Int
  <2>1. c.log \in {"", "known", "other"}
    BY <1>6, Zenon
  <2>2. l \in {"", "known", "other"}
    BY <2>1, Zenon
  <2>3. c.shutdownTimeout \in Int
    BY <1>6, Zenon
  <2>4. t \in Int
    BY <2>3
  <2> QED
    BY <2>2, <2>4, Zenon
<1>8. applyDefaults(c) = [c EXCEPT !.shutdownTimeout = t, !.log = l, !.defaults = d]
  BY <1>4
<1> HIDE DEF l, t
<1> QED
  BY <1>5, <1>6, <1>7, <1>8, Zenon

(* A file that parses decodes to a Config. *)
LEMMA ParsedTyped ==
  ASSUME NEW t \in Texts, NEW e \in Envs, Parses(t, e)
  PROVE  /\ Parsed(t, e) \in ConfigRecords
         /\ \A i \in DOMAIN t.blocks :
              expandEnv(t.blocks[i].concurrency, e) \in Int \cup {Empty}
<1>1. /\ t.rest \in ConfigRecords /\ t.blocks \in Seq(TextBlocks)
      /\ e \in [Vars -> Values \cup {Absent}]
  BY SetupAssumption
<1>2. ASSUME NEW i \in DOMAIN t.blocks
      PROVE  /\ t.blocks[i] \in TextBlocks
             /\ expandEnv(t.blocks[i].concurrency, e) \in Int \cup {Empty}
  <2> DEFINE s == t.blocks[i].concurrency
  <2>1. t.blocks[i] \in TextBlocks
    BY <1>1
  <2>2. s.var \in Vars \cup {Absent} /\ s.default \in Values \cup {Absent}
    BY <2>1, Zenon DEF TextBlocks
  <2>3. expandEnv(s, e) # Words
    BY <1>2 DEF Parses, Decodes
  <2> HIDE DEF s
  <2>4. expandEnv(s, e) \in Values
    BY <1>1, <2>2 DEF expandEnv, IsSet, Values
  <2> QED
    BY <2>1, <2>3, <2>4 DEF Values, s
<1> DEFINE tune(i) == [NoTune EXCEPT !["concurrency"] = Decode(t.blocks[i].concurrency, e)]
           qs == [i \in DOMAIN t.blocks |->
                    [name |-> t.blocks[i].name, tune |-> tune(i),
                     executor |-> t.blocks[i].options.type]]
<1>3. ASSUME NEW i \in DOMAIN t.blocks PROVE tune(i) \in Tunings
  <2>1. Decode(t.blocks[i].concurrency, e) \in Int \cup {Unset}
    BY <1>2 DEF Decode
  <2> QED
    BY <2>1, Zenon DEF NoTune, Tunings
<1>4. ASSUME NEW i \in DOMAIN t.blocks
      PROVE  qs[i] \in [name : Names \cup {""}, tune : Tunings, executor : STRING]
  <2> HIDE DEF tune
  <2> QED
    BY <1>2, <1>3, Zenon DEF TextBlocks
<1>5. DOMAIN t.blocks = 1..Len(t.blocks) /\ Len(t.blocks) \in Nat
  BY <1>1
<1>6. qs \in Seq([name : Names \cup {""}, tune : Tunings, executor : STRING])
  <2> DEFINE B == [name : Names \cup {""}, tune : Tunings, executor : STRING]
  <2>1. qs = [i \in 1..Len(t.blocks) |-> qs[i]] /\ \A i \in 1..Len(t.blocks) : qs[i] \in B
    BY <1>4, <1>5, Zenon
  <2> HIDE DEF qs, B
  <2>2. qs \in [1..Len(t.blocks) -> B]
    BY <2>1
  <2>3. qs \in Seq(B)
    BY <1>5, <2>2
  <2> USE DEF B
  <2> QED
    BY <2>3, Zenon
<1>7. Parsed(t, e) = [t.rest EXCEPT !.queues = qs]
  BY DEF Parsed
<1> HIDE DEF qs
<1>8. Parsed(t, e) \in ConfigRecords
  BY <1>1, <1>6, <1>7, Zenon DEF ConfigRecords
<1> QED
  BY <1>2, <1>8

(* ConfigInv holds before New or Load. *)
LEMMA ConfigStart ==
  ASSUME SetupInit PROVE ConfigInv
<1>1. cfg \in ConfigRecords
  <2>1. cfg \in Configs \/ (text \in Texts /\ cfg = text.rest)
    BY DEF SetupInit, Init
  <2> QED
    BY <2>1, RegistrationAssumption, SetupAssumption, Zenon
<1> QED
  BY <1>1 DEF SetupInit, Init, ConfigInv, Formed, Stages

(* No step disturbs the configuration of a Runtime. *)
LEMMA ConfigStep ==
  ASSUME ConfigInv, [SetupNext]_setupVars
  PROVE  ConfigInv'
<1>i. /\ cfg \in ConfigRecords /\ pc \in Stages
      /\ text \in Texts \cup {Absent} /\ env \in Envs
      /\ Formed => Validate(cfg) /\ (text # Absent => loaded)
      /\ text # Absent /\ loaded => Parses(text, env) /\ cfg.queues = Parsed(text, env).queues
  BY DEF ConfigInv
<1>k. ASSUME UNCHANGED <<cfg, text, env, loaded>>, pc' \in Stages, Formed' => Formed
      PROVE  ConfigInv'
  BY <1>i, <1>k DEF ConfigInv
<1>1. CASE LoadConfig
  <2> DEFINE c == applyDefaults(Parsed(text, env))
  <2>1. /\ text \in Texts /\ loaded' = TRUE /\ env' = env /\ ~Formed /\ pc = "new"
        /\ IF Parses(text, env) /\ Validate(c)
           THEN cfg' = c /\ UNCHANGED <<pc, text>>
           ELSE pc' = "refused" /\ text' = Absent /\ UNCHANGED cfg
    BY <1>1, <1>i DEF LoadConfig, Formed
  <2>2. CASE Parses(text, env) /\ Validate(c)
    <3>1. Parsed(text, env) \in ConfigRecords
      BY <2>1, <2>2, <1>i, ParsedTyped
    <3>2. c \in ConfigRecords /\ c.queues = Parsed(text, env).queues
      BY <3>1, DefaultsTyped
    <3> HIDE DEF c
    <3>3. cfg' = c /\ pc' = "new" /\ text' = text
      BY <2>1, <2>2
    <3> QED
      BY <1>i, <2>1, <2>2, <3>2, <3>3 DEF ConfigInv, Formed
  <2>3. CASE ~(Parses(text, env) /\ Validate(c))
    <3>1. pc' = "refused" /\ text' = Absent /\ cfg' = cfg
      BY <2>1, <2>3
    <3> QED
      BY <1>i, <2>1, <3>1 DEF ConfigInv, Formed, Stages
  <2> QED
    BY <2>2, <2>3
<1>2. CASE NewRuntime
  <2> DEFINE c == applyDefaults(cfg)
  <2>1. /\ text = Absent \/ loaded
        /\ cfg' = c /\ pc' = IF Validate(c) THEN "idle" ELSE "refused"
        /\ UNCHANGED <<text, env, loaded>>
    BY <1>2 DEF NewRuntime, New
  <2>2. c \in ConfigRecords /\ c.queues = cfg.queues
    BY <1>i, DefaultsTyped
  <2> HIDE DEF c
  <2> QED
    BY <1>i, <2>1, <2>2 DEF ConfigInv, Formed, Stages
<1>3. CASE BuildFromText
  BY <1>3, <1>i, <1>k DEF BuildFromText, BuildOne, BuildFails, Formed, Stages
<1>4. CASE \E n \in Names, t \in CodeTunes : register(n, t) /\ UNCHANGED <<text, env, loaded>>
  BY <1>4, <1>i, <1>k DEF register, Formed, Stages
<1>5. CASE (Check \/ CheckDone \/ Start) /\ UNCHANGED <<text, env, loaded>>
  BY <1>5, <1>i, <1>k DEF Check, CheckDone, Start, Formed, Stages
<1>6. CASE /\ StartResolves \/ LaunchOne \/ LaunchFails \/ StartDone
           /\ UNCHANGED <<text, env, loaded>>
  BY <1>6, <1>i, <1>k DEF StartResolves, LaunchOne, LaunchFails, StartDone, Formed, Stages
<1>7. CASE UNCHANGED setupVars
  BY <1>7, <1>i, <1>k DEF setupVars, vars, Formed
<1> QED
  BY <1>1, <1>2, <1>3, <1>4, <1>5, <1>6, <1>7 DEF SetupNext, Goes

(***************************************************************************)
(* The registry.                                                           *)
(***************************************************************************)

(* What Runtime.registry holds for a name. *)
Entries == [fromCode : BOOLEAN, tune : Tunings, by : Nat]

(* What is in Runtime.order has been claimed by code or is declared, what  *)
(* code has claimed is there, and tuning that is not of code is in cfg.    *)
RegistryInv ==
  /\ registry \in [Names -> Entries]
  /\ \A n \in Names \ Handled : registry[n].tune = NoTune
  /\ order \in Seq(Names)
  /\ Handled \subseteq Range(order) /\ Range(order) \subseteq Handled \cup Declared
  /\ ~Formed => order = <<>>
  /\ next \in Nat \ {0} /\ calls \in Nat

(* RegistryInv holds before New or Load. *)
LEMMA RegistryStart ==
  ASSUME SetupInit PROVE RegistryInv
<1>1. /\ registry = [n \in Names |-> None] /\ order = <<>> /\ next = 1 /\ calls = 0
      /\ pc = "new"
  BY DEF SetupInit, Init
<1>2. NoTune \in Tunings
  BY DEF NoTune, Tunings
<1>3. None \in Entries /\ ~None.fromCode /\ None.tune = NoTune
  BY <1>2 DEF None, Entries
<1> HIDE DEF None
<1>4. Handled = {} /\ Range(order) = {}
  BY <1>1, <1>3 DEF Handled, Range
<1> QED
  BY <1>1, <1>3, <1>4 DEF RegistryInv

(* A block whose turn it is has a name of its own. *)
LEMMA BlockNames ==
  ASSUME ConfigInv, Formed
  PROVE  /\ \A i \in 1..Len(cfg.queues) :
              /\ cfg.queues[i].name \in Names /\ cfg.queues[i].name \in Declared
              /\ cfg.queues[i].tune \in Tunings
              /\ \A k \in 1..Len(cfg.queues) : cfg.queues[k].name = cfg.queues[i].name => i = k
         /\ Len(cfg.queues) \in Nat /\ DOMAIN cfg.queues = 1..Len(cfg.queues)
         /\ Declared \subseteq Names
<1> DEFINE Q == [name : Names \cup {""}, tune : Tunings, executor : STRING]
           qs == cfg.queues
<1>1. qs \in Seq(Q)
  BY Zenon DEF ConfigInv, ConfigRecords
<1>2. Validate(cfg)
  BY DEF ConfigInv
<1>3. \A i \in DOMAIN qs :
        qs[i].name # "" /\ \A k \in 1..(i - 1) : qs[k].name # qs[i].name
  BY <1>2, Zenon DEF Validate
<1> HIDE DEF qs, Q
<1>4. Len(qs) \in Nat /\ DOMAIN qs = 1..Len(qs)
  BY <1>1
<1>5. \A i \in DOMAIN qs : qs[i] \in Q
  BY <1>1
<1>6. \A i \in DOMAIN qs : qs[i].name \in Names /\ qs[i].tune \in Tunings
  BY <1>3, <1>5, Zenon DEF Q
<1>7. ASSUME NEW i \in 1..Len(qs), NEW k \in 1..Len(qs), qs[k].name = qs[i].name
      PROVE  i = k
  <2>1. ~(k \in 1..(i - 1)) /\ ~(i \in 1..(k - 1))
    BY <1>3, <1>4, <1>7, Zenon
  <2> QED
    BY <2>1, <1>4
<1> QED
  BY <1>4, <1>6, <1>7 DEF Declared, qs

(* A queue joins the registry. *)
LEMMA Joins ==
  ASSUME RegistryInv, cfg' = cfg, Formed', next' \in Nat \ {0}, calls' \in Nat,
         NEW x \in Names \ Handled, NEW e \in Entries,
         registry' = [registry EXCEPT ![x] = e], order' = Append(order, x),
         e.fromCode \/ (e.tune = NoTune /\ x \in Declared)
  PROVE  /\ RegistryInv' /\ Range(order') = Range(order) \cup {x}
         /\ Handled' = IF e.fromCode THEN Handled \cup {x} ELSE Handled
         /\ registry'[x] = e /\ \A n \in Names \ {x} : registry'[n] = registry[n]
         /\ registeredQueues' = IF x \in Range(order) THEN registeredQueues
                                ELSE Append(registeredQueues, x)
<1>i. /\ registry \in [Names -> Entries]
      /\ \A n \in Names \ Handled : registry[n].tune = NoTune
      /\ order \in Seq(Names)
      /\ Handled \subseteq Range(order) /\ Range(order) \subseteq Handled \cup Declared
  BY DEF RegistryInv
<1>1. registry' \in [Names -> Entries]
  BY <1>i
<1>2. registry'[x] = e /\ \A n \in Names \ {x} : registry'[n] = registry[n]
  BY <1>i
<1>3. \A s \in Seq(Names) : \A t : t = Append(s, x) =>
        /\ t \in Seq(Names) /\ Range(t) = Range(s) \cup {x}
        /\ Firsts(t) = IF x \in Range(s) THEN Firsts(s) ELSE Append(Firsts(s), x)
  BY Appended, FirstsOfAppend
<1>4. order' \in Seq(Names) /\ Range(order') = Range(order) \cup {x}
  BY <1>i, <1>3, Zenon
<1>5. registeredQueues' = IF x \in Range(order) THEN registeredQueues
                          ELSE Append(registeredQueues, x)
  BY <1>i, <1>3, Zenon DEF registeredQueues
<1>6. Handled' = IF e.fromCode THEN Handled \cup {x} ELSE Handled
  <2>1. \A n \in Names : n \in Handled' <=> IF n = x THEN e.fromCode ELSE n \in Handled
    BY <1>2 DEF Handled
  <2>2. Handled \subseteq Names /\ Handled' \subseteq Names
    BY DEF Handled
  <2> QED
    BY <2>1, <2>2, Zenon
<1>7. Declared' = Declared
  BY DEF Declared
<1>8. \A n \in Names \ Handled' : registry'[n].tune = NoTune
  BY <1>i, <1>2, <1>6
<1>9. Handled' \subseteq Range(order') /\ Range(order') \subseteq Handled' \cup Declared'
  BY <1>i, <1>4, <1>6, <1>7
<1> QED
  BY <1>1, <1>2, <1>4, <1>5, <1>6, <1>8, <1>9 DEF RegistryInv

(* The entry that buildConfiguredQueues makes. *)
BuiltEntry == [fromCode |-> FALSE, tune |-> NoTune, by |-> calls]

(* A turn of buildConfiguredQueues skips a queue of code, fails, or builds *)
(* the queue.                                                              *)
LEMMA Turns ==
  ASSUME ConfigInv, RegistryInv, BuildFromText, NEW x, x = cfg.queues[next].name
  PROVE  /\ pc \in {"check", "start"} /\ Formed /\ next \in 1..Len(cfg.queues)
         /\ x \in Names /\ x \in Declared
         /\ UNCHANGED <<cfg, started, todo, workers, warned, calls, startCall, predicted,
                        text, env, loaded>>
         /\ \/ x \in Handled /\ next' = next + 1 /\ UNCHANGED <<pc, registry, order>>
            \/ /\ pc' = (IF pc = "start" THEN "failed" ELSE "idle")
               /\ UNCHANGED <<next, registry, order>>
            \/ /\ x \in Names \ Handled /\ next' = next + 1 /\ pc' = pc
               /\ registry' = [registry EXCEPT ![x] = BuiltEntry]
               /\ order' = Append(order, x)
               /\ text # Absent => factory(text.blocks[next].options)
<1>1. pc \in {"check", "start"} /\ next <= Len(cfg.queues) /\ next \in Nat \ {0}
  BY DEF BuildFromText, BuildOne, RegistryInv
<1>2. Formed
  BY <1>1 DEF Formed
<1>3. Len(cfg.queues) \in Nat
  BY <1>2, BlockNames
<1>4. next \in 1..Len(cfg.queues)
  BY <1>1, <1>3
<1>5. x \in Names /\ x \in Declared
  BY <1>2, <1>4, BlockNames
<1>6. UNCHANGED <<cfg, started, todo, workers, warned, calls, startCall, predicted,
                  text, env, loaded>>
  BY DEF BuildFromText, BuildOne
<1>7. CASE registry[x].fromCode
  <2>1. next' = next + 1 /\ UNCHANGED <<pc, registry, order>>
    BY <1>7 DEF BuildFromText, BuildOne
  <2> QED
    BY <1>1, <1>2, <1>4, <1>5, <1>6, <1>7, <2>1 DEF Handled
<1>8. CASE ~registry[x].fromCode
  <2>1. x \in Names \ Handled
    BY <1>5, <1>8 DEF Handled
  <2>2. CASE BuildFails
    BY <1>1, <1>2, <1>4, <1>5, <1>6, <2>2, Zenon DEF BuildFails
  <2>3. CASE /\ registry' = [registry EXCEPT ![x] = BuiltEntry]
             /\ order' = Append(order, x)
             /\ next' = next + 1 /\ UNCHANGED pc
    <3>1. order' # order
      <4>1. Len(order') = Len(order) + 1 /\ Len(order) \in Nat
        BY <1>5, <2>3, Appended DEF RegistryInv
      <4> QED
        BY <4>1
    <3>2. text # Absent => factory(text.blocks[next].options)
      BY <3>1 DEF BuildFromText
    <3> QED
      BY <1>1, <1>2, <1>4, <1>5, <1>6, <2>1, <2>3, <3>2, Zenon
  <2> QED
    BY <1>8, <2>2, <2>3 DEF BuildFromText, BuildOne, BuiltEntry
<1> QED
  BY <1>7, <1>8

(* No step disturbs the registry, and none takes a queue from code. *)
LEMMA RegistryStep ==
  ASSUME ConfigInv, ConfigInv', RegistryInv, [SetupNext]_setupVars
  PROVE  /\ RegistryInv'
         /\ \A n \in Names : registry[n].fromCode => registry'[n] = registry[n]
<1>i. /\ registry \in [Names -> Entries]
      /\ \A n \in Names \ Handled : registry[n].tune = NoTune
      /\ order \in Seq(Names)
      /\ Handled \subseteq Range(order) /\ Range(order) \subseteq Handled \cup Declared
      /\ ~Formed => order = <<>>
      /\ next \in Nat \ {0} /\ calls \in Nat
  BY DEF RegistryInv
<1>k. ASSUME UNCHANGED <<registry, order>>, Formed => cfg' = cfg /\ Formed',
             next' \in Nat \ {0}, calls' \in Nat
      PROVE  /\ RegistryInv'
             /\ \A n \in Names : registry[n].fromCode => registry'[n] = registry[n]
  <2>1. Handled' = Handled /\ Range(order') = Range(order)
    BY <1>k DEF Handled
  <2>2. Range(<<>>) = {}
    BY DEF Range
  <2>3. Formed => Declared' = Declared
    BY <1>k DEF Declared
  <2>4. Range(order) = {} \/ Declared' = Declared
    BY <1>i, <2>2, <2>3
  <2> QED
    BY <1>i, <1>k, <2>1, <2>4 DEF RegistryInv
<1>s. ASSUME NEW x \in Names \ Handled, NEW e, RegistryInv',
             registry'[x] = e /\ \A n \in Names \ {x} : registry'[n] = registry[n]
      PROVE  \A n \in Names : registry[n].fromCode => registry'[n] = registry[n]
  BY <1>s DEF Handled
<1>1. CASE LoadConfig
  BY <1>1, <1>i, <1>k DEF LoadConfig, Formed
<1>2. CASE NewRuntime
  BY <1>2, <1>i, <1>k DEF NewRuntime, New, Formed
<1>3. CASE BuildFromText
  <2> DEFINE x == cfg.queues[next].name
  <2>1. /\ pc \in {"check", "start"} /\ Formed /\ x \in Declared /\ UNCHANGED <<cfg, calls>>
        /\ \/ next' = next + 1 /\ UNCHANGED <<pc, registry, order>>
           \/ /\ pc' = (IF pc = "start" THEN "failed" ELSE "idle")
              /\ UNCHANGED <<next, registry, order>>
           \/ /\ x \in Names \ Handled /\ next' = next + 1 /\ pc' = pc
              /\ registry' = [registry EXCEPT ![x] = BuiltEntry]
              /\ order' = Append(order, x)
    BY <1>3, Turns
  <2> HIDE DEF x
  <2>2. CASE UNCHANGED <<registry, order>>
    BY <1>i, <1>k, <2>1, <2>2 DEF Formed
  <2>3. CASE /\ x \in Names \ Handled /\ next' = next + 1 /\ pc' = pc
             /\ registry' = [registry EXCEPT ![x] = BuiltEntry]
             /\ order' = Append(order, x)
    <3>1. BuiltEntry \in Entries /\ BuiltEntry.tune = NoTune
      BY <1>i DEF BuiltEntry, Entries, NoTune, Tunings
    <3>2. Formed' /\ next' \in Nat \ {0} /\ calls' \in Nat
      BY <1>i, <2>1, <2>3 DEF Formed
    <3> QED
      BY <1>s, <2>1, <2>3, <3>1, <3>2, Joins, Zenon
  <2> QED
    BY <2>1, <2>2, <2>3
<1>4. CASE \E n \in Names, t \in CodeTunes : register(n, t)
  <2>1. PICK n \in Names, t \in CodeTunes : register(n, t)
    BY <1>4
  <2> DEFINE e == [fromCode |-> TRUE, tune |-> t, by |-> 0]
  <2>2. /\ registry' = [registry EXCEPT ![n] = e] /\ order' = Append(order, n)
        /\ n \notin Range(order) /\ cfg' = cfg /\ Formed' /\ UNCHANGED <<next, calls>>
    BY <2>1 DEF register, Formed
  <2>3. n \in Names \ Handled
    BY <1>i, <2>2
  <2>4. e \in Entries /\ e.fromCode
    BY RegistrationAssumption, Zenon DEF Entries
  <2> HIDE DEF e
  <2> QED
    BY <1>i, <1>s, <2>2, <2>3, <2>4, Joins, Zenon
<1>5. CASE Check \/ CheckDone \/ Start
  BY <1>5, <1>i, <1>k DEF Check, CheckDone, Start, Formed
<1>6. CASE StartResolves \/ LaunchOne \/ LaunchFails \/ StartDone
  BY <1>6, <1>i, <1>k DEF StartResolves, LaunchOne, LaunchFails, StartDone, Formed
<1>7. CASE UNCHANGED setupVars
  BY <1>7, <1>i, <1>k DEF setupVars, vars, Formed
<1> QED
  BY <1>1, <1>2, <1>3, <1>4, <1>5, <1>6, <1>7 DEF SetupNext, Goes

(***************************************************************************)
(* The build.                                                              *)
(***************************************************************************)

(* Start has its queues and has not failed. *)
Resolved == started /\ pc \in {"launch", "idle", "check"}

(* A declared queue has its executor from this Start. *)
Fresh(n) == n \notin Handled => registry[n].by = startCall

(* buildConfiguredQueues has dealt with the blocks before the next one. *)
BuildInv ==
  /\ ~Formed => ~started /\ predicted = <<>>
  /\ pc \in {"start", "launch"} => started
  /\ pc = "start" => startCall = calls
  /\ pc \in {"check", "start"} =>
       \A i \in 1..Len(cfg.queues) : i < next =>
         /\ cfg.queues[i].name \in Range(order)
         /\ pc = "start" => Fresh(cfg.queues[i].name)
  /\ pc = "launch" => \A n \in Declared : Fresh(n)
  /\ Resolved \/ predicted # <<>> => Declared \subseteq Range(order)

(* Check and Start build each declared queue in turn. *)
LEMMA BuildStep ==
  ASSUME ConfigInv, RegistryInv, RegistryInv', BuildInv, [SetupNext]_setupVars
  PROVE  BuildInv'
<1> DEFINE qs == cfg.queues
<1>i. /\ ~Formed => ~started /\ predicted = <<>>
      /\ pc \in {"start", "launch"} => started
      /\ pc = "start" => startCall = calls
      /\ pc \in {"check", "start"} =>
           \A i \in 1..Len(qs) : i < next =>
             qs[i].name \in Range(order) /\ (pc = "start" => Fresh(qs[i].name))
      /\ pc = "launch" => \A n \in Declared : Fresh(n)
      /\ Resolved \/ predicted # <<>> => Declared \subseteq Range(order)
  BY DEF BuildInv
<1>k. ASSUME UNCHANGED <<cfg, registry, order, startCall>>
      PROVE  /\ Declared' = Declared /\ Range(order') = Range(order)
             /\ \A n : Fresh(n) <=> Fresh(n)'
  BY <1>k DEF Declared, Fresh, Handled
<1>d. ASSUME Formed, next \in Nat, next > Len(qs)
      PROVE  \A n \in Declared : \E i \in 1..Len(qs) : i < next /\ n = qs[i].name
  BY <1>d, BlockNames DEF Declared
<1>n. next \in Nat \ {0}
  BY DEF RegistryInv
<1>1. CASE LoadConfig
  BY <1>1, <1>i, Zenon DEF LoadConfig, Formed, BuildInv, Resolved
<1>2. CASE NewRuntime
  BY <1>2, <1>i DEF NewRuntime, New, Formed, BuildInv, Resolved
<1>3. CASE BuildFromText
  <2> DEFINE x == qs[next].name
  <2>1. /\ pc \in {"check", "start"} /\ Formed /\ next \in 1..Len(qs)
        /\ UNCHANGED <<cfg, started, calls, startCall, predicted>>
        /\ \/ x \in Handled /\ next' = next + 1 /\ UNCHANGED <<pc, registry, order>>
           \/ /\ pc' = (IF pc = "start" THEN "failed" ELSE "idle")
              /\ UNCHANGED <<next, registry, order>>
           \/ /\ x \in Names \ Handled /\ next' = next + 1 /\ pc' = pc
              /\ registry' = [registry EXCEPT ![x] = BuiltEntry]
              /\ order' = Append(order, x)
    BY <1>3, Turns
  <2>f. Formed' /\ cfg'.queues = qs /\ Declared' = Declared /\ Len(qs) \in Nat
    BY <2>1, BlockNames DEF Formed, Declared
  <2>2. CASE x \in Handled /\ next' = next + 1 /\ UNCHANGED <<pc, registry, order>>
    <3>1. x \in Range(order) /\ Fresh(x)
      BY <2>2 DEF RegistryInv, Fresh
    <3>2. ASSUME NEW i \in 1..Len(qs), i < next'
          PROVE  qs[i].name \in Range(order) /\ (pc = "start" => Fresh(qs[i].name))
      <4>1. i < next \/ i = next
        BY <1>n, <2>2, <3>2
      <4> QED
        BY <1>i, <2>1, <3>1, <4>1
    <3>3. /\ Range(order') = Range(order) /\ \A n : Fresh(n) <=> Fresh(n)'
      BY <1>k, <2>1, <2>2
    <3> QED
      BY <1>i, <2>1, <2>f, <2>2, <3>2, <3>3 DEF BuildInv, Resolved
  <2>3. CASE /\ pc' = (IF pc = "start" THEN "failed" ELSE "idle")
             /\ UNCHANGED <<next, registry, order>>
    <3>1. Range(order') = Range(order)
      BY <2>3
    <3>2. Resolved' => Resolved
      BY <2>1, <2>3 DEF Resolved
    <3> QED
      BY <1>i, <2>1, <2>f, <2>3, <3>1, <3>2 DEF BuildInv
  <2>4. CASE /\ x \in Names \ Handled /\ next' = next + 1 /\ pc' = pc
             /\ registry' = [registry EXCEPT ![x] = BuiltEntry]
             /\ order' = Append(order, x)
    <3>1. BuiltEntry \in Entries /\ BuiltEntry.tune = NoTune /\ ~BuiltEntry.fromCode
          /\ BuiltEntry.by = calls
      BY DEF BuiltEntry, Entries, NoTune, Tunings, RegistryInv
    <3>2. x \in Declared
      BY <2>1, BlockNames
    <3>3. next' \in Nat \ {0} /\ calls' \in Nat
      BY <1>n, <2>1, <2>4 DEF RegistryInv
    <3> HIDE DEF x
    <3>4. /\ Range(order') = Range(order) \cup {x} /\ Handled' = Handled
          /\ registry'[x] = BuiltEntry /\ \A n \in Names \ {x} : registry'[n] = registry[n]
      BY <2>1, <2>f, <2>4, <3>1, <3>2, <3>3, Joins, Zenon
    <3> USE DEF x
    <3>5. ASSUME NEW i \in 1..Len(qs), i < next'
          PROVE  qs[i].name \in Range(order') /\ (pc = "start" => Fresh(qs[i].name)')
      <4>1. i < next \/ i = next
        BY <1>n, <2>4, <3>5
      <4>2. CASE i < next
        <5>1. qs[i].name \in Range(order) /\ (pc = "start" => Fresh(qs[i].name))
          BY <1>i, <2>1, <4>2
        <5>2. qs[i].name \in Names \ {x}
          BY <2>1, <4>2, BlockNames
        <5> QED
          BY <2>1, <3>4, <5>1, <5>2 DEF Fresh
      <4>3. CASE i = next
        BY <1>i, <2>1, <3>1, <3>4, <4>3 DEF Fresh
      <4> QED
        BY <4>1, <4>2, <4>3
    <3> QED
      BY <1>i, <2>1, <2>f, <2>4, <3>4, <3>5, Zenon DEF BuildInv, Resolved
  <2> QED
    BY <2>1, <2>2, <2>3, <2>4
<1>4. CASE \E n \in Names, t \in CodeTunes : register(n, t)
  <2>1. pc = "idle" /\ ~started /\ pc' = pc /\ started' = started /\ predicted' = <<>>
    BY <1>4 DEF register
  <2> QED
    BY <2>1 DEF BuildInv, Resolved, Formed
<1>5. CASE Check
  <2>1. next' = 1 /\ Formed' /\ Formed
    BY <1>5 DEF Check, Formed
  <2>2. \A i \in 1..Len(cfg'.queues) : ~(i < next')
    BY <2>1
  <2> QED
    BY <1>5, <1>i, <1>k, <2>1, <2>2 DEF Check, BuildInv, Resolved
<1>6. CASE CheckDone
  <2>1. Formed /\ Formed' /\ Declared \subseteq Range(order)
    BY <1>6, <1>i, <1>d, <1>n DEF CheckDone, Formed
  <2> QED
    BY <1>6, <1>i, <1>k, <2>1 DEF CheckDone, BuildInv, Resolved
<1>7. CASE Start
  <2>1. next' = 1 /\ Formed' /\ Formed
    BY <1>7 DEF Start, Formed
  <2>2. \A i \in 1..Len(cfg'.queues) : ~(i < next')
    BY <2>1
  <2>3. Declared' = Declared /\ Range(order') = Range(order)
    BY <1>7 DEF Start, Declared
  <2> QED
    BY <1>7, <1>i, <2>1, <2>2, <2>3 DEF Start, BuildInv, Resolved
<1>8. CASE StartResolves
  <2>1. Formed /\ Formed' /\ Declared \subseteq Range(order) /\ \A n \in Declared : Fresh(n)
    BY <1>8, <1>i, <1>d, <1>n DEF StartResolves, Formed
  <2> QED
    BY <1>8, <1>i, <1>k, <2>1 DEF StartResolves, BuildInv, Resolved
<1>9. CASE LaunchOne \/ LaunchFails \/ StartDone
  <2>1. Formed /\ Formed' /\ (Resolved' => Resolved)
    BY <1>9 DEF LaunchOne, LaunchFails, StartDone, Formed, Resolved
  <2> QED
    BY <1>9, <1>i, <1>k, <2>1 DEF LaunchOne, LaunchFails, StartDone, BuildInv
<1>10. CASE UNCHANGED setupVars
  <2>1. (Formed <=> Formed') /\ (Resolved' => Resolved)
    BY <1>10 DEF setupVars, vars, Formed, Resolved
  <2> QED
    BY <1>10, <1>i, <1>k, <2>1 DEF setupVars, vars, BuildInv
<1> QED
  BY <1>1, <1>2, <1>3, <1>4, <1>5, <1>6, <1>7, <1>8, <1>9, <1>10 DEF SetupNext, Goes

(***************************************************************************)
(* The order of the queues.                                                *)
(***************************************************************************)

(* Without a queue of code, Check and Start put the queues in the order of *)
(* their blocks, however far each of them comes.                           *)
PrefixInv ==
  Handled = {} =>
    /\ Len(registeredQueues) <= Len(cfg.queues)
    /\ \A i \in 1..Len(registeredQueues) : registeredQueues[i] = cfg.queues[i].name
    /\ pc \in {"check", "start"} => next - 1 <= Len(registeredQueues)

(* What registeredQueues returns. *)
LEMMA Queues ==
  ASSUME RegistryInv
  PROVE  /\ registeredQueues \in Seq(Names) /\ Range(registeredQueues) = Range(order)
         /\ Len(registeredQueues) \in Nat
         /\ DOMAIN registeredQueues = 1..Len(registeredQueues)
         /\ \A i \in 1..Len(registeredQueues) : registeredQueues[i] \in Names
         /\ \A i, k \in 1..Len(registeredQueues) :
              registeredQueues[i] = registeredQueues[k] => i = k
         /\ ~Formed => registeredQueues = <<>>
<1>1. order \in Seq(Names) /\ (~Formed => order = <<>>)
  BY DEF RegistryInv
<1>2. /\ registeredQueues \in Seq(Names) /\ Range(registeredQueues) = Range(order)
      /\ \A i, k \in 1..Len(registeredQueues) :
           registeredQueues[i] = registeredQueues[k] => i = k
  BY <1>1, FirstsAre DEF registeredQueues
<1>3. ~Formed => registeredQueues = <<>>
  BY <1>1, FirstsOfNone DEF registeredQueues
<1>4. \A s \in Seq(Names) :
        Len(s) \in Nat /\ DOMAIN s = 1..Len(s) /\ \A i \in 1..Len(s) : s[i] \in Names
  OBVIOUS
<1> QED
  BY <1>2, <1>3, <1>4

(* No step disturbs the order of the queues. *)
LEMMA PrefixStep ==
  ASSUME ConfigInv, ConfigInv', RegistryInv, RegistryInv', PrefixInv, [SetupNext]_setupVars
  PROVE  PrefixInv'
<1> DEFINE qs == cfg.queues
           rq == registeredQueues
<1>i. Handled = {} =>
        /\ Len(rq) <= Len(qs) /\ \A i \in 1..Len(rq) : rq[i] = qs[i].name
        /\ pc \in {"check", "start"} => next - 1 <= Len(rq)
  BY DEF PrefixInv
<1>t. /\ rq \in Seq(Names) /\ Len(rq) \in Nat /\ DOMAIN rq = 1..Len(rq)
      /\ next \in Nat \ {0}
  BY Queues DEF RegistryInv
<1>u. ASSUME UNCHANGED <<registry, order>>
      PROVE  Handled' = Handled /\ rq' = rq
  BY <1>u DEF Handled, registeredQueues
<1>k. ASSUME UNCHANGED <<cfg, registry, order>>,
             \/ pc' \notin {"check", "start"} \/ next' = 1
             \/ (pc' = pc /\ next' = next)
      PROVE  PrefixInv'
  <2>1. Handled' = Handled /\ rq' = rq
    BY <1>k, <1>u
  <2> HIDE DEF rq
  <2> QED
    BY <1>i, <1>k, <1>t, <2>1 DEF PrefixInv, rq
<1>f. ASSUME ~Formed, UNCHANGED <<registry, order, next>>, pc' \notin {"check", "start"}
      PROVE  PrefixInv'
  <2>1. rq' = <<>> /\ Len(<<>>) = 0
    BY <1>f, <1>u, Queues
  <2>2. Len(cfg'.queues) \in Nat
    <3>1. \E S : cfg'.queues \in Seq(S)
      BY Zenon DEF ConfigInv, ConfigRecords
    <3> QED
      BY <3>1
  <2> QED
    BY <1>f, <2>1, <2>2 DEF PrefixInv
<1>1. CASE LoadConfig
  BY <1>1, <1>f DEF LoadConfig, Formed
<1>2. CASE NewRuntime
  BY <1>2, <1>f DEF NewRuntime, New, Formed
<1>3. CASE BuildFromText
  <2> DEFINE x == qs[next].name
  <2>1. /\ pc \in {"check", "start"} /\ Formed /\ next \in 1..Len(qs)
        /\ x \in Names /\ x \in Declared
        /\ UNCHANGED <<cfg, calls>>
        /\ \/ x \in Handled /\ next' = next + 1 /\ UNCHANGED <<pc, registry, order>>
           \/ /\ pc' = (IF pc = "start" THEN "failed" ELSE "idle")
              /\ UNCHANGED <<next, registry, order>>
           \/ /\ x \in Names \ Handled /\ next' = next + 1 /\ pc' = pc
              /\ registry' = [registry EXCEPT ![x] = BuiltEntry]
              /\ order' = Append(order, x)
    BY <1>3, Turns
  <2>2. CASE x \in Handled /\ UNCHANGED <<registry, order>>
    BY <1>u, <2>2 DEF PrefixInv
  <2>3. CASE /\ pc' = (IF pc = "start" THEN "failed" ELSE "idle")
             /\ UNCHANGED <<next, registry, order>>
    BY <1>k, <2>1, <2>3
  <2>4. CASE /\ x \in Names \ Handled /\ next' = next + 1 /\ pc' = pc
             /\ registry' = [registry EXCEPT ![x] = BuiltEntry]
             /\ order' = Append(order, x)
    <3>1. BuiltEntry \in Entries /\ BuiltEntry.tune = NoTune /\ ~BuiltEntry.fromCode
      BY DEF BuiltEntry, Entries, NoTune, Tunings, RegistryInv
    <3>2. Formed' /\ next' \in Nat \ {0} /\ calls' \in Nat
      BY <1>t, <2>1, <2>4 DEF RegistryInv, Formed
    <3>3. \A i \in 1..Len(qs) : qs[i].name = x => i = next
      BY <2>1, BlockNames, Zenon
    <3>a. Range(rq) = Range(order)
      BY Queues
    <3>q. Len(qs) \in Nat /\ cfg'.queues = qs
      BY <2>1, BlockNames
    <3> HIDE DEF x
    <3>4. /\ Handled' = Handled
          /\ rq' = IF x \in Range(order) THEN rq ELSE Append(rq, x)
      BY <2>1, <2>4, <3>1, <3>2, Joins, Zenon
    <3> HIDE DEF rq, qs
    <3> SUFFICES ASSUME Handled = {}
                 PROVE  /\ Len(rq') <= Len(qs) /\ \A i \in 1..Len(rq') : rq'[i] = qs[i].name
                        /\ next' - 1 <= Len(rq')
      BY <3>4, <3>q DEF PrefixInv, rq
    <3>5. /\ Len(rq) <= Len(qs) /\ \A i \in 1..Len(rq) : rq[i] = qs[i].name
          /\ next - 1 <= Len(rq)
      BY <1>i, <2>1
    <3>6. x \in Range(order) <=> next <= Len(rq)
      <4>1. x \in Range(rq) <=> \E i \in 1..Len(rq) : rq[i] = x
        BY <1>t DEF Range
      <4>2. ASSUME NEW i \in 1..Len(rq), rq[i] = x PROVE next <= Len(rq)
        <5>1. i \in 1..Len(qs) /\ qs[i].name = x
          BY <1>t, <3>q, <3>5, <4>2
        <5> QED
          BY <3>3, <5>1
      <4>3. ASSUME next <= Len(rq) PROVE next \in 1..Len(rq) /\ rq[next] = x
        BY <1>t, <3>5, <4>3 DEF x
      <4> QED
        BY <3>a, <4>1, <4>2, <4>3
    <3>7. CASE x \in Range(order)
      BY <1>t, <2>4, <3>4, <3>5, <3>6, <3>7
    <3>8. CASE x \notin Range(order)
      <4>1. next = Len(rq) + 1
        BY <1>t, <3>5, <3>6, <3>8
      <4>2. /\ Len(rq') = Len(rq) + 1 /\ rq'[Len(rq) + 1] = x
            /\ \A i \in 1..Len(rq) : rq'[i] = rq[i]
        BY <1>t, <2>1, <3>4, <3>8, Appended
      <4>3. ASSUME NEW i \in 1..Len(rq') PROVE rq'[i] = qs[i].name
        <5>1. i \in 1..Len(rq) \/ i = Len(rq) + 1
          BY <1>t, <4>2
        <5> QED
          BY <3>5, <4>1, <4>2, <5>1 DEF x
      <4> QED
        BY <1>t, <2>1, <2>4, <3>q, <4>1, <4>2, <4>3
    <3> QED
      BY <3>7, <3>8
  <2> QED
    BY <2>1, <2>2, <2>3, <2>4
<1>4. CASE \E n \in Names, t \in CodeTunes : register(n, t)
  <2>1. PICK n \in Names, t \in CodeTunes : register(n, t)
    BY <1>4
  <2>2. registry' = [registry EXCEPT ![n] = [fromCode |-> TRUE, tune |-> t, by |-> 0]]
    BY <2>1 DEF register
  <2>3. n \in Handled'
    BY <2>2 DEF Handled, RegistryInv
  <2> QED
    BY <2>3 DEF PrefixInv
<1>5. CASE Check \/ CheckDone \/ Start
  BY <1>5, <1>k DEF Check, CheckDone, Start
<1>6. CASE StartResolves \/ LaunchOne \/ LaunchFails \/ StartDone
  BY <1>6, <1>k DEF StartResolves, LaunchOne, LaunchFails, StartDone
<1>7. CASE UNCHANGED setupVars
  BY <1>7, <1>k DEF setupVars, vars
<1> QED
  BY <1>1, <1>2, <1>3, <1>4, <1>5, <1>6, <1>7 DEF SetupNext, Goes

(***************************************************************************)
(* The options of the queues of a file.                                    *)
(***************************************************************************)

(* The blocks of a file, and the queues they have become. *)
LEMMA FileBlocks ==
  ASSUME ConfigInv, Formed, text # Absent
  PROVE  /\ text.keys \subseteq KnownFields /\ text.blocks \in Seq(TextBlocks)
         /\ DOMAIN text.blocks = 1..Len(cfg.queues)
         /\ \A i \in 1..Len(cfg.queues) :
              LET s == text.blocks[i].concurrency IN
              /\ cfg.queues[i].name = text.blocks[i].name
              /\ cfg.queues[i].tune = [NoTune EXCEPT !["concurrency"] = Decode(s, env)]
              /\ expandEnv(s, env) \in Int \cup {Empty} /\ ~s.quoted
              /\ IsSet(s, env) \/ s.default # Absent
<1>1. /\ text \in Texts /\ env \in Envs /\ Parses(text, env)
      /\ cfg.queues = Parsed(text, env).queues
  BY DEF ConfigInv
<1>2. /\ text.blocks \in Seq(TextBlocks) /\ text.rest \in ConfigRecords
  BY <1>1, SetupAssumption
<1>3. text.keys \subseteq KnownFields
  BY <1>1 DEF Parses
<1> DEFINE B(i) == [name |-> text.blocks[i].name,
                    tune |-> [NoTune EXCEPT !["concurrency"] =
                                Decode(text.blocks[i].concurrency, env)],
                    executor |-> text.blocks[i].options.type]
           qs == [i \in DOMAIN text.blocks |-> B(i)]
<1>4. cfg.queues = qs
  <2>1. Parsed(text, env) = [text.rest EXCEPT !.queues = qs]
    BY DEF Parsed
  <2> HIDE DEF qs
  <2>2. "queues" \in DOMAIN text.rest
    BY <1>2, Zenon DEF ConfigRecords
  <2> QED
    BY <1>1, <2>1, <2>2
<1>5. DOMAIN text.blocks = 1..Len(cfg.queues)
  <2>1. DOMAIN cfg.queues = DOMAIN text.blocks
    BY <1>4, Zenon
  <2> QED
    BY <2>1, BlockNames
<1>6. ASSUME NEW i \in DOMAIN text.blocks
      PROVE  LET s == text.blocks[i].concurrency IN
             /\ cfg.queues[i].name = text.blocks[i].name
             /\ cfg.queues[i].tune = [NoTune EXCEPT !["concurrency"] = Decode(s, env)]
             /\ expandEnv(s, env) \in Int \cup {Empty} /\ ~s.quoted
             /\ IsSet(s, env) \/ s.default # Absent
  <2> DEFINE s == text.blocks[i].concurrency
  <2>1. cfg.queues[i] = B(i)
    BY <1>4
  <2>2. expandEnv(s, env) \in Int \cup {Empty}
    BY <1>1, ParsedTyped
  <2>3. ~s.quoted
    BY <1>1 DEF Parses, Decodes
  <2>4. IsSet(s, env) \/ s.default # Absent
    BY <1>1 DEF Parses, missing
  <2> HIDE DEF s
  <2> QED
    BY <2>1, <2>2, <2>3, <2>4 DEF s
<1> QED
  BY <1>2, <1>3, <1>5, <1>6

(* A queue that is built from a file has options that its factory can use. *)
FactoryInv ==
  text # Absent =>
    \A i \in DOMAIN text.blocks :
      text.blocks[i].name \in Range(order) \ Handled => factory(text.blocks[i].options)

(* No step puts a queue of a file in place that its factory refuses. *)
LEMMA FactoryStep ==
  ASSUME ConfigInv, RegistryInv, RegistryInv', FactoryInv, [SetupNext]_setupVars
  PROVE  FactoryInv'
<1>k. ASSUME UNCHANGED <<text, registry, order>> PROVE FactoryInv'
  BY <1>k DEF FactoryInv, Handled
<1>f. ASSUME ~Formed, order' = order PROVE FactoryInv'
  <2>1. Range(order') = {}
    BY <1>f DEF RegistryInv, Range
  <2> QED
    BY <2>1 DEF FactoryInv
<1>1. CASE LoadConfig
  BY <1>1, <1>f DEF LoadConfig, Formed
<1>2. CASE NewRuntime
  BY <1>2, <1>f DEF NewRuntime, New, Formed
<1>3. CASE BuildFromText
  <2> DEFINE x == cfg.queues[next].name
  <2>1. /\ pc \in {"check", "start"} /\ Formed /\ next \in 1..Len(cfg.queues)
        /\ x \in Names /\ x \in Declared /\ UNCHANGED <<cfg, calls, text>>
        /\ \/ UNCHANGED <<registry, order>>
           \/ /\ x \in Names \ Handled /\ next' = next + 1 /\ pc' = pc
              /\ registry' = [registry EXCEPT ![x] = BuiltEntry]
              /\ order' = Append(order, x)
              /\ text # Absent => factory(text.blocks[next].options)
    BY <1>3, Turns
  <2>2. CASE /\ x \in Names \ Handled /\ next' = next + 1 /\ pc' = pc
             /\ registry' = [registry EXCEPT ![x] = BuiltEntry]
             /\ order' = Append(order, x)
             /\ text # Absent => factory(text.blocks[next].options)
    <3>1. BuiltEntry \in Entries /\ BuiltEntry.tune = NoTune /\ ~BuiltEntry.fromCode
      BY DEF BuiltEntry, Entries, NoTune, Tunings, RegistryInv
    <3>2. Formed' /\ next' \in Nat \ {0} /\ calls' \in Nat
      BY <2>1, <2>2, Zenon DEF RegistryInv, Formed
    <3>3. Range(order') = Range(order) \cup {x} /\ Handled' = Handled
      <4> HIDE DEF x
      <4> QED
        BY <2>1, <2>2, <3>1, <3>2, Joins, Zenon
    <3> SUFFICES ASSUME text # Absent, NEW i \in DOMAIN text.blocks,
                        text.blocks[i].name \in Range(order') \ Handled'
                 PROVE  factory(text.blocks[i].options)
      BY <2>1, Zenon DEF FactoryInv
    <3>4. i \in 1..Len(cfg.queues) /\ cfg.queues[i].name = text.blocks[i].name
      BY <2>1, FileBlocks, Zenon
    <3>5. CASE text.blocks[i].name = x
      <4>1. i = next
        BY <2>1, <3>4, <3>5, BlockNames, Zenon
      <4> QED
        BY <2>2, <4>1
    <3>6. CASE text.blocks[i].name # x
      BY <3>3, <3>6, Zenon DEF FactoryInv
    <3> QED
      BY <3>5, <3>6
  <2> QED
    BY <1>k, <2>1, <2>2
<1>4. CASE /\ \E n \in Names, t \in CodeTunes : register(n, t)
           /\ UNCHANGED text
  <2>1. PICK n \in Names, t \in CodeTunes : register(n, t)
    BY <1>4
  <2> DEFINE e == [fromCode |-> TRUE, tune |-> t, by |-> 0]
  <2>2. /\ registry' = [registry EXCEPT ![n] = e] /\ order' = Append(order, n)
        /\ n \notin Range(order) /\ cfg' = cfg /\ Formed' /\ UNCHANGED <<next, calls>>
    BY <2>1 DEF register, Formed
  <2>3. n \in Names \ Handled
    BY <2>2, Zenon DEF RegistryInv
  <2>4. e \in Entries /\ e.fromCode
    BY RegistrationAssumption, Zenon DEF Entries
  <2> HIDE DEF e
  <2>5. Range(order') = Range(order) \cup {n} /\ Handled' = Handled \cup {n}
    BY <2>2, <2>3, <2>4, Joins, Zenon DEF RegistryInv
  <2> QED
    BY <1>4, <2>5 DEF FactoryInv
<1>5. CASE (Check \/ CheckDone \/ Start) /\ UNCHANGED text
  BY <1>5, <1>k DEF Check, CheckDone, Start
<1>6. CASE (StartResolves \/ LaunchOne \/ LaunchFails \/ StartDone) /\ UNCHANGED text
  BY <1>6, <1>k DEF StartResolves, LaunchOne, LaunchFails, StartDone
<1>7. CASE UNCHANGED setupVars
  BY <1>7, <1>k DEF setupVars, vars
<1> QED
  BY <1>1, <1>2, <1>3, <1>4, <1>5, <1>6, <1>7 DEF SetupNext, Goes

============================================================================
