------------------------------- MODULE Setup -------------------------------
(***************************************************************************)
(* Module Registration with its configuration as a file: LoadConfig        *)
(* expands references to the environment and decodes the result            *)
(* (config.go), and the executors' factories read their own options when   *)
(* Check or Start builds them (executor.go, executor/httpexec,             *)
(* executor/apdeliver). An application may also give New a Config.         *)
(*                                                                         *)
(* A file is [keys, rest, blocks]: its top-level keys, what it says beside *)
(* queues, and a block per queue, [name, concurrency, options]. The        *)
(* concurrency stands for the scalars of the file, the options for what    *)
(* the factory of their type looks at.                                     *)
(***************************************************************************)
EXTENDS Registration

CONSTANTS
  Texts,   \* files
  Envs,    \* environments: the value of each variable
  Empty,   \* the empty string
  Words,   \* a string that is no number
  Absent   \* no value: of a variable, a default, or a file

(* What a string decodes to: a number, nothing, or neither. *)
Values == Int \cup {Empty, Words}

Vars == UNION {DOMAIN e : e \in Envs}

TextBlocks ==
  [name : Names \cup {""},
   concurrency : [var : Vars \cup {Absent}, default : Values \cup {Absent}, quoted : BOOLEAN],
   options : [type : STRING, typo : BOOLEAN, url : BOOLEAN, headers : BOOLEAN,
              signer : [type : STRING, complete : BOOLEAN]]]

ASSUME SetupAssumption ==
  /\ {Empty, Words, Absent} \cap (Int \cup {Unset}) = {}
  /\ Empty # Words /\ Empty # Absent /\ Words # Absent
  /\ Absent \notin Texts /\ Absent \notin Vars
  /\ Envs \subseteq [Vars -> Values \cup {Absent}]
  /\ Texts \subseteq [keys : SUBSET STRING, rest : ConfigRecords, blocks : Seq(TextBlocks)]

VARIABLES
  text,    \* the file, Absent for a Config from code or once it is refused
  env,     \* the environment
  loaded   \* whether LoadConfig has returned

setupVars == <<vars, text, env, loaded>>

----------------------------------------------------------------------------
(***************************************************************************)
(* ParseConfig. A scalar is [var, default, quoted]: a reference ${var} or  *)
(* ${var:-default}, or, without var, the literal default.                  *)
(***************************************************************************)

IsSet(s, e) == s.var # Absent /\ e[s.var] # Absent

(* Expansion in which a default also replaces a value that is empty. *)
expandEnvNonEmpty(s, e) ==
  IF IsSet(s, e) /\ e[s.var] # Empty THEN e[s.var]
  ELSE IF s.default = Absent THEN Empty ELSE s.default

(* expandEnvNode on a scalar: the default stands in for a variable that is *)
(* not set, not for one that is set and empty.                             *)
expandEnv(s, e) ==
  IF IsSet(s, e) THEN e[s.var]
  ELSE IF s.default = Absent THEN Empty ELSE s.default

missing(t, e) ==
  {t.blocks[i].concurrency.var : i \in
     {k \in DOMAIN t.blocks : ~IsSet(t.blocks[k].concurrency, e)
                              /\ t.blocks[k].concurrency.default = Absent}}

(* Decoding into an *int: the type of a plain scalar is that of its        *)
(* expanded value, and an empty one is null; a quoted one is a string.     *)
Decodes(s, e) == ~s.quoted /\ expandEnv(s, e) # Words
Decode(s, e) == IF expandEnv(s, e) = Empty THEN Unset ELSE expandEnv(s, e)

KnownFields == {"redis", "queues", "defaults", "server", "log", "key_prefix", "shutdown_timeout"}

(* Unknown keys are refused, except in an executor's block, which          *)
(* UnmarshalYAML keeps for the factory.                                    *)
Parses(t, e) ==
  /\ missing(t, e) = {}
  /\ t.keys \subseteq KnownFields
  /\ \A i \in DOMAIN t.blocks : Decodes(t.blocks[i].concurrency, e)

Parsed(t, e) ==
  [t.rest EXCEPT !.queues = [i \in DOMAIN t.blocks |->
     [name |-> t.blocks[i].name,
      tune |-> [NoTune EXCEPT !["concurrency"] = Decode(t.blocks[i].concurrency, e)],
      executor |-> t.blocks[i].options.type]]]

----------------------------------------------------------------------------
(***************************************************************************)
(* The factories. Options are [type, typo, url, headers, signer]: the last *)
(* four say whether there is a key that the type does not know, and        *)
(* whether what there is can be used; signer is "" or another type that is *)
(* not known, or a type with or without what it needs.                     *)
(***************************************************************************)

SignerTypes == {"file", "dir", "remote"}

BuildSigner(s) == s.type \in SignerTypes /\ s.complete

(* Every key but the type's own must be one of the option structure. *)
DecodeStrict(o) == ~o.typo

newHTTPExecutor(o) == DecodeStrict(o) /\ o.url /\ o.headers
newWebhookExecutor(o) == DecodeStrict(o) /\ o.headers
newDeliverExecutor(o) == DecodeStrict(o) /\ BuildSigner(o.signer)

(* Whether the factory of the type yields an executor; "log" takes any     *)
(* options.                                                                *)
factory(o) ==
  \/ o.type = "log"
  \/ o.type = "http" /\ newHTTPExecutor(o)
  \/ o.type = "webhook" /\ newWebhookExecutor(o)
  \/ o.type = "activitypub_deliver" /\ newDeliverExecutor(o)

----------------------------------------------------------------------------
(***************************************************************************)
(* The Runtime.                                                            *)
(***************************************************************************)

(* A Config from code knows of no environment. *)
SetupInit ==
  /\ Init /\ env \in Envs /\ loaded = FALSE
  /\ text \in Texts \cup {Absent}
  /\ IF text = Absent THEN env = CHOOSE e \in Envs : TRUE ELSE cfg = text.rest

(* LoadConfig: defaults and validation are part of ParseConfig. *)
LoadConfig ==
  LET c == applyDefaults(Parsed(text, env)) IN
  /\ pc = "new" /\ text # Absent /\ ~loaded
  /\ loaded' = TRUE
  /\ IF Parses(text, env) /\ Validate(c)
     THEN cfg' = c /\ UNCHANGED <<pc, text>>
     ELSE pc' = "refused" /\ text' = Absent /\ UNCHANGED cfg
  /\ UNCHANGED <<next, registry, order, started, todo, workers, warned, calls,
                 startCall, predicted, env>>

(* NewFromFile goes on to New, which applies defaults and validates again. *)
NewRuntime ==
  /\ text = Absent \/ loaded
  /\ New /\ UNCHANGED <<text, env, loaded>>

(* A turn of buildConfiguredQueues that calls a factory gets an executor   *)
(* only for options the factory can use.                                   *)
BuildFromText ==
  /\ BuildOne
  /\ text # Absent /\ order' # order => factory(text.blocks[next].options)
  /\ UNCHANGED <<text, env, loaded>>

Goes ==
  /\ \/ \E n \in Names, t \in CodeTunes : register(n, t)
     \/ Check \/ CheckDone
     \/ Start \/ StartResolves \/ LaunchOne \/ LaunchFails \/ StartDone
  /\ UNCHANGED <<text, env, loaded>>

SetupNext == LoadConfig \/ NewRuntime \/ BuildFromText \/ Goes

SetupSpec == SetupInit /\ [][SetupNext]_setupVars

----------------------------------------------------------------------------
(***************************************************************************)
(* Properties.                                                             *)
(***************************************************************************)

(* A process that serves has understood its file: each variable that a     *)
(* worker's setting refers to has a value or a default, and the worker     *)
(* runs with that value, with the default only if the variable is not set, *)
(* and with the next layer of tuning if the value is empty; a quoted       *)
(* number, a word and an unknown key never get that far, and an executor's *)
(* options only for "log", or when code has claimed the queue              *)
(* (ParseConfig, expandEnvNode, DecodeStrict).                             *)
FileUnderstood ==
  Serving /\ text # Absent =>
    /\ text.keys \subseteq KnownFields
    /\ \A i \in DOMAIN text.blocks, w \in Range(workers) :
         LET block == text.blocks[i]
             s == block.concurrency
             value == IF s.var # Absent /\ env[s.var] # Absent THEN env[s.var] ELSE s.default
             inCode == registry[block.name].tune["concurrency"] IN
         w.queue = block.name =>
           /\ value \notin {Absent, Words} /\ ~s.quoted
           /\ w.tune["concurrency"] = IF value # Empty THEN value
                                      ELSE IF inCode # Unset THEN inCode
                                      ELSE cfg.defaults["concurrency"]
           /\ block.options.typo => block.options.type = "log" \/ block.name \in Handled

============================================================================
