------------------------------ MODULE MCSetup ------------------------------
(* Module Setup for TLC, with the constants of MCRegistration. *)
EXTENDS Setup, MCRegistration

Literal(n) == [var |-> Absent, default |-> n, quoted |-> FALSE]
Ref(d) == [var |-> "N", default |-> d, quoted |-> FALSE]
Quoted(s) == [s EXCEPT !.quoted = TRUE]

\* An environment that does not set the variable, and ones that set it to a
\* number, to nothing and to a word.
MCEnvs == {[v \in {"N"} |-> x] : x \in {Absent, 3, Empty, Words}}

Sound(t) == [type |-> t, typo |-> FALSE, url |-> TRUE, headers |-> TRUE,
             signer |-> [type |-> "dir", complete |-> TRUE]]

\* The options of each type, and what may be wrong with them.
MCOptions ==
  {Sound(t) : t \in {"log", "http", "webhook", "activitypub_deliver", "none"}}
  \cup {[Sound(t) EXCEPT !.typo = TRUE] : t \in {"log", "http", "webhook", "activitypub_deliver"}}
  \cup {[Sound("http") EXCEPT !.url = FALSE], [Sound("webhook") EXCEPT !.headers = FALSE],
        [Sound("activitypub_deliver") EXCEPT !.signer = [type |-> "", complete |-> TRUE]],
        [Sound("activitypub_deliver") EXCEPT !.signer = [type |-> "file", complete |-> FALSE]]}

Block(n, s, o) == [name |-> n, concurrency |-> s, options |-> o]

Scalars == {Literal(1), Literal(Empty), Ref(Absent), Ref(2), Quoted(Ref(2))}

File(bs) == [keys |-> {"redis", "queues"}, rest |-> Base, blocks |-> bs]

MCTexts ==
  {File(<<Block(a, s, Sound("http"))>>) : s \in Scalars}
  \cup {File(<<Block(a, Ref(2), o)>>) : o \in MCOptions}
  \cup {File(<<Block(a, Ref(2), Sound("log")), Block(b, Ref(Absent), Sound("webhook"))>>),
        [File(<<Block(a, Literal(1), Sound("log"))>>) EXCEPT !.keys = @ \cup {"queue"}]}

============================================================================
