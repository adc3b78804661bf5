----------------------------- MODULE MCDispatch -----------------------------
(***************************************************************************)
(* Small instances of module Dispatch for TLC; the values of Attempt's     *)
(* constants are those of MCAttempt.                                       *)
(***************************************************************************)
EXTENDS Dispatch, MCAttempt

Addr(f, r) == [form |-> f, range |-> r, low |-> r]

\* A public host, also behind a translator; one that is not public, in forms
\* that the guard sees through; one whose name changes between the two; and
\* one with addresses that the guard cannot judge.
MCHosts == {
  [always |-> TRUE, lists |-> {<<Addr("v4", "global")>>, <<Addr("nat64", "global")>>}],
  [always |-> FALSE, lists |-> {<<Addr("mapped", "loopback")>>, <<Addr("compatible", "private")>>}],
  [always |-> FALSE, lists |-> {<<Addr("v4", "global")>>, <<Addr("nat64", "private")>>,
                                <<Addr("v6", "private"), Addr("v4", "global")>>}],
  [always |-> FALSE, lists |-> {<<Addr("v6", "sitelocal")>>,
                                <<[form |-> "localNat64", range |-> "global", low |-> "this"]>>}] }

Header(n, s, b) == [name |-> n, as |-> s, by |-> b]

\* Headers of mkqd's own in both spellings and one that both set, without and
\* with an idempotency key.
MCHeaderSets == {
  [base |-> {Header("X-Note", "canonical", "config")},
   over |-> {Header("X-Note", "canonical", "payload"),
             Header("X-Mkqd-Signature", "other", "payload")},
   name |-> "odd"],
  [base |-> {Header("X-Note", "other", "config"), Header("X-Mkqd-Attempt", "other", "config"),
             Header("X-Idempotency-Key", "other", "config")},
   over |-> {Header("X-Note", "canonical", "payload"),
             Header("Idempotency-Key", "canonical", "payload")},
   name |-> "plain"] }

MCSecrets == {[base |-> FALSE, over |-> FALSE], [base |-> FALSE, over |-> TRUE]}

============================================================================
