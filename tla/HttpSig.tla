------------------------------ MODULE HttpSig ------------------------------
(***************************************************************************)
(* HTTP Signatures as httpsig/httpsig.go makes, writes, reads and checks   *)
(* them. Hashes and RSA are ideal: a digest stands for one body, and only  *)
(* the holder of a key makes a signature that the key verifies.            *)
(*                                                                         *)
(* A request is [target, host, header, body], its header a function of     *)
(* lower-case names ("" is a header that is not set). A text is a sequence *)
(* of tokens: single characters, and words without separators in them.     *)
(***************************************************************************)
EXTENDS Integers, Sequences, Functions

CONSTANT keyIDLimit   \* 512 in the code

ASSUME HttpSigAssumption == keyIDLimit \in Nat

QUOTE == "quote"
CONTROL == "control"
BACKSLASH == "backslash"
COMMA == ","
EQUALS == "="
SPACE == " "

DefaultHeaders == <<"(request-target)", "host", "date", "digest", "content-type">>
RequiredHeaders == {"(request-target)", "host", "date", "digest"}

(* Bodies that differ have digests that differ. *)
Digest(b) == [activity |-> "SHA-256=activity", recoded |-> "SHA-256=recoded"][b]

----------------------------------------------------------------------------
(***************************************************************************)
(* Signing.                                                                *)
(***************************************************************************)

HeaderGet(req, name) == IF name \in DOMAIN req.header THEN req.header[name] ELSE ""

(* A covered header that is not set cannot be signed; a host can. *)
Signable(req, headers) ==
  /\ headers # <<>>
  /\ \A i \in DOMAIN headers :
       headers[i] \in {"(request-target)", "host"} \/ HeaderGet(req, headers[i]) # ""

(* The line of a covered header; Host and target are not in the header. *)
SigningLine(req, name) ==
  <<name, CASE name = "(request-target)" -> req.target
            [] name = "host" -> req.host
            [] OTHER -> HeaderGet(req, name)>>

SigningString(req, headers) == [i \in DOMAIN headers |-> SigningLine(req, headers[i])]

(* What SignRequest does before it asks the signer. *)
Dress(req, now) ==
  [req EXCEPT !.header["date"] = IF @ = "" THEN now ELSE @,
              !.header["digest"] = Digest(req.body)]

(* What may stand between the quotes of the Signature header. *)
validateKeyID(id) ==
  /\ id # <<>> /\ Len(id) <= keyIDLimit
  /\ Range(id) \cap {CONTROL, QUOTE, BACKSLASH} = {}

(* The Signature header, for a key id and the covered headers. *)
Quoted(name, value) == <<name, EQUALS, QUOTE>> \o value \o <<QUOTE>>

SpaceJoin(words) ==
  [i \in 1..(2 * Len(words) - 1) |-> IF i % 2 = 1 THEN words[(i + 1) \div 2] ELSE SPACE]

FormatSignature(id, headers) ==
  Quoted("keyId", id) \o <<COMMA>> \o Quoted("algorithm", <<"rsa-sha256">>) \o <<COMMA>>
    \o Quoted("headers", SpaceJoin(headers)) \o <<COMMA>> \o Quoted("signature", <<"sig">>)

Sign(k, string) == [key |-> k, string |-> string]

----------------------------------------------------------------------------
(***************************************************************************)
(* Verifying.                                                              *)
(***************************************************************************)

(* A character, and the pass over v: the parts before, the one it is in, *)
(* and whether inside quotes.                                            *)
splitStep(acc, c) ==
  IF c = COMMA /\ ~acc.inQuotes
  THEN [parts |-> Append(acc.parts, acc.cur), cur |-> <<>>, inQuotes |-> FALSE]
  ELSE [parts |-> acc.parts, cur |-> Append(acc.cur, c),
        inQuotes |-> IF c = QUOTE THEN ~acc.inQuotes ELSE acc.inQuotes]

Scan(v, acc) ==
  LET at[i \in 0..Len(v)] == IF i = 0 THEN acc ELSE splitStep(at[i - 1], v[i])
  IN at[Len(v)]

(* A split at the commas outside quotes; an empty last part is no part. *)
splitParams(v) ==
  LET end == Scan(v, [parts |-> <<>>, cur |-> <<>>, inQuotes |-> FALSE])
  IN IF end.cur = <<>> THEN end.parts ELSE Append(end.parts, end.cur)

(* strings.Trim, strings.Cut and strings.Fields. *)
Trim(s, cutset) ==
  LET keep == {i \in DOMAIN s : s[i] \notin cutset} IN
  IF keep = {} THEN <<>>
  ELSE SubSeq(s, CHOOSE i \in keep : \A j \in keep : i <= j,
                 CHOOSE i \in keep : \A j \in keep : i >= j)

Cut(part) ==
  LET i == CHOOSE i \in DOMAIN part : /\ part[i] = EQUALS
                                      /\ \A j \in 1..(i - 1) : part[j] # EQUALS
  IN [name |-> Trim(SubSeq(part, 1, i - 1), {SPACE}),
      value |-> Trim(Trim(SubSeq(part, i + 1, Len(part)), {SPACE}), {QUOTE})]

Fields(text) ==
  LET at[i \in 0..Len(text)] == IF i = 0 THEN <<>>
                                ELSE IF text[i] = SPACE THEN at[i - 1]
                                ELSE Append(at[i - 1], text[i])
  IN at[Len(text)]

(* Parts without "=" are skipped; the last of several values stands. *)
ValueOf(parts, name) ==
  LET at == {i \in DOMAIN parts : EQUALS \in Range(parts[i]) /\ Cut(parts[i]).name = <<name>>}
  IN IF at = {} THEN <<>> ELSE Cut(parts[CHOOSE i \in at : \A j \in at : i >= j]).value

ParseSignatureHeader(v) ==
  LET parts == splitParams(v)
      fields == Fields(ValueOf(parts, "headers"))
  IN [ok |-> ValueOf(parts, "keyId") # <<>> /\ ValueOf(parts, "signature") # <<>>,
      keyID |-> ValueOf(parts, "keyId"),
      headers |-> IF fields = <<>> THEN <<"date">> ELSE fields,
      signature |-> ValueOf(parts, "signature")]

requireCoverage(headers) == RequiredHeaders \subseteq Range(headers)

(* A check of the signature alone. *)
VerifyNoDigest(req, text, sig, pub) ==
  LET parsed == ParseSignatureHeader(text) IN
  /\ parsed.ok /\ requireCoverage(parsed.headers)
  /\ Signable(req, parsed.headers)
  /\ parsed.signature = <<"sig">>
  /\ sig = Sign(pub, SigningString(req, parsed.headers))

(* The signature covers enough, the digest is the body's, and the key made *)
(* the signature over the request as it came.                              *)
Verify(req, text, sig, pub) ==
  LET parsed == ParseSignatureHeader(text) IN
  /\ parsed.ok /\ requireCoverage(parsed.headers)
  /\ HeaderGet(req, "digest") = Digest(req.body)
  /\ Signable(req, parsed.headers)
  /\ parsed.signature = <<"sig">>
  /\ sig = Sign(pub, SigningString(req, parsed.headers))

============================================================================
