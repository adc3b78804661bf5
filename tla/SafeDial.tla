------------------------------ MODULE SafeDial ------------------------------
(***************************************************************************)
(* The address guard (internal/safedial/safedial.go) and the client that   *)
(* dials with it (internal/httpsend/httpsend.go: NewClient).               *)
(*                                                                         *)
(* An address is [form, range, low]: an IPv4 or IPv6 address in a named    *)
(* range, or an IPv6 form that carries an IPv4 address of that range. The  *)
(* range is that of the host a packet arrives at; low is the range that    *)
(* the last 32 bits name when they are read as an IPv4 address. The        *)
(* unspecified and the loopback address of IPv6 are of the compatible      *)
(* form, in range "this".                                                  *)
(***************************************************************************)
EXTENDS Naturals, Sequences

V4Ranges == {"global", "this", "private", "loopback", "linklocal", "multicast", "cgnat",
             "protocol", "relay", "documentation", "benchmark", "reserved"}
V6Ranges == {"global", "private", "linklocal", "multicast", "discard", "teredo",
             "orchid", "documentation", "6to4",
             "sitelocal", "benchmark", "documentation2", "segment"}
Embedding == {"nat64", "localNat64", "compatible"}

(* The low 32 bits are the address inside, but for a local NAT64 prefix    *)
(* shorter than 96 bits, which puts it further up (RFC 6052).              *)
Addrs ==
  {a \in [form : {"v4", "mapped"} \cup Embedding, range : V4Ranges, low : V4Ranges] :
     a.low = a.range \/ a.form = "localNat64"}
  \cup {[form |-> "v6", range |-> r, low |-> r] : r \in V6Ranges}

(* The ranges of IPv6 that are not public and that no test of the code     *)
(* names: fec0::/10, 2001:2::/48, 3fff::/20 and 5f00::/16.                 *)
Unlisted == {"sitelocal", "benchmark", "documentation2", "segment"}

(* The code has what it takes to tell the range of an address. *)
Recognised(a) == a.low = a.range /\ (a.form = "v6" => a.range \notin Unlisted)

(* What netip.Addr tells by itself, and what it does not. *)
Predicates == {"this", "private", "loopback", "linklocal", "multicast"}
blockedPrefixes ==
  [v4 |-> {"this", "cgnat", "protocol", "relay", "documentation", "benchmark", "reserved"},
   v6 |-> {"discard", "teredo", "orchid", "documentation", "6to4"}]

Unmap(a) == IF a.form = "mapped" THEN [a EXCEPT !.form = "v4"] ELSE a

(* IsPublic of an address that carries no other. *)
IsPublicPlain(a) == a.range \notin Predicates \cup blockedPrefixes[a.form]

(* An IsPublic that judges every IPv6 address by its own range. *)
IsPublicOutside(ip) ==
  LET a == Unmap(ip) IN
  IF a.form \in Embedding THEN TRUE ELSE IsPublicPlain(a)

(* An IsPublic that has no use for addresses with another inside. *)
IsPublicStrict(ip) ==
  LET a == Unmap(ip) IN
  IF a.form \in Embedding THEN FALSE ELSE IsPublicPlain(a)

(* The address inside counts, where there is one; it is read out of the    *)
(* low 32 bits.                                                            *)
IsPublic(ip) ==
  LET a == Unmap(ip) IN
  IsPublicPlain(IF a.form \in Embedding THEN [a EXCEPT !.form = "v4", !.range = a.low] ELSE a)

(* The dialer's Control, set unless private networks are allowed. *)
CheckAddr(guard, ip) == guard => IsPublic(ip)

(* NewClient: the proxy of the environment only without the guard. *)
UsesProxy(guard) == ~guard

(* net.Dialer (external): connects to an address that passes Control; if   *)
(* it reaches none, the error is the one of the first address, or of the   *)
(* deadline.                                                               *)
Connects(guard, addrs) ==
  {addrs[i] : i \in {j \in DOMAIN addrs : CheckAddr(guard, addrs[j])}}
DialErrors(guard, addrs) ==
  {"failed"} \cup (IF CheckAddr(guard, addrs[1]) THEN {} ELSE {"blocked"})

============================================================================
