----------------------------- MODULE MCSigning -----------------------------
(***************************************************************************)
(* Small instances of module Signing for TLC: payloads with each kind of   *)
(* key id, host, content type and header that the code treats differently. *)
(***************************************************************************)
EXTENDS Signing

CONSTANTS l1, l2

Plain == [id |-> <<"a">>, host |-> "ascii", contentType |-> "activity+json", headers |-> {}]

MCJobs == {
  [Plain EXCEPT !.headers = {"date", "digest", "content-type", "x-note"},
                !.id = <<COMMA, EQUALS, SPACE>>],
  [Plain EXCEPT !.id = <<"a", QUOTE, COMMA>>],
  [Plain EXCEPT !.id = <<>>],
  [Plain EXCEPT !.host = "idn"],
  [Plain EXCEPT !.contentType = " padded "] }

============================================================================
