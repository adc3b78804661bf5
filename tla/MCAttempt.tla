----------------------------- MODULE MCAttempt -----------------------------
(***************************************************************************)
(* Small instances of module Attempt for TLC: a second is 4 units of a     *)
(* 6-bit duration and the cap is 3 seconds, so that delta-seconds around   *)
(* the cap, around the largest that fits and beyond the width all occur.   *)
(***************************************************************************)
EXTENDS Attempt

\* Each row of the README's tables, and statuses between its rows.
AllStatuses == {204, 302, 400, 401, 404, 408, 410, 429, 503}

FewStatuses == {200, 404, 410, 503}

Hint(f, n) == [form |-> f, n |-> n]

\* Around zero, the cap (3), the width of a product (7, 8, 16), and beyond.
AllHints == {Hint("none", 0), Hint("junk", 0)} \cup
            {Hint("seconds", n) : n \in {-1, 0, 3, 4, 7, 8, 16, 17, 40}} \cup
            {Hint("date", n) : n \in {-20, 0, 1, 4, 20}}

FewHints == {Hint("none", 0), Hint("seconds", 2)}

============================================================================
