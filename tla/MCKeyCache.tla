----------------------------- MODULE MCKeyCache -----------------------------
(* Small instances of module KeyCache for TLC. *)
EXTENDS KeyCache, TLC

CONSTANTS l1, l2

\* The loads are interchangeable.
LoaderSymmetry == Permutations(Loaders)

============================================================================
