----------------------------- MODULE MCInspect -----------------------------
(* Module Inspect for TLC, with the constants of MCAdmin. *)
EXTENDS Inspect, MCAdmin

============================================================================
