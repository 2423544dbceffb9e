---------------------------- MODULE MCFetchCore ----------------------------
(* Instances of FetchCore.tla for TLC: two fetches to one host and one     *)
(* each to two others, so that a cap of one per host and a cap of two in   *)
(* all both bite.                                                          *)
EXTENDS FetchCore

CONSTANTS a1, a2, b1, c1

MCHostOf == [f \in Fetches |-> CASE f = b1 -> "b" [] f = c1 -> "c" [] OTHER -> "a"]
=============================================================================
