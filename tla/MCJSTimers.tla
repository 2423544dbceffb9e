----------------------------- MODULE MCJSTimers -----------------------------
(* JSTimers.tla for TLC: two slots, so that the arena fills, and the heaps *)
(* of two windows.                                                         *)
EXTENDS JSTimers
=============================================================================
