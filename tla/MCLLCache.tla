----------------------------- MODULE MCLLCache -----------------------------
(* LLCache.tla for TLC: two handles and two objects of one URL.           *)
EXTENDS LLCache

CONSTANTS h1, h2, page

HandleSymmetry == Permutations(Handles)
=============================================================================
