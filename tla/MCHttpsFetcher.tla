--------------------------- MODULE MCHttpsFetcher ---------------------------
(* Instances of HttpsFetcher.tla for TLC.                                  *)
EXTENDS HttpsFetcher, TLC

CONSTANTS a1, a2, e1, e2

PairFetches == {a1, a2}
PairHostOf == [f \in PairFetches |-> "a"]
SameUrlOf == [f \in PairFetches |-> "a/page"]

Sized(n) == [framing |-> "length", len |-> n, close |-> FALSE, marked |-> FALSE]
Chunked(n, marked) == [framing |-> "chunked", len |-> n, close |-> FALSE, marked |-> marked]
Plain(n) == [framing |-> "plain", len |-> n, close |-> TRUE, marked |-> FALSE]
Moved == [framing |-> "redirect", len |-> 0, close |-> FALSE, marked |-> FALSE]

SafetyShapes == {Sized(2), Chunked(0, FALSE), Moved}
SmallShapes == {Sized(0), Sized(1)}
ChunkShape == {Chunked(2, TRUE)}

ConnSymmetry == Permutations(Conns)
=============================================================================
