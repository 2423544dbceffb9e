--------------------------- MODULE MCHttpFetcher ---------------------------
(* Instances of HttpFetcher.tla for TLC: two fetches of one page, so that  *)
(* the second can be served from the first one's connection or its cached  *)
(* body; two endpoints, a pool of one.                                     *)
EXTENDS HttpFetcher, TLC

CONSTANTS a1, a2, e1, e2

PairFetches == {a1, a2}
PairHostOf == [f \in PairFetches |-> "a"]
SameUrlOf == [f \in PairFetches |-> "a/page"]

Sized(n) == [framing |-> "length", len |-> n, close |-> FALSE]
Chunked(n) == [framing |-> "chunked", len |-> n, close |-> FALSE]
Plain(n) == [framing |-> "plain", len |-> n, close |-> TRUE]
Moved == [framing |-> "redirect", len |-> 0, close |-> FALSE]

FaultShapes == {Sized(1), Plain(1), Moved}
FramedShapes == {Sized(2), Chunked(1)}

EndpointSymmetry == Permutations(Endpoints)
=============================================================================
