---------------------------- MODULE MCArpTiming -----------------------------
(* Values of the constants of ArpTiming for TLC.                           *)
EXTENDS ArpTiming, TLC

CONSTANTS p1, p2, p3, p4, p5, x, y, z

\* Two packets to one address and one to another, one without a route, and one whose
\* time to live is up.
MixedDst == p1 :> x @@ p2 :> x @@ p3 :> y @@ p4 :> z @@ p5 :> x
MixedTtl == p1 :> 2 @@ p2 :> 255 @@ p3 :> 2 @@ p4 :> 2 @@ p5 :> 1

Symmetric == Permutations(ReqIds)
=============================================================================
