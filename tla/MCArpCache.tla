----------------------------- MODULE MCArpCache -----------------------------
(* Values of the constants of ArpCache for TLC.                            *)
EXTENDS ArpCache, TLC

CONSTANTS p1, p2, p3, x, y

\* Two packets to one address, or to two.
SameDst == p1 :> x @@ p2 :> x
TwoDst == p1 :> x @@ p2 :> y
TwoTtl == p1 :> 2 @@ p2 :> 2

\* A third to another.
ThreeDst == p1 :> x @@ p2 :> x @@ p3 :> y
ThreeTtl == p1 :> 2 @@ p2 :> 255 @@ p3 :> 2

Symmetric == Permutations(ReqIds)
=============================================================================
