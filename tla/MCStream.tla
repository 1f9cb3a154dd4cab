------------------------------ MODULE MCStream ------------------------------
EXTENDS Stream, TLC

CONSTANTS e1, e2, e3, s1, s2, t1, t2

(* Two events of the source one dashboard watches, one of another source.  *)
Sources == e1 :> s1 @@ e2 :> s1 @@ e3 :> s2
Filters == t1 :> s1 @@ t2 :> AnySource

SameSource == Permutations({e1, e2})
=============================================================================
