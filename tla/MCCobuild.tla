----------------------------- MODULE MCCobuild -----------------------------
(* Model-checking instance of Cobuild: the initiator and two co-builders.  *)
EXTENDS Cobuild, TLC

CONSTANTS i, p, q

MCAddrs == {i, p, q}

\* p and q play the same part: no definition names either.
MCSymmetry == Permutations({p, q})

\* Bound on the search: at most one transfer offer is outstanding.
OfferBound == Cardinality({k \in DOMAIN offers : offers[k] # 0}) <= 1
=============================================================================
