-------------------------- MODULE MCAtp60Redemption --------------------------
(* Model-checking instance of Atp60Redemption: the seller and one holder,  *)
(* one SKU, one redemption id (so two redemption slots, one per holder),   *)
(* one acceptance whose acceptor and period the seller may rewrite.        *)
EXTENDS Atp60Redemption, TLC

CONSTANTS s1, h1, tA, a1, r1

MCHolders == {Seller, h1}

\* Bound on the search: allowances and authorization marks, which the
\* redemption handlers never read, are explored in MCAtp60Token, as are
\* authorizer lists; here the token side keeps issuing, transferring and
\* destroying.  Evidence records are opaque to every guard but their own,
\* so one is enough.
RedemptionBound ==
    /\ \A k \in DOMAIN alw : alw[k] = None
    /\ \A k \in DOMAIN authMark : authMark[k] = None
    /\ \A s \in Skus : skuInfo[s] # None => skuInfo[s].authorizers = {}
    /\ Cardinality(evi) <= 1

\* The lifecycle run follows the holder's redemption alone: the seller's
\* slot, which shares the holder's tokens, is explored by the escrow run.
\* With two periods and a three-block window this keeps the fair check
\* within minutes.
LifecycleBound ==
    /\ RedemptionBound
    /\ repn[r1, Seller] = None

\* States that differ only in the last caller are the same state for every
\* guard: sender is written by each action and read by none.
MCView == <<trancheIds, skuInfo, trnSupply, ble, bleTrn, alw, authMark,
            skuTrns, holderTrns, acp, catalogVars, repn, dpt, evi, now>>
=============================================================================
