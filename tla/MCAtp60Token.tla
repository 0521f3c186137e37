---------------------------- MODULE MCAtp60Token ----------------------------
(* Model-checking instance of Atp60Token: the seller and one other holder, *)
(* one SKU, tranche "0" and one more tranche, one acceptance, one SPU.     *)
EXTENDS Atp60Token, TLC

CONSTANTS s1, h1, tA, a1, u1

MCHolders == {Seller, h1}
MCTranches == {T0, tA}
MCAmounts == {1}

\* Bound on the search: at most one allowance record and one authorization
\* mark exist at a time (one spender relation is enough for transferFrom,
\* one mark for authorizeSku); all other state is unbounded by it.
RecordBound ==
    /\ Cardinality({k \in DOMAIN alw : alw[k] # None}) <= 1
    /\ Cardinality({k \in DOMAIN authMark : authMark[k] # None}) <= 1

\* States that differ only in the last caller have the same successors:
\* sender is written by each action, read by no guard, and
\* SpendingIsAuthorized reads only its new value.
MCView == <<trancheIds, skuInfo, trnSupply, ble, bleTrn, alw, authMark,
            skuTrns, holderTrns, acp, catalogVars>>
=============================================================================
