------------------------ MODULE MCContractBasedToken ------------------------
(* Model-checking instance of ContractBasedToken: the deployer and two     *)
(* other addresses, a supply of two units, values of one and two units.    *)
EXTENDS ContractBasedToken

CONSTANTS o, a, b

MCAddrs == {o, a, b}

\* Bound on the search: at most two allowance records exist, enough for one
\* owner with two spenders or two owners with one spender each.
AllowanceBound == Cardinality({p \in Pairs : alw[p] # None}) <= 2

\* sender is written by every action and read by no guard;
\* SpendingIsAuthorized reads only its new value.
MCView == <<bal, alw>>
=============================================================================
