----------------------------- MODULE MCSamples -----------------------------
(***************************************************************************)
(* Model-checking instance of the four sample contracts.  They share no    *)
(* state and never call each other, so a behaviour deploys one of them     *)
(* (deployed, chosen in Init) and runs only its methods: the state space   *)
(* is the sum of the four, not their product, and every property of one    *)
(* contract sees exactly that contract's behaviours.                       *)
(***************************************************************************)
EXTENDS Integers, TLC

CONSTANTS k1, k2, v1, a1, a2, c1, This, None

VARIABLES keys, store, acct, bal, sender, circ, rate, asset, coin, caller,
          deployed

Contracts == {"map", "payment", "demo", "asset"}

Map == INSTANCE SampleMap WITH Keys <- {k1, k2}, Vals <- {v1}, MaxListed <- 3

Payment == INSTANCE SimplePayment
               WITH Accounts <- {a1, a2}, PayAmounts <- {-1, 0, 1}, MaxBalance <- 2

Demo == INSTANCE DemoToken
            WITH Addrs <- {a1, a2}, Owner <- a1, Supply <- 2, Amounts <- {1, 2}

Asset == INSTANCE IssueAsset
             WITH Addrs <- {a1, a2}, Manager <- a1, Codes <- {c1},
                  InitCode <- c1, InitAmount <- 2, InitRate <- 2,
                  Amounts <- {1}, PayAmounts <- {1, 2}, Rates <- {1, 2},
                  MaxCirculation <- 3, MaxCoin <- 3, sender <- caller

mapVars == <<keys, store>>
demoVars == <<bal, sender>>
assetVars == <<circ, rate, asset, coin, caller>>
vars == <<mapVars, acct, demoVars, assetVars, deployed>>

Init ==
    /\ deployed \in Contracts
    /\ Map!MapInit /\ Payment!PaymentInit /\ Demo!DemoInit /\ Asset!AssetInit

Next ==
    \/ /\ deployed = "map" /\ Map!MapNext
       /\ UNCHANGED <<acct, demoVars, assetVars, deployed>>
    \/ /\ deployed = "payment" /\ Payment!PaymentNext
       /\ UNCHANGED <<mapVars, demoVars, assetVars, deployed>>
    \/ /\ deployed = "demo" /\ Demo!DemoNext
       /\ UNCHANGED <<mapVars, acct, assetVars, deployed>>
    \/ /\ deployed = "asset" /\ Asset!AssetNext
       /\ UNCHANGED <<mapVars, acct, demoVars, deployed>>

Spec == Init /\ [][Next]_vars

-----------------------------------------------------------------------------
\* The type invariants of the four contracts.
SamplesTypeOK ==
    /\ Map!MapTypeOK /\ Payment!PaymentTypeOK
    /\ Demo!DemoTypeOK /\ Asset!AssetTypeOK

\* demoToken.js implements contractBasedToken.js with no allowances.
DemoImplementsContractBasedToken == Demo!ImplementsContractBasedToken
=============================================================================
