------------------------------ MODULE DemoToken ------------------------------
(***************************************************************************)
(* The token sample of src/src/sample/demoToken.js: balances stored under *)
(* the bare address, and transfer as main's only method.  It has no        *)
(* allowances, so it is shown to implement ContractBasedToken with every   *)
(* allowance record absent: each demoToken transfer is a step of the       *)
(* contract-based token's transfer.                                        *)
(***************************************************************************)
EXTENDS Naturals

CONSTANTS
    Addrs,    \* valid addresses (addressCheck passes)
    Owner,    \* the deployer, who receives the supply in init
    Supply,   \* params.supply of init
    Amounts,  \* values a caller may pass, all > 0
    None      \* an absent store record

ASSUME Owner \in Addrs /\ Supply \in Nat \ {0} /\ Amounts \subseteq Nat \ {0}

VARIABLES
    bal,     \* bal[a]: the record stored under address a
    sender   \* the caller of the last transaction

demoVars == <<bal, sender>>

DemoTypeOK ==
    /\ bal \in [Addrs -> Nat \cup {None}]
    /\ sender \in Addrs

\* init: the 'global' attribute record (opaque here) and the deployer's
\* balance of params.supply.
DemoInit ==
    /\ bal = [a \in Addrs |-> IF a = Owner THEN Supply ELSE None]
    /\ sender = Owner

\* Mutant: transfer without the assert int64Compare(senderValue, value) >= 0.
DemoTransferSkipsBalanceCheck(c, to, v) ==
    /\ sender' = c
    /\ \/ /\ c = to
          /\ UNCHANGED bal
       \/ /\ c # to
          /\ bal[c] # None
          /\ bal' = [[bal EXCEPT ![to] = IF @ = None THEN v ELSE @ + v]
                          EXCEPT ![c] = bal[c] - v]

\* Mutant: transfer without the sender === to early return.
DemoTransferNoSelfCheck(c, to, v) ==
    /\ sender' = c
    /\ bal[c] # None /\ bal[c] >= v
    /\ bal' = [[bal EXCEPT ![to] = IF @ = None THEN v ELSE @ + v]
                    EXCEPT ![c] = bal[c] - v]

\* transfer(to, value): a self-transfer only logs; otherwise the sender's
\* record must exist and cover value, to is credited (created at value if
\* absent) and then the sender's stale senderValue - value is stored.
DemoTransfer(c, to, v) ==
    /\ sender' = c
    /\ \/ /\ c = to
          /\ UNCHANGED bal
       \/ /\ c # to
          /\ bal[c] # None /\ bal[c] >= v
          /\ bal' = [[bal EXCEPT ![to] = IF @ = None THEN v ELSE @ + v]
                          EXCEPT ![c] = bal[c] - v]

\* main(input_str): 'transfer' is the only method.
DemoNext == \E c, to \in Addrs, v \in Amounts : DemoTransfer(c, to, v)

DemoSpec == DemoInit /\ [][DemoNext]_demoVars

-----------------------------------------------------------------------------
CBT == INSTANCE ContractBasedToken
           WITH TotalSupply <- Supply,
                alw <- [p \in Addrs \X Addrs |-> None]

\* demoToken implements the contract-based token: its init is the token's
\* init and every transfer, the self-transfer early return included, is a
\* transfer of the token with no allowance in play, so the supply the
\* cbtoken run shows conserved is conserved here too.
ImplementsContractBasedToken == CBT!Spec
=============================================================================
