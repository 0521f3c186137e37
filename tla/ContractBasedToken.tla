------------------------- MODULE ContractBasedToken -------------------------
(***************************************************************************)
(* The ATP20 token of src/src/contract/contractBasedToken.js.  Balances    *)
(* are stored under the bare address, allowances under                     *)
(* 'allow_<owner>_to_<spender>'.  An absent record (storageLoad returns    *)
(* false) is None; a balance or allowance spent down to zero is stored as  *)
(* '0', never deleted.  Each call of main is one atomic action whose guard *)
(* is the conjunction of the handler's asserts.                            *)
(***************************************************************************)
EXTENDS Naturals, FiniteSetsExt

CONSTANTS
    Addrs,        \* valid addresses (addressCheck passes)
    Owner,        \* the deployer, who receives totalSupply in init
    TotalSupply,  \* params.totalSupply of init
    Amounts,      \* values a caller may pass, all > 0
    None          \* an absent store record

ASSUME Owner \in Addrs /\ TotalSupply \in Nat \ {0}
ASSUME Amounts \subseteq Nat \ {0}

VARIABLES
    bal,     \* bal[a]: the record stored under address a
    alw,     \* alw[<<o, s>>]: the record stored under makeAllowanceKey(o, s)
    sender   \* the caller of the last transaction

vars == <<bal, alw, sender>>

Pairs == Addrs \X Addrs

TypeOK ==
    /\ bal \in [Addrs -> Nat \cup {None}]
    /\ alw \in [Pairs -> Nat \cup {None}]
    /\ sender \in Addrs

\* init: storageStore(sender, totalSupply) for the deployer.
Init ==
    /\ bal = [a \in Addrs |-> IF a = Owner THEN TotalSupply ELSE None]
    /\ alw = [p \in Pairs |-> None]
    /\ sender = Owner

\* Mutant: the balance assert int64Compare(have, value) >= 0 dropped.
CoversAnyAmount(have, v) == have # None

\* The two asserts on a loaded balance or allowance before it is spent:
\* the record exists and int64Compare(have, value) >= 0.
Covers(have, v) == have # None /\ have >= v

\* The read-modify-write of the receiver:
\* toValue === false ? value : int64Add(toValue, value).
Added(have, v) == IF have = None THEN v ELSE have + v

\* approve(spender, value): value > 0, then the allowance is overwritten.
Approve(c, spr, v) ==
    /\ alw' = [alw EXCEPT ![<<c, spr>>] = v]
    /\ sender' = c
    /\ UNCHANGED bal

\* Mutant: transfer without the sender === to early return.
TransferNoSelfCheck(c, to, v) ==
    /\ sender' = c
    /\ UNCHANGED alw
    /\ Covers(bal[c], v)
    /\ bal' = [[bal EXCEPT ![to] = Added(bal[to], v)] EXCEPT ![c] = bal[c] - v]

\* transfer(to, value).  senderValue is loaded before the receiver is
\* written and stored after it; the early return for sender === to is what
\* keeps a self-transfer from overwriting the credit with the stale value.
Transfer(c, to, v) ==
    /\ sender' = c
    /\ UNCHANGED alw
    /\ \/ /\ c = to
          /\ UNCHANGED bal
       \/ /\ c # to
          /\ Covers(bal[c], v)
          /\ bal' = [[bal EXCEPT ![to] = Added(bal[to], v)]
                       EXCEPT ![c] = bal[c] - v]

\* Mutant: transferFrom that never stores the lowered allowance.
TransferFromKeepsAllowance(c, from, to, v) ==
    /\ sender' = c
    /\ UNCHANGED alw
    /\ from # to
    /\ Covers(bal[from], v)
    /\ Covers(alw[<<from, c>>], v)
    /\ bal' = [[bal EXCEPT ![to] = Added(bal[to], v)] EXCEPT ![from] = bal[from] - v]

\* transferFrom(from, to, value) by spender c: from === to returns early;
\* otherwise the balance and allowance(from, sender) must cover value, then
\* to is credited, from debited and the allowance lowered, in that order.
TransferFrom(c, from, to, v) ==
    /\ sender' = c
    /\ \/ /\ from = to
          /\ UNCHANGED <<bal, alw>>
       \/ /\ from # to
          /\ Covers(bal[from], v)
          /\ Covers(alw[<<from, c>>], v)
          /\ bal' = [[bal EXCEPT ![to] = Added(bal[to], v)]
                       EXCEPT ![from] = bal[from] - v]
          /\ alw' = [alw EXCEPT ![<<from, c>>] = @ - v]

\* main(input): dispatch on input.method.
Next ==
    \E c \in Addrs, v \in Amounts :
        \/ \E spr \in Addrs : Approve(c, spr, v)
        \/ \E to \in Addrs : Transfer(c, to, v)
        \/ \E from, to \in Addrs : TransferFrom(c, from, to, v)

Spec == Init /\ [][Next]_vars

-----------------------------------------------------------------------------
Present == {a \in Addrs : bal[a] # None}

\* No handler creates or destroys tokens: the stored balances always sum to
\* the totalSupply written by init, whichever of transfer and transferFrom
\* ran, in whatever order, with self-transfers and zero balances included.
SupplyConserved ==
    MapThenSumSet(LAMBDA a : bal[a], Present) = TotalSupply

\* A balance falls only in a step sent by its owner (transfer) or by a
\* spender whose allowance from that owner falls by the same amount
\* (transferFrom).
SpendingIsAuthorized ==
    [][\A a \in Present :
          bal'[a] < bal[a] =>
              \/ sender' = a
              \/ /\ alw[<<a, sender'>>] # None
                 /\ alw[<<a, sender'>>] - alw'[<<a, sender'>>] = bal[a] - bal'[a]
      ]_vars
=============================================================================
