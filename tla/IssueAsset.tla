----------------------------- MODULE IssueAsset -----------------------------
(***************************************************************************)
(* The asset-issuing sample of src/src/sample/issueAsset.js.  The contract *)
(* issues assets under its own address (issueAsset), sells them for coin   *)
(* at a conversion rate (conversion: payAsset of payAmount div rate), and  *)
(* lets its manager draw the coin (drawCEG) and set the rate.  The chain's *)
(* ledger of the contract's assets and coin is part of the state: the      *)
(* built-ins issueAsset, payAsset and payCoin change it in the call.  The  *)
(* JSON records 'initIssue', 'additionalIssue' and 'drawCEG' are logs that  *)
(* nothing reads and are left out.                                         *)
(***************************************************************************)
EXTENDS Naturals, FiniteSetsExt

CONSTANTS
    Addrs,        \* valid accounts other than the contract
    This,         \* thisAddress
    Manager,      \* params.managedAddress of init
    Codes,        \* asset codes a caller may pass
    InitCode,     \* params.code of init
    InitAmount,   \* params.amount of init
    InitRate,     \* params.conversionRate of init
    Amounts,      \* issue and drawCEG amounts a caller may pass, all > 0
    PayAmounts,   \* coin a conversion carries (thisPayCoinAmount), all > 0
    Rates,        \* conversion rates setConversionRate may be given, all > 0
    MaxCirculation, \* bound on totaCirculation
    MaxCoin       \* bound on the contract's coin balance

ASSUME Manager \in Addrs /\ This \notin Addrs /\ InitCode \in Codes
ASSUME InitRate \in Rates /\ Rates \subseteq Nat \ {0}

VARIABLES
    circ,     \* storageLoad('totaCirculation')
    rate,     \* storageLoad('conversionRate')
    asset,    \* asset[<<h, code>>]: h's balance of the asset (This, code)
    coin,     \* the contract's coin balance
    sender    \* the caller of the last transaction

assetVars == <<circ, rate, asset, coin, sender>>

Holders == Addrs \cup {This}

AssetTypeOK ==
    /\ circ \in 0..MaxCirculation
    /\ rate \in Rates
    /\ asset \in [Holders \X Codes -> Nat]
    /\ coin \in 0..MaxCoin
    /\ sender \in Addrs

\* issueAsset(code, amount): the chain credits the contract.
Issued(code, n) == [asset EXCEPT ![<<This, code>>] = @ + n]

\* init: issue(code, amount, 'initIssue') with no circulation record yet,
\* then the rate and the manager are stored.
AssetInit ==
    /\ circ = InitAmount
    /\ rate = InitRate
    /\ asset = [x \in Holders \X Codes |-> IF x = <<This, InitCode>> THEN InitAmount ELSE 0]
    /\ coin = 0
    /\ sender = Manager

\* issue(code, newAmount, 'additionalIssue'), reached from main by any
\* caller: totaCirculation becomes int64Add(amount, newAmount) and the
\* chain issues newAmount more of the asset.
Issue(c, code, n) ==
    /\ circ + n <= MaxCirculation
    /\ circ' = circ + n
    /\ asset' = Issued(code, n)
    /\ sender' = c
    /\ UNCHANGED <<rate, coin>>

\* drawCEG(drawCEGAmount): only the manager; payCoin needs the balance.
DrawCEG(c, x) ==
    /\ c = Manager
    /\ coin >= x
    /\ coin' = coin - x
    /\ sender' = c
    /\ UNCHANGED <<circ, rate, asset>>

\* conversion(destAddress, code, payAmount): payAmount must equal the coin
\* the transaction carries; the contract pays int64Div(payAmount, rate) of
\* its asset (This, code) to destAddress.  A result of 0 is a payAsset of
\* nothing, which the code does not rule out: a chain that refuses it fails
\* the call (no step), one that accepts it keeps the coin for nothing (this
\* step).
Conversion(c, d, code, p) ==
    LET n == p \div rate IN
    /\ coin + p <= MaxCoin
    /\ asset[<<This, code>>] >= n
    /\ coin' = coin + p
    /\ asset' = [asset EXCEPT ![<<This, code>>] = @ - n, ![<<d, code>>] = @ + n]
    /\ sender' = c
    /\ UNCHANGED <<circ, rate>>

\* setConversionRate(conversionRate): only the manager.
SetConversionRate(c, r) ==
    /\ c = Manager
    /\ rate' = r
    /\ sender' = c
    /\ UNCHANGED <<circ, asset, coin>>

\* main(input_str): dispatch on input.method.
AssetNext ==
    \E c \in Addrs :
        \/ \E code \in Codes, n \in Amounts : Issue(c, code, n)
        \/ \E x \in Amounts : DrawCEG(c, x)
        \/ \E d \in Addrs, code \in Codes, p \in PayAmounts : Conversion(c, d, code, p)
        \/ \E r \in Rates : SetConversionRate(c, r)

AssetSpec == AssetInit /\ [][AssetNext]_assetVars

-----------------------------------------------------------------------------
\* Only the manager raises the circulation.  drawCEG and setConversionRate
\* check managedAddress, but main's 'issue' method does not.
OnlyManagerIssues ==
    [][circ' > circ => sender' = Manager]_assetVars
=============================================================================
