----------------------------- MODULE Atp60Token -----------------------------
(***************************************************************************)
(* The tranche token store of src/src/contract/atp60.js: SKUs issued into  *)
(* tranches, per-holder balances (total and per tranche), allowances,      *)
(* tranche supplies, authorization marks, and the two paged indexes that   *)
(* the ledger keeps in lockstep with balances: the tranches of a SKU       *)
(* (sku_tranches_pages_) and the tranches a holder holds of a SKU          *)
(* (balance_tranches_pages_).                                              *)
(*                                                                         *)
(* Every handler runs to completion as one step (one call of main);        *)
(* a failed Utils.assert aborts the call and the chain discards its        *)
(* writes, so a failing check is a disabled action.  The caller is both   *)
(* Chain.tx.sender and Chain.msg.sender (a direct call).  Every holder is *)
(* a valid, funded address, so _checkAddr passes for all of them.          *)
(***************************************************************************)
EXTENDS Integers, PagedIndex, FiniteSets, Functions

CONSTANTS Holders,     \* account addresses
          Seller,      \* the address that ran init
          Skus,        \* SKU ids
          Tranches,    \* tranche ids, T0 among them
          T0,          \* tranche "0", created by init
          AcpIds,      \* acceptance ids
          Periods,     \* acceptance redemption periods
          SpuIds,      \* SPU ids
          SpuArgs,     \* the spuId arguments issue is called with (Omitted: none)
          Amounts,     \* values a call may carry
          MaxSupply,   \* bound on total and tranche supply (keeps the model finite)
          None,        \* the store has no record (Chain.load returns false)
          Omitted      \* an optional trancheId parameter that was not given

ASSUME Seller \in Holders /\ T0 \in Tranches
ASSUME Amounts \subseteq Nat \ {0} /\ MaxSupply \in Nat
ASSUME SpuArgs \subseteq SpuIds \cup {Omitted}

VARIABLES trancheIds,  \* tranche_<id> records that exist
          skuInfo,     \* sku_token_<id>: defaultTrancheId, totalSupply, authorizers
          trnSupply,   \* sku_tranche_supply_<sku>_<trn>
          ble,         \* balance_<sku>_<holder>
          bleTrn,      \* balance_tranche_<sku>_<trn>_<holder>
          alw,         \* allowance_<owner>_<sku>_<trn>_<spender>
          authMark,    \* sku_authorization_<sku>_<trn>_<authorizer>
          skuTrns,     \* paged index: tranches of a SKU
          holderTrns,  \* paged index: tranches in which a holder holds a SKU
          acp,         \* acceptance_<id>: acceptor address and period
          spus,        \* spu_<id> records that exist
          spuSkus,     \* paged index: SKUs of an SPU
          trnSkus,     \* paged index: SKUs of a tranche
          skuAcps,     \* paged index: acceptances of a SKU
          sender       \* the caller of the last call

\* The catalog: records and membership lists that no ledger guard reads.
catalogVars == <<spus, spuSkus, trnSkus, skuAcps>>

tokenVars == <<trancheIds, skuInfo, trnSupply, ble, bleTrn, alw, authMark,
               skuTrns, holderTrns, acp, catalogVars, sender>>

Load0(x) == IF x = None THEN 0 ELSE x          \* _loadNum

TokenInit ==
    /\ trancheIds = {T0}
    /\ skuInfo = [s \in Skus |-> None]
    /\ trnSupply = [k \in Skus \X Tranches |-> None]
    /\ ble = [k \in Skus \X Holders |-> None]
    /\ bleTrn = [k \in Skus \X Tranches \X Holders |-> None]
    /\ alw = [k \in Holders \X Skus \X Tranches \X Holders |-> None]
    /\ authMark = [k \in Skus \X Tranches \X Holders |-> None]
    /\ skuTrns = [s \in Skus |-> EmptyIndex]
    /\ holderTrns = [k \in Skus \X Holders |-> EmptyIndex]
    /\ acp = [a \in AcpIds |-> None]
    /\ spus = {}
    /\ spuSkus = [u \in SpuIds |-> EmptyIndex]
    /\ trnSkus = [t \in Tranches |-> EmptyIndex]
    /\ skuAcps = [s \in Skus |-> EmptyIndex]
    /\ sender = Seller

-----------------------------------------------------------------------------
(* Helpers of atp60.js                                                     *)

\* _checkTranche: an omitted tranche id is "0" and skips the default test.
Resolve(arg) == IF arg = Omitted THEN T0 ELSE arg

\* _checkTranche's default-tranche assertion; isDft is TRUE (must be the
\* SKU's default tranche) or FALSE (must not be it).
TrancheOK(arg, dft, isDft) ==
    \/ arg = Omitted
    \/ dft = None
    \/ isDft /\ arg = dft
    \/ ~isDft /\ arg # dft

\* _addVal: create the record at 0 if absent, then add.
AddVal(m, k, v) == [m EXCEPT ![k] = Load0(@) + v]

\* Mutant: a zero result is stored instead of deleted.
SubValKeepsZero(m, k, v) == [m EXCEPT ![k] = @ - v]

\* _subVal(true, ...) once it has succeeded: a zero result deletes the record.
SubVal(m, k, v) == [m EXCEPT ![k] = IF @ = v THEN None ELSE @ - v]

\* _subVal's failure test (-1): record absent or result negative.
SubFails(m, k, v) == m[k] = None \/ m[k] < v

\* The ledger records a transfer reads and writes.
Book == [ble |-> ble, bleTrn |-> bleTrn, holderTrns |-> holderTrns, alw |-> alw]

SetBook(b) ==
    /\ ble' = b.ble
    /\ bleTrn' = b.bleTrn
    /\ holderTrns' = b.holderTrns
    /\ alw' = b.alw

\* _checkSubBalance's checks once the SKU and tranche checks have passed:
\* a spender other than frm needs an allowance of at least v; frm's
\* tranche balance must cover v.
CanDebit(b, c, frm, s, t, v) ==
    /\ c # frm => b.alw[frm, s, t, c] # None /\ b.alw[frm, s, t, c] >= v
    /\ ~SubFails(b.bleTrn, <<s, t, frm>>, v)

\* Mutant: the SKU balance is not debited.
DebitKeepsBalance(b, c, frm, s, t, v) ==
    LET bt == SubVal(b.bleTrn, <<s, t, frm>>, v) IN
    [b EXCEPT
        !.alw = IF c # frm THEN [@ EXCEPT ![frm, s, t, c] = @ - v] ELSE @,
        !.bleTrn = bt,
        !.holderTrns = IF bt[s, t, frm] = None
                       THEN [@ EXCEPT ![s, frm] = SubPagesItem(@, t).ix]
                       ELSE @]

\* Mutant: the allowance is checked but not consumed.
DebitKeepsAllowance(b, c, frm, s, t, v) ==
    LET bt == SubVal(b.bleTrn, <<s, t, frm>>, v) IN
    [b EXCEPT
        !.bleTrn = bt,
        !.holderTrns = IF bt[s, t, frm] = None
                       THEN [@ EXCEPT ![s, frm] = SubPagesItem(@, t).ix]
                       ELSE @,
        !.ble = IF SubFails(@, <<s, frm>>, v) THEN @ ELSE SubVal(@, <<s, frm>>, v)]

\* _checkSubBalance(c, frm, s, t, v, true, _): consume the allowance, debit
\* the tranche balance, drop t from frm's tranche index when it reaches
\* zero, and debit the SKU balance (its failure is ignored).
Debit(b, c, frm, s, t, v) ==
    LET bt == SubVal(b.bleTrn, <<s, t, frm>>, v) IN
    [b EXCEPT
        !.alw = IF c # frm THEN [@ EXCEPT ![frm, s, t, c] = @ - v] ELSE @,
        !.bleTrn = bt,
        !.holderTrns = IF bt[s, t, frm] = None
                       THEN [@ EXCEPT ![s, frm] = SubPagesItem(@, t).ix]
                       ELSE @,
        !.ble = IF SubFails(@, <<s, frm>>, v) THEN @ ELSE SubVal(@, <<s, frm>>, v)]

\* Mutant: the index registration is keyed on the SKU balance record.
CreditIndexOnSkuBalance(b, to, s, t, v) ==
    [b EXCEPT
        !.ble = AddVal(@, <<s, to>>, v),
        !.bleTrn = AddVal(@, <<s, t, to>>, v),
        !.holderTrns = IF b.ble[s, to] = None
                       THEN [@ EXCEPT ![s, to] = AddPagesItem(@, t).ix]
                       ELSE @]

\* _checkAddBalance(to, s, t, v): credit both balances; a tranche record
\* that did not exist registers t in to's tranche index.
Credit(b, to, s, t, v) ==
    [b EXCEPT
        !.ble = AddVal(@, <<s, to>>, v),
        !.bleTrn = AddVal(@, <<s, t, to>>, v),
        !.holderTrns = IF b.bleTrn[s, t, to] = None
                       THEN [@ EXCEPT ![s, to] = AddPagesItem(@, t).ix]
                       ELSE @]

-----------------------------------------------------------------------------
(* Handlers.  Each takes the caller c; inputs come from small sets.        *)

\* createTranche: the seller creates a tranche id not yet used.
CreateTranche(c, t) ==
    /\ c = Seller
    /\ t \notin trancheIds
    /\ trancheIds' = trancheIds \cup {t}
    /\ sender' = c
    /\ UNCHANGED <<catalogVars, skuInfo, trnSupply, ble, bleTrn, alw, authMark, skuTrns,
                   holderTrns, acp>>

\* setAcceptance: the seller creates or overwrites an acceptance; its
\* acceptor is the address of the given public key.
SetAcceptance(c, a, acceptor, period) ==
    /\ c = Seller
    /\ acp' = [acp EXCEPT ![a] = [acceptor |-> acceptor, period |-> period]]
    /\ sender' = c
    /\ UNCHANGED <<catalogVars, trancheIds, skuInfo, trnSupply, ble, bleTrn, alw, authMark,
                   skuTrns, holderTrns>>

\* setSeller: the seller rewrites its opaque company fields; _setSeller
\* stores gTxSender, which is already the seller, as the address.
SetSeller(c) ==
    /\ c = Seller
    /\ sender' = c
    /\ UNCHANGED <<catalogVars, trancheIds, skuInfo, trnSupply, ble, bleTrn,
                   alw, authMark, skuTrns, holderTrns, acp>>

\* createSpu: the seller creates an SPU id not yet used; its name, type and
\* attributes are opaque.
CreateSpu(c, u) ==
    /\ c = Seller
    /\ u \notin spus
    /\ spus' = spus \cup {u}
    /\ sender' = c
    /\ UNCHANGED <<spuSkus, trnSkus, skuAcps, trancheIds, skuInfo, trnSupply,
                   ble, bleTrn, alw, authMark, skuTrns, holderTrns, acp>>

\* setSpu: any caller (the seller is not checked) rewrites the opaque
\* name, type and attributes of an existing SPU.
SetSpu(c, u) ==
    /\ u \in spus
    /\ sender' = c
    /\ UNCHANGED <<catalogVars, trancheIds, skuInfo, trnSupply, ble, bleTrn,
                   alw, authMark, skuTrns, holderTrns, acp>>

\* setSkusChoice: any caller sets the opaque SKU choice of an existing SPU.
SetSkusChoice(c, u) ==
    /\ u \in spus
    /\ sender' = c
    /\ UNCHANGED <<catalogVars, trancheIds, skuInfo, trnSupply, ble, bleTrn,
                   alw, authMark, skuTrns, holderTrns, acp>>

\* setSku: the seller rewrites the descriptive fields of an existing SKU;
\* spuId, defaultTrancheId, totalSupply and authorizers are left alone.
SetSku(c, s) ==
    /\ c = Seller
    /\ skuInfo[s] # None
    /\ sender' = c
    /\ UNCHANGED <<catalogVars, trancheIds, skuInfo, trnSupply, ble, bleTrn,
                   alw, authMark, skuTrns, holderTrns, acp>>

\* issue: a new SKU in tranche t (an omitted trancheId is T0), optionally
\* with t as its default tranche and under an existing SPU u; the seller
\* receives the whole supply.  The SKU is registered with its tranche, its
\* acceptance, the tranche and the SPU, in that order, and the issuer with
\* the tranche; every _checkAddPagesItem result is ignored.
Issue(c, s, t, isDft, u, a, supply) ==
    /\ c = Seller
    /\ skuInfo[s] = None
    /\ u # Omitted => u \in spus
    /\ t \in trancheIds
    /\ acp[a] # None
    /\ supply <= MaxSupply
    /\ skuInfo' = [skuInfo EXCEPT ![s] =
                     [spu |-> IF u = Omitted THEN None ELSE u,
                      dft |-> IF isDft THEN t ELSE None,
                      totalSupply |-> supply, authorizers |-> {}]]
    /\ trnSupply' = [trnSupply EXCEPT ![s, t] = supply]
    /\ skuTrns' = [skuTrns EXCEPT ![s] = AddPagesItem(@, t).ix]
    /\ skuAcps' = [skuAcps EXCEPT ![s] = AddPagesItem(@, a).ix]
    /\ trnSkus' = [trnSkus EXCEPT ![t] = AddPagesItem(@, s).ix]
    /\ spuSkus' = IF u = Omitted THEN spuSkus
                  ELSE [spuSkus EXCEPT ![u] = AddPagesItem(@, s).ix]
    /\ ble' = [ble EXCEPT ![s, c] = supply]
    /\ bleTrn' = [bleTrn EXCEPT ![s, t, c] = supply]
    /\ holderTrns' = [holderTrns EXCEPT ![s, c] = AddPagesItem(@, t).ix]
    /\ sender' = c
    /\ UNCHANGED <<spus, trancheIds, alw, authMark, acp>>

\* additionalIssuance: more supply for the seller in tranche arg, which
\* must be the SKU's default tranche when it has one and arg is given.
\* Both index registrations are made whether or not t is already there.
AdditionalIssuance(c, s, arg, supply) ==
    LET t == Resolve(arg) IN
    /\ c = Seller
    /\ skuInfo[s] # None
    /\ skuInfo[s].totalSupply + supply <= MaxSupply
    /\ Load0(trnSupply[s, t]) + supply <= MaxSupply
    /\ TrancheOK(arg, skuInfo[s].dft, TRUE)
    /\ t \in trancheIds
    /\ skuInfo' = [skuInfo EXCEPT ![s].totalSupply = @ + supply]
    /\ trnSupply' = AddVal(trnSupply, <<s, t>>, supply)
    /\ skuTrns' = [skuTrns EXCEPT ![s] = AddPagesItem(@, t).ix]
    /\ ble' = AddVal(ble, <<s, c>>, supply)
    /\ bleTrn' = AddVal(bleTrn, <<s, t, c>>, supply)
    /\ holderTrns' = [holderTrns EXCEPT ![s, c] = AddPagesItem(@, t).ix]
    /\ sender' = c
    /\ UNCHANGED <<catalogVars, trancheIds, alw, authMark, acp>>

\* assignToTranche: the seller moves v of its default-tranche balance to
\* another existing tranche.
AssignToTranche(c, s, to, v) ==
    LET dft == skuInfo[s].dft IN
    /\ c = Seller
    /\ skuInfo[s] # None
    /\ dft # None
    /\ to # dft
    /\ to \in trancheIds
    /\ CanDebit(Book, c, c, s, dft, v)
    /\ SetBook(Credit(Debit(Book, c, c, s, dft, v), c, s, to, v))
    /\ sender' = c
    /\ UNCHANGED <<catalogVars, trancheIds, skuInfo, trnSupply, authMark, skuTrns, acp>>

\* transfer (frm = c) and transferFrom (frm given, allowance used when
\* c # frm): debit frm, then credit to, in tranche arg which must not be
\* the SKU's default tranche when it has one and arg is given.
TransferFrom(c, frm, s, arg, to, v) ==
    LET t == Resolve(arg) IN
    /\ skuInfo[s] # None
    /\ TrancheOK(arg, skuInfo[s].dft, FALSE)
    /\ t \in trancheIds
    /\ CanDebit(Book, c, frm, s, t, v)
    /\ SetBook(Credit(Debit(Book, c, frm, s, t, v), to, s, t, v))
    /\ sender' = c
    /\ UNCHANGED <<catalogVars, trancheIds, skuInfo, trnSupply, authMark, skuTrns, acp>>

\* approve: the allowance is set to v, which c's tranche balance must cover.
Approve(c, spr, s, arg, v) ==
    LET t == Resolve(arg) IN
    /\ skuInfo[s] # None
    /\ TrancheOK(arg, skuInfo[s].dft, FALSE)
    /\ t \in trancheIds
    /\ Load0(bleTrn[s, t, c]) >= v
    /\ alw' = [alw EXCEPT ![c, s, t, spr] = v]
    /\ sender' = c
    /\ UNCHANGED <<catalogVars, trancheIds, skuInfo, trnSupply, ble, bleTrn, authMark,
                   skuTrns, holderTrns, acp>>

\* Mutant: _destroy does not lower the total supply.
DestroyKeepsSupply(c, addr, s, arg, v) ==
    LET t == Resolve(arg) IN
    /\ c = Seller
    /\ addr = c
    /\ skuInfo[s] # None
    /\ t \in trancheIds
    /\ TrancheOK(t, skuInfo[s].dft, TRUE)
    /\ CanDebit(Book, addr, addr, s, t, v)
    /\ SetBook(Debit(Book, addr, addr, s, t, v))
    /\ sender' = c
    /\ UNCHANGED <<catalogVars, trancheIds, skuInfo, trnSupply, authMark, skuTrns, acp>>

\* destroy: the seller burns v of its own balance in tranche t (resolved
\* first, then passed on to _destroy, so the default test always applies)
\* and lowers the SKU's total supply.
Destroy(c, addr, s, arg, v) ==
    LET t == Resolve(arg) IN
    /\ c = Seller
    /\ addr = c
    /\ skuInfo[s] # None
    /\ t \in trancheIds
    /\ TrancheOK(t, skuInfo[s].dft, TRUE)
    /\ CanDebit(Book, addr, addr, s, t, v)
    /\ SetBook(Debit(Book, addr, addr, s, t, v))
    /\ skuInfo' = [skuInfo EXCEPT ![s].totalSupply = @ - v]
    /\ sender' = c
    /\ UNCHANGED <<catalogVars, trancheIds, trnSupply, authMark, skuTrns, acp>>

\* setAuthorizers: the seller replaces the SKU's authorizer list.
SetAuthorizers(c, s, autrs) ==
    /\ c = Seller
    /\ skuInfo[s] # None
    /\ autrs # {}
    /\ skuInfo' = [skuInfo EXCEPT ![s].authorizers = autrs]
    /\ sender' = c
    /\ UNCHANGED <<catalogVars, trancheIds, trnSupply, ble, bleTrn, alw, authMark, skuTrns,
                   holderTrns, acp>>

\* authorizeSku: an authorizer snapshots the tranche supply of a tranche
\* the SKU's tranche index reports as a member.
AuthorizeSku(c, s, arg) ==
    LET t == Resolve(arg) IN
    /\ skuInfo[s] # None
    /\ c \in skuInfo[s].authorizers
    /\ TrancheOK(arg, skuInfo[s].dft, TRUE)
    /\ t \in trancheIds
    /\ CheckPageItemCode(skuTrns[s], t) # -1
    /\ authMark' = [authMark EXCEPT ![s, t, c] = trnSupply[s, t]]
    /\ sender' = c
    /\ UNCHANGED <<catalogVars, trancheIds, skuInfo, trnSupply, ble, bleTrn, alw, skuTrns,
                   holderTrns, acp>>

TrancheArgs == Tranches \cup {Omitted}

TokenNext ==
    \E c \in Holders :
        \/ \E t \in Tranches : CreateTranche(c, t)
        \/ \E a \in AcpIds, h \in Holders, p \in Periods : SetAcceptance(c, a, h, p)
        \/ \E s \in Skus, v \in Amounts :
            \/ \E t \in Tranches, d \in BOOLEAN, u \in SpuArgs, a \in AcpIds :
                   Issue(c, s, t, d, u, a, v)
            \/ \E arg \in TrancheArgs : AdditionalIssuance(c, s, arg, v)
            \/ \E t \in Tranches : AssignToTranche(c, s, t, v)
            \/ \E frm, to \in Holders, arg \in TrancheArgs :
                    TransferFrom(c, frm, s, arg, to, v)
            \/ \E spr \in Holders, arg \in TrancheArgs : Approve(c, spr, s, arg, v)
            \/ \E addr \in Holders, arg \in TrancheArgs : Destroy(c, addr, s, arg, v)
        \/ SetSeller(c)
        \/ \E u \in SpuIds : CreateSpu(c, u) \/ SetSpu(c, u) \/ SetSkusChoice(c, u)
        \/ \E s \in Skus :
            \/ SetSku(c, s)
            \/ \E autrs \in SUBSET Holders : SetAuthorizers(c, s, autrs)
            \/ \E arg \in TrancheArgs : AuthorizeSku(c, s, arg)

TokenSpec == TokenInit /\ [][TokenNext]_tokenVars

-----------------------------------------------------------------------------
(* Properties                                                              *)

TokenTypeOK ==
    /\ trancheIds \subseteq Tranches
    /\ spus \subseteq SpuIds
    /\ \A s \in Skus : skuInfo[s] = None \/
          /\ skuInfo[s].spu \in spus \cup {None}
          /\ skuInfo[s].dft \in Tranches \cup {None}
          /\ skuInfo[s].totalSupply \in Nat
          /\ skuInfo[s].authorizers \subseteq Holders
    \* a balance or supply record is positive or absent (zero deletes it)
    /\ \A k \in DOMAIN bleTrn : bleTrn[k] \in (Nat \ {0}) \cup {None}
    /\ \A k \in DOMAIN ble : ble[k] \in (Nat \ {0}) \cup {None}
    /\ \A k \in DOMAIN trnSupply : trnSupply[k] \in (Nat \ {0}) \cup {None}
    /\ \A k \in DOMAIN alw : alw[k] \in Nat \cup {None}
    /\ sender \in Holders

\* spec 3: a holder's SKU balance equals the sum of its tranche balances,
\* through every debit and credit that issue, additionalIssuance,
\* assignToTranche, transfer(From) and destroy make to the two records.
BalanceIsSumOfTranches ==
    \A s \in Skus, h \in Holders :
        Load0(ble[s, h]) = MapThenSumSet(LAMBDA t : Load0(bleTrn[s, t, h]), Tranches)

\* A SKU's totalSupply equals what its holders hold: minting and burning
\* change both, transfers and assignments move balances only.
SupplyMatchesBalances ==
    \A s \in Skus : skuInfo[s] # None =>
        skuInfo[s].totalSupply = MapThenSumSet(LAMBDA h : Load0(ble[s, h]), Holders)

\* spec 3 and 8: a holder's tranche list (tranchesOf) names each tranche
\* in which it holds a positive balance exactly once, and no other, as
\* _checkAddBalance and _checkSubBalance add and drop entries.
TrancheIndexMatchesBalances ==
    \A s \in Skus, h \in Holders :
        LET listed == ListAll(holderTrns[s, h]) IN
        /\ IsInjective(listed)
        /\ ToSet(listed) = {t \in Tranches : bleTrn[s, t, h] # None}

\* No call lowers a holder's tranche balance unless the holder makes it or
\* the caller spends an allowance the holder granted, lowered by at least
\* the amount taken (transferFrom with msg.sender # from).
SpendingIsAuthorized ==
    [][\A s \in Skus, t \in Tranches, h \in Holders :
         LET taken == Load0(bleTrn[s, t, h]) - Load0(bleTrn'[s, t, h]) IN
         taken > 0 /\ sender' # h =>
            Load0(alw[h, s, t, sender']) - Load0(alw'[h, s, t, sender']) >= taken
      ]_tokenVars

\* spec 8 (conservation): for every tranche, the holders' tranche balances
\* add up to the tranche supply (sku_tranche_supply_) after issue,
\* additionalIssuance, transfer and destroy.  Stated for SKUs without a
\* default tranche, which assignToTranche rejects.
ConservationPerTranche ==
    \A s \in Skus : skuInfo[s] # None /\ skuInfo[s].dft = None =>
        \A t \in Tranches :
            Load0(trnSupply[s, t]) = MapThenSumSet(LAMBDA h : Load0(bleTrn[s, t, h]), Holders)

\* spec 4.4 (additionalIssuance): a SKU that has a default tranche is only
\* ever minted into that tranche.
MintOnlyIntoDefaultTranche ==
    \A s \in Skus : skuInfo[s] # None /\ skuInfo[s].dft # None =>
        \A t \in Tranches \ {skuInfo[s].dft} : trnSupply[s, t] = None

=============================================================================
