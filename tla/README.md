# TLA+ models of the CEG contracts

This directory holds TLA+ models of three smart contracts under
`src/src/contract/`, and of the four sample contracts under `src/src/sample/`:

- `atp60.js`, the ATP60 contract: a seller issues SKU tokens into tranches,
  holders transfer them, and a redemption-and-dispute workflow runs on top.
- `contractBasedToken.js`, a plain ATP20 token.
- `cobuild.js`, a co-building staking pool that pledges its members' coin to
  the DPOS system contract.
- `map.js`, `simplePayment.js`, `demoToken.js` and `issueAsset.js`, small
  example contracts.

The models are checked with TLC. Every module is translated from the JavaScript source.
`PROJECT.json` maps each definition to the source lines it models.

## The system

`atp60.js` is one contract. `main(input)` dispatches each call to one
handler, and the chain runs the handler to completion. A failed
`Utils.assert` throws, which aborts the transaction and discards its writes.
All state lives in the chain's key-value store (`Chain.load`, `Chain.store`,
`Chain.del`), under keys built by `_makeKey` from the prefixes in `keys`.

| Part | State (store keys) | Operations |
|---|---|---|
| Paged index (`_checkAdd/Sub{Array,Page,Pages}Item`, `_getPagesItemsF`) | a `{pages, value}` record plus pages `..._page_<i>` holding JSON arrays of at most 256000 bytes; at most 2000 pages | add-if-absent, remove, membership test, list all |
| Documents | `document_<id>`, the documents index | `setDocument` |
| Acceptances | `acceptance_<id>` (acceptor public key, period), the acceptances index of each SKU | `setAcceptance`, `addAcceptanceToSku`, `delAcceptanceFromSku` |
| Tranches | `tranche_<id>`; tranche `"0"` is created by `init` | `createTranche` |
| SKU tokens | `sku_token_<id>` (SPU, default tranche, totalSupply, authorizers), `sku_tranche_supply_`, the tranches index of each SKU, the SKUs index of each tranche | `issue`, `additionalIssuance`, `setAuthorizers`, `authorizeSku`, `setSku`, `setSkusChoice` |
| Ledger | `balance_<sku>_<h>`, `balance_tranche_<sku>_<t>_<h>`, the tranches index of each holder, `allowance_...` | `transfer`, `transferFrom`, `approve`, `assignToTranche`, `destroy` |
| Redemption | `redemption_<id>_<applicant>` (status 0..3), `dispute_<id>_<applicant>` (status 0..2, controller), `evidence_...` | `requestRedemption`, `redeem`, `confirmRedemption`, `applyDispute`, `setEvidence`, `handleDispute` |
| SPU | `spu_<id>` (name, type, attributes, SKU choice), the SKUs-of-SPU index | `createSpu`, `setSpu`, `setSkusChoice` |
| Seller | `seller` (address and company fields) | `init`, `setSeller` |

How the parts interact:

- Every SKU, ledger and document operation maintains one or more paged
  indexes.
- The ledger keeps each holder's tranche index in step with which tranche
  balances are non-zero.
- `authorizeSku` uses the SKU's tranche index as a membership test.
- `issue` checks that the SPU it names exists, and lists the new SKU under
  its tranche, its acceptance and its SPU. Only `additionalIssuance` adds
  tranches to a SKU's tranche list afterwards.
- `requestRedemption` checks the caller's tranche balance through the ledger's
  `_checkSubBalance`.
- `redeem` and `confirmRedemption` read the acceptance record, which the
  seller may overwrite at any time.

The other files under `src/` are separate programs. None of them calls ATP60.

- `contractBasedToken.js` keeps balances under the bare address and
  allowances under `allow_<owner>_to_<spender>`. Its handlers are `approve`,
  `transfer` and `transferFrom`. A balance spent down to zero is stored as
  `'0'`, never deleted.
- `cobuild.js` keeps its whole state in three JSON objects: `states`
  (`allShares`, `pledgedShares`, `applied`, `disabled`), `cobuilders` (one
  `{share, pledged, award}` record per member), and the `withdraw` proposal.
  Share offers are kept under `transfer_<from>_to_<to>`. The pool talks to
  the DPOS contract with `callDPOS` (a `payCoin` with an input):
  - `coApply` and `coAppend` send the pledge.
  - `accept` and `coExtract` send `extract`. DPOS answers it synchronously by
    calling this contract's `main` with method `reward`, which runs
    `distribute`. The caller then reloads `cobuilders`.
  - `withdrawing` and `takeback` send `withdraw`. DPOS eventually answers
    with method `refund`, which runs `received`: `resetStatus` unpledges
    everyone and disables the pool.
  - Once disabled, only `revoke` does anything.
- `dex.js` does not parse (`const 1BU`).
- `src/sample/*` are four small contracts, each on its own:
  - `map.js` keeps a JSON list of keys under `AllKeys` and each value under
    its key (`put`, `remove`).
  - `simplePayment.js` keeps a number per account name (`create`, `pay`,
    `delete`).
  - `demoToken.js` is a token with `transfer` only.
  - `issueAsset.js` issues a chain asset under its own address, sells it for
    coin at a rate (`conversion`), and lets its manager draw the coin and set
    the rate. The chain built-ins `issueAsset`, `payAsset` and `payCoin`
    change the chain's ledger inside the call.

## Modules

| Module | Models | State | Actions |
|---|---|---|---|
| `PagedIndex` | the paged-index helpers, as pure operators on an index value `[pages, value, pg]` | none | `AddPagesItem`, `SubPagesItem`, `CheckPageItemCode`, `ListAll` |
| `PagedSet` | `addAcceptanceToSku`, `delAcceptanceFromSku`, `setDocument` on one SKU's acceptance index and the documents index | `acps`, `docs` | one per handler |
| `Atp60Token` | the seller, tranches, SPUs, SKUs, ledger, allowances, authorization marks, acceptances, the two ledger indexes and the three listings `issue` writes | `trancheIds`, `skuInfo`, `trnSupply`, `ble`, `bleTrn`, `alw`, `authMark`, `skuTrns`, `holderTrns`, `acp`, `spus`, `spuSkus`, `trnSkus`, `skuAcps`, `sender` | `SetSeller`, `CreateSpu`, `SetSpu`, `SetSkusChoice`, `SetSku`, `CreateTranche`, `SetAcceptance`, `Issue`, `AdditionalIssuance`, `AssignToTranche`, `TransferFrom` (covers `transfer` too), `Approve`, `Destroy`, `SetAuthorizers`, `AuthorizeSku` |
| `Atp60Redemption` | `Atp60Token` composed with the redemption and dispute handlers, plus block time | adds `repn`, `dpt`, `evi`, `now` | `RequestRedemption`, `Redeem`, `ConfirmRedemption`, `ApplyDispute`, `SetEvidence`, `HandleDispute`, `Tick` |
| `RedemptionLifecycle` | the abstract redemption workflow of spec §4.5, per redemption slot | `life` (the phase), `dispute` (none, open, decided) | `Advance` (request, redeem, confirm, only with no dispute), `Open`, `Decide` |
| `ContractBasedToken` | `contractBasedToken.js` | `bal`, `alw`, `sender` | `Approve`, `Transfer`, `TransferFrom` |
| `Cobuild` | `cobuild.js`, with the DPOS contract as an abstract environment | `cob`, `allShares`, `pledgedShares`, `applied`, `disabled`, `offers`, `wd`; DPOS side: `coins`, `staked`, `exitAt`; and `now` | `Subscribe`, `Revoke`, `CoApply`, `CoAppend`, `Transfer`, `Accept`, `CoWithdraw`, `Poll`, `Takeback`, `CoExtract`, `CoExtractList`, `Disbanded` (main's early return once disabled), `Tick` |
| `SampleMap` | `map.js` | `keys`, `store` | `Put`, `Remove` (with the splice loop as the recursive operator `SpliceLoop`) |
| `SimplePayment` | `simplePayment.js` | `acct` | `Pay`, `CreateAccount`, `DeleteAccount` |
| `DemoToken` | `demoToken.js`, refined to `ContractBasedToken` | `bal`, `sender` | `DemoTransfer` |
| `IssueAsset` | `issueAsset.js` and the chain's ledger of its asset and coin | `circ`, `rate`, `asset`, `coin`, `sender` | `Issue`, `DrawCEG`, `Conversion`, `SetConversionRate` |
| `MCPagedSet`, `MCAtp60Token`, `MCAtp60Redemption`, `MCContractBasedToken`, `MCCobuild`, `MCSamples` | model values, sets and search bounds for TLC; `MCSamples` also composes the four samples | | |

How the code maps onto the modules:

- Each handler is one action. Its guard is the conjunction of the handler's
  asserts. Its effect is every store write the handler makes, including
  writes made by helpers it calls (`_checkSubBalance`, `_checkAddBalance`,
  `_checkAddPagesItem`).
- A store record that is absent (`Chain.load` returns `false`) is the model
  value `None`. `_loadNum` is `Load0`.
- An omitted optional `trnId` is `Omitted`, and `_checkTranche` turns it into
  `T0`.
- Helpers that write several records are record-to-record operators:
  - `Debit` is `_checkSubBalance` with the subtraction.
  - `Credit` is `_checkAddBalance`.
  - `CanDebit` is the checks of `_checkSubBalance`.
- The caller `c` stands for both `Chain.tx.sender` and `Chain.msg.sender`,
  which are equal for a direct call.
- `_checkAddr` passes for every holder: all holders are funded, valid
  addresses.

In `Cobuild`:

- A nested DPOS call, and the callback DPOS makes into the pool, happen
  inside the action of the handler that called DPOS:
  - `Distribute(cb, r)` is the `reward` callback paying `r`. `r = 0` means
    DPOS made no callback.
  - `Received` is the `refund` callback.
  - `DposWithdraw` is DPOS's answer to `withdraw`. The first call starts an
    exit of `ValidPeriod`. A call after the exit has expired refunds the
    stake. A call while the exit is pending changes nothing.
- The DPOS behaviour is an assumption about a contract that is not in this
  repository. The pool's side of every call is translated from the code.
- `cfg.unit` is one coin, so a share count and a coin amount are the same
  number. `coins` is the pool's balance above the base reserve.
- A `payCoin` the balance cannot cover fails the transaction, so every
  payment is a guard `coins >= amount`.
- `cobuilders[x][...]` of an absent `x` is a TypeError, which aborts the
  call. The model therefore has no separate branch for it.

Data abstraction:

- An id is a model value.
- A page is "full" in the code when `JSON.stringify(page).length +
  id.length > 256000`. For ids of one length this is "holds `PageCap` items",
  so `PageCap` stands for that number.
- `MaxPages` stands for the 2000-page ceiling. One page slot past it is kept,
  so that an overrun would be visible.
- Amounts are small naturals. `MaxSupply` is the largest int64 value, scaled
  down. The host's arithmetic is checked (spec §6 and §9), so an `int64Add`
  past the limit aborts the call. The guards of `Issue` (`stoI64Check`) and
  `AdditionalIssuance` (the totalSupply and the tranche-supply additions)
  are those aborts. The two additions are separate guards: `destroy` lowers
  totalSupply but not the tranche supply, so the second can overflow while
  the first does not. Balances never exceed totalSupply, so their additions
  cannot overflow first. The bound is also what keeps the model finite.
- The descriptive fields of the seller, an SPU and a SKU (names, types,
  attributes, icons, labels, the SPU's SKU choice) are opaque. `SetSeller`,
  `SetSpu`, `SetSkusChoice` and `SetSku` keep their guards and change no
  modelled record.
- Block time is a natural `now` in a window `0..MaxTime`, and a period is
  measured in the same unit. The only time the code reads is the age
  `now - sendTime` of a redemption. A block at `MaxTime` therefore leaves
  `now` and moves every send time back by one (`Aged`), down to `Horizon`,
  the age past every period. Time can grow without end in a finite model.
- The code scales a period to microseconds with three `int64Mul`. The scaled
  value is not modelled, but its overflow is: `PeriodLimit` is the largest
  period that fits (about 106751 days), and past it `confirmRedemption`
  aborts (`ScalesOK`).

## Runs

| Run | Checks | Expect | Shows |
|---|---|---|---|
| `pagedset` | `TypeOK`, `CountMatchesListing`, `NothingHiddenPastPageCount`, `WithinCeiling` | pass | The index count matches the listing. No entry is hidden past the page count after `_checkSubPagesItem` lowers it. The 2000-page ceiling holds. |
| `pagedset_set` | `IndexIsASet` | violation | The index is not the set of spec §4.2. `_checkAddArrayItem` tests "full" before "present", so re-adding an id that sits in a full page stores it twice. The membership test `_checkAddPageItem(false, ...)` says "present" for an absent id when the last page is full, and `authorizeSku` relies on that test. TLC reports the second, shorter trace first. |
| `token` | `TokenTypeOK`, `BalanceIsSumOfTranches`, `SupplyMatchesBalances`, `TrancheIndexMatchesBalances`, `SpendingIsAuthorized` | pass | The ledger invariants hold through every sequence of issue, reissue, assign, transfer, approve and destroy, interleaved with the SPU, SKU and seller handlers. The tranche lists of holders stay exact. No balance falls except by its owner or through a spent allowance. |
| `token_conservation` | `ConservationPerTranche` | violation | `destroy` lowers balances and totalSupply but not `sku_tranche_supply_`. |
| `token_default` | `MintOnlyIntoDefaultTranche` | violation | `additionalIssuance` without a `trnId` mints into tranche `"0"` even when the SKU has another default tranche. |
| `redemption` | `RedemptionTypeOK`, `DisputeMatchesRedemption`, `ImplementsLifecycle`, `AutoConfirmation` | pass | The six redemption handlers, interleaved with every token handler and with rewrites of the acceptance, refine the abstract lifecycle, in which redeem and confirmation move a redemption only while it has no dispute. A dispute decision and the redemption's status always agree. With blocks as the only fair step, a redeeming redemption that nobody disputes or settles becomes confirmable by a caller other than its applicant (spec §4.5 auto-confirmation), although the seller rewrites the period between 1 and 2 meanwhile. |
| `redemption_escrow` | `RedemptionEscrowed` | violation | `requestRedemption` calls `_checkSubBalance(..., false, ...)` and never debits. The redeemed tokens stay spendable, against spec §4.5. |
| `cbtoken` | `TypeOK`, `SupplyConserved`, `SpendingIsAuthorized` | pass | The balances always sum to `totalSupply`, self-transfers and zero balances included. A balance falls only by its owner's `transfer`, or by a `transferFrom` that lowers the spender's allowance by the same amount. `transfer` stores a stale `senderValue` after crediting `to`; the mutant without the `sender === to` return shows that the early return is what keeps this correct. |
| `cobuild` | `CobuildTypeOK`, `AllSharesAccounted`, `StakeMatchesPledge`, `NoPledgeWhileUnapplied` | pass | `allShares` equals the shares in the records. DPOS holds exactly `pledgedShares` while the pool is applied, and nothing after the refund. No record stays pledged once the pool is reset. These hold through every order of subscribes, revokes, pledges, share sales, votes, withdrawals and DPOS callbacks. |
| `cobuild_solvent` | `Solvent` | violation | The initiator sells its whole pledged share to a member who subscribed after `coApply`. `accept`'s full-sale branch has no unpledged-buyer check and keeps the buyer's flag, so the shares become revocable. The pool then owes more than it holds, while their coin is still at DPOS. |
| `samples` | `SamplesTypeOK`, `DemoImplementsContractBasedToken` | pass | Every call of each sample contract keeps its records well typed, which for `demoToken` means no balance goes negative. `demoToken` implements the contract-based token: its `init` is the token's `init`, and each of its transfers is a token transfer with no allowance in play. |
| `cobuild_tally` | `TallyWithinPledged` | violation | A member votes, sells the voted shares, and the buyer votes them again, so the tally exceeds `pledgedShares`. |

### Bounds

- **`MCPagedSet`**: three ids per index, `PageCap = 2`, `MaxPages = 2`. Pages
  fill, a second page opens, the ceiling is reached (a third id with both pages
  full) and removals empty pages out of order. Symmetry over the ids is sound,
  because no definition names an id.
- **`MCAtp60Token`**:
  - Two holders, one of them the seller. Two tranches (`"0"` and one more). One
    SKU and one acceptance.
  - Amounts of 1 and `MaxSupply = 2`. Two units let a balance be split across
    tranches and holders, and let destroy run after a transfer.
  - `PageCap = 3`, so indexes never fill. Full pages are the subject of the
    `MCPagedSet` runs.
  - `RecordBound` allows at most one allowance record and one authorization
    mark at a time. One spender relation exercises every branch of
    `transferFrom`.
  - One SPU, and `issue` is called naming it (`SpuArgs = {u1}`), so a SKU
    can only be issued after `createSpu`. The branch without an SPU runs in
    `MCAtp60Redemption` (`SpuArgs = {Omitted}`, no SPU ids). Issuing both
    ways in one run doubles a search that already takes two minutes.
- **`MCAtp60Redemption`**:
  - The same holders and SKU, one tranche, `MaxSupply = 1`, one redemption
    id (so one slot per holder), `MaxTime = 3`.
  - `Periods = {1, 2}`, so `setAcceptance` can rewrite the period of a
    redemption in flight, which is what `confirmRedemption` reads. A
    redemption sent at time 0 expires at time 2 or 3, so both branches of
    `confirmRedemption` occur. `MaxTime = 3` is `Max(Periods) + 1`, the
    narrowest window in which aging keeps every age apart.
  - `PeriodLimit = 2`: no period overflows, and `AutoConfirmation` is claimed
    only for such periods. With `PeriodLimit = 1` instead, TLC reports
    `AutoConfirmation` violated. A redemption redeemed under period 2 stays
    redeeming forever while blocks keep coming, because `_checkExpired`
    aborts every `confirmRedemption`, the applicant's included. That
    configuration is described here, not kept as a run.
  - The `redemption` run's constraint `LifecycleBound` leaves the seller's
    own slot unused. The seller holds the whole supply after `issue`, and
    its slot multiplies the search by more than ten. The `escrow` run,
    which needs two redemptions over the same tokens, keeps both slots.
  - `RedemptionBound` leaves out allowances, authorization marks and authorizer
    lists, which the redemption handlers never read; the `token` run checks
    them. It also keeps at most one evidence record.

- **`MCContractBasedToken`**:
  - The deployer and two other addresses, a supply of 2, and values 1 and 2.
    A value of 2 lets a whole balance move and lets a `transferFrom` exceed a
    smaller allowance.
  - `AllowanceBound` keeps at most two allowance records. This is one owner
    with two spenders, or two owners with one spender each.
- **`MCCobuild`**:
  - The initiator (1 initial share), and two more members `p` and `q`.
    `raiseShares = 2`, subscriptions of 1 share, and `MaxShares = 3`, so a
    member can subscribe after `coApply`.
  - Rewards are 0 or 1 per extract, and `MaxBalance = 3`. With a reward of 1
    over 2 pledged shares, the remainder path of `distribute` runs.
  - `ValidPeriod = 1` and `MaxTime = 2`. An exit started at time 0 expires
    at time 1, so `takeback` and the refund both happen, as do a second
    proposal and a pending-exit `withdraw`.
  - `OfferBound` keeps at most one share offer outstanding.
  - Transfer amounts include -1, so that the `shares >= 0` check of
    `transfer` has something to reject.
  - Symmetry over `{p, q}` is sound, because no definition names either.
  - `Disbanded` is `main`'s real early return once the pool is disabled.
    With it, a disbanded pool stutters instead of deadlocking, and deadlock
    stays checked.

- **`MCSamples`**: the four contracts share no state and never call each
  other, so `Init` picks one of them (`deployed`) and `Next` runs only that
  one's methods. The search covers the sum of the four state spaces instead
  of their product. Each property is about one contract, and it sees exactly
  that contract's behaviours, with the other contracts' variables fixed.
  - `map`: two keys, one value, lists of up to three keys (`MaxListed`). A
    key can be put twice in a row and then removed.
  - `simplePayment`: two accounts, amounts -1, 0 and 1, and balances within
    ±2 (`MaxBalance`).
  - `demoToken`: two addresses, a supply of 2, and values 1 and 2.
  - `issueAsset`: two accounts, one of them the manager, and one asset code.
    Init issues 2 units at rate 2. Issues are of 1, payments of 1 or 2 coin,
    and rates 1 or 2. A payment of 1 at rate 2 buys nothing.
    `MaxCirculation = 3` and `MaxCoin = 3`.

Both `MCAtp60Token` and `MCAtp60Redemption` set `VIEW MCView`, which leaves out
`sender`. This is sound because no guard reads `sender`. `SpendingIsAuthorized`
reads only its new value, which each action sets. So states that differ only in
`sender` have the same successors. `MCContractBasedToken` does the same for its
own `sender`.

### Fairness

No contract acts by itself: every other step is a transaction some party
chooses to send, and none of them is assumed to happen. The chain does keep
producing blocks, whatever the users do, so `Atp60Redemption` assumes
`WF_vars(Tick)` and nothing else (`FairSpec`). Under it, `AutoConfirmation`
says that time alone makes an undisputed redeeming redemption confirmable by
anyone. It does not claim that anyone confirms it. The check is sound under
`VIEW`, because no guard, and no `ENABLED` in the property, reads `sender`.

`Cobuild` assumes no fairness. Whether the stake ever comes back depends on
someone calling `takeback`, on the initiator not calling `coWithdraw` again,
and on DPOS, which is not in this repository.

TLC also shows one ordering that no property states. A passing `poll`
withdraws the stored proposal while keeping the expiration set when the vote
began (`cobuild.js:355`). DPOS's exit, by contrast, starts only at that
moment. So `takeback`'s test `now >= expiration` can pass while the exit is
still pending. The call then changes nothing, and a later `takeback`
refunds. The claim "a withdrawn proposal never expires before its DPOS exit"
fails in five steps. It is listed as a hazard rather than run, because no
state is lost.

## Refinement

`Atp60Redemption` defines `Lifecycle == INSTANCE RedemptionLifecycle WITH
life <- [k \in Slots |-> Phase(k)], dispute <- [k \in Slots |->
DisputeState(k)]`:

- `Phase` maps status 0, 1, 2 and 3 to `requested`, `redeeming`, `settled`
  and `favorApplicant`, and an absent record to `none`;
- `DisputeState` maps an absent dispute to `none`, status 0 to `open`, and
  a decision (1 or 2) to `decided`.

The dispute is a separate component, not a phase, so a `redeem` or a
`confirmRedemption` that ignored a dispute would be a step the abstract
spec forbids, not a stutter. The mutant that drops `redeem`'s dispute test
shows this.

The `redemption` run checks `Lifecycle!LifeSpec` as a property.

`DemoToken` defines `CBT == INSTANCE ContractBasedToken WITH TotalSupply <-
Supply, alw <- [p \in Addrs \X Addrs |-> None]`. `demoToken.js` has no
allowances, so every allowance record is absent. The `samples` run checks
`CBT!Spec` as a property. Every `demoToken` transfer is therefore a
`contractBasedToken` transfer, and what the `cbtoken` run shows about
transfers (conservation, no stale overwrite on a self-transfer) carries over.

## Not modelled

- **The contents of descriptive records**: the fields of the seller, SPUs
  and SKUs are opaque, as above. `setSpu` and `setSkusChoice` check no
  caller, unlike `createSpu` and `setSku`, so any funded address can rewrite
  an SPU. A one-call test shows this, and no spec statement restricts them.
- **The acceptance listing's own handlers in `Atp60Token`**:
  `addAcceptanceToSku` and `delAcceptanceFromSku` are modelled in `PagedSet`.
  `Atp60Token` has only the registration that `issue` makes.
- **`init` details**: the seller is fixed, and tranche `"0"` exists from the
  start.
- **Events (`Chain.tlog`), query handlers and text-field validation**.
- **A host whose `int64Add` wraps or returns `false`**: the model follows the
  checked arithmetic of the spec (`MaxSupply`, `PeriodLimit`).
- **`dex.js`**: it does not parse (`const 1BU` is not an identifier), so it
  cannot be deployed.
- **Sample queries and logs**: `query` changes no state. The JSON records
  that `issueAsset` writes under `initIssue`, `additionalIssue` and `drawCEG`
  are never read. The manager's non-zero balance, asserted by `init`, is
  assumed. `issueAsset`'s `query 'totaCirculation'` answers under the field
  `conversionRate`, which is a formatting slip with no effect on state.
- **A conversion rate of 0**: `setConversionRate` accepts `'0'` (it passes
  `stoI64Check`), and `conversion` would then divide by zero. What the
  host's `int64Div` does with that is not fixed by the code, so the rates
  in the model are positive.
- **Sample disagreements without a run**: the modules state these as
  properties, and TLC finds each one violated in at most three steps. They
  concern example contracts outside the system spec.md describes, so they
  are recorded here and in the hazards instead of as findings:
  - `SampleMap!ListedKeysStored`: `put k`, `put k`, `remove k` leaves `k`
    in `AllKeys` with no value. The splice loop of `remove` advances `i`
    after a splice and skips the second entry.
  - `SimplePayment!PayConserves`: `pay(a, a, x)` stores `a - x` and then the
    stale `a + x`, so paying oneself creates `x`.
  - `SimplePayment!OnlyPayerDebited`: a negative amount passes the payer
    check and debits the payee. An absent account reads as 0, so `pay`
    also creates accounts.
  - `IssueAsset!OnlyManagerIssues`: `main`'s `issue` method checks no
    caller. `drawCEG` and `setConversionRate` do check the manager.
- **`cobuild.js`**:
  - `coSetNodeAddress` and `coSetVoteDividend` only forward a call to DPOS.
  - The role, pool, ratio and node parameters are abstracted away.
  - The DPOS contract itself is not modelled. It is the abstract environment
    described above. A DPOS that slashes stake, or refunds without being
    asked, is not modelled.
- **`contractBasedToken.js`**: `query`, and the `approve` ordering race
  (listed as a hazard without a property).
- **Disagreements without a run**:
  - With full index pages, `additionalIssuance`'s unconditional index add
    lists a tranche twice in `tranchesOf`. This has the same root cause as
    `pagedset_set`.
  - `requestRedemption` passes `isDft = false`, so a holder cannot redeem
    tokens held in the SKU's default tranche, against spec §4.5. This comes
    from the same call as `redemption_escrow`.
  - A full sale by the `cobuild` initiator deletes `cobuilders[cfg.initiator]`.
    After that, every reward callback throws at line 88.

## Plan

Done:

1. `PagedIndex`, then `PagedSet`.
2. `Atp60Token`.
3. `Atp60Redemption`.
4. `RedemptionLifecycle` and the refinement.

5. `ContractBasedToken`.
6. `Cobuild` with an abstract DPOS.

7. Block time without end, `WF_vars(Tick)` and the auto-confirmation
   property; the overflow of `_checkExpired`.
8. The SPU handlers, `setSku`, `setSeller`, and the listings `issue` writes.
9. `MaxSupply` read as the checked int64 limit of the supply additions.
10. The four sample contracts, with `demoToken` refined to
    `ContractBasedToken`. The two paged-index violations became one
    statement of spec §4.2 (`IndexIsASet`).

Next:

1. An acceptance-rewrite property: a redemption can be redeemed by an acceptor
   other than the one current when it was requested.
2. An abstract share ledger for `Cobuild`, refined by the pool, as a statement
   of what a sale promises.
3. A host whose `int64Add` wraps, as a nondeterministic alternative to the
   abort, if a host of that kind is found.
