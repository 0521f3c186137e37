------------------------------ MODULE Cobuild ------------------------------
(***************************************************************************)
(* The co-building staking pool of src/src/contract/cobuild.js, composed   *)
(* with an abstract DPOS system contract.  Co-builders subscribe shares    *)
(* with coin; the initiator pledges all shares to DPOS (coApply, coAppend);*)
(* pledged shares are sold through transfer/accept; rewards come back      *)
(* through the 'reward' callback (distribute); a vote or the initiator     *)
(* starts a withdrawal and the stake comes back through the 'refund'       *)
(* callback (received).                                                    *)
(*                                                                         *)
(* cfg.unit is one coin: a share and a coin are the same number.  Each     *)
(* call of main is one atomic action; a nested DPOS call and the callback  *)
(* it makes into this contract happen inside the same action.  A failed   *)
(* assert or a TypeError (cobuilders[x][...] of an absent x), and a payCoin*)
(* the contract's balance cannot cover, disable the action.                *)
(***************************************************************************)
EXTENDS Integers, FiniteSetsExt

CONSTANTS
    Addrs,        \* valid accounts
    Initiator,    \* cfg.initiator, the sender of init
    InitShares,   \* initFund / unit
    RaiseShares,  \* cfg.raiseShares
    Shares,       \* share counts a caller may pass, all > 0
    ValidPeriod,  \* the DPOS configuration's valid_period
    MaxShares,    \* bound on allShares
    MaxReward,    \* bound on one reward payment of DPOS
    MaxBalance,   \* bound on the pool's balance, which rewards raise
    MaxTime,      \* bound on the block timestamp
    None          \* an absent record

ASSUME Initiator \in Addrs /\ InitShares \in Nat \ {0}
ASSUME RaiseShares \in Nat \ {0} /\ Shares \subseteq Nat \ {0}

VARIABLES
    cob,            \* the 'cobuilders' object: cob[a] is None or a record
    allShares,      \* states.allShares
    pledgedShares,  \* states.pledgedShares
    applied,        \* states.applied
    disabled,       \* states.disabled
    offers,         \* offers[<<f, t>>]: the 'transfer_f_to_t' record, 0 if absent
    wd,             \* the 'withdraw' proposal, or None
    coins,          \* the contract's balance above the base reserve
    staked,         \* DPOS: the coin pledged by this pool
    exitAt,         \* DPOS: when a pending exit may be refunded, or None
    now             \* Chain.block.timestamp

poolVars == <<cob, allShares, pledgedShares, applied, disabled, offers, wd>>
dposVars == <<coins, staked, exitAt>>
vars == <<poolVars, dposVars, now>>

Record == [share : Nat, pledged : BOOLEAN, award : Nat]
Proposal == [withdrawed : BOOLEAN, expiration : Nat, sum : Nat,
             ballot : [Addrs -> Nat \cup {None}]]

CobuildTypeOK ==
    /\ cob \in [Addrs -> Record \cup {None}]
    /\ allShares \in Nat /\ pledgedShares \in Nat
    /\ applied \in BOOLEAN /\ disabled \in BOOLEAN
    /\ offers \in [Addrs \X Addrs -> Nat]
    /\ wd \in Proposal \cup {None}
    /\ coins \in Nat /\ staked \in Nat
    /\ exitAt \in Nat \cup {None}
    /\ now \in 0..MaxTime

\* cobuilder(shares, isPledged)
Cobuilder(s, p) == [share |-> s, pledged |-> p, award |-> 0]

\* cobuilders[a][pledged]: false for a pledged === false record, a TypeError
\* (so a failed call) for an absent one; both disable the caller's action.
Pledged(a) == cob[a] # None /\ cob[a].pledged

Holders == {a \in Addrs : cob[a] # None}

\* init: the initiator's unpledged record of initFund / unit shares.
Init ==
    /\ cob = [a \in Addrs |-> IF a = Initiator THEN Cobuilder(InitShares, FALSE)
                                               ELSE None]
    /\ allShares = InitShares /\ pledgedShares = 0
    /\ applied = FALSE /\ disabled = FALSE
    /\ offers = [p \in Addrs \X Addrs |-> 0]
    /\ wd = None
    /\ coins = InitShares /\ staked = 0 /\ exitAt = None
    /\ now = 0

\* distribute(allReward), run by the DPOS 'reward' callback: every pledged
\* record gets (allReward div pledgedShares) * share and the initiator's
\* record the remainder.  A reward of 0 makes no callback.
Distribute(cb, r) ==
    IF r = 0 THEN cb
    ELSE LET unit == r \div pledgedShares
             left == r % pledgedShares
         IN [a \in Addrs |->
               IF cb[a] = None THEN None
               ELSE [cb[a] EXCEPT !.award =
                        @ + (IF cb[a].pledged THEN unit * cb[a].share ELSE 0)
                          + (IF a = Initiator THEN left ELSE 0)]]

\* The reward callback can run: DPOS pays only a pool that has stake, and
\* cobuilders[cfg.initiator][award] must exist.  MaxBalance bounds the
\* rewards of a behaviour.
DistributeOK(cb, r) ==
    r = 0 \/ (/\ staked > 0 /\ pledgedShares > 0 /\ cb[Initiator] # None
              /\ coins + r <= MaxBalance)

\* setStatus: applied, pledgedShares = allShares, every record pledged.
SetStatus(cb) ==
    [a \in Addrs |-> IF cb[a] = None THEN None ELSE [cb[a] EXCEPT !.pledged = TRUE]]

\* Mutant: resetStatus that leaves the records pledged.
ResetStatusKeepsPledge(cb) == cb

\* resetStatus: disabled, not applied, no pledged shares, no record pledged.
ResetStatus(cb) ==
    [a \in Addrs |-> IF cb[a] = None THEN None ELSE [cb[a] EXCEPT !.pledged = FALSE]]

\* received(), run by the DPOS 'refund' callback: DPOS returns the stake,
\* resetStatus runs and the withdraw record is deleted.
Received ==
    /\ cob' = ResetStatus(cob)
    /\ disabled' = TRUE /\ applied' = FALSE /\ pledgedShares' = 0
    /\ wd' = None
    /\ coins' = coins + staked /\ staked' = 0 /\ exitAt' = None
    /\ UNCHANGED <<allShares, offers>>

\* callDPOS('0', withdrawInput()) after the pool stored the proposal p (or
\* kept its withdraw record, p = wd).  DPOS starts an exit, refunds an exit
\* whose period has passed through the refund callback, or, for an exit
\* still pending, does nothing.
DposWithdraw(p) ==
    \/ /\ exitAt = None
       /\ exitAt' = now + ValidPeriod
       /\ wd' = p
       /\ UNCHANGED <<cob, allShares, pledgedShares, applied, disabled, offers,
                      coins, staked>>
    \/ /\ exitAt # None /\ now < exitAt
       /\ wd' = p
       /\ UNCHANGED <<cob, allShares, pledgedShares, applied, disabled, offers,
                      dposVars>>
    \/ /\ exitAt # None /\ now >= exitAt
       /\ Received

\* withdrawing(proposal): mark it withdrawed, save it, call DPOS withdraw.
Withdrawing(p) == DposWithdraw([p EXCEPT !.withdrawed = TRUE])

\* withdrawProposal(): a fresh proposal expiring valid_period from now.
NewProposal ==
    [withdrawed |-> FALSE, expiration |-> now + ValidPeriod, sum |-> 0,
     ballot |-> [a \in Addrs |-> None]]

-----------------------------------------------------------------------------
(* The handlers.  poll's early return for a caller who already voted     *)
(* changes nothing and is left out.                                         *)

\* main: once states.disabled is set, every method but revoke returns
\* 'Co-build is disband.' without changing anything.
Disbanded ==
    /\ disabled
    /\ UNCHANGED vars

\* subscribe(shares): coinAmount = unit * shares; a new record, or more
\* shares on the caller's unpledged one.
Subscribe(c, s) ==
    /\ ~disabled
    /\ allShares + s <= MaxShares
    /\ \/ /\ cob[c] = None
          /\ cob' = [cob EXCEPT ![c] = Cobuilder(s, FALSE)]
       \/ /\ cob[c] # None /\ ~cob[c].pledged
          /\ cob' = [cob EXCEPT ![c].share = @ + s]
    /\ allShares' = allShares + s
    /\ coins' = coins + s
    /\ UNCHANGED <<pledgedShares, applied, disabled, offers, wd, staked, exitAt, now>>

\* Mutant: revoke that does not lower states.allShares.
RevokeKeepsAllShares(c) ==
    /\ c = Initiator => disabled
    /\ cob[c] # None /\ ~cob[c].pledged
    /\ coins >= cob[c].share + cob[c].award
    /\ cob' = [cob EXCEPT ![c] = None]
    /\ coins' = coins - (cob[c].share + cob[c].award)
    /\ UNCHANGED <<allShares, pledgedShares, applied, disabled, offers, wd, staked, exitAt, now>>

\* revoke(): an unpledged co-builder (the initiator only once disabled)
\* deletes its record and is paid unit * share + award.
Revoke(c) ==
    /\ c = Initiator => disabled
    /\ cob[c] # None /\ ~cob[c].pledged
    /\ coins >= cob[c].share + cob[c].award
    /\ cob' = [cob EXCEPT ![c] = None]
    /\ allShares' = allShares - cob[c].share
    /\ coins' = coins - (cob[c].share + cob[c].award)
    /\ UNCHANGED <<pledgedShares, applied, disabled, offers, wd, staked, exitAt, now>>

\* coApply(role, pool, ratio, node) by the initiator, once allShares reaches
\* raiseShares: setStatus, then unit * allShares is paid to DPOS.
CoApply ==
    /\ ~disabled /\ ~applied
    /\ allShares >= RaiseShares
    /\ coins >= allShares
    /\ applied' = TRUE /\ pledgedShares' = allShares
    /\ cob' = SetStatus(cob)
    /\ coins' = coins - allShares /\ staked' = staked + allShares
    /\ UNCHANGED <<allShares, disabled, offers, wd, exitAt, now>>

\* Mutant: coAppend that pays DPOS allShares instead of the new shares.
CoAppendStakesAll ==
    /\ ~disabled /\ applied
    /\ allShares >= pledgedShares /\ coins >= allShares
    /\ pledgedShares' = allShares
    /\ cob' = SetStatus(cob)
    /\ coins' = coins - allShares /\ staked' = staked + allShares
    /\ UNCHANGED <<allShares, applied, disabled, offers, wd, exitAt, now>>

\* coAppend() by the initiator: the shares subscribed since the last pledge,
\* allShares - pledgedShares, are pledged and paid to DPOS.
CoAppend ==
    LET d == allShares - pledgedShares IN
    /\ ~disabled /\ applied
    /\ allShares >= pledgedShares /\ coins >= d
    /\ pledgedShares' = allShares
    /\ cob' = SetStatus(cob)
    /\ coins' = coins - d /\ staked' = staked + d
    /\ UNCHANGED <<allShares, applied, disabled, offers, wd, exitAt, now>>

\* Mutant: transfer without the check shares >= 0.
TransferAnyShares(c, to, s) ==
    /\ ~disabled
    /\ Pledged(c) /\ s <= cob[c].share
    /\ offers' = [offers EXCEPT ![<<c, to>>] = s]
    /\ UNCHANGED <<cob, allShares, pledgedShares, applied, disabled, wd, dposVars, now>>

\* transfer(to, shares): a pledged co-builder offers 0 <= shares <= its
\* share to to; shares = 0 deletes the offer.
Transfer(c, to, s) ==
    /\ ~disabled
    /\ s >= 0
    /\ Pledged(c) /\ s <= cob[c].share
    /\ offers' = [offers EXCEPT ![<<c, to>>] = s]
    /\ UNCHANGED <<cob, allShares, pledgedShares, applied, disabled, wd, dposVars, now>>

\* accept(transferor): the buyer c pays unit * shares for the offer
\* transfer_<tr>_to_<c>, and the coin goes on to the transferor.  Selling
\* the whole share first calls DPOS extract, whose reward callback r
\* distributes rewards, reloads cobuilders, adds the transferor's award to
\* its payment and deletes it; only a partial sale asserts that the buyer
\* has no unpledged record.  The buyer's record, new and pledged or
\* existing with its own pledged flag, then gains the shares.
Accept(c, tr, r) ==
    LET s == offers[<<tr, c>>]
        Buyer(cb) == IF cb[c] = None THEN [cb EXCEPT ![c] = Cobuilder(s, TRUE)]
                                     ELSE [cb EXCEPT ![c].share = @ + s]
    IN
    /\ ~disabled
    /\ Pledged(tr) /\ s # 0 /\ s <= cob[tr].share
    /\ \/ /\ cob[tr].share = s
          /\ DistributeOK(cob, r)
          /\ LET cb == Distribute(cob, r)
                 gain == cb[tr].award
             IN /\ coins + r >= gain
                /\ cob' = Buyer([cb EXCEPT ![tr] = None])
                /\ coins' = coins + r - gain
       \/ /\ cob[tr].share # s /\ r = 0
          /\ cob[c] # None => cob[c].pledged
          /\ cob' = Buyer([cob EXCEPT ![tr].share = @ - s])
          /\ UNCHANGED coins
    /\ offers' = [offers EXCEPT ![<<tr, c>>] = 0]
    /\ UNCHANGED <<allShares, pledgedShares, applied, disabled, wd, staked, exitAt, now>>

\* coWithdraw() by the initiator: when applied, a fresh proposal replaces
\* any stored one and is withdrawn at once; otherwise the pool is disabled.
CoWithdraw ==
    /\ ~disabled
    /\ \/ /\ applied
          /\ Withdrawing(NewProposal)
       \/ /\ ~applied
          /\ disabled' = TRUE
          /\ UNCHANGED <<cob, allShares, pledgedShares, applied, offers, wd, dposVars>>
    /\ UNCHANGED now

\* poll(): a pledged co-builder who has not voted adds its current share to
\* the ballot; the proposal is saved while pledgedShares div sum >= 2 and
\* withdrawn otherwise.
Poll(c) ==
    LET p0 == IF wd = None THEN NewProposal ELSE wd
        p1 == [p0 EXCEPT !.ballot[c] = cob[c].share, !.sum = @ + cob[c].share]
    IN
    /\ ~disabled /\ applied /\ Pledged(c)
    /\ p0.ballot[c] = None
    /\ \/ /\ pledgedShares \div p1.sum >= 2
          /\ wd' = p1
          /\ UNCHANGED <<cob, allShares, pledgedShares, applied, disabled, offers, dposVars>>
       \/ /\ pledgedShares \div p1.sum < 2
          /\ Withdrawing(p1)
    /\ UNCHANGED now

\* takeback(), by anyone: once the stored proposal is withdrawed and
\* expired, DPOS withdraw is called again.
Takeback ==
    /\ ~disabled
    /\ wd # None /\ wd.withdrawed /\ now >= wd.expiration
    /\ DposWithdraw(wd)
    /\ UNCHANGED now

\* coExtract() without a list: DPOS extract with reward callback r, reload,
\* then the caller is paid its award and the award is zeroed.
CoExtract(c, r) ==
    LET cb == Distribute(cob, r) IN
    /\ ~disabled
    /\ DistributeOK(cob, r)
    /\ cb[c] # None
    /\ coins + r >= cb[c].award
    /\ cob' = [cb EXCEPT ![c].award = 0]
    /\ coins' = coins + r - cb[c].award
    /\ UNCHANGED <<allShares, pledgedShares, applied, disabled, offers, wd, staked, exitAt, now>>

\* coExtract(list), by anyone: the same extract, then every listed
\* co-builder (each must have a record) is paid its award.
CoExtractList(L, r) ==
    LET cb == Distribute(cob, r)
        paid == MapThenSumSet(LAMBDA a : cb[a].award, L)
    IN
    /\ ~disabled
    /\ DistributeOK(cob, r)
    /\ \A a \in L : cb[a] # None
    /\ coins + r >= paid
    /\ cob' = [a \in Addrs |-> IF a \in L THEN [cb[a] EXCEPT !.award = 0] ELSE cb[a]]
    /\ coins' = coins + r - paid
    /\ UNCHANGED <<allShares, pledgedShares, applied, disabled, offers, wd, staked, exitAt, now>>

\* Block time advances.
Tick ==
    /\ now < MaxTime
    /\ now' = now + 1
    /\ UNCHANGED <<poolVars, dposVars>>

\* main(input): dispatch on input.method.
Next ==
    \/ \E c \in Addrs, s \in Shares : Subscribe(c, s)
    \/ \E c \in Addrs : Revoke(c)
    \/ CoApply
    \/ CoAppend
    \/ \E c, to \in Addrs, s \in {-1, 0} \cup Shares : Transfer(c, to, s)
    \/ \E c, tr \in Addrs, r \in 0..MaxReward : Accept(c, tr, r)
    \/ CoWithdraw
    \/ \E c \in Addrs : Poll(c)
    \/ Takeback
    \/ \E c \in Addrs, r \in 0..MaxReward : CoExtract(c, r)
    \/ \E L \in SUBSET Addrs, r \in 0..MaxReward : CoExtractList(L, r)
    \/ Tick
    \/ Disbanded

Spec == Init /\ [][Next]_vars

-----------------------------------------------------------------------------
SumOver(f(_), S) == MapThenSumSet(f, S)

Unpledged == {a \in Holders : ~cob[a].pledged}

\* states.allShares, which subscribe and revoke keep by hand, equals the
\* shares in the cobuilders records, through accepts that delete the
\* transferor, create the buyer or merge into an existing record.
AllSharesAccounted ==
    allShares = SumOver(LAMBDA a : cob[a].share, Holders)

\* What DPOS holds for the pool is the pledged shares while applied (coApply
\* pays allShares, coAppend the difference since the last pledge) and
\* nothing once the refund callback has reset the pool.
StakeMatchesPledge ==
    staked = IF applied THEN pledgedShares ELSE 0

\* No record is pledged while the pool has not applied: resetStatus
\* unpledges every record, and accept creates a pledged record only when
\* buying from a pledged transferor.
NoPledgeWhileUnapplied ==
    ~applied => \A a \in Holders : ~cob[a].pledged

\* The pool can always pay out what it owes from its own balance: the
\* unpledged shares that revoke repays and every award that revoke,
\* accept and coExtract pay.
Solvent ==
    coins >= SumOver(LAMBDA a : cob[a].share, Unpledged)
               + SumOver(LAMBDA a : cob[a].award, Holders)

\* The withdrawal vote of poll never counts more shares than are pledged:
\* each co-builder votes once with its share.
TallyWithinPledged ==
    wd # None => wd.sum <= pledgedShares
=============================================================================
