--------------------------- MODULE Atp60Redemption ---------------------------
(***************************************************************************)
(* The redemption and dispute workflow of atp60.js (requestRedemption,    *)
(* redeem, confirmRedemption, applyDispute, setEvidence, handleDispute)   *)
(* composed with the token store it reads: requestRedemption checks the   *)
(* caller's tranche balance through _checkSubBalance, redeem and          *)
(* confirmRedemption read the acceptance that setAcceptance may rewrite.  *)
(* Chain.block.timestamp is the variable now; a period is counted in the  *)
(* same unit as now (the code scales days to microseconds).  Only the age *)
(* now - sendTime of a redemption is ever read, so time is kept in the    *)
(* window 0..MaxTime: a block at MaxTime ages every redemption instead of *)
(* moving now, and an age past every period is one age.                   *)
(***************************************************************************)
EXTENDS Atp60Token

CONSTANTS RepnIds,     \* redemption ids
          MaxTime,     \* width of the time window explored
          PeriodLimit  \* the largest period whose scaling to microseconds
                       \* (period * 24 * 3600 * 1000000) fits in an int64

ASSUME MaxTime > Max(Periods) /\ PeriodLimit \in Nat

VARIABLES repn,      \* redemption_<id>_<applicant>
          dpt,       \* dispute_<id>_<applicant>
          evi,       \* evidence_<id>_<applicant>_<provider> records that exist
          now        \* Chain.block.timestamp

repnVars == <<repn, dpt, evi, now>>
vars == <<tokenVars, repnVars>>

Slots == RepnIds \X Holders

Init ==
    /\ TokenInit
    /\ repn = [k \in Slots |-> None]
    /\ dpt = [k \in Slots |-> None]
    /\ evi = {}
    /\ now = 0

\* The acceptor of a redemption: the address of its acceptance's public key.
AcceptorOf(k) == acp[repn[k].acp].acceptor

\* Mutant: the age computed as int64Sub(sendTime, now), operands swapped.
ExpiredSwapped(k) == repn[k].sendTime - now > acp[repn[k].acp].period

\* _checkExpired(period, sendTime): strictly more than one period has passed.
Expired(k) == now - repn[k].sendTime > acp[repn[k].acp].period

\* The three int64Mul of _checkExpired succeed; past PeriodLimit the host's
\* checked arithmetic signals overflow and the call aborts.
ScalesOK(k) == acp[repn[k].acp].period <= PeriodLimit

\* Mutant: the raw trancheId parameter is recorded, not the resolved one.
RequestRedemptionRawTranche(c, r, s, arg, v, a) ==
    /\ repn[r, c] = None
    /\ acp[a] # None
    /\ skuInfo[s] # None
    /\ TrancheOK(arg, skuInfo[s].dft, FALSE)
    /\ Resolve(arg) \in trancheIds
    /\ CanDebit(Book, c, c, s, Resolve(arg), v)
    /\ repn' = [repn EXCEPT ![r, c] = [sku |-> s, trn |-> arg, value |-> v,
                                       acp |-> a, status |-> 0, sendTime |-> None]]
    /\ sender' = c
    /\ UNCHANGED <<catalogVars, trancheIds, skuInfo, trnSupply, ble, bleTrn, alw, authMark,
                   skuTrns, holderTrns, acp, dpt, evi, now>>

\* requestRedemption: the caller's balance in the tranche is checked with
\* _checkSubBalance(..., false, false), which tests and does not debit;
\* the tranche must not be the SKU's default tranche when one is given.
RequestRedemption(c, r, s, arg, v, a) ==
    LET t == Resolve(arg) IN
    /\ repn[r, c] = None
    /\ acp[a] # None
    /\ skuInfo[s] # None
    /\ TrancheOK(arg, skuInfo[s].dft, FALSE)
    /\ t \in trancheIds
    /\ CanDebit(Book, c, c, s, t, v)
    /\ repn' = [repn EXCEPT ![r, c] = [sku |-> s, trn |-> t, value |-> v,
                                       acp |-> a, status |-> 0, sendTime |-> None]]
    /\ sender' = c
    /\ UNCHANGED <<catalogVars, trancheIds, skuInfo, trnSupply, ble, bleTrn, alw, authMark,
                   skuTrns, holderTrns, acp, dpt, evi, now>>

\* Mutant: redeem without the test that no dispute exists.
RedeemIgnoresDispute(c, r, apt) ==
    /\ repn[r, apt] # None
    /\ repn[r, apt].status = 0
    /\ c = AcceptorOf(<<r, apt>>)
    /\ repn' = [repn EXCEPT ![r, apt].status = 1, ![r, apt].sendTime = now]
    /\ sender' = c
    /\ UNCHANGED <<catalogVars, trancheIds, skuInfo, trnSupply, ble, bleTrn, alw, authMark,
                   skuTrns, holderTrns, acp, dpt, evi, now>>

\* redeem: the acceptor moves a requested redemption without a dispute to
\* "redeeming" (1) and records the send time.
Redeem(c, r, apt) ==
    /\ repn[r, apt] # None
    /\ repn[r, apt].status = 0
    /\ c = AcceptorOf(<<r, apt>>)
    /\ dpt[r, apt] = None
    /\ repn' = [repn EXCEPT ![r, apt].status = 1, ![r, apt].sendTime = now]
    /\ sender' = c
    /\ UNCHANGED <<catalogVars, trancheIds, skuInfo, trnSupply, ble, bleTrn, alw, authMark,
                   skuTrns, holderTrns, acp, dpt, evi, now>>

\* confirmRedemption: settles (2) a redeeming redemption without a dispute;
\* before the period has passed only the applicant may do it.  The expiry
\* is computed first, for every caller.
ConfirmRedemption(c, r, apt) ==
    /\ repn[r, apt] # None
    /\ repn[r, apt].status = 1
    /\ ScalesOK(<<r, apt>>)
    /\ ~Expired(<<r, apt>>) => c = apt
    /\ dpt[r, apt] = None
    /\ repn' = [repn EXCEPT ![r, apt].status = 2]
    /\ sender' = c
    /\ UNCHANGED <<catalogVars, trancheIds, skuInfo, trnSupply, ble, bleTrn, alw, authMark,
                   skuTrns, holderTrns, acp, dpt, evi, now>>

\* applyDispute: the seller or the applicant opens the one dispute of a
\* redemption in status 0 or 1, naming its controller.
ApplyDispute(c, r, apt, ctr) ==
    /\ c = Seller \/ c = apt
    /\ repn[r, apt] # None
    /\ repn[r, apt].status \in {0, 1}
    /\ dpt[r, apt] = None
    /\ dpt' = [dpt EXCEPT ![r, apt] = [status |-> 0, controller |-> ctr]]
    /\ sender' = c
    /\ UNCHANGED <<catalogVars, trancheIds, skuInfo, trnSupply, ble, bleTrn, alw, authMark,
                   skuTrns, holderTrns, acp, repn, evi, now>>

\* setEvidence: the applicant, the seller or the acceptor stores evidence
\* on a redemption that has a dispute (in any status).
SetEvidence(c, r, apt) ==
    /\ repn[r, apt] # None
    /\ c = apt \/ c = Seller \/ c = AcceptorOf(<<r, apt>>)
    /\ dpt[r, apt] # None
    /\ evi' = evi \cup {<<r, apt, c>>}
    /\ sender' = c
    /\ UNCHANGED <<catalogVars, trancheIds, skuInfo, trnSupply, ble, bleTrn, alw, authMark,
                   skuTrns, holderTrns, acp, repn, dpt, now>>

\* Mutant: the two outcomes are mapped to the wrong redemption statuses.
HandleDisputeSwapped(c, r, apt, sas) ==
    /\ repn[r, apt] # None
    /\ dpt[r, apt] # None
    /\ dpt[r, apt].controller = c
    /\ dpt[r, apt].status = 0
    /\ dpt' = [dpt EXCEPT ![r, apt].status = sas]
    /\ repn' = [repn EXCEPT ![r, apt].status = IF sas = 1 THEN 2 ELSE 3]
    /\ sender' = c
    /\ UNCHANGED <<catalogVars, trancheIds, skuInfo, trnSupply, ble, bleTrn, alw, authMark,
                   skuTrns, holderTrns, acp, evi, now>>

\* handleDispute: the controller decides an open dispute for the applicant
\* (1, redemption 3) or for the seller (2, redemption 2).
HandleDispute(c, r, apt, sas) ==
    /\ repn[r, apt] # None
    /\ dpt[r, apt] # None
    /\ dpt[r, apt].controller = c
    /\ dpt[r, apt].status = 0
    /\ dpt' = [dpt EXCEPT ![r, apt].status = sas]
    /\ repn' = [repn EXCEPT ![r, apt].status = IF sas = 1 THEN 3 ELSE 2]
    /\ sender' = c
    /\ UNCHANGED <<catalogVars, trancheIds, skuInfo, trnSupply, ble, bleTrn, alw, authMark,
                   skuTrns, holderTrns, acp, evi, now>>

\* The oldest send time that still tells every period apart.
Horizon == MaxTime - Max(Periods) - 1

\* A redemption seen one block later from a clock held at MaxTime.
Aged(rec) ==
    IF rec = None \/ rec.sendTime = None THEN rec
    ELSE [rec EXCEPT !.sendTime = IF @ > Horizon THEN @ - 1 ELSE @]

\* A new block: Chain.block.timestamp grows.
Tick ==
    /\ \/ /\ now < MaxTime
          /\ now' = now + 1
          /\ UNCHANGED repn
       \/ /\ now = MaxTime
          /\ repn' = [k \in Slots |-> Aged(repn[k])]
          /\ UNCHANGED now
    /\ UNCHANGED <<tokenVars, dpt, evi>>

RedemptionNext ==
    \E c \in Holders, r \in RepnIds :
        \/ \E s \in Skus, arg \in TrancheArgs, v \in Amounts, a \in AcpIds :
               RequestRedemption(c, r, s, arg, v, a)
        \/ \E apt \in Holders :
               \/ Redeem(c, r, apt)
               \/ ConfirmRedemption(c, r, apt)
               \/ \E ctr \in Holders : ApplyDispute(c, r, apt, ctr)
               \/ SetEvidence(c, r, apt)
               \/ \E sas \in {1, 2} : HandleDispute(c, r, apt, sas)

Next ==
    \/ TokenNext /\ UNCHANGED repnVars
    \/ RedemptionNext
    \/ Tick

Spec == Init /\ [][Next]_vars

\* Blocks keep being produced whatever the users do, so the one fair step
\* is Tick; no holder, acceptor, seller or controller is obliged to call.
Fairness == WF_vars(Tick)

FairSpec == Spec /\ Fairness

-----------------------------------------------------------------------------
(* Properties                                                              *)

RedemptionTypeOK ==
    /\ TokenTypeOK
    /\ \A k \in Slots :
        /\ repn[k] = None \/ repn[k] \in
              [sku : Skus, trn : Tranches, value : Amounts, acp : AcpIds,
               status : 0..3, sendTime : (0..MaxTime) \cup {None}]
        /\ dpt[k] = None \/ dpt[k] \in [status : 0..2, controller : Holders]
    /\ evi \subseteq RepnIds \X Holders \X Holders
    /\ now \in 0..MaxTime

\* A redemption's phase as spec 4.5 names its status: 0 requested, 1
\* redeeming, 2 settled, 3 decided for the applicant.
Phase(k) ==
    IF repn[k] = None THEN "none"
    ELSE CASE repn[k].status = 0 -> "requested"
           [] repn[k].status = 1 -> "redeeming"
           [] repn[k].status = 2 -> "settled"
           [] repn[k].status = 3 -> "favorApplicant"

\* The dispute of a slot: absent, open (status 0) or decided (1 or 2).
DisputeState(k) ==
    IF dpt[k] = None THEN "none"
    ELSE IF dpt[k].status = 0 THEN "open" ELSE "decided"

Lifecycle == INSTANCE RedemptionLifecycle
                 WITH life <- [k \in Slots |-> Phase(k)],
                      dispute <- [k \in Slots |-> DisputeState(k)]

\* The six handlers implement the lifecycle of spec 4.5: redeem and
\* confirmRedemption move a redemption only while it has no dispute,
\* applyDispute opens one dispute before settlement, handleDispute alone
\* ends a disputed redemption, and no call reopens a settled or decided
\* one.  The token handlers and setAcceptance, which rewrites the acceptor
\* and period the redemption handlers read, are interleaved throughout.
ImplementsLifecycle == Lifecycle!LifeSpec

\* A decided dispute and its redemption agree (handleDispute writes both):
\* for the applicant (1) the redemption is 3, for the seller (2) it is 2,
\* and a redemption is 3 only through such a decision.
DisputeMatchesRedemption ==
    \A k \in Slots :
        /\ dpt[k] # None => repn[k] # None
        /\ dpt[k] # None /\ dpt[k].status = 1 => repn[k].status = 3
        /\ dpt[k] # None /\ dpt[k].status = 2 => repn[k].status = 2
        /\ repn[k] # None /\ repn[k].status = 3 => dpt[k] # None /\ dpt[k].status = 1

\* spec 4.5 auto-confirmation: once the acceptor has moved a redemption to
\* redeeming, and unless someone disputes or settles it, it becomes
\* confirmable by a caller other than its applicant, although the seller
\* may rewrite the acceptance's period (confirmRedemption reads the period
\* as it is now) any number of times meanwhile.  Only blocks are assumed
\* to keep coming.  It is claimed for periods whose scaling in
\* _checkExpired fits an int64 (Periods within PeriodLimit): past that the
\* int64Mul aborts every confirmation, which the model shows as well.
AutoConfirmation ==
    \A r \in RepnIds, apt \in Holders :
        LET k == <<r, apt>> IN
        (repn[k] # None /\ repn[k].status = 1)
            ~> IF repn[k] = None THEN FALSE
               ELSE \/ repn[k].status # 1
                    \/ dpt[k] # None
                    \/ \E c \in Holders \ {apt} : ENABLED ConfirmRedemption(c, r, apt)

\* spec 4.5 (requestRedemption "immediately debits caller's tranche
\* balance"): tokens under a live or settled redemption are no longer in
\* any balance, so balances plus those values never exceed the supply.
RedemptionEscrowed ==
    \A s \in Skus : skuInfo[s] # None =>
        MapThenSumSet(LAMBDA h : Load0(ble[s, h]), Holders)
          + MapThenSumSet(LAMBDA k : IF repn[k] # None /\ repn[k].sku = s
                                         /\ repn[k].status \in {0, 1, 2}
                                     THEN repn[k].value ELSE 0, Slots)
          <= skuInfo[s].totalSupply

=============================================================================
