------------------------- MODULE RedemptionLifecycle -------------------------
(***************************************************************************)
(* What the redemption workflow promises (spec 4.5), per redemption slot   *)
(* (redemption id, applicant).  A slot has a phase and, independently, a   *)
(* dispute.  The phase goes requested, redeeming, settled; redeem and      *)
(* confirmation move it only while no dispute exists.  A dispute is opened *)
(* once, before settlement, and its decision alone ends a disputed slot,   *)
(* as settled or in favour of the applicant.  Both ends are final.         *)
(***************************************************************************)
CONSTANTS Slots

VARIABLES life,     \* life[k]: the phase of slot k
          dispute   \* dispute[k]: "none", "open" or "decided"

Phases == {"none", "requested", "redeeming", "settled", "favorApplicant"}

lifeVars == <<life, dispute>>

LifeInit ==
    /\ life = [k \in Slots |-> "none"]
    /\ dispute = [k \in Slots |-> "none"]

\* The phase moves from one of from to to, with no dispute in existence.
Advance(k, from, to) ==
    /\ life[k] \in from
    /\ dispute[k] = "none"
    /\ life' = [life EXCEPT ![k] = to]
    /\ UNCHANGED dispute

\* A dispute is opened on a requested or redeeming slot that has none.
Open(k) ==
    /\ life[k] \in {"requested", "redeeming"}
    /\ dispute[k] = "none"
    /\ dispute' = [dispute EXCEPT ![k] = "open"]
    /\ UNCHANGED life

\* The open dispute is decided, and the decision ends the slot.
Decide(k, to) ==
    /\ dispute[k] = "open"
    /\ dispute' = [dispute EXCEPT ![k] = "decided"]
    /\ life' = [life EXCEPT ![k] = to]

LifeNext ==
    \E k \in Slots :
        \/ Advance(k, {"none"}, "requested")
        \/ Advance(k, {"requested"}, "redeeming")
        \/ Advance(k, {"redeeming"}, "settled")
        \/ Open(k)
        \/ \E to \in {"settled", "favorApplicant"} : Decide(k, to)

LifeSpec == LifeInit /\ [][LifeNext]_lifeVars

=============================================================================
