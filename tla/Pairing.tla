------------------------------ MODULE Pairing ------------------------------
(***************************************************************************)
(* What the control server promises the rest of the agent: at most one     *)
(* headset is paired at a time, only the paired headset's requests have an *)
(* effect, and settings are taken only while it shares.                    *)
(***************************************************************************)
CONSTANTS Headsets, Nobody

VARIABLES
    paired,         \* the paired headset, or Nobody
    sharing         \* it has asked to be streamed to

pairingVars == <<paired, sharing>>

PairingInit == paired = Nobody /\ sharing = FALSE

Pair(h) ==
    /\ paired = Nobody
    /\ paired' = h
    /\ sharing' = FALSE

StartSharing(h) ==
    /\ paired = h
    /\ sharing' = TRUE
    /\ UNCHANGED paired

ChangeSettings(h) ==
    /\ paired = h /\ sharing
    /\ UNCHANGED pairingVars

StopSharing(h) ==
    /\ paired = h
    /\ sharing' = FALSE
    /\ UNCHANGED paired

\* The headset unpairs, falls silent, or is dropped by the operator.
Forget ==
    /\ paired # Nobody
    /\ paired' = Nobody
    /\ sharing' = FALSE

PairingNext ==
    \/ \E h \in Headsets :
          \/ Pair(h) \/ StartSharing(h) \/ ChangeSettings(h) \/ StopSharing(h)
    \/ Forget

PairingSpec == PairingInit /\ [][PairingNext]_pairingVars
=============================================================================
