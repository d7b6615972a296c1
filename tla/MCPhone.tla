------------------------------- MODULE MCPhone -------------------------------
(* The phone as the relay of one-time codes (OtpRelay) and as a paired device  *)
(* (DevicePairing).  They share no variable; the initial state chooses one,    *)
(* and only that one steps.                                                    *)
EXTENDS OtpRelay, DevicePairing

CONSTANTS r1, a, b

VARIABLE part

PhoneInit ==
  /\ part \in {"relay", "pairing"} /\ Init /\ PairInit
  /\ part = "pairing" => requires2fa /\ paired

allVars == <<part, vars, pairVars>>

PhoneNext ==
  \/ part = "relay" /\ Next /\ UNCHANGED <<part, pairVars>>
  \/ part = "pairing" /\ PairNext /\ UNCHANGED <<part, vars>>

PhoneSpec == PhoneInit /\ [][PhoneNext]_allVars
=============================================================================
