--------------------------- MODULE DevicePairing ---------------------------
(***************************************************************************)
(* Pairing a Companion phone and what the pairing is good for: the pairing *)
(* request that a phone claims and the owner approves, the device and the  *)
(* financial key minted together, the crawl bound to the device, the       *)
(* Companion's reads, its push registration and the wake-ups sent to it.   *)
(*                                                                         *)
(* The transactions that lock their first row FOR UPDATE are one step.     *)
(***************************************************************************)
EXTENDS Naturals, FiniteSets

CONSTANTS Phones, NoPhone,
          Intents,   \* pairing requests, made one after the other
          Devices,   \* bound: devices rows
          MaxToken   \* bound: push tokens the platform hands out

ASSUME PairingAssumption == NoPhone \notin Phones /\ Intents \in Nat /\ Devices \in Nat /\ MaxToken \in Nat

VARIABLES
  dIntent,  \* the device_pairing_intents row
  dDev,     \* the devices rows, each with its financial key
  dSess,    \* one crawl session and the call that binds it
  dRead,    \* devices with a Companion read in progress
  dToken,   \* the platform's newest push token, and the ones it has dropped
  dReg,     \* registrations on their way to the control plane
  dWake     \* one wake-up being sent

\* The columns approved_at, consumed_at, cancelled_at, and expires_at once it is past.
Marks == {"approved", "consumed", "cancelled", "expired"}

pairVars == <<dIntent, dDev, dSess, dRead, dToken, dReg, dWake>>

PairTypeOK ==
  /\ dIntent \in [id : 0..Intents, claim : Phones \cup {NoPhone}, shown : Phones \cup {NoPhone},
                  marks : SUBSET Marks]
  /\ dDev \in [1..Devices -> [st : {"none", "active", "revoked"}, key : {"live", "revoked"}, intent : 0..Intents,
                              phone : Phones \cup {NoPhone}, shown : Phones \cup {NoPhone}, push : 0..MaxToken]]
  /\ dSess \in [st : {"active", "cancelling", "ended"}, dev : 0..Devices, chosen : 0..Devices]
  /\ dRead \subseteq 1..Devices
  /\ dToken \in [newest : 0..MaxToken, dead : SUBSET (1..MaxToken)]
  /\ dReg \subseteq (1..Devices) \X (1..MaxToken)
  /\ dWake \in [pc : {"idle", "listed", "rejected"}, dev : 0..Devices, token : 0..MaxToken]

NewIntent(id) == [id |-> id, claim |-> NoPhone, shown |-> NoPhone, marks |-> {}]
Marked(mark) == [dIntent EXCEPT !.marks = @ \cup {mark}]
NoWake == [pc |-> "idle", dev |-> 0, token |-> 0]

PairInit ==
  /\ dIntent = NewIntent(0)
  /\ dDev = [d \in 1..Devices |-> [st |-> "none", key |-> "live", intent |-> 0, phone |-> NoPhone,
                                   shown |-> NoPhone, push |-> 0]]
  /\ dSess = [st |-> "active", dev |-> 0, chosen |-> 0]
  /\ dRead = {} /\ dReg = {}
  /\ dToken = [newest |-> 0, dead |-> {}]
  /\ dWake = NoWake

----------------------------------------------------------------------------
(* The pairing request.                                                    *)

PairingStatus ==
  IF dIntent.id = 0 THEN "none"
  ELSE IF "cancelled" \in dIntent.marks THEN "cancelled"
  ELSE IF "consumed" \in dIntent.marks THEN "used"
  ELSE IF "expired" \in dIntent.marks THEN "expired"
  ELSE IF "approved" \in dIntent.marks THEN "approved"
  ELSE IF dIntent.claim # NoPhone THEN "waiting_for_approval"
  ELSE "waiting_for_phone"

CreateIntent ==
  /\ PairingStatus \in {"none", "cancelled", "used", "expired"} /\ dIntent.id < Intents
  /\ dIntent' = NewIntent(dIntent.id + 1)
  /\ UNCHANGED <<dDev, dSess, dRead, dToken, dReg, dWake>>

ExpireIntent ==
  /\ dIntent.id # 0 /\ "expired" \notin dIntent.marks
  /\ dIntent' = Marked("expired")
  /\ UNCHANGED <<dDev, dSess, dRead, dToken, dReg, dWake>>

MayClaimAnytime(ph) == PairingStatus \in {"waiting_for_phone", "waiting_for_approval"}
\* The first phone to present the code keeps the request.
MayClaim(ph) == PairingStatus = "waiting_for_phone"

ClaimIntent(ph) ==
  /\ MayClaim(ph)
  /\ dIntent' = [dIntent EXCEPT !.claim = ph]
  /\ UNCHANGED <<dDev, dSess, dRead, dToken, dReg, dWake>>

\* The console shows the verification code of the claim it reads.
ShowIntent ==
  /\ PairingStatus = "waiting_for_approval" /\ dIntent.shown # dIntent.claim
  /\ dIntent' = [dIntent EXCEPT !.shown = dIntent.claim]
  /\ UNCHANGED <<dDev, dSess, dRead, dToken, dReg, dWake>>

\* The owner has compared the codes on both screens.
ApproveIntent ==
  /\ PairingStatus = "waiting_for_approval" /\ dIntent.shown # NoPhone
  /\ dIntent' = Marked("approved")
  /\ UNCHANGED <<dDev, dSess, dRead, dToken, dReg, dWake>>

\* UPDATE ... WHERE consumed_at IS NULL AND cancelled_at IS NULL: also when expired.
MayCancel == dIntent.id # 0 /\ "consumed" \notin dIntent.marks /\ "cancelled" \notin dIntent.marks

CancelIntent ==
  /\ MayCancel
  /\ dIntent' = Marked("cancelled")
  /\ UNCHANGED <<dDev, dSess, dRead, dToken, dReg, dWake>>

\* Completing happens once; a phone that lost its answer pairs again.
MayComplete(ph) == dIntent.claim = ph /\ "consumed" \notin dIntent.marks /\ PairingStatus = "approved"

CompleteIntent(ph) ==
  /\ MayComplete(ph)
  /\ dIntent' = Marked("consumed")
  /\ \E d \in 1..Devices :
       /\ dDev[d].st = "none" /\ \A e \in 1..(d - 1) : dDev[e].st # "none"
       /\ dDev' = [dDev EXCEPT ![d] = [st |-> "active", key |-> "live", intent |-> dIntent.id, phone |-> ph,
                                       shown |-> dIntent.shown, push |-> 0]]
  /\ UNCHANGED <<dSess, dRead, dToken, dReg, dWake>>

----------------------------------------------------------------------------
(* The crawl that goes through the phone.                                  *)

\* bindPairedDeviceToSession picks the newest active device outside the lock ...
ChooseDevice ==
  /\ dSess.st = "active" /\ dSess.dev = 0 /\ dSess.chosen = 0
  /\ \E d \in 1..Devices :
       /\ dDev[d].st = "active" /\ \A e \in (d + 1)..Devices : dDev[e].st # "active"
       /\ dSess' = [dSess EXCEPT !.chosen = d]
  /\ UNCHANGED <<dIntent, dDev, dRead, dToken, dReg, dWake>>

StillActiveUnchecked(d) == TRUE
StillActive(d) == dDev[d].st = "active"

\* ... and rechecks it under its row lock before it binds the session.
BindDevice ==
  /\ dSess.chosen # 0
  /\ dSess' = IF StillActive(dSess.chosen) THEN [dSess EXCEPT !.dev = dSess.chosen, !.chosen = 0]
              ELSE [dSess EXCEPT !.chosen = 0]
  /\ UNCHANGED <<dIntent, dDev, dRead, dToken, dReg, dWake>>

EndCrawl ==
  /\ dSess.st # "ended"
  /\ dSess' = [dSess EXCEPT !.st = "ended", !.chosen = 0]
  /\ UNCHANGED <<dIntent, dDev, dRead, dToken, dReg, dWake>>

----------------------------------------------------------------------------
(* The Companion's reads, and revocation.                                  *)

\* lockActiveApiKeyContext: the device, then the key, FOR SHARE.
StartRead(d) ==
  /\ dDev[d].st = "active" /\ dDev[d].key = "live" /\ d \notin dRead
  /\ dRead' = dRead \cup {d}
  /\ UNCHANGED <<dIntent, dDev, dSess, dToken, dReg, dWake>>

EndRead(d) ==
  /\ d \in dRead
  /\ dRead' = dRead \ {d}
  /\ UNCHANGED <<dIntent, dDev, dSess, dToken, dReg, dWake>>

\* An update waits for the share locks on its row.
RowFree(d) == d \notin dRead

\* One transaction: the device, its key, and the fence on its crawl.
RevokeDeviceAccess(d) ==
  /\ dDev[d].st = "active" /\ RowFree(d)
  /\ dDev' = [dDev EXCEPT ![d].st = "revoked", ![d].key = "revoked"]
  /\ dSess' = IF dSess.dev = d /\ dSess.st = "active" THEN [dSess EXCEPT !.st = "cancelling"] ELSE dSess
  /\ UNCHANGED <<dIntent, dRead, dToken, dReg, dWake>>

----------------------------------------------------------------------------
(* Push registration and wake-ups.                                         *)

\* The platform rotates the token and the phone posts it.
IssueToken(d) ==
  /\ dDev[d].st = "active" /\ dToken.newest < MaxToken
  /\ dToken' = [dToken EXCEPT !.newest = @ + 1, !.dead = 1..dToken.newest]
  /\ dReg' = dReg \cup {<<d, dToken.newest + 1>>}
  /\ UNCHANGED <<dIntent, dDev, dSess, dRead, dWake>>

\* The app starts, and posts the token it has cached.
RegisterCurrentToken(d) ==
  /\ dDev[d].st = "active" /\ dToken.newest # 0
  /\ dReg' = dReg \cup {<<d, dToken.newest>>}
  /\ UNCHANGED <<dIntent, dDev, dSess, dRead, dToken, dWake>>

\* updateDevicePush: a registration the phone gave up on may still arrive.
UpdateDevicePush(d, t) ==
  /\ <<d, t>> \in dReg
  /\ dReg' = dReg \ {<<d, t>>}
  /\ dDev' = IF dDev[d].st = "active" THEN [dDev EXCEPT ![d].push = t] ELSE dDev
  /\ UNCHANGED <<dIntent, dSess, dRead, dToken, dWake>>

ListTargets(d) ==
  /\ dWake.pc = "idle" /\ dDev[d].st = "active" /\ dDev[d].push # 0
  /\ dWake' = [pc |-> "listed", dev |-> d, token |-> dDev[d].push]
  /\ UNCHANGED <<dIntent, dDev, dSess, dRead, dToken, dReg>>

\* The provider rejects a dropped token; an outage is never a reason to clear.
SendWake ==
  /\ dWake.pc = "listed"
  /\ dWake' = IF dWake.token \in dToken.dead THEN [dWake EXCEPT !.pc = "rejected"] ELSE NoWake
  /\ UNCHANGED <<dIntent, dDev, dSess, dRead, dToken, dReg>>

ClearsAny(d) == dDev[d].st = "active"
\* Compare and clear.
Clears(d) == dDev[d].st = "active" /\ dDev[d].push = dWake.token

ClearDevicePushToken ==
  /\ dWake.pc = "rejected"
  /\ dDev' = IF Clears(dWake.dev) THEN [dDev EXCEPT ![dWake.dev].push = 0] ELSE dDev
  /\ dWake' = NoWake
  /\ UNCHANGED <<dIntent, dSess, dRead, dToken, dReg>>

----------------------------------------------------------------------------

PairNext ==
  \/ CreateIntent \/ ExpireIntent \/ ShowIntent \/ ApproveIntent \/ CancelIntent
  \/ \E ph \in Phones : ClaimIntent(ph) \/ CompleteIntent(ph)
  \/ ChooseDevice \/ BindDevice \/ EndCrawl
  \/ \E d \in 1..Devices :
       \/ StartRead(d) \/ EndRead(d) \/ RevokeDeviceAccess(d) \/ IssueToken(d)
       \/ RegisterCurrentToken(d) \/ ListTargets(d)
       \/ \E t \in 1..MaxToken : UpdateDevicePush(d, t)
  \/ SendWake \/ ClearDevicePushToken

PairSpec == PairInit /\ [][PairNext]_pairVars

----------------------------------------------------------------------------

\* The phone that is given credentials is the one whose code the owner was
\* looking at when approving, whoever else presented the pairing code.
PairedIsApproved == \A d \in 1..Devices : dDev[d].st # "none" => dDev[d].phone = dDev[d].shown

\* A pairing request becomes one device, however often it is completed.
OneDevicePerRequest ==
  \A i \in 1..Intents : Cardinality({d \in 1..Devices : dDev[d].st # "none" /\ dDev[d].intent = i}) <= 1

\* A cancelled request has given out nothing: cancelling and completing exclude
\* each other on the row.
CancelledGaveNothing == ~({"cancelled", "consumed"} \subseteq dIntent.marks)

\* No running crawl is bound to a revoked phone, also when the phone was chosen
\* before and bound after.
RevokedPhoneRunsNothing == dSess.dev # 0 /\ dDev[dSess.dev].st = "revoked" => dSess.st # "active"

\* When a revocation has committed no read under the device's key is running.
NoReadAfterRevoke == \A d \in dRead : dDev[d].st = "active"

\* A wake-up that fails clears the token it was sent to and no newer one.
NewerTokenSurvives ==
  [][\A d \in 1..Devices : dDev[d].push # 0 /\ dDev'[d].push = 0 => dDev[d].push \in dToken.dead]_pairVars

\* Pairing gives one device, to the phone the owner saw, and none once cancelled.
PairingIsSound == PairTypeOK /\ PairedIsApproved /\ OneDevicePerRequest /\ CancelledGaveNothing

\* A phone whose revocation has committed takes part in nothing any more.
RevokedIsOut == RevokedPhoneRunsNothing /\ NoReadAfterRevoke
=============================================================================
