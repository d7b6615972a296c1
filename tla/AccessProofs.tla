--------------------------- MODULE AccessProofs ----------------------------
(***************************************************************************)
(* Who is let in: phones that are paired and revoked, and the codes,       *)
(* grants and tokens of the OAuth server.                                  *)
(***************************************************************************)
EXTENDS DevicePairing, OAuthGrants, FiniteSetTheorems, WellFoundedInduction, TLAPS

-----------------------------------------------------------------------------
(***************************************************************************)
(* Pairing, revocation and push tokens for any number of phones, requests, *)
(* devices and tokens.                                                     *)
(*                                                                         *)
(* PairInv adds what the row of the request and the device rows owe each   *)
(* other: what the owner approved is what was shown, a request that has    *)
(* become a device is consumed, and a rejected token is a dropped one.     *)
(***************************************************************************)

\* The owner looks at the claim, and approves what was shown.
ShownIsClaim ==
  /\ dIntent.shown \in {NoPhone, dIntent.claim}
  /\ "approved" \in dIntent.marks => dIntent.shown = dIntent.claim

\* Devices of requests so far; the current one only if it was consumed.
DevicesOfRequests ==
  \A d \in 1..Devices : dDev[d].st # "none" =>
    dDev[d].intent <= dIntent.id /\ (dDev[d].intent = dIntent.id => "consumed" \in dIntent.marks)

\* OneDevicePerRequest, without counting.
RequestsApart ==
  \A d, e \in 1..Devices :
    dDev[d].st # "none" /\ dDev[e].st # "none" /\ dDev[d].intent = dDev[e].intent => d = e

\* A token that was rejected had been dropped; a device that is not there has none.
RejectedIsDead ==
  /\ dToken.dead \subseteq 1..dToken.newest
  /\ dWake.pc = "rejected" => dWake.token \in dToken.dead
  /\ \A d \in 1..Devices : dDev[d].st = "none" => dDev[d].push = 0

\* PairTypeOK, row by row.
IntentOK(x) ==
  x \in [id : 0..Intents, claim : Phones \cup {NoPhone}, shown : Phones \cup {NoPhone}, marks : SUBSET Marks]
DeviceRows == [st : {"none", "active", "revoked"}, key : {"live", "revoked"}, intent : 0..Intents,
               phone : Phones \cup {NoPhone}, shown : Phones \cup {NoPhone}, push : 0..MaxToken]
DevOK(D) == D \in [1..Devices -> DeviceRows]
SessOK(x) == x \in [st : {"active", "cancelling", "ended"}, dev : 0..Devices, chosen : 0..Devices]
TokenOK(x) == x \in [newest : 0..MaxToken, dead : SUBSET (1..MaxToken)]
WakeOK(x) == x \in [pc : {"idle", "listed", "rejected"}, dev : 0..Devices, token : 0..MaxToken]
RowsOK ==
  /\ IntentOK(dIntent) /\ DevOK(dDev) /\ SessOK(dSess) /\ TokenOK(dToken) /\ WakeOK(dWake)
  /\ dRead \subseteq 1..Devices
  /\ dReg \subseteq (1..Devices) \X (1..MaxToken)

PairInv ==
  /\ RowsOK /\ PairedIsApproved /\ CancelledGaveNothing
  /\ ShownIsClaim /\ DevicesOfRequests /\ RequestsApart
  /\ RevokedPhoneRunsNothing /\ NoReadAfterRevoke /\ RejectedIsDead

-----------------------------------------------------------------------------

\* A set whose members are all equal has at most one.
LEMMA AtMostOne == ASSUME NEW S, \A x, y \in S : x = y PROVE Cardinality(S) <= 1
<1>1. CASE S = {}
  BY <1>1, FS_EmptySet
<1>2. CASE S # {}
  <2>1. PICK x \in S : S = {x}
    BY <1>2
  <2> QED
    BY <2>1, FS_Singleton
<1> QED
  BY <1>1, <1>2

LEMMA CountedApart == RequestsApart => OneDevicePerRequest
<1> SUFFICES ASSUME RequestsApart, NEW i \in 1..Intents
             PROVE  Cardinality({d \in 1..Devices : dDev[d].st # "none" /\ dDev[d].intent = i}) <= 1
  BY DEF OneDevicePerRequest
<1>1. \A x, y \in {d \in 1..Devices : dDev[d].st # "none" /\ dDev[d].intent = i} : x = y
  BY DEF RequestsApart
<1> QED
  BY <1>1, AtMostOne

LEMMA RowsAreTypes == RowsOK => PairTypeOK
BY DEF RowsOK, PairTypeOK, IntentOK, DevOK, DeviceRows, SessOK, TokenOK, WakeOK

\* A column of a device written in place.
LEMMA PushWritten ==
  ASSUME DevOK(dDev), NEW d \in 1..Devices, NEW t \in 0..MaxToken, dDev' = [dDev EXCEPT ![d].push = t]
  PROVE  /\ DevOK(dDev')
         /\ \A e \in 1..Devices : /\ dDev'[e].st = dDev[e].st /\ dDev'[e].intent = dDev[e].intent
                                  /\ dDev'[e].phone = dDev[e].phone /\ dDev'[e].shown = dDev[e].shown
                                  /\ dDev'[e].push = IF e = d THEN t ELSE dDev[e].push
<1> DEFINE x == dDev[d]
           y == [st |-> x.st, key |-> x.key, intent |-> x.intent, phone |-> x.phone, shown |-> x.shown, push |-> t]
<1>1. x \in DeviceRows /\ dDev'[d] = [x EXCEPT !.push = t] /\ \A e \in 1..Devices : e # d => dDev'[e] = dDev[e]
  BY DEF DevOK
<1>2. dDev'[d] = y
  BY <1>1 DEF DeviceRows
<1>3. y \in DeviceRows
  BY <1>1 DEF DeviceRows
<1>4. DevOK(dDev')
  BY <1>1, <1>2, <1>3 DEF DevOK
<1> QED
  BY <1>1, <1>2, <1>4

LEMMA RevokedWritten ==
  ASSUME DevOK(dDev), NEW d \in 1..Devices, dDev' = [dDev EXCEPT ![d].st = "revoked", ![d].key = "revoked"]
  PROVE  /\ DevOK(dDev')
         /\ dDev'[d].st = "revoked"
         /\ \A e \in 1..Devices : /\ e # d => dDev'[e].st = dDev[e].st
                                  /\ dDev'[e].intent = dDev[e].intent /\ dDev'[e].phone = dDev[e].phone
                                  /\ dDev'[e].shown = dDev[e].shown /\ dDev'[e].push = dDev[e].push
<1> DEFINE x == dDev[d]
           y == [st |-> "revoked", key |-> "revoked", intent |-> x.intent, phone |-> x.phone,
                 shown |-> x.shown, push |-> x.push]
<1>1. /\ x \in DeviceRows /\ dDev'[d] = [x EXCEPT !.st = "revoked", !.key = "revoked"]
      /\ \A e \in 1..Devices : e # d => dDev'[e] = dDev[e]
  BY DEF DevOK
<1>2. dDev'[d] = y
  <2> DEFINE z == [x EXCEPT !.st = "revoked"]
  <2>1. z = [st |-> "revoked", key |-> x.key, intent |-> x.intent, phone |-> x.phone, shown |-> x.shown, push |-> x.push]
    BY <1>1 DEF DeviceRows
  <2>2. dDev'[d] = [z EXCEPT !.key = "revoked"]
    BY <1>1
  <2> HIDE DEF z
  <2> QED
    BY <2>1, <2>2
<1>3. y \in DeviceRows
  BY <1>1 DEF DeviceRows
<1>4. DevOK(dDev')
  BY <1>1, <1>2, <1>3 DEF DevOK
<1>5. /\ dDev'[d].st = "revoked" /\ dDev'[d].intent = x.intent /\ dDev'[d].phone = x.phone
      /\ dDev'[d].shown = x.shown /\ dDev'[d].push = x.push
  BY <1>2
<1> QED
  BY <1>1, <1>4, <1>5

\* The crawl session written in place.
LEMMA SessWritten ==
  ASSUME SessOK(dSess)
  PROVE  /\ dSess.dev \in 0..Devices /\ dSess.chosen \in 0..Devices
         /\ \A d \in 0..Devices :
              [dSess EXCEPT !.chosen = d] = [st |-> dSess.st, dev |-> dSess.dev, chosen |-> d]
         /\ [dSess EXCEPT !.dev = dSess.chosen, !.chosen = 0] = [st |-> dSess.st, dev |-> dSess.chosen, chosen |-> 0]
         /\ [dSess EXCEPT !.st = "ended", !.chosen = 0] = [st |-> "ended", dev |-> dSess.dev, chosen |-> 0]
         /\ [dSess EXCEPT !.st = "cancelling"] = [st |-> "cancelling", dev |-> dSess.dev, chosen |-> dSess.chosen]
<1>1. dSess.dev \in 0..Devices /\ dSess.chosen \in 0..Devices
  BY DEF SessOK
<1>2. ASSUME NEW d \in 0..Devices
      PROVE  [dSess EXCEPT !.chosen = d] = [st |-> dSess.st, dev |-> dSess.dev, chosen |-> d]
  BY DEF SessOK
<1>3. [dSess EXCEPT !.dev = dSess.chosen, !.chosen = 0] = [st |-> dSess.st, dev |-> dSess.chosen, chosen |-> 0]
  <2> DEFINE z == [dSess EXCEPT !.dev = dSess.chosen]
  <2>1. z = [st |-> dSess.st, dev |-> dSess.chosen, chosen |-> dSess.chosen]
    BY DEF SessOK
  <2>2. [dSess EXCEPT !.dev = dSess.chosen, !.chosen = 0] = [z EXCEPT !.chosen = 0]
    OBVIOUS
  <2> HIDE DEF z
  <2> QED
    BY <2>1, <2>2
<1>4. [dSess EXCEPT !.st = "ended", !.chosen = 0] = [st |-> "ended", dev |-> dSess.dev, chosen |-> 0]
  <2> DEFINE z == [dSess EXCEPT !.st = "ended"]
  <2>1. z = [st |-> "ended", dev |-> dSess.dev, chosen |-> dSess.chosen]
    BY DEF SessOK
  <2>2. [dSess EXCEPT !.st = "ended", !.chosen = 0] = [z EXCEPT !.chosen = 0]
    OBVIOUS
  <2> HIDE DEF z
  <2> QED
    BY <2>1, <2>2
<1>5. [dSess EXCEPT !.st = "cancelling"] = [st |-> "cancelling", dev |-> dSess.dev, chosen |-> dSess.chosen]
  BY DEF SessOK
<1> QED
  BY <1>1, <1>2, <1>3, <1>4, <1>5

LEMMA PairInitHolds == PairInit => PairInv
<1> SUFFICES ASSUME PairInit PROVE PairInv
  OBVIOUS
<1> USE PairingAssumption DEF PairInit
<1>1. RowsOK
  BY DEF RowsOK, IntentOK, DevOK, DeviceRows, SessOK, TokenOK, WakeOK, NewIntent, NoWake
<1> QED
  BY <1>1 DEF PairInv, PairedIsApproved, CancelledGaveNothing, ShownIsClaim, DevicesOfRequests,
     RequestsApart, NewIntent, NoWake,
              RevokedPhoneRunsNothing, NoReadAfterRevoke, RejectedIsDead

\* The steps on the request's row alone.
IntentStep ==
  \/ CreateIntent \/ ExpireIntent \/ ShowIntent \/ ApproveIntent \/ CancelIntent
  \/ \E ph \in Phones : ClaimIntent(ph)

\* createPairingIntent, claim, approval, cancellation and expiry change one row.
LEMMA IntentKeeps == PairInv /\ IntentStep => PairInv'
<1> SUFFICES ASSUME PairInv, IntentStep PROVE PairInv'
  OBVIOUS
<1> USE PairingAssumption DEF PairInv
<1>0. UNCHANGED <<dDev, dSess, dRead, dToken, dReg, dWake>>
  BY DEF IntentStep, CreateIntent, ExpireIntent, ShowIntent, ApproveIntent, CancelIntent, ClaimIntent
<1>1. IntentOK(dIntent) /\ ShownIsClaim /\ CancelledGaveNothing /\ dIntent.id \in 0..Intents
  BY DEF RowsOK, IntentOK
<1>2. /\ IntentOK(dIntent') /\ ShownIsClaim' /\ CancelledGaveNothing'
      /\ dIntent'.id >= dIntent.id
      /\ dIntent'.id = dIntent.id /\ "consumed" \in dIntent.marks => "consumed" \in dIntent'.marks
  <2>1. CASE CreateIntent
    <3>1. dIntent' = NewIntent(dIntent.id + 1) /\ dIntent.id < Intents
      BY <2>1 DEF CreateIntent
    <3> QED
      BY <1>1, <3>1 DEF NewIntent, IntentOK, ShownIsClaim, CancelledGaveNothing
  <2>2. ASSUME NEW m \in {"expired", "approved", "cancelled"}, dIntent' = Marked(m),
               m = "approved" => dIntent.shown = dIntent.claim,
               m = "cancelled" => "consumed" \notin dIntent.marks
        PROVE  <1>2
    <3>1. /\ dIntent'.id = dIntent.id /\ dIntent'.claim = dIntent.claim /\ dIntent'.shown = dIntent.shown
          /\ dIntent'.marks = dIntent.marks \cup {m}
          /\ IntentOK(dIntent')
      BY <1>1, <2>2 DEF Marked, IntentOK, Marks
    <3> QED
      BY <1>1, <2>2, <3>1 DEF ShownIsClaim, CancelledGaveNothing
  <2>3. CASE ShowIntent
    <3>1. dIntent' = [dIntent EXCEPT !.shown = dIntent.claim]
      BY <2>3 DEF ShowIntent
    <3>2. /\ dIntent'.id = dIntent.id /\ dIntent'.claim = dIntent.claim /\ dIntent'.shown = dIntent.claim
          /\ dIntent'.marks = dIntent.marks /\ IntentOK(dIntent')
      BY <1>1, <3>1 DEF IntentOK
    <3> QED
      BY <1>1, <3>2 DEF ShownIsClaim, CancelledGaveNothing
  <2>4. CASE ApproveIntent
    <3>1. dIntent.shown = dIntent.claim
      BY <1>1, <2>4 DEF ApproveIntent, ShownIsClaim
    <3> QED
      BY <2>2, <2>4, <3>1 DEF ApproveIntent
  <2>5. CASE CancelIntent \/ ExpireIntent
    BY <2>2, <2>5 DEF CancelIntent, MayCancel, ExpireIntent
  <2>6. ASSUME NEW ph \in Phones, ClaimIntent(ph) PROVE <1>2
    <3>1. dIntent.claim = NoPhone /\ "approved" \notin dIntent.marks
      BY <2>6 DEF ClaimIntent, MayClaim, PairingStatus
    <3>2. /\ dIntent'.id = dIntent.id /\ dIntent'.claim = ph /\ dIntent'.shown = dIntent.shown
          /\ dIntent'.marks = dIntent.marks /\ IntentOK(dIntent')
      BY <1>1, <2>6 DEF ClaimIntent, IntentOK
    <3> QED
      BY <1>1, <3>1, <3>2 DEF ShownIsClaim, CancelledGaveNothing
  <2> QED
    BY <2>1, <2>3, <2>4, <2>5, <2>6 DEF IntentStep
<1>3. RowsOK'
  BY <1>0, <1>2 DEF RowsOK
<1>4. DevicesOfRequests'
  <2> SUFFICES ASSUME NEW d \in 1..Devices, dDev[d].st # "none"
               PROVE  dDev[d].intent <= dIntent'.id /\ (dDev[d].intent = dIntent'.id => "consumed" \in dIntent'.marks)
    BY <1>0 DEF DevicesOfRequests
  <2>1. dDev[d].intent \in Nat /\ dIntent.id \in Nat /\ dIntent'.id \in Nat
    BY <1>1, <1>2 DEF RowsOK, DevOK, DeviceRows, IntentOK
  <2> QED
    BY <1>2, <2>1 DEF DevicesOfRequests
<1> QED
  BY <1>0, <1>2, <1>3, <1>4 DEF PairedIsApproved, RequestsApart, RevokedPhoneRunsNothing,
                                NoReadAfterRevoke, RejectedIsDead

\* completePairingIntent: the device is new, and the first of its request.
LEMMA CompleteKeeps == ASSUME PairInv, NEW ph \in Phones, CompleteIntent(ph) PROVE PairInv'
<1> USE PairingAssumption DEF PairInv
<1> DEFINE new(d) == [st |-> "active", key |-> "live", intent |-> dIntent.id, phone |-> ph,
                      shown |-> dIntent.shown, push |-> 0]
<1>1. PICK d \in 1..Devices : dDev[d].st = "none" /\ dDev' = [dDev EXCEPT ![d] = new(d)]
  BY DEF CompleteIntent
<1>2. /\ "approved" \in dIntent.marks /\ dIntent.claim = ph
      /\ "consumed" \notin dIntent.marks /\ "cancelled" \notin dIntent.marks
      /\ dIntent' = Marked("consumed")
      /\ UNCHANGED <<dSess, dRead, dToken, dReg, dWake>>
  BY DEF CompleteIntent, MayComplete, PairingStatus
<1>3. /\ dDev'[d] = new(d) /\ (\A e \in 1..Devices : e # d => dDev'[e] = dDev[e])
  BY <1>1 DEF RowsOK, DevOK
<1>a. /\ dIntent'.id = dIntent.id /\ dIntent'.claim = dIntent.claim /\ dIntent'.shown = dIntent.shown
      /\ dIntent'.marks = dIntent.marks \cup {"consumed"} /\ IntentOK(dIntent')
  BY <1>2 DEF RowsOK, Marked, IntentOK, Marks
<1>4. RowsOK'
  <2>1. new(d) \in DeviceRows
    BY DEF RowsOK, IntentOK, DeviceRows
  <2>2. DevOK(dDev')
    BY <1>1, <2>1 DEF RowsOK, DevOK
  <2> QED
    BY <1>2, <1>a, <2>2 DEF RowsOK
<1>5. PairedIsApproved' /\ ShownIsClaim' /\ CancelledGaveNothing'
  BY <1>1, <1>2, <1>3, <1>a DEF PairedIsApproved, ShownIsClaim, CancelledGaveNothing
<1>6. DevicesOfRequests'
  <2> SUFFICES ASSUME NEW e \in 1..Devices, dDev'[e].st # "none" PROVE dDev'[e].intent <= dIntent.id
    BY <1>a DEF DevicesOfRequests
  <2>1. dIntent.id \in Nat
    BY DEF RowsOK, IntentOK
  <2> QED
    BY <1>3, <2>1 DEF DevicesOfRequests
<1>7. RequestsApart'
  BY <1>1, <1>2, <1>3 DEF RequestsApart, DevicesOfRequests
<1>8. RevokedPhoneRunsNothing' /\ NoReadAfterRevoke' /\ RejectedIsDead'
  <2>1. dSess.dev \in 0..Devices /\ dRead \subseteq 1..Devices
    BY DEF RowsOK, SessOK
  <2>2. RevokedPhoneRunsNothing'
    BY <1>2, <1>3, <2>1 DEF RevokedPhoneRunsNothing
  <2>3. NoReadAfterRevoke' /\ RejectedIsDead'
    BY <1>1, <1>2, <1>3, <2>1 DEF NoReadAfterRevoke, RejectedIsDead
  <2> QED
    BY <2>2, <2>3
<1> QED
  BY <1>4, <1>5, <1>6, <1>7, <1>8

\* The crawl's binding and the Companion's reads leave devices and tokens alone.
LEMMA UseKeeps ==
  ASSUME PairInv,
         ChooseDevice \/ BindDevice \/ EndCrawl \/ (\E d \in 1..Devices : StartRead(d) \/ EndRead(d))
  PROVE  PairInv'
<1> USE PairingAssumption DEF PairInv
<1>0. UNCHANGED <<dIntent, dDev, dToken, dReg, dWake>>
  BY DEF ChooseDevice, BindDevice, EndCrawl, StartRead, EndRead
<1>1. SessOK(dSess) /\ dRead \subseteq 1..Devices
  BY DEF RowsOK
<1>2. SessOK(dSess') /\ dRead' \subseteq 1..Devices /\ RevokedPhoneRunsNothing' /\ NoReadAfterRevoke'
  <2>1. CASE ChooseDevice
    <3>1. PICK d \in 1..Devices : dSess' = [dSess EXCEPT !.chosen = d]
      BY <2>1 DEF ChooseDevice
    <3>2. SessOK(dSess') /\ dSess'.st = dSess.st /\ dSess'.dev = dSess.dev /\ dRead' = dRead
      BY <1>1, <2>1, <3>1, SessWritten DEF ChooseDevice, SessOK
    <3> QED
      BY <1>0, <1>1, <3>2 DEF RevokedPhoneRunsNothing, NoReadAfterRevoke
  <2>2. CASE BindDevice
    <3>1. /\ SessOK(dSess') /\ dSess'.st = dSess.st /\ dRead' = dRead
          /\ dSess'.dev = dSess.dev \/ (dSess'.dev = dSess.chosen /\ dDev[dSess.chosen].st = "active")
      BY <1>1, <2>2, SessWritten DEF BindDevice, StillActive, SessOK
    <3> QED
      BY <1>0, <1>1, <3>1 DEF RevokedPhoneRunsNothing, NoReadAfterRevoke
  <2>3. CASE EndCrawl
    <3>1. SessOK(dSess') /\ dSess'.st = "ended" /\ dRead' = dRead
      BY <1>1, <2>3, SessWritten DEF EndCrawl, SessOK
    <3> QED
      BY <1>0, <1>1, <3>1 DEF RevokedPhoneRunsNothing, NoReadAfterRevoke
  <2>4. ASSUME NEW d \in 1..Devices, StartRead(d) \/ EndRead(d) PROVE <1>2
    BY <1>1, <2>4 DEF StartRead, EndRead, RevokedPhoneRunsNothing, NoReadAfterRevoke
  <2> QED
    BY <2>1, <2>2, <2>3, <2>4
<1> QED
  BY <1>0, <1>2 DEF RowsOK, PairedIsApproved, CancelledGaveNothing, ShownIsClaim, DevicesOfRequests,
     RequestsApart,
                    RejectedIsDead

\* revokeDeviceAccess waits for the reads, and fences the crawl with the device.
LEMMA RevokeKeeps == ASSUME PairInv, NEW d \in 1..Devices, RevokeDeviceAccess(d) PROVE PairInv'
<1> USE PairingAssumption DEF PairInv
<1>1. /\ dDev[d].st = "active" /\ d \notin dRead
      /\ dDev' = [dDev EXCEPT ![d].st = "revoked", ![d].key = "revoked"]
      /\ dSess' = IF dSess.dev = d /\ dSess.st = "active" THEN [dSess EXCEPT !.st = "cancelling"] ELSE dSess
      /\ UNCHANGED <<dIntent, dRead, dToken, dReg, dWake>>
  BY DEF RevokeDeviceAccess, RowFree
<1>2. /\ DevOK(dDev')
      /\ dDev'[d].st = "revoked"
      /\ \A e \in 1..Devices : /\ e # d => dDev'[e].st = dDev[e].st
                               /\ dDev'[e].intent = dDev[e].intent /\ dDev'[e].phone = dDev[e].phone
                               /\ dDev'[e].shown = dDev[e].shown /\ dDev'[e].push = dDev[e].push
  <2>1. DevOK(dDev)
    BY DEF RowsOK
  <2> QED
    BY <1>1, <2>1, RevokedWritten
<1>a. /\ SessOK(dSess') /\ dSess.dev \in 0..Devices /\ dSess'.dev = dSess.dev
      /\ dSess'.st = "active" => dSess.st = "active" /\ dSess.dev # d
  <2>1. SessOK(dSess)
    BY DEF RowsOK
  <2> QED
    BY <1>1, <2>1, SessWritten DEF SessOK
<1>3. RowsOK'
  BY <1>1, <1>2, <1>a DEF RowsOK
<1>4. PairedIsApproved' /\ CancelledGaveNothing' /\ ShownIsClaim' /\ DevicesOfRequests' /\ RequestsApart'
  <2>1. /\ dIntent' = dIntent
        /\ \A e \in 1..Devices : dDev'[e].st # "none" => dDev[e].st # "none"
    BY <1>1, <1>2
  <2>2. PairedIsApproved' /\ CancelledGaveNothing' /\ ShownIsClaim'
    BY <1>2, <2>1 DEF PairedIsApproved, CancelledGaveNothing, ShownIsClaim
  <2>3. DevicesOfRequests' /\ RequestsApart'
    BY <1>2, <2>1 DEF DevicesOfRequests, RequestsApart
  <2> QED
    BY <2>2, <2>3
<1>5. RevokedPhoneRunsNothing'
  BY <1>2, <1>a DEF RevokedPhoneRunsNothing
<1>6. NoReadAfterRevoke' /\ RejectedIsDead'
  BY <1>1, <1>2, ZenonT(60) DEF NoReadAfterRevoke, RejectedIsDead, RowsOK
<1> QED
  BY <1>3, <1>4, <1>5, <1>6

\* Push registration and wake-ups change a token at most.
TokenStep ==
  \/ \E d \in 1..Devices :
       \/ IssueToken(d) \/ RegisterCurrentToken(d) \/ ListTargets(d)
       \/ \E t \in 1..MaxToken : UpdateDevicePush(d, t)
  \/ SendWake \/ ClearDevicePushToken

\* Only the push column of a device is written, and cleared only of a dropped token.
PushOnly ==
  /\ UNCHANGED <<dIntent, dSess, dRead>>
  /\ RowsOK' /\ RejectedIsDead'
  /\ \A e \in 1..Devices : /\ dDev'[e].st = dDev[e].st /\ dDev'[e].intent = dDev[e].intent
                           /\ dDev'[e].phone = dDev[e].phone /\ dDev'[e].shown = dDev[e].shown
                           /\ dDev[e].push # 0 /\ dDev'[e].push = 0 => dDev[e].push \in dToken.dead

LEMMA TokenTouches == PairInv /\ TokenStep => PushOnly
<1> SUFFICES ASSUME PairInv, TokenStep PROVE PushOnly
  OBVIOUS
<1> USE PairingAssumption DEF PairInv
<1>0. RowsOK /\ RejectedIsDead /\ TokenOK(dToken) /\ DevOK(dDev) /\ WakeOK(dWake)
  BY DEF RowsOK
<1>1. ASSUME NEW d \in 1..Devices, IssueToken(d) PROVE PushOnly
  <2>1. dToken.newest \in 0..MaxToken /\ dToken.newest < MaxToken /\ dToken.dead \subseteq 1..dToken.newest
    BY <1>0, <1>1 DEF IssueToken, TokenOK, RejectedIsDead
  <2>2. /\ dToken' = [dToken EXCEPT !.newest = @ + 1, !.dead = 1..dToken.newest]
        /\ dReg' = dReg \cup {<<d, dToken.newest + 1>>}
        /\ UNCHANGED <<dIntent, dDev, dSess, dRead, dWake>>
    BY <1>1 DEF IssueToken
  <2>3. TokenOK(dToken') /\ dToken'.newest = dToken.newest + 1 /\ dToken'.dead = 1..dToken.newest
    <3>1. dToken' = [newest |-> dToken.newest + 1, dead |-> 1..dToken.newest]
      BY <1>0, <2>2 DEF TokenOK
    <3>2. 1..dToken.newest \in SUBSET (1..MaxToken) /\ dToken.newest + 1 \in 0..MaxToken
      BY <2>1
    <3> QED
      BY <3>1, <3>2 DEF TokenOK
  <2>4. dReg' \subseteq (1..Devices) \X (1..MaxToken)
    BY <1>0, <2>1, <2>2 DEF RowsOK
  <2>5. RowsOK'
    BY <1>0, <2>2, <2>3, <2>4 DEF RowsOK
  <2>6. RejectedIsDead'
    BY <1>0, <2>1, <2>2, <2>3 DEF RejectedIsDead
  <2> QED
    BY <2>2, <2>5, <2>6 DEF PushOnly
<1>2. ASSUME NEW d \in 1..Devices, RegisterCurrentToken(d) PROVE PushOnly
  <2>1. dToken.newest \in 1..MaxToken
    BY <1>0, <1>2 DEF RegisterCurrentToken, TokenOK
  <2>2. dReg' = dReg \cup {<<d, dToken.newest>>} /\ UNCHANGED <<dIntent, dDev, dSess, dRead, dToken, dWake>>
    BY <1>2 DEF RegisterCurrentToken
  <2>3. RowsOK'
    BY <1>0, <2>1, <2>2 DEF RowsOK
  <2> QED
    BY <1>0, <2>2, <2>3 DEF PushOnly, RejectedIsDead
<1>3. ASSUME WakeOK(dWake'), dWake'.pc = "rejected" => dWake'.token \in dToken.dead,
             UNCHANGED <<dIntent, dDev, dSess, dRead, dToken, dReg>>
      PROVE  PushOnly
  <2>1. RowsOK'
    BY <1>0, <1>3 DEF RowsOK
  <2> QED
    BY <1>0, <1>3, <2>1 DEF PushOnly, RejectedIsDead
<1>4. ASSUME NEW d \in 1..Devices, ListTargets(d) PROVE PushOnly
  <2>1. dDev[d].push \in 0..MaxToken
    BY <1>0 DEF DevOK, DeviceRows
  <2>2. WakeOK(dWake') /\ dWake'.pc = "listed"
    BY <1>4, <2>1 DEF ListTargets, WakeOK
  <2> QED
    BY <1>3, <1>4, <2>2 DEF ListTargets
<1>5. NoWake.pc = "idle" /\ WakeOK(NoWake)
  BY DEF NoWake, WakeOK
<1>6. CASE SendWake
  <2>1. CASE dWake' = NoWake
    BY <1>3, <1>5, <1>6, <2>1 DEF SendWake
  <2>2. CASE dWake.token \in dToken.dead /\ dWake' = [dWake EXCEPT !.pc = "rejected"]
    <3>1. WakeOK(dWake') /\ dWake'.token = dWake.token
      BY <1>0, <2>2 DEF WakeOK
    <3> QED
      BY <1>3, <1>6, <2>2, <3>1 DEF SendWake
  <2> QED
    BY <1>6, <2>1, <2>2 DEF SendWake
<1>7. ASSUME NEW d \in 1..Devices, NEW t \in 0..MaxToken, dDev[d].st = "active",
             dDev' = [dDev EXCEPT ![d].push = t], t = 0 => dDev[d].push \in dToken.dead,
             dReg' \subseteq dReg, WakeOK(dWake'), dWake'.pc = "rejected" => dWake' = dWake,
             UNCHANGED <<dIntent, dSess, dRead, dToken>>
      PROVE  PushOnly
  <2>1. /\ DevOK(dDev')
        /\ \A e \in 1..Devices : /\ dDev'[e].st = dDev[e].st /\ dDev'[e].intent = dDev[e].intent
                                 /\ dDev'[e].phone = dDev[e].phone /\ dDev'[e].shown = dDev[e].shown
                                 /\ dDev'[e].push = IF e = d THEN t ELSE dDev[e].push
    BY <1>0, <1>7, PushWritten
  <2>2. RowsOK'
    BY <1>0, <1>7, <2>1 DEF RowsOK
  <2>3. RejectedIsDead'
    BY <1>0, <1>7, <2>1 DEF RejectedIsDead
  <2> QED
    BY <1>7, <2>1, <2>2, <2>3 DEF PushOnly
<1>8. ASSUME NEW d \in 1..Devices, NEW t \in 1..MaxToken, UpdateDevicePush(d, t) PROVE PushOnly
  <2>1. dReg' \subseteq dReg /\ UNCHANGED <<dIntent, dSess, dRead, dToken, dWake>>
    BY <1>8 DEF UpdateDevicePush
  <2>2. CASE dDev[d].st = "active"
    <3>1. dDev' = [dDev EXCEPT ![d].push = t] /\ t \in 0..MaxToken /\ t # 0
      BY <1>8, <2>2 DEF UpdateDevicePush
    <3>2. WakeOK(dWake') /\ dWake' = dWake
      BY <1>0, <2>1
    <3> QED
      BY <1>7, <2>1, <2>2, <3>1, <3>2
  <2>3. CASE dDev' = dDev
    <3>1. RowsOK'
      BY <1>0, <2>1, <2>3 DEF RowsOK
    <3> QED
      BY <1>0, <2>1, <2>3, <3>1 DEF PushOnly, RejectedIsDead
  <2> QED
    BY <1>8, <2>2, <2>3 DEF UpdateDevicePush
<1>9. CASE ClearDevicePushToken
  <2>1. /\ dWake.token \in dToken.dead /\ dWake.dev \in 0..Devices /\ dWake' = NoWake
        /\ UNCHANGED <<dIntent, dSess, dRead, dToken, dReg>>
    BY <1>0, <1>9 DEF ClearDevicePushToken, RejectedIsDead, WakeOK
  <2>2. CASE dDev' = dDev
    BY <1>3, <1>5, <2>1, <2>2
  <2>3. CASE Clears(dWake.dev) /\ dDev' = [dDev EXCEPT ![dWake.dev].push = 0]
    <3>1. CASE dWake.dev \in 1..Devices
      <4>1. /\ dDev[dWake.dev].st = "active" /\ dDev[dWake.dev].push \in dToken.dead
            /\ dReg' \subseteq dReg /\ 0 \in 0..MaxToken
        BY <2>1, <2>3 DEF Clears
      <4>2. WakeOK(dWake') /\ dWake'.pc # "rejected"
        BY <1>5, <2>1
      <4> QED
        BY <1>7, <2>1, <2>3, <3>1, <4>1, <4>2
    <3>2. CASE dWake.dev \notin 1..Devices
      <4>1. dDev' = dDev
        BY <1>0, <2>3, <3>2 DEF DevOK
      <4> QED
        BY <1>3, <1>5, <2>1, <4>1
    <3> QED
      BY <3>1, <3>2
  <2> QED
    BY <1>9, <2>2, <2>3 DEF ClearDevicePushToken
<1> QED
  BY <1>1, <1>2, <1>4, <1>6, <1>8, <1>9 DEF TokenStep

LEMMA TokenKeeps == PairInv /\ TokenStep => PairInv'
<1> SUFFICES ASSUME PairInv, TokenStep PROVE PairInv'
  OBVIOUS
<1>1. PushOnly
  BY TokenTouches
<1>2. PairedIsApproved' /\ CancelledGaveNothing' /\ ShownIsClaim' /\ DevicesOfRequests' /\ RequestsApart'
  BY <1>1 DEF PushOnly, PairInv, PairedIsApproved, CancelledGaveNothing, ShownIsClaim, DevicesOfRequests,
     RequestsApart
<1>3. RevokedPhoneRunsNothing' /\ NoReadAfterRevoke'
  BY <1>1 DEF PushOnly, PairInv, RowsOK, SessOK, RevokedPhoneRunsNothing, NoReadAfterRevoke
<1> QED
  BY <1>1, <1>2, <1>3 DEF PushOnly, PairInv

-----------------------------------------------------------------------------

\* Each step of the control plane and of the phones is one of the above.
LEMMA NextIsOne ==
  PairNext => \/ IntentStep \/ TokenStep
              \/ \E ph \in Phones : CompleteIntent(ph)
              \/ ChooseDevice \/ BindDevice \/ EndCrawl \/ \E d \in 1..Devices : StartRead(d) \/ EndRead(d)
              \/ \E d \in 1..Devices : RevokeDeviceAccess(d)
BY DEF PairNext, IntentStep, TokenStep

LEMMA PairInvAlways == PairSpec => []PairInv
<1>1. PairInv /\ [PairNext]_pairVars => PairInv'
  <2>1. CASE UNCHANGED pairVars
    BY <2>1 DEF pairVars, PairInv, RowsOK, PairedIsApproved, CancelledGaveNothing, ShownIsClaim,
       DevicesOfRequests, RequestsApart,
                RevokedPhoneRunsNothing, NoReadAfterRevoke, RejectedIsDead
  <2>2. PairInv /\ PairNext => PairInv'
    BY NextIsOne, IntentKeeps, TokenKeeps, CompleteKeeps, UseKeeps, RevokeKeeps
  <2> QED
    BY <2>1, <2>2
<1> QED
  BY <1>1, PairInitHolds, PTL DEF PairSpec

\* A request becomes one device at most, of the phone the owner saw, and none
\* after a cancellation (device-pairing.ts), for any number of phones.
THEOREM PairingSound == PairSpec => []PairingIsSound
<1>1. PairInv => PairingIsSound
  BY CountedApart, RowsAreTypes DEF PairInv, PairingIsSound
<1> QED
  BY <1>1, PairInvAlways, PTL

\* No crawl runs over, and no read runs under, a device whose revocation has
\* committed (bindPairedDeviceToSession, lockActiveApiKeyContext).
THEOREM RevokedOut == PairSpec => []RevokedIsOut
<1>1. PairInv => RevokedIsOut
  BY DEF PairInv, RevokedIsOut
<1> QED
  BY <1>1, PairInvAlways, PTL

\* clearDevicePushToken never clears a token the platform still delivers to.
THEOREM NewerSurvives == PairSpec => NewerTokenSurvives
<1>1. PairInv /\ [PairNext]_pairVars
        => [\A d \in 1..Devices : dDev[d].push # 0 /\ dDev'[d].push = 0 => dDev[d].push \in dToken.dead]_pairVars
  <2> SUFFICES ASSUME PairInv, PairNext, NEW d \in 1..Devices, dDev[d].push # 0, dDev'[d].push = 0
               PROVE  dDev[d].push \in dToken.dead
    OBVIOUS
  <2>1. CASE TokenStep
    BY <2>1, TokenTouches DEF PushOnly
  <2>2. ASSUME NEW ph \in Phones, CompleteIntent(ph) PROVE FALSE
    <3>1. PICK e \in 1..Devices : /\ dDev[e].st = "none"
                                  /\ \A f \in 1..Devices : f # e => dDev'[f] = dDev[f]
      BY <2>2 DEF CompleteIntent, PairInv, RowsOK, DevOK
    <3> QED
      BY <3>1 DEF PairInv, RejectedIsDead
  <2>3. CASE IntentStep
    BY <2>3 DEF IntentStep, CreateIntent, ExpireIntent, ShowIntent, ApproveIntent, CancelIntent, ClaimIntent
  <2>4. CASE ChooseDevice \/ BindDevice \/ EndCrawl \/ \E e \in 1..Devices : StartRead(e) \/ EndRead(e)
    BY <2>4 DEF ChooseDevice, BindDevice, EndCrawl, StartRead, EndRead
  <2>5. ASSUME NEW e \in 1..Devices, RevokeDeviceAccess(e) PROVE FALSE
    <3>1. DevOK(dDev) /\ dDev' = [dDev EXCEPT ![e].st = "revoked", ![e].key = "revoked"]
      BY <2>5 DEF RevokeDeviceAccess, PairInv, RowsOK
    <3> QED
      BY <3>1, RevokedWritten
  <2> QED
    BY <2>1, <2>2, <2>3, <2>4, <2>5, NextIsOne
<1> QED
  BY <1>1, PairInvAlways, PTL DEF PairSpec, NewerTokenSurvives

-----------------------------------------------------------------------------
(***************************************************************************)
(* The OAuth server, for any number of codes, requests, grants and tokens. *)
(***************************************************************************)

ConsentRecords == [pc : {"away", "picker", "approving"}, signed : Times, expires : Times, age : Times,
                   error : BOOLEAN]
CodeRecords == [st : {"none", "issued", "consumed", "deleted"}, expires : Times, age : Times]
GrantRecords == [st : {"none", "active", "revoked", "deleted"}, code : Codes \cup {"none"}, expires : Times,
                 notices : 0..2]
TokenRecords == [grant : {0} \cup Grants, from : {0} \cup Pairs, keyExpires : 0..(MaxTime + GrantTTL),
                 keyRevoked : BOOLEAN, consumed : BOOLEAN, revoked : BOOLEAN, late : BOOLEAN]
RequestRecords == [pc : Steps, code : Codes \cup {"none"}, pair : {0} \cup Pairs, grant : {0} \cup Grants,
                   spent : BOOLEAN, dead : BOOLEAN, flipped : BOOLEAN, explicit : BOOLEAN,
                   keys : SUBSET Pairs, toks : SUBSET Pairs]

OAuthRecords ==
  /\ oNow \in 0..MaxTime /\ oClient \in {"none", "live", "disabled"} /\ oBrowser \in ConsentRecords
  /\ oCode \in [Codes -> CodeRecords] /\ oGrant \in [Grants -> GrantRecords]
  /\ oPair \in [Pairs -> TokenRecords] /\ oReq \in [Reqs -> RequestRecords]

\* The ticket of the consent screen is as old as its password.
TicketOfPassword ==
  /\ oBrowser.signed <= oNow
  /\ oBrowser.pc = "picker" => oBrowser.expires <= oBrowser.signed + TicketTTL
  /\ oBrowser.pc = "approving" => oBrowser.age < TicketTTL

\* A grant's code is spent, on that grant alone.
CodeOfGrant ==
  /\ \A g \in Grants : oGrant[g].code \in Codes => oCode[oGrant[g].code].st \in {"consumed", "deleted"}
  /\ \A g, h \in Grants : oGrant[g].code = oGrant[h].code /\ oGrant[g].code \in Codes => g = h

\* The owner is told of a revocation when the row has become revoked.
NoticeOfRow ==
  \A g \in Grants : /\ oGrant[g].notices <= 1 /\ oGrant[g].expires <= MaxTime + GrantTTL
                    /\ oGrant[g].st \in {"none", "active"} => oGrant[g].notices = 0

\* A key ends with its grant's window; a key that outlives a cascade came late.
KeyOfGrant ==
  \A p \in Pairs : oPair[p].grant # 0 =>
    /\ oGrant[oPair[p].grant].st # "none" /\ oPair[p].keyExpires <= oGrant[oPair[p].grant].expires
    /\ oGrant[oPair[p].grant].st = "revoked" /\ ~oPair[p].keyRevoked => oPair[p].late

\* A token with a successor is consumed, and has that one successor.
TokenChain ==
  /\ \A p \in Pairs : oPair[p].from # 0 => oPair[oPair[p].from].grant # 0 /\ oPair[oPair[p].from].consumed
  /\ \A p, q \in Pairs : oPair[p].from = oPair[q].from /\ oPair[p].from # 0 => p = q

LockSteps == {"rvKeys", "rvToks", "rvCommit"}

\* What a request that has come this far has read, and what still holds of it.
RequestFits(y) ==
  /\ y.pc \in {"exAuth", "exRead"} =>
       y.code \in Codes /\ oCode[y.code].st # "none" /\ (oClient = "disabled" => oCode[y.code].st = "deleted")
  /\ y.pc \in {"rfAuth", "rfToken", "rfLive"} => y.pair \in Pairs
  /\ y.pc \in {"rfToken", "rfLive", "rvFlip"} \cup LockSteps => y.grant \in Grants /\ oGrant[y.grant].st # "none"
  /\ y.pc \in LockSteps /\ y.flipped => oGrant[y.grant].st \in {"active", "deleted"}
  /\ y.pc \in {"rvToks", "rvCommit"} =>
       \A p \in Pairs : oPair[p].grant = y.grant /\ ~oPair[p].keyRevoked => p \in y.keys \/ oPair[p].late

\* A grant's row is locked by one revocation.
LocksApart ==
  \A r, s \in Reqs : oReq[r].pc \in LockSteps /\ oReq[s].pc \in LockSteps /\ oReq[r].grant = oReq[s].grant => r = s

OAuthInv ==
  /\ OAuthRecords /\ TicketOfPassword /\ ConsentIsRecent /\ CodeOfGrant /\ NoticeOfRow /\ KeyOfGrant
  /\ TokenChain /\ LocksApart /\ NothingUnderDisabled
  /\ \A r \in Reqs : RequestFits(oReq[r])

LEMMA LeastNat ==
  ASSUME NEW S, S \subseteq Nat, S # {}
  PROVE  \E x \in S : \A y \in S : x <= y
<1> DEFINE R == OpToRel(<, Nat)
<1>1. IsWellFoundedOn(R, Nat)
  BY NatLessThanWellFounded
<1>2. \A x, y \in Nat : <<y, x>> \in R <=> y < x
  BY DEF OpToRel
<1> HIDE DEF R
<1>3. \E x \in S : \A y \in S : ~(<<y, x>> \in R)
  BY <1>1, WFMin
<1>4. PICK x \in S : \A y \in S : ~(<<y, x>> \in R)
  BY <1>3
<1>5. ASSUME NEW y \in S PROVE x <= y
  <2>1. x \in Nat /\ y \in Nat
    OBVIOUS
  <2>2. ~(y < x)
    BY <1>2, <1>4, <2>1
  <2> QED
    BY <2>1, <2>2
<1> QED
  BY <1>5

LEMMA AtMostOneOf ==
  ASSUME NEW S, \A x, y \in S : x = y PROVE Cardinality(S) <= 1
<1>1. CASE S = {}
  BY <1>1, FS_EmptySet
<1>2. ASSUME NEW x \in S PROVE Cardinality(S) <= 1
  <2>1. S = {x}
    OBVIOUS
  <2> QED
    BY <2>1, FS_Singleton
<1> QED
  BY <1>1, <1>2

\* The next pair is a free one.
LEMMA NextPairIsFree == FreePairs # {} => NextPair \in FreePairs
<1> SUFFICES ASSUME FreePairs # {} PROVE NextPair \in FreePairs
  OBVIOUS
<1>1. FreePairs \subseteq Nat
  BY OAuthAssumption DEF FreePairs, Pairs
<1>2. \E p \in FreePairs : \A q \in FreePairs : p <= q
  BY <1>1, LeastNat
<1> QED
  BY <1>2 DEF NextPair

LEMMA OAuthRecordsAreTypes == OAuthRecords <=> OAuthTypeOK
BY DEF OAuthRecords, OAuthTypeOK, ConsentRecords, CodeRecords, GrantRecords, TokenRecords, RequestRecords

\* The clock and the lifetimes stay within Times.
LEMMA TimesFit ==
  /\ MaxTime \in Nat /\ TicketTTL \in Nat /\ CodeTTL \in Nat /\ AccessTTL \in Nat /\ GrantTTL \in Nat
  /\ \A t \in 0..MaxTime : /\ t \in Times /\ t + TicketTTL \in Times /\ t + CodeTTL \in Times /\ t + GrantTTL \in Times
  /\ Times \subseteq Nat /\ 0 \in Times
BY OAuthAssumption DEF Times

LEMMA NoRequestFits == NoRequest \in RequestRecords /\ RequestFits(NoRequest) /\ NoRequest.pc = "idle"
BY DEF NoRequest, RequestRecords, RequestFits, Steps, LockSteps

----------------------------------------------------------------------------
\* The client, the clock and the consent screen.

ConsentSteps ==
  ClockTick \/ RegisterClient \/ SignIn \/ PickNothing \/ LeaveConsent \/ Approve \/ \E c \in Codes : InsertCode(c)

LEMMA ConsentStepsRecords ==
  ASSUME OAuthRecords, TicketOfPassword, ConsentSteps
  PROVE  /\ oNow' \in 0..MaxTime /\ oClient' \in {"none", "live", "disabled"}
         /\ oBrowser' \in ConsentRecords /\ oCode' \in [Codes -> CodeRecords]
<1>0. oNow \in 0..MaxTime /\ oBrowser \in ConsentRecords /\ oCode \in [Codes -> CodeRecords]
      /\ oClient \in {"none", "live", "disabled"}
  BY DEF OAuthRecords
<1>1. CASE ClockTick
  BY <1>0, <1>1, TimesFit DEF ClockTick
<1>2. CASE RegisterClient
  BY <1>0, <1>2 DEF RegisterClient
<1>3. CASE SignIn
  <2>1. oBrowser' = [oBrowser EXCEPT !.pc = "picker", !.signed = oNow, !.expires = oNow + TicketTTL, !.error = FALSE]
    BY <1>3 DEF SignIn
  <2>2. oNow \in Times /\ oNow + TicketTTL \in Times
    BY <1>0, TimesFit
  <2> DEFINE t == oNow + TicketTTL
  <2> HIDE DEF t
  <2>3. oBrowser' = [pc |-> "picker", signed |-> oNow, expires |-> t, age |-> oBrowser.age, error |-> FALSE]
    BY <1>0, <2>1 DEF ConsentRecords, t
  <2>4. oBrowser' \in ConsentRecords
    BY <1>0, <2>2, <2>3 DEF ConsentRecords, t
  <2> QED
    BY <1>0, <1>3, <2>4 DEF SignIn
<1>4. CASE PickNothing
  <2>1. oBrowser' = [oBrowser EXCEPT !.error = TRUE, !.expires = oBrowser.expires]
    BY <1>4 DEF PickNothing, TicketAfterError
  <2>2. oBrowser' \in ConsentRecords
    BY <1>0, <2>1 DEF ConsentRecords
  <2> QED
    BY <1>0, <1>4, <2>2 DEF PickNothing
<1>5. CASE LeaveConsent
  BY <1>0, <1>5, TimesFit DEF LeaveConsent, NoConsent, ConsentRecords
<1>6. CASE Approve
  <2>1. oNow - oBrowser.signed \in Times
    BY <1>0, TimesFit DEF TicketOfPassword, ConsentRecords, Times
  <2>2. oBrowser' \in ConsentRecords
    BY <1>0, <1>6, <2>1 DEF Approve, ConsentRecords
  <2> QED
    BY <1>0, <1>6, <2>2 DEF Approve
<1>7. ASSUME NEW c \in Codes, InsertCode(c)
      PROVE  oCode' \in [Codes -> CodeRecords] /\ oBrowser' \in ConsentRecords
  <2>1. oBrowser' \in ConsentRecords
    BY <1>7, TimesFit DEF InsertCode, NoConsent, ConsentRecords
  <2>2. [st |-> "issued", expires |-> oNow + CodeTTL, age |-> oBrowser.age] \in CodeRecords
    BY <1>0, TimesFit DEF ConsentRecords, CodeRecords
  <2> QED
    BY <1>0, <1>7, <2>1, <2>2 DEF InsertCode
<1>8. CASE \E c \in Codes : InsertCode(c)
  BY <1>0, <1>7, <1>8 DEF InsertCode
<1> QED
  BY <1>1, <1>2, <1>3, <1>4, <1>5, <1>6, <1>8 DEF ConsentSteps

\* A code is approved while its ticket is valid.
LEMMA ConsentStepsKeep ==
  ASSUME OAuthInv, ConsentSteps PROVE OAuthInv'
<1>0. /\ oNow \in 0..MaxTime /\ oBrowser \in ConsentRecords /\ oCode \in [Codes -> CodeRecords]
      /\ oBrowser.signed \in Nat /\ oBrowser.expires \in Nat /\ oBrowser.age \in Nat /\ oNow \in Nat
      /\ TicketTTL \in Nat \ {0}
  BY TimesFit, OAuthAssumption DEF OAuthInv, OAuthRecords, ConsentRecords
<1>u. UNCHANGED <<oGrant, oPair, oReq>>
  BY DEF ConsentSteps, ClockTick, RegisterClient, SignIn, PickNothing, LeaveConsent, Approve, InsertCode
<1>1. OAuthRecords'
  BY <1>u, ConsentStepsRecords DEF OAuthInv, OAuthRecords
<1>2. TicketOfPassword'
  <2>1. CASE ClockTick \/ RegisterClient
    BY <1>0, <2>1 DEF ClockTick, RegisterClient, OAuthInv, TicketOfPassword
  <2>2. CASE SignIn
    BY <1>0, <2>2 DEF SignIn, TicketOfPassword, ConsentRecords
  <2>3. CASE PickNothing
    BY <1>0, <2>3 DEF PickNothing, TicketAfterError, OAuthInv, TicketOfPassword, ConsentRecords
  <2>4. CASE Approve
    <3>1. oBrowser.signed <= oNow /\ oNow < oBrowser.signed + TicketTTL
      BY <1>0, <2>4 DEF Approve, TicketValid, OAuthInv, TicketOfPassword
    <3>2. /\ oBrowser'.pc = "approving" /\ oBrowser'.signed = oBrowser.signed
          /\ oBrowser'.age = oNow - oBrowser.signed
      BY <1>0, <2>4 DEF Approve, ConsentRecords
    <3> QED
      BY <1>0, <2>4, <3>1, <3>2 DEF Approve, TicketOfPassword
  <2>5. CASE oBrowser' = NoConsent /\ oNow' = oNow
    BY <1>0, <2>5 DEF TicketOfPassword, NoConsent
  <2> QED
    BY <2>1, <2>2, <2>3, <2>4, <2>5 DEF ConsentSteps, LeaveConsent, InsertCode
<1>3. \/ oCode' = oCode
      \/ \E c \in Codes : /\ oCode[c].st = "none" /\ oCode'[c].st = "issued" /\ oCode'[c].age = oBrowser.age
                          /\ oBrowser.pc = "approving"
                          /\ \A d \in Codes : d # c => oCode'[d] = oCode[d]
  <2>1. CASE \E c \in Codes : InsertCode(c)
    <3>1. PICK c \in Codes : InsertCode(c)
      BY <2>1
    <3> QED
      BY <1>0, <3>1 DEF InsertCode
  <2> QED
    BY <2>1 DEF ConsentSteps, ClockTick, RegisterClient, SignIn, PickNothing, LeaveConsent, Approve
<1>4. ConsentIsRecent'
  BY <1>0, <1>3 DEF OAuthInv, ConsentIsRecent, TicketOfPassword
<1>5. CodeOfGrant'
  BY <1>3, <1>u DEF OAuthInv, CodeOfGrant
<1>6. NoticeOfRow' /\ KeyOfGrant' /\ TokenChain' /\ LocksApart'
  BY <1>u DEF OAuthInv, NoticeOfRow, KeyOfGrant, TokenChain, LocksApart
<1>7. oClient' = "disabled" => oClient = "disabled"
  BY DEF ConsentSteps, ClockTick, RegisterClient, SignIn, PickNothing, LeaveConsent, Approve, InsertCode
<1>8. NothingUnderDisabled'
  BY <1>7, <1>u DEF OAuthInv, NothingUnderDisabled
<1>9. ASSUME NEW r \in Reqs PROVE RequestFits(oReq[r])'
  BY <1>3, <1>7, <1>u DEF OAuthInv, RequestFits
<1> QED
  BY <1>1, <1>2, <1>4, <1>5, <1>6, <1>8, <1>9 DEF OAuthInv

\* Disabling deletes the codes and grants there are.
LEMMA DisableKeeps == ASSUME OAuthInv, DisableOauthClient PROVE OAuthInv'
<1>0. /\ oCode \in [Codes -> CodeRecords] /\ oGrant \in [Grants -> GrantRecords]
      /\ oPair \in [Pairs -> TokenRecords] /\ oReq \in [Reqs -> RequestRecords]
  BY DEF OAuthInv, OAuthRecords
<1>1. UNCHANGED <<oNow, oBrowser, oPair, oReq>> /\ oClient' = "disabled"
  BY DEF DisableOauthClient
<1>2. \A c \in Codes : /\ oCode[c].st = "none" => oCode'[c] = oCode[c]
                       /\ oCode[c].st # "none" => oCode'[c] = [oCode[c] EXCEPT !.st = "deleted"]
  BY DEF DisableOauthClient
<1>3. \A g \in Grants : /\ oGrant[g].st = "none" => oGrant'[g] = oGrant[g]
                        /\ oGrant[g].st # "none" => oGrant'[g] = [oGrant[g] EXCEPT !.st = "deleted"]
  BY DEF DisableOauthClient
<1>4. ASSUME NEW c \in Codes PROVE /\ oCode'[c] \in CodeRecords /\ oCode'[c].age = oCode[c].age
                                   /\ oCode'[c].st = IF oCode[c].st = "none" THEN "none" ELSE "deleted"
  <2>1. oCode[c] \in CodeRecords
    BY <1>0
  <2> QED
    BY <1>2, <2>1 DEF CodeRecords
<1>5. ASSUME NEW g \in Grants PROVE /\ oGrant'[g] \in GrantRecords /\ oGrant'[g].code = oGrant[g].code
                                    /\ oGrant'[g].expires = oGrant[g].expires
                                    /\ oGrant'[g].notices = oGrant[g].notices
                                    /\ oGrant'[g].st = IF oGrant[g].st = "none" THEN "none" ELSE "deleted"
  <2>1. oGrant[g] \in GrantRecords
    BY <1>0
  <2> QED
    BY <1>3, <2>1 DEF GrantRecords
<1>6. OAuthRecords'
  <2>1. oCode' \in [Codes -> CodeRecords] /\ oGrant' \in [Grants -> GrantRecords]
    BY <1>4, <1>5 DEF DisableOauthClient
  <2> QED
    BY <1>1, <2>1 DEF OAuthInv, OAuthRecords
<1>7. TicketOfPassword' /\ ConsentIsRecent' /\ CodeOfGrant'
  BY <1>1, <1>4, <1>5 DEF OAuthInv, TicketOfPassword, ConsentIsRecent, CodeOfGrant
<1>8. NoticeOfRow' /\ NothingUnderDisabled'
  BY <1>1, <1>5 DEF OAuthInv, NoticeOfRow, NothingUnderDisabled
<1>9. KeyOfGrant'
  <2> SUFFICES ASSUME NEW p \in Pairs, oPair[p].grant # 0 PROVE
         /\ oGrant'[oPair[p].grant].st # "none" /\ oPair[p].keyExpires <= oGrant'[oPair[p].grant].expires
         /\ oGrant'[oPair[p].grant].st # "revoked"
    BY <1>1 DEF KeyOfGrant
  <2>1. oPair[p].grant \in Grants
    BY <1>0 DEF TokenRecords
  <2> QED
    BY <1>5, <2>1 DEF OAuthInv, KeyOfGrant
<1>10. TokenChain' /\ LocksApart'
  BY <1>1 DEF OAuthInv, TokenChain, LocksApart
<1>11. ASSUME NEW r \in Reqs PROVE RequestFits(oReq[r])'
  BY <1>1, <1>4, <1>5 DEF OAuthInv, RequestFits, LockSteps
<1> QED
  BY <1>6, <1>7, <1>8, <1>9, <1>10, <1>11 DEF OAuthInv

----------------------------------------------------------------------------
\* A step of one request that only it can see.

RequestMoves(r, y) ==
  /\ oReq' = [oReq EXCEPT ![r] = y] /\ y \in RequestRecords /\ RequestFits(y)
  /\ y.pc \in LockSteps => \A s \in Reqs : s # r => ~(oReq[s].pc \in LockSteps /\ oReq[s].grant = y.grant)
  /\ UNCHANGED <<oNow, oClient, oBrowser, oCode, oGrant, oPair>>

LEMMA RequestMovesKeep ==
  ASSUME OAuthInv, NEW r \in Reqs, NEW y, RequestMoves(r, y) PROVE OAuthInv'
<1>0. oReq \in [Reqs -> RequestRecords]
  BY DEF OAuthInv, OAuthRecords
<1>1. /\ oReq'[r] = y /\ \A s \in Reqs : s # r => oReq'[s] = oReq[s]
      /\ UNCHANGED <<oNow, oClient, oBrowser, oCode, oGrant, oPair>>
  BY <1>0 DEF RequestMoves
<1>2. OAuthRecords'
  BY <1>0, <1>1 DEF OAuthInv, OAuthRecords, RequestMoves
<1>3. /\ TicketOfPassword' /\ ConsentIsRecent' /\ CodeOfGrant' /\ NoticeOfRow' /\ KeyOfGrant' /\ TokenChain'
      /\ NothingUnderDisabled'
  BY <1>1 DEF OAuthInv, TicketOfPassword, ConsentIsRecent, CodeOfGrant, NoticeOfRow, KeyOfGrant, TokenChain,
     NothingUnderDisabled
<1>4. LocksApart'
  BY <1>1 DEF OAuthInv, LocksApart, RequestMoves
<1>5. ASSUME NEW s \in Reqs PROVE RequestFits(oReq[s])'
  <2>1. \E z : oReq'[s] = z /\ RequestFits(z)
    BY <1>1 DEF OAuthInv, RequestMoves
  <2> QED
    BY <1>1, <2>1 DEF RequestFits
<1> QED
  BY <1>2, <1>3, <1>4, <1>5 DEF OAuthInv

\* The reads and checks of the token and revocation routes.
RequestSteps(r) ==
  \/ \E c \in Codes : ExchangeAuth(r, c)
  \/ ExchangeRead(r) \/ RequestAborts(r)
  \/ \E p \in Pairs : RefreshAuth(r, p)
  \/ RefreshRead(r) \/ RefreshGrant(r)
  \/ \E g \in Grants : RevokeGrant(r, g)
  \/ RevokeFlip(r) \/ RevokeKeys(r) \/ RevokeTokens(r)

LEMMA RequestStepsMove ==
  ASSUME OAuthInv, NEW r \in Reqs, RequestSteps(r) PROVE \E y : RequestMoves(r, y)
<1> DEFINE x == oReq[r]
<1>0. /\ x \in RequestRecords /\ oReq \in [Reqs -> RequestRecords] /\ RequestFits(x)
      /\ oPair \in [Pairs -> TokenRecords] /\ oGrant \in [Grants -> GrantRecords]
      /\ x.grant \in {0} \cup Grants
  BY DEF OAuthInv, OAuthRecords, RequestRecords
<1>a. UNCHANGED <<oNow, oClient, oBrowser, oCode, oGrant, oPair>>
  BY DEF RequestSteps, ExchangeAuth, ExchangeRead, RequestAborts, RefreshAuth, RefreshRead, RefreshGrant,
     RevokeGrant,
         RevokeFlip, RevokeKeys, RevokeTokens
<1>n. ASSUME oReq' = [oReq EXCEPT ![r] = NoRequest] PROVE \E y : RequestMoves(r, y)
  <2>1. RequestMoves(r, NoRequest)
    BY <1>a, <1>n, NoRequestFits DEF RequestMoves, LockSteps
  <2> QED
    BY <2>1
<1>m. ASSUME NEW y \in RequestRecords, RequestFits(y), y.pc \notin LockSteps, oReq' = [oReq EXCEPT ![r] = y]
      PROVE  \E z : RequestMoves(r, z)
  <2>1. RequestMoves(r, y)
    BY <1>a, <1>m DEF RequestMoves
  <2> QED
    BY <2>1
<1>1. ASSUME NEW c \in Codes, ExchangeAuth(r, c) PROVE \E y : RequestMoves(r, y)
  <2> DEFINE y == [NoRequest EXCEPT !.pc = "exAuth", !.code = c]
  <2>1. y \in RequestRecords /\ y.pc = "exAuth" /\ y.code = c
    BY DEF NoRequest, RequestRecords, Steps
  <2>2. oReq' = [oReq EXCEPT ![r] = y] /\ oClient = "live" /\ oCode[c].st # "none"
    BY <1>1 DEF ExchangeAuth
  <2> HIDE DEF y
  <2>3. RequestFits(y) /\ y.pc \notin LockSteps
    BY <2>1, <2>2 DEF RequestFits, LockSteps
  <2> QED
    BY <2>1, <2>2, <2>3, <1>m
<1>2. ASSUME ExchangeRead(r) PROVE \E y : RequestMoves(r, y)
  <2>1. oReq' = [oReq EXCEPT ![r] = NoRequest] \/ oReq' = [oReq EXCEPT ![r] = [x EXCEPT !.pc = "exRead"]]
    BY <1>0, <1>2 DEF ExchangeRead
  <2> DEFINE y == [x EXCEPT !.pc = "exRead"]
  <2>2. y \in RequestRecords /\ y.pc = "exRead" /\ y.code = x.code
    <3> HIDE DEF x
    <3> QED
      BY <1>0 DEF RequestRecords, Steps
  <2>a. x.pc = "exAuth"
    BY <1>2 DEF ExchangeRead
  <2> HIDE DEF y
  <2>3. RequestFits(y) /\ y.pc \notin LockSteps
    BY <1>0, <2>2, <2>a DEF RequestFits, LockSteps
  <2>4. CASE oReq' = [oReq EXCEPT ![r] = y]
    BY <1>m, <2>2, <2>3, <2>4
  <2> QED
    BY <1>n, <2>1, <2>4 DEF y
<1>3. ASSUME RequestAborts(r) PROVE \E y : RequestMoves(r, y)
  BY <1>n, <1>3 DEF RequestAborts
<1>4. ASSUME NEW p \in Pairs, RefreshAuth(r, p) PROVE \E y : RequestMoves(r, y)
  <2> DEFINE y == [NoRequest EXCEPT !.pc = "rfAuth", !.pair = p]
  <2>1. y \in RequestRecords /\ y.pc = "rfAuth" /\ y.pair = p
    BY DEF NoRequest, RequestRecords, Steps
  <2>2. oReq' = [oReq EXCEPT ![r] = y]
    BY <1>4 DEF RefreshAuth
  <2> HIDE DEF y
  <2>3. RequestFits(y) /\ y.pc \notin LockSteps
    BY <2>1, <2>2 DEF RequestFits, LockSteps
  <2> QED
    BY <2>1, <2>2, <2>3, <1>m
<1>5. ASSUME RefreshRead(r) PROVE \E y : RequestMoves(r, y)
  <2> DEFINE p == x.pair
             g == oPair[p].grant
             a == oPair[p].consumed
             b == oPair[p].revoked
             y == [x EXCEPT !.pc = "rfToken", !.grant = g, !.spent = a, !.dead = b]
  <2>1. p \in Pairs /\ x.pc = "rfAuth"
    BY <1>0, <1>5 DEF RefreshRead, RequestFits
  <2>2. oPair[p] \in TokenRecords
    BY <1>0, <2>1
  <2>3. g \in {0} \cup Grants /\ a \in BOOLEAN /\ b \in BOOLEAN
    BY <2>2 DEF TokenRecords
  <2>4. \/ oReq' = [oReq EXCEPT ![r] = NoRequest]
        \/ oReq' = [oReq EXCEPT ![r] = y] /\ g # 0 /\ oGrant[g].st \in {"active", "revoked"}
    BY <1>0, <1>5 DEF RefreshRead, RowExists
  <2> HIDE DEF g, a, b
  <2>5. y \in RequestRecords /\ y.pc = "rfToken" /\ y.grant = g /\ y.pair = p
    BY <1>0, <2>3 DEF RequestRecords, Steps
  <2> HIDE DEF y, p
  <2>6. CASE oReq' = [oReq EXCEPT ![r] = y] /\ g # 0 /\ oGrant[g].st \in {"active", "revoked"}
    <3>1. RequestFits(y) /\ y.pc \notin LockSteps
      BY <2>1, <2>3, <2>5, <2>6 DEF RequestFits, LockSteps
    <3> QED
      BY <1>m, <2>5, <2>6, <3>1
  <2> QED
    BY <1>n, <2>4, <2>6
<1>6. ASSUME RefreshGrant(r) PROVE \E y : RequestMoves(r, y)
  <2> DEFINE y == [x EXCEPT !.pc = "rfLive"]
  <2>1. oReq' = [oReq EXCEPT ![r] = NoRequest] \/ oReq' = [oReq EXCEPT ![r] = y]
    BY <1>0, <1>6 DEF RefreshGrant
  <2>2. y \in RequestRecords /\ y.pc = "rfLive" /\ y.grant = x.grant /\ y.pair = x.pair
    <3> HIDE DEF x
    <3> QED
      BY <1>0 DEF RequestRecords, Steps
  <2>a. x.pc = "rfToken"
    BY <1>6 DEF RefreshGrant
  <2> HIDE DEF y
  <2>3. RequestFits(y) /\ y.pc \notin LockSteps
    BY <1>0, <2>2, <2>a DEF RequestFits, LockSteps
  <2>4. CASE oReq' = [oReq EXCEPT ![r] = y]
    BY <1>m, <2>2, <2>3, <2>4
  <2> QED
    BY <1>n, <2>1, <2>4
<1>7. ASSUME NEW g \in Grants, RevokeGrant(r, g) PROVE \E y : RequestMoves(r, y)
  <2> DEFINE y == [NoRequest EXCEPT !.pc = "rvFlip", !.grant = g, !.explicit = TRUE]
  <2>1. y \in RequestRecords /\ y.pc = "rvFlip" /\ y.grant = g
    BY DEF NoRequest, RequestRecords, Steps
  <2>2. oReq' = [oReq EXCEPT ![r] = y] /\ oGrant[g].st \in {"active", "revoked"}
    BY <1>7 DEF RevokeGrant
  <2> HIDE DEF y
  <2>3. RequestFits(y) /\ y.pc \notin LockSteps
    BY <2>1, <2>2 DEF RequestFits, LockSteps
  <2> QED
    BY <2>1, <2>2, <2>3, <1>m
<1>8. ASSUME RevokeFlip(r) PROVE \E y : RequestMoves(r, y)
  <2> DEFINE f == Flips(x.grant)
             y == [x EXCEPT !.pc = "rvKeys", !.flipped = f]
  <2>0. f \in BOOLEAN /\ (f => oGrant[x.grant].st = "active")
    BY DEF Flips
  <2>1. /\ oReq' = [oReq EXCEPT ![r] = NoRequest] \/ oReq' = [oReq EXCEPT ![r] = y]
        /\ x.pc = "rvFlip"
        /\ \A s \in Reqs : ~(oReq[s].grant = x.grant /\ oReq[s].pc \in LockSteps)
    BY <1>0, <1>8 DEF RevokeFlip, LockSteps
  <2> HIDE DEF f
  <2>2. y \in RequestRecords /\ y.pc = "rvKeys" /\ y.grant = x.grant /\ y.flipped = f
    <3> HIDE DEF x
    <3> QED
      BY <1>0, <2>0 DEF RequestRecords, Steps
  <2> HIDE DEF y
  <2>3. RequestFits(y)
    BY <1>0, <2>0, <2>1, <2>2 DEF RequestFits, LockSteps
  <2>4. CASE oReq' = [oReq EXCEPT ![r] = y]
    <3>1. RequestMoves(r, y)
      BY <1>a, <2>1, <2>2, <2>3, <2>4 DEF RequestMoves
    <3> QED
      BY <3>1
  <2> QED
    BY <1>n, <2>1, <2>4
<1>9. ASSUME RevokeKeys(r) PROVE \E y : RequestMoves(r, y)
  <2> DEFINE S == KeysOf(x.grant)
             y == [x EXCEPT !.pc = "rvToks", !.keys = S]
  <2>0. S \in SUBSET Pairs /\ \A p \in Pairs : oPair[p].grant = x.grant /\ ~oPair[p].keyRevoked => p \in S
    BY DEF KeysOf
  <2>1. oReq' = [oReq EXCEPT ![r] = y] /\ x.pc = "rvKeys"
    BY <1>0, <1>9 DEF RevokeKeys
  <2> HIDE DEF S
  <2>2. y \in RequestRecords /\ y.pc = "rvToks" /\ y.grant = x.grant /\ y.flipped = x.flipped /\ y.keys = S
    <3> HIDE DEF x
    <3> QED
      BY <1>0, <2>0 DEF RequestRecords, Steps
  <2> HIDE DEF y
  <2>3. RequestFits(y)
    BY <1>0, <2>0, <2>1, <2>2 DEF RequestFits, LockSteps
  <2>4. \A s \in Reqs : s # r => ~(oReq[s].pc \in LockSteps /\ oReq[s].grant = y.grant)
    BY <2>1, <2>2 DEF OAuthInv, LocksApart, LockSteps
  <2>5. RequestMoves(r, y)
    BY <1>a, <2>1, <2>2, <2>3, <2>4 DEF RequestMoves
  <2> QED
    BY <2>5
<1>10. ASSUME RevokeTokens(r) PROVE \E y : RequestMoves(r, y)
  <2> DEFINE S == {p \in Pairs : oPair[p].grant = x.grant /\ ~oPair[p].revoked}
             y == [x EXCEPT !.pc = "rvCommit", !.toks = S]
  <2>0. S \in SUBSET Pairs
    OBVIOUS
  <2>1. oReq' = [oReq EXCEPT ![r] = y] /\ x.pc = "rvToks"
    BY <1>0, <1>10 DEF RevokeTokens
  <2> HIDE DEF S
  <2>2. /\ y \in RequestRecords /\ y.pc = "rvCommit" /\ y.grant = x.grant /\ y.flipped = x.flipped
        /\ y.keys = x.keys
    <3> HIDE DEF x
    <3> QED
      BY <1>0, <2>0 DEF RequestRecords, Steps
  <2> HIDE DEF y
  <2>3. RequestFits(y)
    BY <1>0, <2>1, <2>2 DEF RequestFits, LockSteps
  <2>4. \A s \in Reqs : s # r => ~(oReq[s].pc \in LockSteps /\ oReq[s].grant = y.grant)
    BY <2>1, <2>2 DEF OAuthInv, LocksApart, LockSteps
  <2>5. RequestMoves(r, y)
    BY <1>a, <2>1, <2>2, <2>3, <2>4 DEF RequestMoves
  <2> QED
    BY <2>5
<1> QED
  BY <1>1, <1>2, <1>3, <1>4, <1>5, <1>6, <1>7, <1>8, <1>9, <1>10 DEF RequestSteps

----------------------------------------------------------------------------
\* A new pair of tokens, under a grant and after a token.

LEMMA NewPairFits ==
  ASSUME oNow \in 0..MaxTime, NEW g \in Grants, NEW p \in {0} \cup Pairs, NEW t \in 0..(MaxTime + GrantTTL)
  PROVE  LET y == NewPair(g, t, p) IN
           /\ y \in TokenRecords /\ y.grant = g /\ y.from = p /\ y.late = CascadePassed(g)
           /\ y.keyExpires <= t
<1> DEFINE e == AccessTokenExpiry(t)
           b == CascadePassed(g)
           y == NewPair(g, t, p)
<1>1. e \in 0..(MaxTime + GrantTTL) /\ e <= t
  BY TimesFit DEF AccessTokenExpiry, Smaller
<1>2. b \in BOOLEAN
  BY DEF CascadePassed
<1>3. y = [grant |-> g, from |-> p, keyExpires |-> e, keyRevoked |-> FALSE, consumed |-> FALSE, revoked |-> FALSE, late |-> b]
  BY DEF NewPair
<1> HIDE DEF e, b, y
<1>4. y \in TokenRecords /\ y.grant = g /\ y.from = p /\ y.late = b /\ y.keyExpires <= t
  BY <1>1, <1>2, <1>3 DEF TokenRecords
<1> QED
  BY <1>4 DEF y, b

\* The exchange: the code is spent on a grant that did not exist.
LEMMA ExchangeKeeps ==
  ASSUME OAuthInv, NEW r \in Reqs, ExchangeCommit(r), CodeConsumable(oReq[r].code) PROVE OAuthInv'
<1> DEFINE c == oReq[r].code
           n == NextPair
<1>0. /\ oNow \in 0..MaxTime /\ oCode \in [Codes -> CodeRecords] /\ oGrant \in [Grants -> GrantRecords]
      /\ oPair \in [Pairs -> TokenRecords] /\ oReq \in [Reqs -> RequestRecords]
  BY DEF OAuthInv, OAuthRecords
<1>1. /\ FreePairs # {} /\ oReq[r].pc = "exRead" /\ oReq' = [oReq EXCEPT ![r] = NoRequest]
      /\ oCode' = [oCode EXCEPT ![c].st = "consumed"] /\ UNCHANGED <<oNow, oClient, oBrowser>>
  BY DEF ExchangeCommit
<1>2. PICK g \in FreeGrants :
        /\ oGrant' = [oGrant EXCEPT ![g] = [st |-> "active", code |-> c, expires |-> oNow + GrantTTL, notices |-> 0]]
        /\ oPair' = [oPair EXCEPT ![n] = NewPair(g, oNow + GrantTTL, 0)]
  BY DEF ExchangeCommit
<1>3. g \in Grants /\ oGrant[g].st = "none" /\ n \in Pairs /\ oPair[n].grant = 0
  BY <1>1, NextPairIsFree DEF FreeGrants, FreePairs
<1>4. c \in Codes /\ oCode[c].st = "issued" /\ oClient # "disabled"
  BY <1>1 DEF OAuthInv, RequestFits, CodeConsumable
<1> HIDE DEF c, n
<1>5. /\ oCode'[c].st = "consumed" /\ oCode'[c].age = oCode[c].age /\ oCode' \in [Codes -> CodeRecords]
      /\ \A d \in Codes : d # c => oCode'[d] = oCode[d]
  <2>1. oCode[c] \in CodeRecords
    BY <1>0, <1>4
  <2>2. [oCode[c] EXCEPT !.st = "consumed"] \in CodeRecords
    BY <2>1 DEF CodeRecords
  <2> QED
    BY <1>0, <1>1, <1>4, <2>1, <2>2 DEF CodeRecords
<1>6. /\ oGrant'[g].st = "active" /\ oGrant'[g].code = c /\ oGrant'[g].expires = oNow + GrantTTL
      /\ oGrant'[g].notices = 0
      /\ \A h \in Grants : h # g => oGrant'[h] = oGrant[h]
      /\ oGrant' \in [Grants -> GrantRecords]
  <2>1. [st |-> "active", code |-> c, expires |-> oNow + GrantTTL, notices |-> 0] \in GrantRecords
    BY <1>0, <1>4, TimesFit DEF GrantRecords
  <2> QED
    BY <1>0, <1>2, <1>3, <2>1
<1>7. /\ oPair'[n].grant = g /\ oPair'[n].from = 0 /\ oPair'[n].keyExpires <= oNow + GrantTTL
      /\ \A q \in Pairs : q # n => oPair'[q] = oPair[q]
      /\ oPair' \in [Pairs -> TokenRecords]
  <2> DEFINE t == oNow + GrantTTL
  <2>1. t \in 0..(MaxTime + GrantTTL)
    BY <1>0, TimesFit
  <2> HIDE DEF t
  <2>2. /\ NewPair(g, t, 0) \in TokenRecords /\ NewPair(g, t, 0).grant = g /\ NewPair(g, t, 0).from = 0
        /\ NewPair(g, t, 0).keyExpires <= t
    BY <1>0, <1>3, <2>1, NewPairFits
  <2>3. oPair' = [oPair EXCEPT ![n] = NewPair(g, t, 0)]
    BY <1>2 DEF t
  <2> QED
    BY <1>0, <1>3, <2>2, <2>3 DEF t
<1>8. /\ oReq'[r] = NoRequest /\ (\A s \in Reqs : s # r => oReq'[s] = oReq[s])
      /\ oReq' \in [Reqs -> RequestRecords]
  BY <1>0, <1>1, NoRequestFits
<1>9. OAuthRecords' /\ TicketOfPassword'
  BY <1>1, <1>5, <1>6, <1>7, <1>8 DEF OAuthInv, OAuthRecords, TicketOfPassword
<1>10. ConsentIsRecent'
  BY <1>1, <1>4, <1>5 DEF OAuthInv, ConsentIsRecent
<1>11. CodeOfGrant'
  BY <1>4, <1>5, <1>6 DEF OAuthInv, CodeOfGrant
<1>12. NoticeOfRow'
  BY <1>0, <1>6, TimesFit DEF OAuthInv, NoticeOfRow
<1>13. KeyOfGrant'
  <2> SUFFICES ASSUME NEW q \in Pairs, oPair'[q].grant # 0 PROVE
         /\ oGrant'[oPair'[q].grant].st # "none" /\ oPair'[q].keyExpires <= oGrant'[oPair'[q].grant].expires
         /\ oGrant'[oPair'[q].grant].st = "revoked" /\ ~oPair'[q].keyRevoked => oPair'[q].late
    BY DEF KeyOfGrant
  <2>1. CASE q = n
    BY <1>6, <1>7, <2>1
  <2>2. CASE q # n
    <3>1. oPair'[q] = oPair[q] /\ oPair[q].grant \in Grants /\ oPair[q].grant # g
      BY <1>0, <1>3, <1>7, <2>2 DEF OAuthInv, KeyOfGrant, TokenRecords
    <3>2. oGrant'[oPair[q].grant] = oGrant[oPair[q].grant]
      BY <1>6, <3>1
    <3> QED
      BY <3>1, <3>2 DEF OAuthInv, KeyOfGrant
  <2> QED
    BY <2>1, <2>2
<1>14. TokenChain'
  <2>1. \A q \in Pairs : oPair'[q].from # 0 => q # n /\ oPair'[q] = oPair[q] /\ oPair[q].from \in Pairs /\ oPair[q].from # n
    BY <1>0, <1>3, <1>7 DEF OAuthInv, TokenChain, TokenRecords
  <2> QED
    BY <1>7, <2>1 DEF OAuthInv, TokenChain
<1>15. LocksApart' /\ NothingUnderDisabled'
  BY <1>1, <1>4, <1>8, NoRequestFits DEF OAuthInv, LocksApart, NothingUnderDisabled, LockSteps
<1>16. ASSUME NEW s \in Reqs PROVE RequestFits(oReq[s])'
  <2>1. CASE s = r
    BY <1>8, <2>1 DEF RequestFits, NoRequest, LockSteps
  <2>2. CASE s # r
    <3> DEFINE y == oReq[s]
    <3>0. oReq'[s] = y /\ RequestFits(y)
      BY <1>8, <2>2 DEF OAuthInv
    <3> HIDE DEF y
    <3>1. y.pc \in {"rfToken", "rfLive", "rvFlip"} \cup LockSteps => y.grant # g /\ oGrant'[y.grant] = oGrant[y.grant]
      BY <1>3, <1>6, <3>0 DEF RequestFits
    <3>2. \A q \in Pairs : y.grant # g /\ oPair'[q].grant = y.grant => oPair'[q] = oPair[q]
      BY <1>7
    <3> QED
      BY <1>1, <1>4, <1>5, <3>0, <3>1, <3>2 DEF RequestFits, LockSteps
  <2> QED
    BY <2>1, <2>2
<1> QED
  BY <1>9, <1>10, <1>11, <1>12, <1>13, <1>14, <1>15, <1>16 DEF OAuthInv

\* The rotation: the token is spent on a pair that did not exist; a cascade that
\* has read the key table, or has committed, makes that pair a late one.
Rotates(r) ==
  /\ oReq[r].pc = "rfLive" /\ RotationWins(oReq[r].pair) /\ FreePairs # {}
  /\ oPair' = [oPair EXCEPT ![oReq[r].pair].consumed = TRUE,
                            ![NextPair] = NewPair(oReq[r].grant, oGrant[oReq[r].grant].expires, oReq[r].pair)]
  /\ oReq' = [oReq EXCEPT ![r] = NoRequest]
  /\ UNCHANGED <<oNow, oClient, oBrowser, oCode, oGrant>>

LEMMA RotationKeeps == ASSUME OAuthInv, NEW r \in Reqs, Rotates(r) PROVE OAuthInv'
<1> DEFINE p == oReq[r].pair
           g == oReq[r].grant
           n == NextPair
           t == oGrant[g].expires
           new == NewPair(g, t, p)
<1>0. /\ oNow \in 0..MaxTime /\ oGrant \in [Grants -> GrantRecords]
      /\ oPair \in [Pairs -> TokenRecords] /\ oReq \in [Reqs -> RequestRecords]
  BY DEF OAuthInv, OAuthRecords
<1>1. p \in Pairs /\ g \in Grants /\ oGrant[g].st # "none"
  BY DEF OAuthInv, RequestFits, Rotates
<1>2. n \in Pairs /\ oPair[n].grant = 0 /\ oPair[p].grant # 0 /\ ~oPair[p].consumed /\ n # p
  BY NextPairIsFree DEF FreePairs, RotationWins, RowExists, Rotates
<1>3. oPair' = [oPair EXCEPT ![p].consumed = TRUE, ![n] = new] /\ oReq' = [oReq EXCEPT ![r] = NoRequest]
      /\ UNCHANGED <<oNow, oClient, oBrowser, oCode, oGrant>>
  BY DEF Rotates
<1>4. t \in 0..(MaxTime + GrantTTL)
  <2>1. oGrant[g].expires \in Times /\ oGrant[g].expires <= MaxTime + GrantTTL
    BY <1>0, <1>1 DEF OAuthInv, NoticeOfRow, GrantRecords
  <2>2. oGrant[g].expires \in Nat /\ MaxTime \in Nat /\ GrantTTL \in Nat
    BY <2>1, TimesFit
  <2> HIDE DEF g
  <2> QED
    BY <2>1, <2>2
<1> HIDE DEF p, g, n, t
<1>5. /\ new \in TokenRecords /\ new.grant = g /\ new.from = p /\ new.keyExpires <= t
      /\ new.late = CascadePassed(g)
  BY <1>0, <1>1, <1>4, NewPairFits
<1> HIDE DEF new
<1>6. /\ oPair'[n] = new /\ oPair'[p] = [oPair[p] EXCEPT !.consumed = TRUE]
      /\ \A q \in Pairs : q \notin {n, p} => oPair'[q] = oPair[q]
      /\ oPair' = [q \in Pairs |-> oPair'[q]]
  BY <1>0, <1>1, <1>2, <1>3
<1>7. /\ oPair'[p].grant = oPair[p].grant /\ oPair'[p].from = oPair[p].from /\ oPair'[p].consumed
      /\ oPair'[p].keyExpires = oPair[p].keyExpires /\ oPair'[p].keyRevoked = oPair[p].keyRevoked
      /\ oPair'[p].late = oPair[p].late /\ oPair'[p] \in TokenRecords
  <2>1. oPair[p] \in TokenRecords
    BY <1>0, <1>1
  <2> QED
    BY <1>6, <2>1 DEF TokenRecords
<1>8. \A q \in Pairs : q # n =>
        /\ oPair'[q].grant = oPair[q].grant /\ oPair'[q].from = oPair[q].from
        /\ oPair'[q].keyExpires = oPair[q].keyExpires /\ oPair'[q].keyRevoked = oPair[q].keyRevoked
        /\ oPair'[q].late = oPair[q].late /\ (oPair[q].consumed => oPair'[q].consumed)
  BY <1>6, <1>7
<1>9. /\ oReq'[r] = NoRequest /\ (\A s \in Reqs : s # r => oReq'[s] = oReq[s])
      /\ oReq' \in [Reqs -> RequestRecords]
  BY <1>0, <1>3, NoRequestFits
<1>10. OAuthRecords'
  <2>1. ASSUME NEW q \in Pairs PROVE oPair'[q] \in TokenRecords
    BY <1>0, <1>5, <1>6, <1>7
  <2>2. oPair' \in [Pairs -> TokenRecords]
    BY <1>6, <2>1
  <2> QED
    BY <1>3, <1>9, <2>2 DEF OAuthInv, OAuthRecords
<1>11. TicketOfPassword' /\ ConsentIsRecent' /\ CodeOfGrant' /\ NoticeOfRow' /\ NothingUnderDisabled'
  BY <1>3 DEF OAuthInv, TicketOfPassword, ConsentIsRecent, CodeOfGrant, NoticeOfRow, NothingUnderDisabled
<1>12. KeyOfGrant'
  <2> SUFFICES ASSUME NEW q \in Pairs, oPair'[q].grant # 0 PROVE
         /\ oGrant[oPair'[q].grant].st # "none" /\ oPair'[q].keyExpires <= oGrant[oPair'[q].grant].expires
         /\ oGrant[oPair'[q].grant].st = "revoked" /\ ~oPair'[q].keyRevoked => oPair'[q].late
    BY <1>3 DEF KeyOfGrant
  <2>1. CASE q = n
    BY <1>1, <1>5, <1>6, <2>1 DEF CascadePassed, t
  <2>2. CASE q # n
    BY <1>8, <2>2 DEF OAuthInv, KeyOfGrant
  <2> QED
    BY <2>1, <2>2
<1>13. TokenChain'
  <2>0. \A q \in Pairs : oPair[q].from # 0 => /\ oPair[q].from \in Pairs /\ oPair[q].from # n /\ oPair[q].from # p
                                              /\ oPair[oPair[q].from].grant # 0
                                              /\ oPair[oPair[q].from].consumed
    BY <1>0, <1>2 DEF OAuthInv, TokenChain, TokenRecords
  <2>1. ASSUME NEW q \in Pairs, oPair'[q].from # 0
        PROVE  oPair'[oPair'[q].from].grant # 0 /\ oPair'[oPair'[q].from].consumed
    <3>1. CASE q = n
      BY <1>2, <1>5, <1>6, <1>7, <3>1
    <3>2. CASE q # n
      <4>1. oPair'[q].from = oPair[q].from
        BY <1>8, <3>2
      <4> QED
        BY <1>8, <2>0, <2>1, <4>1
    <3> QED
      BY <3>1, <3>2
  <2>2. ASSUME NEW q \in Pairs, NEW h \in Pairs, oPair'[q].from = oPair'[h].from, oPair'[q].from # 0
        PROVE  q = h
    <3>1. CASE q = n \/ h = n
      BY <1>5, <1>6, <1>8, <2>0, <2>2, <3>1
    <3>2. CASE q # n /\ h # n
      BY <1>8, <2>2, <3>2 DEF OAuthInv, TokenChain
    <3> QED
      BY <3>1, <3>2
  <2> QED
    BY <2>1, <2>2 DEF TokenChain
<1>14. LocksApart'
  BY <1>9, NoRequestFits DEF OAuthInv, LocksApart, LockSteps
<1>15. ASSUME NEW s \in Reqs PROVE RequestFits(oReq[s])'
  <2>1. CASE s = r
    BY <1>9, <2>1 DEF RequestFits, NoRequest, LockSteps
  <2>2. CASE s # r
    <3> DEFINE y == oReq[s]
    <3>0. oReq'[s] = y /\ RequestFits(y)
      BY <1>9, <2>2 DEF OAuthInv
    <3>1. y.pc \in {"rvToks", "rvCommit"} /\ y.grant = g => new.late
      BY <1>5 DEF CascadePassed
    <3> HIDE DEF y
    <3>2. ASSUME NEW q \in Pairs, y.pc \in {"rvToks", "rvCommit"}, oPair'[q].grant = y.grant,
                 ~oPair'[q].keyRevoked
          PROVE  q \in y.keys \/ oPair'[q].late
      <4>1. CASE q = n
        BY <1>5, <1>6, <3>1, <3>2, <4>1
      <4>2. CASE q # n
        BY <1>8, <3>0, <3>2, <4>2 DEF RequestFits
      <4> QED
        BY <4>1, <4>2
    <3> QED
      BY <1>3, <3>0, <3>2 DEF RequestFits
  <2> QED
    BY <2>1, <2>2
<1> QED
  BY <1>10, <1>11, <1>12, <1>13, <1>14, <1>15 DEF OAuthInv

\* The commit of a revocation: what it does not reach is late.
LEMMA RevokeCommitKeeps == ASSUME OAuthInv, NEW r \in Reqs, RevokeCommit(r) PROVE OAuthInv'
<1> DEFINE x == oReq[r]
           g == x.grant
<1>0. /\ oGrant \in [Grants -> GrantRecords] /\ oPair \in [Pairs -> TokenRecords]
      /\ oReq \in [Reqs -> RequestRecords]
      /\ x \in RequestRecords
  BY DEF OAuthInv, OAuthRecords
<1>1. /\ x.pc = "rvCommit" /\ oReq' = [oReq EXCEPT ![r] = NoRequest]
      /\ UNCHANGED <<oNow, oClient, oBrowser, oCode>>
      /\ oPair' = [p \in Pairs |-> [oPair[p] EXCEPT !.keyRevoked = @ \/ p \in x.keys, !.revoked = @ \/ p \in x.toks]]
  BY DEF RevokeCommit
<1>2. /\ g \in Grants /\ oGrant[g].st # "none" /\ (x.flipped => oGrant[g].st \in {"active", "deleted"})
      /\ \A p \in Pairs : oPair[p].grant = g /\ ~oPair[p].keyRevoked => p \in x.keys \/ oPair[p].late
  BY <1>1 DEF OAuthInv, RequestFits, LockSteps
<1>3. \/ oGrant[g].st = "deleted" /\ oGrant' = oGrant
      \/ /\ oGrant[g].st # "deleted"
         /\ \E k \in {oGrant[g].notices, oGrant[g].notices + 1} :
              /\ oGrant' = [oGrant EXCEPT ![g].st = "revoked", ![g].notices = k]
              /\ k # oGrant[g].notices => x.flipped /\ k = oGrant[g].notices + 1
  <2>1. CASE oGrant[g].st = "deleted"
    BY <2>1 DEF RevokeCommit
  <2>2. CASE oGrant[g].st # "deleted"
    <3>1. oGrant' = [oGrant EXCEPT ![g].st = "revoked",
                     ![g].notices = IF x.explicit /\ x.flipped /\ @ < 2 THEN @ + 1 ELSE @]
      BY <2>2 DEF RevokeCommit
    <3>2. CASE x.explicit /\ x.flipped /\ oGrant[g].notices < 2
      <4>1. oGrant' = [oGrant EXCEPT ![g].st = "revoked", ![g].notices = oGrant[g].notices + 1]
        BY <3>1, <3>2
      <4> QED
        BY <2>2, <3>2, <4>1
    <3>3. CASE ~(x.explicit /\ x.flipped /\ oGrant[g].notices < 2)
      <4>1. oGrant' = [oGrant EXCEPT ![g].st = "revoked", ![g].notices = oGrant[g].notices]
        BY <3>1, <3>3
      <4> QED
        BY <2>2, <4>1
    <3> QED
      BY <3>2, <3>3
  <2> QED
    BY <2>1, <2>2
<1> HIDE DEF g
<1>4. /\ \A h \in Grants : h # g => oGrant'[h] = oGrant[h]
      /\ oGrant' \in [Grants -> GrantRecords]
      /\ oGrant'[g].code = oGrant[g].code /\ oGrant'[g].expires = oGrant[g].expires
      /\ oGrant'[g].notices <= 1 /\ oGrant'[g].st \in {"revoked", "deleted"}
      /\ oGrant[g].st = "deleted" => oGrant'[g].st = "deleted"
  <2>0. oGrant[g] \in GrantRecords /\ oGrant[g].notices \in 0..2 /\ oGrant[g].notices <= 1
        /\ (oGrant[g].st = "active" => oGrant[g].notices = 0)
    BY <1>0, <1>2 DEF GrantRecords, OAuthInv, NoticeOfRow
  <2>1. CASE oGrant[g].st = "deleted" /\ oGrant' = oGrant
    BY <1>0, <2>0, <2>1
  <2>2. CASE oGrant[g].st # "deleted"
    <3>1. PICK k \in {oGrant[g].notices, oGrant[g].notices + 1} :
              /\ oGrant' = [oGrant EXCEPT ![g].st = "revoked", ![g].notices = k]
              /\ k # oGrant[g].notices => x.flipped /\ k = oGrant[g].notices + 1
      BY <1>3, <2>2
    <3>2. k \in 0..2 /\ k <= 1
      BY <1>2, <2>0, <2>2, <3>1
    <3> DEFINE y == [oGrant[g] EXCEPT !.st = "revoked", !.notices = k]
    <3>3. oGrant' = [oGrant EXCEPT ![g] = y]
      BY <1>0, <1>2, <3>1
    <3>4. /\ y \in GrantRecords /\ y.code = oGrant[g].code /\ y.expires = oGrant[g].expires /\ y.notices = k
          /\ y.st = "revoked"
      BY <2>0, <3>2 DEF GrantRecords
    <3> HIDE DEF y
    <3> QED
      BY <1>0, <1>2, <2>2, <3>2, <3>3, <3>4
  <2> QED
    BY <1>3, <2>1, <2>2
<1>5. ASSUME NEW p \in Pairs
      PROVE  /\ oPair'[p] \in TokenRecords
             /\ oPair'[p].grant = oPair[p].grant /\ oPair'[p].from = oPair[p].from
             /\ oPair'[p].keyExpires = oPair[p].keyExpires /\ oPair'[p].consumed = oPair[p].consumed
             /\ oPair'[p].late = oPair[p].late
             /\ ~oPair'[p].keyRevoked => ~oPair[p].keyRevoked /\ p \notin x.keys
  <2> DEFINE a == oPair[p].keyRevoked \/ p \in x.keys
             b == oPair[p].revoked \/ p \in x.toks
  <2>1. oPair'[p] = [oPair[p] EXCEPT !.keyRevoked = a, !.revoked = b]
    BY <1>1
  <2>2. a \in BOOLEAN /\ b \in BOOLEAN /\ (~a => ~oPair[p].keyRevoked /\ p \notin x.keys)
    OBVIOUS
  <2>3. oPair[p] \in TokenRecords
    BY <1>0
  <2> HIDE DEF a, b
  <2>4. /\ oPair'[p] \in TokenRecords
        /\ oPair'[p].grant = oPair[p].grant /\ oPair'[p].from = oPair[p].from
        /\ oPair'[p].keyExpires = oPair[p].keyExpires /\ oPair'[p].consumed = oPair[p].consumed
        /\ oPair'[p].late = oPair[p].late /\ oPair'[p].keyRevoked = a
    BY <2>1, <2>2, <2>3 DEF TokenRecords
  <2> QED
    BY <2>2, <2>4
<1>6. /\ oReq'[r] = NoRequest /\ (\A s \in Reqs : s # r => oReq'[s] = oReq[s])
      /\ oReq' \in [Reqs -> RequestRecords]
  BY <1>0, <1>1, NoRequestFits
<1>7. OAuthRecords'
  <2>1. oPair' \in [Pairs -> TokenRecords]
    BY <1>1, <1>5
  <2> QED
    BY <1>1, <1>4, <1>6, <2>1 DEF OAuthInv, OAuthRecords
<1>8. TicketOfPassword' /\ ConsentIsRecent'
  BY <1>1 DEF OAuthInv, TicketOfPassword, ConsentIsRecent
<1>9. CodeOfGrant'
  <2>1. \A h \in Grants : oGrant'[h].code = oGrant[h].code
    BY <1>4
  <2> QED
    BY <1>1, <2>1 DEF OAuthInv, CodeOfGrant
<1>10. NoticeOfRow'
  BY <1>2, <1>4 DEF OAuthInv, NoticeOfRow
<1>11. NothingUnderDisabled'
  BY <1>1, <1>2, <1>4 DEF OAuthInv, NothingUnderDisabled
<1>12. KeyOfGrant'
  <2> SUFFICES ASSUME NEW q \in Pairs, oPair[q].grant # 0 PROVE
         /\ oGrant'[oPair[q].grant].st # "none" /\ oPair[q].keyExpires <= oGrant'[oPair[q].grant].expires
         /\ oGrant'[oPair[q].grant].st = "revoked" /\ ~oPair'[q].keyRevoked => oPair'[q].late
    BY <1>5 DEF KeyOfGrant
  <2>0. oPair[q].grant \in Grants
    BY <1>0 DEF TokenRecords
  <2>1. CASE oPair[q].grant = g
    BY <1>2, <1>4, <1>5, <2>1 DEF OAuthInv, KeyOfGrant
  <2>2. CASE oPair[q].grant # g
    BY <1>4, <1>5, <2>0, <2>2 DEF OAuthInv, KeyOfGrant
  <2> QED
    BY <2>1, <2>2
<1>13. TokenChain'
  <2>1. \A q \in Pairs : oPair[q].from # 0 => oPair[q].from \in Pairs
    BY <1>0 DEF TokenRecords
  <2> QED
    BY <1>5, <2>1 DEF OAuthInv, TokenChain
<1>14. LocksApart'
  BY <1>6, NoRequestFits DEF OAuthInv, LocksApart, LockSteps
<1>15. ASSUME NEW s \in Reqs PROVE RequestFits(oReq[s])'
  <2>1. CASE s = r
    BY <1>6, <2>1 DEF RequestFits, NoRequest, LockSteps
  <2>2. CASE s # r
    <3> DEFINE y == oReq[s]
    <3>0. oReq'[s] = y /\ RequestFits(y) /\ (y.pc \in LockSteps => y.grant # g)
      BY <1>1, <1>6, <2>2 DEF OAuthInv, LocksApart, LockSteps, g
    <3> HIDE DEF y
    <3>1. y.grant \in Grants /\ oGrant[y.grant].st # "none" => oGrant'[y.grant].st # "none"
      BY <1>4
    <3>2. y.pc \in LockSteps => y.grant \in Grants /\ oGrant'[y.grant] = oGrant[y.grant]
      BY <1>4, <3>0 DEF RequestFits
    <3>3. ASSUME NEW q \in Pairs, y.pc \in {"rvToks", "rvCommit"}, oPair'[q].grant = y.grant,
                 ~oPair'[q].keyRevoked
          PROVE  q \in y.keys \/ oPair'[q].late
      BY <1>5, <3>0, <3>3 DEF RequestFits
    <3> QED
      BY <1>1, <3>0, <3>1, <3>2, <3>3 DEF RequestFits
  <2> QED
    BY <2>1, <2>2
<1> QED
  BY <1>7, <1>8, <1>9, <1>10, <1>11, <1>12, <1>13, <1>14, <1>15 DEF OAuthInv

LEMMA DropKeeps == ASSUME OAuthInv, NEW p \in Pairs, DropAccessToken(p) PROVE OAuthInv'
<1>0. oPair \in [Pairs -> TokenRecords]
  BY DEF OAuthInv, OAuthRecords
<1>1. /\ oPair' = [oPair EXCEPT ![p].keyRevoked = TRUE]
      /\ UNCHANGED <<oNow, oClient, oBrowser, oCode, oGrant, oReq>>
  BY DEF DropAccessToken
<1>2. ASSUME NEW q \in Pairs
      PROVE  /\ oPair'[q] \in TokenRecords
             /\ oPair'[q].grant = oPair[q].grant /\ oPair'[q].from = oPair[q].from
             /\ oPair'[q].keyExpires = oPair[q].keyExpires /\ oPair'[q].consumed = oPair[q].consumed
             /\ oPair'[q].late = oPair[q].late /\ (~oPair'[q].keyRevoked => ~oPair[q].keyRevoked)
  <2>1. /\ oPair[q] \in TokenRecords
        /\ (oPair'[q] = oPair[q] \/ oPair'[q] = [oPair[q] EXCEPT !.keyRevoked = TRUE])
    BY <1>0, <1>1
  <2> QED
    BY <2>1 DEF TokenRecords
<1>3. OAuthRecords'
  <2>1. oPair' \in [Pairs -> TokenRecords]
    BY <1>0, <1>1, <1>2
  <2> QED
    BY <1>1, <2>1 DEF OAuthInv, OAuthRecords
<1>4. /\ TicketOfPassword' /\ ConsentIsRecent' /\ CodeOfGrant' /\ NoticeOfRow' /\ NothingUnderDisabled'
      /\ LocksApart'
  BY <1>1 DEF OAuthInv, TicketOfPassword, ConsentIsRecent, CodeOfGrant, NoticeOfRow, NothingUnderDisabled,
     LocksApart
<1>5. KeyOfGrant'
  BY <1>1, <1>2 DEF OAuthInv, KeyOfGrant
<1>6. TokenChain'
  <2>1. \A q \in Pairs : oPair[q].from # 0 => oPair[q].from \in Pairs
    BY <1>0 DEF TokenRecords
  <2> QED
    BY <1>2, <2>1 DEF OAuthInv, TokenChain
<1>7. ASSUME NEW s \in Reqs PROVE RequestFits(oReq[s])'
  BY <1>1, <1>2 DEF OAuthInv, RequestFits
<1> QED
  BY <1>3, <1>4, <1>5, <1>6, <1>7 DEF OAuthInv

----------------------------------------------------------------------------

LEMMA OAuthInvKeeps == OAuthInv /\ [OAuthNext]_oauthVars => OAuthInv'
<1> SUFFICES ASSUME OAuthInv, [OAuthNext]_oauthVars PROVE OAuthInv'
  OBVIOUS
<1>1. CASE ConsentSteps
  BY <1>1, ConsentStepsKeep
<1>2. CASE DisableOauthClient
  BY <1>2, DisableKeeps
<1>3. ASSUME NEW r \in Reqs, NEW y, RequestMoves(r, y) PROVE OAuthInv'
  BY <1>3, RequestMovesKeep
<1>4. ASSUME NEW r \in Reqs, RequestSteps(r) PROVE OAuthInv'
  BY <1>3, <1>4, RequestStepsMove
<1>5. ASSUME NEW r \in Reqs, ExchangeCommit(r) PROVE OAuthInv'
  <2>1. CASE CodeConsumable(oReq[r].code)
    BY <1>5, <2>1, ExchangeKeeps
  <2>2. CASE ~CodeConsumable(oReq[r].code)
    <3>1. RequestMoves(r, NoRequest)
      BY <1>5, <2>2, NoRequestFits DEF ExchangeCommit, RequestMoves, LockSteps
    <3> QED
      BY <1>3, <3>1
  <2> QED
    BY <2>1, <2>2
<1>6. ASSUME NEW r \in Reqs, RefreshRotate(r) PROVE OAuthInv'
  <2>1. CASE oReq' = [oReq EXCEPT ![r].pc = "rvFlip"] /\ oPair' = oPair
    <3> DEFINE x == oReq[r]
               y == [x EXCEPT !.pc = "rvFlip"]
    <3>0. x \in RequestRecords /\ oReq \in [Reqs -> RequestRecords] /\ RequestFits(x) /\ x.pc = "rfLive"
      BY <1>6 DEF OAuthInv, OAuthRecords, RefreshRotate
    <3>1. oReq' = [oReq EXCEPT ![r] = y]
      BY <2>1, <3>0
    <3>2. y \in RequestRecords /\ y.pc = "rvFlip" /\ y.grant = x.grant
      <4> HIDE DEF x
      <4> QED
        BY <3>0 DEF RequestRecords, Steps
    <3> HIDE DEF y
    <3>3. RequestFits(y)
      BY <3>0, <3>2 DEF RequestFits, LockSteps
    <3>4. RequestMoves(r, y)
      BY <1>6, <2>1, <3>1, <3>2, <3>3 DEF RequestMoves, RefreshRotate, LockSteps
    <3> QED
      BY <1>3, <3>4
  <2>2. CASE ~(oReq' = [oReq EXCEPT ![r].pc = "rvFlip"] /\ oPair' = oPair)
    <3>1. Rotates(r)
      BY <1>6, <2>2 DEF RefreshRotate, Rotates
    <3> QED
      BY <3>1, RotationKeeps
  <2> QED
    BY <2>1, <2>2
<1>7. ASSUME NEW r \in Reqs, RevokeCommit(r) PROVE OAuthInv'
  BY <1>7, RevokeCommitKeeps
<1>8. ASSUME NEW p \in Pairs, DropAccessToken(p) PROVE OAuthInv'
  BY <1>8, DropKeeps
<1>9. CASE UNCHANGED oauthVars
  BY <1>9 DEF oauthVars, OAuthInv, OAuthRecords, TicketOfPassword, ConsentIsRecent, CodeOfGrant,
     NoticeOfRow, KeyOfGrant,
              TokenChain, LocksApart, NothingUnderDisabled, RequestFits
<1> QED
  BY <1>1, <1>2, <1>4, <1>5, <1>6, <1>7, <1>8, <1>9 DEF OAuthNext, ConsentSteps, RequestSteps

LEMMA OAuthInvHolds == OAuthInit => OAuthInv
<1> SUFFICES ASSUME OAuthInit PROVE OAuthInv
  OBVIOUS
<1>0. /\ oNow = 0 /\ oClient = "none" /\ oBrowser = NoConsent
      /\ \A c \in Codes : oCode[c] = [st |-> "none", expires |-> 0, age |-> 0]
      /\ \A g \in Grants : oGrant[g] = [st |-> "none", code |-> "none", expires |-> 0, notices |-> 0]
      /\ \A p \in Pairs : oPair[p] = [grant |-> 0, from |-> 0, keyExpires |-> 0, keyRevoked |-> FALSE,
                                      consumed |-> FALSE, revoked |-> FALSE, late |-> FALSE]
      /\ \A r \in Reqs : oReq[r] = NoRequest
  BY DEF OAuthInit
<1>1. OAuthRecords
  <2>1. /\ NoConsent \in ConsentRecords /\ 0 \in 0..MaxTime
        /\ [st |-> "none", expires |-> 0, age |-> 0] \in CodeRecords
        /\ [st |-> "none", code |-> "none", expires |-> 0, notices |-> 0] \in GrantRecords
        /\ [grant |-> 0, from |-> 0, keyExpires |-> 0, keyRevoked |-> FALSE, consumed |-> FALSE, revoked |-> FALSE,
            late |-> FALSE] \in TokenRecords
    BY TimesFit DEF NoConsent, ConsentRecords, CodeRecords, GrantRecords, TokenRecords
  <2> QED
    BY <2>1, NoRequestFits DEF OAuthInit, OAuthRecords
<1>2. TicketOfPassword /\ ConsentIsRecent /\ NothingUnderDisabled
  BY <1>0 DEF TicketOfPassword, ConsentIsRecent, NothingUnderDisabled, NoConsent
<1>3. CodeOfGrant /\ NoticeOfRow
  BY <1>0, OAuthAssumption, TimesFit DEF CodeOfGrant, NoticeOfRow
<1>4. KeyOfGrant /\ TokenChain
  BY <1>0 DEF KeyOfGrant, TokenChain
<1>5. LocksApart /\ \A r \in Reqs : RequestFits(oReq[r])
  BY <1>0, NoRequestFits DEF LocksApart, LockSteps
<1> QED
  BY <1>1, <1>2, <1>3, <1>4, <1>5 DEF OAuthInv

LEMMA OAuthInvAlways == OAuthSpec => []OAuthInv
<1> QED
  BY OAuthInvHolds, OAuthInvKeeps, PTL DEF OAuthSpec

\* For any number of requests, codes, grants and pairs, in every interleaving of
\* exchanges, rotations, revocations and a disable: a code becomes one grant
\* (the consumed_at compare-and-set of routes/oauth.ts), a refresh token has one
\* successor, and a revocation is announced once.
THEOREM OAuthUsedOnce == OAuthSpec => []UsedOnce
<1>1. OAuthInv => UsedOnce
  <2> SUFFICES ASSUME OAuthInv PROVE UsedOnce
    OBVIOUS
  <2>1. ASSUME NEW c \in Codes PROVE Cardinality({g \in Grants : oGrant[g].code = c}) <= 1
    <3>1. \A g, h \in {k \in Grants : oGrant[k].code = c} : g = h
      BY DEF OAuthInv, CodeOfGrant
    <3> QED
      BY <3>1, AtMostOneOf
  <2>2. ASSUME NEW p \in Pairs PROVE Cardinality({q \in Pairs : oPair[q].from = p}) <= 1
    <3>0. p # 0
      BY OAuthAssumption DEF Pairs
    <3>1. \A q, h \in {k \in Pairs : oPair[k].from = p} : q = h
      BY <3>0 DEF OAuthInv, TokenChain
    <3> QED
      BY <3>1, AtMostOneOf
  <2>3. RevokedOnce
    BY DEF OAuthInv, NoticeOfRow, RevokedOnce
  <2>4. OAuthTypeOK
    BY OAuthRecordsAreTypes DEF OAuthInv
  <2> QED
    BY <2>1, <2>2, <2>3, <2>4 DEF UsedOnce, CodeUsedOnce, OneSuccessor
<1> QED
  BY <1>1, OAuthInvAlways, PTL

\* No access beyond its consent, at any time and after any race: a live key is
\* within its grant's window; a key the API accepts and introspection does not
\* was issued by a rotation a cascade could not see; a disabled client has no
\* grant, and every code was approved within a ticket's lifetime of a password.
THEOREM OAuthConsentBound == OAuthSpec => []ConsentIsBound
<1>1. OAuthInv => ConsentIsBound
  <2> SUFFICES ASSUME OAuthInv PROVE CascadeIsComplete /\ AccessWithinConsent
    BY DEF OAuthInv, ConsentIsBound
  <2>1. ASSUME NEW p \in Pairs, KeyLive(p)
        PROVE  /\ oNow < oGrant[oPair[p].grant].expires
               /\ oGrant[oPair[p].grant].st = "active" \/ oPair[p].late
    <3>1. oPair[p].grant # 0 /\ oPair[p].grant \in Grants /\ oPair[p].keyExpires \in Nat /\ oNow \in Nat
      BY <2>1, TimesFit DEF KeyLive, RowExists, OAuthInv, OAuthRecords, TokenRecords
    <3>2. oGrant[oPair[p].grant].expires \in Nat
      BY <3>1, TimesFit DEF OAuthInv, OAuthRecords, GrantRecords
    <3> QED
      BY <2>1, <3>1, <3>2 DEF KeyLive, RowExists, OAuthInv, KeyOfGrant
  <2> QED
    BY <2>1 DEF CascadeIsComplete, AccessWithinConsent, IntrospectActive
<1> QED
  BY <1>1, OAuthInvAlways, PTL
=============================================================================
