---------------------------- MODULE OtpRelayProofs ---------------------------
(***************************************************************************)
(* The OTP handshake for any number of relays, codes and episodes, and any *)
(* limit of attempts.                                                      *)
(*                                                                         *)
(* The invariants rest on each other: a code is claimed in an open episode *)
(* because the agent waits only when it has prepared one; no code outlives *)
(* its episode because none is cached on the way to prepare; and a login   *)
(* gets no more codes than it has counted attempts because each wait was   *)
(* counted before it began.                                                *)
(***************************************************************************)
EXTENDS OtpRelay, TLAPS

\* The agent is between counting an attempt and claiming its code.
Asking == \/ pc \in {"poll", "polling"}
          \/ pc \in {"arm", "prepare", "confirm"} /\ then = "poll"

\* No code is at hand on the way to, and in, prepare and waitForOtp.
NoCodeAtHand ==
  pc \in {"start", "arm", "prepare", "confirm", "poll", "polling"} => cached = NoCode

\* Every code was paid for with an attempt.
AttemptsCover ==
  /\ got <= taken /\ got <= MaxAttempts
  /\ pc # "done" => /\ attempts <= MaxAttempts
                    /\ got + (IF Asking THEN 1 ELSE 0) <= attempts

PostsBound == posts <= epoch

IInv == /\ TypeOK /\ PostsBound /\ PreparedIsArmed /\ OneCodePerEpisode
        /\ NoCodeAtHand /\ CachedIsLatest /\ AttemptsCover /\ ModeIsCurrent

LEMMA InitIInv == Init => IInv
<1> SUFFICES ASSUME Init PROVE IInv
  OBVIOUS
<1> USE BoundsAssumption DEF Init
<1>1. NoRelay \in RelayRequests /\ NoKey \in (Codes \cup {NoCode}) \X Epochs
  BY DEF NoRelay, NoKey, NoCode, RelayRequests, Codes, Epochs
<1>2. TypeOK
  <2> 0 \in Epochs /\ 0 \in 0..(MaxAttempts + 1)
    BY DEF Epochs
  <2>1. RowTypeOK
    BY <1>1 DEF RowTypeOK, Modes
  <2>2. AgentTypeOK
    BY DEF AgentTypeOK, Steps, Targets
  <2>3. ServerTypeOK
    BY <1>1 DEF ServerTypeOK, Epochs
  <2>4. HistoryTypeOK
    BY DEF HistoryTypeOK, Epochs
  <2> QED
    BY <2>1, <2>2, <2>3, <2>4 DEF TypeOK
<1>3. PostsBound /\ PreparedIsArmed /\ OneCodePerEpisode /\ NoCodeAtHand
  BY DEF PostsBound, PreparedIsArmed, OneCodePerEpisode, NoCodeAtHand
<1>4. CachedIsLatest /\ AttemptsCover /\ ModeIsCurrent
  BY DEF CachedIsLatest, AttemptsCover, Asking, ModeIsCurrent
<1> QED
  BY <1>2, <1>3, <1>4 DEF IInv

\* What a step that only moves the agent preserves.
LEMMA AgentStep ==
  ASSUME IInv, Agent
  PROVE  IInv'
<1> USE BoundsAssumption
    DEF IInv, TypeOK, RowTypeOK, AgentTypeOK, ServerTypeOK, HistoryTypeOK, PostsBound,
        PreparedIsArmed, OneCodePerEpisode, NoCodeAtHand,
        CachedIsLatest, AttemptsCover, Asking, ModeIsCurrent, NoCode, Codes, Epochs, Steps,
        Targets, Modes, rowVars, otpVars, agentVars, serverVars, worldVars, ghostVars,
        Local, Proceed, PrepareFirst, ForgetCode, Active
<1>1. CASE Start
  BY <1>1 DEF Start
<1>2. CASE LoggingIn
  BY <1>2 DEF LoggingIn
<1>3. CASE NextStep
  <2>1. RowTypeOK' /\ ServerTypeOK'
    BY <1>3 DEF NextStep
  <2>2. AgentTypeOK' /\ HistoryTypeOK'
    BY <1>3 DEF NextStep
  <2>3. PreparedIsArmed' /\ NoCodeAtHand' /\ CachedIsLatest' /\ ModeIsCurrent'
    BY <1>3 DEF NextStep
  <2>4. PostsBound' /\ OneCodePerEpisode' /\ AttemptsCover'
    BY <1>3 DEF NextStep
  <2> QED
    BY <2>1, <2>2, <2>3, <2>4
<1>4. CASE Arm
  BY <1>4 DEF Arm
<1>5. CASE Prepare
  <2>0. epoch + 1 \in Epochs /\ posts + 1 \in Epochs /\ 0 \in Epochs
    BY <1>5 DEF Prepare
  <2>1. RowTypeOK' /\ ServerTypeOK'
    BY <1>5, <2>0, Zenon DEF Prepare, OpenEpisode
  <2>2. AgentTypeOK' /\ HistoryTypeOK'
    BY <1>5 DEF Prepare, OpenEpisode
  <2>3. PreparedIsArmed' /\ NoCodeAtHand' /\ CachedIsLatest' /\ ModeIsCurrent'
    BY <1>5 DEF Prepare, OpenEpisode
  <2>4. PostsBound' /\ OneCodePerEpisode' /\ AttemptsCover'
    BY <1>5 DEF Prepare, OpenEpisode
  <2> QED
    BY <2>1, <2>2, <2>3, <2>4
<1>6. CASE Confirm
  BY <1>6 DEF Confirm
<1>7. CASE ConfirmTimeout
  BY <1>7 DEF ConfirmTimeout
<1>8. CASE WaitForOtp
  BY <1>8 DEF WaitForOtp
<1>9. CASE ClaimOtp
  <2>0. taken + 1 \in Epochs /\ got + 1 \in Epochs
    BY <1>9 DEF ClaimOtp
  <2>1. RowTypeOK' /\ ServerTypeOK'
    BY <1>9 DEF ClaimOtp, CloseEpisode, ResetAfterOtpReceived
  <2>2. AgentTypeOK' /\ HistoryTypeOK'
    BY <1>9, <2>0 DEF ClaimOtp, CloseEpisode, ResetAfterOtpReceived
  <2>3. PreparedIsArmed' /\ NoCodeAtHand' /\ CachedIsLatest' /\ ModeIsCurrent'
    BY <1>9 DEF ClaimOtp, CloseEpisode, ResetAfterOtpReceived
  <2>4. PostsBound' /\ OneCodePerEpisode' /\ AttemptsCover'
    BY <1>9 DEF ClaimOtp, CloseEpisode, ResetAfterOtpReceived
  <2> QED
    BY <2>1, <2>2, <2>3, <2>4
<1>10. CASE PollTimeout
  BY <1>10 DEF PollTimeout
<1>11. CASE LoginComplete
  <2>0. RowTypeOK' /\ ServerTypeOK' /\ PostsBound'
    BY <1>11 DEF LoginComplete
  <2>1. AgentTypeOK' /\ HistoryTypeOK'
    BY <1>11 DEF LoginComplete
  <2>2. PreparedIsArmed' /\ NoCodeAtHand' /\ CachedIsLatest' /\ ModeIsCurrent'
    BY <1>11 DEF LoginComplete
  <2>3. OneCodePerEpisode' /\ AttemptsCover'
    BY <1>11 DEF LoginComplete
  <2> QED
    BY <2>0, <2>1, <2>2, <2>3
<1>12. CASE LoginFlowRestarted
  <2>0. 0 \in Epochs /\ 0 \in 0..(MaxAttempts + 1)
    OBVIOUS
  <2>1. RowTypeOK' /\ ServerTypeOK'
    BY <1>12 DEF LoginFlowRestarted, ResetForNewLogin
  <2>2. AgentTypeOK' /\ HistoryTypeOK'
    BY <1>12, <2>0 DEF LoginFlowRestarted, ResetForNewLogin
  <2>3. PreparedIsArmed' /\ NoCodeAtHand' /\ CachedIsLatest' /\ ModeIsCurrent'
    BY <1>12 DEF LoginFlowRestarted, ResetForNewLogin
  <2>4. PostsBound' /\ OneCodePerEpisode' /\ AttemptsCover'
    BY <1>12 DEF LoginFlowRestarted, ResetForNewLogin
  <2> QED
    BY <2>1, <2>2, <2>3, <2>4
<1>13. CASE WaitRefused
  BY <1>13 DEF WaitRefused
<1>14. CASE RequestOtp
  BY <1>14 DEF RequestOtp, MayRequest
<1>15. CASE RequestResend
  <2>1. RowTypeOK' /\ ServerTypeOK'
    BY <1>15 DEF RequestResend, ResetForResend
  <2>2. AgentTypeOK' /\ HistoryTypeOK'
    BY <1>15 DEF RequestResend, ResetForResend
  <2>3. PreparedIsArmed' /\ NoCodeAtHand' /\ CachedIsLatest' /\ ModeIsCurrent'
    BY <1>15 DEF RequestResend, ResetForResend
  <2>4. PostsBound' /\ OneCodePerEpisode' /\ AttemptsCover'
    BY <1>15 DEF RequestResend, ResetForResend
  <2> QED
    BY <2>1, <2>2, <2>3, <2>4
<1>16. CASE Resend
  <2>1. RowTypeOK' /\ ServerTypeOK'
    BY <1>16 DEF Resend
  <2>2. AgentTypeOK' /\ HistoryTypeOK'
    BY <1>16 DEF Resend
  <2>3. PreparedIsArmed' /\ NoCodeAtHand' /\ CachedIsLatest' /\ ModeIsCurrent'
    BY <1>16 DEF Resend
  <2>4. PostsBound' /\ OneCodePerEpisode' /\ AttemptsCover'
    BY <1>16 DEF Resend
  <2> QED
    BY <2>1, <2>2, <2>3, <2>4
<1>17. CASE FillOtp
  BY <1>17 DEF FillOtp
<1>18. ASSUME NEW confirmed \in BOOLEAN, Act(confirmed) PROVE IInv'
  BY <1>18 DEF Act
<1>19. CASE ActionFails
  BY <1>19 DEF ActionFails
<1>20. CASE Stop
  BY <1>20 DEF Stop
<1> QED
  BY <1>1, <1>2, <1>3, <1>4, <1>5, <1>6, <1>7, <1>8, <1>9, <1>10, <1>11, <1>12, <1>13,
     <1>14, <1>15, <1>16, <1>17, <1>18, <1>19, <1>20 DEF Agent

\* A step that leaves the agent, the episode and the mode alone keeps the
\* invariant if it keeps the types.
LEMMA Elsewhere ==
  ASSUME IInv, TypeOK', PostsBound',
         UNCHANGED <<requested, epoch, mode, agentVars, modeFor, cachedFor, taken, got>>
  PROVE  IInv'
  BY DEF IInv, PreparedIsArmed, OneCodePerEpisode, NoCodeAtHand, CachedIsLatest,
         AttemptsCover, Asking, ModeIsCurrent, agentVars, otpVars

\* The requests that carry a code keep their types.
LEMMA RelayStep ==
  ASSUME IInv, NEW r \in Relays,
         \/ \E kind \in {"sms", "email"}, c \in 1..issued : ListAwaiting(r, kind, c)
         \/ SubmitOtpFromSms(r)
         \/ \E found \in BOOLEAN : Extracted(r, found)
         \/ \E c \in 1..issued : OperatorSubmits(r, c)
         \/ SubmitOtp(r)
  PROVE  IInv'
<1> USE BoundsAssumption
    DEF IInv, TypeOK, RowTypeOK, AgentTypeOK, ServerTypeOK, HistoryTypeOK, PostsBound,
        rowVars, agentVars, otpVars, worldVars, ghostVars
<1>1. /\ NoRelay \in RelayRequests /\ epoch \in Epochs /\ 0 \in Epochs
      /\ \A c \in 1..issued : c \in Codes
  BY DEF NoRelay, RelayRequests, Codes, Epochs, NoCode
<1>2. relay[r] \in RelayRequests
  OBVIOUS
<1>3. ASSUME NEW kind \in {"sms", "email"}, NEW c \in 1..issued, ListAwaiting(r, kind, c)
      PROVE  IInv'
  <2>1. [kind |-> kind, code |-> c, epoch |-> epoch, step |-> "post"] \in RelayRequests
    BY <1>1 DEF RelayRequests
  <2>2. relay' \in [Relays -> RelayRequests]
    BY <1>3, <2>1 DEF ListAwaiting
  <2> QED
    BY <1>3, <2>2, Elsewhere DEF ListAwaiting
<1>4. ASSUME NEW ok \in BOOLEAN, NEW step \in {"extract", "write"}, Goes(r, ok, step)
      PROVE  relay' \in [Relays -> RelayRequests]
  <2>1. [relay[r] EXCEPT !.step = step] \in RelayRequests
    BY <1>2 DEF RelayRequests
  <2> QED
    BY <1>1, <1>4, <2>1 DEF Goes
<1>5. CASE SubmitOtpFromSms(r)
  <2>1. relay' \in [Relays -> RelayRequests]
    BY <1>5, <1>4 DEF SubmitOtpFromSms
  <2> QED
    BY <1>5, <2>1, Elsewhere DEF SubmitOtpFromSms
<1>6. ASSUME NEW found \in BOOLEAN, Extracted(r, found) PROVE IInv'
  <2>1. relay' \in [Relays -> RelayRequests]
    BY <1>6, <1>4 DEF Extracted
  <2> QED
    BY <1>6, <2>1, Elsewhere DEF Extracted
<1>7. ASSUME NEW c \in 1..issued, OperatorSubmits(r, c) PROVE IInv'
  <2>1. [kind |-> "operator", code |-> c, epoch |-> 0, step |-> "write"] \in RelayRequests
    BY <1>1 DEF RelayRequests
  <2>2. relay' \in [Relays -> RelayRequests]
    BY <1>7, <2>1 DEF OperatorSubmits
  <2> QED
    BY <1>7, <2>2, Elsewhere DEF OperatorSubmits
<1>8. CASE SubmitOtp(r)
  <2>1. relay' \in [Relays -> RelayRequests]
    BY <1>8, <1>1 DEF SubmitOtp
  <2>2. relay[r].code \in Codes \cup {NoCode} /\ relay[r].epoch \in Epochs
    BY <1>2 DEF RelayRequests
  <2>3. KeyOf(r) \in (Codes \cup {NoCode}) \X Epochs /\ NoKey \in (Codes \cup {NoCode}) \X Epochs
    BY <1>1, <2>2 DEF KeyOf, NoKey, NoCode
  <2>4. RowTypeOK' /\ HistoryTypeOK'
    BY <1>8, <2>2, <2>3 DEF SubmitOtp
  <2> QED
    BY <1>8, <2>1, <2>4, Elsewhere DEF SubmitOtp
<1> QED
  BY <1>3, <1>5, <1>6, <1>7, <1>8

\* The wake-ups, the phones' reports and the surroundings.
LEMMA OtherStep ==
  ASSUME IInv,
         \/ WakeArrives \/ WakeLost
         \/ \E w \in wakes : CountDevices(w) \/ MarkOtpRelayMode(w)
         \/ \E p, q \in BOOLEAN : MarkOtpRelayStatus(p, q)
         \/ BankSendsCode \/ PairingChanges \/ SessionEnds
  PROVE  IInv'
<1> USE BoundsAssumption
    DEF IInv, TypeOK, RowTypeOK, AgentTypeOK, ServerTypeOK, HistoryTypeOK, PostsBound,
        rowVars, agentVars, otpVars, serverVars, worldVars, ghostVars
<1>1. CASE WakeArrives
  <2>1. posts - 1 \in Epochs /\ posts - 1 <= epoch
    BY <1>1 DEF WakeArrives, Epochs
  <2>2. [epoch |-> epoch, mode |-> "none"] \in Wakes
    BY DEF Wakes, Modes
  <2>3. wakes' \in SUBSET Wakes
    BY <1>1, <2>2 DEF WakeArrives
  <2> QED
    BY <1>1, <2>1, <2>3, Elsewhere DEF WakeArrives
<1>2. CASE WakeLost
  <2>1. posts - 1 \in Epochs /\ posts - 1 <= epoch
    BY <1>2 DEF WakeLost, Epochs
  <2> QED
    BY <1>2, <2>1, Elsewhere DEF WakeLost
<1>3. ASSUME NEW w \in wakes, CountDevices(w) PROVE IInv'
  <2>1. \A m \in Modes : [w EXCEPT !.mode = m] \in Wakes
    BY DEF Wakes
  <2>2. wakes' \in SUBSET Wakes
    BY <1>3, <2>1 DEF CountDevices, Modes
  <2> QED
    BY <1>3, <2>2, Elsewhere DEF CountDevices
<1>4. ASSUME NEW w \in wakes, MarkOtpRelayMode(w) PROVE IInv'
  <2>1. w.mode \in Modes /\ w.epoch \in Epochs
    BY DEF Wakes
  <2>2. wakes' \in SUBSET Wakes
    BY <1>4 DEF MarkOtpRelayMode
  <2>3. TypeOK' /\ PostsBound'
    BY <1>4, <2>1, <2>2 DEF MarkOtpRelayMode
  <2>4. ModeIsCurrent'
    BY <1>4 DEF MarkOtpRelayMode, IsCurrent, ModeIsCurrent
  <2>5. PreparedIsArmed' /\ OneCodePerEpisode' /\ NoCodeAtHand' /\ CachedIsLatest'
        /\ AttemptsCover'
    BY <1>4 DEF MarkOtpRelayMode, PreparedIsArmed, OneCodePerEpisode, NoCodeAtHand,
                CachedIsLatest, AttemptsCover, Asking
  <2> QED
    BY <2>3, <2>4, <2>5
<1>5. ASSUME NEW p \in BOOLEAN, NEW q \in BOOLEAN, MarkOtpRelayStatus(p, q) PROVE IInv'
  <2>1. ready' \in BOOLEAN
    BY <1>5, Zenon DEF MarkOtpRelayStatus, ReadyAfter
  <2> QED
    BY <1>5, <2>1, Elsewhere DEF MarkOtpRelayStatus
<1>6. CASE BankSendsCode
  BY <1>6, Elsewhere DEF BankSendsCode
<1>7. CASE PairingChanges
  <2>1. paired' \in BOOLEAN
    BY <1>7, Zenon DEF PairingChanges
  <2> QED
    BY <1>7, <2>1, Elsewhere DEF PairingChanges
<1>8. CASE SessionEnds
  BY <1>8, Elsewhere DEF SessionEnds
<1> QED
  BY <1>1, <1>2, <1>3, <1>4, <1>5, <1>6, <1>7, <1>8

LEMMA StepIInv == IInv /\ [Next]_vars => IInv'
<1> SUFFICES ASSUME IInv, [Next]_vars PROVE IInv'
  OBVIOUS
<1>1. CASE Agent
  BY <1>1, AgentStep
<1>2. CASE Server
  <2>1. ASSUME NEW r \in Relays,
               \/ \E kind \in {"sms", "email"}, c \in 1..issued : ListAwaiting(r, kind, c)
               \/ SubmitOtpFromSms(r)
               \/ \E found \in BOOLEAN : Extracted(r, found)
               \/ \E c \in 1..issued : OperatorSubmits(r, c)
               \/ SubmitOtp(r)
        PROVE  IInv'
    BY <2>1, RelayStep
  <2>2. ASSUME \/ WakeArrives \/ WakeLost
               \/ \E w \in wakes : CountDevices(w) \/ MarkOtpRelayMode(w)
               \/ \E p, q \in BOOLEAN : MarkOtpRelayStatus(p, q)
        PROVE  IInv'
    BY <2>2, OtherStep
  <2> QED
    BY <1>2, <2>1, <2>2 DEF Server
<1>3. CASE BankSendsCode \/ PairingChanges \/ SessionEnds
  BY <1>3, OtherStep
<1>4. CASE UNCHANGED vars
  BY <1>4 DEF IInv, TypeOK, RowTypeOK, AgentTypeOK, ServerTypeOK, HistoryTypeOK, PostsBound,
       PreparedIsArmed, OneCodePerEpisode, NoCodeAtHand, CachedIsLatest, AttemptsCover, Asking,
       ModeIsCurrent, vars, rowVars, agentVars, otpVars, serverVars, worldVars, ghostVars
<1> QED
  BY <1>1, <1>2, <1>3, <1>4 DEF Next

LEMMA IInvAlways == Spec => []IInv
  BY InitIInv, StepIInv, PTL DEF Spec

\* Every reachable state is well typed.
THEOREM OtpTypeCorrect == Spec => []TypeOK
<1>1. IInv => TypeOK
  BY DEF IInv
<1> QED
  BY <1>1, IInvAlways, PTL

\* The agent's relayPrepared and the row's otp_requested never disagree where
\* the agent relies on them (prepare, waitForOtp).
THEOREM PreparedMeansArmed == Spec => []PreparedIsArmed
<1>1. IInv => PreparedIsArmed
  BY DEF IInv
<1> QED
  BY <1>1, IInvAlways, PTL

\* An episode opened by prepare yields at most one code.
THEOREM EpisodeYieldsOneCode == Spec => []OneCodePerEpisode
<1>1. IInv => OneCodePerEpisode
  BY DEF IInv
<1> QED
  BY <1>1, IInvAlways, PTL

\* The agent never holds the code of an earlier episode.
THEOREM CachedCodeIsLatest == Spec => []CachedIsLatest
<1>1. IInv => CachedIsLatest
  BY DEF IInv
<1> QED
  BY <1>1, IInvAlways, PTL

\* A login never obtains more codes than the agent loop's limit of attempts.
THEOREM LoginIsBounded == Spec => []LockoutBound
<1>1. IInv => LockoutBound
  BY DEF IInv, AttemptsCover, LockoutBound
<1> QED
  BY <1>1, IInvAlways, PTL

\* The relay mode read by prepare was decided for the episode it opened.
THEOREM ModeIsOfThisEpisode == Spec => []ModeIsCurrent
<1>1. IInv => ModeIsCurrent
  BY DEF IInv
<1> QED
  BY <1>1, IInvAlways, PTL

\* What the agent's OtpState and the session row hold is of the open episode.
THEOREM EpisodeCurrent == Spec => []EpisodeIsCurrent
<1>1. IInv => EpisodeIsCurrent
  BY DEF IInv, EpisodeIsCurrent
<1> QED
  BY <1>1, IInvAlways, PTL
=============================================================================
