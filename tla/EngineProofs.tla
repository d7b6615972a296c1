--------------------------- MODULE EngineProofs ----------------------------
(***************************************************************************)
(* Inside the engine: the write gate, the agent loop, the rows a crawl     *)
(* reports, the browser pool, the crawl's tabs and the masks over a one-   *)
(* time code, each for any number of requests, rows, launches, crawls,     *)
(* pages, scripts and steps.                                               *)
(***************************************************************************)
EXTENDS AgentLoop, StepTransactions, OtpMask, CrawlTabs, BrowserPool,
        SequenceTheorems, WellFoundedInduction, TLAPS

-----------------------------------------------------------------------------
(***************************************************************************)
(* The write gate denies by default for any set of requests, with or       *)
(* without a vet, and whatever the agent loop does to the phase.           *)
(*                                                                         *)
(* What has to be added is that the cache is honest: a verdict "read" is   *)
(* one the vet gave to a request that looks the same.                      *)
(***************************************************************************)

Looks == {"GET", "POST"} \X Operations

\* WriteGate.verdicts holds nothing but the vet's own answers.
CacheIsHonest == \A s \in Looks : gVerdicts[s] = "read" => <<s, "read">> \in gAsked

\* A request is held only for the bank, and only if it may change state.
HeldIsWrite ==
  \A r \in Requests : gReq[r].step = "vetting" => gReq[r].kind.host = "bank" /\ gReq[r].kind.method = "POST"

GateInv == GateTypeOK /\ CacheIsHonest /\ HeldIsWrite /\ GateDeniesByDefault

-----------------------------------------------------------------------------

\* cacheKey and what the vet is shown are looks of a request.
LEMMA ShownIsLook == \A k \in Kinds : Shown(k) \in Looks
BY DEF Kinds, Shown, Looks, Operations

LEMMA GateInitHolds == GateInit => GateInv
<1> SUFFICES ASSUME GateInit PROVE GateInv
  OBVIOUS
<1>1. NoRequest \in [step : {"idle", "vetting", "sent", "aborted"}, kind : Kinds, phase : Phases]
  BY DEF NoRequest, Kinds, Operations, Phases
<1>2. GateTypeOK
  BY <1>1 DEF GateInit, GateTypeOK, Phases, Verdicts
<1>3. CacheIsHonest
  BY DEF GateInit, CacheIsHonest, Looks
<1>4. HeldIsWrite /\ GateDeniesByDefault
  BY DEF GateInit, HeldIsWrite, GateDeniesByDefault, NoRequest
<1> QED
  BY <1>2, <1>3, <1>4 DEF GateInv

\* Routing, holding or refusing one request leaves the others alone.
LEMMA RouteKeeps ==
  ASSUME GateInv, NEW r \in Requests, NEW k \in Kinds, NEW o \in {"vetting", "sent", "aborted"},
         Route(r, k, o), gBlocked' \subseteq Kinds, UNCHANGED <<gPhase, gVerdicts, gAsked>>,
         o = "vetting" => k.host = "bank" /\ k.method = "POST",
         o = "sent" => /\ k.host = "bank"
                       /\ k.method = "GET" \/ gPhase = "login" \/ <<Shown(k), "read">> \in gAsked
  PROVE  GateInv'
<1> USE DEF GateInv
<1>1. /\ gReq' \in [Requests -> [step : {"idle", "vetting", "sent", "aborted"}, kind : Kinds, phase : Phases]]
      /\ gReq'[r] = [step |-> o, kind |-> k, phase |-> gPhase]
      /\ \A q \in Requests : q # r => gReq'[q] = gReq[q]
  BY DEF GateTypeOK, Route
<1>2. GateTypeOK' /\ CacheIsHonest'
  BY <1>1 DEF GateTypeOK, CacheIsHonest
<1>3. HeldIsWrite'
  BY <1>1 DEF HeldIsWrite
<1>4. GateDeniesByDefault'
  BY <1>1 DEF GateDeniesByDefault, Shown
<1> QED
  BY <1>2, <1>3, <1>4

LEMMA InterceptKeeps == GateInv /\ Intercept => GateInv'
<1> SUFFICES ASSUME GateInv, NEW r \in Requests, NEW k \in Kinds,
                    RouteAtOnce(r, k) \/ EvaluateKnown(r, k) \/ AskVet(r, k)
             PROVE  GateInv'
  BY DEF Intercept
<1>k. /\ k.host \in {"bank", "elsewhere"} /\ k.method \in {"GET", "POST"} /\ Shown(k) \in Looks
      /\ gBlocked \subseteq Kinds
  BY ShownIsLook DEF Kinds, GateInv, GateTypeOK
<1>1. CASE RouteAtOnce(r, k)
  <2>1. UNCHANGED <<gPhase, gVerdicts, gAsked>> /\ gBlocked' \subseteq Kinds
    BY <1>1, <1>k DEF RouteAtOnce
  <2>2. CASE k.host = "bank"
    <3>1. Route(r, k, "sent") /\ k.method = "GET"
      BY <1>1, <2>2, <1>k DEF RouteAtOnce, IsUrlAllowed, IsNonIdempotent
    <3> QED
      BY <2>1, <2>2, <3>1, RouteKeeps
  <2>3. CASE k.host # "bank"
    <3>1. Route(r, k, "aborted")
      BY <1>1, <2>3 DEF RouteAtOnce, IsUrlAllowed
    <3> QED
      BY <2>1, <3>1, RouteKeeps
  <2> QED
    BY <2>2, <2>3
<1>2. CASE EvaluateKnown(r, k)
  <2>1. UNCHANGED <<gPhase, gVerdicts, gAsked>> /\ gBlocked' \subseteq Kinds /\ k.host = "bank"
    BY <1>2, <1>k DEF EvaluateKnown, IsUrlAllowed, Deny
  <2>2. CASE Route(r, k, "sent") /\ (gPhase = "login" \/ gVerdicts[CacheKey(k)] = "read")
    <3>1. gPhase = "login" \/ <<Shown(k), "read">> \in gAsked
      BY <2>2, <1>k DEF CacheKey, CacheIsHonest, GateInv
    <3> QED
      BY <2>1, <2>2, <3>1, RouteKeeps
  <2>3. CASE Route(r, k, "aborted")
    BY <2>1, <2>3, RouteKeeps
  <2> QED
    BY <1>2, <2>2, <2>3 DEF EvaluateKnown
<1>3. CASE AskVet(r, k)
  <2>1. /\ Route(r, k, "vetting") /\ k.host = "bank" /\ k.method = "POST"
        /\ UNCHANGED <<gPhase, gVerdicts, gAsked>> /\ gBlocked' \subseteq Kinds
    BY <1>3, <1>k DEF AskVet, IsUrlAllowed, IsNonIdempotent
  <2> QED
    BY <2>1, RouteKeeps
<1> QED
  BY <1>1, <1>2, <1>3

\* The answer of the vet enters the cache and the history together.
LEMMA VetKeeps == ASSUME GateInv, NEW r \in Requests, VetEnds(r) PROVE GateInv'
<1> USE DEF GateInv
<1>k. gReq[r].kind \in Kinds /\ Shown(gReq[r].kind) \in Looks
  BY ShownIsLook DEF GateTypeOK
<1>1. CASE VetFails(r)
  BY <1>1, <1>k DEF VetFails, Deny, GateTypeOK, CacheIsHonest, HeldIsWrite, GateDeniesByDefault, Shown
<1>2. ASSUME NEW v \in Verdicts, VetAnswers(r, v) PROVE GateInv'
  <2> DEFINE k == gReq[r].kind
  <2>1. /\ gVerdicts' = [gVerdicts EXCEPT ![Shown(k)] = v] /\ gAsked' = gAsked \cup {<<Shown(k), v>>}
        /\ gReq' = [gReq EXCEPT ![r].step = IF v = "read" THEN "sent" ELSE "aborted"]
        /\ gReq[r].step = "vetting" /\ gPhase' = gPhase
        /\ gBlocked' = gBlocked \/ gBlocked' = gBlocked \cup {k}
    BY <1>2 DEF VetAnswers, CacheKey, Deny
  <2>2. GateTypeOK'
    BY <2>1, <1>k DEF GateTypeOK, Looks, Verdicts
  <2>3. CacheIsHonest'
    BY <2>1, <1>k DEF CacheIsHonest, GateTypeOK, Looks
  <2>4. HeldIsWrite'
    BY <2>1 DEF HeldIsWrite, GateTypeOK
  <2>5. ASSUME NEW q \in Requests, gReq'[q].step = "sent"
        PROVE  /\ gReq'[q].kind.host = "bank"
               /\ gReq'[q].kind.method = "GET" \/ gReq'[q].phase = "login"
                  \/ <<Shown(gReq'[q].kind), "read">> \in gAsked'
    <3>1. CASE q = r
      BY <3>1, <2>1, <2>5 DEF GateTypeOK, HeldIsWrite
    <3>2. CASE q # r
      BY <3>2, <2>1, <2>5 DEF GateTypeOK, GateDeniesByDefault
    <3> QED
      BY <3>1, <3>2
  <2> QED
    BY <2>2, <2>3, <2>4, <2>5 DEF GateDeniesByDefault, Shown
<1> QED
  BY <1>1, <1>2 DEF VetEnds

\* For any requests, phases and answers of the vet, a state-changing request
\* leaves the browser in the extract phase only if the vet called it a read
\* (WriteGate.evaluate and its cache).
THEOREM DeniedByDefault == GateSpec => []GateDeniesByDefault
<1>1. GateInv /\ [GateNext]_gateVars => GateInv'
  <2> SUFFICES ASSUME GateInv, [GateNext]_gateVars PROVE GateInv'
    OBVIOUS
  <2>1. CASE AgentUsesGate
    BY <2>1 DEF AgentUsesGate, SetPhase, DrainBlocked, GateInv, GateTypeOK, CacheIsHonest, HeldIsWrite,
                GateDeniesByDefault, Shown
  <2>2. CASE UNCHANGED gateVars
    BY <2>2 DEF gateVars, GateInv, GateTypeOK, CacheIsHonest, HeldIsWrite, GateDeniesByDefault, Shown
  <2> QED
    BY <2>1, <2>2, InterceptKeeps, VetKeeps DEF GateNext
<1>2. GateInv => GateDeniesByDefault
  BY DEF GateInv
<1> QED
  BY <1>1, <1>2, GateInitHolds, PTL DEF GateSpec

-----------------------------------------------------------------------------
(***************************************************************************)
(* The agent loop ends a crawl honestly, for any budget of steps and       *)
(* retries. AgentInv ties the limits to what was spent: every failed retry *)
(* since an action last succeeded has cost a step, so the loop's own bound *)
(* is never what stops it, and a crawl that is recorded as complete was    *)
(* completed by its last answer.                                           *)
(***************************************************************************)

\* Every failed retry since an action last succeeded has spent a step; the
\* limits end the loop; a completed crawl was completed by its last answer;
\* and an error is thrown only on the way out.
LoopFits ==
  /\ aErrors = aFailed.error /\ aNotFound = aFailed.missing
  /\ aPc \notin {"catch", "done"} => aThrown = "none" /\ aErrors < 2 /\ aNotFound < 3
  /\ aPc \notin {"end", "done"} => aStale < 3 /\ aFinish # "complete"
  /\ aFinish = "complete" => aReply.action \in {"complete", "reportData"}
  /\ aErrors + aNotFound <= aStep
  /\ aPc \in {"capture", "ask", "handle", "recover", "retry"} => aErrors + aNotFound < aStep

AgentInv == AgentTypeOK /\ LoopFits /\ SuccessIsEarned

\* A crawl starts with its limits unspent.
LEMMA AgentStarts == AgentInit => AgentInv
BY AgentAssumption DEF AgentInit, AgentInv, AgentTypeOK, LoopFits, SuccessIsEarned, Goals, Errors

\* An answer of the model spends no budget.
LEMMA AskKeeps == ASSUME AgentInv, Ask \/ AskAgain PROVE AgentInv'
<1> USE AgentAssumption DEF AgentInv, AgentTypeOK, LoopFits, SuccessIsEarned, Goals, Errors, loopVars, world, Goto, Throw
<1>1. CASE Ask
  BY <1>1 DEF Ask, Accumulate
<1>2. CASE AskAgain
  <2>1. CASE \E e \in {"contract", "capture", "failed"} : Throw(e) /\ UNCHANGED <<aReply, aRows>>
    BY <1>2, <2>1 DEF AskAgain
  <2>2. CASE (\E answer \in Answers, new \in 0..1 : aReply' = answer /\ Accumulate(new)) /\ Goto("retry") /\ UNCHANGED aThrown
    BY <1>2, <2>2 DEF AskAgain, Accumulate
  <2> QED
    BY <1>2, <2>1, <2>2 DEF AskAgain
<1> QED
  BY <1>1, <1>2

\* The head of the loop spends a step and asks for a capture.
LEMMA HeadKeeps == ASSUME AgentInv, Begin \/ StepTop \/ Capture PROVE AgentInv'
<1> USE AgentAssumption DEF AgentInv, AgentTypeOK, LoopFits, SuccessIsEarned, Goals, Errors, loopVars, world, Goto, Throw
<1>1. CASE Begin
  BY <1>1 DEF Begin
<1>2. CASE StepTop
  BY <1>2 DEF StepTop
<1>3. CASE Capture
  BY <1>3 DEF Capture
<1> QED
  BY <1>1, <1>2, <1>3

\* What the handlers of an action do before its result is read.
LEMMA HandlerKeeps ==
  ASSUME AgentInv,
         Complete \/ ModelError \/ LoginCompletes \/ LoginRestarts \/ WaitsForOtp \/ ActionSucceeds \/ ActionFailsOnce \/ ReportsData
  PROVE  AgentInv'
<1> USE AgentAssumption DEF AgentInv, AgentTypeOK, LoopFits, SuccessIsEarned, Goals, Errors, loopVars, world, Goto, Throw
<1>1. CASE Complete
  BY <1>1 DEF Complete
<1>2. CASE ModelError
  BY <1>2 DEF ModelError
<1>3. CASE LoginCompletes
  BY <1>3 DEF LoginCompletes, ContinueIfActive
<1>4. CASE LoginRestarts
  BY <1>4 DEF LoginRestarts, ContinueIfActive
<1>5. CASE WaitsForOtp
  BY <1>5 DEF WaitsForOtp, OtpEnds
<1>6. CASE ActionSucceeds
  BY <1>6 DEF ActionSucceeds
<1>7. CASE ActionFailsOnce
  BY <1>7 DEF ActionFailsOnce
<1>8. CASE ReportsData
  BY <1>8 DEF ReportsData
<1> QED
  BY <1>1, <1>2, <1>3, <1>4, <1>5, <1>6, <1>7, <1>8

\* A retry that succeeds clears the streak of failures.
LEMMA RetryKeeps ==
  ASSUME AgentInv,
         RetryCompletes \/ RetryErrors \/ RetryLoginCompletes \/ RetryLoginRestarts \/ RetryWaitsForOtp \/ RetryReportsData \/ RetrySucceeds
  PROVE  AgentInv'
<1> USE AgentAssumption DEF AgentInv, AgentTypeOK, LoopFits, SuccessIsEarned, Goals, Errors, loopVars, world, Goto, Throw
<1>1. CASE RetryCompletes
  BY <1>1 DEF RetryCompletes
<1>2. CASE RetryErrors
  BY <1>2 DEF RetryErrors
<1>3. CASE RetryLoginCompletes
  BY <1>3 DEF RetryLoginCompletes, ContinueIfActive
<1>4. CASE RetryLoginRestarts
  BY <1>4 DEF RetryLoginRestarts, ContinueIfActive
<1>5. CASE RetryWaitsForOtp
  BY <1>5 DEF RetryWaitsForOtp, OtpEnds
<1>6. CASE RetrySucceeds
  <2>1. aPc = "retry" /\ UNCHANGED <<aStep, aReply, aGoal, aRows, aLast, aStale, aFinish, aOutcome, world>>
    BY <1>6 DEF RetrySucceeds
  <2>2. CASE aErrors' = 0 /\ aNotFound' = 0 /\ aFailed' = [error |-> 0, missing |-> 0] /\ Goto("top") /\ UNCHANGED aThrown
    BY <2>1, <2>2
  <2>3. CASE Throw(IF aActive THEN "relay" ELSE "cancelled") /\ UNCHANGED <<aErrors, aNotFound, aFailed>>
    BY <2>1, <2>3
  <2> QED
    BY <1>6, <2>2, <2>3 DEF RetrySucceeds
<1>7. CASE RetryReportsData
  BY <1>7 DEF RetryReportsData
<1> QED
  BY <1>1, <1>2, <1>3, <1>4, <1>5, <1>6, <1>7

\* A retry that fails is paid for by the step that led to it.
LEMMA RetryFailsKeeps == ASSUME AgentInv, NEW kind, RetryFails(kind) PROVE AgentInv'
<1> DEFINE e == IF kind = "error" THEN aErrors + 1 ELSE aErrors
           m == IF kind = "missing" THEN aNotFound + 1 ELSE aNotFound
<1>0. /\ aPc = "retry"
      /\ UNCHANGED <<aStep, aReply, aGoal, aRows, aLast, aStale, aFinish, aOutcome, aClock, aActive>>
      /\ aErrors' = e /\ aNotFound' = m
      /\ IF (kind = "error" /\ aErrors' >= 2) \/ (kind = "missing" /\ aNotFound' >= 3)
         THEN aThrown' = "failed" /\ aPc' = "catch" ELSE aPc' = "top" /\ UNCHANGED aThrown
  BY DEF RetryFails, world, Goto, Throw
<1>1. /\ aErrors \in 0..1 /\ aNotFound \in 0..2 /\ aErrors + aNotFound < aStep /\ aStep \in 0..MaxSteps
      /\ MaxSteps \in Nat
      /\ aErrors = aFailed.error /\ aNotFound = aFailed.missing
      /\ aFailed \in [error : 0..MaxSteps, missing : 0..MaxSteps]
  BY <1>0, AgentAssumption DEF AgentInv, AgentTypeOK, LoopFits
<1>2. aFailed' = [error |-> e, missing |-> m]
  <2>1. aFailed' = [aFailed EXCEPT !.error = IF kind = "error" THEN aFailed.error + 1 ELSE aFailed.error,
                                   !.missing = IF kind = "missing" THEN aFailed.missing + 1 ELSE aFailed.missing]
    BY DEF RetryFails
  <2>2. aFailed' = [aFailed EXCEPT !.error = e, !.missing = m]
    BY <1>1, <2>1
  <2> HIDE DEF e, m
  <2> QED
    BY <1>1, <2>2
<1>3. e \in 0..2 /\ m \in 0..3 /\ e + m <= aStep /\ e \in 0..MaxSteps /\ m \in 0..MaxSteps
  BY <1>1
<1>4. \/ aPc' = "catch" /\ aThrown' = "failed"
      \/ aPc' = "top" /\ aThrown' = aThrown /\ e < 2 /\ m < 3
  <2>1. CASE (kind = "error" /\ e >= 2) \/ (kind = "missing" /\ m >= 3)
    BY <1>0, <2>1
  <2>2. CASE ~((kind = "error" /\ e >= 2) \/ (kind = "missing" /\ m >= 3))
    <3>1. aPc' = "top" /\ aThrown' = aThrown
      BY <1>0, <2>2
    <3>2. e < 2 /\ m < 3
      BY <1>1, <2>2
    <3> QED
      BY <3>1, <3>2
  <2> QED
    BY <2>1, <2>2
<1> HIDE DEF e, m
<1>5. /\ aFailed' \in [error : 0..MaxSteps, missing : 0..MaxSteps] /\ aFailed'.error = e
      /\ aFailed'.missing = m
  BY <1>2, <1>3
<1>6. AgentTypeOK'
  BY <1>0, <1>3, <1>4, <1>5 DEF AgentInv, AgentTypeOK, Errors
<1>7. LoopFits'
  BY <1>0, <1>3, <1>4, <1>5 DEF AgentInv, LoopFits
<1>8. SuccessIsEarned'
  BY <1>4 DEF SuccessIsEarned
<1> QED
  BY <1>6, <1>7, <1>8 DEF AgentInv

\* However the loop ends, the record it leaves is the one it earned.
LEMMA EndKeeps == ASSUME AgentInv, Finish \/ Catch \/ Tick \/ SessionStops PROVE AgentInv'
<1> USE AgentAssumption DEF AgentInv, AgentTypeOK, LoopFits, SuccessIsEarned, Goals, Errors, loopVars, world, Goto, Throw
<1>1. CASE Finish
  BY <1>1 DEF Finish, DetermineCrawlOutcome
<1>2. CASE Catch
  BY <1>2 DEF Catch
<1>3. CASE Tick
  BY <1>3 DEF Tick
<1>4. CASE SessionStops
  <2>1. aActive' \in BOOLEAN /\ UNCHANGED <<aPc, loopVars, aThrown, aClock>>
    BY <1>4 DEF SessionStops
  <2> QED
    BY <2>1
<1> QED
  BY <1>1, <1>2, <1>3, <1>4

\* A step of the loop does no more to the gate than set the phase or take the
\* refusals.
LEMMA LoopUsesGate == AgentNext => AgentUsesGate \/ UNCHANGED gateVars
BY DEF AgentNext, LoopStep, AgentUsesGate, SetPhase, DrainBlocked, gateVars, Phases, Begin, StepTop,
   Capture, Ask, Complete,
       ModelError, LoginCompletes, LoginRestarts, WaitsForOtp, ReportsData, ActionSucceeds, ActionFailsOnce, AskAgain,
       RetryCompletes, RetryErrors, RetryLoginCompletes, RetryLoginRestarts, RetryWaitsForOtp, RetryReportsData,
       RetrySucceeds, RetryFails, Finish, Catch, Tick, SessionStops

LEMMA AgentUseKeeps == GateInv /\ (AgentUsesGate \/ UNCHANGED gateVars) => GateInv'
<1>1. GateInv /\ AgentUsesGate => GateInv'
  BY DEF AgentUsesGate, SetPhase, DrainBlocked, GateInv, GateTypeOK, CacheIsHonest, HeldIsWrite,
     GateDeniesByDefault, Shown
<1>2. GateInv /\ UNCHANGED gateVars => GateInv'
  BY DEF gateVars, GateInv, GateTypeOK, CacheIsHonest, HeldIsWrite, GateDeniesByDefault, Shown
<1> QED
  BY <1>1, <1>2

LEMMA AgentStutter == AgentInv /\ UNCHANGED agentVars => AgentInv'
BY DEF agentVars, AgentInv, AgentTypeOK, LoopFits, SuccessIsEarned

LEMMA AgentNextKeeps == AgentInv /\ AgentNext => AgentInv'
<1> SUFFICES ASSUME AgentInv, AgentNext PROVE AgentInv'
  OBVIOUS
<1>1. CASE Begin \/ StepTop \/ Capture \/ Ask \/ AskAgain
  BY <1>1, HeadKeeps, AskKeeps
<1>2. CASE Complete \/ ModelError \/ LoginCompletes \/ LoginRestarts \/ WaitsForOtp \/ ReportsData \/ ActionSucceeds \/ ActionFailsOnce
  BY <1>2, HandlerKeeps
<1>3. CASE RetryCompletes \/ RetryErrors \/ RetryLoginCompletes \/ RetryLoginRestarts \/ RetryWaitsForOtp \/ RetryReportsData \/ RetrySucceeds
  BY <1>3, RetryKeeps
<1>4. ASSUME NEW kind \in ActionOutcomes \ {"ok"}, RetryFails(kind) PROVE AgentInv'
  BY <1>4, RetryFailsKeeps
<1>5. CASE Finish \/ Catch \/ Tick \/ SessionStops
  BY <1>5, EndKeeps
<1> QED
  BY <1>1, <1>2, <1>3, <1>4, <1>5 DEF AgentNext, LoopStep

\* The loop reports what happened, whatever the model answers, whichever
\* requests the page makes meanwhile and whenever the deadline passes or the
\* session is cancelled: success only when it was earned, and every failed
\* retry counted once on its way through recoverFromActionError.
THEOREM LoopHonest == GatedSpec => []LoopIsHonest
<1> DEFINE Both == GateInv /\ AgentInv
<1>1. AgentInit /\ GateInit => Both
  BY GateInitHolds, AgentStarts
<1>2. Both /\ [GatedNext]_<<agentVars, gateVars>> => Both'
  <2> SUFFICES ASSUME GateInv, AgentInv, [GatedNext]_<<agentVars, gateVars>> PROVE GateInv' /\ AgentInv'
    OBVIOUS
  <2>1. CASE AgentNext
    BY <2>1, LoopUsesGate, AgentUseKeeps, AgentNextKeeps
  <2>2. CASE (Intercept \/ \E r \in Requests : VetEnds(r)) /\ UNCHANGED agentVars
    BY <2>2, InterceptKeeps, VetKeeps, AgentStutter
  <2>3. CASE UNCHANGED <<agentVars, gateVars>>
    BY <2>3, AgentUseKeeps, AgentStutter
  <2> QED
    BY <2>1, <2>2, <2>3 DEF GatedNext
<1>3. Both => LoopIsHonest
  BY DEF GateInv, AgentInv, LoopFits, LoopIsHonest, FailuresAreCounted
<1> QED
  BY <1>1, <1>2, <1>3, PTL DEF GatedSpec

-----------------------------------------------------------------------------
(***************************************************************************)
(* The rows a crawl reports, for any statement, any number of reports and  *)
(* any number of rows in each: whatever references the bank repeats, a     *)
(* movement that was reported keeps a row. MapFits says that a row lies    *)
(* under its own key; the loop over a report's rows is the function after, *)
(* which exists because it can be extended by one row.                     *)
(***************************************************************************)

LEMMA LeastNat ==
  ASSUME NEW S, S \subseteq Nat, S # {}
  PROVE  \E x \in S : \A y \in S : x <= y
<1> DEFINE R == OpToRel(<, Nat)
<1>1. IsWellFoundedOn(R, Nat)
  BY NatLessThanWellFounded
<1>2. \A x, y \in Nat : <<y, x>> \in R <=> y < x
  BY DEF OpToRel
<1> HIDE DEF R
<1>3. \E x \in S : \A y \in S : ~(<<y, x>> \in R)
  BY <1>1, WFMin
<1>4. PICK x \in S : \A y \in S : ~(<<y, x>> \in R)
  BY <1>3
<1>5. ASSUME NEW y \in S PROVE x <= y
  <2>1. x \in Nat /\ y \in Nat
    OBVIOUS
  <2>2. ~(y < x)
    BY <1>2, <1>4, <2>1
  <2> QED
    BY <2>1, <2>2
<1> QED
  BY <1>5

\* Induction over a set of numbers.
LEMMA AllNat ==
  ASSUME NEW S, 0 \in S, \A n \in Nat : n \in S => n + 1 \in S
  PROVE  Nat \subseteq S
<1> SUFFICES ASSUME Nat \ S # {} PROVE FALSE
  OBVIOUS
<1>1. PICK n \in Nat \ S : \A m \in Nat \ S : n <= m
  BY LeastNat
<1>2. n # 0
  OBVIOUS
<1>3. n - 1 \in Nat /\ n = (n - 1) + 1 /\ ~(n <= n - 1)
  BY <1>2
<1> QED
  BY <1>1, <1>3

-----------------------------------------------------------------------------
\* What a report does to the map, for any number of movements, references and
\* reports of any length.

Slots == Rows \cup {Absent}
Kept(map, m) == \E k \in Keys : map[k].of = m /\ map[k].count >= 1

\* What is kept without a reference is kept under its own content.
MapFits(map) ==
  /\ map \in [Keys -> Slots]
  /\ \A m \in Movements : map[<<"fallback", m>>] # Absent => map[<<"fallback", m>>].of = m

\* The state of the loop, and that it has lost nothing that a has.
LoopRecords == [map : [Keys -> Slots], batch : SUBSET Movements, demoted : SUBSET References, remembers : BOOLEAN]
Grows(a, b) == b \in LoopRecords /\ MapFits(b.map) /\ \A m \in Movements : Kept(a.map, m) => Kept(b.map, m)

LEMMA KeysAre ==
  /\ \A m \in Movements : <<"fallback", m>> \in Keys
  /\ \A r \in References : <<"id", r>> \in Keys
  /\ \A r, m : <<"id", r>> # <<"fallback", m>>
  /\ \A m, n : <<"fallback", m>> = <<"fallback", n>> => m = n
BY DEF Keys

\* A slot of the map that is overwritten by a row of the same movement.
LEMMA SlotKeeps ==
  ASSUME NEW map, MapFits(map), NEW k \in Keys, NEW row \in Rows,
         map[k] = Absent \/ map[k].of = row.of,
         \A m \in Movements : k = <<"fallback", m>> => row.of = m
  PROVE  LET new == [map EXCEPT ![k] = row] IN
         MapFits(new) /\ Kept(new, row.of) /\ \A m \in Movements : Kept(map, m) => Kept(new, m)
<1> DEFINE new == [map EXCEPT ![k] = row]
<1>1. new \in [Keys -> Slots] /\ new[k] = row /\ \A j \in Keys : j # k => new[j] = map[j]
  BY DEF MapFits, Slots
<1>2. row.count >= 1 /\ row.of \in Movements /\ ~(Absent.count >= 1)
  BY ReportsAssumption DEF Rows, Absent
<1>3. ASSUME NEW m \in Movements, Kept(map, m) PROVE Kept(new, m)
  <2>1. PICK j \in Keys : map[j].of = m /\ map[j].count >= 1
    BY <1>3 DEF Kept
  <2>2. CASE j = k
    BY <1>1, <1>2, <2>1, <2>2 DEF Kept
  <2>3. CASE j # k
    BY <1>1, <2>1, <2>3 DEF Kept
  <2> QED
    BY <2>2, <2>3
<1>4. MapFits(new)
  BY <1>1, KeysAre DEF MapFits
<1>5. Kept(new, row.of)
  BY <1>1, <1>2 DEF Kept
<1> QED
  BY <1>3, <1>4, <1>5

LEMMA ListingKeeps ==
  ASSUME NEW acc \in LoopRecords, MapFits(acc.map), NEW row \in Rows, row.id = NONE
  PROVE  Grows(acc, AddContent(acc, row)) /\ Kept(AddContent(acc, row).map, row.of)
         /\ AddContent(acc, row).demoted = acc.demoted /\ AddContent(acc, row).remembers = acc.remembers
<1> DEFINE k == <<"fallback", row.of>>
           more == [row EXCEPT !.count = Largest(@, acc.map[k].count)]
<1>1. k \in Keys /\ TransactionDedupKey(row) = k /\ row.of \in Movements
  BY KeysAre DEF TransactionDedupKey, Rows
<1>2. acc.map[k] = Absent \/ acc.map[k].of = row.of
  BY <1>1 DEF MapFits
<1>3. \A m \in Movements : k = <<"fallback", m>> => row.of = m
  BY KeysAre
<1>4. more \in Rows /\ more.of = row.of
  <2>1. acc.map[k] \in Rows \cup {Absent} /\ acc.map \in [Keys -> Slots]
    BY <1>1 DEF MapFits, Slots
  <2>2. acc.map[k].count \in 0..MaxCount
    BY <2>1, ReportsAssumption DEF Rows, Absent
  <2>3. Largest(row.count, acc.map[k].count) \in 1..MaxCount
    BY <2>2, ReportsAssumption DEF Rows, Largest
  <2> HIDE DEF k
  <2> QED
    BY <2>3 DEF Rows
<1> HIDE DEF more, k
<1>5. CASE row.of \in acc.batch
  <2>1. AddContent(acc, row) = [acc EXCEPT !.map[k] = more]
    BY <1>1, <1>5 DEF AddContent, more
  <2>2. AddContent(acc, row) = [acc EXCEPT !.map = [acc.map EXCEPT ![k] = more]]
    BY <2>1
  <2> DEFINE new == [acc.map EXCEPT ![k] = more]
  <2>3. MapFits(new) /\ Kept(new, row.of) /\ \A m \in Movements : Kept(acc.map, m) => Kept(new, m)
    BY <1>1, <1>2, <1>3, <1>4, SlotKeeps
  <2> HIDE DEF new
  <2>4. AddContent(acc, row) = [acc EXCEPT !.map = new]
    BY <2>2 DEF new
  <2>5. AddContent(acc, row) \in LoopRecords /\ AddContent(acc, row).map = new
        /\ AddContent(acc, row).demoted = acc.demoted /\ AddContent(acc, row).remembers = acc.remembers
    BY <2>3, <2>4 DEF LoopRecords, MapFits
  <2> QED
    BY <2>3, <2>5 DEF Grows
<1>6. CASE row.of \notin acc.batch
  <2>1. AddContent(acc, row) = [acc EXCEPT !.map[k] = row, !.batch = @ \cup {row.of}]
    BY <1>1, <1>6 DEF AddContent
  <2>2. AddContent(acc, row) = [acc EXCEPT !.map = [acc.map EXCEPT ![k] = row], !.batch = acc.batch \cup {row.of}]
    BY <2>1
  <2> DEFINE new == [acc.map EXCEPT ![k] = row]
  <2>3. MapFits(new) /\ Kept(new, row.of) /\ \A m \in Movements : Kept(acc.map, m) => Kept(new, m)
    BY <1>1, <1>2, <1>3, SlotKeeps
  <2> HIDE DEF new
  <2>4. AddContent(acc, row) = [acc EXCEPT !.map = new, !.batch = acc.batch \cup {row.of}]
    BY <2>2 DEF new
  <2>5. AddContent(acc, row) \in LoopRecords /\ AddContent(acc, row).map = new
        /\ AddContent(acc, row).demoted = acc.demoted /\ AddContent(acc, row).remembers = acc.remembers
    BY <1>1, <2>3, <2>4, ZenonT(60) DEF LoopRecords, MapFits
  <2> QED
    BY <2>3, <2>5 DEF Grows
<1> QED
  BY <1>5, <1>6

LEMMA GrowsOn ==
  ASSUME NEW a, NEW b, NEW c, Grows(a, b), Grows(b, c) PROVE Grows(a, c)
BY DEF Grows

\* One row: nothing is lost, and it is kept itself.
LEMMA RowKeeps ==
  ASSUME NEW acc \in LoopRecords, MapFits(acc.map), NEW row \in Rows
  PROVE  Grows(acc, AddRow(acc, row)) /\ Kept(AddRow(acc, row).map, row.of)
<1> DEFINE k == <<"id", row.id>>
           prev == acc.map[k]
           plain == Without(row)
<1>1. plain \in Rows /\ plain.id = NONE /\ plain.of = row.of
  BY DEF Without, Rows
<1>2. CASE row.id = NONE
  BY <1>2, ListingKeeps DEF AddRow
<1>3. CASE row.id # NONE /\ row.id \in acc.demoted
  <2>1. AddRow(acc, row) = AddContent(acc, plain)
    BY <1>3 DEF AddRow
  <2> QED
    BY <1>1, <2>1, ListingKeeps
<1>4. CASE row.id # NONE /\ row.id \notin acc.demoted
  <2>1. TransactionDedupKey(row) = k /\ k \in Keys /\ \A m \in Movements : k # <<"fallback", m>>
    BY <1>4, KeysAre DEF TransactionDedupKey, Rows
  <2>2. prev \in Slots /\ acc.map \in [Keys -> Slots]
    BY <2>1 DEF MapFits
  <2>3. CASE prev = Absent \/ prev.of = row.of
    <3> DEFINE new == [acc.map EXCEPT ![k] = row]
    <3>1. AddRow(acc, row) = [acc EXCEPT !.map = new]
      BY <1>4, <2>1, <2>3 DEF AddRow
    <3>2. MapFits(new) /\ Kept(new, row.of) /\ \A m \in Movements : Kept(acc.map, m) => Kept(new, m)
      BY <2>1, <2>3, SlotKeeps
    <3> HIDE DEF new
    <3>3. AddRow(acc, row) \in LoopRecords /\ AddRow(acc, row).map = new
      BY <3>1, <3>2 DEF LoopRecords, MapFits
    <3> QED
      BY <3>2, <3>3 DEF Grows
  <2>4. CASE prev # Absent /\ prev.of # row.of
    <3> DEFINE map == [acc.map EXCEPT ![k] = Absent]
               demoted == IF acc.remembers THEN acc.demoted \cup {row.id} ELSE acc.demoted
               clear == [acc EXCEPT !.map = map, !.demoted = demoted]
               old == Without(prev)
               mid == AddContent(clear, old)
    <3>1. AddRow(acc, row) = AddContent(mid, plain)
      <4>1. [acc EXCEPT !.map[k] = Absent, !.demoted = IF acc.remembers THEN @ \cup {row.id} ELSE @] = clear
        OBVIOUS
      <4> HIDE DEF clear
      <4> QED
        BY <1>4, <2>1, <2>4, <4>1 DEF AddRow
    <3>2. prev \in Rows
      BY <2>2, <2>4 DEF Slots
    <3>3. old \in Rows /\ old.id = NONE /\ old.of = prev.of
      BY <3>2 DEF Without, Rows
    <3>4. MapFits(map) /\ \A m \in Movements : Kept(acc.map, m) => Kept(map, m) \/ m = prev.of
      <4>1. map \in [Keys -> Slots] /\ map[k] = Absent /\ \A j \in Keys : j # k => map[j] = acc.map[j]
        BY <2>1, <2>2 DEF Slots
      <4>2. MapFits(map)
        BY <2>1, <4>1, KeysAre DEF MapFits
      <4>3. ASSUME NEW m \in Movements, Kept(acc.map, m), m # prev.of PROVE Kept(map, m)
        <5>1. PICK j \in Keys : acc.map[j].of = m /\ acc.map[j].count >= 1
          BY <4>3 DEF Kept
        <5> QED
          BY <4>1, <4>3, <5>1 DEF Kept
      <4> QED
        BY <4>2, <4>3
    <3>5. demoted \subseteq References
      BY <1>4 DEF LoopRecords, Rows
    <3> HIDE DEF map, demoted
    <3>6. clear \in LoopRecords /\ clear.map = map
      BY <3>4, <3>5 DEF LoopRecords, MapFits
    <3> HIDE DEF clear, old
    <3>7. Grows(clear, mid) /\ Kept(mid.map, prev.of)
      BY <3>3, <3>4, <3>6, ListingKeeps
    <3> HIDE DEF mid, plain
    <3>8. mid \in LoopRecords /\ MapFits(mid.map)
      BY <3>7 DEF Grows
    <3>9. Grows(mid, AddContent(mid, plain)) /\ Kept(AddContent(mid, plain).map, row.of)
      BY <1>1, <3>8, ListingKeeps
    <3>10. prev.of \in Movements
      BY <3>2 DEF Rows
    <3>11. Grows(acc, mid)
      BY <3>4, <3>6, <3>7, <3>10 DEF Grows
    <3> QED
      BY <3>1, <3>9, <3>11, GrowsOn
  <2> QED
    BY <2>3, <2>4
<1> QED
  BY <1>2, <1>3, <1>4

\* The loop is what its recursion says, for a report of any length.
Loop(after, n, start, rows) ==
  after = [i \in 0..n |-> IF i = 0 THEN start ELSE AddRow(after[i - 1], rows[i])]

LEMMA LoopExists ==
  ASSUME NEW start, NEW rows PROVE \A n \in Nat : \E after : Loop(after, n, start, rows)
<1> DEFINE S == {n \in Nat : \E after : Loop(after, n, start, rows)}
<1>1. 0 \in S
  <2> DEFINE g == [i \in 0..0 |-> start]
  <2>1. g = [i \in 0..0 |-> IF i = 0 THEN start ELSE AddRow(g[i - 1], rows[i])]
    OBVIOUS
  <2> QED
    BY <2>1 DEF Loop
<1>2. ASSUME NEW n \in Nat, n \in S PROVE n + 1 \in S
  <2>1. PICK f : Loop(f, n, start, rows)
    BY <1>2
  <2> DEFINE g == [i \in 0..(n + 1) |-> IF i = n + 1 THEN AddRow(f[n], rows[n + 1]) ELSE f[i]]
  <2>2. \A i \in 0..n : f[i] = IF i = 0 THEN start ELSE AddRow(f[i - 1], rows[i])
    BY <2>1 DEF Loop
  <2>3. ASSUME NEW i \in 0..(n + 1) PROVE g[i] = IF i = 0 THEN start ELSE AddRow(g[i - 1], rows[i])
    <3>1. CASE i = 0
      BY <2>2, <3>1
    <3>2. CASE i # 0 /\ i # n + 1
      <4>1. i \in 0..n /\ i - 1 \in 0..(n + 1) /\ i - 1 # n + 1
        BY <3>2
      <4> QED
        BY <2>2, <3>2, <4>1
    <3>3. CASE i = n + 1
      <4>1. i - 1 = n /\ n \in 0..(n + 1) /\ n # n + 1
        BY <3>3
      <4> QED
        BY <3>3, <4>1
    <3> QED
      BY <3>1, <3>2, <3>3
  <2>4. g = [i \in 0..(n + 1) |-> g[i]]
    OBVIOUS
  <2> HIDE DEF g
  <2>5. Loop(g, n + 1, start, rows)
    BY <2>3, <2>4 DEF Loop
  <2> QED
    BY <2>5
<1>3. Nat \subseteq S
  <2> HIDE DEF S
  <2> QED
    BY <1>1, <1>2, AllNat
<1> QED
  BY <1>3

\* A whole report: nothing is lost, and every row of it is kept.
LEMMA ReportKeeps ==
  ASSUME NEW map, MapFits(map), NEW n \in Nat, NEW rows \in [1..n -> Rows],
         NEW demoted \in SUBSET References,
         NEW remembers \in BOOLEAN
  PROVE  LET acc == AccumulateStepTransactions(map, rows, demoted, remembers) IN
         /\ acc \in LoopRecords /\ MapFits(acc.map)
         /\ \A m \in Movements : Kept(map, m) \/ (\E i \in 1..n : rows[i].of = m) => Kept(acc.map, m)
<1> DEFINE start == [map |-> map, batch |-> {}, demoted |-> demoted, remembers |-> remembers]
           after == CHOOSE g : Loop(g, n, start, rows)
<1>1. Len(rows) = n
  OBVIOUS
<1>2. AccumulateStepTransactions(map, rows, demoted, remembers) = after[n]
  BY <1>1 DEF AccumulateStepTransactions, Loop
<1>3. start \in LoopRecords /\ start.map = map
  BY DEF LoopRecords, MapFits
<1> HIDE DEF start
<1>4. Loop(after, n, start, rows)
  BY LoopExists
<1> HIDE DEF after
<1>5. \A i \in 0..n : after[i] = IF i = 0 THEN start ELSE AddRow(after[i - 1], rows[i])
  BY <1>4 DEF Loop
<1> DEFINE Holds(i) == Grows(start, after[i]) /\ \A j \in 1..i : Kept(after[i].map, rows[j].of)
           S == {i \in Nat : i <= n => Holds(i)}
<1>6. 0 \in S
  <2>1. Grows(start, start)
    BY <1>3 DEF Grows
  <2> QED
    BY <1>5, <2>1
<1>7. ASSUME NEW i \in Nat, i \in S PROVE i + 1 \in S
  <2> SUFFICES ASSUME i + 1 <= n PROVE Holds(i + 1)
    OBVIOUS
  <2>1. Holds(i)
    BY <1>7
  <2>2. i + 1 \in 0..n /\ i + 1 # 0 /\ (i + 1) - 1 = i /\ i + 1 \in 1..n
    OBVIOUS
  <2>3. after[i + 1] = AddRow(after[i], rows[i + 1])
    BY <1>5, <2>2
  <2>4. rows[i + 1] \in Rows /\ \A j \in 1..n : rows[j].of \in Movements
    BY <2>2 DEF Rows
  <2>5. Grows(after[i], after[i + 1]) /\ Kept(after[i + 1].map, rows[i + 1].of)
    BY <2>1, <2>3, <2>4, RowKeeps DEF Grows
  <2>6. ASSUME NEW j \in 1..(i + 1) PROVE Kept(after[i + 1].map, rows[j].of)
    <3>1. CASE j = i + 1
      BY <2>5, <3>1
    <3>2. CASE j # i + 1
      <4>1. j \in 1..i /\ j \in 1..n
        BY <3>2
      <4> QED
        BY <2>1, <2>4, <2>5, <4>1 DEF Grows
    <3> QED
      BY <3>1, <3>2
  <2> QED
    BY <2>1, <2>5, <2>6, GrowsOn
<1>8. n \in S
  <2> HIDE DEF S
  <2> QED
    BY <1>6, <1>7, AllNat
<1>9. Holds(n)
  BY <1>8
<1> QED
  BY <1>2, <1>3, <1>9 DEF Grows

-----------------------------------------------------------------------------

RowsSpec == RowsInit /\ [][RowsNext]_rowsVars

RowsInv == RowsTypeOK /\ MapFits(xMap) /\ \A m \in xSeen : Kept(xMap, m)

LEMMA RowsInvHolds == RowsSpec => []RowsInv
<1>1. RowsInit => RowsInv
  <2> SUFFICES ASSUME RowsInit PROVE RowsInv
    OBVIOUS
  <2>1. xMap \in [Keys -> Slots] /\ \A k \in Keys : xMap[k] = Absent
    BY DEF RowsInit, Slots
  <2>2. MapFits(xMap)
    BY <2>1, KeysAre DEF MapFits
  <2> QED
    BY <2>1, <2>2, ReportsAssumption DEF RowsInv, RowsInit, RowsTypeOK, Slots
<1>2. ASSUME RowsInv, NEW rows \in Batches, NEW demoted \in SUBSET References, NEW remembers \in BOOLEAN,
             Report(rows, demoted, remembers)
      PROVE  RowsInv'
  <2>1. PICK n \in 1..MaxListed : rows \in [1..n -> Listing]
    BY <1>2 DEF Batches
  <2>2. n \in Nat /\ rows \in [1..n -> Rows] /\ DOMAIN rows = 1..n
    BY <2>1, ReportsAssumption DEF Listing
  <2> DEFINE acc == AccumulateStepTransactions(xMap, rows, demoted, remembers)
  <2>3. acc \in LoopRecords /\ MapFits(acc.map)
        /\ \A m \in Movements : Kept(xMap, m) \/ (\E i \in 1..n : rows[i].of = m) => Kept(acc.map, m)
    BY <1>2, <2>2, ReportKeeps DEF RowsInv
  <2> HIDE DEF acc
  <2>4. /\ xReports < MaxReports /\ xReports' = xReports + 1 /\ xMap' = acc.map /\ xRef' = xRef
        /\ xDemoted' = IF remembers THEN acc.demoted ELSE xDemoted
        /\ xSeen' = xSeen \cup {rows[i].of : i \in 1..n}
    BY <1>2, <2>2 DEF Report, acc
  <2>5. RowsTypeOK'
    BY <1>2, <2>2, <2>3, <2>4, ReportsAssumption DEF RowsInv, RowsTypeOK, LoopRecords, Rows, Slots
  <2>6. \A m \in xSeen' : m \in Movements /\ (Kept(xMap, m) \/ \E i \in 1..n : rows[i].of = m)
    BY <1>2, <2>2, <2>4 DEF RowsInv, RowsTypeOK, Rows
  <2> QED
    BY <2>3, <2>4, <2>5, <2>6 DEF RowsInv
<1>3. RowsInv /\ [RowsNext]_rowsVars => RowsInv'
  <2> SUFFICES ASSUME RowsInv, [RowsNext]_rowsVars PROVE RowsInv'
    OBVIOUS
  <2>1. CASE MainReports
    BY <1>2, <2>1 DEF MainReports, RowsInv, RowsTypeOK
  <2>2. CASE RecoveryReports
    BY <1>2, <2>2 DEF RecoveryReports
  <2>3. CASE UNCHANGED rowsVars
    BY <2>3 DEF rowsVars, RowsInv, RowsTypeOK, MapFits, Kept
  <2> QED
    BY <2>1, <2>2, <2>3 DEF RowsNext
<1> QED
  BY <1>1, <1>3, PTL DEF RowsSpec

\* A movement that was ever reported is handed off, on either path and for
\* any number of movements, references and reports of any length.
THEOREM RowsStayKept == RowsSpec => []RowsAreKept
<1>1. RowsInv => RowsAreKept
  <2> SUFFICES ASSUME RowsInv, NEW m \in xSeen
               PROVE  \E k \in Keys : xMap[k].of = m /\ ExpandTransactionCounts(xMap[k]) >= 1
    BY DEF RowsInv, RowsAreKept, NoMovementLost
  <2>1. PICK k \in Keys : xMap[k].of = m /\ xMap[k].count >= 1
    BY DEF RowsInv, Kept
  <2>2. xMap[k].count >= 1 => ExpandTransactionCounts(xMap[k]) >= 1
    BY DEF ExpandTransactionCounts
  <2> QED
    BY <2>1, <2>2
<1> QED
  BY <1>1, RowsInvHolds, PTL

-----------------------------------------------------------------------------
(***************************************************************************)
(* The browser pool: what is published is of this generation, and what was *)
(* given up is closed, for any number of launches and crawls.              *)
(***************************************************************************)

\* What the browser pool does, on its own.
PoolSpec == PoolInit /\ [][PoolNext]_poolVars

\* The launch in flight is the only one, and nothing is published meanwhile.
OneLaunch ==
  /\ \A l \in Launches : bChrome[l].state = "launching" <=> bLaunch = l
  /\ bLaunch # 0 => ~Connected(bBrowser)

\* What is published, or is being closed, was launched, in this generation.
PublishedIsCurrent ==
  /\ bBrowser # 0 => bChrome[bBrowser].gen = bGen /\ bChrome[bBrowser].state \notin {"unused", "launching"}
  /\ \A k \in Closers : bCloser[k].current # 0 =>
       bChrome[bCloser[k].current].state \notin {"unused", "launching"}

\* A launch a fence has overtaken is waited for.
OldLaunchIsAwaited ==
  \A l \in Launches : bChrome[l].state = "launching" /\ bChrome[l].gen # bGen =>
    \E k \in Closers : bCloser[k].pc = "closing" /\ bCloser[k].pending = l

\* A crawl that goes on with a browser goes on in the browser's generation,
\* and its context lives no longer than its browser.
CrawlOfBrowser(c) ==
  LET l == bCrawl[c].browser
  IN /\ bCrawl[c].pc # "idle" =>
          /\ l # 0 /\ bChrome[l].state # "unused" /\ bCrawl[c].gen <= bGen
          /\ bChrome[l].state = "launching" => bChrome[l].gen <= bCrawl[c].gen
          /\ bChrome[l].state = "open" => bChrome[l].gen = bCrawl[c].gen
     /\ bContext[c] = "open" => bCrawl[c].pc # "idle" /\ Connected(l)

\* Nothing was launched in a generation that has not come yet.
GensAreOld == \A l \in Launches : bChrome[l].gen <= bGen

PoolInv ==
  /\ PoolTypeOK /\ OneLaunch /\ PublishedIsCurrent /\ OldLaunchIsAwaited /\ OneBrowser /\ GensAreOld
  /\ \A c \in Crawls : CrawlOfBrowser(c)

ChromeRecords == [state : ChromeStates, gen : Nat, failed : BOOLEAN]
CrawlRecords == [pc : {"idle", "browser", "context", "script", "ready", "failed"}, gen : Nat, browser : 0..MaxLaunches]
CloserRecords == [pc : {"idle", "closing", "done"}, current : 0..MaxLaunches, pending : 0..MaxLaunches]

LEMMA PoolTypes ==
  PoolTypeOK <=> /\ bGen \in Nat /\ bBrowser \in 0..MaxLaunches /\ bLaunch \in 0..MaxLaunches
                 /\ bChrome \in [Launches -> ChromeRecords] /\ bCrawl \in [Crawls -> CrawlRecords]
                 /\ bContext \in [Crawls -> {"none", "open", "closed"}]
                 /\ bCloser \in [Closers -> CloserRecords]
BY DEF PoolTypeOK, ChromeRecords, CrawlRecords, CloserRecords

LEMMA PoolTypesKeep == PoolTypeOK /\ PoolNext => PoolTypeOK'
<1> SUFFICES ASSUME PoolTypeOK, PoolNext PROVE PoolTypeOK'
  OBVIOUS
<1> DEFINE types == /\ bGen \in Nat /\ bBrowser \in 0..MaxLaunches /\ bLaunch \in 0..MaxLaunches
                    /\ bChrome \in [Launches -> ChromeRecords] /\ bCrawl \in [Crawls -> CrawlRecords]
                    /\ bContext \in [Crawls -> {"none", "open", "closed"}]
                    /\ bCloser \in [Closers -> CloserRecords]
<1>a. types
  BY PoolTypes
<1>b. ASSUME types' PROVE PoolTypeOK'
  BY <1>b DEF PoolTypeOK, ChromeRecords, CrawlRecords, CloserRecords
<1> HIDE DEF types
<1>c. /\ \A n \in ChromeStates, x \in ChromeRecords : [x EXCEPT !.state = n] \in ChromeRecords
      /\ \A n \in ChromeStates, x \in ChromeRecords : [x EXCEPT !.state = n, !.failed = TRUE] \in ChromeRecords
  BY DEF ChromeRecords
<1>d. \A n \in {"context", "script", "ready", "failed"}, x \in CrawlRecords : [x EXCEPT !.pc = n] \in CrawlRecords
  BY DEF CrawlRecords
<1>e. \A x \in CloserRecords : [x EXCEPT !.pc = "done"] \in CloserRecords
  BY DEF CloserRecords
<1>f. \A l \in Launches : l \in 0..MaxLaunches
  BY LaunchAssumption DEF Launches
<1>g. {"launching", "open", "closed", "unclosable"} \subseteq ChromeStates
  BY DEF ChromeStates
<1>1. ASSUME NEW c \in Crawls, GetBrowser(c) PROVE types'
  <2>1. \A l \in 0..MaxLaunches : [pc |-> "browser", gen |-> bGen, browser |-> l] \in CrawlRecords
    BY <1>a DEF CrawlRecords, types
  <2>2. [state |-> "launching", gen |-> bGen, failed |-> FALSE] \in ChromeRecords
    BY <1>a DEF ChromeRecords, ChromeStates, types
  <2>3. PICK l \in 0..MaxLaunches : bCrawl' = [bCrawl EXCEPT ![c] = [pc |-> "browser", gen |-> bGen, browser |-> l]]
    BY <1>1, <1>a, <1>f DEF types, GetBrowser
  <2>4. bCrawl' \in [Crawls -> CrawlRecords]
    BY <1>a, <2>1, <2>3 DEF types
  <2>5. bChrome' \in [Launches -> ChromeRecords] /\ bLaunch' \in 0..MaxLaunches
    BY <1>1, <1>a, <1>f, <2>2 DEF types, GetBrowser
  <2> QED
    BY <1>1, <1>a, <2>4, <2>5 DEF types, GetBrowser
<1>2. ASSUME NEW c \in Crawls, OpenContext(c) \/ ContextOpened(c) \/ ScriptAdded(c) PROVE types'
  <2>1. /\ UNCHANGED <<bGen, bBrowser, bLaunch, bChrome, bCloser>>
        /\ \E n \in {"context", "script", "ready", "failed"} : bCrawl' = [bCrawl EXCEPT ![c].pc = n]
        /\ bContext' = bContext \/ \E n \in {"open", "closed"} : bContext' = [bContext EXCEPT ![c] = n]
    BY <1>2 DEF OpenContext, ContextOpened, ScriptAdded, CheckFence
  <2>2. bCrawl' \in [Crawls -> CrawlRecords]
    BY <1>a, <1>d, <2>1 DEF types
  <2> QED
    BY <1>a, <2>1, <2>2 DEF types
<1>3. ASSUME NEW k \in Closers, CloseBrowser(k) PROVE types'
  <2>1. [pc |-> "closing", current |-> bBrowser, pending |-> bLaunch] \in CloserRecords
    BY <1>a DEF CloserRecords, types
  <2> QED
    BY <1>3, <1>a, <2>1, LaunchAssumption DEF types, CloseBrowser
<1>4. ASSUME NEW k \in Closers, CloseEnds(k) PROVE types'
  <2>1. bChrome' = bChrome \/ \E l : bChrome' = [bChrome EXCEPT ![l].state = "closed"]
    BY <1>4 DEF CloseEnds
  <2>2. bChrome' \in [Launches -> ChromeRecords]
    <3>1. CASE bChrome' = bChrome
      BY <1>a, <3>1 DEF types
    <3>2. ASSUME NEW l, bChrome' = [bChrome EXCEPT ![l].state = "closed"]
          PROVE  bChrome' \in [Launches -> ChromeRecords]
      <4>1. CASE l \in Launches
        <5>1. bChrome' = [bChrome EXCEPT ![l] = [bChrome[l] EXCEPT !.state = "closed"]]
          BY <1>a, <3>2, <4>1 DEF types
        <5> QED
          BY <1>a, <1>c, <1>g, <4>1, <5>1 DEF types
      <4>2. CASE l \notin Launches
        BY <1>a, <3>2, <4>2 DEF types
      <4> QED
        BY <4>1, <4>2
    <3> QED
      BY <2>1, <3>1, <3>2
  <2>3. bCloser' \in [Closers -> CloserRecords]
    BY <1>4, <1>a, <1>e DEF types, CloseEnds
  <2> QED
    BY <1>4, <1>a, <2>2, <2>3 DEF types, CloseEnds
<1>5. ASSUME NEW l \in Launches, LaunchEnds(l) PROVE types'
  <2>1. \E n \in ChromeStates : \/ bChrome' = [bChrome EXCEPT ![l].state = n]
                                \/ bChrome' = [bChrome EXCEPT ![l].state = n, ![l].failed = TRUE]
    BY <1>5, <1>g DEF LaunchEnds
  <2>2. bChrome' \in [Launches -> ChromeRecords]
    <3>1. PICK n \in ChromeStates : \/ bChrome' = [bChrome EXCEPT ![l].state = n]
                                    \/ bChrome' = [bChrome EXCEPT ![l].state = n, ![l].failed = TRUE]
      BY <2>1
    <3>2. \/ bChrome' = [bChrome EXCEPT ![l] = [bChrome[l] EXCEPT !.state = n]]
          \/ bChrome' = [bChrome EXCEPT ![l] = [bChrome[l] EXCEPT !.state = n, !.failed = TRUE]]
      BY <1>a, <3>1 DEF types
    <3> QED
      <4>1. bChrome[l] \in ChromeRecords /\ bChrome \in [Launches -> ChromeRecords]
        BY <1>a DEF types
      <4>2. PICK y \in ChromeRecords : bChrome' = [bChrome EXCEPT ![l] = y]
        BY <1>c, <3>2, <4>1
      <4> QED
        BY <4>1, <4>2
  <2> QED
    BY <1>5, <1>a, <1>f, <2>2, LaunchAssumption DEF types, LaunchEnds
<1>6. ASSUME NEW l \in Launches, BrowserCrashes(l) PROVE types'
  <2>1. bChrome' \in [Launches -> ChromeRecords]
    BY <1>6, <1>a, <1>c, <1>g DEF types, BrowserCrashes
  <2> QED
    BY <1>6, <1>a, <2>1 DEF types, BrowserCrashes
<1> QED
  BY <1>b, <1>1, <1>2, <1>3, <1>4, <1>5, <1>6 DEF PoolNext

\* A launch in flight ends; the rest of the pool is as it was.
LEMMA LaunchEndKeeps ==
  ASSUME PoolInv, NEW l \in Launches, LaunchEnds(l)
  PROVE  /\ OneLaunch' /\ PublishedIsCurrent' /\ OldLaunchIsAwaited' /\ OneBrowser'
         /\ \A c \in Crawls : CrawlOfBrowser(c)'
<1> USE LaunchAssumption DEF Launches
<1>0. /\ bGen \in Nat /\ bBrowser \in 0..MaxLaunches /\ bLaunch \in 0..MaxLaunches
      /\ bChrome \in [Launches -> [state : ChromeStates, gen : Nat, failed : BOOLEAN]]
      /\ \A c \in Crawls : bCrawl[c].gen \in Nat /\ bCrawl[c].browser \in 0..MaxLaunches
      /\ \A k \in Closers : bCloser[k].current \in 0..MaxLaunches /\ bCloser[k].pending \in 0..MaxLaunches
  BY DEF PoolInv, PoolTypeOK
<1>1. /\ bChrome[l].state = "launching" /\ bLaunch = l /\ bLaunch' = 0
      /\ UNCHANGED <<bGen, bCrawl, bContext, bCloser>>
  BY DEF LaunchEnds, PoolInv, OneLaunch
<1>2. /\ \A m \in Launches : m # l => bChrome'[m] = bChrome[m]
      /\ bChrome'[l].gen = bChrome[l].gen
      /\ \/ bChrome'[l].state = "open" /\ bBrowser' = l /\ bChrome[l].gen = bGen
         \/ bChrome'[l].state \in {"closed", "unclosable"} /\ bBrowser' = bBrowser
  <2>1. /\ \A m \in Launches : m # l => bChrome'[m] = bChrome[m]
        /\ \/ bChrome'[l] = [bChrome[l] EXCEPT !.state = "open"] /\ bBrowser' = l /\ bChrome[l].gen = bGen
           \/ /\ \E end \in {"closed", "unclosable"} : bChrome'[l] = [bChrome[l] EXCEPT !.state = end, !.failed = TRUE]
              /\ bBrowser' = bBrowser
    BY <1>0 DEF LaunchEnds
  <2> QED
    BY <1>0, <2>1
<1>3. ~Connected(bBrowser) /\ bBrowser # l
  BY <1>0, <1>1 DEF PoolInv, OneLaunch, Connected, PublishedIsCurrent
<1>4. OneLaunch'
  BY <1>0, <1>1, <1>2 DEF PoolInv, OneLaunch
<1>5. PublishedIsCurrent'
  <2>1. PublishedIsCurrent
    BY DEF PoolInv
  <2>2. bBrowser' # 0 => bChrome'[bBrowser'].gen = bGen /\ bChrome'[bBrowser'].state \notin {"unused", "launching"}
    BY <1>0, <1>2, <1>3, <2>1 DEF PublishedIsCurrent
  <2>3. ASSUME NEW k \in Closers, bCloser[k].current # 0
        PROVE  bChrome'[bCloser[k].current].state \notin {"unused", "launching"}
    BY <1>0, <1>1, <1>2, <2>1, <2>3 DEF PublishedIsCurrent
  <2> QED
    BY <1>1, <2>2, <2>3 DEF PublishedIsCurrent
<1>6. OldLaunchIsAwaited'
  BY <1>0, <1>1, <1>2 DEF PoolInv, OldLaunchIsAwaited
<1>7. OneBrowser'
  BY <1>0, <1>1, <1>2, <1>3 DEF PoolInv, OneBrowser, Connected
<1>8. ASSUME NEW c \in Crawls PROVE CrawlOfBrowser(c)'
  <2>1. CrawlOfBrowser(c)
    BY DEF PoolInv
  <2>2. CASE bCrawl[c].browser = l
    BY <1>0, <1>1, <1>2, <2>1, <2>2 DEF CrawlOfBrowser, Connected
  <2>3. CASE bCrawl[c].browser # l
    BY <1>0, <1>1, <1>2, <2>1, <2>3 DEF CrawlOfBrowser, Connected
  <2> QED
    BY <2>2, <2>3
<1> QED
  BY <1>4, <1>5, <1>6, <1>7, <1>8

\* A browser goes, with its contexts: it crashed, or a closer has closed it.
BrowserEnds(l) ==
  /\ bChrome[l].state \notin {"unused", "launching"}
  /\ bChrome' = [bChrome EXCEPT ![l].state = "closed"]
  /\ bContext' = [c \in Crawls |-> IF bCrawl[c].browser = l /\ bContext[c] = "open"
                                   THEN "closed" ELSE bContext[c]]
  /\ UNCHANGED <<bGen, bBrowser, bLaunch, bCrawl>>
  /\ \A k \in Closers : /\ bCloser'[k].current = bCloser[k].current
                        /\ bCloser'[k].pending = bCloser[k].pending
                        /\ \/ bCloser'[k].pc = bCloser[k].pc
                           \/ bCloser[k].current = l /\ bChrome[bCloser[k].pending].state # "launching"
                           \/ bCloser[k].current = l /\ bCloser[k].pending = 0

LEMMA BrowserEndKeeps ==
  ASSUME PoolInv, NEW l \in Launches, BrowserEnds(l)
  PROVE  /\ OneLaunch' /\ PublishedIsCurrent' /\ OldLaunchIsAwaited' /\ OneBrowser'
         /\ \A c \in Crawls : CrawlOfBrowser(c)'
<1> USE LaunchAssumption DEF Launches, BrowserEnds
<1>0. /\ bGen \in Nat /\ bBrowser \in 0..MaxLaunches /\ bLaunch \in 0..MaxLaunches
      /\ bChrome \in [Launches -> [state : ChromeStates, gen : Nat, failed : BOOLEAN]]
      /\ \A c \in Crawls : bCrawl[c].gen \in Nat /\ bCrawl[c].browser \in 0..MaxLaunches
      /\ \A k \in Closers : bCloser[k].current \in 0..MaxLaunches /\ bCloser[k].pending \in 0..MaxLaunches
  BY DEF PoolInv, PoolTypeOK
<1>1. /\ \A m \in Launches : m # l => bChrome'[m] = bChrome[m]
      /\ bChrome'[l].gen = bChrome[l].gen /\ bChrome'[l].state = "closed"
  BY <1>0
<1>2. OneLaunch'
  BY <1>0, <1>1 DEF PoolInv, OneLaunch, Connected
<1>3. PublishedIsCurrent'
  BY <1>0, <1>1, SMTT(30) DEF PoolInv, PublishedIsCurrent
<1>4. OldLaunchIsAwaited'
  <2> SUFFICES ASSUME NEW m \in Launches, bChrome'[m].state = "launching", bChrome'[m].gen # bGen
               PROVE  \E k \in Closers : bCloser'[k].pc = "closing" /\ bCloser'[k].pending = m
    BY DEF OldLaunchIsAwaited
  <2>1. bChrome[m].state = "launching" /\ bChrome[m].gen # bGen
    BY <1>1
  <2>2. PICK k \in Closers : bCloser[k].pc = "closing" /\ bCloser[k].pending = m
    BY <2>1 DEF PoolInv, OldLaunchIsAwaited
  <2> QED
    BY <2>1, <2>2
<1>5. OneBrowser'
  <2> SUFFICES ASSUME NEW m \in Launches, bChrome'[m].state = "open"
               PROVE  m = bBrowser \/ \E k \in Closers : bCloser'[k].pc = "closing" /\ bCloser'[k].current = m
    BY DEF OneBrowser
  <2>1. m # l /\ bChrome[m].state = "open"
    BY <1>1
  <2>2. m = bBrowser \/ \E k \in Closers : bCloser[k].pc = "closing" /\ bCloser[k].current = m
    BY <2>1 DEF PoolInv, OneBrowser
  <2> QED
    BY <2>1, <2>2
<1>6. ASSUME NEW c \in Crawls PROVE CrawlOfBrowser(c)'
  <2>1. CrawlOfBrowser(c)
    BY DEF PoolInv
  <2>2. bContext'[c] = "open" => bContext[c] = "open" /\ bCrawl[c].browser # l
    OBVIOUS
  <2>3. CASE bCrawl[c].browser = l
    BY <1>0, <1>1, <2>1, <2>2, <2>3 DEF CrawlOfBrowser, Connected
  <2>4. CASE bCrawl[c].browser # l
    BY <1>0, <1>1, <2>1, <2>2, <2>4 DEF CrawlOfBrowser, Connected
  <2> QED
    BY <2>3, <2>4
<1> QED
  BY <1>2, <1>3, <1>4, <1>5, <1>6

LEMMA PoolInvKeeps == PoolInv /\ [PoolNext]_poolVars => PoolInv'
<1> SUFFICES ASSUME PoolInv, [PoolNext]_poolVars PROVE PoolInv'
  OBVIOUS
<1> USE LaunchAssumption DEF Launches
<1>0. /\ bGen \in Nat /\ bBrowser \in 0..MaxLaunches /\ bLaunch \in 0..MaxLaunches
      /\ bChrome \in [Launches -> [state : ChromeStates, gen : Nat, failed : BOOLEAN]]
      /\ \A c \in Crawls : bCrawl[c].gen \in Nat /\ bCrawl[c].browser \in 0..MaxLaunches
      /\ \A k \in Closers : bCloser[k].current \in 0..MaxLaunches /\ bCloser[k].pending \in 0..MaxLaunches
  BY DEF PoolInv, PoolTypeOK
<1>t. PoolNext => PoolTypeOK'
  BY PoolTypesKeep DEF PoolInv
<1>1. ASSUME NEW c \in Crawls, GetBrowser(c), PoolTypeOK' PROVE PoolInv'
  <2>0. /\ bCrawl[c].pc = "idle" /\ UNCHANGED <<bGen, bBrowser, bContext, bCloser>>
        /\ \A d \in Crawls : d # c => bCrawl'[d] = bCrawl[d]
    BY <1>1 DEF GetBrowser, PoolInv, PoolTypeOK
  <2>1. bContext[c] # "open"
    BY <2>0 DEF PoolInv, CrawlOfBrowser
  <2>2. CASE bChrome' = bChrome /\ bLaunch' = bLaunch
    <3>1. OneLaunch' /\ PublishedIsCurrent' /\ OldLaunchIsAwaited' /\ OneBrowser'
      BY <2>0, <2>2 DEF PoolInv, OneLaunch, PublishedIsCurrent, OldLaunchIsAwaited, OneBrowser, Connected
    <3>2. ASSUME NEW d \in Crawls, d # c PROVE CrawlOfBrowser(d)'
      BY <2>0, <2>2, <3>2 DEF PoolInv, CrawlOfBrowser, Connected
    <3>3. /\ bCrawl'[c].gen = bGen
          /\ \/ Connected(bBrowser) /\ bCrawl'[c].browser = bBrowser
             \/ bLaunch # 0 /\ bCrawl'[c].browser = bLaunch
             \/ \E l \in Launches : bChrome[l].state = "unused" /\ bChrome'[l].state = "launching"
      BY <1>0, <1>1 DEF GetBrowser, PoolInv, PoolTypeOK
    <3>4. bLaunch # 0 => bChrome[bLaunch].state = "launching" /\ bChrome[bLaunch].gen <= bGen
      <4>1. bLaunch # 0 => bChrome[bLaunch].state = "launching"
        BY <1>0 DEF PoolInv, OneLaunch
      <4> QED
        BY <1>0, <4>1 DEF PoolInv, GensAreOld
    <3>5. CrawlOfBrowser(c)'
      BY <1>0, <2>0, <2>1, <2>2, <3>3, <3>4 DEF PoolInv, CrawlOfBrowser, Connected, PublishedIsCurrent
    <3> QED
      BY <1>1, <2>0, <2>2, <3>1, <3>2, <3>5 DEF PoolInv, GensAreOld
  <2>3. ASSUME NEW l \in Launches, ~Connected(bBrowser), bLaunch = 0, bChrome[l].state = "unused",
               bLaunch' = l,
               bChrome' = [bChrome EXCEPT ![l] = [state |-> "launching", gen |-> bGen, failed |-> FALSE]],
               bCrawl' = [bCrawl EXCEPT ![c] = [pc |-> "browser", gen |-> bGen, browser |-> l]]
        PROVE  PoolInv'
    <3>0. /\ \A m \in Launches : m # l => bChrome'[m] = bChrome[m]
          /\ bChrome'[l].state = "launching" /\ bChrome'[l].gen = bGen
      BY <1>0, <2>3
    <3>a. l # bBrowser /\ \A k \in Closers : bCloser[k].current # l
      BY <1>0, <2>3 DEF PoolInv, PublishedIsCurrent
    <3>1. OneLaunch'
      BY <1>0, <2>0, <2>3, <3>0, <3>a DEF PoolInv, OneLaunch, Connected
    <3>2. PublishedIsCurrent'
      BY <1>0, <2>0, <3>0, <3>a DEF PoolInv, PublishedIsCurrent
    <3>3. OldLaunchIsAwaited' /\ OneBrowser' /\ GensAreOld'
      <4>1. OldLaunchIsAwaited /\ OneBrowser /\ GensAreOld
        BY DEF PoolInv
      <4>2. OldLaunchIsAwaited'
        BY <2>0, <3>0, <4>1 DEF OldLaunchIsAwaited
      <4>3. OneBrowser'
        BY <2>0, <3>0, <4>1 DEF OneBrowser
      <4>4. GensAreOld'
        BY <1>0, <2>0, <3>0, <4>1 DEF GensAreOld
      <4> QED
        BY <4>2, <4>3, <4>4
    <3>4. ASSUME NEW d \in Crawls, d # c PROVE CrawlOfBrowser(d)'
      <4>1. bCrawl'[d] = bCrawl[d] /\ CrawlOfBrowser(d)
        BY <2>0, <3>4 DEF PoolInv
      <4>2. bCrawl[d].pc # "idle" => bCrawl[d].browser # l
        BY <2>3, <4>1 DEF CrawlOfBrowser
      <4> QED
        BY <1>0, <2>0, <2>3, <3>0, <4>1, <4>2 DEF CrawlOfBrowser, Connected
    <3>5. CrawlOfBrowser(c)'
      <4>1. bCrawl'[c].pc = "browser" /\ bCrawl'[c].gen = bGen /\ bCrawl'[c].browser = l
        BY <2>3 DEF PoolInv, PoolTypeOK
      <4> QED
        BY <1>0, <2>0, <2>1, <3>0, <4>1 DEF CrawlOfBrowser
    <3> QED
      BY <1>1, <3>1, <3>2, <3>3, <3>4, <3>5 DEF PoolInv
  <2> QED
    BY <1>1, <2>2, <2>3 DEF GetBrowser
<1>2. ASSUME NEW c \in Crawls, OpenContext(c) \/ ContextOpened(c) \/ ScriptAdded(c), PoolTypeOK'
      PROVE  PoolInv'
  <2>1. /\ UNCHANGED <<bGen, bBrowser, bLaunch, bChrome, bCloser>>
        /\ \E pc \in {"context", "script", "ready", "failed"} : bCrawl' = [bCrawl EXCEPT ![c].pc = pc]
        /\ \/ bContext' = bContext
           \/ bContext' = [bContext EXCEPT ![c] = "closed"]
           \/ bContext' = [bContext EXCEPT ![c] = "open"] /\ Connected(bCrawl[c].browser)
        /\ bCrawl[c].pc # "idle"
    BY <1>2 DEF OpenContext, ContextOpened, ScriptAdded, CheckFence
  <2>2. /\ bCrawl'[c].pc # "idle" /\ bCrawl'[c].gen = bCrawl[c].gen
        /\ bCrawl'[c].browser = bCrawl[c].browser
        /\ \A d \in Crawls : d # c => bCrawl'[d] = bCrawl[d] /\ bContext'[d] = bContext[d]
        /\ bContext'[c] = "open" => bContext[c] = "open" \/ Connected(bCrawl[c].browser)
    BY <2>1 DEF PoolInv, PoolTypeOK
  <2>3. OneLaunch' /\ PublishedIsCurrent' /\ OldLaunchIsAwaited' /\ OneBrowser' /\ GensAreOld'
    BY <2>1 DEF PoolInv, OneLaunch, PublishedIsCurrent, OldLaunchIsAwaited, OneBrowser, Connected,
       GensAreOld
  <2>4. ASSUME NEW d \in Crawls PROVE CrawlOfBrowser(d)'
    BY <2>1, <2>2 DEF PoolInv, CrawlOfBrowser, Connected
  <2> QED
    BY <1>2, <2>3, <2>4 DEF PoolInv
<1>3. ASSUME NEW k \in Closers, CloseBrowser(k), PoolTypeOK' PROVE PoolInv'
  <2>1. /\ bGen' = bGen + 1 /\ bBrowser' = 0 /\ UNCHANGED <<bLaunch, bChrome, bCrawl, bContext>>
        /\ bCloser[k].pc = "idle"
        /\ bCloser'[k].pc = "closing" /\ bCloser'[k].current = bBrowser /\ bCloser'[k].pending = bLaunch
        /\ \A j \in Closers : j # k => bCloser'[j] = bCloser[j]
    BY <1>3 DEF CloseBrowser, PoolInv, PoolTypeOK
  <2>2. OneLaunch' /\ PublishedIsCurrent' /\ GensAreOld'
    BY <1>0, <2>1 DEF PoolInv, OneLaunch, PublishedIsCurrent, Connected, GensAreOld
  <2>3. OldLaunchIsAwaited'
    BY <2>1 DEF PoolInv, OldLaunchIsAwaited, OneLaunch
  <2>4. OneBrowser'
    <3> SUFFICES ASSUME NEW m \in Launches, bChrome[m].state = "open"
                 PROVE  \E j \in Closers : bCloser'[j].pc = "closing" /\ bCloser'[j].current = m
      BY <2>1 DEF OneBrowser
    <3>1. m = bBrowser \/ \E j \in Closers : bCloser[j].pc = "closing" /\ bCloser[j].current = m
      BY DEF PoolInv, OneBrowser
    <3> QED
      BY <2>1, <3>1
  <2>5. ASSUME NEW c \in Crawls PROVE CrawlOfBrowser(c)'
    BY <1>0, <2>1 DEF PoolInv, CrawlOfBrowser, Connected
  <2> QED
    BY <1>3, <2>2, <2>3, <2>4, <2>5 DEF PoolInv
<1>4. ASSUME NEW k \in Closers, CloseEnds(k), PoolTypeOK' PROVE PoolInv'
  <2>0. /\ bCloser'[k].pc = "done" /\ bCloser'[k].current = bCloser[k].current
        /\ bCloser'[k].pending = bCloser[k].pending /\ bCloser[k].pc = "closing"
        /\ \A j \in Closers : j # k => bCloser'[j] = bCloser[j]
        /\ bCloser[k].pending # 0 => bChrome[bCloser[k].pending].state # "launching"
        /\ UNCHANGED <<bGen, bBrowser, bLaunch, bCrawl>>
    BY <1>4 DEF CloseEnds, PoolInv, PoolTypeOK
  <2>1. CASE bCloser[k].current = 0
    <3>1. bChrome' = bChrome /\ bContext' = bContext
      BY <1>4, <2>1 DEF CloseEnds, PoolInv, PoolTypeOK
    <3>2. OneLaunch' /\ PublishedIsCurrent' /\ GensAreOld'
      BY <2>0, <3>1 DEF PoolInv, OneLaunch, PublishedIsCurrent, Connected, GensAreOld
    <3>3. OldLaunchIsAwaited'
      BY <1>0, <2>0, <3>1, SMTT(30) DEF PoolInv, OldLaunchIsAwaited
    <3>4. OneBrowser'
      <4> SUFFICES ASSUME NEW l \in Launches, bChrome[l].state = "open", l # bBrowser
                   PROVE  \E j \in Closers : bCloser'[j].pc = "closing" /\ bCloser'[j].current = l
        BY <2>0, <3>1 DEF OneBrowser
      <4>1. PICK j \in Closers : bCloser[j].pc = "closing" /\ bCloser[j].current = l
        BY DEF PoolInv, OneBrowser
      <4>2. j # k
        BY <2>1, <4>1
      <4> QED
        BY <2>0, <4>1, <4>2
    <3>5. ASSUME NEW c \in Crawls PROVE CrawlOfBrowser(c)'
      BY <2>0, <3>1 DEF PoolInv, CrawlOfBrowser, Connected
    <3> QED
      BY <1>4, <3>2, <3>3, <3>4, <3>5 DEF PoolInv
  <2>2. CASE bCloser[k].current # 0
    <3> DEFINE l == bCloser[k].current
    <3>1. l \in Launches /\ bChrome[l].state \notin {"unused", "launching"}
      BY <1>0, <2>2 DEF PoolInv, PublishedIsCurrent
    <3>2. /\ bChrome' = [bChrome EXCEPT ![l].state = "closed"]
          /\ bContext' = [c \in Crawls |-> IF bCrawl[c].browser = l /\ bContext[c] = "open"
                                           THEN "closed" ELSE bContext[c]]
      BY <1>4, <2>2 DEF CloseEnds
    <3>3. ASSUME NEW j \in Closers
          PROVE  /\ bCloser'[j].current = bCloser[j].current
                 /\ bCloser'[j].pending = bCloser[j].pending
                 /\ \/ bCloser'[j].pc = bCloser[j].pc
                    \/ bCloser[j].current = l /\ bChrome[bCloser[j].pending].state # "launching"
                    \/ bCloser[j].current = l /\ bCloser[j].pending = 0
      <4>1. CASE j = k
        BY <2>0, <4>1
      <4>2. CASE j # k
        BY <2>0, <4>2
      <4> QED
        BY <4>1, <4>2
    <3> HIDE DEF l
    <3>a. BrowserEnds(l)
      BY <2>0, <3>1, <3>2, <3>3 DEF BrowserEnds
    <3>4. /\ OneLaunch' /\ PublishedIsCurrent' /\ OldLaunchIsAwaited' /\ OneBrowser'
          /\ \A c \in Crawls : CrawlOfBrowser(c)'
      BY <3>1, <3>a, BrowserEndKeeps
    <3>5. GensAreOld'
      BY <1>0, <2>0, <3>1, <3>2 DEF PoolInv, GensAreOld
    <3> QED
      BY <1>4, <3>4, <3>5 DEF PoolInv
  <2> QED
    BY <2>1, <2>2
<1>5. ASSUME NEW l \in Launches, LaunchEnds(l), PoolTypeOK' PROVE PoolInv'
  <2>1. GensAreOld'
    BY <1>0, <1>5, SMTT(30) DEF PoolInv, GensAreOld, LaunchEnds
  <2> QED
    BY <1>5, <2>1, LaunchEndKeeps DEF PoolInv
<1>6. ASSUME NEW l \in Launches, BrowserCrashes(l), PoolTypeOK' PROVE PoolInv'
  <2>1. GensAreOld'
    BY <1>0, <1>6 DEF PoolInv, GensAreOld, BrowserCrashes
  <2>2. /\ OneLaunch' /\ PublishedIsCurrent' /\ OldLaunchIsAwaited' /\ OneBrowser'
        /\ \A c \in Crawls : CrawlOfBrowser(c)'
    <3>1. BrowserEnds(l)
      BY <1>6 DEF BrowserCrashes, BrowserEnds
    <3> QED
      BY <3>1, BrowserEndKeeps
  <2> QED
    BY <1>6, <2>1, <2>2 DEF PoolInv
<1>7. CASE UNCHANGED poolVars
  BY <1>7 DEF poolVars, PoolInv, PoolTypeOK, OneLaunch, PublishedIsCurrent, OldLaunchIsAwaited, OneBrowser,
              GensAreOld, CrawlOfBrowser, Connected
<1> QED
  BY <1>t, <1>1, <1>2, <1>3, <1>4, <1>5, <1>6, <1>7 DEF PoolNext

LEMMA PoolInvAlways == PoolSpec => []PoolInv
<1>1. PoolInit => PoolInv
  BY LaunchAssumption DEF PoolInit, PoolInv, PoolTypeOK, OneLaunch, PublishedIsCurrent, OldLaunchIsAwaited,
       OneBrowser, GensAreOld, CrawlOfBrowser, Connected, Launches, ChromeStates
<1> QED
  BY <1>1, PoolInvKeeps, PTL DEF PoolSpec

\* When no closeBrowser is under way, every browser that runs or starts is of
\* the current generation, and so is every context that was handed out.
LEMMA FencedWhenClosed == PoolInv => PoolIsFenced
<1> SUFFICES ASSUME PoolInv, \A k \in Closers : bCloser[k].pc # "closing" PROVE CloseFencesEverything
  BY DEF PoolInv, PoolIsFenced, CloseFencesEverything
<1> USE LaunchAssumption DEF Launches
<1>1. ASSUME NEW l \in Launches, bChrome[l].state \in {"open", "launching"} PROVE bChrome[l].gen = bGen
  BY <1>1 DEF PoolInv, OneBrowser, OldLaunchIsAwaited, PublishedIsCurrent
<1>2. ASSUME NEW c \in Crawls, bCrawl[c].pc = "ready", bContext[c] = "open" PROVE bCrawl[c].gen = bGen
  <2>1. bCrawl[c].browser \in Launches
    BY <1>2 DEF PoolInv, PoolTypeOK, CrawlOfBrowser
  <2> QED
    BY <1>1, <1>2, <2>1 DEF PoolInv, CrawlOfBrowser, Connected
<1> QED
  BY <1>1, <1>2 DEF CloseFencesEverything

\* A close leaves nothing behind of what was under way when it began, whatever
\* launches, contexts and other closes it raced with, and there is never a
\* second browser that nobody closes (browser-pool.ts closeBrowser, getBrowser).
THEOREM PoolFenced == PoolSpec => []PoolIsFenced
<1> QED
  BY PoolInvAlways, FencedWhenClosed, PTL

-----------------------------------------------------------------------------
(***************************************************************************)
(* A crawl's pages: a closed page is never the current one, and the files  *)
(* waiting for a name are fewer than those counted.                        *)
(***************************************************************************)

TabsSpec == TabsInit /\ [][TabsNext]_tabsVars

\* A file that stays on disk was downloaded, and one that waits is not yet
\* among them.
FilesAreCounted == tFiles <= tCount /\ (tQueue # <<>> => tFiles < tCount)

TabsInv == TabsAreLive /\ tQueue \in Seq(Files) /\ FilesAreCounted

LEMMA TabsInvKept == ASSUME TabsInv, [TabsNext]_tabsVars PROVE TabsInv'
<1> USE DownloadAssumption DEF TabsInv, TabsAreLive, TabsTypeOK, FilesAreCounted, ActivePageIsOpen, IsOpen, Pages
<1>1. CASE UNCHANGED tabsVars
  BY <1>1 DEF tabsVars
<1>2. ASSUME NEW p \in Popups, PopupOpens(p) \/ PopupFails(p) PROVE TabsInv'
  <2>1. tActive = Main \/ tActive # p
    BY <1>2 DEF PopupOpens, PopupFails
  <2> QED
    BY <1>2, <2>1 DEF PopupOpens, PopupFails
<1>3. ASSUME NEW p \in Popups, PopupLoads(p) PROVE TabsInv'
  BY <1>3 DEF PopupLoads, AttachTo
<1>4. ASSUME NEW p \in Popups, PopupCloses(p) PROVE TabsInv'
  BY <1>4 DEF PopupCloses
<1>5. ASSUME NEW p \in Pages, NEW file \in Files, Download(p, file) PROVE TabsInv'
  <2>1. tQueue' \in Seq(Files)
    BY <1>5 DEF Download
  <2> QED
    BY <1>5, <2>1 DEF Download
<1>6. CASE CheckForSpreadsheetDownload
  BY <1>6 DEF CheckForSpreadsheetDownload
<1>7. CASE TextIsShown
  BY <1>7 DEF TextIsShown
<1> QED
  BY <1>1, <1>2, <1>3, <1>4, <1>5, <1>6, <1>7 DEF TabsNext

\* Whatever popups open, load, fail and close, and in whatever order, the loop
\* acts on a page that is open.
THEOREM TabsStayLive == TabsSpec => []TabsAreLive
<1>1. TabsInit => TabsInv
  <2> SUFFICES ASSUME TabsInit PROVE TabsInv
    OBVIOUS
  <2>1. /\ tText \in BOOLEAN /\ tMissed \in BOOLEAN /\ tQueue = <<>> /\ tFiles = 0 /\ tCount = 0
        /\ tActive = Main /\ tTracked = Main
        /\ tPage \in [Popups -> {"none", "loading", "open", "closed"}]
    BY DEF TabsInit
  <2> QED
    BY <2>1, DownloadAssumption DEF TabsInv, TabsAreLive, TabsTypeOK, FilesAreCounted, ActivePageIsOpen,
       IsOpen, Pages
<1>2. TabsInv /\ [TabsNext]_tabsVars => TabsInv'
  BY TabsInvKept
<1>3. TabsInv => TabsAreLive
  BY DEF TabsInv
<1> QED
  BY <1>1, <1>2, <1>3, PTL DEF TabsSpec

-----------------------------------------------------------------------------
(***************************************************************************)
(* A code that was typed is never left readable on a page whose frame is   *)
(* still masked, for any number of frames and scripts under way.           *)
(***************************************************************************)

MaskSpec == MaskInit /\ [][MaskNext]_maskVars

\* After the first n scripts of a frame's queue no mask stands over the field:
\* the last of them that touches it restores, or it shows no mask and none of
\* them applies one.
Settled(q, shown, n) ==
  \/ \E j \in 1..n : q[j] = "restore" /\ \A k \in (j + 1)..n : q[k] # "mask"
  \/ shown # "dots" /\ \A k \in 1..n : q[k] # "mask"

\* A frame that is attached: every submission in its queue finds the field
\* restored; it is restored for good where takeScreenshot is through with it;
\* the script that is awaited is the last one sent; and a frame that passed
\* the check has nothing left to run and does not show the code.
Through(f) == mPc = "idle" \/ (mPc = "restore" /\ (f \notin mTodo \/ f \in mWait))
Passed(f) == mPc = "shoot" \/ (mPc = "check" /\ f \notin mTodo)
QueueFits(f) ==
  LET q == mQueue[f] IN
  /\ \A i \in 1..Len(q) : q[i] = "submit" => Settled(q, mField[f], i - 1)
  /\ Through(f) => Settled(q, mField[f], Len(q))
  /\ f \in mWait => q # <<>> /\ q[Len(q)] = mPc
  /\ Passed(f) => q = <<>> /\ mField[f] # "code"

MaskTypes ==
  /\ mPc \in {"idle", "mask", "check", "shoot", "restore"}
  /\ mTodo \subseteq Frames /\ mWait \subseteq Frames /\ mLive \subseteq Frames
  /\ mQueue \in [Frames -> Seq(Scripts)] /\ mField \in [Frames -> {"empty", "code", "dots"}]
  /\ mShot \in {"none", "clean", "code", "suppressed"} /\ mCaptures \in 0..MaxCaptures
  /\ mRead \subseteq {"empty", "code", "dots"} /\ mShape \in [Frames -> {"single", "cells"}]
  /\ mHtml \subseteq Frames

MaskInv ==
  /\ MaskTypes /\ mWait \subseteq mTodo
  /\ mWait # {} => mPc \in {"mask", "check", "restore"}
  /\ mShot # "code" /\ mHtml = {} /\ "dots" \notin mRead
  /\ \A f \in mLive : QueueFits(f)

----------------------------------------------------------------------------
LEMMA MaskTypesAre == MaskTypes => MaskTypeOK
<1> SUFFICES ASSUME MaskTypes PROVE MaskTypeOK
  OBVIOUS
<1>1. ASSUME NEW f \in Frames, NEW i \in DOMAIN mQueue[f] PROVE mQueue[f][i] \in Scripts
  <2> DEFINE q == mQueue[f]
  <2>1. q \in Seq(Scripts)
    BY DEF MaskTypes
  <2>2. i \in DOMAIN q
    OBVIOUS
  <2> HIDE DEF q
  <2>3. q[i] \in Scripts
    BY <2>1, <2>2
  <2> QED
    BY <2>3 DEF q
<1> QED
  BY <1>1 DEF MaskTypes, MaskTypeOK

\* Queues.
LEMMA AppendIs ==
  ASSUME NEW q \in Seq(Scripts), NEW x \in Scripts
  PROVE  /\ Append(q, x) \in Seq(Scripts) /\ Len(q) \in Nat /\ Len(Append(q, x)) = Len(q) + 1
         /\ Append(q, x)[Len(q) + 1] = x /\ \A i \in 1..Len(q) : Append(q, x)[i] = q[i]
         /\ Append(q, x) # <<>>
BY AppendProperties, LenProperties

LEMMA QueueTail ==
  ASSUME NEW q \in Seq(Scripts), q # <<>>
  PROVE  /\ Tail(q) \in Seq(Scripts) /\ Len(q) \in Nat \ {0} /\ Len(Tail(q)) = Len(q) - 1 /\ Head(q) = q[1]
         /\ \A i \in 1..Len(Tail(q)) : Tail(q)[i] = q[i + 1] /\ i + 1 \in 1..Len(q)
         /\ Head(q) \in Scripts
BY HeadTailProperties, LenProperties

LEMMA AppendSettled ==
  ASSUME NEW q \in Seq(Scripts), NEW x \in Scripts, NEW v, NEW n \in 0..Len(q), Settled(q, v, n)
  PROVE  Settled(Append(q, x), v, n)
<1> DEFINE a == Append(q, x)
<1>1. Len(q) \in Nat /\ \A i \in 1..Len(q) : a[i] = q[i]
  BY AppendIs
<1> HIDE DEF a
<1>2. \A i \in 1..n : a[i] = q[i]
  BY <1>1
<1>3. Settled(a, v, n)
  BY <1>1, <1>2 DEF Settled
<1> QED
  BY <1>3 DEF a

LEMMA AppendRestore ==
  ASSUME NEW q \in Seq(Scripts), NEW v PROVE Settled(Append(q, "restore"), v, Len(q) + 1)
<1> DEFINE a == Append(q, "restore")
           n == Len(q) + 1
<1>1. Len(q) \in Nat /\ a[n] = "restore"
  BY AppendIs DEF Scripts
<1>2. n \in 1..n /\ (n + 1)..n = {}
  BY <1>1
<1> HIDE DEF a, n
<1>3. Settled(a, v, n)
  BY <1>1, <1>2 DEF Settled
<1> QED
  BY <1>3 DEF a, n

LEMMA AppendOther ==
  ASSUME NEW q \in Seq(Scripts), NEW x \in Scripts, NEW v, x # "mask", Settled(q, v, Len(q))
  PROVE  Settled(Append(q, x), v, Len(q) + 1)
<1> DEFINE a == Append(q, x)
           n == Len(q)
<1>1. n \in Nat /\ a[n + 1] = x /\ \A i \in 1..n : a[i] = q[i]
  BY AppendIs
<1>0. Settled(q, v, n)
  OBVIOUS
<1> SUFFICES Settled(a, v, n + 1)
  OBVIOUS
<1> HIDE DEF a, n
<1>2. CASE \E j \in 1..n : q[j] = "restore" /\ \A k \in (j + 1)..n : q[k] # "mask"
  <2>1. PICK j \in 1..n : q[j] = "restore" /\ \A k \in (j + 1)..n : q[k] # "mask"
    BY <1>2
  <2>2. j \in 1..(n + 1) /\ a[j] = "restore"
    BY <1>1, <2>1
  <2>3. ASSUME NEW k \in (j + 1)..(n + 1) PROVE a[k] # "mask"
    BY <1>1, <2>1
  <2> QED
    BY <2>2, <2>3 DEF Settled
<1>3. CASE v # "dots" /\ \A k \in 1..n : q[k] # "mask"
  <2>1. ASSUME NEW k \in 1..(n + 1) PROVE a[k] # "mask"
    BY <1>1, <1>3
  <2> QED
    BY <1>3, <2>1 DEF Settled
<1> QED
  BY <1>0, <1>2, <1>3 DEF Settled

\* A script runs: what was settled for the scripts up to the n-th still is.
LEMMA TailSettled ==
  ASSUME NEW q \in Seq(Scripts), q # <<>>, NEW v, NEW w, NEW n \in 1..Len(q), Settled(q, v, n),
         Head(q) = "restore" => w # "dots", Head(q) # "mask" /\ v # "dots" => w # "dots"
  PROVE  Settled(Tail(q), w, n - 1)
<1> DEFINE u == Tail(q)
<1>1. Len(q) \in Nat \ {0} /\ Len(u) = Len(q) - 1 /\ Head(q) = q[1] /\ \A i \in 1..Len(u) : u[i] = q[i + 1]
  BY QueueTail
<1> SUFFICES Settled(u, w, n - 1)
  OBVIOUS
<1> HIDE DEF u
<1>0. n \in Nat /\ n >= 1 /\ \A i \in 1..(n - 1) : u[i] = q[i + 1]
  BY <1>1
<1>2. CASE \E j \in 1..n : q[j] = "restore" /\ \A k \in (j + 1)..n : q[k] # "mask"
  <2>1. PICK j \in 1..n : q[j] = "restore" /\ \A k \in (j + 1)..n : q[k] # "mask"
    BY <1>2
  <2>2. \A k \in 1..(n - 1) : k >= j => u[k] # "mask"
    BY <1>0, <2>1
  <2>3. CASE j = 1
    <3>1. w # "dots"
      BY <1>1, <2>1, <2>3
    <3>2. \A k \in 1..(n - 1) : u[k] # "mask"
      BY <1>0, <2>2, <2>3
    <3> QED
      BY <3>1, <3>2 DEF Settled
  <2>4. CASE j > 1
    <3>1. j - 1 \in 1..(n - 1) /\ u[j - 1] = "restore"
      BY <1>0, <2>1, <2>4
    <3>2. \A k \in ((j - 1) + 1)..(n - 1) : u[k] # "mask"
      BY <1>0, <2>2, <2>4
    <3> QED
      BY <3>1, <3>2 DEF Settled
  <2> QED
    BY <2>3, <2>4
<1>3. CASE v # "dots" /\ \A k \in 1..n : q[k] # "mask"
  <2>1. w # "dots"
    BY <1>0, <1>1, <1>3
  <2>2. \A k \in 1..(n - 1) : u[k] # "mask"
    BY <1>0, <1>3
  <2> QED
    BY <2>1, <2>2 DEF Settled
<1> QED
  BY <1>2, <1>3 DEF Settled

----------------------------------------------------------------------------

\* A frame whose queue and field a step leaves alone.
LEMMA QueueKept ==
  ASSUME NEW f, QueueFits(f), mQueue'[f] = mQueue[f], mField'[f] = mField[f], Through(f)' => Through(f),
         Passed(f)' => Passed(f), f \in mWait' => f \in mWait /\ mPc' = mPc
  PROVE  QueueFits(f)'
BY DEF QueueFits

LEMMA StartKeeps == ASSUME MaskInv, StartMasking PROVE MaskInv'
<1>1. /\ mPc' = "mask" /\ mTodo' = mLive /\ mShot' = "none" /\ mPc = "idle" /\ mCaptures' = mCaptures + 1
      /\ UNCHANGED <<mWait, mQueue, mField, mLive, mRead, mShape, mHtml>> /\ mCaptures < MaxCaptures
  BY DEF StartMasking, doc
<1>2. mWait = {}
  BY <1>1 DEF MaskInv
<1>3. ASSUME NEW f \in mLive PROVE QueueFits(f)'
  <2>1. ~Through(f)' /\ ~Passed(f)'
    BY <1>1 DEF Through, Passed
  <2> QED
    BY <1>1, <1>2, <2>1, QueueKept DEF MaskInv
<1>4. mCaptures' \in 0..MaxCaptures
  BY <1>1, CaptureAssumption DEF MaskInv, MaskTypes
<1> QED
  BY <1>1, <1>2, <1>3, <1>4 DEF MaskInv, MaskTypes

LEMMA EvaluateKeeps == ASSUME MaskInv, NEW f \in Frames, Evaluate(f) PROVE MaskInv'
<1> DEFINE q == mQueue[f]
           a == Append(q, mPc)
<1>1. /\ mPc \in {"mask", "check", "restore"} /\ mWait = {} /\ f \in mTodo /\ f \in mLive
      /\ mQueue' = [mQueue EXCEPT ![f] = a] /\ mWait' = {f}
      /\ UNCHANGED <<mPc, mTodo, mField, mLive, mShot, mCaptures, mRead, mShape, mHtml>>
  BY DEF Evaluate, doc
<1>2. mQueue \in [Frames -> Seq(Scripts)] /\ q \in Seq(Scripts) /\ mPc \in Scripts /\ QueueFits(f)
  BY <1>1 DEF MaskInv, MaskTypes, Scripts
<1>3. /\ a \in Seq(Scripts) /\ Len(q) \in Nat /\ Len(a) = Len(q) + 1 /\ a[Len(q) + 1] = mPc /\ a # <<>>
      /\ \A i \in 1..Len(q) : a[i] = q[i]
  BY <1>2, AppendIs
<1>4. mQueue' \in [Frames -> Seq(Scripts)] /\ mQueue'[f] = a /\ \A g \in Frames : g # f => mQueue'[g] = mQueue[g]
  BY <1>1, <1>2, <1>3
<1>5. QueueFits(f)'
  <2>1. \A i \in 1..Len(a) : a[i] = "submit" => Settled(a, mField[f], i - 1)
    <3> SUFFICES ASSUME NEW i \in 1..Len(a), a[i] = "submit" PROVE Settled(a, mField[f], i - 1)
      OBVIOUS
    <3>1. i \in 1..Len(q) /\ q[i] = "submit"
      BY <1>1, <1>3
    <3>2. Settled(q, mField[f], i - 1) /\ i - 1 \in 0..Len(q)
      BY <1>2, <1>3, <3>1 DEF QueueFits
    <3> QED
      BY <1>2, <3>2, AppendSettled
  <2>2. mPc = "restore" => Settled(a, mField[f], Len(a))
    BY <1>2, <1>3, AppendRestore
  <2>3. Through(f)' => mPc = "restore"
    BY <1>1 DEF Through
  <2>4. ~Passed(f)'
    BY <1>1 DEF Passed
  <2> HIDE DEF a
  <2> QED
    BY <1>1, <1>3, <1>4, <2>1, <2>2, <2>3, <2>4 DEF QueueFits
<1>6. ASSUME NEW g \in mLive, g # f PROVE QueueFits(g)'
  <2>1. (Through(g)' => Through(g)) /\ (Passed(g)' => Passed(g)) /\ g \notin mWait'
    BY <1>1, <1>6 DEF Through, Passed
  <2>2. g \in Frames /\ QueueFits(g)
    BY DEF MaskInv, MaskTypes
  <2> QED
    BY <1>1, <1>4, <1>6, <2>1, <2>2, QueueKept
<1> QED
  BY <1>1, <1>4, <1>5, <1>6 DEF MaskInv, MaskTypes

\* No picture: every attached frame is to be restored.
LEMMA SuppressKeeps ==
  ASSUME MaskInv, Suppress, UNCHANGED <<mQueue, mField, mLive, mCaptures, mRead, mShape, mHtml>>
  PROVE  MaskInv'
<1>1. mShot' = "suppressed" /\ mPc' = "restore" /\ mTodo' = mLive /\ mWait' = {}
  BY DEF Suppress
<1>2. ASSUME NEW f \in mLive PROVE QueueFits(f)'
  <2>1. ~Through(f)' /\ ~Passed(f)' /\ QueueFits(f)
    BY <1>1 DEF Through, Passed, MaskInv
  <2> QED
    BY <1>1, <2>1, QueueKept
<1> QED
  BY <1>1, <1>2 DEF MaskInv, MaskTypes

LEMMA EvaluateFailsKeeps == ASSUME MaskInv, NEW f \in Frames, EvaluateFails(f) PROVE MaskInv'
<1>1. /\ mPc \in {"mask", "check", "restore"} /\ f \in mTodo
      /\ (f \in mWait \/ (mWait = {} /\ f \notin mLive))
      /\ UNCHANGED <<mQueue, mField, mLive, mCaptures, mRead, mShape, mHtml>>
  BY DEF EvaluateFails, doc
<1>2. CASE mPc = "check"
  BY <1>1, <1>2, SuppressKeeps DEF EvaluateFails
<1>3. CASE mPc # "check"
  <2>1. mTodo' = mTodo \ {f} /\ mWait' = {} /\ UNCHANGED <<mPc, mShot>>
    BY <1>3 DEF EvaluateFails
  <2>2. ASSUME NEW g \in mLive PROVE QueueFits(g)'
    <3>1. Through(g)' => Through(g)
      BY <1>1, <2>1 DEF Through
    <3>2. ~Passed(g)' /\ QueueFits(g)
      BY <1>1, <1>3, <2>1 DEF Passed, MaskInv
    <3> QED
      BY <1>1, <2>1, <3>1, <3>2, QueueKept
  <2> QED
    BY <1>1, <2>1, <2>2 DEF MaskInv, MaskTypes
<1> QED
  BY <1>2, <1>3

LEMMA NextLoopKeeps == ASSUME MaskInv, NextLoop PROVE MaskInv'
<1>1. /\ mPc \in {"mask", "check", "restore"} /\ mTodo = {} /\ mTodo' = IF mPc = "mask" THEN mLive ELSE {}
      /\ mPc' = CASE mPc = "mask" -> "check" [] mPc = "check" -> "shoot" [] OTHER -> "idle"
      /\ UNCHANGED <<mWait, mQueue, mField, mLive, mShot, mCaptures, mRead, mShape, mHtml>>
  BY DEF NextLoop, doc
<1>2. mWait = {}
  BY <1>1 DEF MaskInv
<1>3. \/ mPc = "mask" /\ mPc' = "check" /\ mTodo' = mLive
      \/ mPc = "check" /\ mPc' = "shoot" /\ mTodo' = {}
      \/ mPc = "restore" /\ mPc' = "idle" /\ mTodo' = {}
  BY <1>1
<1>4. ASSUME NEW f \in mLive PROVE QueueFits(f)'
  <2>1. (Through(f)' => Through(f)) /\ (Passed(f)' => Passed(f)) /\ QueueFits(f)
    BY <1>1, <1>3 DEF Through, Passed, MaskInv
  <2> QED
    BY <1>1, <1>2, <2>1, QueueKept
<1> QED
  BY <1>1, <1>2, <1>3, <1>4 DEF MaskInv, MaskTypes

LEMMA ShootKeeps == ASSUME MaskInv, Shoot PROVE MaskInv'
<1>1. /\ mPc = "shoot" /\ mShot' \in {Picture, "none"} /\ mPc' = "restore" /\ mTodo' = mLive
      /\ UNCHANGED <<mWait, mQueue, mField, mLive, mCaptures, mRead, mShape, mHtml>>
  BY DEF Shoot, doc
<1>2. \A f \in mLive : mField[f] # "code"
  BY <1>1 DEF MaskInv, QueueFits, Passed
<1>3. mShot' \in {"clean", "none"}
  BY <1>1, <1>2 DEF Picture
<1>4. mWait = {}
  BY <1>1 DEF MaskInv
<1>5. ASSUME NEW f \in mLive PROVE QueueFits(f)'
  <2>1. ~Through(f)' /\ ~Passed(f)' /\ QueueFits(f)
    BY <1>1, <1>4 DEF Through, Passed, MaskInv
  <2> QED
    BY <1>1, <1>4, <2>1, QueueKept
<1> QED
  BY <1>1, <1>3, <1>4, <1>5 DEF MaskInv, MaskTypes

\* The two layers of getPageContent cover both shapes.
LEMMA ContentKeeps == ASSUME MaskInv, GetPageContent PROVE MaskInv'
<1>1. UNCHANGED <<mPc, mTodo, mWait, mQueue, mField, mLive, mShot, mCaptures, mRead, mShape>>
  BY DEF GetPageContent
<1>2. mHtml' = {}
  <2>1. PICK seen \in SUBSET mLive : mHtml' = {f \in seen : RedactOtpFromHtml(f, CloneScript(f)) = "code"}
    BY DEF GetPageContent
  <2>2. \A f \in seen : RedactOtpFromHtml(f, CloneScript(f)) # "code"
    BY DEF RedactOtpFromHtml, CloneScript, MaskInv, MaskTypes
  <2> QED
    BY <2>1, <2>2
<1>3. ASSUME NEW f \in mLive PROVE QueueFits(f)'
  <2>1. (Through(f)' => Through(f)) /\ (Passed(f)' => Passed(f)) /\ QueueFits(f)
    BY <1>1 DEF Through, Passed, MaskInv
  <2> QED
    BY <1>1, <2>1, QueueKept
<1> QED
  BY <1>1, <1>2, <1>3 DEF MaskInv, MaskTypes

LEMMA SubmitKeeps == ASSUME MaskInv, Submit PROVE MaskInv'
<1>1. /\ mPc = "idle"
      /\ mQueue' = [f \in Frames |-> IF f \in mLive THEN Append(mQueue[f], "submit") ELSE mQueue[f]]
      /\ UNCHANGED <<mPc, mTodo, mWait, mField, mLive, mShot, mCaptures, mRead, mShape, mHtml>>
  BY DEF Submit, doc
<1>2. mQueue \in [Frames -> Seq(Scripts)] /\ mWait = {} /\ mLive \subseteq Frames
  BY <1>1 DEF MaskInv, MaskTypes
<1>3. ASSUME NEW f \in Frames PROVE mQueue'[f] \in Seq(Scripts)
  <2>1. Append(mQueue[f], "submit") \in Seq(Scripts)
    <3> DEFINE q == mQueue[f]
    <3>1. q \in Seq(Scripts)
      BY <1>2
    <3> HIDE DEF q
    <3>2. Append(q, "submit") \in Seq(Scripts)
      BY <3>1, AppendIs DEF Scripts
    <3> QED
      BY <3>2 DEF q
  <2> QED
    BY <1>1, <1>2, <2>1
<1>4. mQueue' \in [Frames -> Seq(Scripts)]
  BY <1>1, <1>3
<1>5. ASSUME NEW f \in mLive PROVE QueueFits(f)'
  <2> DEFINE q == mQueue[f]
             a == Append(q, "submit")
             v == mField[f]
  <2>1. mQueue'[f] = a /\ mField'[f] = v /\ q \in Seq(Scripts) /\ f \notin mWait' /\ ~Passed(f)'
    BY <1>1, <1>2 DEF Passed
  <2>2. Settled(q, v, Len(q)) /\ \A i \in 1..Len(q) : q[i] = "submit" => Settled(q, v, i - 1)
    BY <1>1 DEF MaskInv, QueueFits, Through
  <2> HIDE DEF q, v
  <2>3. "submit" \in Scripts /\ "submit" # "mask"
    BY DEF Scripts
  <2>4. Len(q) \in Nat /\ Len(a) = Len(q) + 1 /\ \A i \in 1..Len(q) : a[i] = q[i]
    BY <2>1, <2>3, AppendIs
  <2>5. Settled(a, v, Len(a))
    BY <2>1, <2>2, <2>3, <2>4, AppendOther
  <2>6. ASSUME NEW i \in 1..Len(a), a[i] = "submit" PROVE Settled(a, v, i - 1)
    <3>1. CASE i = Len(a)
      <4>1. i - 1 = Len(q) /\ Len(q) \in 0..Len(q)
        BY <2>4, <3>1
      <4>2. Settled(a, v, Len(q))
        BY <2>1, <2>2, <2>3, <4>1, AppendSettled
      <4> QED
        BY <4>1, <4>2
    <3>2. CASE i # Len(a)
      <4>1. i \in 1..Len(q) /\ q[i] = "submit" /\ i - 1 \in 0..Len(q)
        BY <2>4, <2>6, <3>2
      <4>2. Settled(q, v, i - 1)
        BY <2>2, <4>1
      <4> QED
        BY <2>1, <2>3, <4>1, <4>2, AppendSettled
    <3> QED
      BY <3>1, <3>2
  <2> HIDE DEF a
  <2> QED
    BY <2>1, <2>5, <2>6 DEF QueueFits
<1> QED
  BY <1>1, <1>2, <1>4, <1>5 DEF MaskInv, MaskTypes

LEMMA DetachKeeps == ASSUME MaskInv, NEW f \in Frames, Detach(f) PROVE MaskInv'
<1>1. /\ mLive' = mLive \ {f} /\ mQueue' = [mQueue EXCEPT ![f] = <<>>]
      /\ UNCHANGED <<mPc, mTodo, mWait, mField, mShot, mCaptures, mRead, mShape, mHtml>>
  BY DEF Detach, doc
<1>2. mQueue \in [Frames -> Seq(Scripts)] /\ mLive \subseteq Frames
  BY DEF MaskInv, MaskTypes
<1>3. <<>> \in Seq(Scripts)
  OBVIOUS
<1>4. mQueue' \in [Frames -> Seq(Scripts)] /\ \A g \in Frames : g # f => mQueue'[g] = mQueue[g]
  BY <1>1, <1>2, <1>3
<1>5. ASSUME NEW g \in mLive, g # f PROVE QueueFits(g)'
  <2>1. (Through(g)' => Through(g)) /\ (Passed(g)' => Passed(g)) /\ QueueFits(g)
    BY <1>1 DEF Through, Passed, MaskInv
  <2> QED
    BY <1>1, <1>2, <1>4, <1>5, <2>1, QueueKept
<1> QED
  BY <1>1, <1>2, <1>4, <1>5 DEF MaskInv, MaskTypes

\* What a script does to the field and to what is read.
LEMMA RunIs ==
  ASSUME MaskTypes, NEW f \in Frames, FrameRuns(f)
  PROVE  LET q == mQueue[f] IN
         /\ q # <<>> /\ f \in mLive /\ mQueue' = [mQueue EXCEPT ![f] = Tail(q)]
         /\ mField' \in [Frames -> {"empty", "code", "dots"}] /\ \A g \in Frames : g # f => mField'[g] = mField[g]
         /\ Head(q) = "restore" => mField'[f] # "dots"
         /\ Head(q) # "mask" /\ mField[f] # "dots" => mField'[f] # "dots"
         /\ Head(q) = "check" => mField'[f] = mField[f]
         /\ mRead' = IF Head(q) = "submit" THEN mRead \cup {mField[f]} ELSE mRead
         /\ UNCHANGED <<mLive, mCaptures, mShape, mHtml>>
<1> DEFINE q == mQueue[f]
           s == Head(q)
<1>0. mField \in [Frames -> {"empty", "code", "dots"}]
  BY DEF MaskTypes
<1>1. /\ q # <<>> /\ f \in mLive /\ mQueue' = [mQueue EXCEPT ![f] = Tail(q)]
      /\ mRead' = IF s = "submit" THEN mRead \cup {mField[f]} ELSE mRead
      /\ UNCHANGED <<mLive, mCaptures, mShape, mHtml>>
  BY DEF FrameRuns, doc
<1>2. \/ /\ s = "mask" /\ mField[f] = "code"
         /\ \E shown \in {"dots", "code"} : mField' = [mField EXCEPT ![f] = shown]
      \/ /\ s = "restore" /\ mField[f] = "dots"
         /\ mField' = [mField EXCEPT ![f] = "code"]
      \/ /\ ~(s = "mask" /\ mField[f] = "code")
         /\ ~(s = "restore" /\ mField[f] = "dots")
         /\ UNCHANGED mField
  BY DEF FrameRuns
<1> HIDE DEF s, q
<1>3. /\ mField' \in [Frames -> {"empty", "code", "dots"}] /\ \A g \in Frames : g # f => mField'[g] = mField[g]
      /\ s = "restore" => mField'[f] # "dots"
      /\ s # "mask" /\ mField[f] # "dots" => mField'[f] # "dots"
      /\ s = "check" => mField'[f] = mField[f]
  <2>1. CASE s = "mask" /\ mField[f] = "code" /\ \E shown \in {"dots", "code"} : mField' = [mField EXCEPT ![f] = shown]
    BY <1>0, <2>1
  <2>2. CASE s = "restore" /\ mField[f] = "dots" /\ mField' = [mField EXCEPT ![f] = "code"]
    BY <1>0, <2>2
  <2>3. CASE ~(s = "mask" /\ mField[f] = "code") /\ ~(s = "restore" /\ mField[f] = "dots") /\ mField' = mField
    BY <1>0, <2>3
  <2> QED
    BY <1>2, <2>1, <2>2, <2>3
<1> QED
  BY <1>1, <1>3 DEF s, q

\* Where it leaves takeScreenshot.
LEMMA RunControl ==
  ASSUME NEW f \in Frames, FrameRuns(f)
  PROVE  LET q == mQueue[f]
             awaited == f \in mWait /\ Len(q) = 1
         IN
         \/ awaited /\ Suppress
         \/ /\ awaited /\ ~(Head(q) = "check" /\ mField[f] = "code")
            /\ mTodo' = mTodo \ {f} /\ mWait' = {} /\ UNCHANGED <<mPc, mShot>>
         \/ ~awaited /\ UNCHANGED <<mTodo, mWait, mPc, mShot>>
BY DEF FrameRuns

LEMMA FrameRunsKeeps == ASSUME MaskInv, NEW f \in Frames, FrameRuns(f) PROVE MaskInv'
<1> DEFINE q == mQueue[f]
           u == Tail(q)
           v == mField[f]
           w == mField'[f]
<1>0. MaskTypes
  BY DEF MaskInv
<1>1. /\ q # <<>> /\ f \in mLive /\ mQueue' = [mQueue EXCEPT ![f] = u]
      /\ mField' \in [Frames -> {"empty", "code", "dots"}] /\ \A g \in Frames : g # f => mField'[g] = mField[g]
      /\ Head(q) = "restore" => w # "dots"
      /\ Head(q) # "mask" /\ v # "dots" => w # "dots"
      /\ Head(q) = "check" => w = v
      /\ mRead' = IF Head(q) = "submit" THEN mRead \cup {v} ELSE mRead
      /\ UNCHANGED <<mLive, mCaptures, mShape, mHtml>>
  BY <1>0, RunIs
<1>2. /\ mQueue \in [Frames -> Seq(Scripts)] /\ q \in Seq(Scripts) /\ QueueFits(f)
      /\ v \in {"empty", "code", "dots"}
  BY <1>0, <1>1 DEF MaskInv, MaskTypes
<1>s. /\ \A i \in 1..Len(q) : q[i] = "submit" => Settled(q, v, i - 1)
      /\ Through(f) => Settled(q, v, Len(q))
      /\ f \in mWait => q[Len(q)] = mPc
      /\ Passed(f) => q = <<>>
  BY <1>2 DEF QueueFits
<1>p. ~Passed(f)
  BY <1>1, <1>s
<1>c. \/ f \in mWait /\ Len(q) = 1 /\ Suppress
      \/ /\ f \in mWait /\ Len(q) = 1 /\ ~(Head(q) = "check" /\ v = "code")
         /\ mTodo' = mTodo \ {f} /\ mWait' = {} /\ UNCHANGED <<mPc, mShot>>
      \/ ~(f \in mWait /\ Len(q) = 1) /\ UNCHANGED <<mTodo, mWait, mPc, mShot>>
  BY RunControl
<1> HIDE DEF q, v, w
<1>3. /\ u \in Seq(Scripts) /\ Len(q) \in Nat \ {0} /\ Len(u) = Len(q) - 1 /\ Head(q) = q[1]
      /\ \A i \in 1..Len(u) : u[i] = q[i + 1] /\ i + 1 \in 1..Len(q)
  BY <1>1, <1>2, QueueTail
<1>t. ASSUME NEW n \in 1..Len(q), Settled(q, v, n) PROVE Settled(u, w, n - 1)
  BY <1>1, <1>2, <1>t, TailSettled
<1> HIDE DEF u
<1>4. mQueue' \in [Frames -> Seq(Scripts)] /\ mQueue'[f] = u /\ \A g \in Frames : g # f => mQueue'[g] = mQueue[g]
  BY <1>1, <1>2, <1>3
<1>5. "dots" \notin mRead' /\ mRead' \subseteq {"empty", "code", "dots"}
  <2>1. CASE Head(q) = "submit"
    <3>1. Settled(q, v, 0)
      <4>1. 1 \in 1..Len(q) /\ q[1] = "submit"
        BY <1>3, <2>1
      <4>2. Settled(q, v, 1 - 1)
        BY <1>s, <4>1
      <4> QED
        BY <4>2
    <3>2. v # "dots"
      BY <3>1 DEF Settled
    <3> QED
      BY <1>0, <1>1, <1>2, <2>1, <3>2 DEF MaskInv, MaskTypes
  <2>2. CASE Head(q) # "submit"
    BY <1>0, <1>1, <2>2 DEF MaskInv, MaskTypes
  <2> QED
    BY <2>1, <2>2
<1>6. ASSUME NEW i \in 1..Len(u), u[i] = "submit" PROVE Settled(u, w, i - 1)
  <2>1. q[i + 1] = "submit" /\ i + 1 \in 1..Len(q) /\ i \in 1..Len(q) /\ (i + 1) - 1 = i
    BY <1>3, <1>6
  <2>2. Settled(q, v, i)
    BY <1>s, <2>1
  <2> QED
    BY <1>t, <2>1, <2>2
<1>7. Through(f) => Settled(u, w, Len(u))
  <2>1. Len(q) \in 1..Len(q) /\ Len(u) = Len(q) - 1
    BY <1>3
  <2> QED
    BY <1>s, <1>t, <2>1
<1>8. /\ mTodo' \subseteq Frames /\ mWait' \subseteq Frames /\ mWait' \subseteq mTodo'
      /\ mPc' \in {"idle", "mask", "check", "shoot", "restore"}
      /\ mWait' # {} => mPc' \in {"mask", "check", "restore"}
      /\ mShot' \in {"none", "clean", "suppressed"}
  BY <1>0, <1>c DEF MaskInv, MaskTypes, Suppress
<1>9. QueueFits(f)'
  <2>1. CASE f \in mWait /\ Len(q) = 1 /\ Suppress
    <3>1. ~Through(f)' /\ ~Passed(f)' /\ f \notin mWait'
      BY <1>1, <2>1 DEF Suppress, Through, Passed
    <3> QED
      BY <1>4, <1>6, <3>1 DEF QueueFits, w
  <2>2. CASE /\ f \in mWait /\ Len(q) = 1 /\ ~(Head(q) = "check" /\ v = "code")
             /\ mTodo' = mTodo \ {f} /\ mWait' = {} /\ UNCHANGED <<mPc, mShot>>
    <3>1. Through(f)' => Through(f)
      BY <2>2 DEF Through, MaskInv
    <3>2. Head(q) = mPc
      BY <1>3, <1>s, <2>2
    <3>3. Passed(f)' => u = <<>> /\ w # "code"
      <4>1. Len(u) = 0
        BY <1>3, <2>2
      <4>2. u = <<>>
        BY <1>3, <4>1
      <4>3. Passed(f)' => mPc = "check"
        BY <2>2 DEF Passed, MaskInv
      <4> QED
        BY <1>1, <2>2, <3>2, <4>2, <4>3
    <3> QED
      BY <1>4, <1>6, <1>7, <2>2, <3>1, <3>3 DEF QueueFits, w
  <2>3. CASE ~(f \in mWait /\ Len(q) = 1) /\ UNCHANGED <<mTodo, mWait, mPc, mShot>>
    <3>1. (Through(f)' => Through(f)) /\ ~Passed(f)'
      BY <1>p, <2>3 DEF Through, Passed
    <3>2. f \in mWait => u # <<>> /\ u[Len(u)] = mPc
      <4> SUFFICES ASSUME f \in mWait PROVE u # <<>> /\ u[Len(u)] = mPc
        OBVIOUS
      <4>1. Len(u) \in 1..Len(u) /\ Len(u) + 1 = Len(q)
        BY <1>3, <2>3
      <4>2. u # <<>>
        BY <4>1
      <4>3. u[Len(u)] = q[Len(q)]
        BY <1>3, <4>1
      <4> QED
        BY <1>s, <4>2, <4>3
    <3> QED
      BY <1>4, <1>6, <1>7, <2>3, <3>1, <3>2 DEF QueueFits, w
  <2> QED
    BY <1>c, <2>1, <2>2, <2>3
<1>10. ASSUME NEW g \in mLive, g # f PROVE QueueFits(g)'
  <2>1. /\ (Through(g)' => Through(g)) /\ (Passed(g)' => Passed(g))
        /\ (g \in mWait' => g \in mWait /\ mPc' = mPc)
    BY <1>c, <1>10 DEF Through, Passed, Suppress
  <2>2. QueueFits(g) /\ g \in Frames
    BY DEF MaskInv, MaskTypes
  <2> QED
    BY <1>1, <1>4, <1>10, <2>1, <2>2, QueueKept
<1> QED
  BY <1>0, <1>1, <1>4, <1>5, <1>8, <1>9, <1>10, ZenonT(60) DEF MaskInv, MaskTypes

----------------------------------------------------------------------------
LEMMA MaskStarts == MaskInit => MaskInv
<1> SUFFICES ASSUME MaskInit PROVE MaskInv
  OBVIOUS
<1>1. <<>> \in Seq(Scripts) /\ Len(<<>>) = 0
  OBVIOUS
<1>2. MaskTypes
  BY <1>1, CaptureAssumption DEF MaskInit, MaskTypes
<1>3. ASSUME NEW f \in mLive PROVE QueueFits(f)
  <2>1. mQueue[f] = <<>> /\ mField[f] \in {"empty", "code"} /\ mPc = "idle" /\ mWait = {}
    BY DEF MaskInit
  <2>2. Settled(<<>>, mField[f], 0)
    BY <2>1 DEF Settled
  <2> QED
    BY <1>1, <2>1, <2>2 DEF QueueFits, Passed
<1> QED
  BY <1>2, <1>3 DEF MaskInv, MaskInit

LEMMA MaskStutter == ASSUME MaskInv, UNCHANGED maskVars PROVE MaskInv'
<1>1. UNCHANGED <<mPc, mTodo, mWait, mQueue, mField, mLive, mShot, mCaptures, mRead, mShape, mHtml>>
  BY DEF maskVars
<1>2. ASSUME NEW f \in mLive PROVE QueueFits(f)'
  <2>1. (Through(f)' => Through(f)) /\ (Passed(f)' => Passed(f)) /\ QueueFits(f)
    BY <1>1 DEF Through, Passed, MaskInv
  <2> QED
    BY <1>1, <2>1, QueueKept
<1> QED
  BY <1>1, <1>2 DEF MaskInv, MaskTypes

LEMMA MaskKeeps == ASSUME MaskInv, [MaskNext]_maskVars PROVE MaskInv'
<1>1. CASE StartMasking
  BY <1>1, StartKeeps
<1>2. CASE NextLoop \/ Shoot
  BY <1>2, NextLoopKeeps, ShootKeeps
<1>3. CASE Submit \/ GetPageContent
  BY <1>3, SubmitKeeps, ContentKeeps
<1>4. ASSUME NEW f \in Frames, Evaluate(f) \/ EvaluateFails(f) PROVE MaskInv'
  BY <1>4, EvaluateKeeps, EvaluateFailsKeeps
<1>5. ASSUME NEW f \in Frames, FrameRuns(f) \/ Detach(f) PROVE MaskInv'
  BY <1>5, FrameRunsKeeps, DetachKeeps
<1>6. CASE UNCHANGED maskVars
  BY <1>6, MaskStutter
<1> QED
  BY <1>1, <1>2, <1>3, <1>4, <1>5, <1>6 DEF MaskNext

\* The code is seen by the bank's form and by nobody else: for any number of
\* frames and captures, whichever scripts hang, time out or run late, no
\* picture and no HTML shows it, and no form is submitted with the mask.
THEOREM CodeHidden == MaskSpec => []CodeStaysHidden
<1>1. MaskInv => CodeStaysHidden
  BY MaskTypesAre DEF MaskInv, CodeStaysHidden, NoCodeInPicture, NoCodeInHtml, SubmitReadsCode
<1> QED
  BY <1>1, MaskStarts, MaskKeeps, PTL DEF MaskSpec
=============================================================================
