------------------------------ MODULE AgentLoop ------------------------------
(***************************************************************************)
(* runAgentLoop (agent-loop.ts) and recoverFromActionError                 *)
(* (error-recovery.ts): the loop that shows the page to the model, takes   *)
(* its answer, accumulates the data it reports and executes the browser    *)
(* action, until the model completes, an error is thrown, or the step or   *)
(* time budget is spent.                                                   *)
(*                                                                         *)
(* The model's answers, the page and the clock are nondeterministic.  The  *)
(* data collected is its number of unique rows (StepTransactions models    *)
(* how rows are told apart), the OTP state of the loop is OtpRelay's, and  *)
(* the texts sent to the model are left out.                               *)
(***************************************************************************)
EXTENDS WriteGate, Integers

CONSTANTS MaxSteps,   \* request.maxSteps
          MaxRows     \* bound: unique rows the site has

ASSUME AgentAssumption == MaxSteps \in Nat /\ MaxRows \in Nat

VARIABLES
  aPc,        \* where the loop is
  aStep,      \* stepCount
  aClock,     \* "ample", "short" (less than 60 s left) or "late"
  aReply,     \* the model's answer being handled
  aGoal,      \* goal
  aErrors,    \* consecutiveErrors
  aNotFound,  \* consecutiveSelectorNotFoundErrors
  aRows,      \* accountMap.size + transactionMap.size + positionMap.size
  aLast,      \* lastReportDataProgress; -1 is null
  aStale,     \* consecutiveStaleReports
  aFinish,    \* finishReason
  aThrown,    \* the error that ended the loop
  aOutcome,   \* [success, reason] of the CrawlResponse
  aActive,    \* the session row is active (updateSessionStatus throws if not)
  aFailed     \* history: retries that failed since an action last succeeded

agentVars == <<aPc, aStep, aClock, aReply, aGoal, aErrors, aNotFound, aRows,
               aLast, aStale, aFinish, aThrown, aOutcome, aActive, aFailed>>

Goals == {"login", "extract"}
Replies == {"complete", "error", "loginComplete", "loginFlowRestarted",
            "waitForOtp", "reportData", "action"}
Categories == {"access_blocked", "outside_operating_hours", "credentials_rejected",
               "site_unavailable", "other"}
NoReply == [action |-> "none", category |-> "other"]
Answers == [action : Replies \ {"error"}, category : {"other"}]
           \cup [action : {"error"}, category : Categories]
Errors == {"none", "cancelled", "contract", "relay", "otp", "navigation",
           "capture", "terminal", "failed"}

----------------------------------------------------------------------------

AgentTypeOK ==
  /\ aPc \in {"start", "top", "capture", "ask", "handle", "recover", "retry", "end",
              "catch", "done"}
  /\ aStep \in 0..MaxSteps
  /\ aClock \in {"ample", "short", "late"}
  /\ aReply \in Answers \cup {NoReply}
  /\ aGoal \in Goals
  /\ aErrors \in 0..2 /\ aNotFound \in 0..3 /\ aStale \in 0..3
  /\ aRows \in 0..MaxRows /\ aLast \in -1..MaxRows
  /\ aFinish \in {"none", "complete", "timeout", "max_steps"}
  /\ aThrown \in Errors
  /\ aOutcome.success \in BOOLEAN
  /\ aActive \in BOOLEAN
  /\ aFailed \in [error : 0..MaxSteps, missing : 0..MaxSteps]

AgentInit ==
  /\ aPc = "start" /\ aStep = 0 /\ aClock = "ample"
  /\ aReply = NoReply
  /\ aGoal = "login"
  /\ aErrors = 0 /\ aNotFound = 0
  /\ aRows = 0 /\ aLast = -1 /\ aStale = 0
  /\ aFinish = "none" /\ aThrown = "none"
  /\ aOutcome = [success |-> FALSE, reason |-> "none"]
  /\ aActive = TRUE
  /\ aFailed = [error |-> 0, missing |-> 0]

Goto(pc) == aPc' = pc

Throw(e) ==
  /\ aThrown' = e
  /\ Goto("catch")

loopVars == <<aStep, aReply, aGoal, aErrors, aNotFound, aRows, aLast, aStale,
              aFinish, aOutcome, aFailed>>
world == <<aClock, aActive>>

----------------------------------------------------------------------------
(* Before the loop, and the head of each iteration                         *)

\* The relay is prepared, the login page is opened and its address checked.
Begin ==
  /\ aPc = "start"
  /\ \/ /\ aActive
        /\ Goto("top") /\ UNCHANGED aThrown
     \/ ~aActive /\ Throw("cancelled")
     \/ \E e \in {"relay", "navigation", "failed"} : Throw(e)
  /\ UNCHANGED <<loopVars, world, gateVars>>

\* Mutant: an iteration is counted only when the model moved the crawl on.
StepTopUncounted ==
  /\ aPc = "top"
  /\ IF aStep < MaxSteps /\ aClock # "late"
     THEN /\ aStep' = IF aReply.action = "reportData" THEN aStep ELSE aStep + 1
          /\ IF aClock = "short"
             THEN aFinish' = "timeout" /\ Goto("end")
             ELSE Goto("capture") /\ UNCHANGED aFinish
     ELSE Goto("end") /\ UNCHANGED <<aStep, aFinish>>
  /\ UNCHANGED <<aReply, aGoal, aErrors, aNotFound, aRows, aLast, aStale, aThrown,
                 aOutcome, aFailed, world, gateVars>>

\* The loop condition, and the check that a minute is left.
StepTop ==
  /\ aPc = "top"
  /\ IF aStep < MaxSteps /\ aClock # "late"
     THEN /\ aStep' = aStep + 1
          /\ IF aClock = "short"
             THEN aFinish' = "timeout" /\ Goto("end")
             ELSE Goto("capture") /\ UNCHANGED aFinish
     ELSE Goto("end") /\ UNCHANGED <<aStep, aFinish>>
  /\ UNCHANGED <<aReply, aGoal, aErrors, aNotFound, aRows, aLast, aStale, aThrown,
                 aOutcome, aFailed, world, gateVars>>

\* capturePageState, retried once.  A recoverable failure of both attempts
\* becomes a degraded page state; any other one is thrown.
Capture ==
  /\ aPc = "capture"
  /\ \/ Goto("ask") /\ UNCHANGED aThrown
     \/ Throw("failed")
  /\ UNCHANGED <<loopVars, world, gateVars>>

\* Rows the answer reports that were not known before.
Accumulate(new) ==
  /\ aRows + new <= MaxRows
  /\ aRows' = aRows + new

\* sendStep, updateSessionStatus and the accumulation of the data reported.
Ask ==
  /\ aPc = "ask"
  /\ \/ \E e \in {"contract", "failed"} : Throw(e) /\ UNCHANGED <<aReply, aRows>>
     \/ /\ ~aActive /\ Throw("cancelled")
        /\ UNCHANGED <<aReply, aRows>>
     \/ /\ aActive
        /\ \E answer \in Answers, new \in 0..1 :
             aReply' = answer /\ Accumulate(new)
        /\ Goto("handle") /\ UNCHANGED aThrown
  /\ UNCHANGED <<aStep, aGoal, aErrors, aNotFound, aLast, aStale, aFinish, aOutcome,
                 aFailed, world, gateVars>>

----------------------------------------------------------------------------
(* What the loop does with the answer                                      *)

Complete ==
  /\ aPc = "handle" /\ aReply.action = "complete"
  /\ aFinish' = "complete" /\ Goto("end")
  /\ UNCHANGED <<aStep, aReply, aGoal, aErrors, aNotFound, aRows, aLast, aStale,
                 aThrown, aOutcome, aFailed, world, gateVars>>

ModelError ==
  /\ aPc = "handle" /\ aReply.action = "error"
  /\ Throw("terminal")
  /\ UNCHANGED <<loopVars, world, gateVars>>

\* updateSessionStatus at the end of a handler: the next step, or cancelled.
ContinueIfActive ==
  \/ aActive /\ Goto("top") /\ UNCHANGED aThrown
  \/ ~aActive /\ Throw("cancelled")

LoginCompletes ==
  /\ aPc = "handle" /\ aReply.action = "loginComplete"
  /\ aGoal' = "extract"
  /\ SetPhase("extract")
  /\ ContinueIfActive
  /\ UNCHANGED <<aStep, aReply, aErrors, aNotFound, aRows, aLast, aStale, aFinish,
                 aOutcome, aFailed, world, gVerdicts, gBlocked, gReq, gAsked>>

\* Honoured only after a login; the relay may have to be prepared again.
LoginRestarts ==
  /\ aPc = "handle" /\ aReply.action = "loginFlowRestarted"
  /\ IF aGoal = "extract"
     THEN aGoal' = "login" /\ SetPhase("login")
     ELSE UNCHANGED <<aGoal, gPhase>>
  /\ ContinueIfActive \/ (aGoal = "extract" /\ Throw("relay"))
  /\ UNCHANGED <<aStep, aReply, aErrors, aNotFound, aRows, aLast, aStale, aFinish,
                 aOutcome, aFailed, world, gVerdicts, gBlocked, gReq, gAsked>>

\* OtpRelay models the wait; here it returns or throws.
OtpEnds ==
  \/ Goto("top") /\ UNCHANGED aThrown
  \/ \E e \in {"relay", "otp", "failed"} : Throw(e)
  \/ ~aActive /\ Throw("cancelled")

WaitsForOtp ==
  /\ aPc = "handle" /\ aReply.action = "waitForOtp"
  /\ OtpEnds
  /\ UNCHANGED <<loopVars, world, gateVars>>

\* A report that adds nothing to the previous one is stale; the third stale
\* report in a row completes the crawl.
ReportsData ==
  /\ aPc = "handle" /\ aReply.action = "reportData"
  /\ aStale' = IF aLast = aRows THEN aStale + 1 ELSE 0
  /\ IF aStale' >= 3
     THEN aFinish' = "complete" /\ Goto("end") /\ UNCHANGED aLast
     ELSE aLast' = aRows /\ Goto("top") /\ UNCHANGED aFinish
  /\ UNCHANGED <<aStep, aReply, aGoal, aErrors, aNotFound, aRows, aThrown, aOutcome,
                 aFailed, world, gateVars>>

\* findLocator: the main frame first, then the others; n elements match.
FindLocator(n) == IF n = 0 THEN "selector_not_found" ELSE "found"

\* executeAction: what it does for an action of some kind, when its selector
\* matches n elements and its fields, its address and the browser are in order
\* (works) or not.  Only a click refuses a selector that matches several.
ExecuteAction(kind, n, works) ==
  IF kind \in {"click", "fill", "select"} /\ FindLocator(n) # "found" THEN "missing"
  ELSE IF kind = "click" /\ n > 1 THEN "ambiguous"
  ELSE IF works THEN "ok" ELSE "error"

ActionOutcomes ==
  {ExecuteAction(kind, n, works) :
     kind \in {"click", "fill", "select", "wait", "scroll", "navigate"},
     n \in 0..2, works \in BOOLEAN}

\* executeAction succeeds: what follows reads the downloads and the blocked
\* writes.  A resend may prepare the relay first.
ActionSucceeds ==
  /\ aPc = "handle" /\ aReply.action = "action"
  /\ \/ /\ aErrors' = 0 /\ aNotFound' = 0
        /\ aFailed' = [error |-> 0, missing |-> 0]
        /\ DrainBlocked
        /\ Goto("top") /\ UNCHANGED aThrown
     \/ /\ Throw(IF aActive THEN "relay" ELSE "cancelled")
        /\ UNCHANGED <<aErrors, aNotFound, aFailed, gBlocked>>
  /\ UNCHANGED <<aStep, aReply, aGoal, aRows, aLast, aStale, aFinish, aOutcome, world,
                 gPhase, gVerdicts, gReq, gAsked>>

ActionFailsOnce ==
  /\ aPc = "handle" /\ aReply.action = "action"
  /\ Goto("recover")
  /\ UNCHANGED <<loopVars, aThrown, world, gateVars>>

----------------------------------------------------------------------------
(* recoverFromActionError                                                  *)

\* One capture, not retried, and sendError; no status update checks whether
\* the session is still active.
AskAgain ==
  /\ aPc = "recover"
  /\ \/ \E e \in {"contract", "capture", "failed"} : Throw(e) /\ UNCHANGED <<aReply, aRows>>
     \/ /\ \E answer \in Answers, new \in 0..1 :
             aReply' = answer /\ Accumulate(new)
        /\ Goto("retry") /\ UNCHANGED aThrown
  /\ UNCHANGED <<aStep, aGoal, aErrors, aNotFound, aLast, aStale, aFinish, aOutcome,
                 aFailed, world, gateVars>>

RetryCompletes ==
  /\ aPc = "retry" /\ aReply.action = "complete"
  /\ aFinish' = "complete" /\ Goto("end")
  /\ UNCHANGED <<aStep, aReply, aGoal, aErrors, aNotFound, aRows, aLast, aStale,
                 aThrown, aOutcome, aFailed, world, gateVars>>

\* The category of the answer is dropped: a plain Error is thrown.
RetryErrors ==
  /\ aPc = "retry" /\ aReply.action = "error"
  /\ Throw("failed")
  /\ UNCHANGED <<loopVars, world, gateVars>>

\* RecoveryContext has no write gate: its phase stays as it is.
RetryLoginCompletes ==
  /\ aPc = "retry" /\ aReply.action = "loginComplete"
  /\ aGoal' = "extract"
  /\ ContinueIfActive
  /\ UNCHANGED <<aStep, aReply, aErrors, aNotFound, aRows, aLast, aStale, aFinish,
                 aOutcome, aFailed, world, gateVars>>

RetryLoginRestarts ==
  /\ aPc = "retry" /\ aReply.action = "loginFlowRestarted"
  /\ aGoal' = "login"
  /\ ContinueIfActive \/ (aGoal = "extract" /\ Throw("relay"))
  /\ UNCHANGED <<aStep, aReply, aErrors, aNotFound, aRows, aLast, aStale, aFinish,
                 aOutcome, aFailed, world, gateVars>>

RetryWaitsForOtp ==
  /\ aPc = "retry" /\ aReply.action = "waitForOtp"
  /\ OtpEnds
  /\ UNCHANGED <<loopVars, world, gateVars>>

\* The progress is recorded, the count of stale reports is left alone.
RetryReportsData ==
  /\ aPc = "retry" /\ aReply.action = "reportData"
  /\ aLast' = aRows
  /\ Goto("top")
  /\ UNCHANGED <<aStep, aReply, aGoal, aErrors, aNotFound, aRows, aStale, aFinish,
                 aThrown, aOutcome, aFailed, world, gateVars>>

\* executeRetryAction succeeds; blocked writes are not drained here.
RetrySucceeds ==
  /\ aPc = "retry" /\ aReply.action = "action"
  /\ \/ /\ aErrors' = 0 /\ aNotFound' = 0
        /\ aFailed' = [error |-> 0, missing |-> 0]
        /\ Goto("top") /\ UNCHANGED aThrown
     \/ /\ Throw(IF aActive THEN "relay" ELSE "cancelled")
        /\ UNCHANGED <<aErrors, aNotFound, aFailed>>
  /\ UNCHANGED <<aStep, aReply, aGoal, aRows, aLast, aStale, aFinish, aOutcome, world,
                 gateVars>>

\* Mutant: the counts of the failed retry are not copied back from LoopState.
RetryFailsUnsynced(kind) ==
  /\ aPc = "retry" /\ aReply.action = "action"
  /\ aFailed' = [aFailed EXCEPT !.error = IF kind = "error" THEN @ + 1 ELSE @,
                                !.missing = IF kind = "missing" THEN @ + 1 ELSE @]
  /\ Goto("top")
  /\ UNCHANGED <<aStep, aReply, aGoal, aErrors, aNotFound, aRows, aLast, aStale, aFinish,
                 aThrown, aOutcome, world, gateVars>>

\* executeRetryAction fails: an ambiguous selector is told to the model and not
\* counted, the third selector that matches nothing and the second failure of
\* another kind end the crawl.
RetryFails(kind) ==
  /\ aPc = "retry" /\ aReply.action = "action"
  /\ aErrors' = IF kind = "error" THEN aErrors + 1 ELSE aErrors
  /\ aNotFound' = IF kind = "missing" THEN aNotFound + 1 ELSE aNotFound
  /\ aFailed' = [aFailed EXCEPT !.error = IF kind = "error" THEN @ + 1 ELSE @,
                                !.missing = IF kind = "missing" THEN @ + 1 ELSE @]
  /\ IF (kind = "error" /\ aErrors' >= 2) \/ (kind = "missing" /\ aNotFound' >= 3)
     THEN Throw("failed")
     ELSE Goto("top") /\ UNCHANGED aThrown
  /\ UNCHANGED <<aStep, aReply, aGoal, aRows, aLast, aStale, aFinish, aOutcome, world,
                 gateVars>>

----------------------------------------------------------------------------
(* After the loop                                                          *)

DetermineCrawlOutcome(finish, rows) == finish = "complete" /\ rows > 0

\* The budgets are looked at once more: a deadline that passed in the last
\* step turns a completed crawl into a timeout.
Finish ==
  /\ aPc = "end"
  /\ LET limited == IF aStep >= MaxSteps /\ aFinish = "none" THEN "max_steps" ELSE aFinish
         finish == IF aClock = "late" \/ limited = "none" THEN "timeout" ELSE limited
         ok     == DetermineCrawlOutcome(finish, aRows)
     IN /\ aFinish' = finish
        /\ aOutcome' = [success |-> ok, reason |-> IF ok THEN "none" ELSE
                          IF finish = "timeout" THEN "page_capture_timeout"
                                                ELSE "internal_error"]
  /\ Goto("done")
  /\ UNCHANGED <<aStep, aReply, aGoal, aErrors, aNotFound, aRows, aLast, aStale,
                 aThrown, aFailed, world, gateVars>>

ReasonByErrorCategory ==
  [access_blocked |-> "waf_block", outside_operating_hours |-> "outside_hours",
   credentials_rejected |-> "bank_login_failed", site_unavailable |-> "site_unavailable",
   other |-> "internal_error"]

\* The category counts only for the error the main path throws.
ClassifyCrawlFailure(e, category) ==
  CASE e = "contract" -> "api_contract_drift"
    [] e = "terminal" -> ReasonByErrorCategory[category]
    [] e = "relay" -> "otp_relay_unreachable"
    [] e = "otp" -> "otp_timeout"
    [] e = "navigation" -> "navigation_timeout"
    [] e = "capture" -> "page_capture_timeout"
    [] OTHER -> "internal_error"

\* The catch of runAgentLoop: whatever was collected is returned all the same.
Catch ==
  /\ aPc = "catch"
  /\ aOutcome' = [success |-> FALSE,
                  reason |-> IF aThrown = "cancelled" THEN "none"
                             ELSE ClassifyCrawlFailure(aThrown, aReply.category)]
  /\ Goto("done")
  /\ UNCHANGED <<aStep, aReply, aGoal, aErrors, aNotFound, aRows, aLast, aStale, aFinish,
                 aThrown, aFailed, world, gateVars>>

----------------------------------------------------------------------------
(* The world                                                               *)

Tick ==
  /\ aPc # "done" /\ aClock # "late"
  /\ aClock' = IF aClock = "ample" THEN "short" ELSE "late"
  /\ UNCHANGED <<aPc, loopVars, aThrown, aActive, gateVars>>

\* The session is cancelled, or loses its row to the watchdog.
SessionStops ==
  /\ aPc # "done" /\ aActive
  /\ aActive' = FALSE
  /\ UNCHANGED <<aPc, loopVars, aThrown, aClock, gateVars>>

LoopStep ==
  \/ Begin \/ StepTop \/ Capture \/ Ask
  \/ Complete \/ ModelError \/ LoginCompletes \/ LoginRestarts \/ WaitsForOtp
  \/ ReportsData \/ ActionSucceeds \/ ActionFailsOnce
  \/ AskAgain \/ RetryCompletes \/ RetryErrors \/ RetryLoginCompletes
  \/ RetryLoginRestarts \/ RetryWaitsForOtp \/ RetryReportsData \/ RetrySucceeds
  \/ \E kind \in ActionOutcomes \ {"ok"} : RetryFails(kind)
  \/ Finish \/ Catch

AgentNext == LoopStep \/ Tick \/ SessionStops

\* The loop and the page's requests, interleaved.
GatedNext ==
  \/ AgentNext
  \/ (Intercept \/ \E r \in Requests : VetEnds(r)) /\ UNCHANGED agentVars

GatedSpec == AgentInit /\ GateInit /\ [][GatedNext]_<<agentVars, gateVars>>

----------------------------------------------------------------------------

\* A successful CrawlResponse means what the control plane takes it for: the
\* model completed (or its reports stopped adding anything) before the deadline,
\* and there is data to store.  Control passes through the recovery path, the
\* two budget checks and the catch, each of which can end the crawl.
SuccessIsEarned ==
  aPc = "done" /\ aOutcome.success =>
    /\ aRows > 0 /\ aFinish = "complete" /\ aThrown = "none"
    /\ aReply.action \in {"complete", "reportData"}

\* The two failure counters, which recovery receives by value in LoopState and
\* hands back, count every failed retry since an action last succeeded: the
\* crawl gives up exactly when the limits say so, never earlier or later.
FailuresAreCounted ==
  /\ aErrors = aFailed.error /\ aNotFound = aFailed.missing
  /\ aPc = "top" => aErrors < 2 /\ aNotFound < 3

\* A loop that began ends: every iteration spends a step of the budget, also the ones
\* that recovery continues ("the global step budget (maxSteps) is the only
\* bound that belongs here", error-recovery.ts).
LoopEnds == aPc # "start" ~> aPc = "done"

\* README: "After login, a write gate checks each POST/PUT/PATCH/DELETE".  Once
\* the loop's goal is extract, a state-changing request leaves the browser only
\* when the vet called it a read.
ReadOnlyAfterLogin ==
  [][\A r \in Requests :
       /\ gReq'[r].step = "sent" /\ gReq[r].step # "sent"
       /\ gReq'[r].kind.method = "POST" /\ aGoal = "extract"
       => <<Shown(gReq'[r].kind), "read">> \in gAsked']_<<agentVars, gateVars>>

\* The loop reports what happened: success only when it was earned, and failures
\* counted once each on whichever path they occurred.
LoopIsHonest == GateTypeOK /\ AgentTypeOK /\ SuccessIsEarned /\ FailuresAreCounted
=============================================================================
