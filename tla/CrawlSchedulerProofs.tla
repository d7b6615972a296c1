------------------------ MODULE CrawlSchedulerProofs -------------------------
(* Theorems about CrawlScheduler, for every set of sessions, of overlapping  *)
(* ticks, of claims and of events, and for every failure threshold.          *)
EXTENDS CrawlScheduler, SequenceTheorems, TLAPS

\* The streak that is written is within the model's bound.
LEMMA AfterInStreak == ASSUME NEW n \in Streak PROVE After(n) \in Streak
BY SchedulerAssumption DEF Streak, After

\* Taking a job from the queue, and adding one.
LEMMA QueueType ==
  ASSUME queue \in Seq(Jobs)
  PROVE  /\ queue # <<>> => Head(queue) \in Jobs /\ Tail(queue) \in Seq(Jobs)
         /\ \A j \in Jobs : Append(queue, j) \in Seq(Jobs)
BY HeadTailProperties, AppendProperties

\* The fields of a job.
LEMMA JobType ==
  ASSUME NEW j \in Jobs
  PROVE  j.claim \in Tokens /\ j.revision \in 0..MaxEdits /\ j.prior \in Recoverable
BY DEF Jobs

\* A tick whose next step is to enqueue, or to roll back, holds a job; so does a
\* worker that is to give back a status.
JobHeld ==
  /\ \A t \in Ticks : tick[t] \in {"enqueue", "rollback"} => job[t] # None
  /\ worker = "restore" => workerJob # None

TypeInv == TypeOK /\ JobHeld

\* The steps of runCrawl keep the types.
LEMMA RunType ==
  ASSUME TypeInv, NEW s \in Sessions, RunCrawl(s)
  PROVE  TypeInv'
<1> USE DEF TypeInv, JobHeld, TypeOK, Row!TypeOK, Row!Holding, Row!Finished,
            RunSteps, healthVars, fenceVars, queueVars, workerVars, markVars,
            tickVars, ghostVars, RunGoto, RunFailed, Row!Become
<1>1. CASE RunGate(s)
  BY <1>1 DEF RunGate
<1>2. CASE RunObserve(s)
  BY <1>2 DEF RunObserve
<1>3. CASE RunTimeout(s)
  BY <1>3 DEF RunTimeout, Row!RequestCancel
<1>4. CASE RunFenced(s)
  BY <1>4 DEF RunFenced
<1>5. CASE RunFenceFails(s)
  BY <1>5 DEF RunFenceFails
<1>6. CASE RunHelpsCancel(s)
  <2>1. CASE /\ RunGoto(s, "wait", "wait") /\ UNCHANGED auth
             /\ Row!Become(s, "cancelling", "cancelled")
    BY <1>6, <2>1 DEF RunHelpsCancel
  <2>2. CASE RunFailed(s, "wait", FALSE) /\ UNCHANGED <<row, promoted>>
    BY <1>6, <2>2 DEF RunHelpsCancel
  <2> QED
    BY <1>6, <2>1, <2>2 DEF RunHelpsCancel
<1>7. CASE RunCount(s)
  BY <1>7 DEF RunCount, connVars, rowVars
<1>8. CASE RunWrite(s)
  <2>1. seen[s] \in Streak /\ After(seen[s]) \in Streak
    BY AfterInStreak
  <2> QED
    BY <1>8, <2>1, SchedulerAssumption
       DEF RunWrite, ApplyCrawlFailure, Reason, Reasons, Credit, rowVars, Statuses, Recoverable, Streak
<1>9. CASE RunFinish(s)
  BY <1>9 DEF RunFinish, Row!Fail
<1>10. CASE RunPromote(s)
  BY <1>10, SchedulerAssumption
     DEF RunPromote, Row!Promote, ApplyCrawlSuccess, Credit, Statuses, Recoverable,
         Reasons, Streak
<1>11. CASE RunComplete(s)
  BY <1>11 DEF RunComplete, Row!Complete
<1> QED
  BY <1>1, <1>2, <1>3, <1>4, <1>5, <1>6, <1>7, <1>8, <1>9, <1>10, <1>11 DEF RunCrawl

\* So do the queue's worker and a manual crawl.
LEMMA WorkerType ==
  ASSUME TypeInv, (\E s \in Sessions : ManualCrawl(s)) \/ Worker
  PROVE  TypeInv'
<1> USE DEF TypeInv, JobHeld, TypeOK, Row!TypeOK, Row!Holding, Row!Finished,
            healthVars, fenceVars, connVars, queueVars, workerVars, markVars, rowVars,
            runVars, tickVars, ghostVars
<1>1. ASSUME NEW s \in Sessions, ManualCrawl(s) PROVE TypeInv'
  BY <1>1 DEF ManualCrawl, CreateCrawlSession, Row!Start, Row!Become, RunSteps
<1>2. ASSUME NEW s \in Sessions, WorkerStarts(s) PROVE TypeInv'
  <2>1. Head(queue) \in Jobs /\ Tail(queue) \in Seq(Jobs)
    BY <1>2, QueueType DEF WorkerStarts
  <2>2. Head(queue).claim \in Tokens
    BY <2>1, JobType
  <2> QED
    BY <1>2, <2>1, <2>2
       DEF WorkerStarts, CreateCrawlSession, Row!Start, Row!Become, RunSteps
<1>3. CASE WorkerLocked
  <2>1. Head(queue) \in Jobs /\ Tail(queue) \in Seq(Jobs)
    BY <1>3, QueueType DEF WorkerLocked
  <2>2. Head(queue) # None
    BY <2>1, NoneAssumption
  <2> QED
    BY <1>3, <2>1, <2>2 DEF WorkerLocked
<1>4. CASE WorkerRestores
  <2>1. workerJob.prior \in Statuses
    BY <1>4, JobType DEF WorkerRestores, Statuses
  <2> QED
    BY <1>4, <2>1 DEF WorkerRestores, RestoreStaleScheduleClaim
<1>5. CASE WorkerDone
  BY <1>5 DEF WorkerDone
<1> QED
  BY <1>1, <1>2, <1>3, <1>4, <1>5 DEF Worker

\* So do the engine, the operator, the owner and the clock.
LEMMA OthersType ==
  ASSUME TypeInv,
         \/ \E s \in Sessions : EngineReports(s) \/ CancelSession(s) \/ LeaseLapses(s)
         \/ \E on \in BOOLEAN : EditSchedule(on)
         \/ UpdateCredentials \/ VerifyLoginDomain \/ ClockReachesDue \/ ControlPlaneCrash
  PROVE  TypeInv'
<1> USE DEF TypeInv, JobHeld, TypeOK, Row!TypeOK, Row!Holding, Row!Finished,
            healthVars, fenceVars, connVars, queueVars, workerVars, markVars, rowVars,
            runVars, tickVars, ghostVars
<1>1. ASSUME NEW s \in Sessions, EngineReports(s) PROVE TypeInv'
  BY <1>1 DEF EngineReports, Row!Extract, Row!Fail, Row!Become
<1>2. ASSUME NEW s \in Sessions, CancelSession(s) PROVE TypeInv'
  BY <1>2 DEF CancelSession, Row!RequestCancel, Row!Become
<1>3. ASSUME NEW s \in Sessions, LeaseLapses(s) PROVE TypeInv'
  BY <1>3 DEF LeaseLapses
<1>4. ASSUME NEW on \in BOOLEAN, EditSchedule(on) PROVE TypeInv'
  <2>1. revision + 1 \in 0..MaxEdits
    BY <1>4, SchedulerAssumption DEF EditSchedule
  <2> QED
    BY <1>4, <2>1 DEF EditSchedule, Dues
<1>5. CASE UpdateCredentials
  BY <1>5 DEF UpdateCredentials
<1>6. CASE VerifyLoginDomain
  BY <1>6 DEF VerifyLoginDomain, Dues
<1>7. CASE ClockReachesDue
  BY <1>7 DEF ClockReachesDue, Dues
<1>8. CASE ControlPlaneCrash
  BY <1>8, SchedulerAssumption DEF ControlPlaneCrash, RunSteps, TickSteps, Streak
<1> QED
  BY <1>1, <1>2, <1>3, <1>4, <1>5, <1>6, <1>7, <1>8

\* So does each step of schedulerTick.
LEMMA TickType ==
  ASSUME TypeInv, NEW t \in Ticks, Tick(t)
  PROVE  TypeInv'
<1> USE DEF TypeInv, JobHeld, TypeOK, Row!TypeOK, Row!Holding, Row!Finished,
            TickSteps, healthVars, fenceVars, connVars, queueVars, workerVars, markVars,
            rowVars, runVars, tickVars, ghostVars, TickGoto, TickSelect, TickDone
<1>1. CASE TickReap(t)
  BY <1>1 DEF TickReap, Stale
<1>2. CASE TickCount(t)
  BY <1>2 DEF TickCount
<1>3. CASE TickWrite(t)
  <2>1. count[t] \in Streak /\ After(count[t]) \in Streak /\ 0 \in Streak
    BY AfterInStreak, SchedulerAssumption DEF Streak
  <2>2. PICK s \in todo[t] : /\ ApplyCrawlFailure(count[t], s \in authFail)
                             /\ Credit(s) /\ TickDone(t, s)
    BY <1>3 DEF TickWrite
  <2>3. status' \in Statuses /\ failures' \in Streak /\ lastReason' \in Reasons
    BY <2>1, <2>2 DEF ApplyCrawlFailure, Reason, Reasons, Statuses, Recoverable
  <2>4. todo' \in [Ticks -> SUBSET Sessions] /\ count' \in [Ticks -> Streak]
    BY <1>3, <2>1, <2>2 DEF TickWrite
  <2>5. tick' \in [Ticks -> TickSteps] /\ JobHeld'
    BY <1>3, <2>2 DEF TickWrite
  <2> QED
    BY <1>3, <2>2, <2>3, <2>4, <2>5 DEF TickWrite, Credit
<1>4. CASE TickJobs(t)
  BY <1>4 DEF TickJobs
<1>5. CASE TickRecover(t)
  BY <1>5 DEF TickRecover, Stranded
<1>6. CASE TickReplaySuccess(t)
  BY <1>6, SchedulerAssumption
     DEF TickReplaySuccess, ApplyCrawlSuccess, Credit, Statuses, Recoverable, Reasons, Streak
<1>7. CASE TickOrphans(t)
  BY <1>7 DEF TickOrphans, Orphaned
<1>8. CASE TickPromote(t)
  BY <1>8, SchedulerAssumption
     DEF TickPromote, ApplyCrawlSuccess, Credit, Statuses, Recoverable, Reasons, Streak
<1>9. CASE TickComplete(t)
  BY <1>9 DEF TickComplete, Row!Complete, Row!Become
<1>10. ASSUME NEW S \in SUBSET Sessions, TickSweep(t, S) PROVE TypeInv'
  BY <1>10 DEF TickSweep, RunSteps
<1>11. CASE TickInsert(t)
  BY <1>11 DEF TickInsert, Dues
<1>12. CASE DecideSkip(t)
  BY <1>12 DEF DecideSkip
<1>13. CASE DecideDisabled(t)
  BY <1>13 DEF DecideDisabled, Dues
<1>14. CASE DecideBackOff(t)
  BY <1>14 DEF DecideBackOff, Dues, Statuses
<1>15. CASE DecideClaim(t)
  <2>1. PICK c \in Tokens :
          /\ job' = [job EXCEPT ![t] = [claim |-> c, revision |-> revision, prior |-> status]]
          /\ claim' = c
          /\ origin' = [s \in Sessions |-> IF origin[s] = c THEN None ELSE origin[s]]
          /\ revoked' = revoked \ {c}
    BY <1>15 DEF DecideClaim
  <2> DEFINE j == [claim |-> c, revision |-> revision, prior |-> status]
  <2>2. j \in Jobs
    BY <1>15 DEF DecideClaim, Claimable, Crawlable, Jobs
  <2>3. job' = [job EXCEPT ![t] = j]
    BY <2>1
  <2>4. j # None
    BY <2>2, NoneAssumption
  <2> HIDE DEF j
  <2> QED
    BY <1>15, <2>1, <2>2, <2>3, <2>4 DEF DecideClaim, Statuses, Recoverable, Dues
<1>16. CASE TickEnqueue(t)
  BY <1>16, QueueType DEF TickEnqueue
<1>17. CASE TickEnqueueFails(t)
  BY <1>17, QueueType DEF TickEnqueueFails
<1>18. CASE TickRollback(t)
  <2>1. job[t].prior \in Statuses
    BY <1>18, JobType DEF TickRollback, Statuses
  <2>2. claim # None => claim \in Tokens
    OBVIOUS
  <2> QED
    BY <1>18, <2>1, <2>2, JobType, SchedulerAssumption
       DEF TickRollback, RolledBack, ExactClaim, Dues
<1> QED
  BY <1>1, <1>2, <1>3, <1>4, <1>5, <1>6, <1>7, <1>8, <1>9, <1>10, <1>11, <1>12,
     <1>13, <1>14, <1>15, <1>16, <1>17, <1>18 DEF Tick

\* Every variable keeps its type.
LEMMA NextType ==
  ASSUME TypeInv, [Next]_vars
  PROVE  TypeInv'
<1>1. CASE UNCHANGED vars
  BY <1>1 DEF vars, TypeInv, JobHeld, TypeOK, Row!TypeOK, healthVars, fenceVars, connVars,
              queueVars, workerVars, markVars, rowVars, runVars, tickVars, ghostVars
<1>2. CASE Next
  BY <1>2, RunType, WorkerType, OthersType, TickType DEF Next
<1> QED
  BY <1>1, <1>2

\* The types and JobHeld are kept together.
LEMMA SchedulerTypeInv == Spec => []TypeInv
<1>1. Init => TypeInv
  <2> SUFFICES ASSUME Init PROVE TypeInv
    OBVIOUS
  <2>1. <<>> \in Seq(Jobs) /\ 0 \in Streak /\ 0 \in 0..MaxEdits
    BY SchedulerAssumption DEF Streak
  <2>2. Row!TypeOK
    BY DEF Init, Row!Init, Row!TypeOK
  <2>3. JobHeld
    BY DEF Init, JobHeld
  <2>4. /\ status \in Statuses /\ failures \in Streak /\ lastReason \in Reasons
        /\ enabled \in BOOLEAN /\ revision \in 0..MaxEdits /\ claim \in Tokens \cup {None}
        /\ due \in Dues /\ queue \in Seq(Jobs)
    BY <2>1 DEF Init, Statuses, Recoverable, Reasons, Dues
  <2> QED
    BY <2>1, <2>2, <2>3, <2>4 DEF Init, TypeInv, TypeOK, RunSteps, TickSteps
<1>2. TypeInv /\ [Next]_vars => TypeInv'
  BY NextType
<1> QED
  BY <1>1, <1>2, PTL DEF Spec

\* Every variable of the scheduler keeps its type, whatever ticks overlap.
THEOREM SchedulerTypeCorrect == Spec => []TypeOK
BY SchedulerTypeInv, PTL DEF TypeInv

-----------------------------------------------------------------------------
(* What a step may do to the health of the connection.                     *)

\* A status that a tick had claimed is given back.
GivenBack ==
  /\ status = "syncing" /\ status' \in Recoverable
  /\ UNCHANGED <<failures, lastReason>>

\* The decision of a tick.
Claimed ==
  /\ Crawlable /\ WithinStreak
  /\ status' = "syncing"
  /\ UNCHANGED <<failures, lastReason>>
Stopped ==
  /\ ~WithinStreak /\ lastReason = "bank_login_failed"
  /\ status' = "needs_reauth"
  /\ UNCHANGED <<failures, lastReason>>

Failed ==
  /\ \E n \in Streak : failures' = After(n)
  /\ lastReason' \in Reasons
  /\ status' = IF failures' > MaxFailures /\ lastReason' = "bank_login_failed"
               THEN "needs_reauth" ELSE "error"

HealthStep ==
  UNCHANGED healthVars \/ ApplyCrawlSuccess \/ Failed \/ GivenBack \/ Claimed \/ Stopped

\* Counting a failure is such a step.
LEMMA FailureIsFailed ==
  ASSUME NEW n \in Streak, NEW a, ApplyCrawlFailure(n, a)
  PROVE  Failed
BY DEF ApplyCrawlFailure, Failed, Reason, Reasons

\* Every step of the system does to the health of the connection one of these.
LEMMA NextHealth ==
  ASSUME TypeInv, [Next]_vars
  PROVE  HealthStep
<1> USE DEF HealthStep, healthVars
<1>1. CASE UNCHANGED vars
  BY <1>1 DEF vars, connVars
<1>2. ASSUME NEW s \in Sessions, ManualCrawl(s) \/ EngineReports(s) \/ CancelSession(s)
                                 \/ LeaseLapses(s)
      PROVE  HealthStep
  BY <1>2 DEF ManualCrawl, EngineReports, CancelSession, LeaseLapses, connVars
<1>3. ASSUME NEW s \in Sessions, RunCrawl(s) PROVE HealthStep
  <2>1. CASE RunWrite(s)
    <3>1. seen[s] \in Streak
      BY DEF TypeInv, TypeOK
    <3> QED
      BY <2>1, <3>1, FailureIsFailed DEF RunWrite
  <2>2. CASE RunPromote(s)
    BY <2>2 DEF RunPromote
  <2>3. CASE RunGate(s) \/ RunObserve(s) \/ RunTimeout(s) \/ RunFenced(s)
             \/ RunFenceFails(s) \/ RunHelpsCancel(s)
    BY <2>3 DEF RunGate, RunObserve, RunTimeout, RunFenced, RunFenceFails, RunHelpsCancel
  <2>4. CASE RunCount(s) \/ RunFinish(s) \/ RunComplete(s)
    BY <2>4 DEF RunCount, RunFinish, RunComplete, connVars
  <2> QED
    BY <1>3, <2>1, <2>2, <2>3, <2>4 DEF RunCrawl
<1>4. CASE Worker
  <2>1. CASE WorkerRestores
    <3>1. workerJob.prior \in Recoverable
      BY <2>1, JobType DEF WorkerRestores, TypeInv, TypeOK, JobHeld
    <3> QED
      BY <2>1, <3>1 DEF WorkerRestores, RestoreStaleScheduleClaim, GivenBack
  <2>2. CASE (\E s \in Sessions : WorkerStarts(s)) \/ WorkerLocked \/ WorkerDone
    BY <2>2 DEF WorkerStarts, WorkerLocked, WorkerDone, connVars
  <2> QED
    BY <1>4, <2>1, <2>2 DEF Worker
<1>5. ASSUME NEW t \in Ticks, Tick(t) PROVE HealthStep
  <2>1. CASE TickWrite(t)
    <3>1. count[t] \in Streak
      BY DEF TypeInv, TypeOK
    <3> QED
      BY <2>1, <3>1, FailureIsFailed DEF TickWrite
  <2>2. CASE TickReplaySuccess(t) \/ TickPromote(t)
    BY <2>2 DEF TickReplaySuccess, TickPromote
  <2>3. CASE TickReap(t) \/ TickCount(t) \/ TickJobs(t) \/ TickRecover(t)
             \/ TickOrphans(t) \/ TickComplete(t) \/ TickInsert(t)
    BY <2>3 DEF TickReap, TickCount, TickJobs, TickRecover, TickOrphans, TickComplete,
                TickInsert, connVars
  <2>4. ASSUME NEW S \in SUBSET Sessions, TickSweep(t, S) PROVE HealthStep
    BY <2>4 DEF TickSweep, connVars
  <2>5. CASE DecideSkip(t) \/ DecideDisabled(t) \/ TickEnqueue(t) \/ TickEnqueueFails(t)
    BY <2>5 DEF DecideSkip, DecideDisabled, TickEnqueue, TickEnqueueFails, connVars
  <2>6. CASE DecideBackOff(t)
    BY <2>6 DEF DecideBackOff, Stopped
  <2>7. CASE DecideClaim(t)
    BY <2>7 DEF DecideClaim, Claimable, Claimed
  <2>8. CASE TickRollback(t)
    <3>1. job[t].prior \in Recoverable
      BY <2>8, JobType DEF TickRollback, TypeInv, TypeOK, JobHeld
    <3> QED
      BY <2>8, <3>1 DEF TickRollback, RolledBack, GivenBack
  <2> QED
    BY <1>5, <2>1, <2>2, <2>3, <2>4, <2>5, <2>6, <2>7, <2>8 DEF Tick
<1>6. ASSUME NEW on \in BOOLEAN, EditSchedule(on) PROVE HealthStep
  BY <1>6 DEF EditSchedule
<1>7. CASE UpdateCredentials \/ VerifyLoginDomain \/ ClockReachesDue \/ ControlPlaneCrash
  BY <1>7 DEF UpdateCredentials, VerifyLoginDomain, ClockReachesDue, ControlPlaneCrash, connVars
<1> QED
  BY <1>1, <1>2, <1>3, <1>4, <1>5, <1>6, <1>7 DEF Next

\* Two facts about the health of the connection.
HealthInv == ReauthJustified /\ SyncingWithinStreak

LEMMA HealthPreserved ==
  ASSUME TypeInv, HealthInv, HealthStep
  PROVE  HealthInv'
<1> USE SchedulerAssumption DEF HealthInv, ReauthJustified, SyncingWithinStreak, TypeInv, TypeOK
<1>1. CASE UNCHANGED healthVars
  BY <1>1 DEF healthVars
<1>2. CASE ApplyCrawlSuccess
  BY <1>2 DEF ApplyCrawlSuccess
<1>3. CASE Failed
  BY <1>3 DEF Failed
<1>4. CASE GivenBack
  BY <1>4 DEF GivenBack, Recoverable
<1>5. CASE Claimed
  BY <1>5 DEF Claimed, WithinStreak
<1>6. CASE Stopped
  BY <1>6 DEF Stopped, WithinStreak, Streak
<1> QED
  BY <1>1, <1>2, <1>3, <1>4, <1>5, <1>6 DEF HealthStep

LEMMA HealthSafe == Spec => []HealthInv
<1>1. Init => HealthInv
  BY SchedulerAssumption DEF Init, HealthInv, ReauthJustified, SyncingWithinStreak
<1>2. TypeInv /\ HealthInv /\ [Next]_vars => HealthInv'
  BY NextHealth, HealthPreserved
<1> QED
  BY <1>1, <1>2, SchedulerTypeInv, PTL DEF Spec

\* needs_reauth is only ever reached through more than MaxFailures failures in a
\* row, the last of them a refused login, however ticks, crawls, rollbacks and
\* crashes interleave: applyCrawlFailure and the back-off of the decision are
\* the only ways in, and neither a rollback nor a stale job restores it.
THEOREM ReauthIsJustified == Spec => []ReauthJustified
BY HealthSafe, PTL DEF HealthInv

\* A connection past the failure threshold is never left 'syncing'.
THEOREM SyncingIsWithinStreak == Spec => []SyncingWithinStreak
BY HealthSafe, PTL DEF HealthInv

\* No step of the scheduler takes a connection out of needs_reauth into 'syncing'.
THEOREM ReauthIsKept == Spec => ReauthNeverSyncs
<1>1. TypeInv /\ [Next]_vars => [status = "needs_reauth" => status' # "syncing"]_vars
  <2> SUFFICES ASSUME TypeInv, [Next]_vars, status = "needs_reauth"
               PROVE  status' # "syncing"
    OBVIOUS
  <2>1. HealthStep
    BY NextHealth
  <2> QED
    BY <2>1 DEF HealthStep, healthVars, ApplyCrawlSuccess, Failed, GivenBack, Claimed,
                Stopped, Crawlable, Recoverable
<1> QED
  BY <1>1, SchedulerTypeInv, PTL DEF Spec, ReauthNeverSyncs

-----------------------------------------------------------------------------
(* Claims.                                                                 *)

\* The claim in the row has neither been revoked nor started a crawl.
ClaimInv ==
  /\ claim # None => claim \notin revoked /\ \A s \in Sessions : origin[s] # claim
  /\ RevokedNeverRuns

\* Most steps do not touch claims.
LEMMA ClaimsKept ==
  ASSUME [Next]_vars,
         \A s \in Sessions : ~ManualCrawl(s) /\ ~WorkerStarts(s),
         \A on \in BOOLEAN : ~EditSchedule(on),
         \A t \in Ticks : /\ ~DecideClaim(t) /\ ~TickRollback(t)
                          /\ \A S \in SUBSET Sessions : ~TickSweep(t, S)
  PROVE  UNCHANGED <<claim, origin, revoked>>
<1> USE DEF fenceVars, connVars, ghostVars, Credit
<1>1. CASE UNCHANGED vars
  BY <1>1 DEF vars
<1>2. ASSUME NEW s \in Sessions, EngineReports(s) \/ CancelSession(s) \/ LeaseLapses(s)
      PROVE  UNCHANGED <<claim, origin, revoked>>
  BY <1>2 DEF EngineReports, CancelSession, LeaseLapses
<1>3. ASSUME NEW s \in Sessions, RunCrawl(s) PROVE UNCHANGED <<claim, origin, revoked>>
  BY <1>3 DEF RunCrawl, RunGate, RunObserve, RunTimeout, RunFenced, RunFenceFails,
              RunHelpsCancel, RunCount, RunWrite, RunFinish, RunPromote, RunComplete,
              RunFailed, RunGoto
<1>4. CASE WorkerLocked \/ WorkerRestores \/ WorkerDone
  BY <1>4 DEF WorkerLocked, WorkerRestores, WorkerDone
<1>5. ASSUME NEW t \in Ticks, Tick(t) PROVE UNCHANGED <<claim, origin, revoked>>
  <2>1. CASE TickReap(t) \/ TickCount(t) \/ TickWrite(t) \/ TickJobs(t) \/ TickRecover(t)
             \/ TickReplaySuccess(t) \/ TickOrphans(t) \/ TickPromote(t) \/ TickComplete(t)
    BY <2>1 DEF TickReap, TickCount, TickWrite, TickJobs, TickRecover, TickReplaySuccess,
                TickOrphans, TickPromote, TickComplete
  <2>2. CASE TickInsert(t) \/ DecideSkip(t) \/ DecideDisabled(t) \/ DecideBackOff(t)
             \/ TickEnqueue(t) \/ TickEnqueueFails(t)
    BY <2>2 DEF TickInsert, DecideSkip, DecideDisabled, DecideBackOff, TickEnqueue,
                TickEnqueueFails
  <2> QED
    BY <1>5, <2>1, <2>2 DEF Tick
<1>6. CASE UpdateCredentials \/ VerifyLoginDomain \/ ClockReachesDue \/ ControlPlaneCrash
  BY <1>6 DEF UpdateCredentials, VerifyLoginDomain, ClockReachesDue, ControlPlaneCrash
<1> QED
  BY <1>1, <1>2, <1>3, <1>4, <1>5, <1>6 DEF Next, Worker

LEMMA NextClaim ==
  ASSUME TypeInv, ClaimInv, [Next]_vars
  PROVE  ClaimInv'
<1> USE SchedulerAssumption DEF ClaimInv, RevokedNeverRuns
<1>0. /\ claim \in Tokens \cup {None} /\ revoked \in SUBSET Tokens
      /\ origin \in [Sessions -> Tokens \cup {None}] /\ queue \in Seq(Jobs)
  BY DEF TypeInv, TypeOK
<1>1. ASSUME NEW s \in Sessions, ManualCrawl(s) PROVE ClaimInv'
  BY <1>0, <1>1 DEF ManualCrawl, CreateCrawlSession, connVars, fenceVars
<1>2. ASSUME NEW s \in Sessions, WorkerStarts(s) PROVE ClaimInv'
  <2>1. Head(queue).claim \in Tokens
    BY <1>0, <1>2, QueueType, JobType DEF WorkerStarts
  <2>2. claim = Head(queue).claim
    BY <1>2 DEF WorkerStarts, ScheduleFence
  <2> QED
    BY <1>0, <1>2, <2>1, <2>2 DEF WorkerStarts, CreateCrawlSession
<1>3. ASSUME NEW on \in BOOLEAN, EditSchedule(on) PROVE ClaimInv'
  BY <1>0, <1>3 DEF EditSchedule
<1>4. ASSUME NEW t \in Ticks, NEW S \in SUBSET Sessions, TickSweep(t, S) PROVE ClaimInv'
  BY <1>0, <1>4 DEF TickSweep, connVars, fenceVars
<1>5. ASSUME NEW t \in Ticks, DecideClaim(t) PROVE ClaimInv'
  <2>1. PICK c \in Tokens :
          /\ claim' = c
          /\ origin' = [s \in Sessions |-> IF origin[s] = c THEN None ELSE origin[s]]
          /\ revoked' = revoked \ {c}
    BY <1>5 DEF DecideClaim
  <2> QED
    BY <1>0, <2>1
<1>6. ASSUME NEW t \in Ticks, TickRollback(t) PROVE ClaimInv'
  <2>1. UNCHANGED origin /\ \/ UNCHANGED <<claim, revoked>>
                            \/ claim' = None /\ revoked' = revoked \cup {claim}
    BY <1>6 DEF TickRollback
  <2>2. claim # None \/ UNCHANGED <<claim, revoked>>
    <3>1. job[t].claim # None
      BY <1>6, JobType DEF TickRollback, TypeInv, TypeOK, JobHeld
    <3> QED
      BY <1>6, <3>1 DEF TickRollback, ExactClaim
  <2> QED
    BY <1>0, <2>1, <2>2
<1>7. CASE UNCHANGED <<claim, origin, revoked>>
  BY <1>7
<1> QED
  BY <1>1, <1>2, <1>3, <1>4, <1>5, <1>6, <1>7, ClaimsKept

\* A claim that was rolled back, or withdrawn by a schedule edit, never starts a
\* crawl, whatever jobs are left in the queue: createCrawlSession consumes the
\* claim that the row holds, and a revoked one is not in the row.
THEOREM RevokedClaimsNeverRun == Spec => []RevokedNeverRuns
<1>1. Init => ClaimInv
  BY DEF Init, ClaimInv, RevokedNeverRuns
<1>2. TypeInv /\ ClaimInv /\ [Next]_vars => ClaimInv'
  BY NextClaim
<1>3. ClaimInv => RevokedNeverRuns
  BY DEF ClaimInv
<1> QED
  BY <1>1, <1>2, <1>3, SchedulerTypeInv, PTL DEF Spec

-----------------------------------------------------------------------------
(* A healthy status and the failure streak, until the schedule is edited.  *)

Healthy == {"connected", "connecting"}

\* Until the first edit, no job is stale, and what the rollback of the claim in
\* the row would restore is still true.
Unedited ==
  /\ status \in Healthy => failures = 0
  /\ enabled
  /\ workerJob # None => workerJob.revision = 0
  /\ \A i \in 1..Len(queue) : queue[i].revision = 0
  /\ \A t \in Ticks :
       job[t] # None =>
         /\ job[t].revision = 0
         /\ claim = job[t].claim /\ status = "syncing" /\ job[t].prior \in Healthy
              => failures = 0

StreakInv == revision = 0 => Unedited

\* Most steps leave the claims and the jobs alone and give no status back.
Quiet ==
  /\ UNCHANGED <<enabled, revision, claim, job, workerJob, queue>>
  /\ UNCHANGED healthVars \/ ApplyCrawlSuccess \/ Failed \/ Stopped

LEMMA QuietStreak ==
  ASSUME StreakInv, Quiet
  PROVE  StreakInv'
<1> USE DEF StreakInv, Unedited, Healthy, Quiet
<1>1. CASE UNCHANGED healthVars
  BY <1>1 DEF healthVars
<1>2. CASE ApplyCrawlSuccess
  BY <1>2 DEF ApplyCrawlSuccess
<1>3. CASE Failed
  BY <1>3 DEF Failed
<1>4. CASE Stopped
  BY <1>4 DEF Stopped
<1> QED
  BY <1>1, <1>2, <1>3, <1>4

LEMMA NextStreak ==
  ASSUME TypeInv, StreakInv, [Next]_vars
  PROVE  StreakInv'
<1> USE DEF healthVars, fenceVars, connVars, tickVars, queueVars, workerVars, Quiet
<1>0. /\ revision \in Nat /\ queue \in Seq(Jobs)
      /\ \A t \in Ticks : job[t] \in Jobs \cup {None}
      /\ \A j \in Jobs : j.claim # None
  BY JobType, SchedulerAssumption DEF TypeInv, TypeOK
<1>1. CASE UNCHANGED vars
  BY <1>1, QuietStreak DEF vars
<1>2. ASSUME NEW s \in Sessions,
             ManualCrawl(s) \/ EngineReports(s) \/ CancelSession(s) \/ LeaseLapses(s)
      PROVE  StreakInv'
  BY <1>2, QuietStreak
     DEF ManualCrawl, CreateCrawlSession, EngineReports, CancelSession, LeaseLapses
<1>3. ASSUME NEW s \in Sessions, RunCrawl(s) PROVE StreakInv'
  <2>1. CASE RunWrite(s)
    <3>1. Failed
      BY <2>1, FailureIsFailed DEF RunWrite, TypeInv, TypeOK
    <3> QED
      BY <2>1, <3>1, QuietStreak DEF RunWrite
  <2>2. CASE RunPromote(s)
    BY <2>2, QuietStreak DEF RunPromote, RunGoto
  <2>3. CASE RunGate(s) \/ RunObserve(s) \/ RunTimeout(s) \/ RunFenced(s)
             \/ RunFenceFails(s) \/ RunHelpsCancel(s)
    BY <2>3, QuietStreak
       DEF RunGate, RunObserve, RunTimeout, RunFenced, RunFenceFails, RunHelpsCancel,
           RunFailed, RunGoto
  <2>4. CASE RunCount(s) \/ RunFinish(s) \/ RunComplete(s)
    BY <2>4, QuietStreak DEF RunCount, RunFinish, RunComplete, RunGoto
  <2> QED
    BY <1>3, <2>1, <2>2, <2>3, <2>4 DEF RunCrawl
<1>4. ASSUME NEW s \in Sessions, WorkerStarts(s) PROVE StreakInv'
  <2>1. \A i \in 1..Len(Tail(queue)) : /\ Tail(queue)[i] = queue[i + 1]
                                      /\ i + 1 \in 1..Len(queue)
    BY <1>0, <1>4 DEF WorkerStarts
  <2> QED
    BY <1>0, <1>4, <2>1 DEF WorkerStarts, CreateCrawlSession, StreakInv, Unedited, Healthy
<1>5. CASE WorkerRestores
  <2>1. workerJob \in Jobs
    BY <1>5 DEF WorkerRestores, TypeInv, TypeOK, JobHeld
  <2>2. revision = 0 => status' = status
    BY <1>5, <2>1, NoneAssumption
       DEF WorkerRestores, RestoreStaleScheduleClaim, StreakInv, Unedited
  <2> QED
    BY <1>5, <2>2 DEF WorkerRestores, StreakInv, Unedited
<1>6. CASE WorkerLocked
  <2>1. \A i \in 1..Len(Tail(queue)) : /\ Tail(queue)[i] = queue[i + 1]
                                      /\ i + 1 \in 1..Len(queue)
    BY <1>0, <1>6 DEF WorkerLocked
  <2>2. Head(queue) = queue[1] /\ 1 \in 1..Len(queue)
    BY <1>0, <1>6 DEF WorkerLocked
  <2> QED
    BY <1>6, <2>1, <2>2 DEF WorkerLocked, StreakInv, Unedited
<1>11. CASE WorkerDone
  BY <1>11, QuietStreak DEF WorkerDone
<1>7. ASSUME NEW t \in Ticks, Tick(t) PROVE StreakInv'
  <2> USE DEF TickGoto, TickSelect
  <2>1. CASE TickWrite(t)
    <3>1. Failed
      BY <2>1, FailureIsFailed DEF TickWrite, TypeInv, TypeOK
    <3> QED
      BY <2>1, <3>1, QuietStreak DEF TickWrite
  <2>2. CASE TickReplaySuccess(t) \/ TickPromote(t)
    BY <2>2, QuietStreak DEF TickReplaySuccess, TickPromote
  <2>3. CASE TickReap(t) \/ TickCount(t) \/ TickJobs(t) \/ TickRecover(t)
             \/ TickOrphans(t) \/ TickComplete(t) \/ TickInsert(t)
    BY <2>3, QuietStreak DEF TickReap, TickCount, TickJobs, TickRecover, TickOrphans,
                             TickComplete, TickInsert
  <2>4. ASSUME NEW S \in SUBSET Sessions, TickSweep(t, S) PROVE StreakInv'
    BY <2>4, QuietStreak DEF TickSweep
  <2>5. CASE DecideSkip(t) \/ DecideDisabled(t)
    BY <2>5, QuietStreak DEF DecideSkip, DecideDisabled
  <2>6. CASE DecideBackOff(t)
    BY <2>6, QuietStreak DEF DecideBackOff, Stopped
  <2>7. CASE DecideClaim(t)
    <3>1. PICK c \in Tokens :
            /\ Fresh(c) /\ claim' = c
            /\ job' = [job EXCEPT ![t] = [claim |-> c, revision |-> revision, prior |-> status]]
      BY <2>7 DEF DecideClaim
    <3>2. job'[t] = [claim |-> c, revision |-> revision, prior |-> status]
      BY <3>1 DEF TypeInv, TypeOK
    <3>3. revision = 0 => job'[t].revision = 0 /\ (job'[t].prior \in Healthy => failures = 0)
      BY <3>2 DEF StreakInv, Unedited
    <3>4. \A u \in Ticks \ {t} : job'[u] = job[u] /\ (job[u] # None => job[u].claim # c)
      BY <3>1 DEF Fresh, TypeInv, TypeOK
    <3> QED
      BY <2>7, <3>1, <3>3, <3>4 DEF DecideClaim, StreakInv, Unedited, Healthy
  <2>8. CASE TickEnqueue(t) \/ TickEnqueueFails(t)
    <3>1. \A u \in Ticks : job'[u] = None \/ job'[u] = job[u]
      BY <2>8 DEF TickEnqueue, TickEnqueueFails, TypeInv, TypeOK
    <3>2. job[t] \in Jobs /\ job[t] # None
      BY <2>8 DEF TickEnqueue, TickEnqueueFails, TypeInv, TypeOK, JobHeld
    <3>3. \A i \in 1..Len(Append(queue, job[t])) :
            \/ i \in 1..Len(queue) /\ Append(queue, job[t])[i] = queue[i]
            \/ Append(queue, job[t])[i] = job[t]
      BY <1>0, <3>2
    <3>4. revision = 0 => \A i \in 1..Len(queue') : queue'[i].revision = 0
      <4>1. queue' = queue \/ queue' = Append(queue, job[t])
        BY <2>8 DEF TickEnqueue, TickEnqueueFails
      <4>2. revision = 0 => job[t].revision = 0 /\ \A i \in 1..Len(queue) : queue[i].revision = 0
        BY <3>2 DEF StreakInv, Unedited
      <4> QED
        BY <3>3, <4>1, <4>2
    <3> QED
      BY <2>8, <3>1, <3>4 DEF TickEnqueue, TickEnqueueFails, StreakInv, Unedited
  <2>10. CASE TickRollback(t)
    <3>1. job[t] \in Jobs /\ job[t] # None
      BY <2>10 DEF TickRollback, TypeInv, TypeOK, JobHeld
    <3>2. \A u \in Ticks : job'[u] = None \/ job'[u] = job[u]
      BY <2>10 DEF TickRollback, TypeInv, TypeOK
    <3>3. revision = 0 /\ MayRollBack(job[t]) => ExactClaim(job[t])
      BY <3>1 DEF MayRollBack, SupersededByEdit, StreakInv, Unedited
    <3>4. CASE revision = 0 /\ MayRollBack(job[t])
      <4>1. claim' = None /\ claim = job[t].claim
        BY <2>10, <3>3, <3>4 DEF TickRollback, ExactClaim
      <4>2. status' \in Healthy => failures = 0
        BY <2>10, <3>1, <3>4, <4>1 DEF TickRollback, RolledBack, StreakInv, Unedited
      <4> QED
        BY <1>0, <2>10, <3>2, <3>4, <4>1, <4>2 DEF TickRollback, StreakInv, Unedited
    <3>5. CASE ~MayRollBack(job[t])
      <4>1. UNCHANGED <<status, claim>>
        BY <2>10, <3>5 DEF TickRollback, RolledBack
      <4> QED
        BY <2>10, <3>2, <4>1 DEF TickRollback, StreakInv, Unedited
    <3>6. CASE revision # 0
      BY <2>10, <3>6 DEF TickRollback, StreakInv
    <3> QED
      BY <3>4, <3>5, <3>6
  <2> QED
    BY <1>7, <2>1, <2>2, <2>3, <2>4, <2>5, <2>6, <2>7, <2>8, <2>10 DEF Tick
<1>8. ASSUME NEW on \in BOOLEAN, EditSchedule(on) PROVE StreakInv'
  BY <1>0, <1>8 DEF EditSchedule, StreakInv
<1>9. CASE UpdateCredentials \/ VerifyLoginDomain \/ ClockReachesDue
  BY <1>9, QuietStreak DEF UpdateCredentials, VerifyLoginDomain, ClockReachesDue
<1>10. CASE ControlPlaneCrash
  BY <1>10 DEF ControlPlaneCrash, StreakInv, Unedited
<1> QED
  BY <1>1, <1>2, <1>3, <1>4, <1>5, <1>6, <1>7, <1>8, <1>9, <1>10, <1>11
  DEF Next, Worker

\* Until somebody edits the schedule, a connection that reads 'connected' or
\* 'connecting' has no failure streak, however many ticks overlap: a rollback
\* restores a status only under the claim it was read for, and a failure that
\* is counted in between has ended 'syncing'.
THEOREM HealthyIsHealthy == Spec => []HealthyHasNoStreak
<1>1. Init => StreakInv
  BY DEF Init, StreakInv, Unedited
<1>2. TypeInv /\ StreakInv /\ [Next]_vars => StreakInv'
  BY NextStreak
<1>3. StreakInv => HealthyHasNoStreak
  BY DEF StreakInv, Unedited, Healthy, HealthyHasNoStreak
<1> QED
  BY <1>1, <1>2, <1>3, SchedulerTypeInv, PTL DEF Spec

-----------------------------------------------------------------------------

\* The health the owner is shown agrees with the failure streak: the decision of
\* schedulerTick, the bookkeeping and the rollback never leave one without the other.
THEOREM HealthHonest == Spec => []HealthIsHonest
<1>1. ReauthJustified /\ SyncingWithinStreak /\ HealthyHasNoStreak => HealthIsHonest
  BY DEF HealthIsHonest
<1> QED
  BY <1>1, ReauthIsJustified, SyncingIsWithinStreak, HealthyIsHealthy, PTL
=============================================================================
