-------------------------- MODULE CrawlScheduler -----------------------------
(***************************************************************************)
(* The connection row, its schedule and its failure bookkeeping: the       *)
(* scheduler tick that claims a due connection, the pg-boss queue and its  *)
(* sequential worker, manual crawls, schedule edits, the bookkeeping that  *)
(* runCrawl does for each session, and the recovery passes of the tick.    *)
(*                                                                         *)
(* One connection, whose login domain is verified.  Its session rows move  *)
(* by the operations of SessionRow, the contract that CrawlSession shows   *)
(* the sessions to keep; what is added here is who credits which outcome   *)
(* to the connection, and when.  A clock reading is one of four values of  *)
(* connections_due.next_crawl_at: no row, due, the next run of the cron    *)
(* schedule, or a back-off (a day or a week).                              *)
(***************************************************************************)
EXTENDS Integers, Sequences

CONSTANTS Sessions,     \* session ids; a purged id stands for a fresh one
          Ticks,        \* schedulerTick calls that may overlap
          Tokens,       \* crawl_schedule_claim values (random UUIDs)
          None,         \* null
          MaxFailures,  \* MAX_CONSECUTIVE_CRAWL_FAILURES
          MaxEdits,     \* bound on schedule edits
          Events        \* the rare events this instance is exposed to

AllEvents == {"queueDown", "controlPlaneCrash", "engineCrash", "cancel",
              "credentialsUpdated", "domainVerified"}

ASSUME SchedulerAssumption ==
  /\ None \notin Tokens \cup Sessions
  /\ MaxFailures \in Nat /\ MaxEdits \in Nat
  /\ Events \subseteq AllEvents

VARIABLES
  status,    \* connections.status
  failures,  \* connections.consecutive_failures
  lastReason,  \* crawl_stats.last_failure_reason; "other" if none or another
  enabled, revision, claim,  \* crawl_schedule_enabled, _revision, _claim
  due,       \* connections_due.next_crawl_at
  queue,     \* CRAWL_QUEUE of pg-boss, durable
  worker, workerJob, workerSession,  \* its worker, which runs one job at a time
  row,       \* sessions.status, as in SessionRow
  promoted,  \* sessions whose data is in the canonical tables
  lapsed,    \* sessions whose lease and heartbeat are past
  authFail,  \* failed sessions with failure_reason bank_login_failed
  run, seen, auth,         \* each runCrawl: its step, the streak it read; those that count
                           \* a refused bank login
  tick, todo, count, job,  \* each schedulerTick: its step, the rows its select returned,
                           \* the streak it read, what it is about to enqueue
  origin,    \* history: the claim that started each session, None for a manual crawl
  revoked,   \* history: claims rolled back, or withdrawn by an edit, before a crawl used them
  credited,  \* history: sessions whose outcome was folded into the connection row
  repaired   \* history: the owner has saved new credentials while in needs_reauth

healthVars == <<status, failures, lastReason>>
fenceVars == <<enabled, revision, claim>>
connVars == <<healthVars, fenceVars, due>>
workerVars == <<worker, workerJob, workerSession>>
queueVars == <<queue, workerVars>>
markVars == <<lapsed, authFail>>
rowVars == <<row, promoted, markVars>>
runVars == <<run, auth, seen>>
tickVars == <<tick, todo, count, job>>
ghostVars == <<origin, revoked, credited, repaired>>
vars == <<connVars, queueVars, rowVars, runVars, tickVars, ghostVars>>

Row == INSTANCE SessionRow

Recoverable == {"connected", "connecting", "error", "syncing"}
Statuses == Recoverable \cup {"needs_reauth"}
Reasons == {"bank_login_failed", "other"}
Dues == {"absent", "due", "next", "backoff"}

Jobs == [claim : Tokens, revision : 0..MaxEdits, prior : Recoverable]

ASSUME NoneAssumption == None \notin Jobs

\* A streak past the threshold is not counted further: no guard tells apart
\* two values above it.
Streak == 0..(MaxFailures + 1)

RunSteps == {"idle", "gate", "wait", "fence", "count", "write", "promote",
             "complete", "finish", "lost", "end"}
TickSteps == {"idle", "reapCount", "reapWrite", "jobs", "recover", "replay",
              "replayWrite", "promote", "complete", "insert", "decide",
              "enqueue", "rollback"}

TypeOK ==
  /\ status \in Statuses /\ failures \in Streak /\ lastReason \in Reasons
  /\ enabled \in BOOLEAN /\ revision \in 0..MaxEdits /\ claim \in Tokens \cup {None}
  /\ due \in Dues
  /\ queue \in Seq(Jobs)
  /\ worker \in {"idle", "run", "restore"} /\ workerJob \in Jobs \cup {None}
  /\ workerSession \in Sessions \cup {None}
  /\ Row!TypeOK
  /\ lapsed \in SUBSET Sessions /\ authFail \in SUBSET Sessions
  /\ run \in [Sessions -> RunSteps] /\ auth \in SUBSET Sessions
  /\ seen \in [Sessions -> Streak]
  /\ tick \in [Ticks -> TickSteps] /\ todo \in [Ticks -> SUBSET Sessions]
  /\ count \in [Ticks -> Streak] /\ job \in [Ticks -> Jobs \cup {None}]
  /\ origin \in [Sessions -> Tokens \cup {None}]
  /\ revoked \in SUBSET Tokens
  /\ credited \in SUBSET Sessions
  /\ repaired \in BOOLEAN

\* createConnection, then verifyLoginDomain, which schedules the first run.
Init ==
  /\ status = "connecting" /\ failures = 0 /\ lastReason = "other"
  /\ enabled = TRUE /\ revision = 0 /\ claim = None
  /\ due = "next"
  /\ queue = <<>>
  /\ worker = "idle" /\ workerJob = None /\ workerSession = None
  /\ Row!Init
  /\ lapsed = {} /\ authFail = {}
  /\ run = [s \in Sessions |-> "idle"] /\ auth = {}
  /\ seen = [s \in Sessions |-> 0]
  /\ tick = [t \in Ticks |-> "idle"] /\ todo = [t \in Ticks |-> {}]
  /\ count = [t \in Ticks |-> 0] /\ job = [t \in Ticks |-> None]
  /\ origin = [s \in Sessions |-> None]
  /\ revoked = {} /\ credited = {} /\ repaired = FALSE

-----------------------------------------------------------------------------
(* Crawl bookkeeping: each operation is one transaction, but the streak is *)
(* read without a row lock, so a failure is a read and a later write.      *)

Credit(s) == credited' = credited \cup {s} /\ UNCHANGED <<origin, revoked, repaired>>

\* applyCrawlSuccess.  (No code path sets 'disabled', which it excepts.)
ApplyCrawlSuccess ==
  status' = "connected" /\ failures' = 0 /\ lastReason' = "other"

\* Whether the crawl failed because the bank refused the login.
Reason(refused) == IF refused THEN "bank_login_failed" ELSE "other"

\* crawlStatsAfterFailure of the streak that was read.
After(n) == IF n > MaxFailures THEN n ELSE n + 1

\* Mutant: the streak is counted but the connection stays where it was.
ApplyCrawlFailureKeepsStatus(n, a) ==
  status' = status /\ failures' = After(n) /\ lastReason' = Reason(a)

\* applyCrawlFailure, its update.
ApplyCrawlFailure(n, a) ==
  /\ status' = IF After(n) > MaxFailures /\ a THEN "needs_reauth" ELSE "error"
  /\ failures' = After(n) /\ lastReason' = Reason(a)

-----------------------------------------------------------------------------
(* Crawls.                                                                 *)

LockHeld == \E s \in Sessions : row[s] \in Row!Holding

\* createCrawlSession: inserting the row takes the lock, and a scheduled crawl
\* consumes its claim in the same transaction.
CreateCrawlSession(s, c) ==
  /\ Row!Start(s)
  /\ run' = [run EXCEPT ![s] = "gate"]
  /\ origin' = [origin EXCEPT ![s] = c]
  /\ UNCHANGED <<markVars, auth, seen, tickVars, revoked, credited, repaired>>

\* POST /api/connections/:id/crawl; 409 when the lock is held.
ManualCrawl(s) ==
  /\ CreateCrawlSession(s, None)
  /\ UNCHANGED <<connVars, queueVars>>

\* Mutant: the fence looks at the revision only.
ScheduleFenceRevision(j) == enabled /\ revision = j.revision

\* The schedule fence of createCrawlSession.
ScheduleFence(j) == enabled /\ revision = j.revision /\ claim = j.claim

\* The worker takes the next job and calls runCrawl with its claim.
WorkerStarts(s) ==
  /\ worker = "idle" /\ queue # <<>>
  /\ ScheduleFence(Head(queue))
  /\ CreateCrawlSession(s, Head(queue).claim)
  /\ claim' = None
  /\ worker' = "run" /\ workerSession' = s
  /\ queue' = Tail(queue)
  /\ UNCHANGED <<healthVars, enabled, revision, due, workerJob>>

\* runCrawl returned 'locked': a stale claim, or a crawl is under way.
WorkerLocked ==
  /\ worker = "idle" /\ queue # <<>>
  /\ ~ScheduleFence(Head(queue)) \/ LockHeld
  /\ worker' = "restore" /\ workerJob' = Head(queue)
  /\ queue' = Tail(queue)
  /\ UNCHANGED <<connVars, workerSession, rowVars, runVars, tickVars, ghostVars>>

\* restoreStaleScheduleClaim: give back the status that the tick had claimed.
RestoreStaleScheduleClaim(j) ==
  status' = IF /\ claim \in {None, j.claim}
               /\ ~enabled \/ revision # j.revision
               /\ status = "syncing"
               /\ ~LockHeld
            THEN j.prior ELSE status

WorkerRestores ==
  /\ worker = "restore"
  /\ RestoreStaleScheduleClaim(workerJob)
  /\ worker' = "idle" /\ workerJob' = None
  /\ UNCHANGED <<failures, lastReason, fenceVars, due, queue, workerSession, rowVars,
                 runVars, tickVars, ghostVars>>

WorkerDone ==
  /\ worker = "run" /\ run[workerSession] = "end"
  /\ worker' = "idle" /\ workerSession' = None
  /\ UNCHANGED <<connVars, queue, workerJob, rowVars, runVars, tickVars, ghostVars>>

Worker == (\E s \in Sessions : WorkerStarts(s)) \/ WorkerLocked \/ WorkerRestores
          \/ WorkerDone

RunGoto(s, from, to) ==
  /\ run[s] = from
  /\ run' = [run EXCEPT ![s] = to]
  /\ UNCHANGED <<fenceVars, due, queueVars, markVars, seen, tickVars>>

\* A crawl that failed, for a reason that is or is not a refused bank login.
RunFailed(s, from, a) ==
  /\ RunGoto(s, from, "count")
  /\ auth' = IF a THEN auth \cup {s} ELSE auth \ {s}

\* The gates of runCrawl.  A connection that is not recoverable ends the crawl
\* without bookkeeping; another gate, or the engine, may refuse it.
RunGate(s) ==
  /\ \/ status \notin Recoverable /\ RunGoto(s, "gate", "finish") /\ UNCHANGED auth
     \/ status \in Recoverable /\ RunGoto(s, "gate", "wait") /\ UNCHANGED auth
     \/ status \in Recoverable /\ RunFailed(s, "gate", FALSE)
  /\ UNCHANGED <<healthVars, row, promoted, ghostVars>>

\* waitForEngineOutcome.
RunObserve(s) ==
  /\ \/ row[s] = "failed" /\ RunFailed(s, "wait", s \in authFail)
     \/ row[s] = "cancelled" /\ RunFailed(s, "wait", FALSE)
     \/ row[s] = "completed" /\ RunGoto(s, "wait", "end") /\ UNCHANGED auth
     \/ row[s] = "ready" /\ RunGoto(s, "wait", "promote") /\ UNCHANGED auth
  /\ UNCHANGED <<healthVars, row, promoted, ghostVars>>

\* No outcome by the deadline: cancel, fence the engine, fail the session.
RunTimeout(s) ==
  /\ RunGoto(s, "wait", "fence")
  /\ Row!RequestCancel(s)
  /\ UNCHANGED <<healthVars, auth, ghostVars>>

RunFenced(s) ==
  /\ RunFailed(s, "fence", FALSE)
  /\ IF row[s] = "cancelling" THEN Row!Become(s, "cancelling", "failed")
     ELSE UNCHANGED <<row, promoted>>
  /\ UNCHANGED <<healthVars, ghostVars>>

RunFenceFails(s) ==
  /\ RunFailed(s, "fence", FALSE)
  /\ UNCHANGED <<healthVars, row, promoted, ghostVars>>

\* The deadline of a crawl that the operator is cancelling: fence it for him and
\* look again.
RunHelpsCancel(s) ==
  /\ row[s] = "cancelling"
  /\ \/ /\ RunGoto(s, "wait", "wait") /\ UNCHANGED auth
        /\ Row!Become(s, "cancelling", "cancelled")
     \/ RunFailed(s, "wait", FALSE) /\ UNCHANGED <<row, promoted>>
  /\ UNCHANGED <<healthVars, ghostVars>>

RunCount(s) ==
  /\ run[s] = "count"
  /\ run' = [run EXCEPT ![s] = "write"]
  /\ seen' = [seen EXCEPT ![s] = failures]
  /\ UNCHANGED <<connVars, queueVars, rowVars, auth, tickVars, ghostVars>>

RunWrite(s) ==
  /\ run[s] = "write"
  /\ run' = [run EXCEPT ![s] = "finish"]
  /\ ApplyCrawlFailure(seen[s], s \in auth)
  /\ Credit(s)
  /\ auth' = auth \ {s} /\ seen' = [seen EXCEPT ![s] = 0]
  /\ UNCHANGED <<fenceVars, due, queueVars, rowVars, tickVars>>

\* finishSession(false): a no-op on a row that is not active any more.
RunFinish(s) ==
  /\ RunGoto(s, "finish", "end")
  /\ IF row[s] = "active" THEN Row!Fail(s) ELSE UNCHANGED <<row, promoted>>
  /\ UNCHANGED <<healthVars, auth, ghostVars>>

\* storeCrawlResults and applyCrawlSuccess.  Storing again is a no-op, so a crash
\* between the two transactions is a crash before both.
RunPromote(s) ==
  /\ RunGoto(s, "promote", "complete")
  /\ Row!Promote(s)
  /\ ApplyCrawlSuccess
  /\ Credit(s)
  /\ UNCHANGED auth

RunComplete(s) ==
  /\ RunGoto(s, "complete", "end")
  /\ Row!Complete(s)
  /\ UNCHANGED <<healthVars, auth, ghostVars>>

RunCrawl(s) ==
  \/ RunGate(s) \/ RunObserve(s) \/ RunTimeout(s) \/ RunFenced(s)
  \/ RunFenceFails(s) \/ RunHelpsCancel(s) \/ RunCount(s) \/ RunWrite(s)
  \/ RunFinish(s) \/ RunPromote(s) \/ RunComplete(s)

\* The engine reports: a success leaves the row active, a failure is recorded
\* with its reason.
EngineReports(s) ==
  /\ run[s] \in {"wait", "end"}
  /\ s \notin lapsed
  /\ \/ Row!Extract(s) /\ UNCHANGED authFail
     \/ Row!Fail(s) /\ UNCHANGED authFail
     \/ Row!Fail(s) /\ authFail' = authFail \cup {s}
  /\ UNCHANGED <<connVars, queueVars, lapsed, runVars, tickVars, ghostVars>>

\* The operator cancels; the handler fences the engine and finalises the row,
\* unless it dies in between.
CancelSession(s) ==
  /\ "cancel" \in Events
  /\ Row!RequestCancel(s) \/ Row!Become(s, "cancelling", "cancelled")
  /\ UNCHANGED <<connVars, queueVars, markVars, runVars, tickVars, ghostVars>>

\* Time passes for a row nobody heartbeats: its engine has died, never got the
\* request, was fenced, or has finished with nobody left to promote.
LeaseLapses(s) ==
  /\ s \notin lapsed
  /\ \/ row[s] = "cancelling"
     \/ row[s] = "ready" /\ run[s] = "end"
     \/ row[s] = "active" /\ run[s] = "lost"
     \/ row[s] = "active" /\ run[s] \in {"wait", "end"} /\ "engineCrash" \in Events
  /\ lapsed' = lapsed \cup {s}
  /\ UNCHANGED <<connVars, queueVars, row, promoted, authFail, runVars, tickVars, ghostVars>>

-----------------------------------------------------------------------------
(* The owner.                                                              *)

\* updateConnection with a schedule field: the revision moves on, an unused
\* claim is revoked, and only a connection in normal rotation is re-timed.
EditSchedule(on) ==
  /\ revision < MaxEdits
  /\ enabled' = on /\ revision' = revision + 1 /\ claim' = None
  /\ due' = IF ~on THEN "absent"
            ELSE IF status \in Recoverable /\ failures <= MaxFailures THEN "next"
            ELSE IF due # "absent" THEN due ELSE "backoff"
  /\ revoked' = revoked \cup ({claim} \ {None})
  /\ UNCHANGED <<healthVars, queueVars, rowVars, runVars, tickVars, origin, credited, repaired>>

\* updateConnection with other fields, here the credentials: no other column
\* of the row changes.
UpdateCredentials ==
  /\ "credentialsUpdated" \in Events
  /\ status = "needs_reauth"
  /\ repaired' = TRUE
  /\ UNCHANGED <<connVars, queueVars, rowVars, runVars, tickVars, origin, revoked, credited>>

\* verifyLoginDomain, approved again.
VerifyLoginDomain ==
  /\ "domainVerified" \in Events
  /\ due' = IF enabled THEN "next" ELSE "absent"
  /\ UNCHANGED <<healthVars, fenceVars, queueVars, rowVars, runVars, tickVars, ghostVars>>

ClockReachesDue ==
  /\ due \in {"next", "backoff"}
  /\ due' = "due"
  /\ UNCHANGED <<healthVars, fenceVars, queueVars, rowVars, runVars, tickVars, ghostVars>>

-----------------------------------------------------------------------------
(* schedulerTick.                                                          *)

TickGoto(t, from, to) ==
  /\ tick[t] = from
  /\ tick' = [tick EXCEPT ![t] = to]
  /\ UNCHANGED <<queueVars, runVars, count, job>>

\* A select whose rows the following steps go through one by one.
TickSelect(t, from, to, S) ==
  /\ TickGoto(t, from, to)
  /\ todo' = [todo EXCEPT ![t] = S]

TickDone(t, s) == todo' = [todo EXCEPT ![t] = @ \ {s}]

\* reapStaleSessions.  The lock admits one active row, so at most one is reaped.
Stale == {s \in Sessions : row[s] = "active" /\ s \in lapsed}

TickReap(t) ==
  /\ TickSelect(t, "idle", IF Stale = {} THEN "jobs" ELSE "reapCount", Stale)
  /\ row' = [s \in Sessions |-> IF s \in Stale THEN "failed" ELSE row[s]]
  /\ UNCHANGED <<connVars, promoted, markVars, ghostVars>>

TickCount(t) ==
  /\ \/ tick[t] = "reapCount" /\ tick' = [tick EXCEPT ![t] = "reapWrite"]
     \/ /\ tick[t] = "replay" /\ \E s \in todo[t] : row[s] = "failed"
        /\ tick' = [tick EXCEPT ![t] = "replayWrite"]
  /\ count' = [count EXCEPT ![t] = failures]
  /\ UNCHANGED <<connVars, queueVars, rowVars, runVars, todo, job, ghostVars>>

\* One session of the list is credited as a failure, for the reason in its row;
\* a reaped row has none, 'instance_died' is used.
TickWrite(t) ==
  /\ \/ tick[t] = "reapWrite" /\ tick' = [tick EXCEPT ![t] = "jobs"]
     \/ tick[t] = "replayWrite" /\ tick' = [tick EXCEPT ![t] = "replay"]
  /\ \E s \in todo[t] :
       /\ row[s] = "failed"
       /\ ApplyCrawlFailure(count[t], s \in authFail)
       /\ Credit(s)
       /\ TickDone(t, s)
  /\ count' = [count EXCEPT ![t] = 0]
  /\ UNCHANGED <<fenceVars, due, queueVars, rowVars, runVars, job>>

\* reapStaleCrawlJobs: a cancelling session whose process is gone is released.
TickJobs(t) ==
  /\ TickGoto(t, "jobs", "recover")
  /\ row' = [s \in Sessions |-> IF row[s] = "cancelling" /\ s \in lapsed
                                THEN "cancelled" ELSE row[s]]
  /\ UNCHANGED <<connVars, promoted, markVars, todo, ghostVars>>

\* recoverStrandedCrawls, first select: every terminal session of a connection
\* that is 'syncing' while no session is active.
Stranded ==
  {s \in Sessions : /\ status = "syncing"
                    /\ row[s] \in {"completed", "failed"}
                    /\ \A a \in Sessions : row[a] \notin {"active", "ready"}}

TickRecover(t) ==
  /\ TickSelect(t, "recover", "replay", Stranded)
  /\ UNCHANGED <<connVars, rowVars, ghostVars>>

\* promoteStranded of a completed session: its occurrences are claimed already,
\* so only the bookkeeping takes effect.
TickReplaySuccess(t) ==
  /\ TickGoto(t, "replay", "replay")
  /\ \E s \in todo[t] : row[s] = "completed" /\ Credit(s) /\ TickDone(t, s)
  /\ ApplyCrawlSuccess
  /\ UNCHANGED <<fenceVars, due, rowVars>>

\* Its second select: a success nobody promoted.
Orphaned ==
  {s \in Sessions : status = "syncing" /\ row[s] = "ready" /\ s \in lapsed}

TickOrphans(t) ==
  /\ todo[t] = {}
  /\ TickSelect(t, "replay", "promote", Orphaned)
  /\ UNCHANGED <<connVars, rowVars, ghostVars>>

TickPromote(t) ==
  /\ TickGoto(t, "promote", "complete")
  /\ \E s \in todo[t] : promoted' = promoted \cup {s} /\ Credit(s)
  /\ ApplyCrawlSuccess
  /\ UNCHANGED <<fenceVars, due, row, markVars, todo>>

TickComplete(t) ==
  /\ TickGoto(t, "complete", "promote")
  /\ \E s \in todo[t] :
       /\ IF row[s] = "ready" THEN Row!Complete(s) ELSE UNCHANGED <<row, promoted>>
       /\ TickDone(t, s)
  /\ UNCHANGED <<connVars, markVars, ghostVars>>

\* sweepExpiredSessions.  Retention is days: whatever handled the session is
\* long gone, and no tick has left a due connection alone for that long.  The id
\* is free again, as a fresh one would be.
Expired(s) ==
  /\ row[s] \in Row!Finished \/ (row[s] \in Row!Holding /\ s \in lapsed /\ due # "due")
  /\ run[s] \in {"end", "lost"}
  /\ workerSession # s
  /\ \A t \in Ticks : s \notin todo[t]

\* The select of ensureDueRows follows.
TickSweep(t, S) ==
  /\ tick[t] = "promote" /\ todo[t] = {}
  /\ \A s \in S : Expired(s)
  /\ tick' = [tick EXCEPT ![t] = IF enabled THEN "insert" ELSE "decide"]
  /\ row' = [s \in Sessions |-> IF s \in S THEN "none" ELSE row[s]]
  /\ promoted' = promoted \ S /\ lapsed' = lapsed \ S /\ authFail' = authFail \ S
  /\ run' = [s \in Sessions |-> IF s \in S THEN "idle" ELSE run[s]]
  /\ origin' = [s \in Sessions |-> IF s \in S THEN None ELSE origin[s]]
  /\ credited' = credited \ S
  /\ UNCHANGED <<connVars, queueVars, auth, seen, todo, count, job, revoked, repaired>>

\* ensureDueRows: its insert, ON CONFLICT DO NOTHING.
TickInsert(t) ==
  /\ TickGoto(t, "insert", "decide")
  /\ due' = IF due = "absent" THEN "due" ELSE due
  /\ UNCHANGED <<healthVars, fenceVars, rowVars, todo, ghostVars>>

\* randomUUID: a token that nothing carries.
Fresh(c) ==
  /\ claim # c
  /\ workerJob # None => workerJob.claim # c
  /\ \A i \in 1..Len(queue) : queue[i].claim # c
  /\ \A t \in Ticks : job[t] # None => job[t].claim # c

\* The candidate list only says which connections to decide about.  The decision,
\* under the locks of the due row and of the connection, reads both again:
\* nothing is due (any more), the schedule was disabled, the connection is
\* stopped ...
DecideSkip(t) ==
  /\ due # "due"
  /\ TickGoto(t, "decide", "idle")
  /\ UNCHANGED <<connVars, rowVars, todo, ghostVars>>

DecideDisabled(t) ==
  /\ due = "due" /\ ~enabled
  /\ TickGoto(t, "decide", "idle")
  /\ due' = "absent"
  /\ UNCHANGED <<healthVars, fenceVars, rowVars, todo, ghostVars>>

Crawlable == status \in Recoverable    \* isRecoverable

WithinStreak == failures <= MaxFailures

\* Mutant: what the due select saw is not checked again under the lock.
ClaimableUnchecked == TRUE

Claimable == Crawlable /\ WithinStreak

DecideBackOff(t) ==
  /\ due = "due" /\ enabled
  /\ TickGoto(t, "decide", "idle")
  /\ due' = "backoff"
  /\ \/ ~Crawlable /\ UNCHANGED status
     \/ /\ Crawlable /\ ~WithinStreak
        /\ status' = IF lastReason = "bank_login_failed" THEN "needs_reauth" ELSE status
  /\ UNCHANGED <<failures, lastReason, fenceVars, rowVars, todo, ghostVars>>

\* ... or it is claimed: 'syncing', a new claim, and the next run.
DecideClaim(t) ==
  /\ due = "due" /\ enabled
  /\ Claimable
  /\ tick[t] = "decide"
  /\ tick' = [tick EXCEPT ![t] = "enqueue"]
  /\ \E c \in Tokens :
       /\ Fresh(c)
       /\ job' = [job EXCEPT ![t] = [claim |-> c, revision |-> revision, prior |-> status]]
       /\ claim' = c
       /\ origin' = [s \in Sessions |-> IF origin[s] = c THEN None ELSE origin[s]]
       /\ revoked' = revoked \ {c}
  /\ status' = "syncing"
  /\ due' = "next"
  /\ UNCHANGED <<failures, lastReason, enabled, revision, queueVars, rowVars, runVars,
                 todo, count, credited, repaired>>

\* boss.send.
TickEnqueue(t) ==
  /\ tick[t] = "enqueue"
  /\ tick' = [tick EXCEPT ![t] = "idle"] /\ job' = [job EXCEPT ![t] = None]
  /\ queue' = Append(queue, job[t])
  /\ UNCHANGED <<connVars, workerVars, rowVars, runVars, todo, count, ghostVars>>

\* It throws, and the job may have been stored all the same.
TickEnqueueFails(t) ==
  /\ "queueDown" \in Events
  /\ tick[t] = "enqueue"
  /\ tick' = [tick EXCEPT ![t] = "rollback"]
  /\ queue' = queue \/ queue' = Append(queue, job[t])
  /\ UNCHANGED <<connVars, workerVars, rowVars, runVars, todo, count, job, ghostVars>>

\* The rollback: only of the exact claim, or of one superseded by an edit, and
\* not when a crawl is under way.
ExactClaim(j) == revision = j.revision /\ claim = j.claim
SupersededByEdit(j) == claim = None /\ (revision # j.revision \/ ~enabled)
MayRollBack(j) == (ExactClaim(j) \/ SupersededByEdit(j)) /\ ~LockHeld

\* Mutant: the status is given back even if a crawl has moved it since.
RolledBackAlways(j) == IF MayRollBack(j) THEN j.prior ELSE status

RolledBack(j) == IF MayRollBack(j) /\ status = "syncing" THEN j.prior ELSE status

TickRollback(t) ==
  LET exact == MayRollBack(job[t]) /\ ExactClaim(job[t])
  IN  /\ tick[t] = "rollback"
      /\ tick' = [tick EXCEPT ![t] = "idle"] /\ job' = [job EXCEPT ![t] = None]
      /\ status' = RolledBack(job[t])
      /\ due' = IF exact /\ due = "next" THEN "due" ELSE due
      /\ claim' = IF exact THEN None ELSE claim
      /\ revoked' = IF exact THEN revoked \cup {claim} ELSE revoked
      /\ UNCHANGED <<failures, lastReason, enabled, revision, queueVars, rowVars, runVars,
                     todo, count, origin, credited, repaired>>

Tick(t) ==
  \/ TickReap(t) \/ TickCount(t) \/ TickWrite(t) \/ TickJobs(t) \/ TickRecover(t)
  \/ TickReplaySuccess(t) \/ TickOrphans(t) \/ TickPromote(t) \/ TickComplete(t)
  \/ (\E S \in SUBSET Sessions : TickSweep(t, S)) \/ TickInsert(t)
  \/ DecideSkip(t) \/ DecideDisabled(t) \/ DecideBackOff(t) \/ DecideClaim(t)
  \/ TickEnqueue(t) \/ TickEnqueueFails(t) \/ TickRollback(t)

\* The control-plane dies: runCrawl, the worker's job (retryLimit 0) and the
\* tick stop where they are.  A crawl that was not dispatched has no engine.
ControlPlaneCrash ==
  /\ "controlPlaneCrash" \in Events
  /\ run' = [s \in Sessions |->
               IF run[s] = "idle" THEN "idle"
               ELSE IF row[s] = "active" /\ run[s] \notin {"wait", "end"} THEN "lost"
               ELSE "end"]
  /\ auth' = {} /\ seen' = [s \in Sessions |-> 0]
  /\ tick' = [t \in Ticks |-> "idle"] /\ todo' = [t \in Ticks |-> {}]
  /\ count' = [t \in Ticks |-> 0] /\ job' = [t \in Ticks |-> None]
  /\ worker' = "idle" /\ workerJob' = None /\ workerSession' = None
  /\ UNCHANGED <<connVars, queue, rowVars, ghostVars>>

Next ==
  \/ \E s \in Sessions : ManualCrawl(s) \/ RunCrawl(s) \/ EngineReports(s)
                         \/ CancelSession(s) \/ LeaseLapses(s)
  \/ \E t \in Ticks : Tick(t)
  \/ \E on \in BOOLEAN : EditSchedule(on)
  \/ Worker \/ UpdateCredentials \/ VerifyLoginDomain \/ ClockReachesDue
  \/ ControlPlaneCrash

Spec == Init /\ [][Next]_vars

\* Fairness.  A live runCrawl takes its next step and its polls end at the
\* deadline; the engine's watchdog makes it report; the worker takes jobs; the
\* clock advances; pg-boss starts a tick every minute, and a row is eventually
\* past expires_at when one sweeps.  The control-plane is not restarted, the
\* queue not down, and a job not left waiting past the connection's next run,
\* for ever.  Nothing is promised of the owner.
Fairness ==
  /\ \A s \in Sessions :
       /\ WF_vars(RunCrawl(s)) /\ WF_vars(EngineReports(s)) /\ WF_vars(LeaseLapses(s))
  /\ \A t \in Ticks :
       /\ WF_vars(Tick(t))
       /\ SF_vars(TickSweep(t, {s \in Sessions : Expired(s)}))
  /\ WF_vars(Worker) /\ WF_vars(ClockReachesDue)
  /\ <>[][/\ ~ControlPlaneCrash
          /\ \A t \in Ticks : ~TickEnqueueFails(t)
          /\ ClockReachesDue => queue = <<>> /\ \A t \in Ticks : job[t] = None]_vars

FairSpec == Spec /\ Fairness

-----------------------------------------------------------------------------
(* Properties.                                                             *)

\* A claim that was rolled back (its occurrence is due again), or withdrawn by a
\* schedule edit, never starts a crawl: not even when the send that failed had
\* stored the job, or the job was in the queue before the edit.
RevokedNeverRuns == \A s \in Sessions : origin[s] \notin revoked

\* The owner is asked for new credentials only after more than MaxFailures
\* failures in a row of which the last was a refused bank login.
ReauthJustified ==
  status = "needs_reauth" => failures > MaxFailures /\ lastReason = "bank_login_failed"

\* A connection past the threshold is never 'syncing': the decision would back
\* it off and leave it 'syncing' with no crawl on its way.
SyncingWithinStreak == status = "syncing" => failures <= MaxFailures

\* A connection that waits for its owner is never put back into rotation by the
\* scheduler: not by a claim, not by a rollback, not by a stale job.
ReauthNeverSyncs ==
  [][status = "needs_reauth" => status' # "syncing"]_vars

\* Until the schedule is edited, a connection that reads healthy has no
\* failure streak: a rollback or a stale job never restores a status older
\* than a failure counted since.
HealthyHasNoStreak ==
  revision = 0 /\ status \in {"connected", "connecting"} => failures = 0

\* 'syncing' is never a dead end while the schedule stands.
SyncingResolved == status = "syncing" ~> status # "syncing"

\* Said of the first select of recoverStrandedCrawls: "Only a connection that
\* is 'syncing' with NO active session is genuinely stranded (the bookkeeping
\* that would have cleared 'syncing' never ran)" - so what it replays has not
\* been credited before.
\* TLC refutes this: see "Known disagreements" in the README.
StrandedUncredited ==
  \A t \in Ticks, s \in Sessions :
    tick[t] = "replay" /\ s \in todo[t] => s \notin credited

\* Said of the recovery sweeper: it is "the durable backstop for an interruption
\* AFTER the engine staged its extraction but BEFORE runCrawl folded the outcome
\* into the connection's bookkeeping" - so finished work is always promoted.
\* TLC refutes this: see "Known disagreements" in the README.
SuccessPromoted ==
  \A s \in Sessions : row[s] = "ready" ~> row[s] = "completed"

\* Said of 'needs_reauth': "point them at their Accrawl console - that is where
\* it gets fixed" - so saving new credentials ends it.
\* TLC refutes this: see "Known disagreements" in the README.
ReauthFixable == (status = "needs_reauth" /\ repaired) ~> status # "needs_reauth"

\* The health the owner is shown agrees with the streak behind it: asked for
\* credentials only after refused logins, 'syncing' only within the threshold,
\* healthy only without a streak.
HealthIsHonest == ReauthJustified /\ SyncingWithinStreak /\ HealthyHasNoStreak
=============================================================================
