--------------------------- MODULE CrawlSession ------------------------------
(***************************************************************************)
(* The crawl sessions of ONE bank connection in the self-hosted            *)
(* (PLATFORM=postgres, HTTP dispatch) deployment: the control-plane's      *)
(* runCrawl, cancellation, device revocation, the crawl engine and the     *)
(* passes of schedulerTick that write session rows, all of them racing on  *)
(* the same PostgreSQL row.  No code path reads the sessions of two        *)
(* connections together, so one connection is enough.                      *)
(*                                                                         *)
(* The connection row and its failure bookkeeping are left to module       *)
(* CrawlScheduler: here runCrawl's gates may accept or refuse, and the     *)
(* connection may or may not be 'syncing' when the orphan sweep looks.     *)
(* The five ACTIVE_SESSION_STATUSES (starting ... extracting) are one      *)
(* value, "active": no guard of these operations tells them apart.         *)
(***************************************************************************)

CONSTANTS Sessions,  \* the session ids that may be created
          Faults     \* the faults and rare events this instance is exposed to

\* ackLost: the engine took the request but its answer did not come in time.
\* dbError: a query throws.  closeFails: a browser context cannot be closed.
\* reapRace: the reaper's UPDATE waits for the engine's completion transaction.
\* deviceRevoked: the phone whose network the crawl uses is revoked.
AllFaults == {"ackLost", "dbError", "closeFails", "engineCrash",
              "controlPlaneCrash", "reapRace", "deviceRevoked"}

ASSUME FaultsAssumption == Faults \subseteq AllFaults

VARIABLES
  status,      \* sessions.status; "none" before the insert, "purged" after the delete
  done,        \* the session's 'done' event: "none", "success" or "failure"
  staged,      \* sessions with staged_records
  lease,       \* "held", "lapsed" (lease_expires_at is past), "stale" (and so is the heartbeat)
  promoted,    \* sessions whose extraction is in the canonical tables
  run,         \* where runCrawl is, for each session
  cancel,      \* where cancelSession is, for each session
  tick, todo,  \* where schedulerTick is, and the rows its orphan select returned
  wire,        \* the POST /crawl of each session
  exec,        \* the engine's execution of each session
  fenced       \* fencedExecutions: the engine's tombstones

rowVars    == <<status, done, staged>>
tickVars   == <<tick, todo>>
engineVars == <<wire, exec, fenced>>
vars == <<rowVars, lease, promoted, run, cancel, tickVars, engineVars>>

Terminal == {"completed", "failed", "cancelled"}
Locked == {"active", "cancelling"}          \* LOCKED_SESSION_STATUSES

LockHeld == \E s \in Sessions : status[s] \in Locked

\* The steps of runCrawl's try block.  "close" is its catch block, where another
\* exception rejects the call.  applyCrawlSuccess and applyCrawlFailure, which
\* come before finishSession, write the connection row only: what they can do
\* here is throw.
InTry == {"gate", "dispatch", "await", "deadline", "fence", "help",
          "recheck", "promote", "complete", "finish"}
RunSteps == InTry \cup {"idle", "close", "end"}
ExecSteps == {"idle", "preflight", "running", "closing", "completing",
              "leaked", "over"}
TickSteps == {"reap", "jobs", "orphans", "promote", "complete"}

TypeOK ==
  /\ status \in [Sessions -> Locked \cup Terminal \cup {"none", "purged"}]
  /\ done \in [Sessions -> {"none", "success", "failure"}]
  /\ staged \in SUBSET Sessions
  /\ lease \in [Sessions -> {"held", "lapsed", "stale"}]
  /\ promoted \in SUBSET Sessions
  /\ run \in [Sessions -> RunSteps]
  /\ cancel \in [Sessions -> {"idle", "fence"}]
  /\ tick \in TickSteps
  /\ todo \in SUBSET Sessions
  /\ wire \in [Sessions -> {"none", "sent", "accepted", "refused"}]
  /\ exec \in [Sessions -> ExecSteps]
  /\ fenced \in SUBSET Sessions

Init ==
  /\ status = [s \in Sessions |-> "none"]
  /\ done = [s \in Sessions |-> "none"]
  /\ staged = {}
  /\ lease = [s \in Sessions |-> "held"]
  /\ promoted = {}
  /\ run = [s \in Sessions |-> "idle"]
  /\ cancel = [s \in Sessions |-> "idle"]
  /\ tick = "reap" /\ todo = {}
  /\ wire = [s \in Sessions |-> "none"]
  /\ exec = [s \in Sessions |-> "idle"]
  /\ fenced = {}

-----------------------------------------------------------------------------
(* Data-layer operations: each one is a single transaction.                *)

\* Mutant: the unique index covers the ACTIVE statuses only, not 'cancelling'.
CreateCrawlSessionActiveOnly(s) ==
  /\ status[s] = "none"
  /\ \A t \in Sessions : status[t] # "active"
  /\ status' = [status EXCEPT ![s] = "active"]
  /\ UNCHANGED <<done, staged>>

\* createCrawlSession: the insert IS the lock (sessions_active_connection_uq).
CreateCrawlSession(s) ==
  /\ status[s] = "none"
  /\ ~LockHeld
  /\ status' = [status EXCEPT ![s] = "active"]
  /\ UNCHANGED <<done, staged>>

\* markSessionTerminal and every other guarded status update: a no-op unless
\* the row is still in one of the statuses of its WHERE clause.
Move(s, from, to) ==
  /\ status' = IF status[s] = from THEN [status EXCEPT ![s] = to] ELSE status
  /\ UNCHANGED <<done, staged>>

\* Mutant: a value that is not in the session_status enum.
MarkSessionTerminalSuccess(s, success) ==
  Move(s, "active", IF success THEN "success" ELSE "failed")

MarkSessionTerminal(s, success) ==
  Move(s, "active", IF success THEN "completed" ELSE "failed")
FinalizeSessionCancellation(s) == Move(s, "cancelling", "cancelled")
FinalizeSessionFailureAfterFence(s) == Move(s, "cancelling", "failed")

\* Mutant: the cancellation does not look for a successful 'done' event.
MayCancelAnyActive(s) == status[s] = "active"

\* requestSessionCancellation: completion that committed first wins.
MayCancel(s) == status[s] = "active" /\ done[s] # "success"

\* storeCrawlResults: replaying it is a no-op, every occurrence is claimed once.
StoreCrawlResults(s) == promoted' = promoted \cup (staged \cap {s})

-----------------------------------------------------------------------------
(* runCrawl in the control-plane.                                          *)

RunGoto(s, step) == run' = [run EXCEPT ![s] = step]

\* runCrawl, called by POST /api/connections/:id/crawl or by the crawl queue's
\* worker.  A held lock returns 'locked' and changes nothing.
RunStart(s) ==
  /\ run[s] = "idle"
  /\ CreateCrawlSession(s)
  /\ RunGoto(s, "gate")
  /\ UNCHANGED <<lease, promoted, cancel, tickVars, engineVars>>

\* The gates, from the live connection status to the device binding, and the
\* dispatch.
RunGate(s) ==
  /\ run[s] = "gate"
  /\ \/ RunGoto(s, "finish") /\ UNCHANGED wire
     \/ RunGoto(s, "dispatch") /\ wire' = [wire EXCEPT ![s] = "sent"]
  /\ UNCHANGED <<rowVars, lease, promoted, cancel, tickVars, exec, fenced>>

RunStep(s, from, to) ==
  /\ run[s] = from
  /\ RunGoto(s, to)
  /\ UNCHANGED <<lease, cancel, tickVars, engineVars>>

\* dispatchCrawl resolved: the ACK arrived, or a refusal did, or none came
\* within ACK_TIMEOUT_MS - which is reported exactly like a refusal.
RunAck(s) ==
  /\ wire[s] = "accepted"
  /\ RunStep(s, "dispatch", "await")
  /\ UNCHANGED <<rowVars, promoted>>

RunNack(s) ==
  /\ wire[s] = "refused" \/ "ackLost" \in Faults
  /\ RunStep(s, "dispatch", "finish")
  /\ UNCHANGED <<rowVars, promoted>>

\* waitForEngineOutcome: what one poll returns, "none" while it keeps waiting.
Outcome(s) ==
  IF status[s] \in Terminal THEN status[s]
  ELSE IF status[s] = "active" /\ done[s] = "success" THEN "promotable"
  ELSE "none"

RunObserve(s) ==
  \E from \in {"await", "recheck"} :
    /\ \/ Outcome(s) \in {"failed", "cancelled"} /\ RunStep(s, from, "finish")
       \/ Outcome(s) = "completed" /\ RunStep(s, from, "end")
       \/ Outcome(s) = "promotable" /\ RunStep(s, from, "promote")
    /\ UNCHANGED <<rowVars, promoted>>

\* The completion deadline passed without an outcome ...
RunDeadline(s) ==
  /\ Outcome(s) = "none"
  /\ RunStep(s, "await", "deadline")
  /\ UNCHANGED <<rowVars, promoted>>

\* ... so the row is locked for cancellation, by us or by the operator before
\* us; a completion that slipped in is read again instead.
RunCancelTimedOut(s) ==
  /\ \/ MayCancel(s) /\ RunStep(s, "deadline", "fence")
     \/ status[s] = "cancelling" /\ RunStep(s, "deadline", "help")
     \/ /\ status[s] # "cancelling" /\ ~MayCancel(s)
        /\ RunStep(s, "deadline", "recheck")
  /\ status' = IF MayCancel(s) THEN [status EXCEPT ![s] = "cancelling"] ELSE status
  /\ UNCHANGED <<done, staged, promoted>>

\* Mutant: the engine answers without awaiting the aborted execution.
FenceNotAwaited(s) == s \in fenced

\* POST /cancel/:sessionId answered 200: the tombstone is recorded and no
\* execution of the session is left.
FenceAcknowledged(s) == s \in fenced /\ exec[s] \in {"idle", "over"}

RunFenced(s) ==
  /\ FenceAcknowledged(s)
  /\ \/ RunStep(s, "fence", "finish") /\ FinalizeSessionFailureAfterFence(s)
     \/ RunStep(s, "help", "recheck") /\ FinalizeSessionCancellation(s)
  /\ UNCHANGED promoted

\* The fence was refused or timed out: the catch block runs, and its
\* markSessionTerminal leaves a cancelling row, and so the lock, alone.
RunFenceFails(s) ==
  /\ \E from \in {"fence", "help"} : RunStep(s, from, "close")
  /\ UNCHANGED <<rowVars, promoted>>

\* Any other exception.
RunThrows(s) ==
  /\ "dbError" \in Faults
  /\ \/ \E from \in InTry : RunStep(s, from, "close")
     \/ RunStep(s, "close", "end")
  /\ UNCHANGED <<rowVars, promoted>>

\* finishSession(false).
RunFinish(s) ==
  /\ \E from \in {"finish", "close"} : RunStep(s, from, "end")
  /\ MarkSessionTerminal(s, FALSE)
  /\ UNCHANGED promoted

RunPromote(s) ==
  /\ RunStep(s, "promote", "complete")
  /\ StoreCrawlResults(s)
  /\ UNCHANGED rowVars

\* finishSession(true): the only place, with the orphan sweep, that publishes
\* 'completed'.
RunComplete(s) ==
  /\ RunStep(s, "complete", "end")
  /\ MarkSessionTerminal(s, TRUE)
  /\ UNCHANGED promoted

RunCrawl(s) ==
  \/ RunStart(s) \/ RunGate(s) \/ RunAck(s) \/ RunNack(s) \/ RunObserve(s)
  \/ RunDeadline(s) \/ RunCancelTimedOut(s) \/ RunFenced(s) \/ RunFenceFails(s)
  \/ RunThrows(s) \/ RunFinish(s) \/ RunPromote(s) \/ RunComplete(s)

-----------------------------------------------------------------------------
(* cancelSession.  It may be asked for again after a failed fence: a row   *)
(* already 'cancelling' goes straight to the engine.                       *)

CancelRequest(s) ==
  /\ cancel[s] = "idle"
  /\ MayCancel(s) \/ status[s] = "cancelling"
  /\ status' = [status EXCEPT ![s] = "cancelling"]
  /\ cancel' = [cancel EXCEPT ![s] = "fence"]
  /\ UNCHANGED <<done, staged, lease, promoted, run,
                 tickVars, engineVars>>

CancelFenced(s) ==
  /\ cancel[s] = "fence"
  /\ FenceAcknowledged(s)
  /\ FinalizeSessionCancellation(s)
  /\ cancel' = [cancel EXCEPT ![s] = "idle"]
  /\ UNCHANGED <<lease, promoted, run, tickVars, engineVars>>

CancelFenceFails(s) ==
  /\ cancel[s] = "fence"
  /\ cancel' = [cancel EXCEPT ![s] = "idle"]
  /\ UNCHANGED <<rowVars, lease, promoted, run, tickVars,
                 engineVars>>

\* revokeDeviceAccess moves every active session bound to the phone, then
\* fenceRevokedDeviceCrawls cancels each one.
RevokeDevice(s) ==
  /\ "deviceRevoked" \in Faults
  /\ cancel[s] = "idle"
  /\ status[s] = "active"
  /\ status' = [status EXCEPT ![s] = "cancelling"]
  /\ cancel' = [cancel EXCEPT ![s] = "fence"]
  /\ UNCHANGED <<done, staged, lease, promoted, run, tickVars, engineVars>>

CancelSession(s) ==
  CancelRequest(s) \/ CancelFenced(s) \/ CancelFenceFails(s) \/ RevokeDevice(s)

-----------------------------------------------------------------------------
(* The engine.                                                             *)

controlVars == <<lease, promoted, run, cancel, tickVars>>

EngineGoto(s, from, to) ==
  /\ exec[s] = from
  /\ exec' = [exec EXCEPT ![s] = to]
  /\ UNCHANGED controlVars

\* POST /crawl: ACK 202 and run in the background; a tombstone of an earlier
\* cancellation ends the execution before it starts.
EngineAccept(s) ==
  /\ wire[s] = "sent"
  /\ wire' = [wire EXCEPT ![s] = "accepted"]
  /\ EngineGoto(s, "idle", IF s \in fenced THEN "over" ELSE "preflight")
  /\ UNCHANGED <<rowVars, fenced>>

EngineRefuse(s) ==
  /\ wire[s] = "sent"
  /\ wire' = [wire EXCEPT ![s] = "refused"]
  /\ UNCHANGED <<rowVars, exec, fenced, controlVars>>

\* assertSessionActive before any browser context is allocated.
EnginePreflight(s) ==
  /\ EngineGoto(s, "preflight",
                IF status[s] = "active" /\ s \notin fenced
                THEN "running" ELSE "completing")
  /\ UNCHANGED <<rowVars, wire, fenced>>

\* The agent loop ends: by itself, by the watchdog, by an abort, or because
\* updateStatus found the row no longer active.
EngineLoopEnds(s) ==
  /\ EngineGoto(s, "running", "closing")
  /\ UNCHANGED <<rowVars, wire, fenced>>

EngineClose(s) ==
  /\ EngineGoto(s, "closing", "completing")
  /\ UNCHANGED <<rowVars, wire, fenced>>

\* CrawlCleanupError: no terminal write; the context stays registered.
EngineCloseFails(s) ==
  /\ "closeFails" \in Faults
  /\ EngineGoto(s, "closing", "leaked")
  /\ UNCHANGED <<rowVars, wire, fenced>>

\* Mutant: the engine publishes 'completed' itself.
CompleteSuccessPublishes(s) ==
  /\ status[s] = "active"
  /\ done' = [done EXCEPT ![s] = "success"]
  /\ staged' = staged \cup {s}
  /\ status' = [status EXCEPT ![s] = "completed"]

\* completeSession, one transaction under the row lock: a success only stages
\* and signals, a failure flips the status, a cancelled row keeps its outcome
\* and a row made terminal by someone else rejects the write.
CompleteSuccess(s) ==
  /\ status[s] = "active"
  /\ done' = [done EXCEPT ![s] = "success"]
  /\ staged' = staged \cup {s}
  /\ UNCHANGED status

CompleteFailure(s) ==
  /\ status[s] = "active"
  /\ status' = [status EXCEPT ![s] = "failed"]
  /\ done' = [done EXCEPT ![s] = "failure"]
  /\ staged' = staged \cup {s}

\* Mutant: a late result of a cancelled crawl is staged all the same.
CompleteCancelledStages(s) ==
  /\ status[s] \in {"cancelling", "cancelled"}
  /\ done' = [done EXCEPT ![s] = "failure"]
  /\ staged' = staged \cup {s}
  /\ UNCHANGED status

CompleteCancelled(s) ==
  /\ status[s] \in {"cancelling", "cancelled"}
  /\ done' = [done EXCEPT ![s] = "failure"]
  /\ UNCHANGED <<status, staged>>

CompleteRejected(s) ==
  /\ status[s] \in {"failed", "completed", "purged"}
  /\ UNCHANGED rowVars

EngineComplete(s) ==
  /\ EngineGoto(s, "completing", "over")
  /\ CompleteSuccess(s) \/ CompleteFailure(s) \/ CompleteCancelled(s)
     \/ CompleteRejected(s)
  /\ UNCHANGED <<wire, fenced>>

\* The write itself fails: the execution is over and nothing was recorded.
EngineCompleteThrows(s) ==
  /\ "dbError" \in Faults
  /\ EngineGoto(s, "completing", "over")
  /\ UNCHANGED <<rowVars, wire, fenced>>

\* POST /cancel/:sessionId arrives: tombstone first, then teardown.  A live
\* execution tears itself down; the close of a leaked context is retried.
EngineFence(s) ==
  /\ cancel[s] = "fence" \/ run[s] \in {"fence", "help"}
  /\ fenced' = fenced \cup {s}
  /\ \/ exec[s] = "leaked" /\ exec' = [exec EXCEPT ![s] = "over"]
     \/ exec[s] = "leaked" /\ "closeFails" \in Faults /\ UNCHANGED exec
     \/ exec[s] # "leaked" /\ UNCHANGED exec
  /\ UNCHANGED <<rowVars, wire, controlVars>>

\* A container restart: browsers, executions and tombstones are gone.
EngineCrash ==
  /\ "engineCrash" \in Faults
  /\ exec' = [s \in Sessions |-> IF exec[s] = "idle" THEN "idle" ELSE "over"]
  /\ fenced' = {}
  /\ UNCHANGED <<rowVars, wire, controlVars>>

Engine(s) ==
  \/ EngineAccept(s) \/ EngineRefuse(s) \/ EnginePreflight(s) \/ EngineLoopEnds(s)
  \/ EngineClose(s) \/ EngineCloseFails(s) \/ EngineComplete(s)
  \/ EngineCompleteThrows(s) \/ EngineFence(s)

-----------------------------------------------------------------------------
(* Time.                                                                   *)

\* The lease (CRAWL_EXPIRE_SECONDS) outlives dispatch and the watchdog
\* (MAX_CRAWL_SECONDS + WATCHDOG_GRACE_MS), so it passes only when neither is
\* under way any more.  No heartbeat follows then, and the last one grows older
\* than DEFAULT_STALE_SESSION_MS; while the lease is held nobody reads it.
LeaseLapses(s) ==
  /\ status[s] \in Locked
  /\ run[s] \notin {"gate", "dispatch"}
  /\ wire[s] # "sent"
  /\ exec[s] \notin {"preflight", "running"}
  /\ \/ lease[s] = "held" /\ lease' = [lease EXCEPT ![s] = "lapsed"]
     \/ lease[s] = "lapsed" /\ lease' = [lease EXCEPT ![s] = "stale"]
  /\ UNCHANGED <<rowVars, promoted, run, cancel, tickVars, engineVars>>

-----------------------------------------------------------------------------
(* schedulerTick: its passes run in this order, each against live rows; a  *)
(* select and the updates it leads to are separate steps.                  *)

TickGoto(from, to) ==
  /\ tick = from
  /\ tick' = to
  /\ UNCHANGED <<lease, run, cancel, wire, fenced>>

\* Mutant: the reaper does not exclude rows with a 'done' event.
ReapableDone(s) == status[s] = "active" /\ lease[s] = "stale"

\* reapStaleSessions: a row with a 'done' event is finished, never crashed.
Reapable(s) == status[s] = "active" /\ lease[s] = "stale" /\ done[s] = "none"

TickReap ==
  /\ TickGoto("reap", "jobs")
  /\ status' = [s \in Sessions |-> IF Reapable(s) THEN "failed" ELSE status[s]]
  /\ UNCHANGED <<done, staged, promoted, todo, exec>>

\* The same UPDATE, blocked on the row lock of the engine's completion: after
\* that commit READ COMMITTED reads the row again, but the NOT EXISTS over
\* session_events keeps the snapshot of the start of the statement.
TickReapRaces(s) ==
  /\ "reapRace" \in Faults
  /\ TickGoto("reap", "jobs")
  /\ Reapable(s)
  /\ exec[s] = "completing"
  /\ exec' = [exec EXCEPT ![s] = "over"]
  /\ status' = [status EXCEPT ![s] = "failed"]
  /\ done' = [done EXCEPT ![s] = "success"]
  /\ staged' = staged \cup {s}
  /\ UNCHANGED <<promoted, todo>>

\* reapStaleCrawlJobs on the HTTP path, which has no job rows: a cancelling
\* session is released once heartbeat and lease both say its process is gone.
TickJobs ==
  /\ TickGoto("jobs", "orphans")
  /\ status' = [s \in Sessions |->
                  IF status[s] = "cancelling" /\ lease[s] = "stale"
                  THEN "cancelled" ELSE status[s]]
  /\ UNCHANGED <<done, staged, promoted, todo, exec>>

\* recoverStrandedCrawls, second select: finished work nobody promoted.  (Its
\* first select replays terminal sessions, whose data is promoted already.)
Orphaned(s) ==
  /\ status[s] = "active"
  /\ lease[s] # "held"
  /\ done[s] = "success"

TickOrphans ==
  /\ TickGoto("orphans", "promote")
  /\ \E syncing \in BOOLEAN :
       todo' = {s \in Sessions : syncing /\ Orphaned(s)}
  /\ UNCHANGED <<rowVars, promoted, exec>>

\* promoteStranded, then markSessionTerminal(true).
TickPromote ==
  /\ todo # {}
  /\ TickGoto("promote", "complete")
  /\ \E s \in todo : StoreCrawlResults(s)
  /\ UNCHANGED <<rowVars, todo, exec>>

TickComplete ==
  /\ TickGoto("complete", "promote")
  /\ \E s \in todo : MarkSessionTerminal(s, TRUE) /\ todo' = todo \ {s}
  /\ UNCHANGED <<promoted, exec>>

\* Mutant: the retention sweep spares rows that still look active.
ExpiredTerminal(s) ==
  /\ status[s] \in Terminal
  /\ run[s] = "end" /\ cancel[s] = "idle"
  /\ exec[s] \in {"idle", "leaked", "over"} /\ wire[s] # "sent"

\* sweepExpiredSessions: rows past expires_at go, with events and staged
\* records.  Retention is days, so the session's processes are long gone.
Expired(s) ==
  /\ \/ status[s] \in Terminal
     \/ status[s] \in Locked /\ lease[s] = "stale"
  /\ run[s] = "end" /\ cancel[s] = "idle"
  /\ exec[s] \in {"idle", "leaked", "over"} /\ wire[s] # "sent"

TickSweep(S) ==
  /\ todo = {}
  /\ TickGoto("promote", "reap")
  /\ \A s \in S : Expired(s)
  /\ status' = [s \in Sessions |-> IF s \in S THEN "purged" ELSE status[s]]
  /\ done' = [s \in Sessions |-> IF s \in S THEN "none" ELSE done[s]]
  /\ staged' = staged \ S
  /\ UNCHANGED <<promoted, todo, exec>>

\* A query of the tick throws: the next tick starts over.
TickThrows ==
  /\ "dbError" \in Faults
  /\ tick' = "reap" /\ todo' = {}
  /\ UNCHANGED <<rowVars, lease, promoted, run, cancel, engineVars>>

Tick ==
  \/ TickReap \/ (\E s \in Sessions : TickReapRaces(s)) \/ TickJobs
  \/ TickOrphans \/ TickPromote \/ TickComplete
  \/ \E S \in SUBSET Sessions : TickSweep(S)

\* The control-plane process dies: runCrawl, cancelSession and the tick stop
\* where they are; requests already on the wire still reach the engine.
ControlPlaneCrash ==
  /\ "controlPlaneCrash" \in Faults
  /\ run' = [s \in Sessions |-> IF run[s] = "idle" THEN "idle" ELSE "end"]
  /\ cancel' = [s \in Sessions |-> "idle"]
  /\ tick' = "reap" /\ todo' = {}
  /\ UNCHANGED <<rowVars, lease, promoted, engineVars>>

-----------------------------------------------------------------------------

Next ==
  \/ \E s \in Sessions :
       RunCrawl(s) \/ CancelSession(s) \/ Engine(s) \/ LeaseLapses(s)
  \/ Tick \/ TickThrows \/ EngineCrash \/ ControlPlaneCrash

Spec == Init /\ [][Next]_vars

\* Fairness.  A process that is not dead takes its next step: runCrawl (its
\* polls end at the deadline), cancelSession (its fence call times out), the
\* engine (the watchdog ends the agent loop, the network delivers or refuses)
\* and pg-boss's every-minute tick.  Crashes and failing queries do not stop
\* every tick at the same pass, so the passes are strongly fair.  Clocks
\* advance, and a row is eventually past expires_at when a tick sweeps.
\* Nothing is promised of the operator, of new crawls or of faults.
Fairness ==
  /\ \A s \in Sessions :
       /\ WF_vars(RunGate(s) \/ RunAck(s) \/ RunNack(s) \/ RunObserve(s)
                  \/ RunDeadline(s) \/ RunCancelTimedOut(s) \/ RunFenced(s)
                  \/ RunFenceFails(s) \/ RunFinish(s) \/ RunPromote(s)
                  \/ RunComplete(s))
       /\ WF_vars(CancelFenced(s) \/ CancelFenceFails(s))
       /\ WF_vars(EngineAccept(s) \/ EngineRefuse(s))
       /\ WF_vars(EnginePreflight(s) \/ EngineLoopEnds(s) \/ EngineClose(s)
                  \/ EngineCloseFails(s) \/ EngineComplete(s))
       /\ WF_vars(LeaseLapses(s))
       /\ SF_vars(\E S \in SUBSET Sessions : s \in S /\ TickSweep(S))
  /\ SF_vars(TickReap) /\ SF_vars(TickJobs) /\ SF_vars(TickOrphans)
  /\ SF_vars(TickPromote) /\ SF_vars(TickComplete)
  /\ SF_vars(\E S \in SUBSET Sessions : TickSweep(S))

FairSpec == Spec /\ Fairness

-----------------------------------------------------------------------------
(* Properties.                                                             *)

\* Two executions never drive two bank logins of the connection at once.
OneBankLogin ==
  \A s, t \in Sessions : exec[s] = "running" /\ exec[t] = "running" => s = t

\* A browser driven by the agent loop always holds the connection's lock:
\* nothing releases it (deadline, cancellation, reaper, sweep, restart) before
\* the execution is over.
DrivenBrowserHoldsLock ==
  \A s \in Sessions : exec[s] = "running" => status[s] \in Locked

\* An observable 'completed' means that the data is already in the canonical
\* tables, whoever wrote it (runCrawl or the orphan sweep).
CompletedMeansPromoted ==
  \A s \in Sessions : status[s] = "completed" => s \in promoted

\* Once a cancellation owns the row, no result of that crawl is ever staged
\* for promotion or promoted.
CancelledNeverPromoted ==
  \A s \in Sessions :
    status[s] \in {"cancelling", "cancelled"} => s \notin staged \cup promoted

\* Finished work is never recorded as a failure, by the reaper or by runCrawl,
\* and a failed session contributed nothing to the canonical tables.
FailedHasNoSuccess ==
  \A s \in Sessions :
    status[s] = "failed" => done[s] # "success" /\ s \notin promoted

\* A recorded outcome is final: late completions, cancellations, reapers and
\* second finishers leave it as it is.
OutcomeKept ==
  \A s \in Sessions :
    status[s] \in Terminal => status'[s] \in {status[s], "purged"}

OutcomeIsFinal == [][OutcomeKept]_vars

\* What the rows show of all this is the contract of SessionRow: an active row
\* whose success is staged is "ready".
rowView ==
  [s \in Sessions |->
     IF status[s] = "active" /\ done[s] = "success" THEN "ready" ELSE status[s]]

Row == INSTANCE SessionRow WITH row <- rowView

\* Every race of runCrawl, cancellation, engine and tick, through crashes and
\* failed fences, is a behaviour of that contract.
KeepsRowContract == Row!Spec

\* The connection's lock is never held forever, whatever dies.
LockReleased ==
  \A s \in Sessions : status[s] \in Locked ~> status[s] \notin Locked
=============================================================================
