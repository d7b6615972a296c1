----------------------------- MODULE JobWorker -----------------------------
(***************************************************************************)
(* job-worker.ts, for one durable crawl job: the pods a Kubernetes Job may *)
(* start for it (rarely more than one), the irreversible claim, the local  *)
(* ownership monitor that mirrors the lease, the fence, and the job        *)
(* functions and the reaper of the database.                               *)
(*                                                                         *)
(* A call to the database is three moments: sent, executed, answered.      *)
(* Timers are punctual: the clock does not pass a deadline that is due.    *)
(***************************************************************************)
EXTENDS Naturals

CONSTANTS Pods,
          Lease,      \* LEASE_SECONDS
          Grace,      \* SELF_FENCE_GRACE_MS, in the same unit
          MaxTime,    \* bound: the clock
          NoPod

ASSUME LeaseAssumption ==
  Lease \in Nat /\ Grace \in Nat /\ 0 < Grace /\ Grace < Lease /\ MaxTime \in Nat /\ NoPod \notin Pods

VARIABLES
  jNow,   \* the clock
  jJob,   \* the crawl_jobs row
  jSess,  \* the session's status
  jPod,   \* each pod's process
  jBeat   \* each pod's heartbeat call

jobVars == <<jNow, jJob, jSess, jPod, jBeat>>

Terminal == {"succeeded", "failed", "cancelled"}
\* "fencing": the monitor has stopped and fences a crawl; "closing": it fences
\* while the finish query is under way; "finishing" and "retrying": the catch
\* block, without and with the monitor.
PodSteps == {"idle", "claiming", "claimed", "lost", "work", "fencing", "finish", "closing", "finishing",
             "retrying", "observing", "exit", "terminated"}

JobTypeOK ==
  /\ jNow \in 0..MaxTime
  /\ jJob \in [status : {"starting", "running", "cancel_requested"} \cup Terminal,
               owner : Pods \cup {NoPod}, expires : 0..(MaxTime + Lease), by : {"none", "worker", "reaper"}]
  /\ jSess \in {"active", "cancelling", "completed", "failed", "cancelled"}
  /\ jPod \in [Pods -> [pc : PodSteps, confirmed : 0..MaxTime, browser : {"open", "closed"}, result : {"ok", "failed"},
                        code : 0..1]]
  /\ jBeat \in [Pods -> [st : {"none", "sent", "running", "revoked"}, at : 0..MaxTime]]

JobInit ==
  /\ jNow = 0
  /\ jJob = [status |-> "starting", owner |-> NoPod, expires |-> 0, by |-> "none"]
  /\ jSess = "active"
  /\ jPod = [p \in Pods |-> [pc |-> "idle", confirmed |-> 0, browser |-> "closed", result |-> "failed", code |-> 0]]
  /\ jBeat = [p \in Pods |-> [st |-> "none", at |-> 0]]

----------------------------------------------------------------------------
(* Claiming.                                                               *)

\* claimStartedAt is taken before the query is sent.
SendClaim(p) ==
  /\ jPod[p].pc = "idle"
  /\ jPod' = [jPod EXCEPT ![p].pc = "claiming", ![p].confirmed = jNow]
  /\ UNCHANGED <<jNow, jJob, jSess, jBeat>>

\* accrawl_claim_crawl_job: only a job nobody has claimed, of an active session.
ClaimJob(p) ==
  /\ jPod[p].pc = "claiming"
  /\ IF jJob.status = "starting" /\ jSess = "active"
     THEN /\ jJob' = [jJob EXCEPT !.status = "running", !.owner = p, !.expires = jNow + Lease]
          /\ jPod' = [jPod EXCEPT ![p].pc = "claimed"]
     ELSE /\ jPod' = [jPod EXCEPT ![p].pc = "lost"]
          /\ UNCHANGED jJob
  /\ UNCHANGED <<jNow, jSess, jBeat>>

\* The local deadline: the lease as of the start of the last successful call,
\* less the grace.
Deadline(p) == jPod[p].confirmed + Lease - Grace
MonitorOn(p) == jPod[p].pc \in {"work", "finish"}
\* trigger: the monitor stops and fences.
Triggered(p) == [jPod EXCEPT ![p].pc = IF @ = "finish" THEN "closing" ELSE "fencing"]

\* The claim is answered.  If the local window is already used up the monitor
\* fences before any work starts; otherwise the browser starts.
ClaimAnswered(p) ==
  /\ jPod[p].pc = "claimed"
  /\ jPod' = [jPod EXCEPT ![p].pc = IF jNow >= Deadline(p) THEN "fencing" ELSE "work",
                          ![p].browser = IF jNow < Deadline(p) THEN "open" ELSE "closed"]
  /\ UNCHANGED <<jNow, jJob, jSess, jBeat>>

\* A pod that lost the claim observes the owner.
ClaimLost(p) ==
  /\ jPod[p].pc = "lost"
  /\ jPod' = [jPod EXCEPT ![p].pc = "observing"]
  /\ UNCHANGED <<jNow, jJob, jSess, jBeat>>

\* waitForOwningJob: until both the job and its session are terminal; the
\* session decides the exit code.
ObserveOwner(p) ==
  /\ jPod[p].pc = "observing"
  /\ jJob.status \in Terminal /\ jSess \in {"completed", "failed", "cancelled"}
  /\ jPod' = [jPod EXCEPT ![p].pc = "exit", ![p].code = IF jSess = "completed" THEN 0 ELSE 1]
  /\ UNCHANGED <<jNow, jJob, jSess, jBeat>>

----------------------------------------------------------------------------
(* The ownership monitor.                                                  *)

\* poll: one heartbeat at a time, its start noted.
SendBeat(p) ==
  /\ MonitorOn(p) \/ jPod[p].pc = "retrying"
  /\ jBeat[p].st = "none"
  /\ jBeat' = [jBeat EXCEPT ![p] = [st |-> "sent", at |-> jNow]]
  /\ UNCHANGED <<jNow, jJob, jSess, jPod>>

\* accrawl_heartbeat_crawl_job: renews a running job of this owner, and
\* reports the status otherwise.
BeatExecutes(p) ==
  /\ jBeat[p].st = "sent"
  /\ IF jJob.status = "running" /\ jJob.owner = p
     THEN /\ jJob' = [jJob EXCEPT !.expires = jNow + Lease]
          /\ jBeat' = [jBeat EXCEPT ![p].st = "running"]
     ELSE /\ jBeat' = [jBeat EXCEPT ![p].st = "revoked"]
          /\ UNCHANGED jJob
  /\ UNCHANGED <<jNow, jSess, jPod>>

BeatAnsweredLate(p) ==
  /\ jBeat[p].st \in {"running", "revoked"}
  /\ jBeat' = [jBeat EXCEPT ![p].st = "none"]
  /\ jPod' = IF ~MonitorOn(p) THEN jPod
             ELSE IF jBeat[p].st = "revoked" THEN Triggered(p)
             ELSE [jPod EXCEPT ![p].confirmed = jNow]
  /\ UNCHANGED <<jNow, jJob, jSess>>

\* The answer: running renews the local lease from the moment the heartbeat
\* was sent, anything else fences.
BeatAnswered(p) ==
  /\ jBeat[p].st \in {"running", "revoked"}
  /\ jBeat' = [jBeat EXCEPT ![p].st = "none"]
  /\ jPod' = IF ~MonitorOn(p) THEN jPod
             ELSE IF jBeat[p].st = "revoked" THEN Triggered(p)
             ELSE [jPod EXCEPT ![p].confirmed = jBeat[p].at]
  /\ UNCHANGED <<jNow, jJob, jSess>>

\* A heartbeat that fails on the way proves nothing and renews nothing.
BeatFails(p) ==
  /\ jBeat[p].st # "none"
  /\ jBeat' = [jBeat EXCEPT ![p].st = "none"]
  /\ UNCHANGED <<jNow, jJob, jSess, jPod>>

\* The lease timer.
LeaseTimer(p) ==
  /\ MonitorOn(p) /\ jNow >= Deadline(p)
  /\ jPod' = Triggered(p)
  /\ UNCHANGED <<jNow, jJob, jSess, jBeat>>

\* fenceActiveWork closes every context, the browser and the tunnel; the
\* error it raises is recorded with accrawl_finish_crawl_job(false).
FenceSucceeds(p) ==
  /\ jPod[p].pc \in {"fencing", "closing"}
  /\ jPod' = [jPod EXCEPT ![p].pc = "finishing", ![p].browser = "closed", ![p].result = "failed"]
  /\ UNCHANGED <<jNow, jJob, jSess, jBeat>>

\* A fence, or a crawl's own cleanup, that fails: PID 1 exits without marking
\* the job terminal; the container runtime kills the browser later.
FenceFails(p) ==
  /\ jPod[p].pc \in {"fencing", "closing", "work"}
  /\ jPod' = [jPod EXCEPT ![p].pc = "terminated", ![p].code = 1]
  /\ UNCHANGED <<jNow, jJob, jSess, jBeat>>

ContainerKilled(p) ==
  /\ jPod[p].pc = "terminated" /\ jPod[p].browser = "open"
  /\ jPod' = [jPod EXCEPT ![p].browser = "closed"]
  /\ UNCHANGED <<jNow, jJob, jSess, jBeat>>

----------------------------------------------------------------------------
(* Work and its end.                                                       *)

\* executeCrawl: the browser is closed, then the session is completed if the
\* worker still owns it (accrawl_engine_owns_session) and it is active.  The
\* work may end before a fence that has begun.
WorkEnds(p) ==
  /\ jPod[p].pc \in {"work", "fencing"} /\ jPod[p].browser = "open"
  /\ \E result \in {"ok", "failed"} :
       /\ jPod' = [jPod EXCEPT ![p].pc = IF @ = "work" THEN "finish" ELSE "closing",
                               ![p].browser = "closed", ![p].result = result]
       /\ jSess' = IF jSess = "active" /\ jJob.status = "running" /\ jJob.owner = p /\ jJob.expires > jNow
                   THEN (IF result = "ok" THEN "completed" ELSE "failed") ELSE jSess
  /\ UNCHANGED <<jNow, jJob, jBeat>>

\* A payload that cannot be used, a listener that cannot be bound, a work that
\* was aborted: the catch block.
WorkThrows(p) ==
  /\ jPod[p].pc \in {"claimed", "work", "fencing"}
  /\ jPod' = [jPod EXCEPT ![p].pc = IF @ = "work" THEN "retrying" ELSE "finishing",
                          ![p].browser = "closed", ![p].result = "failed"]
  /\ UNCHANGED <<jNow, jJob, jSess, jBeat>>

\* accrawl_finish_crawl_job: what the row of a job of this owner becomes.
Mine(p) == jJob.owner = p /\ jJob.status \in {"running", "cancel_requested"}
EndedRow(p) ==
  LET st == IF jJob.status = "cancel_requested" THEN "cancelled"
            ELSE IF jPod[p].result = "ok" THEN "succeeded" ELSE "failed"
  IN IF Mine(p) THEN [jJob EXCEPT !.status = st, !.expires = 0, !.by = "worker"] ELSE jJob

\* The query as the answer of the work or in the catch block, and its answer.
FinishJob(p) ==
  /\ jPod[p].pc \in {"finish", "closing", "finishing", "retrying"}
  /\ jJob' = EndedRow(p)
  /\ jPod' = [jPod EXCEPT ![p].pc = "exit",
                          ![p].code = IF Mine(p) /\ jJob.status = "running" /\ jPod[p].result = "ok" THEN 0 ELSE 1]
  /\ UNCHANGED <<jNow, jSess, jBeat>>

\* The query fails, before or after it was executed, or the fence ends before
\* its answer: the catch block tries once more with a failure, and that failing
\* is only logged.
FinishFails(p) ==
  /\ jJob' \in {jJob, EndedRow(p)}
  /\ \/ /\ jPod[p].pc \in {"finish", "closing"}
        /\ jPod' = [jPod EXCEPT ![p].pc = IF @ = "finish" THEN "retrying" ELSE "finishing", ![p].result = "failed"]
     \/ /\ jPod[p].pc \in {"finishing", "retrying"}
        /\ jPod' = [jPod EXCEPT ![p].pc = "exit", ![p].code = 1]
  /\ UNCHANGED <<jNow, jSess, jBeat>>

\* The node dies.
PodDies(p) ==
  /\ jPod[p].pc \notin {"idle", "exit", "terminated"}
  /\ jPod' = [jPod EXCEPT ![p].pc = "terminated", ![p].browser = "closed", ![p].code = 1]
  /\ UNCHANGED <<jNow, jJob, jSess, jBeat>>

----------------------------------------------------------------------------
(* The control plane.                                                      *)

OperatorCancels ==
  /\ jSess = "active"
  /\ jSess' = "cancelling"
  /\ UNCHANGED <<jNow, jJob, jPod, jBeat>>

\* reapStaleCrawlJobs: the half-made cancellation, the cancelled and the stale
\* jobs whose lease is over, and the sessions behind them.  An unclaimed job
\* has no lease; its startup grace is one tick.
ReapStaleCrawlJobs ==
  LET live == {"starting", "running"}
      asked == IF jSess = "cancelling" /\ jJob.status \in live THEN "cancel_requested" ELSE jJob.status
      over == jJob.expires < jNow
      final == IF asked = "cancel_requested" /\ over THEN "cancelled"
               ELSE IF asked \in live /\ over THEN "failed" ELSE asked
  IN  /\ jNow > 0
      /\ jJob' = IF final \in Terminal /\ jJob.status \notin Terminal
                 THEN [jJob EXCEPT !.status = final, !.expires = 0, !.by = "reaper"]
                 ELSE [jJob EXCEPT !.status = final]
      /\ jSess' = IF jSess = "cancelling" /\ final \in Terminal THEN "cancelled"
                  ELSE IF final = "failed" /\ jJob.status \notin Terminal /\ jSess = "active" THEN "failed" ELSE jSess
      /\ <<jJob, jSess>>' # <<jJob, jSess>>
  /\ UNCHANGED <<jNow, jPod, jBeat>>

\* Time passes, but not past a lease timer that is due.
Tick ==
  /\ jNow < MaxTime
  /\ \A p \in Pods : MonitorOn(p) => jNow < Deadline(p)
  /\ jNow' = jNow + 1
  /\ UNCHANGED <<jJob, jSess, jPod, jBeat>>

JobNext ==
  \/ \E p \in Pods :
        \/ SendClaim(p) \/ ClaimJob(p) \/ ClaimAnswered(p) \/ ClaimLost(p) \/ ObserveOwner(p)
        \/ SendBeat(p) \/ BeatExecutes(p) \/ BeatAnswered(p) \/ BeatFails(p) \/ LeaseTimer(p)
        \/ FenceSucceeds(p) \/ FenceFails(p) \/ ContainerKilled(p)
        \/ WorkEnds(p) \/ WorkThrows(p) \/ FinishJob(p) \/ FinishFails(p) \/ PodDies(p)
  \/ OperatorCancels \/ ReapStaleCrawlJobs \/ Tick

JobSpec == JobInit /\ [][JobNext]_jobVars

----------------------------------------------------------------------------

\* The worker gives up before the database does: while a pod still crawls, the
\* lease of its job has the whole grace left, however long the claim and the
\* heartbeats were on their way.  So the reaper never takes a job whose owner
\* has not begun to stop.
WorkerStopsFirst ==
  \A p \in Pods :
    jPod[p].pc = "work" /\ jJob.owner = p /\ jJob.status = "running"
      => jNow + Grace <= jJob.expires

\* The connection's lock is released only behind a closed browser: a job that
\* its worker made terminal has no pod with a browser.
FinishedBehindFence ==
  jJob.by = "worker" => \A p \in Pods : jPod[p].browser = "closed"

\* Kubernetes ends the whole Job when one pod exits with 0, and would kill the
\* owner: no pod does while another still has a browser.
SuccessEndsAll ==
  (\E p \in Pods : jPod[p].pc = "exit" /\ jPod[p].code = 0)
    => jJob.status \in Terminal /\ \A q \in Pods : jPod[q].browser = "closed"

\* One bank login per job: at most one pod ever owns it.
OneLogin == [][jJob.owner # NoPod => jJob'.owner = jJob.owner]_jobVars

\* Nothing takes a job over, finishes it or ends its pods in front of a worker
\* that still drives a browser.
OwnerIsFenced == JobTypeOK /\ WorkerStopsFirst /\ FinishedBehindFence /\ SuccessEndsAll
=============================================================================
