---------------------------- MODULE HostedBroker ----------------------------
(***************************************************************************)
(* A crawl that runs in a remote worker: the one hand-off                  *)
(* (hosted-dispatch-decisions.ts), the worker (remote-job-worker.ts,       *)
(* remote-broker-client.ts, platform/remote.ts), the broker's routes       *)
(* (worker-broker.ts) and the ownership rules (worker-ownership.ts).  The  *)
(* store behind the routes belongs to the deployment: its operations are   *)
(* atomic, as WorkerBrokerStore demands, and use those rules.              *)
(*                                                                         *)
(* A request is sent, executed at the store, followed by its reconciliation*)
(* task, and answered; any answer can be lost, and the transport may       *)
(* deliver a completion twice.                                             *)
(***************************************************************************)
EXTENDS Naturals

CONSTANTS Workers,      \* executions a hand-off can start
          Dispatchers,  \* callers of the hand-off
          NoWorker

ASSUME NoWorkerAssumption == NoWorker \notin Workers

VARIABLES
  vSess,   \* the session's status
  vJob,    \* the job record
  vTask,   \* a reconciliation task is queued
  vDisp,   \* each caller of the hand-off
  vWork,   \* each worker: where it is, its browser, what its crawl returned
  vCall    \* each worker's request to the broker

brokerVars == <<vSess, vJob, vTask, vDisp, vWork, vCall>>

JobTerminal == {"succeeded", "failed", "cancelled"}
Results == {"none", "good", "bad", "crash"}   \* what a completion reports (its digest)

BrokerTypeOK ==
  /\ vSess \in {"active", "cancelling", "completed", "failed", "cancelled"}
  /\ vJob \in [status : {"none", "queued", "running", "cancel_requested"} \cup JobTerminal,
               worker : Workers \cup {NoWorker}, lease : BOOLEAN, digest : Results,
               attempts : 0..1, handing : BOOLEAN]
  /\ vTask \in BOOLEAN
  /\ vDisp \in [Dispatchers -> {"idle", "starting", "done"}]
  /\ vWork \in [Workers -> [pc : {"unborn", "born", "claim", "work", "complete", "fence", "ack", "fail", "exit"},
                            browser : BOOLEAN, result : Results, told : BOOLEAN]]
  /\ vCall \in [Workers -> [kind : {"none", "claim", "beat", "complete", "ack", "fail"},
                            st : {"none", "sent", "stored", "ok", "stop", "refused", "error"}]]

BrokerInit ==
  /\ vSess = "active"
  /\ vJob = [status |-> "none", worker |-> NoWorker, lease |-> FALSE, digest |-> "none",
             attempts |-> 0, handing |-> FALSE]
  /\ vTask = TRUE   \* the lifecycle lane's first wake-up
  /\ vDisp = [d \in Dispatchers |-> "idle"]
  /\ vWork = [w \in Workers |-> [pc |-> "unborn", browser |-> FALSE, result |-> "none", told |-> FALSE]]
  /\ vCall = [w \in Workers |-> [kind |-> "none", st |-> "none"]]

----------------------------------------------------------------------------
(* The hand-off.                                                           *)

\* MAX_DISPATCH_ATTEMPTS.
MaxDispatchAttempts == 1

\* decideDispatchReservation: this caller owns the hand-off of a queued or new
\* job whose previous hand-off is over and whose attempts are not used up;
\* with the attempts used up the job and the session fail.
ReserveDispatch(d) ==
  /\ vDisp[d] = "idle"
  /\ IF vSess = "active" /\ vJob.status \in {"none", "queued"} /\ ~vJob.handing
     THEN IF vJob.attempts < MaxDispatchAttempts
          THEN /\ vJob' = [vJob EXCEPT !.status = "queued", !.attempts = @ + 1, !.handing = TRUE]
               /\ vDisp' = [vDisp EXCEPT ![d] = "starting"]
               /\ UNCHANGED vSess
          ELSE /\ vJob' = [vJob EXCEPT !.status = "failed"] /\ vSess' = "failed"
               /\ vDisp' = [vDisp EXCEPT ![d] = "done"]
     ELSE vDisp' = [vDisp EXCEPT ![d] = "done"] /\ UNCHANGED <<vJob, vSess>>
  /\ UNCHANGED <<vTask, vWork, vCall>>

\* The start request leaves.  It may start a worker although no answer comes,
\* or be refused.
StartWorker(d) ==
  /\ vDisp[d] = "starting"
  /\ vDisp' = [vDisp EXCEPT ![d] = "done"]
  /\ \/ \E w \in Workers : /\ vWork[w].pc = "unborn"
                           /\ vWork' = [vWork EXCEPT ![w].pc = "born"]
                           /\ UNCHANGED <<vJob, vSess>>
     \/ /\ vJob.status = "queued"
        /\ vJob' = [vJob EXCEPT !.status = "failed", !.handing = FALSE] /\ vSess' = "failed"
        /\ UNCHANGED vWork
     \/ UNCHANGED <<vJob, vSess, vWork>>
  /\ UNCHANGED <<vTask, vCall>>

\* DISPATCH_LEASE_MS is over.
HandOffExpires ==
  /\ vJob.handing
  /\ vJob' = [vJob EXCEPT !.handing = FALSE]
  /\ UNCHANGED <<vSess, vTask, vDisp, vWork, vCall>>

----------------------------------------------------------------------------
(* Ownership.                                                              *)

\* workerOwnsAttempt.
WorkerOwnsAttempt(w, allowCancellation) ==
  /\ vJob.worker = w /\ vJob.lease
  /\ vJob.status = "running" \/ (allowCancellation /\ vJob.status = "cancel_requested")
  /\ vSess = "active" \/ (allowCancellation /\ vSess = "cancelling")

IsExactIgnoringDigest(w, result) == vJob.worker = w /\ vJob.status \in JobTerminal

\* isExactTerminalCompletion: the job row and its digest are the receipt; the
\* session may have moved on.
IsExactTerminalCompletion(w, result) ==
  /\ vJob.worker = w /\ vJob.digest = result
  /\ vJob.status = IF result = "good" THEN "succeeded" ELSE "failed"

\* isExactCancellationAcknowledgement.
IsExactAcknowledgement(w) == vJob.worker = w /\ vJob.status = "cancelled"

Call(w, kind) == vCall' = [vCall EXCEPT ![w] = [kind |-> kind, st |-> "sent"]]
Answer(w, st) == vCall' = [vCall EXCEPT ![w].st = st]

\* The claim: once, by an attested execution of the job's attempt.  An
\* envelope that cannot be opened fails the job.
StoreClaim(w) ==
  /\ vCall[w].kind = "claim" /\ vCall[w].st = "sent"
  /\ IF vJob.status = "queued" /\ vSess = "active"
     THEN \/ /\ vJob' = [vJob EXCEPT !.status = "running", !.worker = w, !.lease = TRUE, !.handing = FALSE]
             /\ Answer(w, "ok") /\ UNCHANGED vSess
          \/ /\ vJob' = [vJob EXCEPT !.status = "failed", !.worker = w, !.handing = FALSE]
             /\ vSess' = "failed" /\ Answer(w, "error")
     ELSE Answer(w, "refused") /\ UNCHANGED <<vJob, vSess>>
  /\ UNCHANGED <<vTask, vDisp, vWork>>

\* The heartbeat renews the lease and tells the worker to stop.
StoreBeat(w) ==
  /\ vCall[w].kind = "beat" /\ vCall[w].st = "sent"
  /\ Answer(w, IF ~WorkerOwnsAttempt(w, TRUE) THEN "refused"
               ELSE IF vJob.status = "running" THEN "ok" ELSE "stop")
  /\ UNCHANGED <<vSess, vJob, vTask, vDisp, vWork>>

\* complete, and the failure a worker reports: the exact completion that is
\* already recorded is accepted again, another needs ownership.
StoreCompletion(w) ==
  /\ vCall[w].kind \in {"complete", "fail"} /\ vCall[w].st = "sent"
  /\ LET result == IF vCall[w].kind = "fail" THEN "crash" ELSE vWork[w].result
     IN  IF IsExactTerminalCompletion(w, result) THEN Answer(w, "stored") /\ UNCHANGED vJob
         ELSE IF WorkerOwnsAttempt(w, FALSE)
         THEN /\ vJob' = [vJob EXCEPT !.status = IF result = "good" THEN "succeeded" ELSE "failed",
                                      !.digest = result, !.lease = FALSE]
              /\ Answer(w, "stored")
         ELSE Answer(w, "refused") /\ UNCHANGED vJob
  /\ UNCHANGED <<vSess, vTask, vDisp, vWork>>

StoreAcknowledgement(w) ==
  /\ vCall[w].kind = "ack" /\ vCall[w].st = "sent"
  /\ IF IsExactAcknowledgement(w) THEN Answer(w, "stored") /\ UNCHANGED vJob
     ELSE IF WorkerOwnsAttempt(w, TRUE) /\ vJob.status = "cancel_requested"
     THEN vJob' = [vJob EXCEPT !.status = "cancelled", !.lease = FALSE] /\ Answer(w, "stored")
     ELSE Answer(w, "refused") /\ UNCHANGED vJob
  /\ UNCHANGED <<vSess, vTask, vDisp, vWork>>

\* The route enqueues the reconciliation before it answers; the queue failing
\* is an error to the worker.
EnqueueReconciliation(w) ==
  /\ vCall[w].st = "stored"
  /\ \/ vTask' = TRUE /\ Answer(w, "ok")
     \/ Answer(w, "error") /\ UNCHANGED vTask
  /\ UNCHANGED <<vSess, vJob, vDisp, vWork>>

\* The request or its answer is lost: an error to the worker.
CallLost(w) ==
  /\ vCall[w].st \in {"sent", "ok", "stop", "refused"}
  /\ Answer(w, "error")
  /\ UNCHANGED <<vSess, vJob, vTask, vDisp, vWork>>

\* The transport delivers a completion a second time before it is answered.
CallRedelivered(w) ==
  /\ vCall[w].kind \in {"complete", "ack"} /\ vCall[w].st \in {"stored", "ok", "refused"}
  /\ Answer(w, "sent")
  /\ UNCHANGED <<vSess, vJob, vTask, vDisp, vWork>>

----------------------------------------------------------------------------
(* The worker.                                                             *)

NoCall(w) == vCall' = [vCall EXCEPT ![w] = [kind |-> "none", st |-> "none"]]

WorkerClaims(w) ==
  /\ vWork[w].pc = "born"
  /\ vWork' = [vWork EXCEPT ![w].pc = "claim"]
  /\ Call(w, "claim")
  /\ UNCHANGED <<vSess, vJob, vTask, vDisp>>

\* A refused claim ends the process quietly, an error ends it with a failure;
\* otherwise the crawl starts.
ClaimIsAnswered(w) ==
  /\ vWork[w].pc = "claim" /\ vCall[w].st \in {"ok", "refused", "error"}
  /\ vWork' = IF vCall[w].st = "ok" THEN [vWork EXCEPT ![w].pc = "work", ![w].browser = TRUE]
              ELSE [vWork EXCEPT ![w].pc = "exit"]
  /\ NoCall(w)
  /\ UNCHANGED <<vSess, vJob, vTask, vDisp>>

WorkerBeats(w) ==
  /\ vWork[w].pc = "work" /\ vCall[w].st = "none"
  /\ Call(w, "beat")
  /\ UNCHANGED <<vSess, vJob, vTask, vDisp, vWork>>

\* Only cancel_requested stops the worker; a refused or failed heartbeat is
\* logged, and the local lease decides.
BeatIsAnswered(w) ==
  /\ vWork[w].pc = "work" /\ vCall[w].kind = "beat" /\ vCall[w].st \in {"ok", "stop", "refused", "error"}
  /\ vWork' = IF vCall[w].st = "stop" THEN [vWork EXCEPT ![w].pc = "fence"] ELSE vWork
  /\ NoCall(w)
  /\ UNCHANGED <<vSess, vJob, vTask, vDisp>>

\* The local lease runs out, a signal arrives, or the process dies.
WorkerStops(w) ==
  /\ vWork[w].pc = "work"
  /\ vWork' = [vWork EXCEPT ![w].pc = "exit", ![w].browser = FALSE]
  /\ NoCall(w)
  /\ UNCHANGED <<vSess, vJob, vTask, vDisp>>

\* A cancellation: every context is closed, then it is acknowledged.
FenceAndAcknowledge(w) ==
  /\ vWork[w].pc = "fence"
  /\ vWork' = [vWork EXCEPT ![w].pc = "ack", ![w].browser = FALSE]
  /\ Call(w, "ack")
  /\ UNCHANGED <<vSess, vJob, vTask, vDisp>>

\* executeCrawl has closed its browser and completes the session.
CrawlCompletes(w) ==
  /\ vWork[w].pc = "work" /\ vCall[w].st = "none"
  /\ \E r \in {"good", "bad"} :
       vWork' = [vWork EXCEPT ![w].pc = "complete", ![w].browser = FALSE, ![w].result = r]
  /\ Call(w, "complete")
  /\ UNCHANGED <<vSess, vJob, vTask, vDisp>>

\* Answered: done; refused: taken for a cancellation and acknowledged;
\* anything else: reported as a failure.
CompletionIsAnswered(w) ==
  /\ vWork[w].pc = "complete" /\ vCall[w].st \in {"ok", "refused", "error"}
  /\ CASE vCall[w].st = "ok" ->
            vWork' = [vWork EXCEPT ![w].pc = "exit", ![w].told = TRUE] /\ NoCall(w)
       [] vCall[w].st = "refused" -> vWork' = [vWork EXCEPT ![w].pc = "ack"] /\ Call(w, "ack")
       [] vCall[w].st = "error" -> vWork' = [vWork EXCEPT ![w].pc = "fail"] /\ Call(w, "fail")
  /\ UNCHANGED <<vSess, vJob, vTask, vDisp>>

LastCallIsAnswered(w) ==
  /\ vWork[w].pc \in {"ack", "fail"} /\ vCall[w].st \in {"ok", "refused", "error"}
  /\ vWork' = [vWork EXCEPT ![w].pc = "exit"]
  /\ NoCall(w)
  /\ UNCHANGED <<vSess, vJob, vTask, vDisp>>

----------------------------------------------------------------------------
(* The control plane's other actors.                                       *)

OperatorCancelsHosted ==
  /\ vSess = "active" /\ vJob.status \in {"queued", "running"}
  /\ vSess' = "cancelling"
  /\ vJob' = [vJob EXCEPT !.status = "cancel_requested"]
  /\ UNCHANGED <<vTask, vDisp, vWork, vCall>>

\* The lease runs out.  The worker's own monitor fences it before that
\* (WorkerStopsFirst in JobWorker), so no worker still has a browser.
LeaseExpires ==
  /\ vJob.lease /\ \A w \in Workers : vJob.worker = w => ~vWork[w].browser
  /\ vJob' = [vJob EXCEPT !.lease = FALSE]
  /\ UNCHANGED <<vSess, vTask, vDisp, vWork, vCall>>

\* reconcileCrawlLifecycle: concludes a job whose owner is gone, and gives the
\* session the job's outcome; promotion of a good one may still reject it.  An
\* unfinished crawl is looked at again (the route enqueues the successor).
Reconcile ==
  /\ vTask /\ vJob.status # "none"
  /\ LET st == IF vJob.status = "running" /\ ~vJob.lease THEN "failed"
               ELSE IF vJob.status = "cancel_requested" /\ ~vJob.lease THEN "cancelled"
               ELSE vJob.status
     IN  /\ vJob' = [vJob EXCEPT !.status = st]
         /\ vTask' = (st \notin JobTerminal)
         /\ IF vSess \notin {"active", "cancelling"} \/ st \notin JobTerminal THEN UNCHANGED vSess
            ELSE IF vSess = "cancelling" THEN vSess' = "cancelled"
            ELSE IF st = "succeeded" THEN vSess' \in {"completed", "failed"}
            ELSE vSess' = "failed"
  /\ UNCHANGED <<vDisp, vWork, vCall>>

BrokerNext ==
  \/ \E d \in Dispatchers : ReserveDispatch(d) \/ StartWorker(d)
  \/ \E w \in Workers :
        \/ StoreClaim(w) \/ StoreBeat(w) \/ StoreCompletion(w) \/ StoreAcknowledgement(w)
        \/ EnqueueReconciliation(w) \/ CallLost(w) \/ CallRedelivered(w)
        \/ WorkerClaims(w) \/ ClaimIsAnswered(w) \/ WorkerBeats(w) \/ BeatIsAnswered(w)
        \/ WorkerStops(w) \/ FenceAndAcknowledge(w) \/ CrawlCompletes(w)
        \/ CompletionIsAnswered(w) \/ LastCallIsAnswered(w)
  \/ HandOffExpires \/ OperatorCancelsHosted \/ LeaseExpires \/ Reconcile

BrokerSpec == BrokerInit /\ [][BrokerNext]_brokerVars

----------------------------------------------------------------------------

\* Starting a worker is not idempotent: however many callers race, retry and
\* lose answers, at most one worker is ever started for the job.
OneHandOff == \A a, b \in Workers : vWork[a].pc # "unborn" /\ vWork[b].pc # "unborn" => a = b

\* A recorded completion is a receipt: as long as a worker re-sends it, it is
\* never told that it no longer owns the crawl.
ReceiptIsHonoured ==
  \A w \in Workers :
    vCall[w].kind = "complete" /\ vCall[w].st = "refused"
      => ~(vJob.worker = w /\ vJob.digest = vWork[w].result)

\* An answered completion is durable and will be looked at: the job is
\* terminal, and its session is concluded or a wake-up is queued for it.
AnsweredIsReconciled ==
  \A w \in Workers :
    vWork[w].told =>
      /\ vJob.status \in JobTerminal /\ vJob.digest = vWork[w].result
      /\ vTask \/ vSess \in {"completed", "failed", "cancelled"}

\* The outcome of a job is recorded once and never changes.
OutcomeStands ==
  [][vJob.status \in JobTerminal => vJob'.status = vJob.status /\ vJob'.digest = vJob.digest]_brokerVars

\* One worker is started, and what it was told stays true.
ReceiptStands == BrokerTypeOK /\ OneHandOff /\ ReceiptIsHonoured /\ AnsweredIsReconciled
=============================================================================
