--------------------------- MODULE DurableProofs ---------------------------
(***************************************************************************)
(* The durable records of a deployment: the Kubernetes crawl job, the job  *)
(* of a remote worker, the hosted schedule and the webhook outbox, for any *)
(* number of pods, workers, callers, revisions, drains and events.         *)
(***************************************************************************)
EXTENDS DurableRecords, SequenceTheorems, TLAPS

-----------------------------------------------------------------------------
(***************************************************************************)
(* One durable crawl job, for any number of pods, any lease and any grace. *)
(*                                                                         *)
(* JobInv relates the two clocks: what the worker believes of its lease    *)
(* was true of the row when it began to ask, so the row's lease is never   *)
(* the shorter one. It also says who may have a browser, and what a        *)
(* completed session or a job finished by its worker leaves of them.       *)
(***************************************************************************)

JobRows == [status : {"starting", "running", "cancel_requested"} \cup Terminal,
            owner : Pods \cup {NoPod}, expires : 0..(MaxTime + Lease), by : {"none", "worker", "reaper"}]
PodRows == [pc : PodSteps, confirmed : 0..MaxTime, browser : {"open", "closed"}, result : {"ok", "failed"},
            code : 0..1]
BeatRows == [st : {"none", "sent", "running", "revoked"}, at : 0..MaxTime]

\* JobTypeOK, row by row.
RowsOK ==
  /\ jNow \in 0..MaxTime /\ jJob \in JobRows
  /\ jSess \in {"active", "cancelling", "completed", "failed", "cancelled"}
  /\ jPod \in [Pods -> PodRows] /\ jBeat \in [Pods -> BeatRows]

\* A pod that is past its claim is the owner, and only such a pod has a browser.
OwnersOnly ==
  \A p \in Pods :
    /\ jPod[p].pc \in {"claimed", "work", "fencing", "finish", "closing", "finishing", "retrying"} => jJob.owner = p
    /\ jPod[p].browser = "open" => jPod[p].pc \in {"work", "fencing", "terminated"} /\ jJob.owner = p

\* A job without an owner has not been claimed; one its worker ended is over.
RowIsHonest ==
  /\ jJob.status = "starting" => jJob.owner = NoPod
  /\ jJob.by = "worker" => jJob.status \in Terminal

\* When the session is completed or the worker has finished the job, nobody
\* has or will start a browser.
NothingLeft ==
  jSess = "completed" \/ jJob.by = "worker" =>
    \A p \in Pods : jPod[p].pc \notin {"claimed", "work"} /\ jPod[p].browser = "closed"

\* Exit code 0 comes from one of these two.
ZeroIsDone ==
  \A p \in Pods : jPod[p].pc = "exit" /\ jPod[p].code = 0 =>
    jJob.status \in Terminal /\ (jSess = "completed" \/ jJob.by = "worker")

\* What a pod and its heartbeat know of the lease is not more than there is.
LeaseCovers ==
  \A p \in Pods :
    /\ jPod[p].pc \in {"claimed", "work", "finish"} /\ jJob.status = "running" =>
         /\ jPod[p].confirmed + Lease <= jJob.expires
         /\ jBeat[p].st = "running" => jBeat[p].at + Lease <= jJob.expires
    /\ jPod[p].confirmed <= jNow
    /\ jBeat[p].st # "none" => jPod[p].confirmed <= jBeat[p].at /\ jBeat[p].at <= jNow
    /\ jPod[p].pc \in {"idle", "claiming", "claimed", "lost", "observing"} => jBeat[p].st = "none"

\* A pod that still works has not passed its local deadline.
WithinDeadline == \A p \in Pods : MonitorOn(p) => jNow <= Deadline(p)

JobInv == RowsOK /\ OwnersOnly /\ RowIsHonest /\ NothingLeft /\ ZeroIsDone /\ LeaseCovers /\ WithinDeadline

-----------------------------------------------------------------------------

LEMMA RowsAreTypes == RowsOK => JobTypeOK
BY DEF RowsOK, JobTypeOK, JobRows, PodRows, BeatRows

LEMMA JobInitHolds == JobInit => JobInv
<1> SUFFICES ASSUME JobInit PROVE JobInv
  OBVIOUS
<1> USE LeaseAssumption DEF JobInit
<1>1. RowsOK
  <2>1. [status |-> "starting", owner |-> NoPod, expires |-> 0, by |-> "none"] \in JobRows
    BY DEF JobRows
  <2>2. [pc |-> "idle", confirmed |-> 0, browser |-> "closed", result |-> "failed", code |-> 0] \in PodRows
    BY DEF PodRows, PodSteps
  <2>3. [st |-> "none", at |-> 0] \in BeatRows
    BY DEF BeatRows
  <2> QED
    BY <2>1, <2>2, <2>3 DEF RowsOK
<1> QED
  BY <1>1 DEF JobInv, OwnersOnly, RowIsHonest, NothingLeft, ZeroIsDone, LeaseCovers, WithinDeadline,
     MonitorOn

Owning == {"claimed", "work", "fencing", "finish", "closing", "finishing", "retrying"}

\* One pod takes a step in which no lease is renewed: where it may go.  Its
\* heartbeat, at most, ends.
PodMoves(p) ==
  /\ jNow' = jNow /\ RowsOK'
  /\ \A q \in Pods : jBeat'[q] = jBeat[q] \/ jBeat'[q].st = "none"
  /\ \A q \in Pods : q # p => jPod'[q] = jPod[q]
  /\ jPod'[p].pc \in Owning => jPod[p].pc \in Owning
  /\ jPod'[p].browser = "open" => /\ jPod'[p].pc \in {"work", "fencing", "terminated"}
                                  /\ jPod[p].browser = "open" \/ jPod[p].pc \in {"claimed", "work"}
  /\ jPod'[p].pc \in {"claimed", "work"} => jPod[p].pc \in {"claimed", "work"}
  /\ jPod'[p].pc \in {"claimed", "work", "finish"} =>
        jPod[p].pc \in {"claimed", "work", "finish"} /\ jPod'[p].confirmed = jPod[p].confirmed
  /\ \/ jPod'[p].confirmed = jPod[p].confirmed
     \/ jPod[p].pc = "idle" /\ jPod'[p].confirmed = jNow
  /\ jPod'[p].pc \in {"idle", "claiming", "claimed", "lost", "observing"} =>
        jPod[p].pc \in {"idle", "claiming", "claimed", "lost", "observing"}
  /\ jPod'[p].pc \in {"work", "finish"} => jPod[p].pc \in {"work", "finish"} \/ jNow < Deadline(p)
  /\ jPod'[p].pc = "exit" /\ jPod'[p].code = 0 =>
        jJob'.status \in Terminal /\ (jSess' = "completed" \/ jJob'.by = "worker")

\* The row and the session go forward with it, and only the owner ends them.
RowMoves(p) ==
  /\ jJob'.owner = jJob.owner
  /\ jJob'.status = "starting" => jJob.status = "starting"
  /\ jJob'.status = "running" => jJob.status = "running" /\ jJob'.expires = jJob.expires
  /\ jJob.status \in Terminal => jJob'.status \in Terminal
  /\ jJob'.by = "worker" => jJob'.status \in Terminal
  /\ jJob.by = "worker" => jJob'.by = "worker"
  /\ jSess = "completed" => jSess' = "completed"
  /\ (jSess' = "completed" \/ jJob'.by = "worker") =>
        \/ jSess = "completed" \/ jJob.by = "worker"
        \/ jJob.owner = p /\ jPod'[p].pc \notin {"claimed", "work"} /\ jPod'[p].browser = "closed"

LEMMA MovesKeep == ASSUME JobInv, NEW p \in Pods, PodMoves(p), RowMoves(p) PROVE JobInv'
<1> USE DEF JobInv
<1>1. RowsOK' /\ jNow' = jNow /\ \A q \in Pods : q # p => jPod'[q] = jPod[q]
  BY DEF PodMoves
<1>2. OwnersOnly'
  BY <1>1 DEF OwnersOnly, PodMoves, RowMoves, Owning
<1>3. RowIsHonest'
  BY DEF RowIsHonest, RowMoves
<1>4. NothingLeft'
  <2> SUFFICES ASSUME jSess' = "completed" \/ jJob'.by = "worker", NEW q \in Pods
               PROVE  jPod'[q].pc \notin {"claimed", "work"} /\ jPod'[q].browser = "closed"
    BY DEF NothingLeft
  <2>1. jPod'[q].browser \in {"open", "closed"} /\ jPod[q].browser \in {"open", "closed"}
    BY <1>1 DEF RowsOK, PodRows
  <2>2. CASE jSess = "completed" \/ jJob.by = "worker"
    BY <1>1, <2>1, <2>2 DEF NothingLeft, PodMoves
  <2>3. CASE ~(jSess = "completed" \/ jJob.by = "worker")
    <3>1. jJob.owner = p /\ jPod'[p].pc \notin {"claimed", "work"} /\ jPod'[p].browser = "closed"
      BY <2>3 DEF RowMoves
    <3> QED
      BY <1>1, <2>1, <3>1 DEF OwnersOnly
  <2> QED
    BY <2>2, <2>3
<1>5. ZeroIsDone'
  BY <1>1 DEF ZeroIsDone, PodMoves, RowMoves
<1>6. LeaseCovers'
  <2> SUFFICES ASSUME NEW q \in Pods
               PROVE  /\ jPod'[q].pc \in {"claimed", "work", "finish"} /\ jJob'.status = "running" =>
                           /\ jPod'[q].confirmed + Lease <= jJob'.expires
                           /\ jBeat'[q].st = "running" => jBeat'[q].at + Lease <= jJob'.expires
                      /\ jPod'[q].confirmed <= jNow
                      /\ jBeat'[q].st # "none" => jPod'[q].confirmed <= jBeat'[q].at /\ jBeat'[q].at <= jNow
                      /\ jPod'[q].pc \in {"idle", "claiming", "claimed", "lost", "observing"} => jBeat'[q].st = "none"
    BY <1>1 DEF LeaseCovers
  <2>0. jBeat'[q] = jBeat[q] \/ jBeat'[q].st = "none"
    BY DEF PodMoves
  <2>1. CASE q # p
    BY <1>1, <2>0, <2>1 DEF LeaseCovers, RowMoves
  <2>2. CASE q = p
    <3>1. jNow <= jNow
      BY DEF RowsOK
    <3> QED
      BY <2>0, <2>2, <3>1 DEF LeaseCovers, PodMoves, RowMoves
  <2> QED
    BY <2>1, <2>2
<1>7. WithinDeadline'
  <2> SUFFICES ASSUME NEW q \in Pods, jPod'[q].pc \in {"work", "finish"}
               PROVE  jNow <= jPod'[q].confirmed + Lease - Grace
    BY <1>1 DEF WithinDeadline, MonitorOn, Deadline
  <2>1. jPod'[q].confirmed = jPod[q].confirmed /\ (MonitorOn(q) \/ jNow < Deadline(q))
    BY <1>1 DEF PodMoves, MonitorOn
  <2>2. Deadline(q) \in Int /\ jNow \in Int
    BY LeaseAssumption DEF Deadline, RowsOK, PodRows
  <2> QED
    BY <2>1, <2>2 DEF WithinDeadline, Deadline
<1> QED
  BY <1>1, <1>2, <1>3, <1>4, <1>5, <1>6, <1>7

\* A pod's row is rewritten, and it alone.
Rewritten(p) ==
  /\ jPod' = [jPod EXCEPT ![p] = jPod'[p]] /\ jPod'[p] \in PodRows
  /\ UNCHANGED <<jNow, jBeat>>

LEMMA RewrittenRows ==
  ASSUME RowsOK, NEW p \in Pods, Rewritten(p), UNCHANGED <<jJob, jSess>>
  PROVE  RowsOK' /\ \A q \in Pods : q # p => jPod'[q] = jPod[q]
BY DEF RowsOK, Rewritten

LEMMA SameRow == ASSUME JobInv, NEW p, UNCHANGED <<jJob, jSess>> PROVE RowMoves(p)
BY DEF JobInv, RowIsHonest, RowMoves

\* The steps that change nothing but a pod.
QuietStep(p) ==
  \/ SendClaim(p) \/ ClaimAnswered(p) \/ ClaimLost(p) \/ ObserveOwner(p) \/ LeaseTimer(p)
  \/ FenceSucceeds(p) \/ FenceFails(p) \/ ContainerKilled(p) \/ WorkThrows(p) \/ PodDies(p)

LEMMA QuietKeeps == ASSUME JobInv, NEW p \in Pods, QuietStep(p) PROVE JobInv'
<1> USE LeaseAssumption DEF JobInv
<1> DEFINE x == jPod[p]
           y == jPod'[p]
<1>0. x \in PodRows /\ jNow \in 0..MaxTime /\ RowsOK
  BY DEF RowsOK
<1>b. x.browser = "open" => x.pc \in {"work", "fencing", "terminated"}
  BY DEF OwnersOnly
<1>a. ASSUME PodMoves(p), UNCHANGED <<jJob, jSess>> PROVE JobInv'
  BY <1>a, SameRow, MovesKeep
<1>1. CASE SendClaim(p)
  <2>1. /\ y = [x EXCEPT !.pc = "claiming", !.confirmed = jNow]
        /\ jPod' = [jPod EXCEPT ![p] = y]
    BY <1>0, <1>1 DEF SendClaim, RowsOK
  <2>u. UNCHANGED <<jNow, jBeat, jJob, jSess>> /\ x.pc = "idle"
    BY <1>1 DEF SendClaim
  <2>2. /\ y.pc = "claiming" /\ y.confirmed = jNow /\ y.browser = x.browser /\ y.result = x.result
        /\ y.code = x.code
        /\ y \in PodRows
    BY <1>0, <2>1 DEF PodRows, PodSteps
  <2>3. RowsOK' /\ \A q \in Pods : q # p => jPod'[q] = jPod[q]
    BY <1>0, <2>u, <2>1, <2>2, RewrittenRows DEF Rewritten
  <2>4. PodMoves(p)
    BY <1>0, <1>b, <2>u, <2>2, <2>3 DEF PodMoves, Owning
  <2> QED
    BY <1>a, <2>u, <2>4
<1>2. CASE ClaimAnswered(p)
  <2>1. /\ y = [x EXCEPT !.pc = IF jNow >= Deadline(p) THEN "fencing" ELSE "work", !.browser = IF jNow < Deadline(p) THEN "open" ELSE "closed"]
        /\ jPod' = [jPod EXCEPT ![p] = y]
    BY <1>0, <1>2 DEF ClaimAnswered, RowsOK
  <2>u. UNCHANGED <<jNow, jBeat, jJob, jSess>> /\ x.pc = "claimed"
    BY <1>2 DEF ClaimAnswered
  <2>2. /\ y.confirmed = x.confirmed /\ y.result = x.result /\ y.code = x.code
        /\ y.pc = (IF jNow >= Deadline(p) THEN "fencing" ELSE "work")
        /\ y.browser = (IF jNow < Deadline(p) THEN "open" ELSE "closed")
        /\ y \in PodRows
    BY <1>0, <2>1 DEF PodRows, PodSteps
  <2>3. RowsOK' /\ \A q \in Pods : q # p => jPod'[q] = jPod[q]
    BY <1>0, <2>u, <2>1, <2>2, RewrittenRows DEF Rewritten
  <2>4. PodMoves(p)
    <3>1. Deadline(p) \in Int /\ jNow \in Int
      BY <1>0 DEF Deadline, PodRows
    <3>2. CASE jNow < Deadline(p)
      <4>1. y.pc = "work"
        BY <2>2, <3>1, <3>2
      <4> QED
        BY <1>0, <2>u, <2>2, <2>3, <3>2, <4>1 DEF PodMoves, Owning
    <3>3. CASE jNow >= Deadline(p)
      <4>1. y.pc = "fencing" /\ y.browser = "closed"
        BY <2>2, <3>1, <3>3
      <4> QED
        BY <1>0, <2>u, <2>2, <2>3, <4>1 DEF PodMoves, Owning
    <3> QED
      BY <3>1, <3>2, <3>3
  <2> QED
    BY <1>a, <2>u, <2>4
<1>3. CASE ClaimLost(p)
  <2>1. /\ y = [x EXCEPT !.pc = "observing"]
        /\ jPod' = [jPod EXCEPT ![p] = y]
    BY <1>0, <1>3 DEF ClaimLost, RowsOK
  <2>u. UNCHANGED <<jNow, jBeat, jJob, jSess>> /\ x.pc = "lost"
    BY <1>3 DEF ClaimLost
  <2>2. /\ y.pc = "observing" /\ y.confirmed = x.confirmed /\ y.browser = x.browser /\ y.result = x.result
        /\ y.code = x.code
        /\ y \in PodRows
    BY <1>0, <2>1 DEF PodRows, PodSteps
  <2>3. RowsOK' /\ \A q \in Pods : q # p => jPod'[q] = jPod[q]
    BY <1>0, <2>u, <2>1, <2>2, RewrittenRows DEF Rewritten
  <2>4. PodMoves(p)
    BY <1>0, <1>b, <2>u, <2>2, <2>3 DEF PodMoves, Owning
  <2> QED
    BY <1>a, <2>u, <2>4
<1>4. CASE ObserveOwner(p)
  <2>1. /\ y = [x EXCEPT !.pc = "exit", !.code = IF jSess = "completed" THEN 0 ELSE 1]
        /\ jPod' = [jPod EXCEPT ![p] = y]
    BY <1>0, <1>4 DEF ObserveOwner, RowsOK
  <2>u. UNCHANGED <<jNow, jBeat, jJob, jSess>> /\ x.pc = "observing" /\ jJob.status \in Terminal
    BY <1>4 DEF ObserveOwner
  <2>2. /\ y.pc = "exit" /\ y.confirmed = x.confirmed /\ y.browser = x.browser /\ y.result = x.result
        /\ y.code = (IF jSess = "completed" THEN 0 ELSE 1)
        /\ y \in PodRows
    <3> DEFINE z == [x EXCEPT !.pc = "exit"]
    <3>1. /\ z.pc = "exit" /\ z.confirmed = x.confirmed /\ z.browser = x.browser /\ z.result = x.result
          /\ z.code = x.code
          /\ z \in PodRows
      BY <1>0 DEF PodRows, PodSteps
    <3>2. y = [z EXCEPT !.code = IF jSess = "completed" THEN 0 ELSE 1]
      BY <2>1
    <3> HIDE DEF z
    <3> QED
      BY <3>1, <3>2 DEF PodRows
  <2>3. RowsOK' /\ \A q \in Pods : q # p => jPod'[q] = jPod[q]
    BY <1>0, <2>u, <2>1, <2>2, RewrittenRows DEF Rewritten
  <2>4. PodMoves(p)
    <3>1. y.code = 0 => jSess = "completed"
      BY <2>2
    <3> QED
      BY <1>0, <1>b, <2>u, <2>2, <2>3, <3>1 DEF PodMoves, Owning
  <2> QED
    BY <1>a, <2>u, <2>4
<1>5. CASE FenceSucceeds(p)
  <2>1. /\ y = [x EXCEPT !.pc = "finishing", !.browser = "closed", !.result = "failed"]
        /\ jPod' = [jPod EXCEPT ![p] = y]
    BY <1>0, <1>5 DEF FenceSucceeds, RowsOK
  <2>u. UNCHANGED <<jNow, jBeat, jJob, jSess>> /\ x.pc \in {"fencing", "closing"}
    BY <1>5 DEF FenceSucceeds
  <2>2. /\ y.pc = "finishing" /\ y.confirmed = x.confirmed /\ y.browser = "closed" /\ y.result = "failed"
        /\ y.code = x.code
        /\ y \in PodRows
    <3> DEFINE z == [x EXCEPT !.pc = "finishing", !.browser = "closed"]
    <3>1. /\ z.pc = "finishing" /\ z.confirmed = x.confirmed /\ z.browser = "closed" /\ z.result = x.result
          /\ z.code = x.code
          /\ z \in PodRows
      BY <1>0 DEF PodRows, PodSteps
    <3>2. y = [z EXCEPT !.result = "failed"]
      BY <2>1
    <3> HIDE DEF z
    <3> QED
      BY <3>1, <3>2 DEF PodRows
  <2>3. RowsOK' /\ \A q \in Pods : q # p => jPod'[q] = jPod[q]
    BY <1>0, <2>u, <2>1, <2>2, RewrittenRows DEF Rewritten
  <2>4. PodMoves(p)
    BY <1>0, <2>u, <2>2, <2>3 DEF PodMoves, Owning
  <2> QED
    BY <1>a, <2>u, <2>4
<1>6. CASE FenceFails(p)
  <2>1. /\ y = [x EXCEPT !.pc = "terminated", !.code = 1]
        /\ jPod' = [jPod EXCEPT ![p] = y]
    BY <1>0, <1>6 DEF FenceFails, RowsOK
  <2>u. UNCHANGED <<jNow, jBeat, jJob, jSess>> /\ x.pc \in {"fencing", "closing", "work"}
    BY <1>6 DEF FenceFails
  <2>2. /\ y.pc = "terminated" /\ y.confirmed = x.confirmed /\ y.browser = x.browser /\ y.result = x.result
        /\ y.code = 1
        /\ y \in PodRows
    <3> DEFINE z == [x EXCEPT !.pc = "terminated"]
    <3>1. /\ z.pc = "terminated" /\ z.confirmed = x.confirmed /\ z.browser = x.browser
          /\ z.result = x.result /\ z.code = x.code
          /\ z \in PodRows
      BY <1>0 DEF PodRows, PodSteps
    <3>2. y = [z EXCEPT !.code = 1]
      BY <2>1
    <3> HIDE DEF z
    <3> QED
      BY <3>1, <3>2 DEF PodRows
  <2>3. RowsOK' /\ \A q \in Pods : q # p => jPod'[q] = jPod[q]
    BY <1>0, <2>u, <2>1, <2>2, RewrittenRows DEF Rewritten
  <2>4. PodMoves(p)
    BY <1>0, <2>u, <2>2, <2>3 DEF PodMoves, Owning
  <2> QED
    BY <1>a, <2>u, <2>4
<1>7. CASE ContainerKilled(p)
  <2>1. /\ y = [x EXCEPT !.browser = "closed"]
        /\ jPod' = [jPod EXCEPT ![p] = y]
    BY <1>0, <1>7 DEF ContainerKilled, RowsOK
  <2>u. UNCHANGED <<jNow, jBeat, jJob, jSess>> /\ x.pc = "terminated"
    BY <1>7 DEF ContainerKilled
  <2>2. /\ y.pc = x.pc /\ y.confirmed = x.confirmed /\ y.browser = "closed" /\ y.result = x.result
        /\ y.code = x.code
        /\ y \in PodRows
    BY <1>0, <2>1 DEF PodRows, PodSteps
  <2>3. RowsOK' /\ \A q \in Pods : q # p => jPod'[q] = jPod[q]
    BY <1>0, <2>u, <2>1, <2>2, RewrittenRows DEF Rewritten
  <2>4. PodMoves(p)
    BY <1>0, <2>u, <2>2, <2>3 DEF PodMoves, Owning
  <2> QED
    BY <1>a, <2>u, <2>4
<1>8. CASE WorkThrows(p)
  <2>1. /\ y = [x EXCEPT !.pc = IF x.pc = "work" THEN "retrying" ELSE "finishing", !.browser = "closed", !.result = "failed"]
        /\ jPod' = [jPod EXCEPT ![p] = y]
    BY <1>0, <1>8 DEF WorkThrows, RowsOK
  <2>u. UNCHANGED <<jNow, jBeat, jJob, jSess>> /\ x.pc \in {"claimed", "work", "fencing"}
    BY <1>8 DEF WorkThrows
  <2>2. /\ y.confirmed = x.confirmed /\ y.browser = "closed" /\ y.result = "failed" /\ y.code = x.code
        /\ y.pc = (IF x.pc = "work" THEN "retrying" ELSE "finishing")
        /\ y \in PodRows
    <3> DEFINE z == [x EXCEPT !.pc = IF x.pc = "work" THEN "retrying" ELSE "finishing", !.browser = "closed"]
    <3>1. /\ z.confirmed = x.confirmed /\ z.browser = "closed" /\ z.result = x.result /\ z.code = x.code
            /\ z.pc = (IF x.pc = "work" THEN "retrying" ELSE "finishing")
          /\ z \in PodRows
      BY <1>0 DEF PodRows, PodSteps
    <3>2. y = [z EXCEPT !.result = "failed"]
      BY <2>1
    <3> HIDE DEF z
    <3> QED
      BY <3>1, <3>2 DEF PodRows
  <2>3. RowsOK' /\ \A q \in Pods : q # p => jPod'[q] = jPod[q]
    BY <1>0, <2>u, <2>1, <2>2, RewrittenRows DEF Rewritten
  <2>4. PodMoves(p)
    BY <1>0, <2>u, <2>2, <2>3 DEF PodMoves, Owning
  <2> QED
    BY <1>a, <2>u, <2>4
<1>9. CASE PodDies(p)
  <2>1. /\ y = [x EXCEPT !.pc = "terminated", !.browser = "closed", !.code = 1]
        /\ jPod' = [jPod EXCEPT ![p] = y]
    BY <1>0, <1>9 DEF PodDies, RowsOK
  <2>u. UNCHANGED <<jNow, jBeat, jJob, jSess>> /\ x.pc \notin {"idle", "exit", "terminated"}
    BY <1>9 DEF PodDies
  <2>2. /\ y.pc = "terminated" /\ y.confirmed = x.confirmed /\ y.browser = "closed" /\ y.result = x.result
        /\ y.code = 1
        /\ y \in PodRows
    <3> DEFINE z == [x EXCEPT !.pc = "terminated", !.browser = "closed"]
    <3>1. /\ z.pc = "terminated" /\ z.confirmed = x.confirmed /\ z.browser = "closed" /\ z.result = x.result
          /\ z.code = x.code
          /\ z \in PodRows
      BY <1>0 DEF PodRows, PodSteps
    <3>2. y = [z EXCEPT !.code = 1]
      BY <2>1
    <3> HIDE DEF z
    <3> QED
      BY <3>1, <3>2 DEF PodRows
  <2>3. RowsOK' /\ \A q \in Pods : q # p => jPod'[q] = jPod[q]
    BY <1>0, <2>u, <2>1, <2>2, RewrittenRows DEF Rewritten
  <2>4. PodMoves(p)
    BY <1>0, <2>u, <2>2, <2>3 DEF PodMoves, Owning
  <2> QED
    BY <1>a, <2>u, <2>4
<1>10. CASE LeaseTimer(p)
  <2>1. /\ y = [x EXCEPT !.pc = IF x.pc = "finish" THEN "closing" ELSE "fencing"]
        /\ jPod' = [jPod EXCEPT ![p] = y]
    BY <1>0, <1>10 DEF LeaseTimer, Triggered, RowsOK
  <2>u. UNCHANGED <<jNow, jBeat, jJob, jSess>> /\ x.pc \in {"work", "finish"}
    BY <1>10 DEF LeaseTimer, MonitorOn
  <2>2. /\ y.confirmed = x.confirmed /\ y.browser = x.browser /\ y.result = x.result /\ y.code = x.code
        /\ y.pc = (IF x.pc = "finish" THEN "closing" ELSE "fencing")
        /\ y \in PodRows
    BY <1>0, <2>1 DEF PodRows, PodSteps
  <2>3. RowsOK' /\ \A q \in Pods : q # p => jPod'[q] = jPod[q]
    BY <1>0, <2>u, <2>1, <2>2, RewrittenRows DEF Rewritten
  <2>4. PodMoves(p)
    <3>1. CASE x.pc = "work"
      <4>1. y.pc = "fencing"
        BY <2>2, <3>1
      <4> QED
        BY <1>0, <1>b, <2>u, <2>2, <2>3, <3>1, <4>1 DEF PodMoves, Owning
    <3>2. CASE x.pc = "finish"
      <4>1. y.pc = "closing"
        BY <2>2, <3>2
      <4> QED
        BY <1>0, <1>b, <2>u, <2>2, <2>3, <3>2, <4>1 DEF PodMoves, Owning
    <3> QED
      BY <2>u, <3>1, <3>2
  <2> QED
    BY <1>a, <2>u, <2>4
<1> QED
  BY <1>1, <1>2, <1>3, <1>4, <1>5, <1>6, <1>7, <1>8, <1>9, <1>10 DEF QuietStep

-----------------------------------------------------------------------------
(* The claim, and the heartbeat.                                           *)

LEMMA ClaimKeeps == ASSUME JobInv, NEW p \in Pods, ClaimJob(p) PROVE JobInv'
<1> USE LeaseAssumption DEF JobInv
<1> DEFINE x == jPod[p]
           y == jPod'[p]
<1>0. x \in PodRows /\ jNow \in 0..MaxTime /\ RowsOK
  BY DEF RowsOK
<1>u. x.pc = "claiming" /\ UNCHANGED <<jNow, jSess, jBeat>> /\ x.browser = "closed" /\ jBeat[p].st = "none"
  <2>1. x.browser = "closed"
    BY <1>0 DEF OwnersOnly, PodRows, ClaimJob
  <2> QED
    BY <2>1 DEF ClaimJob, LeaseCovers
<1>1. CASE jJob.status = "starting" /\ jSess = "active"
  <2>1. /\ jJob' = [jJob EXCEPT !.status = "running", !.owner = p, !.expires = jNow + Lease]
        /\ jPod' = [jPod EXCEPT ![p] = y] /\ y = [x EXCEPT !.pc = "claimed"]
    BY <1>0, <1>1 DEF ClaimJob, RowsOK
  <2>2. /\ y.pc = "claimed" /\ y.confirmed = x.confirmed /\ y.browser = "closed"
        /\ y \in PodRows
    BY <1>0, <1>u, <2>1 DEF PodRows, PodSteps
  <2>3. \A q \in Pods : q # p => jPod'[q] = jPod[q]
    BY <1>0, <2>1 DEF RowsOK
  <2>4. /\ jJob'.status = "running" /\ jJob'.owner = p /\ jJob'.expires = jNow + Lease /\ jJob'.by = jJob.by
        /\ jJob' \in JobRows
    <3> DEFINE j == [jJob EXCEPT !.status = "running", !.owner = p]
    <3>1. j \in JobRows /\ j.status = "running" /\ j.owner = p /\ j.by = jJob.by
      BY <1>0 DEF RowsOK, JobRows
    <3>2. jJob' = [j EXCEPT !.expires = jNow + Lease] /\ jNow + Lease \in 0..(MaxTime + Lease)
      BY <1>0, <2>1
    <3> HIDE DEF j
    <3> QED
      BY <3>1, <3>2 DEF JobRows
  <2>5. RowsOK'
    BY <1>0, <1>u, <2>1, <2>2, <2>4 DEF RowsOK
  <2>6. jJob.owner = NoPod /\ jJob.by # "worker"
    BY <1>1 DEF RowIsHonest, Terminal
  <2>7. \A q \in Pods : jPod[q].pc \notin Owning /\ jPod[q].browser # "open"
    BY <2>6 DEF OwnersOnly, Owning
  <2>8. OwnersOnly'
    BY <2>2, <2>3, <2>4, <2>7 DEF OwnersOnly, Owning
  <2>9. RowIsHonest' /\ NothingLeft'
    BY <1>1, <1>u, <2>4, <2>6 DEF RowIsHonest, NothingLeft
  <2>10. ZeroIsDone'
    BY <1>1, <2>2, <2>3 DEF ZeroIsDone, Terminal
  <2>11. LeaseCovers'
    <3> SUFFICES ASSUME NEW q \in Pods
                 PROVE  /\ jPod'[q].pc \in {"claimed", "work", "finish"} /\ jJob'.status = "running" =>
                             /\ jPod'[q].confirmed + Lease <= jJob'.expires
                             /\ jBeat[q].st = "running" => jBeat[q].at + Lease <= jJob'.expires
                        /\ jPod'[q].confirmed <= jNow
                        /\ jBeat[q].st # "none" => jPod'[q].confirmed <= jBeat[q].at /\ jBeat[q].at <= jNow
                        /\ jPod'[q].pc \in {"idle", "claiming", "claimed", "lost", "observing"} => jBeat[q].st = "none"
      BY <1>u DEF LeaseCovers
    <3>1. CASE q # p
      BY <2>3, <2>7, <3>1 DEF LeaseCovers, Owning
    <3>2. CASE q = p
      <4>1. x.confirmed <= jNow /\ x.confirmed + Lease <= jNow + Lease
        BY <1>0 DEF LeaseCovers, PodRows
      <4> QED
        BY <1>u, <2>2, <2>4, <3>2, <4>1
    <3> QED
      BY <3>1, <3>2
  <2>12. WithinDeadline'
    BY <2>2, <2>3, <2>7 DEF WithinDeadline, MonitorOn, Owning
  <2> QED
    BY <2>5, <2>8, <2>9, <2>10, <2>11, <2>12
<1>2. CASE ~(jJob.status = "starting" /\ jSess = "active")
  <2>1. /\ UNCHANGED jJob
        /\ jPod' = [jPod EXCEPT ![p] = y] /\ y = [x EXCEPT !.pc = "lost"]
    BY <1>0, <1>2 DEF ClaimJob, RowsOK
  <2>2. /\ y.pc = "lost" /\ y.confirmed = x.confirmed /\ y.browser = "closed"
        /\ y \in PodRows
    BY <1>0, <1>u, <2>1 DEF PodRows, PodSteps
  <2>3. RowsOK' /\ \A q \in Pods : q # p => jPod'[q] = jPod[q]
    BY <1>0, <1>u, <2>1, <2>2, RewrittenRows DEF Rewritten
  <2>4. PodMoves(p)
    BY <1>0, <1>u, <2>2, <2>3 DEF PodMoves, Owning
  <2> QED
    BY <1>u, <2>1, <2>4, SameRow, MovesKeep
<1> QED
  BY <1>1, <1>2

LEMMA SendBeatKeeps == ASSUME JobInv, NEW p \in Pods, SendBeat(p) PROVE JobInv'
<1> USE LeaseAssumption DEF JobInv
<1>1. /\ jPod[p].pc \in {"work", "finish", "retrying"} /\ UNCHANGED <<jNow, jJob, jSess, jPod>>
      /\ jBeat' = [jBeat EXCEPT ![p] = [st |-> "sent", at |-> jNow]]
  BY DEF SendBeat, MonitorOn
<1>2. [st |-> "sent", at |-> jNow] \in BeatRows
  BY DEF BeatRows, RowsOK
<1>3. RowsOK'
  BY <1>1, <1>2 DEF RowsOK
<1>4. jBeat'[p].st = "sent" /\ jBeat'[p].at = jNow /\ \A q \in Pods : q # p => jBeat'[q] = jBeat[q]
  BY <1>1 DEF RowsOK
<1>5. LeaseCovers'
  <2>1. jNow <= jNow
    BY DEF RowsOK
  <2> QED
    BY <1>1, <1>4, <2>1 DEF LeaseCovers
<1> QED
  BY <1>1, <1>3, <1>5 DEF OwnersOnly, RowIsHonest, NothingLeft, ZeroIsDone, WithinDeadline, MonitorOn,
     Deadline

LEMMA BeatExecutesKeeps == ASSUME JobInv, NEW p \in Pods, BeatExecutes(p) PROVE JobInv'
<1> USE LeaseAssumption DEF JobInv
<1>0. jNow \in 0..MaxTime /\ jBeat[p] \in BeatRows /\ jJob \in JobRows
  BY DEF RowsOK
<1>1. jBeat[p].st = "sent" /\ UNCHANGED <<jNow, jSess, jPod>>
  BY DEF BeatExecutes
<1>2. PICK st \in {"running", "revoked"} :
        /\ jBeat' = [jBeat EXCEPT ![p].st = st]
        /\ \/ UNCHANGED jJob /\ st = "revoked"
           \/ /\ jJob.status = "running" /\ jJob.owner = p
              /\ jJob' = [jJob EXCEPT !.expires = jNow + Lease]
  BY DEF BeatExecutes
<1>3. /\ jBeat'[p].st = st /\ jBeat'[p].at = jBeat[p].at /\ jBeat' \in [Pods -> BeatRows]
      /\ \A q \in Pods : q # p => jBeat'[q] = jBeat[q]
  BY <1>0, <1>2 DEF RowsOK, BeatRows
<1>5. CASE UNCHANGED jJob /\ st = "revoked"
  <2>1. RowsOK'
    BY <1>1, <1>3, <1>5 DEF RowsOK
  <2>2. LeaseCovers'
    BY <1>1, <1>3, <1>5 DEF LeaseCovers
  <2> QED
    BY <1>1, <1>5, <2>1, <2>2 DEF OwnersOnly, RowIsHonest, NothingLeft, ZeroIsDone, WithinDeadline,
       MonitorOn, Deadline
<1>6. CASE jJob.status = "running" /\ jJob.owner = p /\ jJob' = [jJob EXCEPT !.expires = jNow + Lease]
  <2>0. jNow + Lease \in 0..(MaxTime + Lease)
    BY <1>0
  <2>1. /\ jJob'.status = jJob.status /\ jJob'.owner = p /\ jJob'.by = jJob.by
        /\ jJob'.expires = jNow + Lease
        /\ jJob' \in JobRows
    BY <1>0, <1>6, <2>0 DEF JobRows
  <2>2. RowsOK'
    BY <1>1, <1>3, <2>1 DEF RowsOK
  <2>3. LeaseCovers'
    <3> SUFFICES ASSUME NEW q \in Pods
                 PROVE  /\ jPod[q].pc \in {"claimed", "work", "finish"} /\ jJob'.status = "running" =>
                             /\ jPod[q].confirmed + Lease <= jJob'.expires
                             /\ jBeat'[q].st = "running" => jBeat'[q].at + Lease <= jJob'.expires
                        /\ jPod[q].confirmed <= jNow
                        /\ jBeat'[q].st # "none" => jPod[q].confirmed <= jBeat'[q].at /\ jBeat'[q].at <= jNow
                        /\ jPod[q].pc \in {"idle", "claiming", "claimed", "lost", "observing"} => jBeat'[q].st = "none"
      BY <1>1 DEF LeaseCovers
    <3>1. CASE q # p
      BY <1>3, <1>6, <3>1 DEF LeaseCovers, OwnersOnly
    <3>2. CASE q = p
      <4>1. jPod[p].confirmed <= jNow /\ jBeat[p].at <= jNow /\ jPod[p].confirmed <= jBeat[p].at
        BY <1>1 DEF LeaseCovers
      <4>2. jPod[p].confirmed \in Nat /\ jBeat[p].at \in Nat
        BY <1>0 DEF RowsOK, PodRows, BeatRows
      <4>3. jPod[p].confirmed + Lease <= jNow + Lease /\ jBeat[p].at + Lease <= jNow + Lease
        BY <1>0, <4>1, <4>2
      <4>4. jPod[p].pc \notin {"idle", "claiming", "claimed", "lost", "observing"}
        BY <1>1 DEF LeaseCovers
      <4> QED
        BY <1>3, <2>1, <3>2, <4>1, <4>3, <4>4
    <3> QED
      BY <3>1, <3>2
  <2> QED
    BY <1>1, <1>6, <2>1, <2>2, <2>3
       DEF OwnersOnly, RowIsHonest, NothingLeft, ZeroIsDone, WithinDeadline, MonitorOn, Deadline
<1> QED
  BY <1>2, <1>5, <1>6

\* The answer renews, ends the monitor, or finds it already off.
LEMMA BeatAnsweredKeeps == ASSUME JobInv, NEW p \in Pods, BeatAnswered(p) PROVE JobInv'
<1> USE LeaseAssumption DEF JobInv
<1> DEFINE x == jPod[p]
           y == jPod'[p]
           b == jBeat[p]
<1>0. x \in PodRows /\ b \in BeatRows /\ jNow \in 0..MaxTime /\ RowsOK
  BY DEF RowsOK
<1>1. /\ b.st \in {"running", "revoked"} /\ UNCHANGED <<jNow, jJob, jSess>>
      /\ jBeat' = [jBeat EXCEPT ![p].st = "none"]
  BY DEF BeatAnswered
<1>2. /\ jBeat'[p].st = "none" /\ jBeat' \in [Pods -> BeatRows]
      /\ \A q \in Pods : q # p => jBeat'[q] = jBeat[q]
  BY <1>0, <1>1 DEF RowsOK, BeatRows
<1>3. x.browser = "open" => x.pc \in {"work", "fencing", "terminated"}
  BY DEF OwnersOnly
<1>4. CASE jPod' = jPod
  <2>1. RowsOK'
    BY <1>1, <1>2, <1>4 DEF RowsOK
  <2>2. LeaseCovers'
    BY <1>1, <1>2, <1>4 DEF LeaseCovers
  <2> QED
    BY <1>1, <1>4, <2>1, <2>2 DEF OwnersOnly, RowIsHonest, NothingLeft, ZeroIsDone, WithinDeadline,
       MonitorOn, Deadline
<1>5. CASE MonitorOn(p) /\ jPod' = Triggered(p)
  <2>1. /\ y = [x EXCEPT !.pc = IF x.pc = "finish" THEN "closing" ELSE "fencing"]
        /\ jPod' = [jPod EXCEPT ![p] = y] /\ x.pc \in {"work", "finish"}
    BY <1>0, <1>5 DEF Triggered, MonitorOn, RowsOK
  <2>2. /\ y.confirmed = x.confirmed /\ y.browser = x.browser /\ y.code = x.code
        /\ y.pc = (IF x.pc = "finish" THEN "closing" ELSE "fencing")
        /\ y \in PodRows
    BY <1>0, <2>1 DEF PodRows, PodSteps
  <2>3. RowsOK' /\ \A q \in Pods : q # p => jPod'[q] = jPod[q]
    BY <1>0, <1>1, <1>2, <2>1, <2>2 DEF RowsOK
  <2>4. x.pc = "work" => y.pc = "fencing"
    BY <2>2
  <2>5. x.pc = "finish" => y.pc = "closing"
    BY <2>2
  <2>6. \A q \in Pods : jBeat'[q] = jBeat[q] \/ jBeat'[q].st = "none"
    BY <1>2
  <2> HIDE DEF x, y
  <2>7. PodMoves(p)
    BY <1>0, <1>1, <1>3, <2>1, <2>2, <2>3, <2>4, <2>5, <2>6 DEF PodMoves, Owning, x, y
  <2> QED
    BY <1>1, <2>7, SameRow, MovesKeep
<1>6. CASE MonitorOn(p) /\ b.st = "running" /\ jPod' = [jPod EXCEPT ![p].confirmed = b.at]
  <2>1. y = [x EXCEPT !.confirmed = b.at] /\ jPod' = [jPod EXCEPT ![p] = y] /\ x.pc \in {"work", "finish"}
    BY <1>0, <1>6 DEF MonitorOn, RowsOK
  <2>2. /\ y.pc = x.pc /\ y.confirmed = b.at /\ y.browser = x.browser /\ y.code = x.code
        /\ y \in PodRows
    BY <1>0, <2>1 DEF PodRows, BeatRows
  <2>3. \A q \in Pods : q # p => jPod'[q] = jPod[q]
    BY <1>0, <2>1 DEF RowsOK
  <2>4. RowsOK'
    BY <1>0, <1>1, <1>2, <2>1, <2>2 DEF RowsOK
  <2>5. \A q \in Pods : jPod'[q].pc = jPod[q].pc /\ jPod'[q].browser = jPod[q].browser /\ jPod'[q].code = jPod[q].code
    BY <2>2, <2>3
  <2>6. OwnersOnly' /\ RowIsHonest' /\ NothingLeft' /\ ZeroIsDone'
    BY <1>1, <2>5 DEF OwnersOnly, RowIsHonest, NothingLeft, ZeroIsDone
  <2>7. x.confirmed <= b.at /\ b.at <= jNow
    BY <1>1 DEF LeaseCovers
  <2>8. LeaseCovers'
    BY <1>1, <1>2, <1>6, <2>1, <2>2, <2>3, <2>7 DEF LeaseCovers
  <2>9. WithinDeadline'
    <3> SUFFICES ASSUME NEW q \in Pods, jPod'[q].pc \in {"work", "finish"}
                 PROVE  jNow <= jPod'[q].confirmed + Lease - Grace
      BY <1>1 DEF WithinDeadline, MonitorOn, Deadline
    <3>1. jNow <= jPod[q].confirmed + Lease - Grace
      BY <2>5 DEF WithinDeadline, MonitorOn, Deadline
    <3>2. CASE q = p
      <4>1. x.confirmed \in Nat /\ b.at \in Nat
        BY <1>0 DEF PodRows, BeatRows
      <4> QED
        BY <1>0, <2>2, <2>7, <3>1, <3>2, <4>1
    <3> QED
      BY <2>3, <3>1, <3>2
  <2> QED
    BY <2>4, <2>6, <2>8, <2>9
<1> QED
  BY <1>1, <1>4, <1>5, <1>6 DEF BeatAnswered

LEMMA BeatFailsKeeps == ASSUME JobInv, NEW p \in Pods, BeatFails(p) PROVE JobInv'
<1> USE DEF JobInv
<1>1. UNCHANGED <<jNow, jJob, jSess, jPod>> /\ jBeat' = [jBeat EXCEPT ![p].st = "none"]
  BY DEF BeatFails
<1>2. /\ jBeat'[p].st = "none" /\ jBeat' \in [Pods -> BeatRows]
      /\ \A q \in Pods : q # p => jBeat'[q] = jBeat[q]
  BY <1>1 DEF RowsOK, BeatRows
<1>3. RowsOK' /\ LeaseCovers'
  BY <1>1, <1>2 DEF RowsOK, LeaseCovers
<1> QED
  BY <1>1, <1>3 DEF OwnersOnly, RowIsHonest, NothingLeft, ZeroIsDone, WithinDeadline, MonitorOn, Deadline

-----------------------------------------------------------------------------
(* The end of the work, and the finish query.                              *)

LEMMA WorkEndsKeeps == ASSUME JobInv, NEW p \in Pods, WorkEnds(p) PROVE JobInv'
<1> USE LeaseAssumption DEF JobInv
<1> DEFINE x == jPod[p]
           y == jPod'[p]
<1>0. x \in PodRows /\ jJob \in JobRows /\ RowsOK
  BY DEF RowsOK
<1>1. PICK result \in {"ok", "failed"} :
        /\ jPod' = [jPod EXCEPT ![p].pc = IF @ = "work" THEN "finish" ELSE "closing",
                                ![p].browser = "closed", ![p].result = result]
        /\ jSess' = IF jSess = "active" /\ jJob.status = "running" /\ jJob.owner = p /\ jJob.expires > jNow
                    THEN (IF result = "ok" THEN "completed" ELSE "failed") ELSE jSess
  BY DEF WorkEnds
<1>2. UNCHANGED <<jNow, jJob, jBeat>> /\ x.pc \in {"work", "fencing"} /\ jJob.owner = p
  BY DEF WorkEnds, OwnersOnly
<1>3. /\ y = [x EXCEPT !.pc = IF x.pc = "work" THEN "finish" ELSE "closing", !.browser = "closed", !.result = result]
      /\ jPod' = [jPod EXCEPT ![p] = y]
  BY <1>0, <1>1 DEF RowsOK
<1>4. /\ y.confirmed = x.confirmed /\ y.browser = "closed"
      /\ y.pc = (IF x.pc = "work" THEN "finish" ELSE "closing")
      /\ y \in PodRows
  <2> DEFINE z == [x EXCEPT !.pc = IF x.pc = "work" THEN "finish" ELSE "closing", !.browser = "closed"]
  <2>1. /\ z.confirmed = x.confirmed /\ z.browser = "closed"
        /\ z.pc = (IF x.pc = "work" THEN "finish" ELSE "closing")
        /\ z \in PodRows
    BY <1>0 DEF PodRows, PodSteps
  <2>2. y = [z EXCEPT !.result = result]
    BY <1>3
  <2> HIDE DEF z
  <2> QED
    BY <2>1, <2>2 DEF PodRows
<1>5. /\ jSess' \in {"active", "cancelling", "completed", "failed", "cancelled"}
      /\ jSess = "completed" => jSess' = "completed"
  BY <1>0, <1>1 DEF RowsOK
<1>6. RowsOK' /\ \A q \in Pods : q # p => jPod'[q] = jPod[q]
  BY <1>0, <1>2, <1>3, <1>4, <1>5 DEF RowsOK
<1>7. (x.pc = "work" => y.pc = "finish") /\ (x.pc = "fencing" => y.pc = "closing")
  BY <1>4
<1> HIDE DEF x, y
<1>8. PodMoves(p)
  BY <1>2, <1>4, <1>6, <1>7 DEF PodMoves, Owning, x, y
<1>9. RowMoves(p)
  BY <1>2, <1>4, <1>5, <1>7 DEF RowMoves, RowIsHonest, x, y
<1> QED
  BY <1>8, <1>9, MovesKeep

\* What the finish query makes of the row.
LEMMA EndedRowFacts ==
  ASSUME RowsOK, NEW p \in Pods
  PROVE  \/ EndedRow(p) = jJob /\ ~Mine(p)
         \/ /\ Mine(p) /\ EndedRow(p) \in JobRows /\ EndedRow(p).owner = jJob.owner
            /\ EndedRow(p).by = "worker" /\ EndedRow(p).status \in Terminal
<1> DEFINE st == IF jJob.status = "cancel_requested" THEN "cancelled"
                 ELSE IF jPod[p].result = "ok" THEN "succeeded" ELSE "failed"
<1>1. st \in Terminal
  BY DEF Terminal
<1>2. EndedRow(p) = IF Mine(p) THEN [jJob EXCEPT !.status = st, !.expires = 0, !.by = "worker"] ELSE jJob
  BY DEF EndedRow
<1> HIDE DEF st
<1> DEFINE j == [jJob EXCEPT !.status = st, !.expires = 0]
<1>0. jJob \in JobRows /\ 0 \in 0..(MaxTime + Lease)
  BY LeaseAssumption DEF RowsOK
<1>3. j \in JobRows /\ j.owner = jJob.owner /\ j.status = st
  BY <1>0, <1>1 DEF JobRows
<1>4. [jJob EXCEPT !.status = st, !.expires = 0, !.by = "worker"] = [j EXCEPT !.by = "worker"]
  OBVIOUS
<1> HIDE DEF j
<1>5. /\ [j EXCEPT !.by = "worker"] \in JobRows /\ [j EXCEPT !.by = "worker"].owner = jJob.owner
      /\ [j EXCEPT !.by = "worker"].by = "worker" /\ [j EXCEPT !.by = "worker"].status = st
  BY <1>3 DEF JobRows
<1> QED
  BY <1>1, <1>2, <1>4, <1>5

\* The finish query is executed, or not, and the pod goes on to its catch block
\* or out.
LEMMA FinishKeeps == ASSUME JobInv, NEW p \in Pods, FinishJob(p) \/ FinishFails(p) PROVE JobInv'
<1> USE LeaseAssumption DEF JobInv
<1> DEFINE x == jPod[p]
           y == jPod'[p]
<1>0. x \in PodRows /\ jJob \in JobRows /\ RowsOK /\ jPod \in [Pods -> PodRows]
  BY DEF RowsOK
<1>1. /\ UNCHANGED <<jNow, jSess, jBeat>> /\ jJob' \in {jJob, EndedRow(p)}
      /\ x.pc \in {"finish", "closing", "finishing", "retrying"}
  BY DEF FinishJob, FinishFails
<1>2. x.browser = "closed" /\ jJob.owner = p
  BY <1>0, <1>1 DEF OwnersOnly, PodRows
<1>3. /\ y.pc \in {"retrying", "finishing", "exit"} /\ y.browser = "closed" /\ y.confirmed = x.confirmed
      /\ y \in PodRows /\ jPod' = [jPod EXCEPT ![p] = y]
      /\ y.pc = "exit" /\ y.code = 0 => Mine(p) /\ jJob' = EndedRow(p)
  <2>1. CASE FinishJob(p)
    <3> DEFINE c == IF Mine(p) /\ jJob.status = "running" /\ x.result = "ok" THEN 0 ELSE 1
    <3>1. c \in 0..1 /\ (c = 0 => Mine(p))
      OBVIOUS
    <3>2. jPod' = [jPod EXCEPT ![p].pc = "exit", ![p].code = c] /\ jJob' = EndedRow(p)
      BY <2>1 DEF FinishJob
    <3> HIDE DEF c
    <3>3. y = [x EXCEPT !.pc = "exit", !.code = c] /\ jPod' = [jPod EXCEPT ![p] = y]
      BY <1>0, <3>2
    <3>4. y.pc = "exit" /\ y.code = c /\ y.browser = "closed" /\ y.confirmed = x.confirmed /\ y \in PodRows
      <4> DEFINE z == [x EXCEPT !.pc = "exit"]
      <4>1. z.pc = "exit" /\ z.browser = "closed" /\ z.confirmed = x.confirmed /\ z \in PodRows
        BY <1>0, <1>2 DEF PodRows, PodSteps
      <4>2. y = [z EXCEPT !.code = c]
        BY <3>3
      <4> HIDE DEF z
      <4> QED
        BY <3>1, <4>1, <4>2 DEF PodRows
    <3> QED
      BY <3>1, <3>2, <3>3, <3>4
  <2>2. CASE jPod' = [jPod EXCEPT ![p].pc = IF @ = "finish" THEN "retrying" ELSE "finishing", ![p].result = "failed"]
    <3> DEFINE s == IF x.pc = "finish" THEN "retrying" ELSE "finishing"
    <3>1. s \in {"retrying", "finishing"}
      OBVIOUS
    <3>2. y = [x EXCEPT !.pc = s, !.result = "failed"] /\ jPod' = [jPod EXCEPT ![p] = y]
      BY <1>0, <2>2
    <3> HIDE DEF s
    <3>3. y.pc = s /\ y.browser = "closed" /\ y.confirmed = x.confirmed /\ y \in PodRows
      <4> DEFINE z == [x EXCEPT !.pc = s]
      <4>1. z.pc = s /\ z.browser = "closed" /\ z.confirmed = x.confirmed /\ z \in PodRows
        BY <1>0, <1>2, <3>1 DEF PodRows, PodSteps
      <4>2. y = [z EXCEPT !.result = "failed"]
        BY <3>2
      <4> HIDE DEF z
      <4> QED
        BY <4>1, <4>2 DEF PodRows
    <3> QED
      BY <3>1, <3>2, <3>3
  <2>3. CASE jPod' = [jPod EXCEPT ![p].pc = "exit", ![p].code = 1]
    <3>1. y = [x EXCEPT !.pc = "exit", !.code = 1] /\ jPod' = [jPod EXCEPT ![p] = y]
      BY <1>0, <2>3
    <3>2. y.pc = "exit" /\ y.code = 1 /\ y.browser = "closed" /\ y.confirmed = x.confirmed /\ y \in PodRows
      <4> DEFINE z == [x EXCEPT !.pc = "exit"]
      <4>1. z.pc = "exit" /\ z.browser = "closed" /\ z.confirmed = x.confirmed /\ z \in PodRows
        BY <1>0, <1>2 DEF PodRows, PodSteps
      <4>2. y = [z EXCEPT !.code = 1]
        BY <3>1
      <4> HIDE DEF z
      <4> QED
        BY <4>1, <4>2 DEF PodRows
    <3> QED
      BY <3>1, <3>2
  <2> QED
    BY <2>1, <2>2, <2>3 DEF FinishFails
<1> HIDE DEF x, y
<1>4. \/ jJob' = jJob
      \/ /\ Mine(p) /\ jJob' = EndedRow(p) /\ jJob' \in JobRows /\ jJob'.owner = jJob.owner
         /\ jJob'.by = "worker" /\ jJob'.status \in Terminal
  BY <1>0, <1>1, EndedRowFacts
<1>5. RowsOK' /\ \A q \in Pods : q # p => jPod'[q] = jPod[q]
  BY <1>0, <1>1, <1>3, <1>4 DEF RowsOK
<1>6. y.pc = "exit" /\ y.code = 0 => jJob'.status \in Terminal /\ jJob'.by = "worker"
  BY <1>0, <1>3, EndedRowFacts
<1>7. PodMoves(p)
  BY <1>1, <1>2, <1>3, <1>5, <1>6 DEF PodMoves, Owning, x, y
<1>8. RowMoves(p)
  <2>1. CASE jJob' = jJob
    BY <1>1, <2>1, SameRow
  <2>2. CASE jJob'.owner = jJob.owner /\ jJob'.by = "worker" /\ jJob'.status \in Terminal
    BY <1>1, <1>2, <1>3, <2>2 DEF RowMoves, Terminal, x, y
  <2> QED
    BY <1>4, <2>1, <2>2
<1> QED
  BY <1>7, <1>8, MovesKeep

-----------------------------------------------------------------------------
(* The control plane.                                                      *)

LEMMA CancelKeeps == ASSUME JobInv, OperatorCancels PROVE JobInv'
<1> USE DEF JobInv
<1>1. /\ jSess = "active" /\ jSess' = "cancelling" /\ UNCHANGED <<jNow, jJob, jPod, jBeat>>
  BY DEF OperatorCancels
<1> QED
  BY <1>1 DEF RowsOK, OwnersOnly, RowIsHonest, NothingLeft, ZeroIsDone, LeaseCovers, WithinDeadline,
     MonitorOn, Deadline

\* The reaper leaves the owner and a lease alone, and reopens nothing.
LEMMA ReaperMoves ==
  ASSUME RowsOK, ReapStaleCrawlJobs
  PROVE  /\ UNCHANGED <<jNow, jPod, jBeat>>
         /\ jJob' \in JobRows /\ jJob'.owner = jJob.owner
         /\ jJob'.status \in {"starting", "running"} => jJob'.status = jJob.status /\ jJob'.expires = jJob.expires
         /\ jJob.status \in Terminal => jJob' = jJob
         /\ jJob'.by = "worker" => jJob.by = "worker"
         /\ jSess' \in {"active", "cancelling", "completed", "failed", "cancelled"}
         /\ jSess' = "completed" <=> jSess = "completed"
<1> DEFINE live == {"starting", "running"}
           asked == IF jSess = "cancelling" /\ jJob.status \in live THEN "cancel_requested" ELSE jJob.status
           over == jJob.expires < jNow
           final == IF asked = "cancel_requested" /\ over THEN "cancelled"
                    ELSE IF asked \in live /\ over THEN "failed" ELSE asked
<1>0. jJob \in JobRows /\ 0 \in 0..(MaxTime + Lease)
  BY LeaseAssumption DEF RowsOK
<1>1. /\ jJob' = IF final \in Terminal /\ jJob.status \notin Terminal
                 THEN [jJob EXCEPT !.status = final, !.expires = 0, !.by = "reaper"]
                 ELSE [jJob EXCEPT !.status = final]
      /\ jSess' = IF jSess = "cancelling" /\ final \in Terminal THEN "cancelled"
                  ELSE IF final = "failed" /\ jJob.status \notin Terminal /\ jSess = "active" THEN "failed" ELSE jSess
      /\ UNCHANGED <<jNow, jPod, jBeat>>
  BY DEF ReapStaleCrawlJobs
<1>2. /\ final \in {"starting", "running", "cancel_requested"} \cup Terminal
      /\ final \in {"starting", "running"} => final = jJob.status
      /\ jJob.status \in Terminal => final = jJob.status
  BY <1>0 DEF JobRows, Terminal
<1> HIDE DEF final
<1>3. /\ jSess' \in {"active", "cancelling", "completed", "failed", "cancelled"}
      /\ jSess' = "completed" <=> jSess = "completed"
  BY <1>1 DEF RowsOK
<1>4. CASE final \in Terminal /\ jJob.status \notin Terminal
  <2> DEFINE j == [jJob EXCEPT !.status = final, !.expires = 0]
  <2>1. j \in JobRows /\ j.owner = jJob.owner /\ j.status = final
    BY <1>0, <1>2 DEF JobRows
  <2>2. jJob' = [j EXCEPT !.by = "reaper"]
    BY <1>1, <1>4
  <2> HIDE DEF j
  <2>3. jJob' \in JobRows /\ jJob'.owner = jJob.owner /\ jJob'.status = final /\ jJob'.by = "reaper"
    BY <2>1, <2>2 DEF JobRows
  <2> QED
    BY <1>1, <1>3, <1>4, <2>3 DEF Terminal
<1>5. CASE ~(final \in Terminal /\ jJob.status \notin Terminal)
  <2>1. jJob' = [jJob EXCEPT !.status = final]
    BY <1>1, <1>5
  <2>2. /\ jJob' \in JobRows /\ jJob'.owner = jJob.owner /\ jJob'.status = final /\ jJob'.by = jJob.by
        /\ jJob'.expires = jJob.expires
    BY <1>0, <1>2, <2>1 DEF JobRows
  <2>3. jJob.status \in Terminal => jJob' = jJob
    BY <1>0, <1>2, <2>1 DEF JobRows
  <2> QED
    BY <1>1, <1>2, <1>3, <2>2, <2>3
<1> QED
  BY <1>4, <1>5

LEMMA ReaperKeeps == ASSUME JobInv, ReapStaleCrawlJobs PROVE JobInv'
<1> USE DEF JobInv
<1>1. /\ UNCHANGED <<jNow, jPod, jBeat>>
      /\ jJob' \in JobRows /\ jJob'.owner = jJob.owner
      /\ jJob'.status \in {"starting", "running"} => jJob'.status = jJob.status /\ jJob'.expires = jJob.expires
      /\ jJob.status \in Terminal => jJob' = jJob
      /\ jJob'.by = "worker" => jJob.by = "worker"
      /\ jSess' \in {"active", "cancelling", "completed", "failed", "cancelled"}
      /\ jSess' = "completed" <=> jSess = "completed"
  BY ReaperMoves
<1>2. RowsOK' /\ OwnersOnly' /\ WithinDeadline'
  BY <1>1 DEF RowsOK, OwnersOnly, WithinDeadline, MonitorOn, Deadline
<1>3. RowIsHonest'
  BY <1>1 DEF RowIsHonest
<1>4. NothingLeft' /\ ZeroIsDone'
  BY <1>1 DEF NothingLeft, ZeroIsDone
<1>5. LeaseCovers'
  BY <1>1 DEF LeaseCovers
<1> QED
  BY <1>2, <1>3, <1>4, <1>5

LEMMA TickKeeps == ASSUME JobInv, Tick PROVE JobInv'
<1> USE LeaseAssumption DEF JobInv
<1>1. /\ jNow \in 0..MaxTime /\ jNow < MaxTime /\ jNow' = jNow + 1 /\ UNCHANGED <<jJob, jSess, jPod, jBeat>>
      /\ \A p \in Pods : MonitorOn(p) => jNow < Deadline(p)
  BY DEF Tick, RowsOK
<1>2. RowsOK'
  BY <1>1 DEF RowsOK
<1>3. \A p \in Pods : jPod[p].confirmed \in Nat /\ jBeat[p].at \in Nat
  BY DEF RowsOK, PodRows, BeatRows
<1>4. WithinDeadline'
  <2> SUFFICES ASSUME NEW p \in Pods, MonitorOn(p) PROVE jNow + 1 <= Deadline(p)
    BY <1>1 DEF WithinDeadline, MonitorOn, Deadline
  <2> QED
    BY <1>1, <1>3 DEF Deadline
<1>5. LeaseCovers'
  <2>1. \A p \in Pods : /\ jPod[p].confirmed <= jNow + 1
                        /\ jBeat[p].st # "none" => jBeat[p].at <= jNow + 1
    BY <1>1, <1>3 DEF LeaseCovers
  <2> QED
    BY <1>1, <2>1 DEF LeaseCovers
<1> QED
  BY <1>1, <1>2, <1>4, <1>5 DEF OwnersOnly, RowIsHonest, NothingLeft, ZeroIsDone

-----------------------------------------------------------------------------

LEMMA JobInvAlways == JobSpec => []JobInv
<1>1. JobInit => JobInv
  BY JobInitHolds
<1>2. JobInv /\ [JobNext]_jobVars => JobInv'
  <2> SUFFICES ASSUME JobInv, [JobNext]_jobVars PROVE JobInv'
    OBVIOUS
  <2>1. CASE UNCHANGED jobVars
    BY <2>1 DEF jobVars, JobInv, RowsOK, OwnersOnly, RowIsHonest, NothingLeft, ZeroIsDone, LeaseCovers,
                WithinDeadline, MonitorOn, Deadline
  <2>2. ASSUME NEW p \in Pods, QuietStep(p) PROVE JobInv'
    BY <2>2, QuietKeeps
  <2>3. ASSUME NEW p \in Pods, ClaimJob(p) PROVE JobInv'
    BY <2>3, ClaimKeeps
  <2>4. ASSUME NEW p \in Pods, SendBeat(p) \/ BeatExecutes(p) \/ BeatAnswered(p) \/ BeatFails(p)
        PROVE  JobInv'
    BY <2>4, SendBeatKeeps, BeatExecutesKeeps, BeatAnsweredKeeps, BeatFailsKeeps
  <2>5. ASSUME NEW p \in Pods, WorkEnds(p) PROVE JobInv'
    BY <2>5, WorkEndsKeeps
  <2>6. ASSUME NEW p \in Pods, FinishJob(p) \/ FinishFails(p) PROVE JobInv'
    BY <2>6, FinishKeeps
  <2>7. CASE OperatorCancels \/ ReapStaleCrawlJobs \/ Tick
    BY <2>7, CancelKeeps, ReaperKeeps, TickKeeps
  <2> QED
    BY <2>1, <2>2, <2>3, <2>4, <2>5, <2>6, <2>7 DEF JobNext, QuietStep
<1> QED
  BY <1>1, <1>2, PTL DEF JobSpec

\* Nobody takes a durable job over in front of a browser: a worker that still
\* crawls has the grace left on its lease, a job its worker made terminal and a
\* pod that exits with 0 have no browser beside them - for any number of pods
\* and any lease longer than its grace (startOwnershipMonitor, the fence, and
\* accrawl_claim/heartbeat/finish_crawl_job).
THEOREM OwnerFenced == JobSpec => []OwnerIsFenced
<1>1. JobInv => OwnerIsFenced
  <2> SUFFICES ASSUME JobInv PROVE OwnerIsFenced
    OBVIOUS
  <2> USE LeaseAssumption DEF JobInv
  <2>1. JobTypeOK
    BY RowsAreTypes
  <2>2. WorkerStopsFirst
    <3> SUFFICES ASSUME NEW p \in Pods, jPod[p].pc = "work", jJob.status = "running"
                 PROVE  jNow + Grace <= jJob.expires
      BY DEF WorkerStopsFirst
    <3>1. jPod[p].confirmed + Lease <= jJob.expires
      BY DEF LeaseCovers
    <3>2. jNow <= jPod[p].confirmed + Lease - Grace
      BY DEF WithinDeadline, MonitorOn, Deadline
    <3>3. jNow \in Nat /\ jPod[p].confirmed \in Nat /\ jJob.expires \in Nat
      BY DEF RowsOK, PodRows, JobRows
    <3> QED
      BY <3>1, <3>2, <3>3
  <2>3. FinishedBehindFence /\ SuccessEndsAll
    BY DEF FinishedBehindFence, SuccessEndsAll, NothingLeft, ZeroIsDone
  <2> QED
    BY <2>1, <2>2, <2>3 DEF OwnerIsFenced
<1> QED
  BY <1>1, JobInvAlways, PTL

\* The claim is irreversible: whoever owns the job owns it for good, so a job
\* logs in to a bank from one pod only (accrawl_claim_crawl_job).
THEOREM OneLoginOnly == JobSpec => OneLogin
<1>1. JobInv /\ [JobNext]_jobVars => [jJob.owner # NoPod => jJob'.owner = jJob.owner]_jobVars
  <2> SUFFICES ASSUME JobInv, JobNext, jJob.owner # NoPod PROVE jJob'.owner = jJob.owner
    OBVIOUS
  <2>0. RowsOK /\ jJob \in JobRows
    BY DEF JobInv, RowsOK
  <2>1. ASSUME NEW p \in Pods, ClaimJob(p) PROVE jJob'.owner = jJob.owner
    BY <2>1 DEF ClaimJob, JobInv, RowIsHonest
  <2>2. ASSUME NEW p \in Pods, BeatExecutes(p) PROVE jJob'.owner = jJob.owner
    BY <2>0, <2>2 DEF BeatExecutes, JobRows
  <2>3. ASSUME NEW p \in Pods, FinishJob(p) \/ FinishFails(p) PROVE jJob'.owner = jJob.owner
    BY <2>0, <2>3, EndedRowFacts DEF FinishJob, FinishFails
  <2>4. CASE ReapStaleCrawlJobs
    BY <2>0, <2>4, ReaperMoves
  <2>5. ASSUME NEW p \in Pods, QuietStep(p) PROVE jJob' = jJob
    BY <2>5 DEF QuietStep, SendClaim, ClaimAnswered, ClaimLost, ObserveOwner, LeaseTimer, FenceSucceeds,
       FenceFails,
                ContainerKilled, WorkThrows, PodDies
  <2>6. ASSUME NEW p \in Pods, SendBeat(p) \/ BeatAnswered(p) \/ BeatFails(p) \/ WorkEnds(p)
        PROVE  jJob' = jJob
    BY <2>6 DEF SendBeat, BeatAnswered, BeatFails, WorkEnds
  <2>7. CASE OperatorCancels \/ Tick
    BY <2>7 DEF OperatorCancels, Tick
  <2> QED
    BY <2>1, <2>2, <2>3, <2>4, <2>5, <2>6, <2>7 DEF JobNext, QuietStep
<1> QED
  BY <1>1, JobInvAlways, PTL DEF JobSpec, OneLogin

-----------------------------------------------------------------------------
(***************************************************************************)
(* The job of a remote worker.                                             *)
(***************************************************************************)

JobRecords == [status : {"none", "queued", "running", "cancel_requested"} \cup JobTerminal,
               worker : Workers \cup {NoWorker}, lease : BOOLEAN, digest : Results,
               attempts : 0..1, handing : BOOLEAN]
WorkerRecords == [pc : {"unborn", "born", "claim", "work", "complete", "fence", "ack", "fail", "exit"},
                  browser : BOOLEAN, result : Results, told : BOOLEAN]
BrokerCallRecords == [kind : {"none", "claim", "beat", "complete", "ack", "fail"},
                st : {"none", "sent", "stored", "ok", "stop", "refused", "error"}]

\* One attempt is one start request, and one start request one worker.
OneAttempt ==
  /\ \A d, e \in Dispatchers : vDisp[d] = "starting" /\ vDisp[e] = "starting" => d = e
  /\ \A d \in Dispatchers, w \in Workers : vDisp[d] = "starting" => vWork[w].pc = "unborn"
  /\ vJob.attempts = 0 => \A w \in Workers : vWork[w].pc = "unborn"
  /\ vJob.attempts = 0 => \A d \in Dispatchers : vDisp[d] # "starting"

\* The digest is the outcome.
DigestIsOutcome ==
  vJob.digest # "none" => vJob.status = IF vJob.digest = "good" THEN "succeeded" ELSE "failed"

\* A worker has one request out, the one of its step.
CallOfStep ==
  \A w \in Workers :
    /\ vCall[w].kind \in {"claim", "complete", "ack", "fail"} => vWork[w].pc = vCall[w].kind
    /\ vCall[w].kind = "beat" => vWork[w].pc = "work"
    /\ vCall[w].kind = "none" <=> vCall[w].st = "none"
    /\ vWork[w].pc = "complete" => vWork[w].result \in {"good", "bad"}
    /\ vWork[w].told => vWork[w].pc = "exit"

\* What a positive answer to a completion rests on.
StoredIsRecorded ==
  \A w \in Workers :
    vCall[w].kind = "complete" /\ vCall[w].st \in {"stored", "ok"} =>
      /\ vJob.worker = w /\ vJob.digest = vWork[w].result
      /\ vCall[w].st = "ok" => vTask \/ vSess \in {"completed", "failed", "cancelled"}

\* BrokerTypeOK, record by record.
RecordsOK ==
  /\ vSess \in {"active", "cancelling", "completed", "failed", "cancelled"}
  /\ vJob \in JobRecords /\ vTask \in BOOLEAN
  /\ vDisp \in [Dispatchers -> {"idle", "starting", "done"}]
  /\ vWork \in [Workers -> WorkerRecords] /\ vCall \in [Workers -> BrokerCallRecords]

BrokerInv == /\ RecordsOK /\ OneAttempt /\ DigestIsOutcome /\ CallOfStep /\ StoredIsRecorded
             /\ OneHandOff /\ ReceiptIsHonoured /\ AnsweredIsReconciled

LEMMA RecordsAreTypes == RecordsOK => BrokerTypeOK
BY DEF RecordsOK, BrokerTypeOK, JobRecords, WorkerRecords, BrokerCallRecords

\* Writing a call, or the state of one, keeps the calls' type.
LEMMA CallsKeep ==
  ASSUME RecordsOK, NEW w \in Workers,
         \/ vCall' = vCall \/ NoCall(w)
         \/ \E k \in {"claim", "beat", "complete", "ack", "fail"} : Call(w, k)
         \/ \E st \in {"sent", "stored", "ok", "stop", "refused", "error"} : Answer(w, st)
  PROVE  vCall' \in [Workers -> BrokerCallRecords]
BY DEF RecordsOK, BrokerCallRecords, NoCall, Call, Answer

\* A step of a worker or a dispatcher keeps the types.
LEMMA RecordsKeep == ASSUME RecordsOK, BrokerNext PROVE RecordsOK'
<1> USE DEF RecordsOK
<1>1. ASSUME NEW d \in Dispatchers, ReserveDispatch(d) PROVE RecordsOK'
  <2>1. CASE /\ vJob' = [vJob EXCEPT !.status = "queued", !.attempts = @ + 1, !.handing = TRUE]
             /\ vJob.attempts < 1 /\ UNCHANGED vSess /\ vDisp' = [vDisp EXCEPT ![d] = "starting"]
    <3>1. vJob.attempts + 1 \in 0..1 /\ vJob \in JobRecords
      BY <2>1 DEF JobRecords
    <3>2. vJob' \in JobRecords
      BY <2>1, <3>1 DEF JobRecords
    <3> QED
      BY <1>1, <2>1, <3>2 DEF ReserveDispatch
  <2>2. CASE /\ vJob' = [vJob EXCEPT !.status = "failed"] /\ vSess' = "failed"
             /\ vDisp' = [vDisp EXCEPT ![d] = "done"]
    <3>1. vJob' \in JobRecords
      BY <2>2 DEF JobRecords, JobTerminal
    <3> QED
      BY <1>1, <2>2, <3>1 DEF ReserveDispatch
  <2>3. CASE UNCHANGED <<vJob, vSess>> /\ vDisp' = [vDisp EXCEPT ![d] = "done"]
    BY <1>1, <2>3 DEF ReserveDispatch
  <2> QED
    BY <1>1, <2>1, <2>2, <2>3 DEF ReserveDispatch, MaxDispatchAttempts
<1>2. ASSUME NEW d \in Dispatchers, StartWorker(d) PROVE RecordsOK'
  <2>1. vDisp' = [vDisp EXCEPT ![d] = "done"] /\ UNCHANGED <<vTask, vCall>>
    BY <1>2 DEF StartWorker
  <2>2. CASE UNCHANGED <<vJob, vSess>> /\ \E w \in Workers : vWork' = [vWork EXCEPT ![w].pc = "born"]
    <3>1. vWork' \in [Workers -> WorkerRecords]
      BY <2>2 DEF WorkerRecords
    <3> QED
      BY <2>1, <2>2, <3>1
  <2>3. CASE vJob' = [vJob EXCEPT !.status = "failed", !.handing = FALSE] /\ vSess' = "failed" /\ UNCHANGED vWork
    <3>1. vJob' \in JobRecords
      BY <2>3 DEF JobRecords, JobTerminal
    <3> QED
      BY <2>1, <2>3, <3>1
  <2>4. CASE UNCHANGED <<vJob, vSess, vWork>>
    BY <2>1, <2>4
  <2> QED
    BY <1>2, <2>2, <2>3, <2>4 DEF StartWorker
<1>3. ASSUME NEW w \in Workers, StoreClaim(w) PROVE RecordsOK'
  <2>1. vCall' \in [Workers -> BrokerCallRecords]
    BY <1>3, CallsKeep DEF StoreClaim
  <2>2. vJob' \in JobRecords
    <3>1. CASE vJob' = [vJob EXCEPT !.status = "running", !.worker = w, !.lease = TRUE, !.handing = FALSE]
      BY <3>1 DEF JobRecords
    <3>2. CASE vJob' = [vJob EXCEPT !.status = "failed", !.worker = w, !.handing = FALSE]
      BY <3>2 DEF JobRecords, JobTerminal
    <3> QED
      BY <1>3, <3>1, <3>2 DEF StoreClaim
  <2> QED
    BY <1>3, <2>1, <2>2 DEF StoreClaim
<1>4. ASSUME NEW w \in Workers, StoreBeat(w) PROVE RecordsOK'
  <2>1. vCall' \in [Workers -> BrokerCallRecords]
    BY <1>4, CallsKeep DEF StoreBeat
  <2> QED
    BY <1>4, <2>1 DEF StoreBeat
<1>5. ASSUME NEW w \in Workers, StoreCompletion(w) PROVE RecordsOK'
  <2>1. vCall' \in [Workers -> BrokerCallRecords]
    BY <1>5, CallsKeep DEF StoreCompletion
  <2>2. vJob' \in JobRecords
    <3>1. PICK r : /\ r \in Results
                   /\ \/ UNCHANGED vJob
                      \/ vJob' = [vJob EXCEPT !.status = IF r = "good" THEN "succeeded" ELSE "failed",
                                              !.digest = r, !.lease = FALSE]
      <4> DEFINE r == IF vCall[w].kind = "fail" THEN "crash" ELSE vWork[w].result
      <4>1. r \in Results
        BY DEF WorkerRecords, Results
      <4> QED
        BY <1>5, <4>1 DEF StoreCompletion
    <3> DEFINE s == IF r = "good" THEN "succeeded" ELSE "failed"
    <3>2. s \in JobTerminal
      BY DEF JobTerminal
    <3>3. UNCHANGED vJob \/ vJob' = [vJob EXCEPT !.status = s, !.digest = r, !.lease = FALSE]
      BY <3>1
    <3> DEFINE j == [vJob EXCEPT !.status = s, !.digest = r]
    <3> HIDE DEF s
    <3>4. j \in JobRecords
      BY <3>1, <3>2 DEF JobRecords
    <3>5. UNCHANGED vJob \/ vJob' = [j EXCEPT !.lease = FALSE]
      BY <3>3
    <3> HIDE DEF j
    <3> QED
      BY <3>4, <3>5 DEF JobRecords
  <2> QED
    BY <1>5, <2>1, <2>2 DEF StoreCompletion
<1>6. ASSUME NEW w \in Workers, StoreAcknowledgement(w) PROVE RecordsOK'
  <2>1. vCall' \in [Workers -> BrokerCallRecords]
    BY <1>6, CallsKeep DEF StoreAcknowledgement
  <2>2. UNCHANGED vJob \/ vJob' = [vJob EXCEPT !.status = "cancelled", !.lease = FALSE]
    BY <1>6 DEF StoreAcknowledgement
  <2>3. vJob' \in JobRecords
    BY <2>2 DEF JobRecords, JobTerminal
  <2> QED
    BY <1>6, <2>1, <2>3 DEF StoreAcknowledgement
<1>7. ASSUME NEW w \in Workers,
             EnqueueReconciliation(w) \/ CallLost(w) \/ CallRedelivered(w) \/ WorkerBeats(w)
      PROVE  RecordsOK'
  <2>1. vCall' \in [Workers -> BrokerCallRecords]
    BY <1>7, CallsKeep DEF EnqueueReconciliation, CallLost, CallRedelivered, WorkerBeats
  <2> QED
    BY <1>7, <2>1 DEF EnqueueReconciliation, CallLost, CallRedelivered, WorkerBeats
<1>8. ASSUME NEW w \in Workers, WorkerClaims(w) \/ ClaimIsAnswered(w) \/ BeatIsAnswered(w) \/ WorkerStops(w)
                                \/ FenceAndAcknowledge(w) \/ LastCallIsAnswered(w)
      PROVE  RecordsOK'
  <2>1. vCall' \in [Workers -> BrokerCallRecords]
    BY <1>8, CallsKeep DEF WorkerClaims, ClaimIsAnswered, BeatIsAnswered, WorkerStops, FenceAndAcknowledge,
                           LastCallIsAnswered
  <2>2. \/ vWork' = vWork
        \/ \E pc \in {"claim", "work", "exit", "fence", "ack"} :
             \/ vWork' = [vWork EXCEPT ![w].pc = pc]
             \/ \E b \in BOOLEAN : vWork' = [vWork EXCEPT ![w].pc = pc, ![w].browser = b]
    BY <1>8 DEF WorkerClaims, ClaimIsAnswered, BeatIsAnswered, WorkerStops, FenceAndAcknowledge,
       LastCallIsAnswered
  <2>3. vWork' \in [Workers -> WorkerRecords]
    BY <2>2 DEF WorkerRecords
  <2> QED
    BY <1>8, <2>1, <2>3 DEF WorkerClaims, ClaimIsAnswered, BeatIsAnswered, WorkerStops, FenceAndAcknowledge,
                            LastCallIsAnswered
<1>9. ASSUME NEW w \in Workers, CrawlCompletes(w) PROVE RecordsOK'
  <2>1. vCall' \in [Workers -> BrokerCallRecords]
    BY <1>9, CallsKeep DEF CrawlCompletes
  <2>2. PICK r \in {"good", "bad"} :
          vWork' = [vWork EXCEPT ![w].pc = "complete", ![w].browser = FALSE, ![w].result = r]
    BY <1>9 DEF CrawlCompletes
  <2>3. vWork' \in [Workers -> WorkerRecords]
    <3> DEFINE x == [vWork[w] EXCEPT !.pc = "complete", !.browser = FALSE]
    <3>1. x \in WorkerRecords
      BY DEF WorkerRecords
    <3>2. vWork' = [vWork EXCEPT ![w] = [x EXCEPT !.result = r]]
      BY <2>2
    <3> HIDE DEF x
    <3>3. [x EXCEPT !.result = r] \in WorkerRecords
      BY <3>1 DEF WorkerRecords, Results
    <3> QED
      BY <3>2, <3>3
  <2> QED
    BY <1>9, <2>1, <2>3 DEF CrawlCompletes
<1>10. ASSUME NEW w \in Workers, CompletionIsAnswered(w) PROVE RecordsOK'
  <2>1. vCall' \in [Workers -> BrokerCallRecords]
    BY <1>10, CallsKeep DEF CompletionIsAnswered
  <2>2. \/ vWork' = [vWork EXCEPT ![w].pc = "exit", ![w].told = TRUE]
        \/ \E pc \in {"ack", "fail"} : vWork' = [vWork EXCEPT ![w].pc = pc]
    BY <1>10 DEF CompletionIsAnswered
  <2>3. vWork' \in [Workers -> WorkerRecords]
    BY <2>2 DEF WorkerRecords
  <2> QED
    BY <1>10, <2>1, <2>3 DEF CompletionIsAnswered
<1>11. CASE HandOffExpires \/ OperatorCancelsHosted \/ LeaseExpires
  <2>1. \/ vJob' = [vJob EXCEPT !.handing = FALSE] \/ vJob' = [vJob EXCEPT !.status = "cancel_requested"]
        \/ vJob' = [vJob EXCEPT !.lease = FALSE]
    BY <1>11 DEF HandOffExpires, OperatorCancelsHosted, LeaseExpires
  <2>2. vJob' \in JobRecords
    BY <2>1 DEF JobRecords
  <2> QED
    BY <1>11, <2>2 DEF HandOffExpires, OperatorCancelsHosted, LeaseExpires
<1>12. CASE Reconcile
  <2>1. PICK st \in {"none", "queued", "running", "cancel_requested"} \cup JobTerminal :
          vJob' = [vJob EXCEPT !.status = st] /\ vTask' = (st \notin JobTerminal)
    BY <1>12 DEF Reconcile, JobRecords, JobTerminal
  <2>2. vJob' \in JobRecords
    BY <2>1 DEF JobRecords
  <2> QED
    BY <1>12, <2>1, <2>2 DEF Reconcile
<1> QED
  BY <1>1, <1>2, <1>3, <1>4, <1>5, <1>6, <1>7, <1>8, <1>9, <1>10, <1>11, <1>12 DEF BrokerNext

\* What a step does to the job: it may be claimed, cancelled or concluded, but
\* an outcome is recorded only by a completion, of its owner, while it runs.
LEMMA JobStep ==
  ASSUME RecordsOK, BrokerNext
  PROVE  \/ /\ vJob'.digest = vJob.digest
            /\ vJob.status \in JobTerminal => vJob'.status = vJob.status
            /\ vJob.status # "queued" => vJob'.worker = vJob.worker
         \/ /\ vJob.status = "running" /\ vJob'.worker = vJob.worker
            /\ vJob'.status = IF vJob'.digest = "good" THEN "succeeded" ELSE "failed"
<1> USE DEF JobTerminal
<1>0. vJob \in JobRecords
  BY DEF RecordsOK
<1>1. ASSUME NEW d \in Dispatchers, ReserveDispatch(d)
      PROVE  /\ vJob'.digest = vJob.digest /\ vJob'.worker = vJob.worker
             /\ vJob.status \in JobTerminal => vJob'.status = vJob.status
  <2>1. CASE /\ vJob' = [vJob EXCEPT !.status = "queued", !.attempts = @ + 1, !.handing = TRUE]
             /\ vJob.status \in {"none", "queued"}
    BY <1>0, <2>1 DEF JobRecords
  <2>2. CASE vJob' = [vJob EXCEPT !.status = "failed"] /\ vJob.status \in {"none", "queued"}
    BY <1>0, <2>2 DEF JobRecords
  <2> QED
    BY <1>1, <2>1, <2>2 DEF ReserveDispatch
<1>2. ASSUME NEW d \in Dispatchers, StartWorker(d)
      PROVE  /\ vJob'.digest = vJob.digest /\ vJob'.worker = vJob.worker
             /\ vJob.status \in JobTerminal => vJob'.status = vJob.status
  <2>1. CASE vJob' = [vJob EXCEPT !.status = "failed", !.handing = FALSE] /\ vJob.status = "queued"
    BY <1>0, <2>1 DEF JobRecords
  <2> QED
    BY <1>2, <2>1 DEF StartWorker
<1>3. ASSUME NEW w \in Workers, StoreClaim(w)
      PROVE  /\ vJob'.digest = vJob.digest
             /\ vJob.status # "queued" => vJob'.status = vJob.status /\ vJob'.worker = vJob.worker
  <2>1. CASE vJob' = [vJob EXCEPT !.status = "running", !.worker = w, !.lease = TRUE, !.handing = FALSE]
    BY <1>0, <1>3, <2>1 DEF JobRecords, StoreClaim
  <2>2. CASE vJob' = [vJob EXCEPT !.status = "failed", !.worker = w, !.handing = FALSE]
    BY <1>0, <1>3, <2>2 DEF JobRecords, StoreClaim
  <2> QED
    BY <1>3, <2>1, <2>2 DEF StoreClaim
<1>4. ASSUME NEW w \in Workers, StoreCompletion(w)
      PROVE  \/ UNCHANGED vJob
             \/ /\ vJob.status = "running" /\ vJob'.worker = vJob.worker
                /\ vJob'.status = IF vJob'.digest = "good" THEN "succeeded" ELSE "failed"
  <2>1. \/ UNCHANGED vJob
        \/ /\ vJob.status = "running"
           /\ \E r : vJob' = [vJob EXCEPT !.status = IF r = "good" THEN "succeeded" ELSE "failed",
                                          !.digest = r, !.lease = FALSE]
    BY <1>4 DEF StoreCompletion, WorkerOwnsAttempt
  <2>2. ASSUME NEW r, vJob' = [vJob EXCEPT !.status = IF r = "good" THEN "succeeded" ELSE "failed",
                                           !.digest = r, !.lease = FALSE]
        PROVE  vJob'.worker = vJob.worker /\ vJob'.digest = r /\ vJob'.status = IF r = "good" THEN "succeeded" ELSE "failed"
    BY <1>0, <2>2 DEF JobRecords
  <2> QED
    BY <2>1, <2>2
<1>5. ASSUME NEW w \in Workers, StoreAcknowledgement(w)
      PROVE  /\ vJob'.digest = vJob.digest /\ vJob'.worker = vJob.worker
             /\ vJob.status \in JobTerminal => vJob'.status = vJob.status
  <2>1. \/ UNCHANGED vJob
        \/ vJob.status = "cancel_requested" /\ vJob' = [vJob EXCEPT !.status = "cancelled", !.lease = FALSE]
    BY <1>5 DEF StoreAcknowledgement
  <2> QED
    BY <1>0, <2>1 DEF JobRecords
<1>6. ASSUME NEW w \in Workers,
             \/ StoreBeat(w) \/ EnqueueReconciliation(w) \/ CallLost(w) \/ CallRedelivered(w)
             \/ WorkerClaims(w) \/ ClaimIsAnswered(w) \/ WorkerBeats(w) \/ BeatIsAnswered(w)
             \/ WorkerStops(w) \/ FenceAndAcknowledge(w) \/ CrawlCompletes(w)
             \/ CompletionIsAnswered(w) \/ LastCallIsAnswered(w)
      PROVE  UNCHANGED vJob
  BY <1>6 DEF StoreBeat, EnqueueReconciliation, CallLost, CallRedelivered, WorkerClaims, ClaimIsAnswered,
     WorkerBeats,
              BeatIsAnswered, WorkerStops, FenceAndAcknowledge, CrawlCompletes, CompletionIsAnswered, LastCallIsAnswered
<1>7. CASE HandOffExpires \/ OperatorCancelsHosted \/ LeaseExpires
  <2>1. \/ vJob' = [vJob EXCEPT !.handing = FALSE]
        \/ vJob' = [vJob EXCEPT !.status = "cancel_requested"] /\ vJob.status \in {"queued", "running"}
        \/ vJob' = [vJob EXCEPT !.lease = FALSE]
    BY <1>7 DEF HandOffExpires, OperatorCancelsHosted, LeaseExpires
  <2> QED
    BY <1>0, <2>1 DEF JobRecords
<1>8. CASE Reconcile
  <2>1. \E st : vJob' = [vJob EXCEPT !.status = st] /\ (vJob.status \in JobTerminal => st = vJob.status)
    BY <1>8 DEF Reconcile
  <2> QED
    BY <1>0, <2>1 DEF JobRecords
<1> QED
  BY <1>1, <1>2, <1>3, <1>4, <1>5, <1>6, <1>7, <1>8 DEF BrokerNext

\* The digest stands, because it is there only for a finished job.
LEMMA DigestKeeps == ASSUME RecordsOK, DigestIsOutcome, BrokerNext PROVE DigestIsOutcome'
BY JobStep DEF DigestIsOutcome, JobTerminal

LEMMA OutcomeKeeps ==
  ASSUME RecordsOK, DigestIsOutcome, BrokerNext, vJob.status \in JobTerminal
  PROVE  vJob'.status = vJob.status /\ vJob'.digest = vJob.digest /\ vJob'.worker = vJob.worker
BY JobStep DEF JobTerminal

\* The hand-off.
LEMMA AttemptKeeps == ASSUME RecordsOK, OneAttempt, OneHandOff, BrokerNext PROVE OneAttempt' /\ OneHandOff'
<1> USE DEF OneAttempt, OneHandOff
<1>0. /\ vJob \in JobRecords /\ vDisp \in [Dispatchers -> {"idle", "starting", "done"}]
      /\ vWork \in [Workers -> WorkerRecords]
  BY DEF RecordsOK
<1>1. ASSUME NEW d \in Dispatchers, ReserveDispatch(d) PROVE OneAttempt' /\ OneHandOff'
  <2>1. UNCHANGED vWork
    BY <1>1 DEF ReserveDispatch
  <2>2. CASE /\ vJob' = [vJob EXCEPT !.status = "queued", !.attempts = @ + 1, !.handing = TRUE]
             /\ vJob.attempts < 1 /\ vDisp' = [vDisp EXCEPT ![d] = "starting"]
    <3>1. vJob.attempts = 0 /\ vJob'.attempts = 1
      BY <1>0, <2>2 DEF JobRecords
    <3> QED
      BY <1>0, <2>1, <2>2, <3>1
  <2>3. CASE (vJob' = [vJob EXCEPT !.status = "failed"] \/ UNCHANGED vJob) /\ vDisp' = [vDisp EXCEPT ![d] = "done"]
    <3>1. vJob'.attempts = vJob.attempts
      BY <1>0, <2>3 DEF JobRecords
    <3> QED
      BY <1>0, <2>1, <2>3, <3>1
  <2> QED
    BY <1>1, <2>2, <2>3 DEF ReserveDispatch, MaxDispatchAttempts
<1>2. ASSUME NEW d \in Dispatchers, StartWorker(d) PROVE OneAttempt' /\ OneHandOff'
  <2>1. vDisp[d] = "starting" /\ vDisp' = [vDisp EXCEPT ![d] = "done"]
    BY <1>2 DEF StartWorker
  <2>2. vJob'.attempts = vJob.attempts
    <3>1. vJob' = [vJob EXCEPT !.status = "failed", !.handing = FALSE] \/ UNCHANGED vJob
      BY <1>2 DEF StartWorker
    <3> QED
      BY <1>0, <3>1 DEF JobRecords
  <2>3. UNCHANGED vWork \/ \E w \in Workers : vWork' = [vWork EXCEPT ![w].pc = "born"]
    BY <1>2 DEF StartWorker
  <2>4. \A e \in Dispatchers : vDisp'[e] # "starting"
    BY <1>0, <2>1
  <2>5. vJob.attempts # 0 /\ \A w \in Workers : vWork[w].pc = "unborn"
    BY <2>1
  <2>6. \A a, b \in Workers : vWork'[a].pc # "unborn" /\ vWork'[b].pc # "unborn" => a = b
    BY <1>0, <2>3, <2>5
  <2> QED
    BY <2>2, <2>4, <2>5, <2>6
<1>3. ASSUME vDisp' = vDisp, vJob'.attempts = vJob.attempts,
             \A w \in Workers : vWork'[w].pc = "unborn" <=> vWork[w].pc = "unborn"
      PROVE  OneAttempt' /\ OneHandOff'
  BY <1>3
<1>4. ASSUME NEW w \in Workers,
             \/ StoreClaim(w) \/ StoreBeat(w) \/ StoreCompletion(w) \/ StoreAcknowledgement(w)
             \/ EnqueueReconciliation(w) \/ CallLost(w) \/ CallRedelivered(w)
      PROVE  OneAttempt' /\ OneHandOff'
  <2>1. vDisp' = vDisp /\ vWork' = vWork
    BY <1>4 DEF StoreClaim, StoreBeat, StoreCompletion, StoreAcknowledgement, EnqueueReconciliation,
       CallLost, CallRedelivered
  <2>2. \/ UNCHANGED vJob
        \/ vJob' = [vJob EXCEPT !.status = "running", !.worker = w, !.lease = TRUE, !.handing = FALSE]
        \/ vJob' = [vJob EXCEPT !.status = "failed", !.worker = w, !.handing = FALSE]
        \/ \E r : vJob' = [vJob EXCEPT !.status = IF r = "good" THEN "succeeded" ELSE "failed", !.digest = r, !.lease = FALSE]
        \/ vJob' = [vJob EXCEPT !.status = "cancelled", !.lease = FALSE]
    <3>1. CASE StoreCompletion(w)
      BY <3>1 DEF StoreCompletion
    <3>2. CASE StoreClaim(w)
      BY <3>2 DEF StoreClaim
    <3>3. CASE StoreAcknowledgement(w)
      BY <3>3 DEF StoreAcknowledgement
    <3> QED
      BY <1>4, <3>1, <3>2, <3>3 DEF StoreBeat, EnqueueReconciliation, CallLost, CallRedelivered
  <2>3. vJob'.attempts = vJob.attempts
    BY <1>0, <2>2 DEF JobRecords
  <2> QED
    BY <1>3, <2>1, <2>3
<1>5. ASSUME NEW w \in Workers,
             \/ WorkerClaims(w) \/ ClaimIsAnswered(w) \/ WorkerBeats(w) \/ BeatIsAnswered(w) \/ WorkerStops(w)
             \/ FenceAndAcknowledge(w) \/ CrawlCompletes(w) \/ CompletionIsAnswered(w) \/ LastCallIsAnswered(w)
      PROVE  OneAttempt' /\ OneHandOff'
  <2>1. vDisp' = vDisp /\ vJob' = vJob
    BY <1>5 DEF WorkerClaims, ClaimIsAnswered, WorkerBeats, BeatIsAnswered, WorkerStops,
       FenceAndAcknowledge,
                CrawlCompletes, CompletionIsAnswered, LastCallIsAnswered
  <2>2. \/ vWork' = vWork
        \/ /\ vWork[w].pc # "unborn"
           /\ \E pc \in {"claim", "work", "exit", "fence", "ack", "complete", "fail"} :
                \/ vWork' = [vWork EXCEPT ![w].pc = pc]
                \/ \E b \in BOOLEAN : vWork' = [vWork EXCEPT ![w].pc = pc, ![w].browser = b]
                \/ \E b \in BOOLEAN : vWork' = [vWork EXCEPT ![w].pc = pc, ![w].told = b]
                \/ \E r : vWork' = [vWork EXCEPT ![w].pc = pc, ![w].browser = FALSE, ![w].result = r]
    BY <1>5 DEF WorkerClaims, ClaimIsAnswered, WorkerBeats, BeatIsAnswered, WorkerStops,
       FenceAndAcknowledge,
                CrawlCompletes, CompletionIsAnswered, LastCallIsAnswered
  <2>3. \A v \in Workers : vWork'[v].pc = "unborn" <=> vWork[v].pc = "unborn"
    <3>1. ASSUME NEW v \in Workers, v # w PROVE vWork'[v].pc = vWork[v].pc
      BY <1>0, <2>2, <3>1 DEF WorkerRecords
    <3>2. vWork'[w].pc = "unborn" <=> vWork[w].pc = "unborn"
      <4>1. CASE vWork' = vWork
        BY <4>1
      <4>2. ASSUME vWork' # vWork PROVE vWork[w].pc # "unborn" /\ vWork'[w].pc # "unborn"
        <5>1. PICK pc \in {"claim", "work", "exit", "fence", "ack", "complete", "fail"} :
                \/ vWork' = [vWork EXCEPT ![w].pc = pc]
                \/ \E b \in BOOLEAN : vWork' = [vWork EXCEPT ![w].pc = pc, ![w].browser = b]
                \/ \E b \in BOOLEAN : vWork' = [vWork EXCEPT ![w].pc = pc, ![w].told = b]
                \/ \E r : vWork' = [vWork EXCEPT ![w].pc = pc, ![w].browser = FALSE, ![w].result = r]
          BY <2>2, <4>2
        <5>2. vWork'[w].pc = pc
          <6>1. CASE vWork' = [vWork EXCEPT ![w].pc = pc]
            BY <1>0, <6>1 DEF WorkerRecords
          <6>2. ASSUME NEW b, vWork' = [vWork EXCEPT ![w].pc = pc, ![w].browser = b] PROVE vWork'[w].pc = pc
            BY <1>0, <6>2 DEF WorkerRecords
          <6>3. ASSUME NEW b, vWork' = [vWork EXCEPT ![w].pc = pc, ![w].told = b] PROVE vWork'[w].pc = pc
            BY <1>0, <6>3 DEF WorkerRecords
          <6>4. ASSUME NEW r, vWork' = [vWork EXCEPT ![w].pc = pc, ![w].browser = FALSE, ![w].result = r]
                PROVE  vWork'[w].pc = pc
            BY <1>0, <6>4 DEF WorkerRecords
          <6> QED
            BY <5>1, <6>1, <6>2, <6>3, <6>4
        <5> QED
          BY <2>2, <4>2, <5>2
      <4> QED
        BY <4>1, <4>2
    <3> QED
      BY <3>1, <3>2
  <2> QED
    BY <1>3, <2>1, <2>3
<1>6. CASE HandOffExpires \/ OperatorCancelsHosted \/ LeaseExpires \/ Reconcile
  <2>1. vDisp' = vDisp /\ vWork' = vWork
    BY <1>6 DEF HandOffExpires, OperatorCancelsHosted, LeaseExpires, Reconcile
  <2>2. \/ vJob' = [vJob EXCEPT !.handing = FALSE] \/ vJob' = [vJob EXCEPT !.lease = FALSE]
        \/ \E st : vJob' = [vJob EXCEPT !.status = st]
    BY <1>6 DEF HandOffExpires, OperatorCancelsHosted, LeaseExpires, Reconcile
  <2>3. vJob'.attempts = vJob.attempts
    BY <1>0, <2>2 DEF JobRecords
  <2> QED
    BY <1>3, <2>1, <2>3
<1> QED
  BY <1>1, <1>2, <1>4, <1>5, <1>6 DEF BrokerNext

\* Calls and steps go together.
LEMMA CallsFollowSteps == ASSUME RecordsOK, CallOfStep, BrokerNext PROVE CallOfStep'
<1> USE DEF CallOfStep
<1>0. vWork \in [Workers -> WorkerRecords] /\ vCall \in [Workers -> BrokerCallRecords]
  BY DEF RecordsOK
<1>1. ASSUME NEW w \in Workers,
             \/ StoreClaim(w) \/ StoreBeat(w) \/ StoreCompletion(w) \/ StoreAcknowledgement(w)
             \/ EnqueueReconciliation(w) \/ CallLost(w) \/ CallRedelivered(w)
      PROVE  CallOfStep'
  <2>1. /\ vWork' = vWork /\ vCall[w].st # "none"
        /\ \E st \in {"sent", "stored", "ok", "stop", "refused", "error"} : Answer(w, st)
    BY <1>1 DEF StoreClaim, StoreBeat, StoreCompletion, StoreAcknowledgement, EnqueueReconciliation,
       CallLost, CallRedelivered
  <2> QED
    BY <1>0, <2>1 DEF Answer, BrokerCallRecords
<1>2. ASSUME NEW w \in Workers, WorkerClaims(w) PROVE CallOfStep'
  BY <1>0, <1>2 DEF WorkerClaims, Call, WorkerRecords, BrokerCallRecords
<1>3. ASSUME NEW w \in Workers, ClaimIsAnswered(w) PROVE CallOfStep'
  BY <1>0, <1>3 DEF ClaimIsAnswered, NoCall, WorkerRecords, BrokerCallRecords
<1>4. ASSUME NEW w \in Workers, WorkerBeats(w) PROVE CallOfStep'
  BY <1>0, <1>4 DEF WorkerBeats, Call, WorkerRecords, BrokerCallRecords
<1>5. ASSUME NEW w \in Workers, BeatIsAnswered(w) PROVE CallOfStep'
  BY <1>0, <1>5 DEF BeatIsAnswered, NoCall, WorkerRecords, BrokerCallRecords
<1>6. ASSUME NEW w \in Workers, WorkerStops(w) PROVE CallOfStep'
  BY <1>0, <1>6 DEF WorkerStops, NoCall, WorkerRecords, BrokerCallRecords
<1>7. ASSUME NEW w \in Workers, FenceAndAcknowledge(w) PROVE CallOfStep'
  BY <1>0, <1>7 DEF FenceAndAcknowledge, Call, WorkerRecords, BrokerCallRecords
<1>8. ASSUME NEW w \in Workers, CrawlCompletes(w) PROVE CallOfStep'
  BY <1>0, <1>8 DEF CrawlCompletes, Call, WorkerRecords, BrokerCallRecords
<1>9. ASSUME NEW w \in Workers, CompletionIsAnswered(w) PROVE CallOfStep'
  <2>1. CASE vWork' = [vWork EXCEPT ![w].pc = "exit", ![w].told = TRUE] /\ NoCall(w)
    BY <1>0, <2>1 DEF NoCall, WorkerRecords, BrokerCallRecords
  <2>2. CASE vWork' = [vWork EXCEPT ![w].pc = "ack"] /\ Call(w, "ack") /\ vWork[w].pc = "complete"
    BY <1>0, <2>2 DEF Call, WorkerRecords, BrokerCallRecords
  <2>3. CASE vWork' = [vWork EXCEPT ![w].pc = "fail"] /\ Call(w, "fail") /\ vWork[w].pc = "complete"
    BY <1>0, <2>3 DEF Call, WorkerRecords, BrokerCallRecords
  <2> QED
    BY <1>9, <2>1, <2>2, <2>3 DEF CompletionIsAnswered
<1>10. ASSUME NEW w \in Workers, LastCallIsAnswered(w) PROVE CallOfStep'
  BY <1>0, <1>10 DEF LastCallIsAnswered, NoCall, WorkerRecords, BrokerCallRecords
<1>11. ASSUME NEW d \in Dispatchers, StartWorker(d) PROVE CallOfStep'
  <2>1. /\ vCall' = vCall
        /\ (vWork' = vWork \/ \E w \in Workers : vWork[w].pc = "unborn" /\ vWork' = [vWork EXCEPT ![w].pc = "born"])
    BY <1>11 DEF StartWorker
  <2> QED
    BY <1>0, <2>1 DEF WorkerRecords, BrokerCallRecords
<1>12. CASE vWork' = vWork /\ vCall' = vCall
  BY <1>12
<1>13. ASSUME NEW d \in Dispatchers, ReserveDispatch(d) PROVE vWork' = vWork /\ vCall' = vCall
  BY <1>13 DEF ReserveDispatch
<1>14. ASSUME HandOffExpires \/ OperatorCancelsHosted \/ LeaseExpires \/ Reconcile
       PROVE  vWork' = vWork /\ vCall' = vCall
  BY <1>14 DEF HandOffExpires, OperatorCancelsHosted, LeaseExpires, Reconcile
<1> QED
  BY <1>1, <1>2, <1>3, <1>4, <1>5, <1>6, <1>7, <1>8, <1>9, <1>10, <1>11, <1>12, <1>13, <1>14 DEF BrokerNext

Concluded == {"completed", "failed", "cancelled"}

\* A finished job that was reconciled, or will be, stays so.
LEMMA ReconciledKeeps ==
  ASSUME RecordsOK, BrokerNext, vJob.status \in JobTerminal, vTask \/ vSess \in Concluded
  PROVE  vTask' \/ vSess' \in Concluded
<1> USE DEF Concluded, JobTerminal
<1>1. ASSUME NEW d \in Dispatchers, ReserveDispatch(d) \/ StartWorker(d)
      PROVE  vTask' \/ vSess' \in Concluded
  BY <1>1 DEF ReserveDispatch, StartWorker
<1>2. ASSUME NEW w \in Workers, StoreClaim(w) \/ EnqueueReconciliation(w)
      PROVE  vTask' \/ vSess' \in Concluded
  BY <1>2 DEF StoreClaim, EnqueueReconciliation
<1>3. ASSUME NEW w \in Workers,
             \/ StoreBeat(w) \/ StoreCompletion(w) \/ StoreAcknowledgement(w) \/ CallLost(w) \/ CallRedelivered(w)
             \/ WorkerClaims(w) \/ ClaimIsAnswered(w) \/ WorkerBeats(w) \/ BeatIsAnswered(w) \/ WorkerStops(w)
             \/ FenceAndAcknowledge(w) \/ CrawlCompletes(w) \/ CompletionIsAnswered(w) \/ LastCallIsAnswered(w)
      PROVE  UNCHANGED <<vTask, vSess>>
  BY <1>3 DEF StoreBeat, StoreCompletion, StoreAcknowledgement, CallLost, CallRedelivered, WorkerClaims,
     ClaimIsAnswered,
              WorkerBeats, BeatIsAnswered, WorkerStops, FenceAndAcknowledge, CrawlCompletes, CompletionIsAnswered,
              LastCallIsAnswered
<1>4. CASE HandOffExpires \/ OperatorCancelsHosted \/ LeaseExpires
  BY <1>4 DEF HandOffExpires, OperatorCancelsHosted, LeaseExpires
<1>5. CASE Reconcile
  <2>1. \/ vSess \notin {"active", "cancelling"} /\ UNCHANGED vSess
        \/ vSess' \in Concluded
    BY <1>5 DEF Reconcile
  <2> QED
    BY <2>1 DEF RecordsOK
<1> QED
  BY <1>1, <1>2, <1>3, <1>4, <1>5 DEF BrokerNext

\* The three promises to one worker.
Promises(v) ==
  /\ vCall[v].kind = "complete" /\ vCall[v].st \in {"stored", "ok"} =>
       /\ vJob.worker = v /\ vJob.digest = vWork[v].result
       /\ vCall[v].st = "ok" => vTask \/ vSess \in Concluded
  /\ vCall[v].kind = "complete" /\ vCall[v].st = "refused" =>
       ~(vJob.worker = v /\ vJob.digest = vWork[v].result)
  /\ vWork[v].told =>
       /\ vJob.status \in JobTerminal /\ vJob.digest = vWork[v].result
       /\ vTask \/ vSess \in Concluded

LEMMA PromisesAre == StoredIsRecorded /\ ReceiptIsHonoured /\ AnsweredIsReconciled <=> \A v \in Workers : Promises(v)
BY DEF StoredIsRecorded, ReceiptIsHonoured, AnsweredIsReconciled, Promises, Concluded

LEMMA PromisesKeep ==
  ASSUME RecordsOK, DigestIsOutcome, CallOfStep, NEW v \in Workers, Promises(v), BrokerNext
  PROVE  Promises(v)'
<1> DEFINE c == vCall[v]
           x == vWork[v]
<1>0. /\ c \in BrokerCallRecords /\ x \in WorkerRecords /\ vWork \in [Workers -> WorkerRecords]
      /\ vCall \in [Workers -> BrokerCallRecords]
  BY DEF RecordsOK
<1>1. c.kind = "complete" => x.pc = "complete" /\ x.result \in {"good", "bad"}
  BY DEF CallOfStep
<1>2. x.told => x.pc = "exit"
  BY DEF CallOfStep
\* The job, once finished, stays as it is, and so does the reconciliation.
<1>3. /\ vJob.digest # "none" => vJob.status \in JobTerminal
      /\ vJob.status \in JobTerminal =>
           /\ vJob'.status = vJob.status /\ vJob'.digest = vJob.digest /\ vJob'.worker = vJob.worker
           /\ vTask \/ vSess \in Concluded => vTask' \/ vSess' \in Concluded
  BY OutcomeKeeps, ReconciledKeeps DEF DigestIsOutcome, JobTerminal
<1>4. /\ c.kind = "complete" /\ c.st \in {"stored", "ok"} => vJob.status \in JobTerminal
      /\ x.told => vJob.status \in JobTerminal
  BY <1>1, <1>3 DEF Promises
\* A step that leaves this worker and its call alone.
<1>5. ASSUME c' = c, x'.result = x.result, x'.told = x.told,
             c.kind = "complete" /\ c.st = "refused" => ~(vJob'.worker = v /\ vJob'.digest = x.result)
      PROVE  Promises(v)'
  BY <1>3, <1>4, <1>5 DEF Promises
\* A step of its own that has no promise, or none any more.
<1>6. ASSUME c'.kind # "complete" \/ c'.st \notin {"stored", "ok", "refused"}, x'.told = x.told,
             x.told => x'.result = x.result
      PROVE  Promises(v)'
  BY <1>3, <1>4, <1>6 DEF Promises
<1>a. ASSUME c' = c, x' = x, vJob' = vJob PROVE Promises(v)'
  BY <1>5, <1>a DEF Promises
<1>7. ASSUME NEW w \in Workers, StoreClaim(w) PROVE Promises(v)'
  <2>1. vWork' = vWork /\ vCall[w].kind = "claim" /\ \E st : Answer(w, st)
    BY <1>7 DEF StoreClaim
  <2>2. CASE w = v
    <3>1. c'.kind = "claim" /\ x' = x
      BY <1>0, <2>1, <2>2 DEF Answer, BrokerCallRecords
    <3> QED
      BY <1>6, <3>1
  <2>3. CASE w # v
    <3>1. c' = c /\ x' = x
      BY <1>0, <2>1, <2>3 DEF Answer
    <3>2. vJob' = vJob \/ (vJob'.worker = w)
      <4>1. vJob \in JobRecords
        BY DEF RecordsOK
      <4>2. \/ vJob' = vJob
            \/ vJob' = [vJob EXCEPT !.status = "running", !.worker = w, !.lease = TRUE, !.handing = FALSE]
            \/ vJob' = [vJob EXCEPT !.status = "failed", !.worker = w, !.handing = FALSE]
        BY <1>7 DEF StoreClaim
      <4> QED
        BY <4>1, <4>2 DEF JobRecords
    <3>3. CASE vJob'.worker = w
      BY <1>5, <2>3, <3>1, <3>3
    <3> QED
      BY <1>a, <3>1, <3>2, <3>3
  <2> QED
    BY <2>2, <2>3
<1>8. ASSUME NEW w \in Workers, StoreCompletion(w) PROVE Promises(v)'
  <2>1. /\ vWork' = vWork /\ UNCHANGED <<vTask, vSess>> /\ vCall[w].st = "sent"
        /\ vCall[w].kind \in {"complete", "fail"}
        /\ \E st \in {"stored", "refused"} : Answer(w, st)
    BY <1>8 DEF StoreCompletion
  <2> DEFINE r == IF vCall[w].kind = "fail" THEN "crash" ELSE vWork[w].result
  <2>2. \/ IsExactTerminalCompletion(w, r) /\ Answer(w, "stored") /\ UNCHANGED vJob
        \/ /\ ~IsExactTerminalCompletion(w, r) /\ WorkerOwnsAttempt(w, FALSE) /\ Answer(w, "stored")
           /\ vJob' = [vJob EXCEPT !.status = IF r = "good" THEN "succeeded" ELSE "failed", !.digest = r, !.lease = FALSE]
        \/ ~IsExactTerminalCompletion(w, r) /\ Answer(w, "refused") /\ UNCHANGED vJob
    BY <1>8 DEF StoreCompletion
  <2> HIDE DEF r
  <2>3. ASSUME WorkerOwnsAttempt(w, FALSE),
               vJob' = [vJob EXCEPT !.status = IF r = "good" THEN "succeeded" ELSE "failed", !.digest = r, !.lease = FALSE]
        PROVE  vJob.worker = w /\ vJob'.worker = w /\ vJob'.digest = r
    <3>1. vJob \in JobRecords
      BY DEF RecordsOK
    <3>2. vJob'.worker = vJob.worker /\ vJob'.digest = r
      BY <2>3, <3>1 DEF JobRecords
    <3> QED
      BY <2>3, <3>2 DEF WorkerOwnsAttempt
  <2>4. CASE w # v
    <3>1. c' = c /\ x' = x
      BY <1>0, <2>1, <2>4 DEF Answer
    <3>2. vJob' = vJob \/ vJob'.worker = w
      BY <2>2, <2>3
    <3>3. CASE vJob'.worker = w
      BY <1>5, <2>4, <3>1, <3>3
    <3> QED
      BY <1>a, <3>1, <3>2, <3>3
  <2>5. CASE w = v /\ c.kind = "fail"
    <3>1. c'.kind = "fail" /\ x' = x
      BY <1>0, <2>1, <2>5 DEF Answer, BrokerCallRecords
    <3> QED
      BY <1>6, <3>1
  <2>6. CASE w = v /\ c.kind = "complete"
    <3>1. x' = x /\ ~x.told /\ r = x.result /\ r \in {"good", "bad"}
      BY <1>1, <1>2, <2>1, <2>6 DEF r
    <3>2. CASE Answer(w, "stored") /\ vJob'.worker = w /\ vJob'.digest = r
      <4>1. c'.st = "stored"
        BY <1>0, <2>6, <3>2 DEF Answer, BrokerCallRecords
      <4> QED
        BY <2>6, <3>1, <3>2, <4>1 DEF Promises
    <3>3. CASE ~IsExactTerminalCompletion(w, r) /\ Answer(w, "refused") /\ UNCHANGED vJob
      <4>1. c'.st = "refused"
        BY <1>0, <2>6, <3>3 DEF Answer, BrokerCallRecords
      <4>2. ~(vJob.worker = v /\ vJob.digest = r)
        BY <2>6, <3>1, <3>3 DEF IsExactTerminalCompletion, DigestIsOutcome
      <4> QED
        BY <3>1, <3>3, <4>1, <4>2 DEF Promises
    <3>4. CASE IsExactTerminalCompletion(w, r) /\ Answer(w, "stored") /\ UNCHANGED vJob
      BY <3>2, <3>4 DEF IsExactTerminalCompletion
    <3> QED
      BY <2>2, <2>3, <3>2, <3>3, <3>4
  <2> QED
    BY <2>1, <2>4, <2>5, <2>6
<1>9. ASSUME NEW w \in Workers, StoreAcknowledgement(w) PROVE Promises(v)'
  <2>1. /\ vWork' = vWork /\ vCall[w].kind = "ack" /\ \E st : Answer(w, st)
        /\ \/ UNCHANGED vJob
           \/ vJob' = [vJob EXCEPT !.status = "cancelled", !.lease = FALSE]
    BY <1>9 DEF StoreAcknowledgement
  <2>2. vJob'.worker = vJob.worker /\ vJob'.digest = vJob.digest
    <3>1. vJob \in JobRecords
      BY DEF RecordsOK
    <3> QED
      BY <2>1, <3>1 DEF JobRecords
  <2>3. CASE w = v
    <3>1. c'.kind = "ack" /\ x' = x
      BY <1>0, <2>1, <2>3 DEF Answer, BrokerCallRecords
    <3> QED
      BY <1>6, <3>1
  <2>4. CASE w # v
    <3>1. c' = c /\ x' = x
      BY <1>0, <2>1, <2>4 DEF Answer
    <3> QED
      BY <1>5, <2>2, <3>1 DEF Promises
  <2> QED
    BY <2>3, <2>4
<1>10. ASSUME NEW w \in Workers, EnqueueReconciliation(w) PROVE Promises(v)'
  <2>1. /\ vWork' = vWork /\ vJob' = vJob /\ vSess' = vSess /\ vCall[w].st = "stored"
        /\ (vTask' = TRUE /\ Answer(w, "ok")) \/ (vTask' = vTask /\ Answer(w, "error"))
    BY <1>10 DEF EnqueueReconciliation
  <2>2. CASE w # v
    <3>1. c' = c /\ x' = x
      BY <1>0, <2>1, <2>2 DEF Answer
    <3> QED
      BY <1>a, <2>1, <3>1
  <2>3. CASE w = v /\ Answer(w, "error")
    <3>1. c'.st = "error" /\ x' = x
      BY <1>0, <2>1, <2>3 DEF Answer, BrokerCallRecords
    <3> QED
      BY <1>6, <3>1
  <2>4. CASE w = v /\ vTask' = TRUE /\ Answer(w, "ok")
    <3>1. c'.st = "ok" /\ c'.kind = c.kind /\ x' = x
      BY <1>0, <2>1, <2>4 DEF Answer, BrokerCallRecords
    <3> QED
      BY <2>1, <2>4, <3>1 DEF Promises
  <2> QED
    BY <2>1, <2>2, <2>3, <2>4
<1>11. ASSUME NEW w \in Workers, CallLost(w) \/ CallRedelivered(w) \/ StoreBeat(w) PROVE Promises(v)'
  <2>1. /\ vWork' = vWork /\ vJob' = vJob
        /\ Answer(w, "error") \/ Answer(w, "sent") \/ (vCall[w].kind = "beat" /\ \E st : Answer(w, st))
    BY <1>11 DEF CallLost, CallRedelivered, StoreBeat
  <2>2. CASE w # v
    <3>1. c' = c /\ x' = x
      BY <1>0, <2>1, <2>2 DEF Answer
    <3> QED
      BY <1>a, <2>1, <3>1
  <2>3. CASE w = v
    <3>1. x' = x /\ (c'.kind # "complete" \/ c'.st \notin {"stored", "ok", "refused"})
      BY <1>0, <2>1, <2>3 DEF Answer, BrokerCallRecords
    <3> QED
      BY <1>6, <3>1
  <2> QED
    BY <2>2, <2>3
<1>12. ASSUME NEW w \in Workers,
              \/ WorkerClaims(w) \/ ClaimIsAnswered(w) \/ WorkerBeats(w) \/ BeatIsAnswered(w) \/ WorkerStops(w)
              \/ FenceAndAcknowledge(w) \/ LastCallIsAnswered(w)
       PROVE  Promises(v)'
  <2>1. /\ vJob' = vJob
        /\ NoCall(w) \/ \E k : Call(w, k)
        /\ \/ vWork' = vWork
           \/ \E pc : \/ vWork' = [vWork EXCEPT ![w].pc = pc]
                      \/ \E b \in BOOLEAN : vWork' = [vWork EXCEPT ![w].pc = pc, ![w].browser = b]
    BY <1>12 DEF WorkerClaims, ClaimIsAnswered, WorkerBeats, BeatIsAnswered, WorkerStops,
       FenceAndAcknowledge,
                 LastCallIsAnswered
  <2>2. x'.result = x.result /\ x'.told = x.told
    <3>1. CASE vWork' = vWork
      BY <3>1
    <3>2. ASSUME NEW pc, vWork' = [vWork EXCEPT ![w].pc = pc] PROVE x'.result = x.result /\ x'.told = x.told
      <4>1. x' = IF v = w THEN [x EXCEPT !.pc = pc] ELSE x
        BY <1>0, <3>2
      <4> HIDE DEF x
      <4> QED
        BY <1>0, <4>1 DEF WorkerRecords
    <3>3. ASSUME NEW pc, NEW b \in BOOLEAN, vWork' = [vWork EXCEPT ![w].pc = pc, ![w].browser = b]
          PROVE  x'.result = x.result /\ x'.told = x.told
      <4>1. x' = IF v = w THEN [x EXCEPT !.pc = pc, !.browser = b] ELSE x
        BY <1>0, <3>3
      <4> HIDE DEF x
      <4> QED
        BY <1>0, <4>1 DEF WorkerRecords
    <3> QED
      BY <2>1, <3>1, <3>2, <3>3
  <2>3. CASE w # v
    <3>1. c' = c
      BY <1>0, <2>1, <2>3 DEF NoCall, Call
    <3> QED
      BY <1>5, <2>1, <2>2, <3>1 DEF Promises
  <2>4. CASE w = v
    <3>1. c'.st \in {"none", "sent"}
      BY <1>0, <2>1, <2>4 DEF NoCall, Call
    <3> QED
      BY <1>6, <2>2, <3>1
  <2> QED
    BY <2>3, <2>4
<1>13. ASSUME NEW w \in Workers, CrawlCompletes(w) PROVE Promises(v)'
  <2>1. PICK r : vWork' = [vWork EXCEPT ![w].pc = "complete", ![w].browser = FALSE, ![w].result = r]
    BY <1>13 DEF CrawlCompletes
  <2>2. vJob' = vJob /\ Call(w, "complete") /\ vWork[w].pc = "work"
    BY <1>13 DEF CrawlCompletes
  <2>3. CASE w # v
    <3>1. c' = c /\ x' = x
      BY <1>0, <2>1, <2>2, <2>3 DEF Call
    <3> QED
      BY <1>a, <2>2, <3>1
  <2>4. CASE w = v
    <3>1. c'.st = "sent"
      BY <1>0, <2>2, <2>4 DEF Call
    <3>2. x'.told = x.told
      BY <1>0, <2>1, <2>4 DEF WorkerRecords
    <3> QED
      BY <1>2, <1>6, <2>2, <2>4, <3>1, <3>2
  <2> QED
    BY <2>3, <2>4
<1>14. ASSUME NEW w \in Workers, CompletionIsAnswered(w) PROVE Promises(v)'
  <2>1. /\ vJob' = vJob /\ UNCHANGED <<vTask, vSess>> /\ vWork[w].pc = "complete" /\ vCall[w].st # "none"
        /\ \/ vCall[w].st = "ok" /\ vWork' = [vWork EXCEPT ![w].pc = "exit", ![w].told = TRUE] /\ NoCall(w)
           \/ \E pc, k : vWork' = [vWork EXCEPT ![w].pc = pc] /\ Call(w, k)
    BY <1>14 DEF CompletionIsAnswered
  <2>2. CASE w # v
    <3>1. c' = c /\ x' = x
      BY <1>0, <2>1, <2>2 DEF Call, NoCall
    <3> QED
      BY <1>a, <2>1, <3>1
  <2>3. CASE w = v /\ \E pc, k : vWork' = [vWork EXCEPT ![w].pc = pc] /\ Call(w, k)
    <3>1. c'.st = "sent"
      BY <1>0, <2>3 DEF Call
    <3>2. x'.told = x.told /\ x'.result = x.result
      BY <1>0, <2>3 DEF WorkerRecords
    <3> QED
      BY <1>6, <3>1, <3>2
  <2>4. CASE w = v /\ vCall[w].st = "ok" /\ vWork' = [vWork EXCEPT ![w].pc = "exit", ![w].told = TRUE] /\ NoCall(w)
    <3>1. c'.st = "none" /\ x'.result = x.result
      BY <1>0, <2>4 DEF NoCall, WorkerRecords
    <3>2. c.kind = "complete"
      BY <1>0, <2>1, <2>4 DEF CallOfStep, BrokerCallRecords
    <3>3. vJob.status \in JobTerminal /\ vJob.digest = x.result /\ (vTask \/ vSess \in Concluded)
      BY <1>4, <2>4, <3>2 DEF Promises
    <3> QED
      BY <2>1, <3>1, <3>3 DEF Promises
  <2> QED
    BY <2>1, <2>2, <2>3, <2>4
<1>15. ASSUME NEW d \in Dispatchers, ReserveDispatch(d) \/ StartWorker(d) PROVE Promises(v)'
  <2>1. /\ vCall' = vCall
        /\ \/ vWork' = vWork \/ \E w \in Workers : vWork' = [vWork EXCEPT ![w].pc = "born"]
        /\ \/ UNCHANGED vJob
           \/ vJob' = [vJob EXCEPT !.status = "queued", !.attempts = @ + 1, !.handing = TRUE]
           \/ vJob' = [vJob EXCEPT !.status = "failed"]
           \/ vJob' = [vJob EXCEPT !.status = "failed", !.handing = FALSE]
    BY <1>15 DEF ReserveDispatch, StartWorker
  <2>2. vJob'.worker = vJob.worker /\ vJob'.digest = vJob.digest
    <3>1. vJob \in JobRecords
      BY DEF RecordsOK
    <3> QED
      BY <2>1, <3>1 DEF JobRecords
  <2>3. x'.told = x.told /\ x'.result = x.result
    BY <1>0, <2>1 DEF WorkerRecords
  <2> QED
    BY <1>5, <2>1, <2>2, <2>3 DEF Promises
<1>16. ASSUME HandOffExpires \/ OperatorCancelsHosted \/ LeaseExpires \/ Reconcile PROVE Promises(v)'
  <2>1. /\ vWork' = vWork /\ vCall' = vCall
        /\ \/ vJob' = [vJob EXCEPT !.handing = FALSE] \/ vJob' = [vJob EXCEPT !.lease = FALSE]
           \/ \E st : vJob' = [vJob EXCEPT !.status = st]
    BY <1>16 DEF HandOffExpires, OperatorCancelsHosted, LeaseExpires, Reconcile
  <2>2. vJob'.worker = vJob.worker /\ vJob'.digest = vJob.digest
    <3>1. vJob \in JobRecords
      BY DEF RecordsOK
    <3> QED
      BY <2>1, <3>1 DEF JobRecords
  <2> QED
    BY <1>5, <2>1, <2>2 DEF Promises
<1> QED
  BY <1>7, <1>8, <1>9, <1>10, <1>11, <1>12, <1>13, <1>14, <1>15, <1>16 DEF BrokerNext

LEMMA BrokerInitHolds == BrokerInit => BrokerInv
<1> SUFFICES ASSUME BrokerInit PROVE BrokerInv
  OBVIOUS
<1> USE DEF BrokerInit
<1>1. RecordsOK
  <2>1. [status |-> "none", worker |-> NoWorker, lease |-> FALSE, digest |-> "none", attempts |-> 0, handing |-> FALSE]
          \in JobRecords
    BY DEF JobRecords, Results
  <2>2. [pc |-> "unborn", browser |-> FALSE, result |-> "none", told |-> FALSE] \in WorkerRecords
    BY DEF WorkerRecords, Results
  <2>3. [kind |-> "none", st |-> "none"] \in BrokerCallRecords
    BY DEF BrokerCallRecords
  <2> QED
    BY <2>1, <2>2, <2>3 DEF RecordsOK
<1> QED
  BY <1>1 DEF BrokerInv, OneAttempt, DigestIsOutcome, CallOfStep, StoredIsRecorded, OneHandOff,
     ReceiptIsHonoured,
              AnsweredIsReconciled

LEMMA BrokerInvAlways == BrokerSpec => []BrokerInv
<1>1. BrokerInv /\ [BrokerNext]_brokerVars => BrokerInv'
  <2> SUFFICES ASSUME BrokerInv, [BrokerNext]_brokerVars PROVE BrokerInv'
    OBVIOUS
  <2> USE DEF BrokerInv
  <2>1. CASE BrokerNext
    <3>1. RecordsOK' /\ DigestIsOutcome' /\ CallOfStep' /\ OneAttempt' /\ OneHandOff'
      BY <2>1, RecordsKeep, DigestKeeps, CallsFollowSteps, AttemptKeeps
    <3>2. \A v \in Workers : Promises(v)'
      BY <2>1, PromisesAre, PromisesKeep
    <3>3. StoredIsRecorded' /\ ReceiptIsHonoured' /\ AnsweredIsReconciled'
      BY <3>2 DEF StoredIsRecorded, ReceiptIsHonoured, AnsweredIsReconciled, Promises, Concluded
    <3> QED
      BY <3>1, <3>3
  <2>2. CASE UNCHANGED brokerVars
    BY <2>2 DEF brokerVars, RecordsOK, OneAttempt, DigestIsOutcome, CallOfStep, StoredIsRecorded,
       OneHandOff,
                ReceiptIsHonoured, AnsweredIsReconciled
  <2> QED
    BY <2>1, <2>2
<1> QED
  BY <1>1, BrokerInitHolds, PTL DEF BrokerSpec

\* However many callers hand a crawl off, lose answers and retry, and however
\* often a completion is delivered: one worker is started for the job, a recorded
\* completion is never refused to the worker that sent it, and one that was
\* confirmed has concluded its session or will (decideDispatchReservation,
\* isExactTerminalCompletion, the routes of worker-broker.ts).
THEOREM ReceiptsStand == BrokerSpec => []ReceiptStands
<1>1. BrokerInv => ReceiptStands
  BY RecordsAreTypes DEF BrokerInv, ReceiptStands
<1> QED
  BY <1>1, BrokerInvAlways, PTL

\* The outcome of a hosted job is recorded once, whatever is lost or delivered
\* twice afterwards (workerOwnsAttempt, reconcileCrawlLifecycle).
THEOREM OutcomeOnce == BrokerSpec => OutcomeStands
<1>1. BrokerInv /\ [BrokerNext]_brokerVars
        => [vJob.status \in JobTerminal => vJob'.status = vJob.status /\ vJob'.digest = vJob.digest]_brokerVars
  BY OutcomeKeeps DEF BrokerInv
<1> QED
  BY <1>1, BrokerInvAlways, PTL DEF BrokerSpec, OutcomeStands

-----------------------------------------------------------------------------
(***************************************************************************)
(* The hosted schedule.                                                    *)
(***************************************************************************)

\* The successor's first callback has been queued.
Queued(rev, due) == <<rev, due, 0>> \in hIds

\* The due record: what is pending lies before what is next, and an armed
\* record has its callback.
DueFits ==
  /\ hDue.rev = hConn.rev /\ hDue.next # NoOccurrence /\ hDue.pending < hDue.next
  /\ hDue.armed => Queued(hDue.rev, hDue.next)

\* A callback that waits in legs has waited longer than it has legs.
TasksFit == \A t \in hTasks : t.due # NoOccurrence /\ t.seq < t.notBefore

\* An occurrence of a revision that the schedule has moved past.
Past(rev, due) == rev <= hDue.rev /\ (rev = hDue.rev => due < hDue.next)

\* What a handler of a callback has behind it at each of its steps.
CallFits(c) ==
  LET t == hCall[c].task IN
  /\ hCall[c].pc # "idle" => t.due # NoOccurrence /\ t.due <= hNow
  /\ hCall[c].pc \in {"arm", "mark"} =>
       /\ Past(t.rev, t.due) /\ hCall[c].next # NoOccurrence
       /\ t.rev = hDue.rev /\ hDue.pending = t.due => hDue.next = hCall[c].next
  /\ hCall[c].pc = "mark" => Queued(t.rev, hCall[c].next)
  /\ hCall[c].pc = "run" =>
       /\ Past(t.rev, t.due) /\ hRuns[<<t.rev, t.due>>] = 0
       /\ t.rev = hDue.rev => hDue.pending # t.due /\ \E n \in Due : n > t.due /\ Queued(t.rev, n)

OneRunner ==
  \A c, d \in Callers :
    hCall[c].pc = "run" /\ hCall[d].pc = "run" /\ hCall[c].task.rev = hCall[d].task.rev
      /\ hCall[c].task.due = hCall[d].task.due => c = d

\* A crawl that was started belongs to an occurrence that is behind.
RunsFit ==
  \A r \in 0..MaxRevision, d \in Due :
    hRuns[<<r, d>>] # 0 => /\ hRuns[<<r, d>>] = 1 /\ d # NoOccurrence /\ Past(r, d)
                           /\ r = hDue.rev => hDue.pending # d

ScheduleInv ==
  /\ HostedScheduleTypeOK /\ DueFits /\ TasksFit /\ OneRunner /\ RunsFit
  /\ \A c \in Callers : CallFits(c)

ConnRecords == [rev : 0..MaxRevision, enabled : BOOLEAN, deleted : BOOLEAN, healthy : BOOLEAN]
DueRecords == [rev : 0..MaxRevision, next : Due, armed : BOOLEAN, pending : Due, should : BOOLEAN]
CallSteps == {"idle", "due", "arm", "mark", "consume", "run"}
CallRecords == [pc : CallSteps, task : Task, next : Due]
Occurrences == (0..MaxRevision) \X Due
CallbackIds == (0..MaxRevision) \X Due \X (0..MaxDue)

LEMMA ScheduleTypes ==
  HostedScheduleTypeOK <=>
    /\ hNow \in 0..MaxDue /\ hConn \in ConnRecords /\ hDue \in DueRecords /\ hTasks \subseteq Task
    /\ hIds \subseteq CallbackIds /\ hCall \in [Callers -> CallRecords] /\ hRuns \in [Occurrences -> 0..2]
BY DEF HostedScheduleTypeOK, ConnRecords, DueRecords, CallRecords, CallSteps, Occurrences, CallbackIds

LEMMA ScheduleTypesNext ==
  ASSUME hNow' \in 0..MaxDue, hConn' \in ConnRecords, hDue' \in DueRecords, hTasks' \subseteq Task,
         hIds' \subseteq CallbackIds, hCall' \in [Callers -> CallRecords], hRuns' \in [Occurrences -> 0..2]
  PROVE  HostedScheduleTypeOK'
BY DEF HostedScheduleTypeOK, ConnRecords, DueRecords, CallRecords, CallSteps, Occurrences, CallbackIds

LEMMA ScheduleFields ==
  ASSUME HostedScheduleTypeOK
  PROVE  /\ hNow \in Nat /\ hNow <= MaxDue /\ Due = 0..(MaxDue + 2) /\ MaxDue \in Nat /\ MaxRevision \in Nat
         /\ Horizon \in Nat \ {0}
         /\ hDue.rev \in 0..MaxRevision /\ hDue.next \in Due /\ hDue.pending \in Due
         /\ hDue.armed \in BOOLEAN
         /\ hDue.should \in BOOLEAN /\ hConn.rev \in 0..MaxRevision
         /\ \A t \in hTasks : t \in Task
         /\ \A t \in Task : t.rev \in 0..MaxRevision /\ t.due \in Due /\ t.seq \in 0..MaxDue /\ t.notBefore \in Due
         /\ \A c \in Callers : hCall[c].pc \in CallSteps /\ hCall[c].task \in Task /\ hCall[c].next \in Due
<1>0. {MaxRevision, MaxDue} \subseteq Nat /\ Horizon \in Nat \ {0}
  BY HostedScheduleAssumption
<1>1. /\ hNow \in Nat /\ hNow <= MaxDue /\ Due = 0..(MaxDue + 2) /\ MaxDue \in Nat /\ MaxRevision \in Nat
      /\ Horizon \in Nat \ {0}
  BY <1>0 DEF HostedScheduleTypeOK, Due
<1>2. /\ hDue.rev \in 0..MaxRevision /\ hDue.next \in Due /\ hDue.pending \in Due /\ hDue.armed \in BOOLEAN
      /\ hDue.should \in BOOLEAN /\ hConn.rev \in 0..MaxRevision
  BY ScheduleTypes DEF DueRecords, ConnRecords
<1>3. \A t \in hTasks : t \in Task
  BY DEF HostedScheduleTypeOK
<1>4. \A t \in Task : t.rev \in 0..MaxRevision /\ t.due \in Due /\ t.seq \in 0..MaxDue /\ t.notBefore \in Due
  BY DEF Task
<1>5. \A c \in Callers : hCall[c].pc \in CallSteps /\ hCall[c].task \in Task /\ hCall[c].next \in Due
  BY ScheduleTypes DEF CallRecords
<1> QED
  BY <1>1, <1>2, <1>3, <1>4, <1>5

LEMMA NoTaskIsTask == NoTask \in Task /\ NoOccurrence \in Due /\ IdleCall \in CallRecords /\ IdleCall.pc = "idle"
<1>1. MaxRevision \in Nat /\ MaxDue \in Nat
  BY HostedScheduleAssumption
<1>2. NoTask \in Task /\ NoOccurrence \in Due
  BY <1>1 DEF NoTask, Task, Due, NoOccurrence
<1> QED
  BY <1>2 DEF IdleCall, CallRecords, CallSteps

\* A handler's record after a step.
CallBecomes(c, pc, task, next) == hCall' = [hCall EXCEPT ![c] = [pc |-> pc, task |-> task, next |-> next]]

LEMMA CallBecomesIs ==
  ASSUME HostedScheduleTypeOK, NEW c \in Callers, NEW pc \in CallSteps, NEW task \in Task, NEW next \in Due,
         CallBecomes(c, pc, task, next)
  PROVE  /\ hCall' \in [Callers -> CallRecords]
         /\ hCall'[c].pc = pc /\ hCall'[c].task = task /\ hCall'[c].next = next
         /\ \A d \in Callers : d # c => hCall'[d] = hCall[d]
<1> DEFINE y == [pc |-> pc, task |-> task, next |-> next]
<1>1. y \in CallRecords /\ y.pc = pc /\ y.task = task /\ y.next = next
  BY DEF CallRecords
<1>2. hCall \in [Callers -> CallRecords] /\ hCall' = [hCall EXCEPT ![c] = y]
  BY ScheduleTypes DEF CallBecomes
<1> HIDE DEF y
<1> QED
  BY <1>1, <1>2

LEMMA CallBecomesBy ==
  ASSUME HostedScheduleTypeOK, NEW c \in Callers, NEW pc, NEW n
  PROVE  LET x == hCall[c] IN
         /\ hCall' = [hCall EXCEPT ![c].pc = pc] => CallBecomes(c, pc, x.task, x.next)
         /\ hCall' = [hCall EXCEPT ![c].pc = pc, ![c].next = n] => CallBecomes(c, pc, x.task, n)
<1> DEFINE x == hCall[c]
           z == [x EXCEPT !.pc = pc]
<1>0. hCall \in [Callers -> CallRecords] /\ x \in CallRecords
  BY ScheduleTypes
<1>a. z = [pc |-> pc, task |-> x.task, next |-> x.next]
  <2> HIDE DEF x
  <2> QED
    BY <1>0 DEF CallRecords
<1>1. hCall' = [hCall EXCEPT ![c].pc = pc] => CallBecomes(c, pc, x.task, x.next)
  <2>1. [x EXCEPT !.pc = pc] = [pc |-> pc, task |-> x.task, next |-> x.next]
    BY <1>a
  <2>2. hCall' = [hCall EXCEPT ![c].pc = pc] => hCall' = [hCall EXCEPT ![c] = [x EXCEPT !.pc = pc]]
    BY <1>0
  <2> QED
    BY <2>1, <2>2 DEF CallBecomes
<1>2. hCall' = [hCall EXCEPT ![c].pc = pc, ![c].next = n] => CallBecomes(c, pc, x.task, n)
  <2>1. [x EXCEPT !.pc = pc, !.next = n] = [pc |-> pc, task |-> x.task, next |-> n]
    <3>1. [x EXCEPT !.pc = pc, !.next = n] = [z EXCEPT !.next = n]
      OBVIOUS
    <3>2. [z EXCEPT !.next = n] = [pc |-> pc, task |-> x.task, next |-> n]
      <4> HIDE DEF z, x
      <4> QED
        BY <1>a
    <3> QED
      BY <3>1, <3>2
  <2>2. hCall' = [hCall EXCEPT ![c].pc = pc, ![c].next = n] => hCall' = [hCall EXCEPT ![c] = [x EXCEPT !.pc = pc, !.next = n]]
    BY <1>0
  <2> QED
    BY <2>1, <2>2 DEF CallBecomes
<1> QED
  BY <1>1, <1>2

\* The queue takes a callback once.
LEMMA EnqueueIs ==
  ASSUME HostedScheduleTypeOK, TasksFit, NEW due \in Due, due # 0, NEW rev \in 0..MaxRevision,
         EnqueueHostedScheduledConnection(due, rev, 0)
  PROVE  /\ hTasks' \subseteq Task /\ TasksFit' /\ hIds' \subseteq CallbackIds /\ hIds \subseteq hIds'
         /\ <<rev, due, 0>> \in hIds'
<1> DEFINE nb == Least(due, hNow + Horizon)
           t == [rev |-> rev, due |-> due, seq |-> 0, notBefore |-> nb]
<1>0. hNow \in Nat /\ Due = 0..(MaxDue + 2) /\ MaxDue \in Nat /\ Horizon \in Nat \ {0}
  BY ScheduleFields
<1>1. nb \in Due /\ 0 < nb
  BY <1>0 DEF Least
<1> HIDE DEF nb
<1>2. t \in Task /\ t.due # NoOccurrence /\ t.seq < t.notBefore /\ IdOf(t) = <<rev, due, 0>>
  BY <1>0, <1>1 DEF Task, IdOf, NoOccurrence
<1>3. hTasks' = (IF IdOf(t) \in hIds THEN hTasks ELSE hTasks \cup {t}) /\ hIds' = hIds \cup {IdOf(t)}
  BY DEF EnqueueHostedScheduledConnection, nb
<1> HIDE DEF t
<1>4. hTasks' \subseteq hTasks \cup {t} /\ hIds' = hIds \cup {<<rev, due, 0>>}
  BY <1>2, <1>3
<1>5. <<rev, due, 0>> \in CallbackIds /\ hIds \subseteq CallbackIds /\ hTasks \subseteq Task
  BY <1>0, ScheduleTypes DEF CallbackIds
<1> QED
  BY <1>2, <1>4, <1>5 DEF TasksFit

----------------------------------------------------------------------------
\* A step that leaves the next occurrence where it is.
DueStays ==
  /\ HostedScheduleTypeOK' /\ TasksFit'
  /\ hDue'.rev = hDue.rev /\ hDue'.next = hDue.next /\ hDue'.pending \in {hDue.pending, NoOccurrence}
  /\ hConn'.rev = hConn.rev /\ hIds \subseteq hIds' /\ hNow <= hNow'
  /\ hDue'.armed => hDue.armed \/ <<hDue.rev, hDue.next, 0>> \in hIds'

LEMMA DueStaysFits == ASSUME ScheduleInv, DueStays PROVE DueFits'
<1>1. DueFits /\ HostedScheduleTypeOK
  BY DEF ScheduleInv
<1>2. hDue.next \in Nat /\ hDue.next # NoOccurrence
  BY <1>1, ScheduleFields DEF DueFits
<1>3. hDue'.pending < hDue'.next
  BY <1>1, <1>2 DEF DueStays, DueFits, NoOccurrence
<1> QED
  BY <1>1, <1>3 DEF DueStays, DueFits, Queued

\* A handler that does not move.
LEMMA BystanderFits ==
  ASSUME ScheduleInv, DueStays, NEW d \in Callers, hCall'[d] = hCall[d],
         hCall[d].pc = "run" => hRuns'[<<hCall[d].task.rev, hCall[d].task.due>>] = 0
  PROVE  CallFits(d)'
<1>1. CallFits(d) /\ HostedScheduleTypeOK
  BY DEF ScheduleInv
<1>2. /\ hDue'.rev = hDue.rev /\ hDue'.next = hDue.next /\ hDue'.pending \in {hDue.pending, NoOccurrence}
      /\ hIds \subseteq hIds' /\ hNow <= hNow' /\ hNow' \in 0..MaxDue
  BY DEF DueStays, HostedScheduleTypeOK
<1>3. hNow \in Nat /\ hCall[d].task.due \in Nat /\ MaxDue \in Nat
  BY <1>1, ScheduleFields
<1> QED
  BY <1>1, <1>2, <1>3 DEF CallFits, Past, Queued

LEMMA IdleFits == ASSUME NEW d \in Callers, hCall'[d].pc = "idle" PROVE CallFits(d)'
BY DEF CallFits

\* Nobody starts to run.
LEMMA RunsStay ==
  ASSUME ScheduleInv, DueStays, hRuns' = hRuns,
         \A d \in Callers : hCall'[d].pc = "run" => hCall'[d] = hCall[d]
  PROVE  OneRunner' /\ RunsFit'
<1>1. OneRunner /\ RunsFit /\ HostedScheduleTypeOK
  BY DEF ScheduleInv
<1>2. hDue'.rev = hDue.rev /\ hDue'.next = hDue.next /\ hDue'.pending \in {hDue.pending, NoOccurrence}
  BY DEF DueStays
<1>3. OneRunner'
  BY <1>1 DEF OneRunner
<1>4. RunsFit'
  BY <1>1, <1>2 DEF RunsFit, Past
<1> QED
  BY <1>3, <1>4

\* A step of one handler, or of none, after which nobody else has moved.
LEMMA ScheduleQuietKeeps ==
  ASSUME ScheduleInv, DueStays, hRuns' = hRuns,
         \A d \in Callers : hCall'[d] = hCall[d] \/ (hCall'[d].pc # "run" /\ CallFits(d)')
  PROVE  ScheduleInv'
<1>1. DueFits'
  BY DueStaysFits
<1>2. ASSUME NEW d \in Callers, hCall'[d] = hCall[d] PROVE CallFits(d)'
  <2>1. hCall[d].pc = "run" => hRuns'[<<hCall[d].task.rev, hCall[d].task.due>>] = 0
    BY DEF ScheduleInv, CallFits
  <2> QED
    BY <1>2, <2>1, BystanderFits
<1>3. \A d \in Callers : CallFits(d)'
  BY <1>2
<1>4. \A d \in Callers : hCall'[d].pc = "run" => hCall'[d] = hCall[d]
  OBVIOUS
<1>5. OneRunner' /\ RunsFit'
  BY <1>4, RunsStay
<1> QED
  BY <1>1, <1>3, <1>5 DEF ScheduleInv, DueStays

----------------------------------------------------------------------------
LEMMA ClockKeeps == ASSUME ScheduleInv, HostedClockTick \/ HealthChanges PROVE ScheduleInv'
<1>0. HostedScheduleTypeOK /\ TasksFit /\ hConn \in ConnRecords
  BY ScheduleTypes DEF ScheduleInv
<1>1. UNCHANGED <<hDue, hTasks, hIds, hCall, hRuns>> /\ hNow' \in 0..MaxDue /\ hNow <= hNow'
  BY <1>0, ScheduleFields DEF HostedClockTick, HealthChanges
<1>2. hConn' \in ConnRecords /\ hConn'.rev = hConn.rev
  BY <1>0 DEF HostedClockTick, HealthChanges, ConnRecords
<1>3. HostedScheduleTypeOK'
  BY <1>0, <1>1, <1>2, ScheduleTypes, ScheduleTypesNext
<1>4. DueStays
  BY <1>0, <1>1, <1>2, <1>3 DEF DueStays, TasksFit
<1> QED
  BY <1>1, <1>4, ScheduleQuietKeeps

\* An edit: what is behind stays behind the new revision.
LEMMA EditKeeps == ASSUME ScheduleInv, EditSchedule PROVE ScheduleInv'
<1>0. /\ HostedScheduleTypeOK /\ hConn \in ConnRecords /\ hDue.rev = hConn.rev /\ hNow \in Nat
      /\ hNow <= MaxDue /\ MaxDue \in Nat
      /\ Due = 0..(MaxDue + 2) /\ MaxRevision \in Nat /\ hConn.rev \in 0..MaxRevision
  BY ScheduleTypes, ScheduleFields DEF ScheduleInv, DueFits
<1>1. /\ UNCHANGED <<hNow, hTasks, hIds, hCall, hRuns>> /\ hConn.rev < MaxRevision
      /\ hDue' = [rev |-> hConn.rev + 1, next |-> hNow + 1, armed |-> FALSE, pending |-> NoOccurrence, should |-> FALSE]
  BY DEF EditSchedule
<1>2. PICK e, x \in BOOLEAN : hConn' = [hConn EXCEPT !.rev = @ + 1, !.enabled = e, !.deleted = x]
  BY DEF EditSchedule
<1>3. hConn' \in ConnRecords /\ hConn'.rev = hConn.rev + 1
  <2>1. hConn.rev + 1 \in 0..MaxRevision
    BY <1>0, <1>1
  <2> DEFINE n == hConn.rev + 1
             z == [hConn EXCEPT !.rev = n]
  <2>2. z \in ConnRecords /\ z.rev = n
    <3> HIDE DEF n
    <3> QED
      BY <1>0, <2>1 DEF ConnRecords, n
  <2>3. hConn' = [z EXCEPT !.enabled = e, !.deleted = x]
    BY <1>2
  <2> HIDE DEF z
  <2>4. hConn' \in ConnRecords /\ hConn'.rev = z.rev
    BY <2>2, <2>3 DEF ConnRecords
  <2> QED
    BY <2>2, <2>4
<1>4. /\ hDue' \in DueRecords /\ hDue'.rev = hConn.rev + 1 /\ hDue'.next = hNow + 1 /\ ~hDue'.armed
      /\ hDue'.pending = NoOccurrence
  BY <1>0, <1>1 DEF DueRecords, NoOccurrence
<1>5. HostedScheduleTypeOK'
  BY <1>0, <1>1, <1>3, <1>4, ScheduleTypes, ScheduleTypesNext
<1>6. DueFits' /\ TasksFit' /\ OneRunner'
  BY <1>0, <1>1, <1>3, <1>4 DEF ScheduleInv, DueFits, TasksFit, OneRunner, NoOccurrence
<1>7. ASSUME NEW r \in 0..MaxRevision, NEW d, Past(r, d) PROVE Past(r, d)' /\ r # hDue'.rev
  BY <1>0, <1>4, <1>7 DEF Past
<1>8. RunsFit'
  BY <1>1, <1>7 DEF ScheduleInv, RunsFit
<1>9. ASSUME NEW c \in Callers PROVE CallFits(c)'
  <2>1. hCall[c].task.rev \in 0..MaxRevision
    BY <1>0, ScheduleFields
  <2> QED
    BY <1>1, <1>7, <2>1 DEF ScheduleInv, CallFits, Queued
<1> QED
  BY <1>5, <1>6, <1>8, <1>9 DEF ScheduleInv

LEMMA EnsureKeeps == ASSUME ScheduleInv, EnsureScheduledConnections PROVE ScheduleInv'
<1>0. /\ HostedScheduleTypeOK /\ TasksFit /\ hDue \in DueRecords /\ hDue.rev \in 0..MaxRevision
      /\ hDue.next \in Due /\ hDue.next # 0
  BY ScheduleTypes, ScheduleFields DEF ScheduleInv, DueFits, NoOccurrence
<1>1. /\ UNCHANGED <<hNow, hConn, hCall, hRuns>> /\ hDue' = [hDue EXCEPT !.armed = TRUE]
      /\ EnqueueHostedScheduledConnection(hDue.next, hDue.rev, 0)
  BY DEF EnsureScheduledConnections
<1>2. /\ hTasks' \subseteq Task /\ TasksFit' /\ hIds' \subseteq CallbackIds /\ hIds \subseteq hIds'
      /\ <<hDue.rev, hDue.next, 0>> \in hIds'
  BY <1>0, <1>1, EnqueueIs
<1>3. hDue' \in DueRecords /\ hDue'.rev = hDue.rev /\ hDue'.next = hDue.next /\ hDue'.pending = hDue.pending
  BY <1>0, <1>1 DEF DueRecords
<1>4. HostedScheduleTypeOK'
  BY <1>0, <1>1, <1>2, <1>3, ScheduleTypes, ScheduleTypesNext
<1>5. DueStays
  BY <1>0, <1>1, <1>2, <1>3, <1>4, ScheduleFields DEF DueStays
<1> QED
  BY <1>1, <1>5, ScheduleQuietKeeps

\* A callback is delivered: dropped, answered with an error, put off or held.
LEMMA CallbackKeeps ==
  ASSUME ScheduleInv, NEW c \in Callers, NEW t \in hTasks, DeliverCallback(c, t)
  PROVE  ScheduleInv'
<1> DEFINE nb == Least(t.due, hNow + Horizon)
           u == [t EXCEPT !.seq = @ + 1, !.notBefore = nb]
           w == [t EXCEPT !.seq = @ + 1]
<1>0. HostedScheduleTypeOK /\ TasksFit /\ t \in Task /\ t.due # NoOccurrence /\ t.seq < t.notBefore
  BY ScheduleFields DEF ScheduleInv, TasksFit
<1>f. /\ hNow \in Nat /\ hNow <= MaxDue /\ Due = 0..(MaxDue + 2) /\ MaxDue \in Nat /\ Horizon \in Nat \ {0}
      /\ t.rev \in 0..MaxRevision /\ t.due \in Due /\ t.seq \in 0..MaxDue /\ t.notBefore \in Due
  BY <1>0, ScheduleFields
<1>1. UNCHANGED <<hNow, hConn, hDue, hRuns>> /\ t.notBefore <= hNow
  BY DEF DeliverCallback
<1>2. \/ hTasks' \subseteq hTasks /\ UNCHANGED <<hIds, hCall>>
      \/ /\ hNow < t.due /\ UNCHANGED hCall
         /\ hTasks' = (hTasks \ {t}) \cup (IF IdOf(u) \in hIds THEN {} ELSE {u})
         /\ hIds' = hIds \cup {IdOf(u)}
      \/ /\ hNow >= t.due /\ hCall' = [hCall EXCEPT ![c] = [pc |-> "due", task |-> t, next |-> NoOccurrence]]
         /\ UNCHANGED <<hTasks, hIds>>
  BY DEF DeliverCallback
<1>u. hNow < t.due => u \in Task /\ u.due = t.due /\ u.seq < u.notBefore /\ IdOf(u) \in CallbackIds
  <2> SUFFICES ASSUME hNow < t.due PROVE u \in Task /\ u.due = t.due /\ u.seq < u.notBefore /\ IdOf(u) \in CallbackIds
    OBVIOUS
  <2>1. nb \in Due /\ hNow < nb
    BY <1>f DEF Least
  <2>2. t.seq + 1 \in 0..MaxDue /\ t.seq + 1 < nb
    BY <1>0, <1>1, <1>f, <2>1
  <2> DEFINE q == t.seq + 1
  <2>3. w = [t EXCEPT !.seq = q] /\ u = [w EXCEPT !.notBefore = nb]
    OBVIOUS
  <2>4. q \in 0..MaxDue /\ q < nb
    BY <2>2
  <2> HIDE DEF w, u, nb, q
  <2>5. w \in Task /\ w.due = t.due /\ w.seq = q /\ w.rev = t.rev
    BY <1>0, <2>3, <2>4 DEF Task
  <2>6. u \in Task /\ u.due = w.due /\ u.seq = w.seq /\ u.notBefore = nb /\ u.rev = w.rev
    BY <2>1, <2>3, <2>5 DEF Task
  <2>7. IdOf(u) = <<t.rev, t.due, q>>
    BY <2>5, <2>6 DEF IdOf
  <2> QED
    BY <1>f, <2>4, <2>5, <2>6, <2>7 DEF CallbackIds
<1> HIDE DEF u, w, nb
<1>3. CASE hTasks' \subseteq hTasks /\ UNCHANGED <<hIds, hCall>>
  <2>1. HostedScheduleTypeOK' /\ TasksFit'
    BY <1>0, <1>1, <1>3, ScheduleTypes, ScheduleTypesNext DEF TasksFit
  <2>2. DueStays
    BY <1>1, <1>3, <1>f, <2>1 DEF DueStays
  <2> QED
    BY <1>1, <1>3, <2>2, ScheduleQuietKeeps
<1>4. CASE /\ hNow < t.due /\ UNCHANGED hCall
           /\ hTasks' = (hTasks \ {t}) \cup (IF IdOf(u) \in hIds THEN {} ELSE {u})
           /\ hIds' = hIds \cup {IdOf(u)}
  <2>0. hTasks' \subseteq hTasks \cup {u}
    BY <1>4
  <2>1. hTasks' \subseteq Task /\ hIds' \subseteq CallbackIds /\ TasksFit'
    BY <1>0, <1>4, <1>u, <2>0, ScheduleTypes DEF TasksFit
  <2>2. HostedScheduleTypeOK'
    BY <1>0, <1>1, <1>4, <2>1, ScheduleTypes, ScheduleTypesNext
  <2>3. DueStays
    BY <1>1, <1>4, <1>f, <2>1, <2>2 DEF DueStays
  <2> QED
    BY <1>1, <1>4, <2>3, ScheduleQuietKeeps
<1>5. CASE /\ hNow >= t.due /\ hCall' = [hCall EXCEPT ![c] = [pc |-> "due", task |-> t, next |-> NoOccurrence]]
           /\ UNCHANGED <<hTasks, hIds>>
  <2>1. CallBecomes(c, "due", t, NoOccurrence) /\ "due" \in CallSteps
    BY <1>5 DEF CallBecomes, CallSteps
  <2>2. hCall' \in [Callers -> CallRecords] /\ hCall'[c].pc = "due" /\ hCall'[c].task = t /\ \A d \in Callers : d # c => hCall'[d] = hCall[d]
    BY <1>0, <2>1, CallBecomesIs, NoTaskIsTask
  <2>3. HostedScheduleTypeOK' /\ TasksFit'
    BY <1>0, <1>1, <1>5, <2>2, ScheduleTypes, ScheduleTypesNext DEF TasksFit
  <2>4. DueStays
    BY <1>1, <1>5, <1>f, <2>3 DEF DueStays
  <2>5. CallFits(c)'
    BY <1>0, <1>1, <1>5, <1>f, <2>2 DEF CallFits
  <2>6. \A d \in Callers : hCall'[d] = hCall[d] \/ (hCall'[d].pc # "run" /\ CallFits(d)')
    BY <2>2, <2>5
  <2> QED
    BY <1>1, <2>4, <2>6, ScheduleQuietKeeps
<1> QED
  BY <1>2, <1>3, <1>4, <1>5

\* A handler ends, with or without acknowledging its callback.
LEMMA EndsIs ==
  ASSUME HostedScheduleTypeOK, NEW c \in Callers, EndCallback(c)
  PROVE  /\ hCall' \in [Callers -> CallRecords] /\ hCall'[c].pc = "idle" /\ CallFits(c)'
         /\ \A d \in Callers : d # c => hCall'[d] = hCall[d]
<1>1. hCall \in [Callers -> CallRecords] /\ hCall' = [hCall EXCEPT ![c] = IdleCall]
  BY ScheduleTypes DEF EndCallback
<1>2. /\ hCall' \in [Callers -> CallRecords] /\ hCall'[c].pc = "idle"
      /\ \A d \in Callers : d # c => hCall'[d] = hCall[d]
  BY <1>1, NoTaskIsTask
<1> QED
  BY <1>2, IdleFits

LEMMA EndsKeep ==
  ASSUME ScheduleInv, NEW c \in Callers, EndCallback(c), hTasks' \subseteq hTasks, hDue' \in DueRecords,
         hDue'.rev = hDue.rev, hDue'.next = hDue.next, hDue'.armed = hDue.armed,
         hDue'.pending \in {hDue.pending, NoOccurrence}, UNCHANGED <<hNow, hConn, hIds, hRuns>>
  PROVE  ScheduleInv'
<1>0. HostedScheduleTypeOK /\ TasksFit
  BY DEF ScheduleInv
<1>1. /\ hCall' \in [Callers -> CallRecords] /\ hCall'[c].pc = "idle" /\ CallFits(c)'
      /\ \A d \in Callers : d # c => hCall'[d] = hCall[d]
  BY <1>0, EndsIs
<1>2. HostedScheduleTypeOK' /\ TasksFit'
  BY <1>0, <1>1, ScheduleTypes, ScheduleTypesNext DEF TasksFit
<1>3. DueStays
  BY <1>0, <1>2, ScheduleFields DEF DueStays
<1>4. \A d \in Callers : hCall'[d] = hCall[d] \/ (hCall'[d].pc # "run" /\ CallFits(d)')
  BY <1>1
<1> QED
  BY <1>3, <1>4, ScheduleQuietKeeps

\* The transaction moves the schedule past the callback's occurrence.
Advances(c) ==
  LET t == hCall[c].task IN
  /\ hDue.pending = NoOccurrence /\ hDue.next = t.due /\ hDue.rev = t.rev
  /\ hDue' \in DueRecords /\ hDue'.rev = hDue.rev /\ hDue'.next > hNow /\ ~hDue'.armed
  /\ hDue'.pending = t.due
  /\ CallBecomes(c, "arm", t, hDue'.next)
  /\ UNCHANGED <<hNow, hConn, hTasks, hIds, hRuns>>

LEMMA AdvancesKeeps ==
  ASSUME ScheduleInv, NEW c \in Callers, hCall[c].pc = "due", Advances(c) PROVE ScheduleInv'
<1> DEFINE t == hCall[c].task
<1>0. HostedScheduleTypeOK /\ TasksFit /\ DueFits /\ CallFits(c)
  BY DEF ScheduleInv
<1>f. /\ hNow \in Nat /\ Due = 0..(MaxDue + 2) /\ MaxDue \in Nat /\ t \in Task /\ t.due \in Due
      /\ t.rev \in 0..MaxRevision
      /\ hDue.rev \in 0..MaxRevision /\ hDue.next \in Due /\ MaxRevision \in Nat
  BY <1>0, ScheduleFields
<1>1. /\ hDue.pending = NoOccurrence /\ hDue.next = t.due /\ hDue.rev = t.rev
      /\ hDue' \in DueRecords /\ hDue'.rev = hDue.rev /\ hDue'.next > hNow /\ ~hDue'.armed
      /\ hDue'.pending = t.due
      /\ CallBecomes(c, "arm", t, hDue'.next) /\ UNCHANGED <<hNow, hConn, hTasks, hIds, hRuns>>
  BY DEF Advances
<1>2. t.due # 0 /\ t.due <= hNow /\ hDue'.next \in Due
  BY <1>0, <1>1 DEF CallFits, NoOccurrence, DueRecords
<1>3. /\ hCall' \in [Callers -> CallRecords] /\ hCall'[c].pc = "arm" /\ hCall'[c].task = t
      /\ hCall'[c].next = hDue'.next
      /\ \A d \in Callers : d # c => hCall'[d] = hCall[d]
  <2>1. "arm" \in CallSteps
    BY DEF CallSteps
  <2> HIDE DEF t
  <2> QED
    BY <1>0, <1>1, <1>2, <1>f, <2>1, CallBecomesIs
<1>4. HostedScheduleTypeOK'
  BY <1>0, <1>1, <1>3, ScheduleTypes, ScheduleTypesNext
<1>5. DueFits' /\ TasksFit'
  <2>1. hDue'.next # 0 /\ t.due < hDue'.next
    BY <1>1, <1>2, <1>f
  <2> QED
    BY <1>0, <1>1, <2>1 DEF DueFits, TasksFit, NoOccurrence
<1>6. OneRunner'
  <2>1. \A d \in Callers : hCall'[d].pc = "run" => hCall'[d] = hCall[d]
    BY <1>3
  <2> QED
    BY <2>1 DEF ScheduleInv, OneRunner
<1>7. ASSUME NEW r \in 0..MaxRevision, NEW d \in Due, Past(r, d)
      PROVE  Past(r, d)' /\ (r = hDue.rev => d # t.due /\ d < t.due)
  BY <1>1, <1>2, <1>7, <1>f DEF Past
<1>8. RunsFit'
  BY <1>1, <1>7 DEF ScheduleInv, RunsFit
<1>9. ASSUME NEW d \in Callers PROVE CallFits(d)'
  <2>1. CASE d = c
    <3>1. Past(t.rev, t.due)'
      BY <1>1, <1>2, <1>3, <1>f DEF Past
    <3> QED
      BY <1>1, <1>2, <1>3, <1>f, <2>1, <3>1 DEF CallFits, NoOccurrence
  <2>2. CASE d # c
    <3>1. /\ hCall'[d] = hCall[d] /\ CallFits(d) /\ hCall[d].task.rev \in 0..MaxRevision
          /\ hCall[d].task.due \in Due
      BY <1>0, <1>3, <2>2, ScheduleFields DEF ScheduleInv
    <3>2. Past(hCall[d].task.rev, hCall[d].task.due) =>
            /\ Past(hCall[d].task.rev, hCall[d].task.due)'
            /\ hCall[d].task.rev = hDue.rev => hCall[d].task.due # t.due
      BY <1>7, <3>1
    <3> QED
      BY <1>1, <3>1, <3>2 DEF CallFits, Queued
  <2> QED
    BY <2>1, <2>2
<1> QED
  BY <1>4, <1>5, <1>6, <1>8, <1>9 DEF ScheduleInv

LEMMA AdvanceKeeps == ASSUME ScheduleInv, NEW c \in Callers, AdvanceSchedule(c) PROVE ScheduleInv'
<1> DEFINE t == hCall[c].task
           p == PlanNextOccurrence
<1>0. HostedScheduleTypeOK /\ DueFits /\ CallFits(c) /\ TasksFit /\ hDue \in DueRecords
  BY ScheduleTypes DEF ScheduleInv
<1>f. /\ hNow \in Nat /\ hNow <= MaxDue /\ Due = 0..(MaxDue + 2) /\ MaxDue \in Nat /\ t \in Task
      /\ t.due \in Due
      /\ hCall[c].next \in Due
  BY <1>0, ScheduleFields
<1>1. hCall[c].pc = "due" /\ UNCHANGED <<hNow, hConn, hIds, hRuns>>
  BY DEF AdvanceSchedule
<1>2. CASE EndCallback(c) /\ hTasks' \subseteq hTasks /\ UNCHANGED hDue
  BY <1>0, <1>1, <1>2, EndsKeep
<1>3. CASE hCall' = [hCall EXCEPT ![c].pc = "consume"] /\ UNCHANGED <<hTasks, hDue>>
  <2>1. CallBecomes(c, "consume", t, hCall[c].next) /\ "consume" \in CallSteps
    BY <1>0, <1>3, CallBecomesBy DEF CallSteps
  <2>2. hCall' \in [Callers -> CallRecords] /\ hCall'[c].pc = "consume" /\ hCall'[c].task = t /\ \A d \in Callers : d # c => hCall'[d] = hCall[d]
    <3> HIDE DEF t
    <3> QED
      BY <1>0, <1>f, <2>1, CallBecomesIs
  <2>3. HostedScheduleTypeOK' /\ TasksFit'
    BY <1>0, <1>1, <1>3, <2>2, ScheduleTypes, ScheduleTypesNext DEF TasksFit
  <2>4. DueStays
    BY <1>1, <1>3, <1>f, <2>3 DEF DueStays
  <2>5. CallFits(c)'
    BY <1>0, <1>1, <2>2 DEF CallFits
  <2>6. \A d \in Callers : hCall'[d] = hCall[d] \/ (hCall'[d].pc # "run" /\ CallFits(d)')
    BY <2>2, <2>5
  <2> QED
    BY <1>1, <2>4, <2>6, ScheduleQuietKeeps
<1>4. CASE /\ DecideScheduleAdvance(t) = "advanced"
           /\ hDue' = [hDue EXCEPT !.next = p.next, !.armed = FALSE, !.pending = t.due, !.should = p.should]
           /\ hCall' = [hCall EXCEPT ![c].pc = "arm", ![c].next = p.next] /\ UNCHANGED hTasks
  <2>1. hDue.pending = NoOccurrence /\ hDue.next = t.due /\ hDue.rev = t.rev
    BY <1>4 DEF DecideScheduleAdvance, ClaimStale
  <2>2. p.next \in Due /\ p.next > hNow /\ p.should \in BOOLEAN
    <3>1. hConn.healthy \in BOOLEAN
      BY <1>0, ScheduleTypes DEF ConnRecords
    <3> QED
      BY <1>f, <3>1 DEF PlanNextOccurrence
  <2> DEFINE d == t.due
             n == p.next
             b == p.should
             y == [hDue EXCEPT !.next = n, !.armed = FALSE]
  <2>3. hDue' = [y EXCEPT !.pending = d, !.should = b]
    BY <1>4
  <2>4. n \in Due /\ b \in BOOLEAN /\ d \in Due
    BY <1>f, <2>2
  <2> HIDE DEF d, n, b
  <2>5. y \in DueRecords /\ y.next = n /\ ~y.armed /\ y.rev = hDue.rev
    BY <1>0, <2>4 DEF DueRecords
  <2> HIDE DEF y
  <2>6. /\ hDue' \in DueRecords /\ hDue'.rev = y.rev /\ hDue'.next = y.next /\ hDue'.armed = y.armed
        /\ hDue'.pending = d
    BY <2>3, <2>4, <2>5 DEF DueRecords
  <2>7. CallBecomes(c, "arm", t, p.next)
    BY <1>0, <1>4, CallBecomesBy
  <2>8. hDue'.next = p.next /\ hDue'.pending = t.due
    BY <2>5, <2>6 DEF n, d
  <2>9. Advances(c)
    BY <1>1, <1>4, <2>1, <2>2, <2>5, <2>6, <2>7, <2>8 DEF Advances
  <2> QED
    BY <1>1, <2>9, AdvancesKeeps
<1> QED
  BY <1>2, <1>3, <1>4 DEF AdvanceSchedule, Acknowledge

LEMMA ArmKeeps == ASSUME ScheduleInv, NEW c \in Callers, ArmSuccessor(c) PROVE ScheduleInv'
<1> DEFINE t == hCall[c].task
<1>0. HostedScheduleTypeOK /\ TasksFit /\ CallFits(c) /\ hDue \in DueRecords
  BY ScheduleTypes DEF ScheduleInv
<1>f. hNow \in Nat /\ t \in Task /\ t.rev \in 0..MaxRevision /\ hCall[c].next \in Due
  BY <1>0, ScheduleFields
<1>1. /\ hCall[c].pc = "arm" /\ UNCHANGED <<hNow, hConn, hDue, hRuns>>
      /\ hCall' = [hCall EXCEPT ![c].pc = "mark"]
      /\ EnqueueHostedScheduledConnection(hCall[c].next, t.rev, 0)
  BY DEF ArmSuccessor
<1>2. hCall[c].next # 0
  BY <1>0, <1>1 DEF CallFits, NoOccurrence
<1>3. /\ hTasks' \subseteq Task /\ TasksFit' /\ hIds' \subseteq CallbackIds /\ hIds \subseteq hIds'
      /\ <<t.rev, hCall[c].next, 0>> \in hIds'
  BY <1>0, <1>1, <1>2, <1>f, EnqueueIs
<1>4. CallBecomes(c, "mark", t, hCall[c].next) /\ "mark" \in CallSteps
  BY <1>0, <1>1, CallBecomesBy DEF CallSteps
<1>5. /\ hCall' \in [Callers -> CallRecords] /\ hCall'[c].pc = "mark" /\ hCall'[c].task = t
      /\ hCall'[c].next = hCall[c].next
      /\ \A d \in Callers : d # c => hCall'[d] = hCall[d]
  <2> HIDE DEF t
  <2> QED
    BY <1>0, <1>4, <1>f, CallBecomesIs
<1>6. HostedScheduleTypeOK'
  BY <1>0, <1>1, <1>3, <1>5, ScheduleTypes, ScheduleTypesNext
<1>7. DueStays
  BY <1>1, <1>3, <1>6, <1>f DEF DueStays
<1>8. CallFits(c)'
  BY <1>0, <1>1, <1>3, <1>5 DEF CallFits, Past, Queued
<1>9. \A d \in Callers : hCall'[d] = hCall[d] \/ (hCall'[d].pc # "run" /\ CallFits(d)')
  BY <1>5, <1>8
<1> QED
  BY <1>1, <1>7, <1>9, ScheduleQuietKeeps

LEMMA MarkKeeps == ASSUME ScheduleInv, NEW c \in Callers, MarkArmed(c) PROVE ScheduleInv'
<1> DEFINE t == hCall[c].task
           mine == hDue.rev = t.rev /\ hDue.pending = t.due
<1>0. HostedScheduleTypeOK /\ TasksFit /\ CallFits(c) /\ hDue \in DueRecords
  BY ScheduleTypes DEF ScheduleInv
<1>f. hNow \in Nat /\ t \in Task /\ hCall[c].next \in Due
  BY <1>0, ScheduleFields
<1>1. /\ hCall[c].pc = "mark" /\ UNCHANGED <<hNow, hConn, hTasks, hIds, hRuns>>
      /\ hCall' = [hCall EXCEPT ![c].pc = "consume"]
      /\ hDue' = IF mine THEN [hDue EXCEPT !.armed = TRUE] ELSE hDue
  BY DEF MarkArmed
<1>2. /\ hDue' \in DueRecords /\ hDue'.rev = hDue.rev /\ hDue'.next = hDue.next
      /\ hDue'.pending = hDue.pending
      /\ hDue'.armed => hDue.armed \/ mine
  <2> HIDE DEF mine
  <2>1. CASE mine
    <3>1. hDue' = [hDue EXCEPT !.armed = TRUE]
      BY <1>1, <2>1
    <3> QED
      BY <1>0, <2>1, <3>1 DEF DueRecords
  <2>2. CASE ~mine
    BY <1>0, <1>1, <2>2
  <2> QED
    BY <2>1, <2>2
<1>3. mine => <<hDue.rev, hDue.next, 0>> \in hIds
  BY <1>0, <1>1 DEF CallFits, Queued
<1>4. CallBecomes(c, "consume", t, hCall[c].next) /\ "consume" \in CallSteps
  BY <1>0, <1>1, CallBecomesBy DEF CallSteps
<1>5. /\ hCall' \in [Callers -> CallRecords] /\ hCall'[c].pc = "consume" /\ hCall'[c].task = t
      /\ \A d \in Callers : d # c => hCall'[d] = hCall[d]
  <2> HIDE DEF t
  <2> QED
    BY <1>0, <1>4, <1>f, CallBecomesIs
<1>6. HostedScheduleTypeOK' /\ TasksFit'
  BY <1>0, <1>1, <1>2, <1>5, ScheduleTypes, ScheduleTypesNext DEF TasksFit
<1>7. DueStays
  BY <1>1, <1>2, <1>3, <1>6, <1>f DEF DueStays
<1>8. CallFits(c)'
  BY <1>0, <1>1, <1>5 DEF CallFits
<1>9. \A d \in Callers : hCall'[d] = hCall[d] \/ (hCall'[d].pc # "run" /\ CallFits(d)')
  BY <1>5, <1>8
<1> QED
  BY <1>1, <1>7, <1>9, ScheduleQuietKeeps

\* The marker is consumed: whoever consumed it is the only one to run.
LEMMA ConsumeKeeps == ASSUME ScheduleInv, NEW c \in Callers, ConsumeMarker(c) PROVE ScheduleInv'
<1> DEFINE t == hCall[c].task
<1>0. HostedScheduleTypeOK /\ TasksFit /\ CallFits(c) /\ DueFits /\ RunsFit /\ hDue \in DueRecords
  BY ScheduleTypes DEF ScheduleInv
<1>f. /\ hNow \in Nat /\ t \in Task /\ t.rev \in 0..MaxRevision /\ t.due \in Due /\ hCall[c].next \in Due
      /\ NoOccurrence \in Due
      /\ hDue.next \in Due /\ hDue.rev \in 0..MaxRevision /\ MaxRevision \in Nat /\ MaxDue \in Nat
  BY <1>0, ScheduleFields, NoTaskIsTask
<1>1. hCall[c].pc = "consume" /\ UNCHANGED <<hNow, hConn, hIds, hRuns>>
  BY DEF ConsumeMarker
<1>2. CASE ~ConsumesMarker(t)
  <2>1. Acknowledge(c) /\ UNCHANGED hDue
    BY <1>2 DEF ConsumeMarker
  <2> QED
    BY <1>0, <1>1, <2>1, EndsKeep DEF Acknowledge
<1>3. CASE ConsumesMarker(t)
  <2>0. hDue' = [hDue EXCEPT !.pending = NoOccurrence]
    BY <1>3 DEF ConsumeMarker
  <2>1. /\ hDue' \in DueRecords /\ hDue'.rev = hDue.rev /\ hDue'.next = hDue.next
        /\ hDue'.pending = NoOccurrence
        /\ hDue'.armed = hDue.armed
    BY <1>0, <1>f, <2>0 DEF DueRecords
  <2>2. hDue.rev = t.rev /\ hDue.armed /\ hDue.pending = t.due
    BY <1>3 DEF ConsumesMarker, ClaimStale, SuccessorArmed
  <2>3. CASE ~hDue.should
    <3>1. Acknowledge(c)
      BY <1>3, <2>3 DEF ConsumeMarker
    <3> QED
      BY <1>1, <2>1, <3>1, EndsKeep DEF Acknowledge
  <2>4. CASE hDue.should
    <3>1. hCall' = [hCall EXCEPT ![c].pc = "run"] /\ UNCHANGED hTasks
      BY <1>3, <2>4 DEF ConsumeMarker
    <3>2. CallBecomes(c, "run", t, hCall[c].next) /\ "run" \in CallSteps
      BY <1>0, <3>1, CallBecomesBy DEF CallSteps
    <3>3. /\ hCall' \in [Callers -> CallRecords] /\ hCall'[c].pc = "run" /\ hCall'[c].task = t
          /\ \A d \in Callers : d # c => hCall'[d] = hCall[d]
      <4> HIDE DEF t
      <4> QED
        BY <1>0, <1>f, <3>2, CallBecomesIs
    <3>4. HostedScheduleTypeOK' /\ TasksFit'
      BY <1>0, <1>1, <2>1, <3>1, <3>3, ScheduleTypes, ScheduleTypesNext DEF TasksFit
    <3>5. DueStays
      BY <1>1, <1>f, <2>1, <3>4 DEF DueStays
    <3>6. DueFits'
      BY <3>5, DueStaysFits
    <3>7. ASSUME NEW d \in Callers, d # c PROVE CallFits(d)'
      <4>1. hCall[d].pc = "run" => hRuns'[<<hCall[d].task.rev, hCall[d].task.due>>] = 0
        BY <1>1 DEF ScheduleInv, CallFits
      <4> QED
        BY <3>3, <3>5, <3>7, <4>1, BystanderFits
    <3>8. t.due # NoOccurrence /\ t.due <= hNow /\ t.due < hDue.next
      BY <1>0, <1>1, <2>2 DEF CallFits, DueFits
    <3>9. CallFits(c)'
      <4>1. hRuns[<<t.rev, t.due>>] = 0
        BY <1>0, <1>f, <2>2 DEF RunsFit
      <4>2. Past(t.rev, t.due)'
        BY <1>f, <2>1, <2>2, <3>3, <3>8 DEF Past
      <4>3. hDue.next \in Due /\ hDue.next > t.due /\ Queued(t.rev, hDue.next)'
        BY <1>0, <1>1, <1>f, <2>1, <2>2, <3>3, <3>8 DEF DueFits, Queued, Due
      <4> QED
        BY <1>1, <2>1, <3>3, <3>8, <4>1, <4>2, <4>3 DEF CallFits
    <3>10. OneRunner'
      <4>1. ASSUME NEW d \in Callers, d # c, hCall[d].pc = "run", hCall[d].task.rev = t.rev,
                   hCall[d].task.due = t.due
            PROVE  FALSE
        BY <2>2, <4>1 DEF ScheduleInv, CallFits
      <4> QED
        BY <3>3, <4>1 DEF ScheduleInv, OneRunner
    <3>11. RunsFit'
      BY <1>0, <1>1, <2>1 DEF RunsFit, Past
    <3> QED
      BY <3>4, <3>6, <3>7, <3>9, <3>10, <3>11 DEF ScheduleInv
  <2> QED
    BY <2>3, <2>4
<1> QED
  BY <1>2, <1>3

LEMMA RunKeeps == ASSUME ScheduleInv, NEW c \in Callers, RunScheduled(c) PROVE ScheduleInv'
<1> DEFINE t == hCall[c].task
<1>0. /\ HostedScheduleTypeOK /\ TasksFit /\ CallFits(c) /\ RunsFit /\ OneRunner
      /\ hRuns \in [Occurrences -> 0..2]
  BY ScheduleTypes DEF ScheduleInv
<1>f. /\ hNow \in Nat /\ t \in Task /\ t.rev \in 0..MaxRevision /\ t.due \in Due
  BY <1>0, ScheduleFields
<1>1. /\ hCall[c].pc = "run" /\ UNCHANGED <<hNow, hConn, hDue, hIds>> /\ EndCallback(c)
      /\ hTasks' \subseteq hTasks
      /\ hRuns' = [hRuns EXCEPT ![<<t.rev, t.due>>] = IF @ < 2 THEN @ + 1 ELSE @]
  BY DEF RunScheduled, Acknowledge
<1>2. /\ hRuns[<<t.rev, t.due>>] = 0 /\ Past(t.rev, t.due) /\ t.due # NoOccurrence
      /\ t.rev = hDue.rev => hDue.pending # t.due
  BY <1>0, <1>1 DEF CallFits
<1>3. <<t.rev, t.due>> \in Occurrences
  BY <1>f DEF Occurrences
<1>4. /\ hRuns' \in [Occurrences -> 0..2] /\ hRuns'[<<t.rev, t.due>>] = 1
      /\ \A x \in Occurrences : x # <<t.rev, t.due>> => hRuns'[x] = hRuns[x]
  BY <1>0, <1>1, <1>2, <1>3
<1>5. /\ hCall' \in [Callers -> CallRecords] /\ hCall'[c].pc = "idle" /\ CallFits(c)'
      /\ \A d \in Callers : d # c => hCall'[d] = hCall[d]
  BY <1>0, <1>1, EndsIs
<1>6. HostedScheduleTypeOK' /\ TasksFit'
  BY <1>0, <1>1, <1>4, <1>5, ScheduleTypes, ScheduleTypesNext DEF TasksFit
<1>7. DueStays
  BY <1>1, <1>6, <1>f DEF DueStays
<1>8. DueFits'
  BY <1>7, DueStaysFits
<1>9. ASSUME NEW d \in Callers, d # c PROVE CallFits(d)'
  <2>1. ASSUME hCall[d].pc = "run" PROVE hRuns'[<<hCall[d].task.rev, hCall[d].task.due>>] = 0
    <3>1. hCall[d].task.rev # t.rev \/ hCall[d].task.due # t.due
      BY <1>0, <1>1, <1>9, <2>1 DEF OneRunner
    <3>2. /\ <<hCall[d].task.rev, hCall[d].task.due>> \in Occurrences
          /\ <<hCall[d].task.rev, hCall[d].task.due>> # <<t.rev, t.due>>
      BY <1>0, <3>1, ScheduleFields DEF Occurrences
    <3>3. hRuns[<<hCall[d].task.rev, hCall[d].task.due>>] = 0
      BY <2>1 DEF ScheduleInv, CallFits
    <3> QED
      BY <1>4, <3>2, <3>3
  <2> QED
    BY <1>5, <1>7, <1>9, <2>1, BystanderFits
<1>10. OneRunner'
  BY <1>0, <1>5 DEF OneRunner
<1>11. RunsFit'
  <2> SUFFICES ASSUME NEW r \in 0..MaxRevision, NEW d \in Due, hRuns'[<<r, d>>] # 0
               PROVE  /\ hRuns'[<<r, d>>] = 1 /\ d # NoOccurrence /\ Past(r, d)'
                      /\ r = hDue'.rev => hDue'.pending # d
    BY DEF RunsFit
  <2>0. <<r, d>> \in Occurrences
    BY DEF Occurrences
  <2>1. CASE r = t.rev /\ d = t.due
    BY <1>1, <1>2, <1>4, <2>1 DEF Past
  <2>2. CASE ~(r = t.rev /\ d = t.due)
    <3>1. hRuns'[<<r, d>>] = hRuns[<<r, d>>]
      BY <1>4, <2>0, <2>2
    <3> QED
      BY <1>0, <1>1, <3>1 DEF RunsFit, Past
  <2> QED
    BY <2>1, <2>2
<1> QED
  BY <1>5, <1>6, <1>8, <1>9, <1>10, <1>11 DEF ScheduleInv

LEMMA FailsKeeps == ASSUME ScheduleInv, NEW c \in Callers, CallbackFails(c) PROVE ScheduleInv'
<1>1. EndCallback(c) /\ UNCHANGED <<hNow, hConn, hDue, hTasks, hIds, hRuns>> /\ hDue \in DueRecords
  BY ScheduleTypes DEF ScheduleInv, CallbackFails
<1> QED
  BY <1>1, EndsKeep

----------------------------------------------------------------------------
LEMMA ScheduleInvKept == ASSUME ScheduleInv, [HostedScheduleNext]_hostedScheduleVars PROVE ScheduleInv'
<1>1. CASE UNCHANGED hostedScheduleVars
  BY <1>1, ZenonT(60) DEF hostedScheduleVars, ScheduleInv, HostedScheduleTypeOK, DueFits, TasksFit, OneRunner, RunsFit,
     CallFits, Past, Queued
<1>2. CASE HostedScheduleNext
  BY <1>2, ClockKeeps, EditKeeps, EnsureKeeps, CallbackKeeps, AdvanceKeeps, ArmKeeps, MarkKeeps,
     ConsumeKeeps, RunKeeps, FailsKeeps
     DEF HostedScheduleNext
<1> QED
  BY <1>1, <1>2

LEMMA ScheduleInvInit == HostedScheduleInit => ScheduleInv
<1> SUFFICES ASSUME HostedScheduleInit PROVE ScheduleInv
  OBVIOUS
<1>0. MaxRevision \in Nat /\ MaxDue \in Nat
  BY HostedScheduleAssumption
<1>1. /\ hConn \in ConnRecords /\ hConn.rev = 0
      /\ hDue \in DueRecords /\ hDue.rev = 0 /\ hDue.next = 1 /\ ~hDue.armed /\ hDue.pending = 0
  BY <1>0 DEF HostedScheduleInit, ConnRecords, DueRecords, Due, NoOccurrence
<1>2. /\ hCall \in [Callers -> CallRecords] /\ \A c \in Callers : hCall[c].pc = "idle"
  BY NoTaskIsTask DEF HostedScheduleInit
<1>3. /\ hRuns \in [Occurrences -> 0..2] /\ \A r \in 0..MaxRevision, d \in Due : hRuns[<<r, d>>] = 0
  BY DEF HostedScheduleInit, Occurrences
<1>4. hNow = 0 /\ hTasks = {} /\ hIds = {}
  BY DEF HostedScheduleInit
<1>5. HostedScheduleTypeOK
  BY <1>0, <1>1, <1>2, <1>3, <1>4, ScheduleTypes
<1>6. DueFits /\ TasksFit /\ OneRunner /\ RunsFit
  BY <1>1, <1>2, <1>3, <1>4 DEF DueFits, TasksFit, OneRunner, RunsFit, NoOccurrence
<1>7. \A c \in Callers : CallFits(c)
  BY <1>2 DEF CallFits
<1> QED
  BY <1>5, <1>6, <1>7 DEF ScheduleInv

LEMMA ScheduleInvSuffices == ScheduleInv => ChainIsSafe
<1> SUFFICES ASSUME ScheduleInv PROVE ChainIsSafe
  OBVIOUS
<1>0. HostedScheduleTypeOK /\ RunsFit /\ DueFits /\ hRuns \in [Occurrences -> 0..2]
  BY ScheduleTypes DEF ScheduleInv
<1>1. ASSUME NEW x \in Occurrences PROVE hRuns[x] <= 1
  <2>1. PICK r \in 0..MaxRevision, d \in Due : x = <<r, d>>
    BY DEF Occurrences
  <2>2. hRuns[<<r, d>>] = 0 \/ hRuns[<<r, d>>] = 1
    BY <1>0 DEF RunsFit
  <2> QED
    BY <2>1, <2>2
<1>2. OccurrenceRunsOnce
  BY <1>0, <1>1 DEF OccurrenceRunsOnce
<1>3. ASSUME NEW c \in Callers, hCall[c].pc = "run", hConn.rev = hCall[c].task.rev
      PROVE  \E id \in hIds : id[1] = hConn.rev /\ id[2] > hCall[c].task.due
  <2>1. PICK n \in Due : n > hCall[c].task.due /\ <<hCall[c].task.rev, n, 0>> \in hIds
    BY <1>0, <1>3 DEF ScheduleInv, CallFits, DueFits, Queued
  <2> DEFINE id == <<hCall[c].task.rev, n, 0>>
  <2>2. id \in hIds /\ id[1] = hConn.rev /\ id[2] > hCall[c].task.due
    BY <1>3, <2>1
  <2> HIDE DEF id
  <2> QED
    BY <2>2
<1> QED
  BY <1>0, <1>2, <1>3 DEF ChainIsSafe, SuccessorBeforeRun

\* For any number of callbacks in flight, edits and occurrences: an occurrence
\* of the schedule starts at most one crawl, however often its callback is
\* delivered, and only once the callback of its successor is in the queue.
THEOREM ScheduleChain == HostedScheduleSpec => []ChainIsSafe
<1>1. ScheduleInv /\ [HostedScheduleNext]_hostedScheduleVars => ScheduleInv'
  BY ScheduleInvKept
<1> QED
  BY <1>1, ScheduleInvInit, ScheduleInvSuffices, PTL DEF HostedScheduleSpec

-----------------------------------------------------------------------------
(***************************************************************************)
(* The webhook outbox and the chains of deliveries.                        *)
(***************************************************************************)

Chains == {"crawl", "sync"}
ChainRecords == [left : Seq(Events), attempt : 0..MaxAttempts]

\* An outbox record: written for the session's end, with its secret until it
\* is finished, and attempted within the budget or after a lease ran out.
RecordFits(e) ==
  LET r == wOut[e] IN
  /\ r.st # "none" => wMode = "outbox" /\ wSess.status # "running" /\ r.at = wSess.at /\ (r.secret \/ Finished(r))
  /\ r.st = "pending" /\ r.until = 0 => r.attempts < Budget
  /\ r.st = "pending" /\ r.until # 0 => r.attempts + DeliveryLease <= Budget + r.until

\* A chain in process: each of its events is sent once, the head as often as
\* the attempts say, and none of them has been refused.
Distinct(s) == \A i, j \in 1..Len(s) : s[i] = s[j] => i = j
ChainFits(c) ==
  LET r == wChain[c] IN
  /\ r.left # <<>> => wMode = "process" /\ wSess.status # "running"
  /\ r.attempt > 0 => r.left # <<>>
  /\ Distinct(r.left)
  /\ \A i \in 1..Len(r.left) : r.left[i] = "crawl" <=> c = "crawl"
  /\ \A i \in 1..Len(r.left) :
       /\ ~wRecv[r.left[i]].refused
       /\ i > 1 \/ r.attempt = 0 => wRecv[r.left[i]].posts = 0
       /\ i = 1 /\ r.attempt > 0 => wRecv[r.left[i]].posts + 1 = r.attempt

\* Only an outbox has deliveries, and only of a session that has ended.
DrainFits(d) == wDrain[d].e # "none" => wMode = "outbox" /\ wSess.status # "running"

\* Nothing is sent before the session ends.
UnsentWhileRunning == wSess.status = "running" => \A e \in Events : wRecv[e].posts = 0 /\ ~wRecv[e].refused

WebhookInv ==
  /\ WebhookTypeOK /\ wChain \in [Chains -> ChainRecords] /\ UnsentWhileRunning
  /\ \A e \in Events : RecordFits(e)
  /\ \A c \in Chains : ChainFits(c)
  /\ \A d \in Drains : DrainFits(d)

SessRecords == [status : {"running", "completed", "failed"}, at : 0..LastTick, counts : BOOLEAN,
                moved : BOOLEAN, subscribed : BOOLEAN]
OutRecords == [st : {"none", "pending", "delivered", "permanent"}, attempts : 0..(Budget + LastTick),
               until : 0..(LastTick + DeliveryLease), secret : BOOLEAN, at : 0..LastTick]
DrainRecords == [e : Events \cup {"none"}, until : 0..(LastTick + DeliveryLease), got : Outcomes \cup {"none"}]
RecvRecords == [posts : Nat, refused : BOOLEAN]

WebhookTypes ==
  /\ wMode \in {"process", "outbox"} /\ wNow \in 0..LastTick /\ wHook \in {"none", "active", "deleted"}
  /\ wSess \in SessRecords /\ wChain \in [Chains -> ChainRecords] /\ wOut \in [Events -> OutRecords]
  /\ wDrain \in [Drains -> DrainRecords] /\ wRecv \in [Events -> RecvRecords]

LEMMA WebhookTypesAre == WebhookTypeOK /\ wChain \in [Chains -> ChainRecords] <=> WebhookTypes
<1>1. wChain \in [Chains -> ChainRecords] => \A c \in {"crawl", "sync"} : wChain[c].attempt \in 0..MaxAttempts
  BY DEF Chains, ChainRecords
<1> QED
  BY <1>1 DEF WebhookTypeOK, WebhookTypes, SessRecords, OutRecords, DrainRecords, RecvRecords

LEMMA WebhookTypesNext == WebhookTypes' => WebhookTypeOK' /\ (wChain \in [Chains -> ChainRecords])'
<1>1. wChain' \in [Chains -> ChainRecords] => \A c \in {"crawl", "sync"} : wChain'[c].attempt \in 0..MaxAttempts
  BY DEF Chains, ChainRecords
<1> QED
  BY <1>1 DEF WebhookTypeOK, WebhookTypes, SessRecords, OutRecords, DrainRecords, RecvRecords

LEMMA WebhookNumbers ==
  /\ MaxAttempts \in Nat \ {0} /\ Budget \in Nat \ {0} /\ DeliveryLease \in Nat \ {0} /\ LastTick \in Nat
BY WebhookAssumption

LEMMA WebhookFields ==
  ASSUME WebhookTypes
  PROVE  /\ wNow \in Nat /\ wNow <= LastTick /\ wSess.at \in 0..LastTick
         /\ \A e \in Events : /\ wOut[e] \in OutRecords /\ wOut[e].attempts \in Nat /\ wOut[e].attempts <= Budget + LastTick
                              /\ wOut[e].until \in Nat /\ wOut[e].until <= LastTick + DeliveryLease
                              /\ wOut[e].secret \in BOOLEAN /\ wOut[e].at \in 0..LastTick
                              /\ wOut[e].st \in {"none", "pending", "delivered", "permanent"}
                              /\ wRecv[e] \in RecvRecords /\ wRecv[e].posts \in Nat
                              /\ wRecv[e].refused \in BOOLEAN
         /\ \A c \in Chains : wChain[c] \in ChainRecords /\ wChain[c].left \in Seq(Events) /\ wChain[c].attempt \in 0..MaxAttempts
         /\ \A d \in Drains : /\ wDrain[d] \in DrainRecords /\ wDrain[d].e \in Events \cup {"none"}
                              /\ wDrain[d].until \in Nat /\ wDrain[d].got \in Outcomes \cup {"none"}
<1>1. wNow \in Nat /\ wNow <= LastTick
  BY WebhookNumbers DEF WebhookTypes
<1>2. wSess.at \in 0..LastTick
  BY DEF WebhookTypes, SessRecords
<1>3. ASSUME NEW e \in Events
      PROVE  /\ wOut[e] \in OutRecords /\ wOut[e].attempts \in Nat /\ wOut[e].attempts <= Budget + LastTick
             /\ wOut[e].until \in Nat /\ wOut[e].until <= LastTick + DeliveryLease
             /\ wOut[e].secret \in BOOLEAN /\ wOut[e].at \in 0..LastTick
             /\ wOut[e].st \in {"none", "pending", "delivered", "permanent"}
             /\ wRecv[e] \in RecvRecords /\ wRecv[e].posts \in Nat /\ wRecv[e].refused \in BOOLEAN
  <2>1. wOut[e] \in OutRecords /\ wRecv[e] \in RecvRecords
    BY DEF WebhookTypes
  <2> QED
    BY <2>1, WebhookNumbers DEF OutRecords, RecvRecords
<1>4. \A c \in Chains : wChain[c] \in ChainRecords /\ wChain[c].left \in Seq(Events) /\ wChain[c].attempt \in 0..MaxAttempts
  BY DEF WebhookTypes, ChainRecords
<1>5. ASSUME NEW d \in Drains
      PROVE  /\ wDrain[d] \in DrainRecords /\ wDrain[d].e \in Events \cup {"none"}
             /\ wDrain[d].until \in Nat /\ wDrain[d].got \in Outcomes \cup {"none"}
  <2>1. wDrain[d] \in DrainRecords
    BY DEF WebhookTypes
  <2> QED
    BY <2>1, WebhookNumbers DEF DrainRecords
<1> QED
  BY <1>1, <1>2, <1>3, <1>4, <1>5

LEMMA WebhookInvIs == WebhookInv => WebhookTypes
BY WebhookTypesAre DEF WebhookInv

\* Events and chains that a step leaves alone.
LEMMA RecordKept ==
  ASSUME NEW e \in Events, RecordFits(e), wOut'[e] = wOut[e], UNCHANGED <<wMode, wSess>>
  PROVE  RecordFits(e)'
BY DEF RecordFits, Finished

LEMMA ChainKept ==
  ASSUME NEW c \in Chains, ChainFits(c), wChain'[c] = wChain[c], UNCHANGED <<wMode, wSess>>,
         \A i \in 1..Len(wChain[c].left) : wRecv'[wChain[c].left[i]] = wRecv[wChain[c].left[i]]
  PROVE  ChainFits(c)'
BY DEF ChainFits, Distinct

LEMMA EmptyChain ==
  ASSUME NEW c \in Chains, wChain'[c].left = <<>>, wChain'[c].attempt = 0
  PROVE  ChainFits(c)'
BY DEF ChainFits, Distinct

\* Under an outbox no chain has anything to send.
LEMMA OutboxChains ==
  ASSUME WebhookInv, wMode = "outbox", NEW c \in Chains PROVE wChain[c].left = <<>>
BY DEF WebhookInv, ChainFits

----------------------------------------------------------------------------
LEMMA ClockOrHook == ASSUME WebhookInv, WebhookClock \/ CreateWebhook \/ DeleteWebhook PROVE WebhookInv'
<1>0. WebhookTypes
  BY WebhookInvIs
<1>1. /\ UNCHANGED <<wMode, wSess, wChain, wOut, wDrain, wRecv>> /\ wHook' \in {"none", "active", "deleted"}
      /\ wNow' \in 0..LastTick
  BY <1>0, WebhookNumbers DEF WebhookClock, CreateWebhook, DeleteWebhook, WebhookTypes
<1>2. WebhookTypes'
  BY <1>0, <1>1 DEF WebhookTypes
<1>3. \A e \in Events : RecordFits(e)'
  BY <1>1, RecordKept DEF WebhookInv
<1>4. \A c \in Chains : ChainFits(c)'
  BY <1>1, ChainKept DEF WebhookInv
<1>5. UnsentWhileRunning' /\ \A d \in Drains : DrainFits(d)'
  BY <1>1 DEF WebhookInv, UnsentWhileRunning, DrainFits
<1> QED
  BY <1>2, <1>3, <1>4, <1>5, WebhookTypesNext DEF WebhookInv

\* The events of an outcome are different ones, and none of them is the crawl's.
LEMMA ConcatDistinct ==
  ASSUME NEW s \in Seq(Events), NEW t \in Seq(Events), Distinct(s), Distinct(t),
         \A i \in 1..Len(s), j \in 1..Len(t) : s[i] # t[j]
  PROVE  s \o t \in Seq(Events) /\ Distinct(s \o t)
<1>1. /\ s \o t \in Seq(Events) /\ Len(s \o t) = Len(s) + Len(t) /\ Len(s) \in Nat /\ Len(t) \in Nat
      /\ \A i \in 1..(Len(s) + Len(t)) : (s \o t)[i] = IF i <= Len(s) THEN s[i] ELSE t[i - Len(s)]
  BY ConcatProperties, LenProperties
<1>2. ASSUME NEW i \in 1..Len(s \o t), NEW j \in 1..Len(s \o t), (s \o t)[i] = (s \o t)[j] PROVE i = j
  <2>1. CASE i <= Len(s) /\ j <= Len(s)
    BY <1>1, <1>2, <2>1 DEF Distinct
  <2>2. CASE i > Len(s) /\ j > Len(s)
    <3>1. i - Len(s) \in 1..Len(t) /\ j - Len(s) \in 1..Len(t)
      BY <1>1, <2>2
    <3>2. t[i - Len(s)] = t[j - Len(s)]
      BY <1>1, <1>2, <2>2
    <3>3. i - Len(s) = j - Len(s)
      BY <3>1, <3>2 DEF Distinct
    <3> QED
      BY <1>1, <3>3
  <2>3. CASE i <= Len(s) /\ j > Len(s)
    <3>1. i \in 1..Len(s) /\ j - Len(s) \in 1..Len(t) /\ s[i] = t[j - Len(s)]
      BY <1>1, <1>2, <2>3
    <3> QED
      BY <3>1
  <2>4. CASE i > Len(s) /\ j <= Len(s)
    <3>1. j \in 1..Len(s) /\ i - Len(s) \in 1..Len(t) /\ s[j] = t[i - Len(s)]
      BY <1>1, <1>2, <2>4
    <3> QED
      BY <3>1
  <2> QED
    BY <1>1, <2>1, <2>2, <2>3, <2>4
<1> QED
  BY <1>1, <1>2 DEF Distinct

LEMMA SyncEventsAre ==
  ASSUME NEW b \in BOOLEAN, NEW n \in BOOLEAN, NEW m \in BOOLEAN
  PROVE  LET q == SyncEvents(b, n, m) IN
         /\ q \in Seq(Events) /\ Distinct(q) /\ \A i \in 1..Len(q) : q[i] # "crawl"
<1> DEFINE s == <<"sync">>
           t == IF b /\ n THEN <<"transactions">> ELSE <<>>
           u == IF m THEN <<"status">> ELSE <<>>
<1>1. s \in Seq(Events) /\ Distinct(s) /\ Len(s) = 1 /\ s[1] = "sync"
  BY DEF Distinct, Events
<1>2. t \in Seq(Events) /\ Distinct(t) /\ Len(t) \in {0, 1} /\ \A i \in 1..Len(t) : t[i] = "transactions"
  <2>1. <<>> \in Seq(Events) /\ Distinct(<<>>) /\ Len(<<>>) = 0
    BY DEF Distinct
  <2>2. /\ <<"transactions">> \in Seq(Events) /\ Distinct(<<"transactions">>) /\ Len(<<"transactions">>) = 1
        /\ <<"transactions">>[1] = "transactions"
    BY DEF Distinct, Events
  <2>3. CASE b /\ n
    <3>1. t = <<"transactions">>
      BY <2>3
    <3> QED
      BY <2>2, <3>1
  <2>4. CASE ~(b /\ n)
    <3>1. t = <<>>
      BY <2>4
    <3> QED
      BY <2>1, <3>1
  <2> QED
    BY <2>3, <2>4
<1>3. u \in Seq(Events) /\ Distinct(u) /\ Len(u) \in {0, 1} /\ \A i \in 1..Len(u) : u[i] = "status"
  <2>1. <<>> \in Seq(Events) /\ Distinct(<<>>) /\ Len(<<>>) = 0
    BY DEF Distinct
  <2>2. /\ <<"status">> \in Seq(Events) /\ Distinct(<<"status">>) /\ Len(<<"status">>) = 1
        /\ <<"status">>[1] = "status"
    BY DEF Distinct, Events
  <2>3. CASE m
    <3>1. u = <<"status">>
      BY <2>3
    <3> QED
      BY <2>2, <3>1
  <2>4. CASE ~(m)
    <3>1. u = <<>>
      BY <2>4
    <3> QED
      BY <2>1, <3>1
  <2> QED
    BY <2>3, <2>4
<1>4. SyncEvents(b, n, m) = (s \o t) \o u
  BY DEF SyncEvents
<1> HIDE DEF s, t, u
<1>5. \A i \in 1..Len(s), j \in 1..Len(t) : s[i] # t[j]
  BY <1>1, <1>2
<1>6. s \o t \in Seq(Events) /\ Distinct(s \o t)
  BY <1>1, <1>2, <1>5, ConcatDistinct
<1>7. \A i \in 1..Len(s \o t) : (s \o t)[i] \in {"sync", "transactions"}
  <2>1. /\ Len(s \o t) = Len(s) + Len(t)
        /\ \A i \in 1..(Len(s) + Len(t)) : (s \o t)[i] = IF i <= Len(s) THEN s[i] ELSE t[i - Len(s)]
    BY <1>1, <1>2, ConcatProperties
  <2> QED
    BY <1>1, <1>2, <2>1
<1>8. (s \o t) \o u \in Seq(Events) /\ Distinct((s \o t) \o u)
  <2>1. \A i \in 1..Len(s \o t), j \in 1..Len(u) : (s \o t)[i] # u[j]
    BY <1>3, <1>7
  <2> QED
    BY <1>3, <1>6, <2>1, ConcatDistinct
<1>9. \A i \in 1..Len((s \o t) \o u) : ((s \o t) \o u)[i] # "crawl"
  <2> DEFINE st == s \o t
  <2>0. st \in Seq(Events) /\ Len(st) \in Nat /\ Len(u) \in Nat
    BY <1>3, <1>6, LenProperties
  <2>1. /\ Len(st \o u) = Len(st) + Len(u)
        /\ \A i \in 1..(Len(st) + Len(u)) : (st \o u)[i] = IF i <= Len(st) THEN st[i] ELSE u[i - Len(st)]
    BY <1>3, <1>6, ConcatProperties
  <2>2. \A i \in 1..Len(st) : st[i] \in {"sync", "transactions"}
    BY <1>7
  <2> HIDE DEF st
  <2>3. \A i \in 1..Len(st \o u) : (st \o u)[i] # "crawl"
    BY <1>3, <2>0, <2>1, <2>2
  <2> QED
    BY <2>3 DEF st
<1> QED
  BY <1>4, <1>8, <1>9

\* The outcome is recorded and, in process, both dispatchers start.
LEMMA FinishSessionKeeps == ASSUME WebhookInv, FinishSession PROVE WebhookInv'
<1>0. WebhookTypes
  BY WebhookInvIs
<1>1. wSess.status = "running" /\ UNCHANGED <<wMode, wNow, wHook, wOut, wDrain, wRecv>>
  BY DEF FinishSession
<1>2. PICK b, n, m \in BOOLEAN :
        /\ wSess' = [status |-> IF b THEN "completed" ELSE "failed", at |-> wNow, counts |-> n,
                     moved |-> m, subscribed |-> Subscribed]
        /\ wChain' = IF wMode = "outbox" THEN wChain
                     ELSE [crawl |-> [left |-> <<"crawl">>, attempt |-> 0],
                           sync |-> [left |-> SyncEvents(b, n, m), attempt |-> 0]]
  BY DEF FinishSession
<1>3. wSess' \in SessRecords /\ wSess'.status # "running"
  BY <1>0, <1>2 DEF WebhookTypes, SessRecords, Subscribed
<1>4. \A e \in Events : wOut[e].st = "none"
  BY <1>1 DEF WebhookInv, RecordFits
<1>5. \A e \in Events : RecordFits(e)'
  BY <1>1, <1>4 DEF RecordFits
<1>6. \A e \in Events : wRecv[e].posts = 0 /\ ~wRecv[e].refused
  BY <1>1 DEF WebhookInv, UnsentWhileRunning
<1>7. \A d \in Drains : DrainFits(d)'
  BY <1>1 DEF WebhookInv, DrainFits
<1>8. UnsentWhileRunning'
  BY <1>3 DEF UnsentWhileRunning
<1>9. CASE wMode = "outbox"
  <2>1. wChain' = wChain
    BY <1>2, <1>9
  <2>2. \A c \in Chains : wChain[c].left = <<>> /\ wChain[c].attempt = 0
    <3>1. \A c \in Chains : wChain[c].left = <<>> /\ ~(wChain[c].attempt > 0) /\ wChain[c].attempt \in 0..MaxAttempts
      BY <1>0, <1>9, WebhookFields DEF WebhookInv, ChainFits
    <3> QED
      BY <3>1, WebhookNumbers
  <2>3. \A c \in Chains : ChainFits(c)'
    BY <2>1, <2>2, EmptyChain
  <2>4. WebhookTypes'
    BY <1>0, <1>1, <1>3, <2>1 DEF WebhookTypes
  <2> QED
    BY <1>5, <1>7, <1>8, <2>3, <2>4, WebhookTypesNext DEF WebhookInv
<1>10. CASE wMode # "outbox"
  <2> DEFINE q == SyncEvents(b, n, m)
             k == <<"crawl">>
             x == [left |-> k, attempt |-> 0]
             y == [left |-> q, attempt |-> 0]
  <2>0. q \in Seq(Events) /\ Distinct(q) /\ \A i \in 1..Len(q) : q[i] # "crawl" /\ q[i] \in Events
    <3>1. q \in Seq(Events) /\ Distinct(q) /\ \A i \in 1..Len(q) : q[i] # "crawl"
      BY SyncEventsAre
    <3> HIDE DEF q
    <3> QED
      BY <3>1
  <2>k. k \in Seq(Events) /\ Distinct(k) /\ \A i \in 1..Len(k) : k[i] = "crawl" /\ k[i] \in Events
    BY DEF Distinct, Events
  <2>1. wChain' = [crawl |-> x, sync |-> y]
    BY <1>2, <1>10
  <2> HIDE DEF q, k
  <2>2. /\ x \in ChainRecords /\ x.left = k /\ x.attempt = 0 /\ y \in ChainRecords /\ y.left = q
        /\ y.attempt = 0
    BY <2>0, <2>k, WebhookNumbers DEF ChainRecords
  <2> HIDE DEF x, y
  <2>3. wChain' \in [Chains -> ChainRecords] /\ wChain'["crawl"] = x /\ wChain'["sync"] = y
    BY <2>1, <2>2 DEF Chains
  <2>4. wMode = "process"
    BY <1>0, <1>10 DEF WebhookTypes
  <2>5. ChainFits("crawl")'
    BY <1>1, <1>3, <1>6, <2>2, <2>3, <2>4, <2>k DEF ChainFits
  <2>6. ChainFits("sync")'
    BY <1>1, <1>3, <1>6, <2>0, <2>2, <2>3, <2>4 DEF ChainFits
  <2>7. \A c \in Chains : ChainFits(c)'
    BY <2>5, <2>6 DEF Chains
  <2>8. WebhookTypes'
    BY <1>0, <1>1, <1>3, <2>3 DEF WebhookTypes
  <2> QED
    BY <1>5, <1>7, <1>8, <2>7, <2>8, WebhookTypesNext DEF WebhookInv
<1> QED
  BY <1>9, <1>10

\* The process dies.
LEMMA DiesKeeps == ASSUME WebhookInv, ProcessDies PROVE WebhookInv'
<1> DEFINE x == [left |-> <<>>, attempt |-> 0]
<1>0. WebhookTypes
  BY WebhookInvIs
<1>1. UNCHANGED <<wMode, wNow, wHook, wSess, wOut, wDrain, wRecv>> /\ wChain' = [c \in Chains |-> x]
  BY DEF ProcessDies, Chains
<1>2. x \in ChainRecords /\ x.left = <<>> /\ x.attempt = 0
  BY WebhookNumbers DEF ChainRecords
<1> HIDE DEF x
<1>3. WebhookTypes'
  BY <1>0, <1>1, <1>2 DEF WebhookTypes
<1>4. \A c \in Chains : ChainFits(c)'
  BY <1>1, <1>2, EmptyChain
<1>5. \A e \in Events : RecordFits(e)'
  BY <1>1, RecordKept DEF WebhookInv
<1>6. UnsentWhileRunning' /\ \A d \in Drains : DrainFits(d)'
  BY <1>1 DEF WebhookInv, UnsentWhileRunning, DrainFits
<1> QED
  BY <1>3, <1>4, <1>5, <1>6, WebhookTypesNext DEF WebhookInv

\* What is written for an event.
LEMMA ExpectedIs == Expected = [st |-> "pending", attempts |-> 0, until |-> 0, secret |-> TRUE, at |-> wSess.at]
<1> DEFINE a == "none"
           z == 0
           k == FALSE
           p == "pending"
           kept == TRUE
           t == wSess.at
           n == [st |-> a, attempts |-> z, until |-> z, secret |-> k, at |-> z]
           x == [n EXCEPT !.st = p]
           y == [x EXCEPT !.secret = kept]
<1>0. Expected = [y EXCEPT !.at = t]
  BY DEF Expected, NoRecord, TimestampOf
<1> HIDE DEF a, z, k, p, kept, t
<1>1. x = [st |-> p, attempts |-> z, until |-> z, secret |-> k, at |-> z]
  OBVIOUS
<1> HIDE DEF x
<1>2. y = [st |-> p, attempts |-> z, until |-> z, secret |-> kept, at |-> z]
  BY <1>1
<1> HIDE DEF y
<1>3. [y EXCEPT !.at = t] = [st |-> p, attempts |-> z, until |-> z, secret |-> kept, at |-> t]
  BY <1>2
<1>4. Expected = [st |-> p, attempts |-> z, until |-> z, secret |-> kept, at |-> t]
  BY <1>0, <1>3
<1> QED
  BY <1>4, Zenon DEF p, z, kept, t

\* The records of an ended session are written once.
LEMMA MaterialiseKeeps == ASSUME WebhookInv, Materialise PROVE WebhookInv'
<1>0. WebhookTypes
  BY WebhookInvIs
<1>1. /\ wMode = "outbox" /\ wSess.status # "running"
      /\ UNCHANGED <<wMode, wNow, wHook, wSess, wChain, wDrain, wRecv>>
      /\ wOut' = [e \in Events |-> IF Contains(TerminalCrawlEvents, e) THEN DrainedRecord(wOut[e]) ELSE wOut[e]]
  BY DEF Materialise
<1>2. /\ Expected \in OutRecords /\ Expected.st = "pending" /\ Expected.secret /\ Expected.at = wSess.at
      /\ Expected.attempts = 0 /\ Expected.until = 0
  <2>1. wSess.at \in 0..LastTick
    BY <1>0, WebhookFields
  <2>2. Expected = [st |-> "pending", attempts |-> 0, until |-> 0, secret |-> TRUE, at |-> wSess.at]
    BY ExpectedIs
  <2> QED
    BY <2>1, <2>2, WebhookNumbers DEF OutRecords
<1>3. ASSUME NEW e \in Events PROVE wOut'[e] = wOut[e] \/ (wOut[e].st = "none" /\ wOut'[e] = Expected)
  BY <1>1 DEF DrainedRecord
<1>4. WebhookTypes'
  <2>1. \A e \in Events : wOut'[e] \in OutRecords
    BY <1>0, <1>2, <1>3, WebhookFields
  <2>2. wOut' \in [Events -> OutRecords]
    BY <1>1, <2>1
  <2> QED
    BY <1>0, <1>1, <2>2 DEF WebhookTypes
<1>5. ASSUME NEW e \in Events PROVE RecordFits(e)'
  <2>1. CASE wOut'[e] = wOut[e]
    BY <1>1, <2>1, RecordKept DEF WebhookInv
  <2>2. CASE wOut'[e] = Expected
    <3> DEFINE r == wOut'[e]
    <3>1. r.st = "pending" /\ r.secret /\ r.at = wSess.at /\ r.attempts = 0 /\ r.until = 0
      BY <1>2, <2>2
    <3> QED
      BY <1>1, <3>1, WebhookNumbers DEF RecordFits
  <2> QED
    BY <1>3, <2>1, <2>2
<1>6. \A c \in Chains : ChainFits(c)'
  BY <1>1, ChainKept DEF WebhookInv
<1>7. UnsentWhileRunning' /\ \A d \in Drains : DrainFits(d)'
  BY <1>1 DEF WebhookInv, UnsentWhileRunning, DrainFits
<1> QED
  BY <1>4, <1>5, <1>6, <1>7, WebhookTypesNext DEF WebhookInv

----------------------------------------------------------------------------

\* What is left of a chain after its head.
LEMMA TailIs ==
  ASSUME NEW s \in Seq(Events), s # <<>>
  PROVE  /\ Tail(s) \in Seq(Events) /\ Len(s) \in Nat \ {0} /\ Len(Tail(s)) = Len(s) - 1 /\ Head(s) = s[1]
         /\ \A i \in 1..Len(Tail(s)) : Tail(s)[i] = s[i + 1] /\ i + 1 \in 1..Len(s)
BY HeadTailProperties, LenProperties

\* fanOut: the first attempt of the head, or the next event.
LEMMA FanOutKeeps == ASSUME WebhookInv, NEW c \in Chains, FanOut(c) PROVE WebhookInv'
<1> DEFINE r == wChain[c]
<1>0. WebhookTypes /\ ChainFits(c)
  BY WebhookInvIs DEF WebhookInv
<1>f. r \in ChainRecords /\ r.left \in Seq(Events) /\ r.attempt \in 0..MaxAttempts /\ \A e \in Events : wRecv[e].posts \in Nat
  BY <1>0, WebhookFields
<1>1. r.left # <<>> /\ r.attempt = 0 /\ UNCHANGED <<wMode, wNow, wHook, wSess, wOut, wDrain, wRecv>>
  BY DEF FanOut
<1>b. wChain' = [wChain EXCEPT ![c] = IF Subscribed THEN [r EXCEPT !.attempt = 1] ELSE [r EXCEPT !.left = Tail(r.left)]]
  BY DEF FanOut
<1> DEFINE y == IF Subscribed THEN [r EXCEPT !.attempt = 1] ELSE [r EXCEPT !.left = Tail(r.left)]
<1>t. /\ Tail(r.left) \in Seq(Events) /\ Len(r.left) \in Nat \ {0} /\ Len(Tail(r.left)) = Len(r.left) - 1
      /\ \A i \in 1..Len(Tail(r.left)) : Tail(r.left)[i] = r.left[i + 1] /\ i + 1 \in 1..Len(r.left)
  <2> DEFINE s == r.left
  <2>1. s \in Seq(Events) /\ s # <<>>
    BY <1>1, <1>f
  <2> HIDE DEF s, r
  <2>2. /\ Tail(s) \in Seq(Events) /\ Len(s) \in Nat \ {0} /\ Len(Tail(s)) = Len(s) - 1
        /\ \A i \in 1..Len(Tail(s)) : Tail(s)[i] = s[i + 1] /\ i + 1 \in 1..Len(s)
    BY <2>1, TailIs
  <2> QED
    BY <2>2 DEF s
<1>2. /\ y \in ChainRecords
      /\ \/ y.left = r.left /\ y.attempt = 1
         \/ y.left = Tail(r.left) /\ y.attempt = 0
  <2>1. CASE Subscribed
    <3>1. y = [r EXCEPT !.attempt = 1]
      BY <2>1
    <3> HIDE DEF r, y
    <3> QED
      BY <1>f, <3>1, WebhookNumbers DEF ChainRecords
  <2>2. CASE ~Subscribed
    <3>1. y = [r EXCEPT !.left = Tail(r.left)]
      BY <2>2
    <3> HIDE DEF r, y
    <3> QED
      BY <1>1, <1>f, <1>t, <3>1 DEF ChainRecords
  <2> QED
    BY <2>1, <2>2
<1>3. wChain' = [wChain EXCEPT ![c] = y]
  BY <1>b
<1> HIDE DEF y
<1>4. wChain' \in [Chains -> ChainRecords] /\ wChain'[c] = y /\ \A d \in Chains : d # c => wChain'[d] = wChain[d]
  BY <1>0, <1>2, <1>3 DEF WebhookTypes
<1>5. WebhookTypes'
  BY <1>0, <1>1, <1>4 DEF WebhookTypes
<1>6. ChainFits(c)'
  <2>0. /\ wMode = "process" /\ wSess.status # "running" /\ Distinct(r.left)
        /\ \A i \in 1..Len(r.left) : r.left[i] = "crawl" <=> c = "crawl"
        /\ \A i \in 1..Len(r.left) : ~wRecv[r.left[i]].refused /\ wRecv[r.left[i]].posts = 0
    BY <1>0, <1>1 DEF ChainFits
  <2>1. CASE y.left = r.left /\ y.attempt = 1
    <3>1. wChain'[c].left = r.left /\ wChain'[c].attempt = 1
      BY <1>4, <2>1
    <3> HIDE DEF r
    <3> QED
      BY <1>1, <1>t, <2>0, <3>1 DEF ChainFits
  <2>2. CASE y.left = Tail(r.left) /\ y.attempt = 0
    <3>1. wChain'[c].left = Tail(r.left) /\ wChain'[c].attempt = 0
      BY <1>4, <2>2
    <3> HIDE DEF r
    <3>2. Distinct(Tail(r.left))
      BY <1>t, <2>0 DEF Distinct
    <3> DEFINE s == r.left
               u == Tail(s)
    <3>3. \A i \in 1..Len(u) : /\ u[i] = "crawl" <=> c = "crawl"
                              /\ ~wRecv[u[i]].refused /\ wRecv[u[i]].posts = 0
      BY <1>t, <2>0
    <3>4. wChain'[c].left = u /\ wChain'[c].attempt = 0 /\ Distinct(u)
      BY <3>1, <3>2
    <3> HIDE DEF u
    <3> QED
      BY <1>1, <2>0, <3>3, <3>4 DEF ChainFits
  <2> QED
    BY <1>2, <2>1, <2>2
<1>7. ASSUME NEW d \in Chains, d # c PROVE ChainFits(d)'
  BY <1>1, <1>4, <1>7, ChainKept DEF WebhookInv
<1>8. \A e \in Events : RecordFits(e)'
  BY <1>1, RecordKept DEF WebhookInv
<1>9. UnsentWhileRunning' /\ \A d \in Drains : DrainFits(d)'
  BY <1>1 DEF WebhookInv, UnsentWhileRunning, DrainFits
<1> QED
  BY <1>5, <1>6, <1>7, <1>8, <1>9, WebhookTypesNext DEF WebhookInv

\* What a POST does to the receiver.
LEMMA PostIs ==
  ASSUME WebhookTypes, NEW e \in Events, NEW outcome \in Outcomes, Post(e, outcome)
  PROVE  /\ wRecv' \in [Events -> RecvRecords] /\ \A f \in Events : f # e => wRecv'[f] = wRecv[f]
         /\ wMode = "process" => wRecv'[e].posts = wRecv[e].posts + 1
         /\ wRecv'[e].refused => wRecv[e].refused \/ outcome = "permanent"
<1> DEFINE x == wRecv[e]
           n == x.posts + (IF wMode = "process" THEN 1 ELSE 0)
           b == x.refused \/ outcome = "permanent"
           y == [x EXCEPT !.posts = n, !.refused = b]
<1>0. x \in RecvRecords /\ x.posts \in Nat /\ x.refused \in BOOLEAN /\ wRecv \in [Events -> RecvRecords]
  BY WebhookFields DEF WebhookTypes
<1>1. n \in Nat /\ b \in BOOLEAN /\ (wMode = "process" => n = x.posts + 1)
  BY <1>0
<1>2. wRecv' = [wRecv EXCEPT ![e] = y]
  BY <1>0 DEF Post
<1>3. y \in RecvRecords /\ y.posts = n /\ y.refused = b
  <2> HIDE DEF n, b, x
  <2> QED
    BY <1>0, <1>1 DEF RecvRecords
<1> HIDE DEF y
<1>4. wRecv' \in [Events -> RecvRecords] /\ wRecv'[e] = y /\ \A f \in Events : f # e => wRecv'[f] = wRecv[f]
  BY <1>0, <1>2, <1>3
<1> QED
  BY <1>1, <1>3, <1>4

\* What an attempt in process does: the receiver has the head once more, and
\* the chain goes on with the same event only if it was not refused.
LEMMA DeliverIs ==
  ASSUME WebhookInv, NEW c \in Chains, Deliver(c)
  PROVE  LET r == wChain[c] IN
         /\ r.attempt \in 1..MaxAttempts /\ r.left # <<>> /\ wMode = "process"
         /\ wRecv' \in [Events -> RecvRecords] /\ wRecv'[r.left[1]].posts = r.attempt
         /\ \A f \in Events : f # r.left[1] => wRecv'[f] = wRecv[f]
         /\ wChain' \in [Chains -> ChainRecords] /\ \A d \in Chains : d # c => wChain'[d] = wChain[d]
         /\ \/ wChain'[c].left = Tail(r.left) /\ wChain'[c].attempt = 0
            \/ wChain'[c].left = r.left /\ wChain'[c].attempt = r.attempt + 1 /\ ~wRecv'[r.left[1]].refused
         /\ UNCHANGED <<wMode, wNow, wHook, wSess, wOut, wDrain>>
<1> DEFINE r == wChain[c]
           e == r.left[1]
<1>0. WebhookTypes /\ ChainFits(c)
  BY WebhookInvIs DEF WebhookInv
<1>f. r \in ChainRecords /\ r.left \in Seq(Events) /\ r.attempt \in 0..MaxAttempts
  BY <1>0, WebhookFields
<1>1. r.attempt > 0 /\ UNCHANGED <<wMode, wNow, wHook, wSess, wOut, wDrain>>
  BY DEF Deliver
<1>2. r.left # <<>> /\ wMode = "process"
  BY <1>0, <1>1 DEF ChainFits
<1>t. Tail(r.left) \in Seq(Events) /\ Len(r.left) \in Nat \ {0} /\ Head(r.left) = e
  <2> DEFINE s == r.left
  <2>1. s \in Seq(Events) /\ s # <<>>
    BY <1>2, <1>f
  <2> HIDE DEF s, r
  <2>2. Tail(s) \in Seq(Events) /\ Len(s) \in Nat \ {0} /\ Head(s) = s[1]
    BY <2>1, TailIs
  <2> QED
    BY <2>2 DEF s
<1>3. e \in Events /\ ~wRecv[e].refused /\ wRecv[e].posts + 1 = r.attempt
  <2>1. 1 \in 1..Len(r.left)
    BY <1>t
  <2>2. e \in Events
    <3> HIDE DEF r
    <3> QED
      BY <1>f, <2>1
  <2> QED
    BY <1>0, <1>1, <2>1, <2>2 DEF ChainFits
<1>4. PICK outcome \in Outcomes :
        /\ Post(Head(r.left), outcome)
        /\ wChain' = [wChain EXCEPT ![c] = IF GivesUp(r.attempt, outcome)
                                           THEN [left |-> Tail(r.left), attempt |-> 0]
                                           ELSE [r EXCEPT !.attempt = r.attempt + 1]]
  BY DEF Deliver
<1>5. /\ wRecv' \in [Events -> RecvRecords] /\ \A f \in Events : f # e => wRecv'[f] = wRecv[f]
      /\ wRecv'[e].posts = r.attempt /\ (wRecv'[e].refused => outcome = "permanent")
  <2>1. Post(e, outcome)
    BY <1>4, <1>t
  <2> HIDE DEF e, r
  <2> QED
    BY <1>0, <1>2, <1>3, <2>1, PostIs
<1> DEFINE y == IF GivesUp(r.attempt, outcome) THEN [left |-> Tail(r.left), attempt |-> 0]
                                               ELSE [r EXCEPT !.attempt = r.attempt + 1]
<1>6. /\ y \in ChainRecords
      /\ \/ y.left = Tail(r.left) /\ y.attempt = 0
         \/ y.left = r.left /\ y.attempt = r.attempt + 1 /\ outcome # "permanent"
  <2>1. CASE GivesUp(r.attempt, outcome)
    <3>1. y = [left |-> Tail(r.left), attempt |-> 0]
      BY <2>1
    <3> HIDE DEF r, y
    <3> QED
      BY <1>t, <3>1, WebhookNumbers DEF ChainRecords
  <2>2. CASE ~GivesUp(r.attempt, outcome)
    <3>1. y = [r EXCEPT !.attempt = r.attempt + 1]
      BY <2>2
    <3>2. r.attempt + 1 \in 0..MaxAttempts /\ outcome # "permanent"
      BY <1>f, <2>2, WebhookNumbers DEF GivesUp
    <3> HIDE DEF r, y
    <3> QED
      BY <1>f, <3>1, <3>2 DEF ChainRecords
  <2> QED
    BY <2>1, <2>2
<1>7. wChain' = [wChain EXCEPT ![c] = y]
  BY <1>4
<1> HIDE DEF y
<1>8. wChain' \in [Chains -> ChainRecords] /\ wChain'[c] = y /\ \A d \in Chains : d # c => wChain'[d] = wChain[d]
  BY <1>0, <1>6, <1>7 DEF WebhookTypes
<1>9. r.attempt \in 1..MaxAttempts
  BY <1>1, <1>f, WebhookNumbers
<1>10. \/ wChain'[c].left = Tail(r.left) /\ wChain'[c].attempt = 0
       \/ wChain'[c].left = r.left /\ wChain'[c].attempt = r.attempt + 1 /\ ~wRecv'[e].refused
  BY <1>5, <1>6, <1>8
<1> QED
  BY <1>1, <1>2, <1>5, <1>8, <1>9, <1>10

LEMMA DeliverKeeps == ASSUME WebhookInv, NEW c \in Chains, Deliver(c) PROVE WebhookInv'
<1> DEFINE s == wChain[c].left
           n == wChain[c].attempt
           h == s[1]
<1>0. WebhookTypes /\ ChainFits(c)
  BY WebhookInvIs DEF WebhookInv
<1>1. /\ n \in 1..MaxAttempts /\ s # <<>> /\ wMode = "process"
      /\ wRecv' \in [Events -> RecvRecords] /\ wRecv'[h].posts = n
      /\ \A f \in Events : f # h => wRecv'[f] = wRecv[f]
      /\ wChain' \in [Chains -> ChainRecords] /\ \A d \in Chains : d # c => wChain'[d] = wChain[d]
      /\ \/ wChain'[c].left = Tail(s) /\ wChain'[c].attempt = 0
         \/ wChain'[c].left = s /\ wChain'[c].attempt = n + 1 /\ ~wRecv'[h].refused
      /\ UNCHANGED <<wMode, wNow, wHook, wSess, wOut, wDrain>>
  BY DeliverIs
<1>2. WebhookTypes'
  BY <1>0, <1>1 DEF WebhookTypes
<1>3. s \in Seq(Events)
  BY <1>0, WebhookFields
<1>4. /\ wSess.status # "running" /\ Distinct(s)
      /\ \A i \in 1..Len(s) : s[i] = "crawl" <=> c = "crawl"
      /\ \A i \in 1..Len(s) : ~wRecv[s[i]].refused /\ (i > 1 => wRecv[s[i]].posts = 0)
  BY <1>0, <1>1 DEF ChainFits
<1> HIDE DEF s, n
<1>5. /\ Tail(s) \in Seq(Events) /\ Len(s) \in Nat \ {0} /\ Len(Tail(s)) = Len(s) - 1
      /\ \A i \in 1..Len(Tail(s)) : Tail(s)[i] = s[i + 1] /\ i + 1 \in 1..Len(s)
  BY <1>1, <1>3, TailIs
<1>6. ASSUME NEW i \in 1..Len(s), i > 1
      PROVE  s[i] # h /\ wRecv'[s[i]] = wRecv[s[i]]
  <2>1. s[i] # h /\ s[i] \in Events
    BY <1>3, <1>4, <1>5, <1>6 DEF Distinct
  <2> QED
    BY <1>1, <2>1
<1>7. ChainFits(c)'
  <2>1. CASE wChain'[c].left = s /\ wChain'[c].attempt = n + 1 /\ ~wRecv'[h].refused
    <3>1. ASSUME NEW i \in 1..Len(s)
          PROVE  /\ ~wRecv'[s[i]].refused
                 /\ i > 1 => wRecv'[s[i]].posts = 0
                 /\ i = 1 => wRecv'[s[i]].posts = n
      <4>1. CASE i = 1
        BY <1>1, <2>1, <4>1
      <4>2. CASE i > 1
        BY <1>4, <1>6, <4>2
      <4> QED
        BY <1>5, <4>1, <4>2
    <3> QED
      BY <1>1, <1>4, <2>1, <3>1 DEF ChainFits
  <2>2. CASE wChain'[c].left = Tail(s) /\ wChain'[c].attempt = 0
    <3> DEFINE u == Tail(s)
    <3>1. Distinct(u)
      BY <1>4, <1>5 DEF Distinct
    <3>2. ASSUME NEW i \in 1..Len(u)
          PROVE  (u[i] = "crawl" <=> c = "crawl") /\ ~wRecv'[u[i]].refused /\ wRecv'[u[i]].posts = 0
      <4>1. u[i] = s[i + 1] /\ i + 1 \in 1..Len(s) /\ i + 1 > 1
        BY <1>5
      <4> QED
        BY <1>4, <1>6, <4>1
    <3> HIDE DEF u
    <3>3. wChain'[c].left = u /\ wChain'[c].attempt = 0
      BY <2>2 DEF u
    <3> QED
      BY <1>1, <1>4, <3>1, <3>2, <3>3 DEF ChainFits
  <2> QED
    BY <1>1, <2>1, <2>2
<1>8. ASSUME NEW d \in Chains, d # c PROVE ChainFits(d)'
  <2>1. ChainFits(d) /\ wChain[d].left \in Seq(Events)
    BY <1>0, WebhookFields DEF WebhookInv
  <2>2. (d = "crawl") # (c = "crawl")
    BY <1>8 DEF Chains
  <2> DEFINE q == wChain[d].left
  <2>3. \A i \in 1..Len(q) : q[i] = "crawl" <=> d = "crawl"
    BY <2>1 DEF ChainFits
  <2>4. h = "crawl" <=> c = "crawl"
    BY <1>4, <1>5
  <2>5. \A i \in 1..Len(q) : q[i] \in Events
    <3>1. q \in Seq(Events)
      BY <2>1
    <3> HIDE DEF q
    <3> QED
      BY <3>1
  <2>6. \A i \in 1..Len(q) : wRecv'[q[i]] = wRecv[q[i]]
    <3> HIDE DEF q, h
    <3> QED
      BY <1>1, <2>2, <2>3, <2>4, <2>5
  <2> QED
    BY <1>1, <1>8, <2>1, <2>6, ChainKept
<1>9. \A e \in Events : RecordFits(e)'
  BY <1>1, RecordKept DEF WebhookInv
<1>10. UnsentWhileRunning' /\ \A d \in Drains : DrainFits(d)'
  BY <1>1, <1>4 DEF WebhookInv, UnsentWhileRunning, DrainFits
<1> QED
  BY <1>2, <1>7, <1>8, <1>9, <1>10, WebhookTypesNext DEF WebhookInv

----------------------------------------------------------------------------

\* An instance takes a delivery whose lease has run out.
LEMMA TakeKeeps ==
  ASSUME WebhookInv, NEW d \in Drains, NEW e \in Events, TakeDelivery(d, e)
  PROVE  WebhookInv'
<1> DEFINE x == wOut[e]
           y == [x EXCEPT !.attempts = x.attempts + 1, !.until = wNow + DeliveryLease]
           z == [e |-> e, until |-> wNow + DeliveryLease, got |-> "none"]
<1>0. WebhookTypes /\ RecordFits(e)
  BY WebhookInvIs DEF WebhookInv
<1>f. /\ x \in OutRecords /\ x.attempts \in Nat /\ x.until \in Nat
      /\ wOut \in [Events -> OutRecords] /\ wDrain \in [Drains -> DrainRecords] /\ wNow \in Nat
      /\ wNow <= LastTick
  BY <1>0, WebhookFields DEF WebhookTypes
<1>1. /\ x.st = "pending" /\ x.until <= wNow /\ wNow < LastTick
      /\ UNCHANGED <<wMode, wNow, wHook, wSess, wChain, wRecv>>
      /\ wDrain' = [wDrain EXCEPT ![d] = z]
  BY DEF TakeDelivery
<1>2. wOut' = [wOut EXCEPT ![e] = y]
  BY <1>f DEF TakeDelivery
<1>3. /\ wMode = "outbox" /\ wSess.status # "running" /\ x.at = wSess.at /\ (x.secret \/ Finished(x))
      /\ x.attempts + 1 <= Budget + wNow
  <2>1. CASE x.until = 0
    BY <1>0, <1>1, <1>f, <2>1, WebhookNumbers DEF RecordFits
  <2>2. CASE x.until # 0
    <3>1. x.attempts + DeliveryLease <= Budget + x.until
      BY <1>0, <1>1, <2>2 DEF RecordFits
    <3> HIDE DEF x
    <3> QED
      BY <1>0, <1>1, <1>f, <3>1, WebhookNumbers DEF RecordFits, x
  <2> QED
    BY <2>1, <2>2
<1>4. /\ y \in OutRecords /\ y.st = x.st /\ y.at = x.at /\ y.secret = x.secret
      /\ y.attempts = x.attempts + 1 /\ y.until = wNow + DeliveryLease
  <2> DEFINE m == x.attempts + 1
             w == wNow + DeliveryLease
  <2>1. m \in 0..(Budget + LastTick) /\ w \in 0..(LastTick + DeliveryLease)
    BY <1>f, <1>3, WebhookNumbers
  <2> HIDE DEF m, w, x
  <2>2. /\ [x EXCEPT !.attempts = m, !.until = w] \in OutRecords
        /\ [x EXCEPT !.attempts = m, !.until = w].st = x.st
        /\ [x EXCEPT !.attempts = m, !.until = w].at = x.at
        /\ [x EXCEPT !.attempts = m, !.until = w].secret = x.secret
        /\ [x EXCEPT !.attempts = m, !.until = w].attempts = m
        /\ [x EXCEPT !.attempts = m, !.until = w].until = w
    BY <1>f, <2>1 DEF OutRecords
  <2> QED
    BY <2>2 DEF m, w
<1>5. z \in DrainRecords
  <2> DEFINE w == wNow + DeliveryLease
  <2>1. w \in 0..(LastTick + DeliveryLease)
    BY <1>f, WebhookNumbers
  <2> HIDE DEF w
  <2>2. [e |-> e, until |-> w, got |-> "none"] \in DrainRecords
    BY <2>1 DEF DrainRecords
  <2> QED
    BY <2>2 DEF w
<1> HIDE DEF y, z
<1>6. /\ wOut' \in [Events -> OutRecords] /\ wOut'[e] = y /\ \A f \in Events : f # e => wOut'[f] = wOut[f]
      /\ wDrain' \in [Drains -> DrainRecords] /\ \A g \in Drains : g # d => wDrain'[g] = wDrain[g]
  BY <1>f, <1>1, <1>2, <1>4, <1>5
<1>7. WebhookTypes'
  BY <1>0, <1>1, <1>6 DEF WebhookTypes
<1>8. RecordFits(e)'
  <2>1. /\ wOut'[e].st = "pending" /\ wOut'[e].at = wSess.at /\ (wOut'[e].secret \/ Finished(wOut'[e]))
        /\ wOut'[e].attempts + DeliveryLease <= Budget + wOut'[e].until /\ wOut'[e].until # 0
    <3>1. wOut'[e].until # 0 /\ wOut'[e].attempts + DeliveryLease <= Budget + wOut'[e].until
      BY <1>f, <1>3, <1>4, <1>6, WebhookNumbers
    <3> QED
      BY <1>1, <1>3, <1>4, <1>6, <3>1 DEF Finished
  <2> QED
    BY <1>1, <1>3, <2>1 DEF RecordFits
<1>9. ASSUME NEW f \in Events, f # e PROVE RecordFits(f)'
  BY <1>1, <1>6, <1>9, RecordKept DEF WebhookInv
<1>10. \A c \in Chains : ChainFits(c)'
  BY <1>1, ChainKept DEF WebhookInv
<1>11. UnsentWhileRunning' /\ \A g \in Drains : DrainFits(g)'
  BY <1>1, <1>3 DEF WebhookInv, UnsentWhileRunning, DrainFits
<1> QED
  BY <1>7, <1>8, <1>9, <1>10, <1>11, WebhookTypesNext DEF WebhookInv

\* It sends what it took.
LEMMA DeliverOnceKeeps == ASSUME WebhookInv, NEW d \in Drains, DeliverOnce(d) PROVE WebhookInv'
<1> DEFINE x == wDrain[d]
<1>0. WebhookTypes /\ DrainFits(d)
  BY WebhookInvIs DEF WebhookInv
<1>1. x.e # "none" /\ UNCHANGED <<wMode, wNow, wHook, wSess, wChain, wOut>>
  BY DEF DeliverOnce
<1>2. PICK outcome \in Outcomes : Post(x.e, outcome) /\ wDrain' = [wDrain EXCEPT ![d].got = outcome]
  BY DEF DeliverOnce
<1>3. x \in DrainRecords /\ x.e \in Events /\ wDrain \in [Drains -> DrainRecords]
  BY <1>0, <1>1, WebhookFields DEF WebhookTypes
<1>4. wMode = "outbox" /\ wSess.status # "running"
  BY <1>0, <1>1 DEF DrainFits
<1> DEFINE y == [x EXCEPT !.got = outcome]
<1>5. wDrain' = [wDrain EXCEPT ![d] = y]
  BY <1>2
<1>6. y \in DrainRecords
  <2> HIDE DEF x
  <2> QED
    BY <1>3 DEF DrainRecords
<1> HIDE DEF y
<1>7. wDrain' \in [Drains -> DrainRecords]
  BY <1>3, <1>5, <1>6
<1>8. wRecv' \in [Events -> RecvRecords]
  <2>1. Post(x.e, outcome) /\ x.e \in Events
    BY <1>2, <1>3
  <2> HIDE DEF x
  <2> QED
    BY <1>0, <2>1, PostIs
<1>9. WebhookTypes'
  BY <1>0, <1>1, <1>7, <1>8 DEF WebhookTypes
<1>10. \A e \in Events : RecordFits(e)'
  BY <1>1, RecordKept DEF WebhookInv
<1>11. ASSUME NEW c \in Chains PROVE ChainFits(c)'
  <2>1. wChain'[c].left = <<>> /\ wChain'[c].attempt \in 0..MaxAttempts /\ ~(wChain'[c].attempt > 0)
    BY <1>0, <1>1, <1>4, OutboxChains, WebhookFields DEF WebhookInv, ChainFits
  <2>2. wChain'[c].attempt = 0
    BY <2>1, WebhookNumbers
  <2> QED
    BY <2>1, <2>2, EmptyChain
<1>12. UnsentWhileRunning' /\ \A g \in Drains : DrainFits(g)'
  BY <1>1, <1>4 DEF UnsentWhileRunning, DrainFits
<1> QED
  BY <1>9, <1>10, <1>11, <1>12, WebhookTypesNext DEF WebhookInv

\* What a report leaves of the record.
LEMMA FinishRecord ==
  ASSUME NEW x \in OutRecords, NEW st \in {"pending", "delivered", "permanent"}
  PROVE  LET y == [x EXCEPT !.st = st, !.until = 0, !.secret = st = "pending"] IN
         /\ y \in OutRecords /\ y.st = st /\ y.until = 0 /\ y.attempts = x.attempts /\ y.at = x.at
         /\ y.secret = (st = "pending")
<1> DEFINE b == st = "pending"
           z == 0
<1>1. b \in BOOLEAN /\ z \in 0..(LastTick + DeliveryLease)
  BY WebhookNumbers
<1> HIDE DEF b, z
<1> DEFINE y == [x EXCEPT !.st = st, !.until = z, !.secret = b]
<1>2. y \in OutRecords /\ y.st = st /\ y.until = z /\ y.attempts = x.attempts /\ y.at = x.at /\ y.secret = b
  BY <1>1 DEF OutRecords
<1> QED
  BY <1>2 DEF b, z

LEMMA IdleDrainIs == IdleDrain \in DrainRecords /\ IdleDrain.e = "none"
<1> DEFINE z == 0
<1>1. z \in 0..(LastTick + DeliveryLease)
  BY WebhookNumbers
<1> HIDE DEF z
<1>2. /\ [e |-> "none", until |-> z, got |-> "none"] \in DrainRecords
      /\ [e |-> "none", until |-> z, got |-> "none"].e = "none"
  BY <1>1 DEF DrainRecords
<1> QED
  BY <1>2 DEF z, IdleDrain

\* What a report does to the outbox: nothing, unless the lease is still its own.
LEMMA FinishIs ==
  ASSUME WebhookTypes, NEW d \in Drains, FinishDelivery(d)
  PROVE  /\ wDrain' \in [Drains -> DrainRecords] /\ wDrain'[d].e = "none" /\ \A g \in Drains : g # d => wDrain'[g] = wDrain[g]
         /\ UNCHANGED <<wMode, wNow, wHook, wSess, wChain, wRecv>>
         /\ \/ wOut' = wOut
            \/ \E e \in Events, st \in {"pending", "delivered", "permanent"} :
                 /\ wOut[e].st = "pending" /\ (st = "pending" => wOut[e].attempts < Budget)
                 /\ wOut' = [wOut EXCEPT ![e] = [wOut[e] EXCEPT !.st = st, !.until = 0, !.secret = st = "pending"]]
<1> DEFINE e == wDrain[d].e
           o == wDrain[d].got
           st == DecideDeliveryFinish(o, wOut[e].attempts)
<1>0. wOut \in [Events -> OutRecords] /\ wDrain \in [Drains -> DrainRecords]
  BY DEF WebhookTypes
<1>1. /\ e # "none" /\ o # "none" /\ wDrain' = [wDrain EXCEPT ![d] = IdleDrain]
      /\ UNCHANGED <<wMode, wNow, wHook, wSess, wChain, wRecv>>
  BY DEF FinishDelivery
<1>2. e \in Events /\ o \in Outcomes /\ wOut[e].attempts \in Nat
  BY <1>1, WebhookFields
<1>3. wDrain' \in [Drains -> DrainRecords] /\ wDrain'[d].e = "none" /\ \A g \in Drains : g # d => wDrain'[g] = wDrain[g]
  BY <1>0, <1>1, IdleDrainIs
<1>4. st \in {"pending", "delivered", "permanent"} /\ (st = "pending" => wOut[e].attempts < Budget)
  BY <1>2, WebhookNumbers DEF DecideDeliveryFinish, Outcomes
<1>5. CASE ~HoldsLease(d)
  <2>1. wOut' = wOut
    BY <1>5 DEF FinishDelivery
  <2> QED
    BY <1>1, <1>3, <2>1
<1>6. CASE HoldsLease(d)
  <2>1. wOut[e].st = "pending"
    BY <1>6 DEF HoldsLease
  <2>2. wOut' = [wOut EXCEPT ![e] = [wOut[e] EXCEPT !.st = st, !.until = 0, !.secret = st = "pending"]]
    BY <1>0, <1>2, <1>6 DEF FinishDelivery
  <2> HIDE DEF e, st
  <2>3. \E f \in Events, s \in {"pending", "delivered", "permanent"} :
          /\ wOut[f].st = "pending" /\ (s = "pending" => wOut[f].attempts < Budget)
          /\ wOut' = [wOut EXCEPT ![f] = [wOut[f] EXCEPT !.st = s, !.until = 0, !.secret = s = "pending"]]
    BY <1>2, <1>4, <2>1, <2>2, Zenon
  <2> QED
    BY <1>1, <1>3, <2>3
<1> QED
  BY <1>5, <1>6

LEMMA FinishDeliveryKeeps == ASSUME WebhookInv, NEW d \in Drains, FinishDelivery(d) PROVE WebhookInv'
<1>0. WebhookTypes
  BY WebhookInvIs
<1>1. /\ wDrain' \in [Drains -> DrainRecords] /\ wDrain'[d].e = "none" /\ \A g \in Drains : g # d => wDrain'[g] = wDrain[g]
      /\ UNCHANGED <<wMode, wNow, wHook, wSess, wChain, wRecv>>
  BY <1>0, FinishIs
<1>2. \A c \in Chains : ChainFits(c)'
  BY <1>1, ChainKept DEF WebhookInv
<1>3. UnsentWhileRunning' /\ \A g \in Drains : DrainFits(g)'
  BY <1>1 DEF WebhookInv, UnsentWhileRunning, DrainFits
<1>4. CASE wOut' = wOut
  <2>1. WebhookTypes'
    BY <1>0, <1>1, <1>4 DEF WebhookTypes
  <2>2. \A e \in Events : RecordFits(e)'
    BY <1>1, <1>4, RecordKept DEF WebhookInv
  <2> QED
    BY <1>2, <1>3, <2>1, <2>2, WebhookTypesNext DEF WebhookInv
<1>5. CASE wOut' # wOut
  <2>1. PICK e \in Events, st \in {"pending", "delivered", "permanent"} :
          /\ wOut[e].st = "pending" /\ (st = "pending" => wOut[e].attempts < Budget)
          /\ wOut' = [wOut EXCEPT ![e] = [wOut[e] EXCEPT !.st = st, !.until = 0, !.secret = st = "pending"]]
    BY <1>0, <1>5, FinishIs
  <2> DEFINE x == wOut[e]
             y == [x EXCEPT !.st = st, !.until = 0, !.secret = st = "pending"]
  <2>2. x \in OutRecords /\ wOut \in [Events -> OutRecords] /\ RecordFits(e)
    BY <1>0, WebhookFields DEF WebhookTypes, WebhookInv
  <2>3. /\ y \in OutRecords /\ y.st = st /\ y.until = 0 /\ y.attempts = x.attempts /\ y.at = x.at
        /\ y.secret = (st = "pending")
    <3> HIDE DEF x
    <3> QED
      BY <2>2, FinishRecord
  <2>4. wOut' = [wOut EXCEPT ![e] = y]
    BY <2>1
  <2> HIDE DEF y
  <2>5. wOut' \in [Events -> OutRecords] /\ wOut'[e] = y /\ \A f \in Events : f # e => wOut'[f] = wOut[f]
    BY <2>2, <2>3, <2>4
  <2>6. WebhookTypes'
    BY <1>0, <1>1, <2>5 DEF WebhookTypes
  <2>7. RecordFits(e)'
    BY <1>1, <2>1, <2>2, <2>3, <2>5 DEF RecordFits, Finished
  <2>8. ASSUME NEW f \in Events, f # e PROVE RecordFits(f)'
    BY <1>1, <2>5, <2>8, RecordKept DEF WebhookInv
  <2> QED
    BY <1>2, <1>3, <2>6, <2>7, <2>8, WebhookTypesNext DEF WebhookInv
<1> QED
  BY <1>4, <1>5

LEMMA DrainDiesKeeps == ASSUME WebhookInv, NEW d \in Drains, DrainDies(d) PROVE WebhookInv'
<1>0. WebhookTypes
  BY WebhookInvIs
<1>1. /\ wDrain' = [wDrain EXCEPT ![d] = IdleDrain]
      /\ UNCHANGED <<wMode, wNow, wHook, wSess, wChain, wOut, wRecv>>
  BY DEF DrainDies
<1>2. wDrain' \in [Drains -> DrainRecords] /\ wDrain'[d].e = "none" /\ \A g \in Drains : g # d => wDrain'[g] = wDrain[g]
  BY <1>0, <1>1, IdleDrainIs DEF WebhookTypes
<1>3. WebhookTypes'
  BY <1>0, <1>1, <1>2 DEF WebhookTypes
<1>4. \A c \in Chains : ChainFits(c)'
  BY <1>1, ChainKept DEF WebhookInv
<1>5. UnsentWhileRunning' /\ \A g \in Drains : DrainFits(g)'
  BY <1>1, <1>2 DEF WebhookInv, UnsentWhileRunning, DrainFits
<1>6. \A e \in Events : RecordFits(e)'
  BY <1>1, RecordKept DEF WebhookInv
<1> QED
  BY <1>3, <1>4, <1>5, <1>6, WebhookTypesNext DEF WebhookInv

LEMMA WebhookStutter == ASSUME WebhookInv, UNCHANGED webhookVars PROVE WebhookInv'
<1>0. WebhookTypes
  BY WebhookInvIs
<1>1. UNCHANGED <<wMode, wNow, wHook, wSess, wChain, wOut, wDrain, wRecv>>
  BY DEF webhookVars
<1>2. WebhookTypes'
  BY <1>0, <1>1 DEF WebhookTypes
<1>3. \A e \in Events : RecordFits(e)'
  BY <1>1, RecordKept DEF WebhookInv
<1>4. \A c \in Chains : ChainFits(c)'
  BY <1>1, ChainKept DEF WebhookInv
<1>5. UnsentWhileRunning' /\ \A g \in Drains : DrainFits(g)'
  BY <1>1 DEF WebhookInv, UnsentWhileRunning, DrainFits
<1> QED
  BY <1>2, <1>3, <1>4, <1>5, WebhookTypesNext DEF WebhookInv

----------------------------------------------------------------------------

\* The initial state and every step.
LEMMA WebhookStarts == WebhookInit => WebhookInv
<1> SUFFICES ASSUME WebhookInit PROVE WebhookInv
  OBVIOUS
<1> DEFINE x == [left |-> <<>>, attempt |-> 0]
           w == [posts |-> 0, refused |-> FALSE]
<1>1. /\ wMode \in {"process", "outbox"} /\ wNow = 0 /\ wHook = "none"
      /\ wChain = [c \in Chains |-> x] /\ wOut = [e \in Events |-> NoRecord]
      /\ wDrain = [d \in Drains |-> IdleDrain] /\ wRecv = [e \in Events |-> w]
      /\ wSess = [status |-> "running", at |-> 0, counts |-> FALSE, moved |-> FALSE, subscribed |-> FALSE]
  BY DEF WebhookInit, Chains
<1>2. x \in ChainRecords /\ x.left = <<>> /\ x.attempt = 0
  BY WebhookNumbers DEF ChainRecords
<1>3. w \in RecvRecords /\ w.posts = 0 /\ ~w.refused
  BY DEF RecvRecords
<1>4. NoRecord \in OutRecords /\ NoRecord.st = "none"
  BY WebhookNumbers DEF NoRecord, OutRecords
<1>5. wSess \in SessRecords /\ wSess.status = "running"
  BY <1>1, WebhookNumbers DEF SessRecords
<1> HIDE DEF x, w
<1>6. WebhookTypes
  BY <1>1, <1>2, <1>3, <1>4, <1>5, IdleDrainIs, WebhookNumbers DEF WebhookTypes
<1>7. \A e \in Events : RecordFits(e)
  BY <1>1, <1>4 DEF RecordFits
<1>8. \A c \in Chains : ChainFits(c)
  BY <1>1, <1>2 DEF ChainFits, Distinct
<1>9. UnsentWhileRunning /\ \A d \in Drains : DrainFits(d)
  BY <1>1, <1>3, IdleDrainIs DEF UnsentWhileRunning, DrainFits
<1> QED
  BY <1>6, <1>7, <1>8, <1>9, WebhookTypesAre DEF WebhookInv

LEMMA WebhookKeeps == ASSUME WebhookInv, [WebhookNext]_webhookVars PROVE WebhookInv'
<1>1. CASE WebhookClock \/ CreateWebhook \/ DeleteWebhook
  BY <1>1, ClockOrHook
<1>2. CASE FinishSession
  BY <1>2, FinishSessionKeeps
<1>3. CASE ProcessDies
  BY <1>3, DiesKeeps
<1>4. CASE Materialise
  BY <1>4, MaterialiseKeeps
<1>5. ASSUME NEW c \in Chains, FanOut(c) \/ Deliver(c) PROVE WebhookInv'
  BY <1>5, FanOutKeeps, DeliverKeeps
<1>6. ASSUME NEW d \in Drains, DeliverOnce(d) \/ FinishDelivery(d) \/ DrainDies(d) PROVE WebhookInv'
  BY <1>6, DeliverOnceKeeps, FinishDeliveryKeeps, DrainDiesKeeps
<1>7. ASSUME NEW d \in Drains, NEW e \in Followed, TakeDelivery(d, e) PROVE WebhookInv'
  BY <1>7, TakeKeeps, FollowedAssumption
<1>8. CASE UNCHANGED webhookVars
  BY <1>8, WebhookStutter
<1> QED
  BY <1>1, <1>2, <1>3, <1>4, <1>5, <1>6, <1>7, <1>8 DEF WebhookNext, Chains

LEMMA WebhookInvHolds == WebhookSpec => []WebhookInv
BY WebhookStarts, WebhookKeeps, PTL DEF WebhookSpec

\* The outbox is sound: whatever instances take, send, report late or leave
\* undone, draining the session again finds the deliveries it would write, and
\* a record that waits for nobody has attempts left of its budget.
THEOREM OutboxSound == WebhookSpec => []OutboxIsSound
<1>1. ASSUME WebhookInv PROVE OutboxIsSound
  <2>1. RedrainAgrees
    BY <1>1, ExpectedIs DEF WebhookInv, RecordFits, RedrainAgrees, SameImmutableDelivery
  <2>2. BudgetEnds
    BY <1>1 DEF WebhookInv, RecordFits, BudgetEnds
  <2> QED
    BY <1>1, <2>1, <2>2 DEF WebhookInv, OutboxIsSound
<1> QED
  BY <1>1, WebhookInvHolds, PTL

\* A finished delivery stays as it is: no drain of the session, no claim and
\* no late report touches it.
THEOREM DeliveriesStayFinished == WebhookSpec => FinishedIsFinal
<1> DEFINE Kept == \A e \in Events : Finished(wOut[e]) => wOut'[e] = wOut[e]
<1>1. ASSUME WebhookInv, [WebhookNext]_webhookVars PROVE Kept
  <2>0. WebhookTypes
    BY <1>1, WebhookInvIs
  <2>1. CASE wOut' = wOut
    BY <2>1
  <2>2. CASE Materialise
    <3> SUFFICES ASSUME NEW e \in Events, Finished(wOut[e]) PROVE wOut'[e] = wOut[e]
      OBVIOUS
    <3>1. wOut[e].st # "none"
      BY DEF Finished
    <3>2. wOut'[e] = IF Contains(TerminalCrawlEvents, e) THEN DrainedRecord(wOut[e]) ELSE wOut[e]
      BY <2>2 DEF Materialise
    <3> QED
      BY <3>1, <3>2 DEF DrainedRecord
  <2>3. ASSUME NEW d \in Drains, NEW f \in Events, TakeDelivery(d, f) PROVE Kept
    <3>1. wOut[f].st = "pending" /\ \A e \in Events : e # f => wOut'[e] = wOut[e]
      BY <2>0, <2>3 DEF TakeDelivery, WebhookTypes
    <3> QED
      BY <3>1 DEF Finished
  <2>4. ASSUME NEW d \in Drains, FinishDelivery(d), wOut' # wOut PROVE Kept
    <3>1. PICK f \in Events, st \in {"pending", "delivered", "permanent"} :
            /\ wOut[f].st = "pending"
            /\ wOut' = [wOut EXCEPT ![f] = [wOut[f] EXCEPT !.st = st, !.until = 0, !.secret = st = "pending"]]
      BY <2>0, <2>4, FinishIs
    <3>2. \A e \in Events : e # f => wOut'[e] = wOut[e]
      BY <2>0, <3>1 DEF WebhookTypes
    <3> QED
      BY <3>1, <3>2 DEF Finished
  <2>5. \/ wOut' = wOut \/ Materialise
        \/ \E d \in Drains : FinishDelivery(d) \/ \E f \in Followed : TakeDelivery(d, f)
    BY <1>1 DEF WebhookNext, webhookVars, WebhookClock, CreateWebhook, DeleteWebhook, FinishSession,
       ProcessDies,
                FanOut, Deliver, DeliverOnce, DrainDies
  <2> HIDE DEF Kept
  <2> QED
    BY <2>1, <2>2, <2>3, <2>4, <2>5, FollowedAssumption
<1> QED
  BY <1>1, WebhookInvHolds, PTL DEF WebhookSpec, FinishedIsFinal

\* The fan-out in process stops: no event is posted more often than the
\* attempts allow, and a refusal ends the attempts at it.
THEOREM FanOutEnds == WebhookSpec => FanOutStops
<1> DEFINE Stops == \A c \in DOMAIN wChain : wChain[c].attempt > 0 /\ wRecv' # wRecv /\ wChain'[c] # wChain[c]
                      => LET e == Head(wChain[c].left) IN
                         /\ wRecv'[e].posts <= MaxAttempts
                         /\ wRecv'[e].refused => wChain'[c].attempt = 0
<1>1. ASSUME WebhookInv, [WebhookNext]_webhookVars PROVE Stops
  <2>0. WebhookTypes
    BY <1>1, WebhookInvIs
  <2> SUFFICES ASSUME NEW c \in Chains, wChain[c].attempt > 0, wRecv' # wRecv, wChain'[c] # wChain[c]
               PROVE  LET e == Head(wChain[c].left) IN
                      wRecv'[e].posts <= MaxAttempts /\ (wRecv'[e].refused => wChain'[c].attempt = 0)
    BY <2>0 DEF WebhookTypes
  <2>1. \E d \in Chains : Deliver(d)
    BY <1>1 DEF WebhookNext, webhookVars, WebhookClock, CreateWebhook, DeleteWebhook, FinishSession,
       ProcessDies,
                Materialise, FanOut, TakeDelivery, DeliverOnce, FinishDelivery, DrainDies, Chains
  <2>2. Deliver(c)
    BY <1>1, <2>1, DeliverIs
  <2> DEFINE s == wChain[c].left
             n == wChain[c].attempt
  <2>3. /\ n \in 1..MaxAttempts /\ s # <<>> /\ wRecv'[s[1]].posts = n /\ s \in Seq(Events)
        /\ wChain'[c].attempt = 0 \/ ~wRecv'[s[1]].refused
    BY <1>1, <2>0, <2>2, DeliverIs, WebhookFields
  <2>4. Head(s) = s[1]
    <3> HIDE DEF s
    <3> QED
      BY <2>3, TailIs
  <2>5. wRecv'[Head(s)].posts <= MaxAttempts /\ (wRecv'[Head(s)].refused => wChain'[c].attempt = 0)
    <3> HIDE DEF s, n
    <3> QED
      BY <2>3, <2>4, WebhookNumbers
  <2> QED
    BY <2>5
<1> QED
  BY <1>1, WebhookInvHolds, PTL DEF WebhookSpec, FanOutStops

-----------------------------------------------------------------------------
\* What a durable record says was decided stays decided, whichever of the
\* records it is: a step of the deployment is a step of one of them, and
\* leaves the others alone.
THEOREM DurableRecordsStand == Spec => RecordsStand
<1>1. Init => JobInit /\ BrokerInit /\ WebhookInit
  BY DEF Init
<1>2. [Next]_vars => [JobNext]_jobVars
  BY DEF Next, vars
<1>3. [Next]_vars => [BrokerNext]_brokerVars
  BY DEF Next, vars
<1>4. [Next]_vars => [WebhookNext]_webhookVars
  BY DEF Next, vars
<1>5. Spec => JobSpec /\ BrokerSpec /\ WebhookSpec
  BY <1>1, <1>2, <1>3, <1>4, PTL DEF Spec, JobSpec, BrokerSpec, WebhookSpec
<1> QED
  BY <1>5, OneLoginOnly, OutcomeOnce, DeliveriesStayFinished, FanOutEnds DEF RecordsStand
=============================================================================
