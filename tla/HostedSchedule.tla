--------------------------- MODULE HostedSchedule ---------------------------
(***************************************************************************)
(* Scheduled crawls of a hosted deployment: one connection, its durable    *)
(* due record, and the deferred callbacks that wake the service up.  A     *)
(* callback is delivered at least once, by several instances at a time;    *)
(* any of them may die between two steps.                                  *)
(*                                                                         *)
(* The verdicts over the due record are the repository's; the store that   *)
(* applies them in a transaction, and the queue, are external.             *)
(***************************************************************************)
EXTENDS Naturals, FiniteSets

CONSTANTS Callers,     \* callbacks being handled at the same time
          MaxRevision, \* bound: edits of the schedule
          MaxDue,      \* bound: the clock and the occurrences
          Horizon      \* how far ahead a callback may be queued

ASSUME HostedScheduleAssumption == {MaxRevision, MaxDue} \subseteq Nat /\ Horizon \in Nat \ {0}

VARIABLES
  hNow,
  hConn,    \* the connection: revision, enabled, deleted, and whether a crawl may run
  hDue,     \* the due record
  hTasks,   \* callbacks in the queue
  hIds,     \* callbacks ever queued: enqueuing one again does nothing
  hCall,    \* the callbacks being handled
  hRuns     \* crawls started, by revision and occurrence

hostedScheduleVars == <<hNow, hConn, hDue, hTasks, hIds, hCall, hRuns>>

Due == 0..(MaxDue + 2)
NoOccurrence == 0
Task == [rev : 0..MaxRevision, due : Due, seq : 0..MaxDue, notBefore : Due]
NoTask == [rev |-> 0, due |-> 0, seq |-> 0, notBefore |-> 0]
IdOf(t) == <<t.rev, t.due, t.seq>>
IdleCall == [pc |-> "idle", task |-> NoTask, next |-> NoOccurrence]

HostedScheduleTypeOK ==
  /\ hNow \in 0..MaxDue
  /\ hConn \in [rev : 0..MaxRevision, enabled : BOOLEAN, deleted : BOOLEAN, healthy : BOOLEAN]
  /\ hDue \in [rev : 0..MaxRevision, next : Due, armed : BOOLEAN, pending : Due, should : BOOLEAN]
  /\ hTasks \subseteq Task
  /\ hIds \subseteq (0..MaxRevision) \X Due \X (0..MaxDue)
  /\ hCall \in [Callers -> [pc : {"idle", "due", "arm", "mark", "consume", "run"}, task : Task, next : Due]]
  /\ hRuns \in [(0..MaxRevision) \X Due -> 0..2]

HostedScheduleInit ==
  /\ hNow = 0
  /\ hConn = [rev |-> 0, enabled |-> TRUE, deleted |-> FALSE, healthy |-> TRUE]
  /\ hDue = [rev |-> 0, next |-> 1, armed |-> FALSE, pending |-> NoOccurrence, should |-> FALSE]
  /\ hTasks = {} /\ hIds = {}
  /\ hCall = [c \in Callers |-> IdleCall]
  /\ hRuns = [x \in (0..MaxRevision) \X Due |-> 0]

Least(a, b) == IF a < b THEN a ELSE b

\* enqueueHostedScheduledConnection: a task wakes at most a horizon ahead.
EnqueueHostedScheduledConnection(due, rev, seq) ==
  LET t == [rev |-> rev, due |-> due, seq |-> seq, notBefore |-> Least(due, hNow + Horizon)] IN
  /\ hTasks' = IF IdOf(t) \in hIds THEN hTasks ELSE hTasks \cup {t}
  /\ hIds' = hIds \cup {IdOf(t)}

EndCallback(c) == hCall' = [hCall EXCEPT ![c] = IdleCall]
Acknowledge(c) == EndCallback(c) /\ hTasks' = hTasks \ {hCall[c].task}

----------------------------------------------------------------------------

HostedClockTick ==
  /\ hNow < MaxDue
  /\ hNow' = hNow + 1
  /\ UNCHANGED <<hConn, hDue, hTasks, hIds, hCall, hRuns>>

\* An edit, a pause or a deletion.  An enabled schedule gets a new, unarmed record.
EditSchedule ==
  /\ hConn.rev < MaxRevision /\ ~hConn.deleted
  /\ \E enabled, deleted \in BOOLEAN :
       hConn' = [hConn EXCEPT !.rev = @ + 1, !.enabled = enabled, !.deleted = deleted]
  /\ hDue' = [rev |-> hConn.rev + 1, next |-> hNow + 1, armed |-> FALSE, pending |-> NoOccurrence, should |-> FALSE]
  /\ UNCHANGED <<hNow, hTasks, hIds, hCall, hRuns>>

\* Crawls fail until the backoff applies, or succeed again.
HealthChanges ==
  /\ hConn' = [hConn EXCEPT !.healthy = ~@]
  /\ UNCHANGED <<hNow, hDue, hTasks, hIds, hCall, hRuns>>

\* ensureScheduledConnections: on the tick and in the repair sweep, for a record
\* that is not armed.  The task is queued and the record marked.
EnsureScheduledConnections ==
  /\ hConn.enabled /\ ~hConn.deleted /\ hDue.rev = hConn.rev /\ ~hDue.armed
  /\ EnqueueHostedScheduledConnection(hDue.next, hDue.rev, 0)
  /\ hDue' = [hDue EXCEPT !.armed = TRUE]
  /\ UNCHANGED <<hNow, hConn, hCall, hRuns>>

----------------------------------------------------------------------------

\* planNextOccurrence: the cron's next time, or a backoff that runs nothing.
PlanNextOccurrence == [next |-> hNow + (IF hConn.healthy THEN 1 ELSE 2), should |-> hConn.healthy]

ClaimStale(t) == hConn.deleted \/ ~hConn.enabled \/ hConn.rev # t.rev \/ hDue.rev # t.rev
SuccessorArmed == hDue.armed

\* decideScheduleAdvance
DecideScheduleAdvance(t) ==
  IF ClaimStale(t) THEN "stale"
  ELSE IF hDue.pending = t.due THEN IF SuccessorArmed THEN "finished" ELSE "pending"
  ELSE IF hDue.pending # NoOccurrence \/ ~hDue.armed \/ hDue.next # t.due THEN "stale"
  ELSE "advanced"

ConsumesMarkerStillThere(t) == ~ClaimStale(t)
\* decideScheduleConsume, up to whether the occurrence only moves the schedule.
ConsumesMarker(t) == ~ClaimStale(t) /\ SuccessorArmed /\ hDue.pending = t.due

----------------------------------------------------------------------------
(* The callback's handler.                                                 *)

\* scheduledConnectionState: stale is acknowledged, pending answered 503, a
\* callback before its time queues the next leg of the wait.
DeliverCallback(c, t) ==
  LET verdict == DecideScheduleAdvance(t)
      held == [hCall EXCEPT ![c] = [pc |-> "due", task |-> t, next |-> NoOccurrence]]
  IN
  /\ hCall[c].pc = "idle" /\ t \in hTasks /\ t.notBefore <= hNow
  /\ \/ verdict = "stale" /\ hTasks' = hTasks \ {t} /\ UNCHANGED <<hIds, hCall>>
     \/ verdict = "pending" /\ UNCHANGED <<hTasks, hIds, hCall>>
     \/ /\ verdict \in {"advanced", "finished"} /\ hNow < t.due /\ UNCHANGED hCall
        /\ LET u == [t EXCEPT !.seq = @ + 1, !.notBefore = Least(t.due, hNow + Horizon)] IN
           /\ hTasks' = (hTasks \ {t}) \cup (IF IdOf(u) \in hIds THEN {} ELSE {u})
           /\ hIds' = hIds \cup {IdOf(u)}
     \/ verdict \in {"advanced", "finished"} /\ hNow >= t.due /\ hCall' = held /\ UNCHANGED <<hTasks, hIds>>
  /\ UNCHANGED <<hNow, hConn, hDue, hRuns>>

\* advanceScheduledConnection: the transaction that moves the schedule on.
AdvanceSchedule(c) ==
  LET t == hCall[c].task
      verdict == DecideScheduleAdvance(t)
  IN
  /\ hCall[c].pc = "due"
  /\ \/ verdict = "stale" /\ Acknowledge(c) /\ UNCHANGED hDue
     \/ verdict = "pending" /\ EndCallback(c) /\ UNCHANGED <<hTasks, hDue>>
     \/ verdict = "finished" /\ hCall' = [hCall EXCEPT ![c].pc = "consume"] /\ UNCHANGED <<hTasks, hDue>>
     \/ /\ verdict = "advanced"
        /\ hDue' = [hDue EXCEPT !.next = PlanNextOccurrence.next, !.armed = FALSE, !.pending = t.due,
                                !.should = PlanNextOccurrence.should]
        /\ hCall' = [hCall EXCEPT ![c].pc = "arm", ![c].next = PlanNextOccurrence.next]
        /\ UNCHANGED hTasks
  /\ UNCHANGED <<hNow, hConn, hIds, hRuns>>

ArmSuccessor(c) ==
  /\ hCall[c].pc = "arm"
  /\ EnqueueHostedScheduledConnection(hCall[c].next, hCall[c].task.rev, 0)
  /\ hCall' = [hCall EXCEPT ![c].pc = "mark"]
  /\ UNCHANGED <<hNow, hConn, hDue, hRuns>>

\* The mark is for the generation this callback left unarmed.
MarkArmed(c) ==
  LET mine == hDue.rev = hCall[c].task.rev /\ hDue.pending = hCall[c].task.due IN
  /\ hCall[c].pc = "mark"
  /\ hDue' = IF mine THEN [hDue EXCEPT !.armed = TRUE] ELSE hDue
  /\ hCall' = [hCall EXCEPT ![c].pc = "consume"]
  /\ UNCHANGED <<hNow, hConn, hTasks, hIds, hRuns>>

ConsumeMarker(c) ==
  LET t == hCall[c].task IN
  /\ hCall[c].pc = "consume"
  /\ IF ConsumesMarker(t)
     THEN /\ hDue' = [hDue EXCEPT !.pending = NoOccurrence]
          /\ IF hDue.should
             THEN hCall' = [hCall EXCEPT ![c].pc = "run"] /\ UNCHANGED hTasks
             ELSE Acknowledge(c)
     ELSE Acknowledge(c) /\ UNCHANGED hDue
  /\ UNCHANGED <<hNow, hConn, hIds, hRuns>>

\* runCrawl, and the acknowledgement once the engine has accepted.
RunScheduled(c) ==
  LET t == hCall[c].task IN
  /\ hCall[c].pc = "run"
  /\ hRuns' = [hRuns EXCEPT ![<<t.rev, t.due>>] = IF @ < 2 THEN @ + 1 ELSE @]
  /\ Acknowledge(c)
  /\ UNCHANGED <<hNow, hConn, hDue, hIds>>

\* The instance dies, or the queue or the store refuses: an error answer, and
\* the callback is delivered again.
CallbackFails(c) ==
  /\ hCall[c].pc # "idle"
  /\ EndCallback(c)
  /\ UNCHANGED <<hNow, hConn, hDue, hTasks, hIds, hRuns>>

HostedScheduleNext ==
  \/ HostedClockTick \/ EditSchedule \/ HealthChanges \/ EnsureScheduledConnections
  \/ \E c \in Callers :
       \/ \E t \in hTasks : DeliverCallback(c, t)
       \/ AdvanceSchedule(c) \/ ArmSuccessor(c) \/ MarkArmed(c) \/ ConsumeMarker(c)
       \/ RunScheduled(c) \/ CallbackFails(c)

HostedScheduleSpec == HostedScheduleInit /\ [][HostedScheduleNext]_hostedScheduleVars

----------------------------------------------------------------------------

\* However often a callback is delivered, and to however many instances at
\* once, its occurrence starts one crawl (decideScheduleConsume).
OccurrenceRunsOnce == \A x \in DOMAIN hRuns : hRuns[x] <= 1

\* The successor is in the queue before its predecessor starts a crawl, so a
\* crash after the start cannot end the chain (decideScheduleAdvance).
SuccessorBeforeRun ==
  \A c \in Callers :
    hCall[c].pc = "run" /\ hConn.rev = hCall[c].task.rev => \E id \in hIds : id[1] = hConn.rev /\ id[2] > hCall[c].task.due

\* Each occurrence runs at most once and only behind its successor.
ChainIsSafe == HostedScheduleTypeOK /\ OccurrenceRunsOnce /\ SuccessorBeforeRun
=============================================================================
