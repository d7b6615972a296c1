------------------------- MODULE CrawlSessionProofs --------------------------
(* Theorems about CrawlSession, for every set of sessions and of faults, and *)
(* its refinement of SessionRow.                                             *)
EXTENDS CrawlSession, TLAPS

\* One session at most retains the lock (sessions_active_connection_uq).
OneLock ==
  \A s, t \in Sessions : status[s] \in Locked /\ status[t] \in Locked => s = t

\* What schedulerTick carries from its orphan select to the promotion.
TodoInv ==
  /\ \A s, t \in todo : s = t
  /\ tick \notin {"promote", "complete"} => todo = {}
  /\ \A s \in todo : s \in staged /\ (tick = "complete" => s \in promoted)

\* Where a staged or promoted success of a session can be.
SessionData(s) ==
  /\ status[s] = "none" => /\ done[s] = "none" /\ run[s] = "idle"
                           /\ s \notin staged \cup promoted
  /\ done[s] = "success" => s \in staged /\ status[s] # "purged"
  /\ s \in staged \cup promoted /\ status[s] = "active" => done[s] = "success"
  /\ run[s] \in {"promote", "complete"} => s \in staged
  /\ run[s] = "complete" => s \in promoted

\* It holds under every fault.
DataInv == OneLock /\ TodoInv /\ \A s \in Sessions : SessionData(s)

\* Who may still be driving a browser, and who has let go of it.  It holds as
\* long as answers are not lost and queries do not fail.
FenceInv ==
  \A s \in Sessions :
    /\ exec[s] = "running" => status[s] \in Locked
    /\ exec[s] # "idle" => wire[s] = "accepted"
    /\ run[s] \in {"idle", "gate"} => wire[s] = "none"
    /\ run[s] = "idle" => status[s] = "none"
    /\ run[s] \in {"finish", "close"} /\ status[s] = "active"
         => wire[s] # "sent" /\ exec[s] = "idle"
    /\ run[s] \in {"fence", "help"} => status[s] # "active"
    /\ done[s] = "success" => exec[s] = "over"
    /\ run[s] \in {"promote", "complete"} => done[s] = "success"
    /\ s \in todo => done[s] = "success"
    /\ lease[s] # "held" => /\ wire[s] # "sent"
                            /\ exec[s] \notin {"preflight", "running"}
                            /\ run[s] \notin {"idle", "gate"}

\* The steps of runCrawl, of a cancellation and of the engine keep the types.
LEMMA RunTypeOK ==
  ASSUME TypeOK, NEW s \in Sessions, RunCrawl(s)
  PROVE  TypeOK'
<1> USE DEF TypeOK, Locked, Terminal, RunSteps, InTry, rowVars, tickVars,
            engineVars, RunStep, RunGoto
<1>1. CASE RunStart(s)
  BY <1>1 DEF RunStart, CreateCrawlSession
<1>2. CASE RunGate(s)
  BY <1>2 DEF RunGate
<1>3. CASE RunAck(s)
  BY <1>3 DEF RunAck
<1>4. CASE RunNack(s)
  BY <1>4 DEF RunNack
<1>5. CASE RunObserve(s)
  BY <1>5 DEF RunObserve
<1>6. CASE RunDeadline(s)
  BY <1>6 DEF RunDeadline
<1>7. CASE RunCancelTimedOut(s)
  BY <1>7 DEF RunCancelTimedOut
<1>8. CASE RunFenced(s)
  BY <1>8 DEF RunFenced, FinalizeSessionFailureAfterFence,
              FinalizeSessionCancellation, Move
<1>9. CASE RunFenceFails(s)
  BY <1>9 DEF RunFenceFails
<1>10. CASE RunThrows(s)
  BY <1>10 DEF RunThrows
<1>11. CASE RunFinish(s)
  BY <1>11 DEF RunFinish, MarkSessionTerminal, Move
<1>12. CASE RunPromote(s)
  BY <1>12 DEF RunPromote, StoreCrawlResults
<1>13. CASE RunComplete(s)
  BY <1>13 DEF RunComplete, MarkSessionTerminal, Move
<1>14. QED
  BY <1>1, <1>2, <1>3, <1>4, <1>5, <1>6, <1>7, <1>8, <1>9, <1>10, <1>11,
     <1>12, <1>13 DEF RunCrawl

LEMMA CancelTypeOK ==
  ASSUME TypeOK, NEW s \in Sessions, CancelSession(s)
  PROVE  TypeOK'
<1> USE DEF TypeOK, Locked, Terminal, rowVars, tickVars, engineVars
<1>1. CASE CancelRequest(s)
  BY <1>1 DEF CancelRequest
<1>2. CASE CancelFenced(s)
  BY <1>2 DEF CancelFenced, FinalizeSessionCancellation, Move
<1>3. CASE CancelFenceFails(s)
  BY <1>3 DEF CancelFenceFails
<1>4. CASE RevokeDevice(s)
  BY <1>4 DEF RevokeDevice
<1>5. QED
  BY <1>1, <1>2, <1>3, <1>4 DEF CancelSession

LEMMA EngineTypeOK ==
  ASSUME TypeOK, NEW s \in Sessions, Engine(s)
  PROVE  TypeOK'
<1> USE DEF TypeOK, Locked, Terminal, ExecSteps, rowVars, tickVars,
            controlVars, EngineGoto
<1>1. CASE EngineAccept(s)
  BY <1>1 DEF EngineAccept
<1>2. CASE EngineRefuse(s)
  BY <1>2 DEF EngineRefuse
<1>3. CASE EnginePreflight(s)
  BY <1>3 DEF EnginePreflight
<1>4. CASE EngineLoopEnds(s)
  BY <1>4 DEF EngineLoopEnds
<1>5. CASE EngineClose(s)
  BY <1>5 DEF EngineClose
<1>6. CASE EngineCloseFails(s)
  BY <1>6 DEF EngineCloseFails
<1>7. CASE EngineComplete(s)
  BY <1>7 DEF EngineComplete, CompleteSuccess, CompleteFailure,
              CompleteCancelled, CompleteRejected
<1>8. CASE EngineCompleteThrows(s)
  BY <1>8 DEF EngineCompleteThrows
<1>9. CASE EngineFence(s)
  BY <1>9 DEF EngineFence
<1>10. QED
  BY <1>1, <1>2, <1>3, <1>4, <1>5, <1>6, <1>7, <1>8, <1>9 DEF Engine

LEMMA TickTypeOK ==
  ASSUME TypeOK, Tick \/ TickThrows \/ EngineCrash \/ ControlPlaneCrash
  PROVE  TypeOK'
<1> USE DEF TypeOK, Locked, Terminal, RunSteps, ExecSteps, TickSteps, rowVars,
            tickVars, engineVars, controlVars, TickGoto
<1>1. CASE TickReap
  BY <1>1 DEF TickReap
<1>2. ASSUME NEW s \in Sessions, TickReapRaces(s) PROVE TypeOK'
  BY <1>2 DEF TickReapRaces
<1>3. CASE TickJobs
  BY <1>3 DEF TickJobs
<1>4. CASE TickOrphans
  BY <1>4 DEF TickOrphans
<1>5. CASE TickPromote
  BY <1>5 DEF TickPromote, StoreCrawlResults
<1>6. CASE TickComplete
  BY <1>6 DEF TickComplete, MarkSessionTerminal, Move
<1>7. ASSUME NEW S \in SUBSET Sessions, TickSweep(S) PROVE TypeOK'
  BY <1>7 DEF TickSweep
<1>8. CASE TickThrows
  BY <1>8 DEF TickThrows
<1>9. CASE EngineCrash
  BY <1>9 DEF EngineCrash
<1>10. CASE ControlPlaneCrash
  BY <1>10 DEF ControlPlaneCrash
<1>11. QED
  BY <1>1, <1>2, <1>3, <1>4, <1>5, <1>6, <1>7, <1>8, <1>9, <1>10 DEF Tick

LEMMA NextTypeOK ==
  ASSUME TypeOK, [Next]_vars
  PROVE  TypeOK'
<1>1. CASE UNCHANGED vars
  BY <1>1 DEF TypeOK, vars, rowVars, tickVars, engineVars
<1>2. ASSUME NEW s \in Sessions, LeaseLapses(s) PROVE TypeOK'
  BY <1>2 DEF LeaseLapses, TypeOK, rowVars, tickVars, engineVars
<1>3. QED
  BY <1>1, <1>2, RunTypeOK, CancelTypeOK, EngineTypeOK, TickTypeOK DEF Next

\* The types of every variable hold in every reachable state.
THEOREM TypeCorrect == Spec => []TypeOK
<1>1. Init => TypeOK
  BY DEF Init, TypeOK, Locked, Terminal, RunSteps, ExecSteps, TickSteps
<1>2. QED
  BY <1>1, NextTypeOK, PTL DEF Spec

\* Every step keeps DataInv.
LEMMA NextDataInv ==
  ASSUME TypeOK, DataInv, [Next]_vars
  PROVE  DataInv'
<1> USE DEF TypeOK, DataInv, TodoInv, SessionData, OneLock, Locked, rowVars, tickVars, engineVars, controlVars
<1>1. ASSUME NEW s \in Sessions, RunStart(s) PROVE DataInv'
  BY <1>1 DEF RunStart, RunStep, RunGoto, CreateCrawlSession, LockHeld
<1>2. ASSUME NEW s \in Sessions, RunGate(s) PROVE DataInv'
  BY <1>2 DEF RunGate, RunStep, RunGoto
<1>3. ASSUME NEW s \in Sessions, RunAck(s) PROVE DataInv'
  BY <1>3 DEF RunAck, RunStep, RunGoto
<1>4. ASSUME NEW s \in Sessions, RunNack(s) PROVE DataInv'
  BY <1>4 DEF RunNack, RunStep, RunGoto
<1>5. ASSUME NEW s \in Sessions, RunObserve(s) PROVE DataInv'
  BY <1>5 DEF RunObserve, RunStep, RunGoto, Outcome, Terminal
<1>6. ASSUME NEW s \in Sessions, RunDeadline(s) PROVE DataInv'
  BY <1>6 DEF RunDeadline, RunStep, RunGoto
<1>7. ASSUME NEW s \in Sessions, RunCancelTimedOut(s) PROVE DataInv'
  BY <1>7 DEF RunCancelTimedOut, RunStep, RunGoto, MayCancel
<1>8. ASSUME NEW s \in Sessions, RunFenced(s) PROVE DataInv'
  BY <1>8 DEF RunFenced, RunStep, RunGoto, FenceAcknowledged,
     FinalizeSessionFailureAfterFence, FinalizeSessionCancellation, Move
<1>9. ASSUME NEW s \in Sessions, RunFenceFails(s) PROVE DataInv'
  BY <1>9 DEF RunFenceFails, RunStep, RunGoto
<1>10. ASSUME NEW s \in Sessions, RunThrows(s) PROVE DataInv'
  <2>1. /\ run' = [run EXCEPT ![s] = "close"] \/ run' = [run EXCEPT ![s] = "end"]
        /\ UNCHANGED <<rowVars, lease, promoted, cancel, tickVars, engineVars>>
    BY <1>10 DEF RunThrows, RunStep, RunGoto
  <2>2. status[s] # "none"
    BY <1>10 DEF RunThrows, RunStep, InTry
  <2>3. QED
    BY <2>1, <2>2
<1>11. ASSUME NEW s \in Sessions, RunFinish(s) PROVE DataInv'
  BY <1>11 DEF RunFinish, RunStep, RunGoto, MarkSessionTerminal, Move
<1>12. ASSUME NEW s \in Sessions, RunPromote(s) PROVE DataInv'
  BY <1>12 DEF RunPromote, RunStep, RunGoto, StoreCrawlResults
<1>13. ASSUME NEW s \in Sessions, RunComplete(s) PROVE DataInv'
  BY <1>13 DEF RunComplete, RunStep, RunGoto, MarkSessionTerminal, Move
<1>14. ASSUME NEW s \in Sessions, CancelRequest(s) PROVE DataInv'
  BY <1>14 DEF CancelRequest, MayCancel
<1>15. ASSUME NEW s \in Sessions, CancelFenced(s) PROVE DataInv'
  BY <1>15 DEF CancelFenced, FenceAcknowledged, FinalizeSessionCancellation,
     Move
<1>16. ASSUME NEW s \in Sessions, CancelFenceFails(s) PROVE DataInv'
  BY <1>16 DEF CancelFenceFails
<1>17. ASSUME NEW s \in Sessions, RevokeDevice(s) PROVE DataInv'
  BY <1>17 DEF RevokeDevice
<1>18. ASSUME NEW s \in Sessions, EngineAccept(s) PROVE DataInv'
  BY <1>18 DEF EngineAccept, EngineGoto
<1>19. ASSUME NEW s \in Sessions, EngineRefuse(s) PROVE DataInv'
  BY <1>19 DEF EngineRefuse, EngineGoto
<1>20. ASSUME NEW s \in Sessions, EnginePreflight(s) PROVE DataInv'
  BY <1>20 DEF EnginePreflight, EngineGoto
<1>21. ASSUME NEW s \in Sessions, EngineLoopEnds(s) PROVE DataInv'
  BY <1>21 DEF EngineLoopEnds, EngineGoto
<1>22. ASSUME NEW s \in Sessions, EngineClose(s) PROVE DataInv'
  BY <1>22 DEF EngineClose, EngineGoto
<1>23. ASSUME NEW s \in Sessions, EngineCloseFails(s) PROVE DataInv'
  BY <1>23 DEF EngineCloseFails, EngineGoto
<1>24. ASSUME NEW s \in Sessions, EngineComplete(s) PROVE DataInv'
  <2>1. CASE CompleteSuccess(s)
    <3>1. /\ \A t \in staged' : t \in staged \/ t = s
          /\ \A t \in staged : t \in staged'
          /\ s \in staged' /\ status[s] = "active"
          /\ \A t \in Sessions \ {s} :
               status'[t] = status[t] /\ done'[t] = done[t]
          /\ UNCHANGED <<promoted, run, tick, todo>>
      BY <1>24, <2>1 DEF CompleteSuccess, EngineComplete, EngineGoto
    <3>2. done'[s] = "success" /\ status'[s] = "active"
      BY <1>24, <2>1 DEF CompleteSuccess, EngineComplete, EngineGoto
    <3>3. OneLock'
      BY <3>1, <3>2
    <3>4. ASSUME NEW t \in Sessions PROVE SessionData(t)'
      <4>1. CASE t = s
        BY <3>1, <3>2, <4>1
      <4>2. CASE t # s
        BY <3>1, <4>2
      <4>3. QED
        BY <4>1, <4>2
    <3>5. TodoInv'
      BY <3>1
    <3>6. QED
      BY <3>3, <3>4, <3>5
  <2>2. CASE CompleteFailure(s)
    <3>1. /\ \A t \in staged' : t \in staged \/ t = s
          /\ \A t \in staged : t \in staged'
          /\ s \in staged' /\ status[s] = "active"
          /\ \A t \in Sessions \ {s} :
               status'[t] = status[t] /\ done'[t] = done[t]
          /\ UNCHANGED <<promoted, run, tick, todo>>
      BY <1>24, <2>2 DEF CompleteFailure, EngineComplete, EngineGoto
    <3>2. done'[s] = "failure" /\ status'[s] = "failed"
      BY <1>24, <2>2 DEF CompleteFailure, EngineComplete, EngineGoto
    <3>3. OneLock'
      BY <3>1, <3>2
    <3>4. ASSUME NEW t \in Sessions PROVE SessionData(t)'
      <4>1. CASE t = s
        BY <3>1, <3>2, <4>1
      <4>2. CASE t # s
        BY <3>1, <4>2
      <4>3. QED
        BY <4>1, <4>2
    <3>5. TodoInv'
      BY <3>1
    <3>6. QED
      BY <3>3, <3>4, <3>5
  <2>3. CASE CompleteCancelled(s)
    BY <1>24, <2>3 DEF CompleteCancelled, EngineComplete, EngineGoto
  <2>4. CASE CompleteRejected(s)
    BY <1>24, <2>4 DEF CompleteRejected, EngineComplete, EngineGoto
  <2>5. QED
    BY <1>24, <2>1, <2>2, <2>3, <2>4 DEF EngineComplete
<1>25. ASSUME NEW s \in Sessions, EngineCompleteThrows(s) PROVE DataInv'
  BY <1>25 DEF EngineCompleteThrows, EngineGoto
<1>26. ASSUME NEW s \in Sessions, EngineFence(s) PROVE DataInv'
  BY <1>26 DEF EngineFence, EngineGoto
<1>27. ASSUME NEW s \in Sessions, LeaseLapses(s) PROVE DataInv'
  BY <1>27 DEF LeaseLapses
<1>28. CASE TickReap
  BY <1>28 DEF TickReap, TickGoto, Reapable
<1>29. CASE TickJobs
  BY <1>29 DEF TickJobs, TickGoto
<1>30. CASE TickOrphans
  BY <1>30 DEF TickOrphans, TickGoto, Orphaned
<1>31. CASE TickPromote
  BY <1>31 DEF TickPromote, TickGoto, StoreCrawlResults
<1>32. CASE TickComplete
  BY <1>32 DEF TickComplete, TickGoto, MarkSessionTerminal, Move
<1>33. CASE TickThrows
  BY <1>33 DEF TickThrows, TickGoto
<1>34. CASE EngineCrash
  BY <1>34 DEF EngineCrash, TickGoto
<1>35. CASE ControlPlaneCrash
  BY <1>35 DEF ControlPlaneCrash, TickGoto
<1>36. ASSUME NEW s \in Sessions, TickReapRaces(s) PROVE DataInv'
  BY <1>36 DEF TickReapRaces, Reapable, TickGoto
<1>37. ASSUME NEW S \in SUBSET Sessions, TickSweep(S) PROVE DataInv'
  BY <1>37 DEF TickSweep, Expired, Terminal, TickGoto
<1>38. CASE UNCHANGED vars
  BY <1>38 DEF vars
<1>39. QED
  BY <1>1, <1>2, <1>3, <1>4, <1>5, <1>6, <1>7, <1>8, <1>9, <1>10, <1>11,
     <1>12, <1>13, <1>14, <1>15, <1>16, <1>17, <1>18, <1>19, <1>20, <1>21,
     <1>22, <1>23, <1>24, <1>25, <1>26, <1>27, <1>28, <1>29, <1>30, <1>31,
     <1>32, <1>33, <1>34, <1>35, <1>36, <1>37, <1>38 DEF Next, RunCrawl,
     CancelSession, Engine, Tick

\* Every step keeps FenceInv when answers arrive and queries succeed.
LEMMA NextFenceInv ==
  ASSUME TypeOK, DataInv, FenceInv,
         "ackLost" \notin Faults, "dbError" \notin Faults,
         [Next]_vars
  PROVE  FenceInv'
<1> USE DEF TypeOK, DataInv, TodoInv, SessionData, FenceInv, OneLock,
     Locked, rowVars, tickVars, engineVars, controlVars
<1>1. ASSUME NEW s \in Sessions, RunStart(s) PROVE FenceInv'
  BY <1>1 DEF RunStart, RunStep, RunGoto, CreateCrawlSession, LockHeld
<1>2. ASSUME NEW s \in Sessions, RunGate(s) PROVE FenceInv'
  BY <1>2 DEF RunGate, RunStep, RunGoto
<1>3. ASSUME NEW s \in Sessions, RunAck(s) PROVE FenceInv'
  BY <1>3 DEF RunAck, RunStep, RunGoto
<1>4. ASSUME NEW s \in Sessions, RunNack(s) PROVE FenceInv'
  BY <1>4 DEF RunNack, RunStep, RunGoto
<1>5. ASSUME NEW s \in Sessions, RunObserve(s) PROVE FenceInv'
  BY <1>5 DEF RunObserve, RunStep, RunGoto, Outcome, Terminal
<1>6. ASSUME NEW s \in Sessions, RunDeadline(s) PROVE FenceInv'
  BY <1>6 DEF RunDeadline, RunStep, RunGoto
<1>7. ASSUME NEW s \in Sessions, RunCancelTimedOut(s) PROVE FenceInv'
  BY <1>7 DEF RunCancelTimedOut, RunStep, RunGoto, MayCancel
<1>8. ASSUME NEW s \in Sessions, RunFenced(s) PROVE FenceInv'
  BY <1>8 DEF RunFenced, RunStep, RunGoto, FenceAcknowledged,
     FinalizeSessionFailureAfterFence, FinalizeSessionCancellation, Move
<1>9. ASSUME NEW s \in Sessions, RunFenceFails(s) PROVE FenceInv'
  BY <1>9 DEF RunFenceFails, RunStep, RunGoto
<1>10. ASSUME NEW s \in Sessions, RunThrows(s) PROVE FenceInv'
  BY <1>10 DEF RunThrows, RunStep, RunGoto
<1>11. ASSUME NEW s \in Sessions, RunFinish(s) PROVE FenceInv'
  BY <1>11 DEF RunFinish, RunStep, RunGoto, MarkSessionTerminal, Move
<1>12. ASSUME NEW s \in Sessions, RunPromote(s) PROVE FenceInv'
  BY <1>12 DEF RunPromote, RunStep, RunGoto, StoreCrawlResults
<1>13. ASSUME NEW s \in Sessions, RunComplete(s) PROVE FenceInv'
  BY <1>13 DEF RunComplete, RunStep, RunGoto, MarkSessionTerminal, Move
<1>14. ASSUME NEW s \in Sessions, CancelRequest(s) PROVE FenceInv'
  BY <1>14 DEF CancelRequest, MayCancel
<1>15. ASSUME NEW s \in Sessions, CancelFenced(s) PROVE FenceInv'
  BY <1>15 DEF CancelFenced, FenceAcknowledged, FinalizeSessionCancellation,
     Move
<1>16. ASSUME NEW s \in Sessions, CancelFenceFails(s) PROVE FenceInv'
  BY <1>16 DEF CancelFenceFails
<1>17. ASSUME NEW s \in Sessions, RevokeDevice(s) PROVE FenceInv'
  BY <1>17 DEF RevokeDevice
<1>18. ASSUME NEW s \in Sessions, EngineAccept(s) PROVE FenceInv'
  BY <1>18 DEF EngineAccept, EngineGoto
<1>19. ASSUME NEW s \in Sessions, EngineRefuse(s) PROVE FenceInv'
  BY <1>19 DEF EngineRefuse, EngineGoto
<1>20. ASSUME NEW s \in Sessions, EnginePreflight(s) PROVE FenceInv'
  BY <1>20 DEF EnginePreflight, EngineGoto
<1>21. ASSUME NEW s \in Sessions, EngineLoopEnds(s) PROVE FenceInv'
  BY <1>21 DEF EngineLoopEnds, EngineGoto
<1>22. ASSUME NEW s \in Sessions, EngineClose(s) PROVE FenceInv'
  BY <1>22 DEF EngineClose, EngineGoto
<1>23. ASSUME NEW s \in Sessions, EngineCloseFails(s) PROVE FenceInv'
  BY <1>23 DEF EngineCloseFails, EngineGoto
<1>24. ASSUME NEW s \in Sessions, EngineComplete(s) PROVE FenceInv'
  BY <1>24 DEF EngineComplete, EngineGoto, CompleteSuccess, CompleteFailure,
     CompleteCancelled, CompleteRejected
<1>25. ASSUME NEW s \in Sessions, EngineCompleteThrows(s) PROVE FenceInv'
  BY <1>25 DEF EngineCompleteThrows, EngineGoto
<1>26. ASSUME NEW s \in Sessions, EngineFence(s) PROVE FenceInv'
  BY <1>26 DEF EngineFence, EngineGoto
<1>27. ASSUME NEW s \in Sessions, LeaseLapses(s) PROVE FenceInv'
  BY <1>27 DEF LeaseLapses
<1>28. CASE TickReap
  BY <1>28 DEF TickReap, TickGoto, Reapable
<1>29. CASE TickJobs
  BY <1>29 DEF TickJobs, TickGoto
<1>30. CASE TickOrphans
  BY <1>30 DEF TickOrphans, TickGoto, Orphaned
<1>31. CASE TickPromote
  BY <1>31 DEF TickPromote, TickGoto, StoreCrawlResults
<1>32. CASE TickComplete
  BY <1>32 DEF TickComplete, TickGoto, MarkSessionTerminal, Move
<1>33. CASE TickThrows
  BY <1>33 DEF TickThrows
<1>34. CASE EngineCrash
  BY <1>34 DEF EngineCrash
<1>35. CASE ControlPlaneCrash
  BY <1>35 DEF ControlPlaneCrash
<1>36. ASSUME NEW s \in Sessions, TickReapRaces(s) PROVE FenceInv'
  BY <1>36 DEF TickReapRaces, TickGoto, Reapable
<1>37. ASSUME NEW S \in SUBSET Sessions, TickSweep(S) PROVE FenceInv'
  BY <1>37 DEF TickSweep, TickGoto, Expired
<1>38. CASE UNCHANGED vars
  BY <1>38 DEF vars
<1>39. QED
  BY <1>1, <1>2, <1>3, <1>4, <1>5, <1>6, <1>7, <1>8, <1>9, <1>10, <1>11,
     <1>12, <1>13, <1>14, <1>15, <1>16, <1>17, <1>18, <1>19, <1>20, <1>21,
     <1>22, <1>23, <1>24, <1>25, <1>26, <1>27, <1>28, <1>29, <1>30, <1>31,
     <1>32, <1>33, <1>34, <1>35, <1>36, <1>37, <1>38 DEF Next, RunCrawl,
     CancelSession, Engine, Tick

\* No step publishes 'completed' before the promotion.
LEMMA NextCompleted ==
  ASSUME TypeOK, DataInv, CompletedMeansPromoted,
         [Next]_vars
  PROVE  CompletedMeansPromoted'
<1> USE DEF TypeOK, DataInv, TodoInv, SessionData, CompletedMeansPromoted,
     rowVars, tickVars, engineVars, controlVars
<1>1. ASSUME NEW s \in Sessions, RunStart(s) PROVE CompletedMeansPromoted'
  BY <1>1 DEF RunStart, RunStep, RunGoto, CreateCrawlSession, LockHeld
<1>2. ASSUME NEW s \in Sessions, RunGate(s) PROVE CompletedMeansPromoted'
  BY <1>2 DEF RunGate, RunStep, RunGoto
<1>3. ASSUME NEW s \in Sessions, RunAck(s) PROVE CompletedMeansPromoted'
  BY <1>3 DEF RunAck, RunStep, RunGoto
<1>4. ASSUME NEW s \in Sessions, RunNack(s) PROVE CompletedMeansPromoted'
  BY <1>4 DEF RunNack, RunStep, RunGoto
<1>5. ASSUME NEW s \in Sessions, RunObserve(s) PROVE CompletedMeansPromoted'
  BY <1>5 DEF RunObserve, RunStep, RunGoto, Outcome, Terminal
<1>6. ASSUME NEW s \in Sessions, RunDeadline(s) PROVE CompletedMeansPromoted'
  BY <1>6 DEF RunDeadline, RunStep, RunGoto
<1>7. ASSUME NEW s \in Sessions, RunCancelTimedOut(s) PROVE CompletedMeansPromoted'
  BY <1>7 DEF RunCancelTimedOut, RunStep, RunGoto, MayCancel
<1>8. ASSUME NEW s \in Sessions, RunFenced(s) PROVE CompletedMeansPromoted'
  BY <1>8 DEF RunFenced, RunStep, RunGoto, FenceAcknowledged,
     FinalizeSessionFailureAfterFence, FinalizeSessionCancellation, Move
<1>9. ASSUME NEW s \in Sessions, RunFenceFails(s) PROVE CompletedMeansPromoted'
  BY <1>9 DEF RunFenceFails, RunStep, RunGoto
<1>10. ASSUME NEW s \in Sessions, RunThrows(s) PROVE CompletedMeansPromoted'
  BY <1>10 DEF RunThrows, RunStep, RunGoto
<1>11. ASSUME NEW s \in Sessions, RunFinish(s) PROVE CompletedMeansPromoted'
  BY <1>11 DEF RunFinish, RunStep, RunGoto, MarkSessionTerminal, Move
<1>12. ASSUME NEW s \in Sessions, RunPromote(s) PROVE CompletedMeansPromoted'
  BY <1>12 DEF RunPromote, RunStep, RunGoto, StoreCrawlResults
<1>13. ASSUME NEW s \in Sessions, RunComplete(s) PROVE CompletedMeansPromoted'
  BY <1>13 DEF RunComplete, RunStep, RunGoto, MarkSessionTerminal, Move
<1>14. ASSUME NEW s \in Sessions, CancelRequest(s) PROVE CompletedMeansPromoted'
  BY <1>14 DEF CancelRequest, MayCancel
<1>15. ASSUME NEW s \in Sessions, CancelFenced(s) PROVE CompletedMeansPromoted'
  BY <1>15 DEF CancelFenced, FenceAcknowledged, FinalizeSessionCancellation,
     Move
<1>16. ASSUME NEW s \in Sessions, CancelFenceFails(s) PROVE CompletedMeansPromoted'
  BY <1>16 DEF CancelFenceFails
<1>17. ASSUME NEW s \in Sessions, RevokeDevice(s) PROVE CompletedMeansPromoted'
  BY <1>17 DEF RevokeDevice
<1>18. ASSUME NEW s \in Sessions, EngineAccept(s) PROVE CompletedMeansPromoted'
  BY <1>18 DEF EngineAccept, EngineGoto
<1>19. ASSUME NEW s \in Sessions, EngineRefuse(s) PROVE CompletedMeansPromoted'
  BY <1>19 DEF EngineRefuse, EngineGoto
<1>20. ASSUME NEW s \in Sessions, EnginePreflight(s) PROVE CompletedMeansPromoted'
  BY <1>20 DEF EnginePreflight, EngineGoto
<1>21. ASSUME NEW s \in Sessions, EngineLoopEnds(s) PROVE CompletedMeansPromoted'
  BY <1>21 DEF EngineLoopEnds, EngineGoto
<1>22. ASSUME NEW s \in Sessions, EngineClose(s) PROVE CompletedMeansPromoted'
  BY <1>22 DEF EngineClose, EngineGoto
<1>23. ASSUME NEW s \in Sessions, EngineCloseFails(s) PROVE CompletedMeansPromoted'
  BY <1>23 DEF EngineCloseFails, EngineGoto
<1>24. ASSUME NEW s \in Sessions, EngineComplete(s) PROVE CompletedMeansPromoted'
  BY <1>24 DEF EngineComplete, EngineGoto, CompleteSuccess, CompleteFailure,
     CompleteCancelled, CompleteRejected
<1>25. ASSUME NEW s \in Sessions, EngineCompleteThrows(s) PROVE CompletedMeansPromoted'
  BY <1>25 DEF EngineCompleteThrows, EngineGoto
<1>26. ASSUME NEW s \in Sessions, EngineFence(s) PROVE CompletedMeansPromoted'
  BY <1>26 DEF EngineFence, EngineGoto
<1>27. ASSUME NEW s \in Sessions, LeaseLapses(s) PROVE CompletedMeansPromoted'
  BY <1>27 DEF LeaseLapses
<1>28. CASE TickReap
  BY <1>28 DEF TickReap, TickGoto, Reapable
<1>29. CASE TickJobs
  BY <1>29 DEF TickJobs, TickGoto
<1>30. CASE TickOrphans
  BY <1>30 DEF TickOrphans, TickGoto, Orphaned
<1>31. CASE TickPromote
  BY <1>31 DEF TickPromote, TickGoto, StoreCrawlResults
<1>32. CASE TickComplete
  BY <1>32 DEF TickComplete, TickGoto, MarkSessionTerminal, Move
<1>33. CASE TickThrows
  BY <1>33 DEF TickThrows
<1>34. CASE EngineCrash
  BY <1>34 DEF EngineCrash
<1>35. CASE ControlPlaneCrash
  BY <1>35 DEF ControlPlaneCrash
<1>36. ASSUME NEW s \in Sessions, TickReapRaces(s) PROVE CompletedMeansPromoted'
  BY <1>36 DEF TickReapRaces, TickGoto, Reapable
<1>37. ASSUME NEW S \in SUBSET Sessions, TickSweep(S) PROVE CompletedMeansPromoted'
  BY <1>37 DEF TickSweep, TickGoto, Expired
<1>38. CASE UNCHANGED vars
  BY <1>38 DEF vars
<1>39. QED
  BY <1>1, <1>2, <1>3, <1>4, <1>5, <1>6, <1>7, <1>8, <1>9, <1>10, <1>11,
     <1>12, <1>13, <1>14, <1>15, <1>16, <1>17, <1>18, <1>19, <1>20, <1>21,
     <1>22, <1>23, <1>24, <1>25, <1>26, <1>27, <1>28, <1>29, <1>30, <1>31,
     <1>32, <1>33, <1>34, <1>35, <1>36, <1>37, <1>38 DEF Next, RunCrawl,
     CancelSession, Engine, Tick

\* No step stages or promotes data of a cancelled session.
LEMMA NextCancelled ==
  ASSUME TypeOK, DataInv, CancelledNeverPromoted, "deviceRevoked" \notin Faults,
         [Next]_vars
  PROVE  CancelledNeverPromoted'
<1> USE DEF TypeOK, DataInv, TodoInv, SessionData, CancelledNeverPromoted,
     rowVars, tickVars, engineVars, controlVars
<1>1. ASSUME NEW s \in Sessions, RunStart(s) PROVE CancelledNeverPromoted'
  BY <1>1 DEF RunStart, RunStep, RunGoto, CreateCrawlSession, LockHeld
<1>2. ASSUME NEW s \in Sessions, RunGate(s) PROVE CancelledNeverPromoted'
  BY <1>2 DEF RunGate, RunStep, RunGoto
<1>3. ASSUME NEW s \in Sessions, RunAck(s) PROVE CancelledNeverPromoted'
  BY <1>3 DEF RunAck, RunStep, RunGoto
<1>4. ASSUME NEW s \in Sessions, RunNack(s) PROVE CancelledNeverPromoted'
  BY <1>4 DEF RunNack, RunStep, RunGoto
<1>5. ASSUME NEW s \in Sessions, RunObserve(s) PROVE CancelledNeverPromoted'
  BY <1>5 DEF RunObserve, RunStep, RunGoto, Outcome, Terminal
<1>6. ASSUME NEW s \in Sessions, RunDeadline(s) PROVE CancelledNeverPromoted'
  BY <1>6 DEF RunDeadline, RunStep, RunGoto
<1>7. ASSUME NEW s \in Sessions, RunCancelTimedOut(s) PROVE CancelledNeverPromoted'
  BY <1>7 DEF RunCancelTimedOut, RunStep, RunGoto, MayCancel
<1>8. ASSUME NEW s \in Sessions, RunFenced(s) PROVE CancelledNeverPromoted'
  BY <1>8 DEF RunFenced, RunStep, RunGoto, FenceAcknowledged,
     FinalizeSessionFailureAfterFence, FinalizeSessionCancellation, Move
<1>9. ASSUME NEW s \in Sessions, RunFenceFails(s) PROVE CancelledNeverPromoted'
  BY <1>9 DEF RunFenceFails, RunStep, RunGoto
<1>10. ASSUME NEW s \in Sessions, RunThrows(s) PROVE CancelledNeverPromoted'
  BY <1>10 DEF RunThrows, RunStep, RunGoto
<1>11. ASSUME NEW s \in Sessions, RunFinish(s) PROVE CancelledNeverPromoted'
  BY <1>11 DEF RunFinish, RunStep, RunGoto, MarkSessionTerminal, Move
<1>12. ASSUME NEW s \in Sessions, RunPromote(s) PROVE CancelledNeverPromoted'
  BY <1>12 DEF RunPromote, RunStep, RunGoto, StoreCrawlResults
<1>13. ASSUME NEW s \in Sessions, RunComplete(s) PROVE CancelledNeverPromoted'
  BY <1>13 DEF RunComplete, RunStep, RunGoto, MarkSessionTerminal, Move
<1>14. ASSUME NEW s \in Sessions, CancelRequest(s) PROVE CancelledNeverPromoted'
  BY <1>14 DEF CancelRequest, MayCancel
<1>15. ASSUME NEW s \in Sessions, CancelFenced(s) PROVE CancelledNeverPromoted'
  BY <1>15 DEF CancelFenced, FenceAcknowledged, FinalizeSessionCancellation,
     Move
<1>16. ASSUME NEW s \in Sessions, CancelFenceFails(s) PROVE CancelledNeverPromoted'
  BY <1>16 DEF CancelFenceFails
<1>17. ASSUME NEW s \in Sessions, RevokeDevice(s) PROVE CancelledNeverPromoted'
  BY <1>17 DEF RevokeDevice
<1>18. ASSUME NEW s \in Sessions, EngineAccept(s) PROVE CancelledNeverPromoted'
  BY <1>18 DEF EngineAccept, EngineGoto
<1>19. ASSUME NEW s \in Sessions, EngineRefuse(s) PROVE CancelledNeverPromoted'
  BY <1>19 DEF EngineRefuse, EngineGoto
<1>20. ASSUME NEW s \in Sessions, EnginePreflight(s) PROVE CancelledNeverPromoted'
  BY <1>20 DEF EnginePreflight, EngineGoto
<1>21. ASSUME NEW s \in Sessions, EngineLoopEnds(s) PROVE CancelledNeverPromoted'
  BY <1>21 DEF EngineLoopEnds, EngineGoto
<1>22. ASSUME NEW s \in Sessions, EngineClose(s) PROVE CancelledNeverPromoted'
  BY <1>22 DEF EngineClose, EngineGoto
<1>23. ASSUME NEW s \in Sessions, EngineCloseFails(s) PROVE CancelledNeverPromoted'
  BY <1>23 DEF EngineCloseFails, EngineGoto
<1>24. ASSUME NEW s \in Sessions, EngineComplete(s) PROVE CancelledNeverPromoted'
  BY <1>24 DEF EngineComplete, EngineGoto, CompleteSuccess, CompleteFailure,
     CompleteCancelled, CompleteRejected
<1>25. ASSUME NEW s \in Sessions, EngineCompleteThrows(s) PROVE CancelledNeverPromoted'
  BY <1>25 DEF EngineCompleteThrows, EngineGoto
<1>26. ASSUME NEW s \in Sessions, EngineFence(s) PROVE CancelledNeverPromoted'
  BY <1>26 DEF EngineFence, EngineGoto
<1>27. ASSUME NEW s \in Sessions, LeaseLapses(s) PROVE CancelledNeverPromoted'
  BY <1>27 DEF LeaseLapses
<1>28. CASE TickReap
  BY <1>28 DEF TickReap, TickGoto, Reapable
<1>29. CASE TickJobs
  BY <1>29 DEF TickJobs, TickGoto
<1>30. CASE TickOrphans
  BY <1>30 DEF TickOrphans, TickGoto, Orphaned
<1>31. CASE TickPromote
  BY <1>31 DEF TickPromote, TickGoto, StoreCrawlResults
<1>32. CASE TickComplete
  BY <1>32 DEF TickComplete, TickGoto, MarkSessionTerminal, Move
<1>33. CASE TickThrows
  BY <1>33 DEF TickThrows
<1>34. CASE EngineCrash
  BY <1>34 DEF EngineCrash
<1>35. CASE ControlPlaneCrash
  BY <1>35 DEF ControlPlaneCrash
<1>36. ASSUME NEW s \in Sessions, TickReapRaces(s) PROVE CancelledNeverPromoted'
  BY <1>36 DEF TickReapRaces, TickGoto, Reapable
<1>37. ASSUME NEW S \in SUBSET Sessions, TickSweep(S) PROVE CancelledNeverPromoted'
  BY <1>37 DEF TickSweep, TickGoto, Expired
<1>38. CASE UNCHANGED vars
  BY <1>38 DEF vars
<1>39. QED
  BY <1>1, <1>2, <1>3, <1>4, <1>5, <1>6, <1>7, <1>8, <1>9, <1>10, <1>11,
     <1>12, <1>13, <1>14, <1>15, <1>16, <1>17, <1>18, <1>19, <1>20, <1>21,
     <1>22, <1>23, <1>24, <1>25, <1>26, <1>27, <1>28, <1>29, <1>30, <1>31,
     <1>32, <1>33, <1>34, <1>35, <1>36, <1>37, <1>38 DEF Next, RunCrawl,
     CancelSession, Engine, Tick

\* No step records a success as a failure.
LEMMA NextFailed ==
  ASSUME TypeOK, DataInv, FenceInv, CancelledNeverPromoted, FailedHasNoSuccess,
         Faults \cap {"ackLost", "dbError", "reapRace", "deviceRevoked"} = {},
         [Next]_vars
  PROVE  FailedHasNoSuccess'
<1> USE DEF TypeOK, DataInv, TodoInv, SessionData, FenceInv,
     CancelledNeverPromoted, FailedHasNoSuccess, rowVars, tickVars,
     engineVars, controlVars
<1>1. ASSUME NEW s \in Sessions, RunStart(s) PROVE FailedHasNoSuccess'
  BY <1>1 DEF RunStart, RunStep, RunGoto, CreateCrawlSession, LockHeld
<1>2. ASSUME NEW s \in Sessions, RunGate(s) PROVE FailedHasNoSuccess'
  BY <1>2 DEF RunGate, RunStep, RunGoto
<1>3. ASSUME NEW s \in Sessions, RunAck(s) PROVE FailedHasNoSuccess'
  BY <1>3 DEF RunAck, RunStep, RunGoto
<1>4. ASSUME NEW s \in Sessions, RunNack(s) PROVE FailedHasNoSuccess'
  BY <1>4 DEF RunNack, RunStep, RunGoto
<1>5. ASSUME NEW s \in Sessions, RunObserve(s) PROVE FailedHasNoSuccess'
  BY <1>5 DEF RunObserve, RunStep, RunGoto, Outcome, Terminal
<1>6. ASSUME NEW s \in Sessions, RunDeadline(s) PROVE FailedHasNoSuccess'
  BY <1>6 DEF RunDeadline, RunStep, RunGoto
<1>7. ASSUME NEW s \in Sessions, RunCancelTimedOut(s) PROVE FailedHasNoSuccess'
  BY <1>7 DEF RunCancelTimedOut, RunStep, RunGoto, MayCancel
<1>8. ASSUME NEW s \in Sessions, RunFenced(s) PROVE FailedHasNoSuccess'
  BY <1>8 DEF RunFenced, RunStep, RunGoto, FenceAcknowledged,
     FinalizeSessionFailureAfterFence, FinalizeSessionCancellation, Move
<1>9. ASSUME NEW s \in Sessions, RunFenceFails(s) PROVE FailedHasNoSuccess'
  BY <1>9 DEF RunFenceFails, RunStep, RunGoto
<1>10. ASSUME NEW s \in Sessions, RunThrows(s) PROVE FailedHasNoSuccess'
  BY <1>10 DEF RunThrows, RunStep, RunGoto
<1>11. ASSUME NEW s \in Sessions, RunFinish(s) PROVE FailedHasNoSuccess'
  BY <1>11 DEF RunFinish, RunStep, RunGoto, MarkSessionTerminal, Move
<1>12. ASSUME NEW s \in Sessions, RunPromote(s) PROVE FailedHasNoSuccess'
  BY <1>12 DEF RunPromote, RunStep, RunGoto, StoreCrawlResults
<1>13. ASSUME NEW s \in Sessions, RunComplete(s) PROVE FailedHasNoSuccess'
  BY <1>13 DEF RunComplete, RunStep, RunGoto, MarkSessionTerminal, Move
<1>14. ASSUME NEW s \in Sessions, CancelRequest(s) PROVE FailedHasNoSuccess'
  BY <1>14 DEF CancelRequest, MayCancel
<1>15. ASSUME NEW s \in Sessions, CancelFenced(s) PROVE FailedHasNoSuccess'
  BY <1>15 DEF CancelFenced, FenceAcknowledged, FinalizeSessionCancellation,
     Move
<1>16. ASSUME NEW s \in Sessions, CancelFenceFails(s) PROVE FailedHasNoSuccess'
  BY <1>16 DEF CancelFenceFails
<1>17. ASSUME NEW s \in Sessions, RevokeDevice(s) PROVE FailedHasNoSuccess'
  BY <1>17 DEF RevokeDevice
<1>18. ASSUME NEW s \in Sessions, EngineAccept(s) PROVE FailedHasNoSuccess'
  BY <1>18 DEF EngineAccept, EngineGoto
<1>19. ASSUME NEW s \in Sessions, EngineRefuse(s) PROVE FailedHasNoSuccess'
  BY <1>19 DEF EngineRefuse, EngineGoto
<1>20. ASSUME NEW s \in Sessions, EnginePreflight(s) PROVE FailedHasNoSuccess'
  BY <1>20 DEF EnginePreflight, EngineGoto
<1>21. ASSUME NEW s \in Sessions, EngineLoopEnds(s) PROVE FailedHasNoSuccess'
  BY <1>21 DEF EngineLoopEnds, EngineGoto
<1>22. ASSUME NEW s \in Sessions, EngineClose(s) PROVE FailedHasNoSuccess'
  BY <1>22 DEF EngineClose, EngineGoto
<1>23. ASSUME NEW s \in Sessions, EngineCloseFails(s) PROVE FailedHasNoSuccess'
  BY <1>23 DEF EngineCloseFails, EngineGoto
<1>24. ASSUME NEW s \in Sessions, EngineComplete(s) PROVE FailedHasNoSuccess'
  BY <1>24 DEF EngineComplete, EngineGoto, CompleteSuccess, CompleteFailure,
     CompleteCancelled, CompleteRejected
<1>25. ASSUME NEW s \in Sessions, EngineCompleteThrows(s) PROVE FailedHasNoSuccess'
  BY <1>25 DEF EngineCompleteThrows, EngineGoto
<1>26. ASSUME NEW s \in Sessions, EngineFence(s) PROVE FailedHasNoSuccess'
  BY <1>26 DEF EngineFence, EngineGoto
<1>27. ASSUME NEW s \in Sessions, LeaseLapses(s) PROVE FailedHasNoSuccess'
  BY <1>27 DEF LeaseLapses
<1>28. CASE TickReap
  BY <1>28 DEF TickReap, TickGoto, Reapable
<1>29. CASE TickJobs
  BY <1>29 DEF TickJobs, TickGoto
<1>30. CASE TickOrphans
  BY <1>30 DEF TickOrphans, TickGoto, Orphaned
<1>31. CASE TickPromote
  BY <1>31 DEF TickPromote, TickGoto, StoreCrawlResults
<1>32. CASE TickComplete
  BY <1>32 DEF TickComplete, TickGoto, MarkSessionTerminal, Move
<1>33. CASE TickThrows
  BY <1>33 DEF TickThrows
<1>34. CASE EngineCrash
  BY <1>34 DEF EngineCrash
<1>35. CASE ControlPlaneCrash
  BY <1>35 DEF ControlPlaneCrash
<1>36. ASSUME NEW s \in Sessions, TickReapRaces(s) PROVE FailedHasNoSuccess'
  BY <1>36 DEF TickReapRaces, TickGoto, Reapable
<1>37. ASSUME NEW S \in SUBSET Sessions, TickSweep(S) PROVE FailedHasNoSuccess'
  BY <1>37 DEF TickSweep, TickGoto, Expired
<1>38. CASE UNCHANGED vars
  BY <1>38 DEF vars
<1>39. QED
  BY <1>1, <1>2, <1>3, <1>4, <1>5, <1>6, <1>7, <1>8, <1>9, <1>10, <1>11,
     <1>12, <1>13, <1>14, <1>15, <1>16, <1>17, <1>18, <1>19, <1>20, <1>21,
     <1>22, <1>23, <1>24, <1>25, <1>26, <1>27, <1>28, <1>29, <1>30, <1>31,
     <1>32, <1>33, <1>34, <1>35, <1>36, <1>37, <1>38 DEF Next, RunCrawl,
     CancelSession, Engine, Tick

\* No step changes a recorded outcome, except by deleting its row.
LEMMA NextFinal ==
  ASSUME TypeOK,
         [Next]_vars
  PROVE  OutcomeKept
<1> USE DEF TypeOK, OutcomeKept, Terminal, rowVars, tickVars, engineVars, controlVars
<1>1. ASSUME NEW s \in Sessions, RunStart(s) PROVE OutcomeKept
  BY <1>1 DEF RunStart, RunStep, RunGoto, CreateCrawlSession, LockHeld
<1>2. ASSUME NEW s \in Sessions, RunGate(s) PROVE OutcomeKept
  BY <1>2 DEF RunGate, RunStep, RunGoto
<1>3. ASSUME NEW s \in Sessions, RunAck(s) PROVE OutcomeKept
  BY <1>3 DEF RunAck, RunStep, RunGoto
<1>4. ASSUME NEW s \in Sessions, RunNack(s) PROVE OutcomeKept
  BY <1>4 DEF RunNack, RunStep, RunGoto
<1>5. ASSUME NEW s \in Sessions, RunObserve(s) PROVE OutcomeKept
  BY <1>5 DEF RunObserve, RunStep, RunGoto, Outcome, Terminal
<1>6. ASSUME NEW s \in Sessions, RunDeadline(s) PROVE OutcomeKept
  BY <1>6 DEF RunDeadline, RunStep, RunGoto
<1>7. ASSUME NEW s \in Sessions, RunCancelTimedOut(s) PROVE OutcomeKept
  BY <1>7 DEF RunCancelTimedOut, RunStep, RunGoto, MayCancel
<1>8. ASSUME NEW s \in Sessions, RunFenced(s) PROVE OutcomeKept
  BY <1>8 DEF RunFenced, RunStep, RunGoto, FenceAcknowledged,
     FinalizeSessionFailureAfterFence, FinalizeSessionCancellation, Move
<1>9. ASSUME NEW s \in Sessions, RunFenceFails(s) PROVE OutcomeKept
  BY <1>9 DEF RunFenceFails, RunStep, RunGoto
<1>10. ASSUME NEW s \in Sessions, RunThrows(s) PROVE OutcomeKept
  BY <1>10 DEF RunThrows, RunStep, RunGoto
<1>11. ASSUME NEW s \in Sessions, RunFinish(s) PROVE OutcomeKept
  BY <1>11 DEF RunFinish, RunStep, RunGoto, MarkSessionTerminal, Move
<1>12. ASSUME NEW s \in Sessions, RunPromote(s) PROVE OutcomeKept
  BY <1>12 DEF RunPromote, RunStep, RunGoto, StoreCrawlResults
<1>13. ASSUME NEW s \in Sessions, RunComplete(s) PROVE OutcomeKept
  BY <1>13 DEF RunComplete, RunStep, RunGoto, MarkSessionTerminal, Move
<1>14. ASSUME NEW s \in Sessions, CancelRequest(s) PROVE OutcomeKept
  BY <1>14 DEF CancelRequest, MayCancel
<1>15. ASSUME NEW s \in Sessions, CancelFenced(s) PROVE OutcomeKept
  BY <1>15 DEF CancelFenced, FenceAcknowledged, FinalizeSessionCancellation,
     Move
<1>16. ASSUME NEW s \in Sessions, CancelFenceFails(s) PROVE OutcomeKept
  BY <1>16 DEF CancelFenceFails
<1>17. ASSUME NEW s \in Sessions, RevokeDevice(s) PROVE OutcomeKept
  BY <1>17 DEF RevokeDevice
<1>18. ASSUME NEW s \in Sessions, EngineAccept(s) PROVE OutcomeKept
  BY <1>18 DEF EngineAccept, EngineGoto
<1>19. ASSUME NEW s \in Sessions, EngineRefuse(s) PROVE OutcomeKept
  BY <1>19 DEF EngineRefuse, EngineGoto
<1>20. ASSUME NEW s \in Sessions, EnginePreflight(s) PROVE OutcomeKept
  BY <1>20 DEF EnginePreflight, EngineGoto
<1>21. ASSUME NEW s \in Sessions, EngineLoopEnds(s) PROVE OutcomeKept
  BY <1>21 DEF EngineLoopEnds, EngineGoto
<1>22. ASSUME NEW s \in Sessions, EngineClose(s) PROVE OutcomeKept
  BY <1>22 DEF EngineClose, EngineGoto
<1>23. ASSUME NEW s \in Sessions, EngineCloseFails(s) PROVE OutcomeKept
  BY <1>23 DEF EngineCloseFails, EngineGoto
<1>24. ASSUME NEW s \in Sessions, EngineComplete(s) PROVE OutcomeKept
  BY <1>24 DEF EngineComplete, EngineGoto, CompleteSuccess, CompleteFailure,
     CompleteCancelled, CompleteRejected
<1>25. ASSUME NEW s \in Sessions, EngineCompleteThrows(s) PROVE OutcomeKept
  BY <1>25 DEF EngineCompleteThrows, EngineGoto
<1>26. ASSUME NEW s \in Sessions, EngineFence(s) PROVE OutcomeKept
  BY <1>26 DEF EngineFence, EngineGoto
<1>27. ASSUME NEW s \in Sessions, LeaseLapses(s) PROVE OutcomeKept
  BY <1>27 DEF LeaseLapses
<1>28. CASE TickReap
  BY <1>28 DEF TickReap, TickGoto, Reapable
<1>29. CASE TickJobs
  BY <1>29 DEF TickJobs, TickGoto
<1>30. CASE TickOrphans
  BY <1>30 DEF TickOrphans, TickGoto, Orphaned
<1>31. CASE TickPromote
  BY <1>31 DEF TickPromote, TickGoto, StoreCrawlResults
<1>32. CASE TickComplete
  BY <1>32 DEF TickComplete, TickGoto, MarkSessionTerminal, Move
<1>33. CASE TickThrows
  BY <1>33 DEF TickThrows
<1>34. CASE EngineCrash
  BY <1>34 DEF EngineCrash
<1>35. CASE ControlPlaneCrash
  BY <1>35 DEF ControlPlaneCrash
<1>36. ASSUME NEW s \in Sessions, TickReapRaces(s) PROVE OutcomeKept
  BY <1>36 DEF TickReapRaces, TickGoto, Reapable
<1>37. ASSUME NEW S \in SUBSET Sessions, TickSweep(S) PROVE OutcomeKept
  BY <1>37 DEF TickSweep, TickGoto, Expired
<1>38. CASE UNCHANGED vars
  BY <1>38 DEF vars
<1>39. QED
  BY <1>1, <1>2, <1>3, <1>4, <1>5, <1>6, <1>7, <1>8, <1>9, <1>10, <1>11,
     <1>12, <1>13, <1>14, <1>15, <1>16, <1>17, <1>18, <1>19, <1>20, <1>21,
     <1>22, <1>23, <1>24, <1>25, <1>26, <1>27, <1>28, <1>29, <1>30, <1>31,
     <1>32, <1>33, <1>34, <1>35, <1>36, <1>37, <1>38 DEF Next, RunCrawl,
     CancelSession, Engine, Tick

-----------------------------------------------------------------------------

\* Types and the data invariant hold initially and are kept, whatever fails.
LEMMA DataSafe == Spec => [](TypeOK /\ DataInv)
<1>1. Init => DataInv
  BY DEF Init, DataInv, OneLock, TodoInv, SessionData, Locked
<1>2. TypeOK /\ DataInv /\ [Next]_vars => DataInv'
  BY NextDataInv
<1>3. QED
  BY <1>1, <1>2, TypeCorrect, PTL DEF Spec

\* An observable 'completed' means promoted data under every fault: a consumer
\* that reads the canonical tables on 'completed' never loses that race.
THEOREM CompletedPromoted == Spec => []CompletedMeansPromoted
<1>1. Init => CompletedMeansPromoted
  BY DEF Init, CompletedMeansPromoted
<1>2. TypeOK /\ DataInv /\ CompletedMeansPromoted /\ [Next]_vars
        => CompletedMeansPromoted'
  BY NextCompleted
<1>3. QED
  BY <1>1, <1>2, DataSafe, PTL DEF Spec

\* A cancelled crawl leaves no data under every fault, unless a device is
\* revoked: only revokeDeviceAccess cancels a row whose success is staged.
THEOREM CancelledClean ==
  ASSUME "deviceRevoked" \notin Faults
  PROVE  Spec => []CancelledNeverPromoted
<1>1. Init => CancelledNeverPromoted
  BY DEF Init, CancelledNeverPromoted
<1>2. TypeOK /\ DataInv /\ CancelledNeverPromoted /\ [Next]_vars
        => CancelledNeverPromoted'
  BY NextCancelled
<1>3. QED
  BY <1>1, <1>2, DataSafe, PTL DEF Spec

\* A recorded outcome is final under every fault.
THEOREM OutcomeFinal == Spec => OutcomeIsFinal
<1>1. TypeOK /\ [Next]_vars => [OutcomeKept]_vars
  BY NextFinal
<1>2. QED
  BY <1>1, TypeCorrect, PTL DEF Spec, OutcomeIsFinal

\* The fence: when answers are not lost and queries do not fail ...
LEMMA FenceSafe ==
  ASSUME "ackLost" \notin Faults, "dbError" \notin Faults
  PROVE  Spec => []FenceInv
<1>1. Init => FenceInv
  BY DEF Init, FenceInv, Locked
<1>2. TypeOK /\ DataInv /\ FenceInv /\ [Next]_vars => FenceInv'
  BY NextFenceInv
<1>3. QED
  BY <1>1, <1>2, DataSafe, PTL DEF Spec

\* ... a browser that is driven holds the lock ...
THEOREM DrivenHoldsLock ==
  ASSUME "ackLost" \notin Faults, "dbError" \notin Faults
  PROVE  Spec => []DrivenBrowserHoldsLock
<1>1. FenceInv => DrivenBrowserHoldsLock
  BY DEF FenceInv, DrivenBrowserHoldsLock
<1>2. QED
  BY <1>1, FenceSafe, PTL

\* ... and so two crawls never log in to the bank at once, whichever process
\* crashes, whatever is cancelled, and however many browsers fail to close.
THEOREM SingleBankLogin ==
  ASSUME "ackLost" \notin Faults, "dbError" \notin Faults
  PROVE  Spec => []OneBankLogin
<1>1. DataInv /\ DrivenBrowserHoldsLock => OneBankLogin
  BY DEF DataInv, OneLock, DrivenBrowserHoldsLock, OneBankLogin
<1>2. QED
  BY <1>1, DataSafe, DrivenHoldsLock, PTL

\* Finished work is never recorded as a failure when, besides, the reaper does
\* not wait for a completion and no device is revoked.
THEOREM FailedClean ==
  ASSUME Faults \cap {"ackLost", "dbError", "reapRace", "deviceRevoked"} = {}
  PROVE  Spec => []FailedHasNoSuccess
<1>1. Init => FailedHasNoSuccess
  BY DEF Init, FailedHasNoSuccess
<1>2. TypeOK /\ DataInv /\ FenceInv /\ CancelledNeverPromoted
        /\ FailedHasNoSuccess /\ [Next]_vars => FailedHasNoSuccess'
  BY NextFailed
<1>3. /\ "ackLost" \notin Faults /\ "dbError" \notin Faults
      /\ "deviceRevoked" \notin Faults
  OBVIOUS
<1>4. QED
  BY <1>1, <1>2, <1>3, DataSafe, FenceSafe, CancelledClean, PTL DEF Spec

-----------------------------------------------------------------------------
(* CrawlSession implements SessionRow.                                       *)

\* What one session's row shows.
View(s) ==
  IF status[s] = "active" /\ done[s] = "success" THEN "ready" ELSE status[s]

\* A step that writes no row and promotes nothing is invisible.
LEMMA Invisible ==
  ASSUME UNCHANGED <<status, done, promoted>>
  PROVE  [Row!Next]_<<rowView, promoted>>
BY DEF rowView

\* A step that changes what one row shows, and promotes nothing, is a Become.
LEMMA Becomes ==
  ASSUME TypeOK, NEW s \in Sessions, NEW to,
         \A t \in Sessions \ {s} : status'[t] = status[t] /\ done'[t] = done[t],
         View(s)' = to, UNCHANGED promoted
  PROVE  Row!Become(s, View(s), to)
<1>1. rowView' = [rowView EXCEPT ![s] = to]
  BY DEF rowView, View, TypeOK
<1>2. rowView[s] = View(s)
  BY DEF rowView, View
<1>3. QED
  BY <1>1, <1>2 DEF Row!Become

\* The faults under which the contract is not kept.
Excluded == {"ackLost", "dbError", "reapRace", "deviceRevoked"}

AllInv ==
  /\ TypeOK /\ DataInv /\ FenceInv
  /\ CompletedMeansPromoted /\ CancelledNeverPromoted /\ FailedHasNoSuccess

\* The moves that SessionRow allows to one row.
LEMMA Allowed ==
  ASSUME NEW s \in Sessions,
         \/ Row!Become(s, "active", "ready") \/ Row!Become(s, "active", "failed")
         \/ Row!Become(s, "active", "cancelling")
         \/ Row!Become(s, "cancelling", "cancelled")
         \/ Row!Become(s, "cancelling", "failed")
         \/ s \in promoted /\ Row!Become(s, "ready", "completed")
  PROVE  Row!Next
BY DEF Row!Next, Row!Extract, Row!Fail, Row!RequestCancel, Row!Stopped, Row!Complete

\* Promoting a session whose success is staged: visible once, then idempotent.
LEMMA Promotes ==
  ASSUME AllInv, NEW s \in Sessions, done[s] = "success", StoreCrawlResults(s),
         UNCHANGED <<status, done>>
  PROVE  [Row!Next]_<<rowView, promoted>>
<1>1. s \in staged /\ status[s] \notin {"none", "purged"}
  BY DEF AllInv, DataInv, SessionData
<1>2. status[s] \notin {"failed", "cancelling", "cancelled"}
  BY <1>1 DEF AllInv, FailedHasNoSuccess, CancelledNeverPromoted
<1>3. CASE status[s] = "completed"
  <2>1. promoted' = promoted
    BY <1>1, <1>3 DEF AllInv, CompletedMeansPromoted, StoreCrawlResults
  <2>2. QED
    BY <2>1, Invisible
<1>4. CASE status[s] = "active"
  <2>1. rowView[s] = "ready" /\ rowView' = rowView
    BY <1>4 DEF rowView
  <2>2. promoted' = promoted \cup {s}
    BY <1>1 DEF StoreCrawlResults
  <2>3. QED
    BY <2>1, <2>2 DEF Row!Next, Row!Promote
<1>5. QED
  BY <1>1, <1>2, <1>3, <1>4 DEF AllInv, TypeOK, Locked, Terminal

\* finishSession(true) or the orphan sweep, after the promotion.
LEMMA Completes ==
  ASSUME AllInv, NEW s \in Sessions, done[s] = "success", s \in promoted,
         MarkSessionTerminal(s, TRUE), UNCHANGED promoted
  PROVE  [Row!Next]_<<rowView, promoted>>
<1>1. CASE status[s] = "active"
  <2>1. View(s) = "ready" /\ View(s)' = "completed"
    BY <1>1 DEF View, MarkSessionTerminal, Move, AllInv, TypeOK
  <2>2. \A t \in Sessions \ {s} : status'[t] = status[t] /\ done'[t] = done[t]
    BY <1>1 DEF MarkSessionTerminal, Move, AllInv, TypeOK
  <2>3. Row!Become(s, "ready", "completed")
    BY <2>1, <2>2, Becomes DEF AllInv
  <2>4. QED
    BY <2>3, Allowed
<1>2. CASE status[s] # "active"
  BY <1>2, Invisible DEF MarkSessionTerminal, Move
<1>3. QED
  BY <1>1, <1>2

\* One guarded update of one row.
LEMMA Moves ==
  ASSUME AllInv, NEW s \in Sessions, NEW from, NEW to, Move(s, from, to),
         \/ from = "active" /\ to = "failed" /\ done[s] # "success"
         \/ from = "cancelling" /\ to \in {"cancelled", "failed"},
         UNCHANGED promoted
  PROVE  [Row!Next]_<<rowView, promoted>>
<1>1. CASE status[s] = from
  <2>1. View(s) = from /\ View(s)' = to
    BY <1>1 DEF View, Move, AllInv, TypeOK
  <2>2. \A t \in Sessions \ {s} : status'[t] = status[t] /\ done'[t] = done[t]
    BY <1>1 DEF Move, AllInv, TypeOK
  <2>3. Row!Become(s, from, to)
    BY <2>1, <2>2, Becomes DEF AllInv
  <2>4. QED
    BY <2>3, Allowed
<1>2. CASE status[s] # from
  BY <1>2, Invisible DEF Move
<1>3. QED
  BY <1>1, <1>2

\* requestSessionCancellation, by an operator or after the deadline.
LEMMA Cancels ==
  ASSUME AllInv, NEW s \in Sessions,
         \/ MayCancel(s) /\ status' = [status EXCEPT ![s] = "cancelling"]
         \/ status' = status,
         UNCHANGED <<done, promoted>>
  PROVE  [Row!Next]_<<rowView, promoted>>
<1>1. CASE MayCancel(s) /\ status' = [status EXCEPT ![s] = "cancelling"]
  <2>1. View(s) = "active" /\ View(s)' = "cancelling"
    BY <1>1 DEF View, MayCancel, AllInv, TypeOK
  <2>2. \A t \in Sessions \ {s} : status'[t] = status[t] /\ done'[t] = done[t]
    BY <1>1 DEF AllInv, TypeOK
  <2>3. Row!Become(s, "active", "cancelling")
    BY <2>1, <2>2, Becomes DEF AllInv
  <2>4. QED
    BY <2>3, Allowed
<1>2. QED
  BY <1>1, Invisible

\* The reaper and the release of cancelling rows touch one row at most: only
\* one holds the lock.
LEMMA Sweeps ==
  ASSUME AllInv, NEW S \in SUBSET Sessions, NEW to,
         \/ /\ to = "failed"
            /\ \A s \in S : status[s] = "active" /\ done[s] # "success"
         \/ to = "cancelled" /\ \A s \in S : status[s] = "cancelling",
         status' = [s \in Sessions |-> IF s \in S THEN to ELSE status[s]],
         UNCHANGED <<done, promoted>>
  PROVE  [Row!Next]_<<rowView, promoted>>
<1>1. CASE S = {}
  <2>1. status' = status
    BY <1>1 DEF AllInv, TypeOK
  <2>2. QED
    BY <2>1, Invisible
<1>2. ASSUME NEW s \in S PROVE [Row!Next]_<<rowView, promoted>>
  <2>1. \A t \in S : t = s
    BY <1>2 DEF AllInv, DataInv, OneLock, Locked
  <2>2. \A t \in Sessions \ {s} : status'[t] = status[t] /\ done'[t] = done[t]
    BY <2>1
  <2>3. View(s) = status[s] /\ View(s)' = to
    BY <1>2 DEF View
  <2>4. Row!Become(s, status[s], to)
    BY <1>2, <2>2, <2>3, Becomes DEF AllInv
  <2>5. QED
    BY <1>2, <2>4, Allowed
<1>3. QED
  BY <1>1, <1>2

\* The engine's completion transaction.
LEMMA EngineCompletes ==
  ASSUME AllInv, NEW s \in Sessions, EngineComplete(s)
  PROVE  [Row!Next]_<<rowView, promoted>>
<1>1. done[s] # "success" /\ UNCHANGED promoted
  BY DEF EngineComplete, EngineGoto, controlVars, AllInv, FenceInv
<1>2. \A t \in Sessions \ {s} : status'[t] = status[t] /\ done'[t] = done[t]
  BY DEF EngineComplete, CompleteSuccess, CompleteFailure, CompleteCancelled,
         CompleteRejected, rowVars, AllInv, TypeOK
<1>3. CASE CompleteSuccess(s)
  <2>1. View(s) = "active" /\ View(s)' = "ready"
    BY <1>1, <1>3 DEF View, CompleteSuccess, AllInv, TypeOK
  <2>2. QED
    BY <1>1, <1>2, <2>1, Becomes, Allowed DEF AllInv
<1>4. CASE CompleteFailure(s)
  <2>1. View(s) = "active" /\ View(s)' = "failed"
    BY <1>1, <1>4 DEF View, CompleteFailure, AllInv, TypeOK
  <2>2. QED
    BY <1>1, <1>2, <2>1, Becomes, Allowed DEF AllInv
<1>5. CASE CompleteCancelled(s) \/ CompleteRejected(s)
  <2>1. rowView' = rowView
    BY <1>2, <1>5 DEF rowView, CompleteCancelled, CompleteRejected, rowVars
  <2>2. QED
    BY <1>1, <2>1
<1>6. QED
  BY <1>3, <1>4, <1>5 DEF EngineComplete

\* The steps of runCrawl.
LEMMA RunRefines ==
  ASSUME AllInv, Faults \cap Excluded = {}, NEW s \in Sessions, RunCrawl(s)
  PROVE  [Row!Next]_<<rowView, promoted>>
<1>1. CASE RunStart(s)
  <2>1. View(s) = "none" /\ View(s)' = "active" /\ UNCHANGED promoted
    BY <1>1 DEF RunStart, CreateCrawlSession, View, AllInv, TypeOK, DataInv,
                SessionData
  <2>2. \A t \in Sessions \ {s} : status'[t] = status[t] /\ done'[t] = done[t]
    BY <1>1 DEF RunStart, CreateCrawlSession, AllInv, TypeOK
  <2>3. \A t \in Sessions : rowView[t] \notin Row!Holding
    BY <1>1 DEF RunStart, CreateCrawlSession, LockHeld, Locked, Terminal,
                rowView, Row!Holding, AllInv, TypeOK
  <2>4. Row!Become(s, "none", "active")
    BY <2>1, <2>2, Becomes DEF AllInv
  <2>5. QED
    BY <2>3, <2>4 DEF Row!Next, Row!Start
<1>2. CASE \/ RunGate(s) \/ RunAck(s) \/ RunNack(s) \/ RunObserve(s)
           \/ RunDeadline(s) \/ RunFenceFails(s)
  <2>1. UNCHANGED <<status, done, promoted>>
    BY <1>2 DEF RunGate, RunAck, RunNack, RunObserve, RunDeadline,
                RunFenceFails, RunStep, rowVars
  <2>2. QED
    BY <2>1, Invisible
<1>3. CASE RunCancelTimedOut(s)
  BY <1>3, Cancels DEF RunCancelTimedOut
<1>4. CASE RunFenced(s)
  BY <1>4, Moves DEF RunFenced, FinalizeSessionFailureAfterFence,
                     FinalizeSessionCancellation
<1>5. CASE RunThrows(s)
  BY <1>5 DEF RunThrows, Excluded
<1>6. CASE RunFinish(s)
  <2>1. status[s] = "active" => done[s] # "success"
    BY <1>6 DEF RunFinish, RunStep, AllInv, FenceInv
  <2>2. CASE status[s] = "active"
    BY <1>6, <2>1, <2>2, Moves DEF RunFinish, MarkSessionTerminal
  <2>3. CASE status[s] # "active"
    BY <1>6, <2>3, Invisible DEF RunFinish, MarkSessionTerminal, Move
  <2>4. QED
    BY <2>2, <2>3
<1>7. CASE RunPromote(s)
  <2>1. done[s] = "success"
    BY <1>7 DEF RunPromote, RunStep, AllInv, FenceInv
  <2>2. QED
    BY <1>7, <2>1, Promotes DEF RunPromote, rowVars
<1>8. CASE RunComplete(s)
  <2>1. done[s] = "success" /\ s \in promoted
    BY <1>8 DEF RunComplete, RunStep, AllInv, FenceInv, DataInv, SessionData
  <2>2. QED
    BY <1>8, <2>1, Completes DEF RunComplete
<1>9. QED
  BY <1>1, <1>2, <1>3, <1>4, <1>5, <1>6, <1>7, <1>8 DEF RunCrawl

\* The passes of schedulerTick.
LEMMA TickRefines ==
  ASSUME AllInv, Faults \cap Excluded = {}, Tick
  PROVE  [Row!Next]_<<rowView, promoted>>
<1>1. CASE TickReap
  <2>1. /\ {s \in Sessions : Reapable(s)} \in SUBSET Sessions
        /\ \A s \in {q \in Sessions : Reapable(q)} :
             status[s] = "active" /\ done[s] # "success"
    BY DEF Reapable
  <2>2. status' = [s \in Sessions |-> IF s \in {q \in Sessions : Reapable(q)}
                                      THEN "failed" ELSE status[s]]
    BY <1>1 DEF TickReap
  <2>3. UNCHANGED <<done, promoted>>
    BY <1>1 DEF TickReap
  <2>4. QED
    BY <2>1, <2>2, <2>3, Sweeps
<1>2. ASSUME NEW s \in Sessions, TickReapRaces(s)
      PROVE  [Row!Next]_<<rowView, promoted>>
  BY <1>2 DEF TickReapRaces, Excluded
<1>3. CASE TickJobs
  <2> DEFINE S == {s \in Sessions : status[s] = "cancelling" /\ lease[s] = "stale"}
  <2>1. status' = [s \in Sessions |-> IF s \in S THEN "cancelled" ELSE status[s]]
    BY <1>3 DEF TickJobs
  <2>2. S \in SUBSET Sessions /\ \A s \in S : status[s] = "cancelling"
    OBVIOUS
  <2>3. UNCHANGED <<done, promoted>>
    BY <1>3 DEF TickJobs
  <2> HIDE DEF S
  <2>4. QED
    BY <2>1, <2>2, <2>3, Sweeps
<1>4. CASE TickOrphans
  BY <1>4, Invisible DEF TickOrphans, rowVars
<1>5. CASE TickPromote
  <2>1. PICK s \in todo : StoreCrawlResults(s)
    BY <1>5 DEF TickPromote
  <2>2. s \in Sessions /\ done[s] = "success"
    BY DEF AllInv, TypeOK, FenceInv
  <2>3. QED
    BY <1>5, <2>1, <2>2, Promotes DEF TickPromote, rowVars
<1>6. CASE TickComplete
  <2>1. PICK s \in todo : MarkSessionTerminal(s, TRUE)
    BY <1>6 DEF TickComplete
  <2>2. s \in Sessions /\ done[s] = "success" /\ s \in promoted
    BY <1>6 DEF TickComplete, TickGoto, AllInv, TypeOK, FenceInv, DataInv, TodoInv
  <2>3. QED
    BY <1>6, <2>1, <2>2, Completes DEF TickComplete
<1>7. ASSUME NEW S \in SUBSET Sessions, TickSweep(S)
      PROVE  [Row!Next]_<<rowView, promoted>>
  <2>1. \A s \in S : rowView[s] # "none"
    BY <1>7 DEF TickSweep, Expired, Terminal, Locked, rowView
  <2>2. rowView' = [s \in Sessions |-> IF s \in S THEN "purged" ELSE rowView[s]]
    BY <1>7 DEF TickSweep, rowView
  <2>3. UNCHANGED promoted
    BY <1>7 DEF TickSweep
  <2>4. QED
    BY <2>1, <2>2, <2>3 DEF Row!Next, Row!Purge
<1>8. QED
  BY <1>1, <1>2, <1>3, <1>4, <1>5, <1>6, <1>7 DEF Tick

LEMMA NextRefines ==
  ASSUME AllInv, Faults \cap Excluded = {}, [Next]_vars
  PROVE  [Row!Next]_<<rowView, promoted>>
<1>1. ASSUME NEW s \in Sessions, CancelSession(s)
      PROVE  [Row!Next]_<<rowView, promoted>>
  <2>1. CASE CancelRequest(s)
    <3>1. status[s] = "cancelling" => status' = status
      BY <2>1 DEF CancelRequest, AllInv, TypeOK
    <3>2. QED
      BY <2>1, <3>1, Cancels DEF CancelRequest
  <2>2. CASE CancelFenced(s)
    BY <2>2, Moves DEF CancelFenced, FinalizeSessionCancellation
  <2>3. CASE CancelFenceFails(s)
    BY <2>3, Invisible DEF CancelFenceFails, rowVars
  <2>4. CASE RevokeDevice(s)
    BY <2>4 DEF RevokeDevice, Excluded
  <2>5. QED
    BY <1>1, <2>1, <2>2, <2>3, <2>4 DEF CancelSession
<1>2. ASSUME NEW s \in Sessions, Engine(s)
      PROVE  [Row!Next]_<<rowView, promoted>>
  <2>1. CASE EngineComplete(s)
    BY <2>1, EngineCompletes
  <2>2. CASE EngineCompleteThrows(s)
    BY <2>2 DEF EngineCompleteThrows, Excluded
  <2>3. CASE \/ EngineAccept(s) \/ EngineRefuse(s) \/ EnginePreflight(s)
             \/ EngineLoopEnds(s) \/ EngineClose(s) \/ EngineCloseFails(s)
             \/ EngineFence(s)
    <3>1. UNCHANGED <<status, done, promoted>>
      BY <2>3 DEF EngineAccept, EngineRefuse, EnginePreflight, EngineLoopEnds,
                  EngineClose, EngineCloseFails, EngineFence, EngineGoto,
                  controlVars, rowVars
    <3>2. QED
      BY <3>1, Invisible
  <2>4. QED
    BY <1>2, <2>1, <2>2, <2>3 DEF Engine
<1>3. ASSUME NEW s \in Sessions, LeaseLapses(s)
      PROVE  [Row!Next]_<<rowView, promoted>>
  BY <1>3, Invisible DEF LeaseLapses, rowVars
<1>4. CASE TickThrows \/ EngineCrash \/ ControlPlaneCrash \/ UNCHANGED vars
  <2>1. UNCHANGED <<status, done, promoted>>
    BY <1>4 DEF TickThrows, EngineCrash, ControlPlaneCrash, vars, controlVars,
                rowVars
  <2>2. QED
    BY <2>1, Invisible
<1>5. QED
  BY <1>1, <1>2, <1>3, <1>4, RunRefines, TickRefines DEF Next

\* Without lost answers, failing queries, the reaper's race or a revoked
\* device, CrawlSession implements SessionRow: however runCrawl, cancellations,
\* the engine and the tick interleave and whichever of them crashes, whoever
\* reads the rows sees only what the contract allows.
THEOREM ImplementsSessionRow ==
  ASSUME Faults \cap Excluded = {}
  PROVE  Spec => KeepsRowContract
<1>1. Init => Row!Init
  BY DEF Init, Row!Init, rowView
<1>2. AllInv /\ [Next]_vars => [Row!Next]_<<rowView, promoted>>
  BY NextRefines
<1>3. /\ "ackLost" \notin Faults /\ "dbError" \notin Faults
      /\ "deviceRevoked" \notin Faults
  BY DEF Excluded
<1>4. Spec => []AllInv
  <2>1. Spec => []CancelledNeverPromoted
    BY <1>3, CancelledClean
  <2>2. Spec => []FailedHasNoSuccess
    BY FailedClean DEF Excluded
  <2>3. Spec => []FenceInv
    BY <1>3, FenceSafe
  <2>4. QED
    BY <2>1, <2>2, <2>3, DataSafe, CompletedPromoted, PTL DEF AllInv
<1>5. QED
  BY <1>1, <1>2, <1>4, PTL DEF Spec, KeepsRowContract, Row!Spec
=============================================================================
