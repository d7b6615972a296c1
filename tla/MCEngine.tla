------------------------------- MODULE MCEngine ------------------------------
(* The parts of the crawl engine that share no variable, checked one at a     *)
(* time in one model: the initial state chooses the part, and only that part  *)
(* steps.  GatedSpec of AgentLoop composes the loop with the write gate.      *)
EXTENDS AgentLoop, StepTransactions, OtpMask, CrawlTabs, BrowserPool

CONSTANTS r1, r2, m1, m2, m3, i1, f1, f2, p1, p2, c1, c2, k1, k2

VARIABLE part

Init ==
  /\ part \in {"gate", "loop", "rows", "mask", "tabs", "pool"}
  /\ GateInit /\ AgentInit /\ TabsInit /\ PoolInit
  /\ IF part = "rows" THEN RowsInit
     ELSE /\ xRef = [m \in Movements |-> NONE]
          /\ xMap = [k \in Keys |-> Absent]
          /\ xDemoted = {} /\ xReports = 0 /\ xSeen = {}
  /\ MaskInit
  /\ part # "mask" => mField = [f \in Frames |-> "empty"]

vars == <<part, gateVars, agentVars, rowsVars, maskVars, tabsVars, poolVars>>

GatePart(A) == part = "gate" /\ A /\ UNCHANGED <<part, agentVars, rowsVars, maskVars, tabsVars, poolVars>>
LoopPart(A) == part = "loop" /\ A /\ UNCHANGED <<part, rowsVars, maskVars, tabsVars, poolVars>>

Next ==
  \/ GatePart(GateNext)
  \/ LoopPart(AgentNext)
  \/ part = "rows" /\ RowsNext /\ UNCHANGED <<part, gateVars, agentVars, maskVars, tabsVars, poolVars>>
  \/ part = "mask" /\ MaskNext /\ UNCHANGED <<part, gateVars, agentVars, rowsVars, tabsVars, poolVars>>
  \/ part = "tabs" /\ TabsNext /\ UNCHANGED <<part, gateVars, agentVars, rowsVars, maskVars, poolVars>>
  \/ part = "pool" /\ PoolNext /\ UNCHANGED <<part, gateVars, agentVars, rowsVars, maskVars, tabsVars>>

\* The vet's 15 s timer fires for every request that is held, and the loop's
\* awaits all return: each is bounded by a timeout of its own.
Spec ==
  /\ Init /\ [][Next]_vars
  /\ \A r \in Requests : WF_vars(GatePart(VetFails(r)))
  /\ WF_vars(LoopPart(LoopStep))

\* Nothing hangs: a held request is routed and a loop that began ends.
EngineMovesOn == HeldIsRouted /\ LoopEnds
=============================================================================
