------------------------------ MODULE WriteGate ------------------------------
(***************************************************************************)
(* The browser's request chokepoint: the egress guard (egress-guard.ts)    *)
(* pins every request to the bank's hosts, and the write gate              *)
(* (write-gate.ts) decides on each state-changing request.                 *)
(*                                                                         *)
(* A request is a record of what the guard can tell apart: whether its     *)
(* host is within the pinned suffixes, whether its method may change       *)
(* state, and the operation its identifier-shaped values name.  All        *)
(* requests go to one endpoint, the case in which the operation matters.   *)
(* Evaluation is atomic except for the call of the vet, during which other *)
(* requests are intercepted and the agent loop may change the phase.       *)
(***************************************************************************)
EXTENDS Naturals

CONSTANTS Requests,   \* requests that may be intercepted at the same time
          HasVet      \* BOOLEAN: a vet is configured

ASSUME VetAssumption == HasVet \in BOOLEAN

VARIABLES
  gPhase,     \* WriteGate.currentPhase
  gVerdicts,  \* WriteGate.verdicts: what was learnt, by cache key
  gBlocked,   \* WriteGate.blocked: refusals the model has not been told of
  gReq,       \* the intercepted requests
  gAsked      \* history: the answers the vet gave, with what it was shown

gateVars == <<gPhase, gVerdicts, gBlocked, gReq, gAsked>>

Phases == {"login", "extract"}
Verdicts == {"read", "write"}
Operations == {"list", "transfer"}
Kinds == [host : {"bank", "elsewhere"}, method : {"GET", "POST"}, op : Operations]

NoRequest == [step |-> "idle", kind |-> [host |-> "bank", method |-> "GET", op |-> "list"],
              phase |-> "login"]

\* Parameter names and identifier-shaped values of the body and the query
\* string: all that the vet sees of a request besides its method and path.
Shown(k) == <<k.method, k.op>>

\* The endpoint without the operation: what the comment on cacheKey warns of.
CacheKeyEndpoint(k) == <<k.method, "list">>

CacheKey(k) == Shown(k)

GateTypeOK ==
  /\ gPhase \in Phases
  /\ gVerdicts \in [{"GET", "POST"} \X Operations -> Verdicts \cup {"unknown"}]
  /\ gBlocked \subseteq Kinds
  /\ gReq \in [Requests -> [step : {"idle", "vetting", "sent", "aborted"},
                            kind : Kinds, phase : Phases]]
  /\ gAsked \subseteq ({"GET", "POST"} \X Operations) \X Verdicts

GateInit ==
  /\ gPhase = "login"
  /\ gVerdicts = [s \in {"GET", "POST"} \X Operations |-> "unknown"]
  /\ gBlocked = {}
  /\ gReq = [r \in Requests |-> NoRequest]
  /\ gAsked = {}

----------------------------------------------------------------------------

SetPhase(p) == gPhase' = p

IsUrlAllowed(k) == k.host = "bank"

IsNonIdempotent(k) == k.method = "POST"

Route(r, k, outcome) ==
  gReq' = [gReq EXCEPT ![r] = [step |-> outcome, kind |-> k, phase |-> gPhase]]

\* Refusals are told to the model, those of the egress guard are not.
Deny(k) == gBlocked' = gBlocked \cup {k}

\* installEgressGuard's route handler, for a request the gate need not see.
RouteAtOnce(r, k) ==
  /\ gReq[r].step # "vetting"
  /\ ~(IsUrlAllowed(k) /\ IsNonIdempotent(k))
  /\ Route(r, k, IF IsUrlAllowed(k) THEN "sent" ELSE "aborted")
  /\ UNCHANGED <<gPhase, gVerdicts, gBlocked, gAsked>>

\* evaluate, for a request it can decide without asking.
EvaluateKnown(r, k) ==
  /\ gReq[r].step # "vetting"
  /\ IsUrlAllowed(k) /\ IsNonIdempotent(k)
  /\ LET verdict == gVerdicts[CacheKey(k)]
     IN \/ /\ gPhase = "login" \/ verdict = "read"
           /\ Route(r, k, "sent")
           /\ UNCHANGED gBlocked
        \/ /\ gPhase = "extract"
           /\ verdict = "write" \/ (verdict = "unknown" /\ ~HasVet)
           /\ Deny(k)
           /\ Route(r, k, "aborted")
  /\ UNCHANGED <<gPhase, gVerdicts, gAsked>>

\* evaluate up to the call of the vet: the route is held meanwhile.
AskVet(r, k) ==
  /\ gReq[r].step # "vetting"
  /\ IsUrlAllowed(k) /\ IsNonIdempotent(k)
  /\ gPhase = "extract" /\ gVerdicts[CacheKey(k)] = "unknown" /\ HasVet
  /\ Route(r, k, "vetting")
  /\ UNCHANGED <<gPhase, gVerdicts, gBlocked, gAsked>>

\* The vet answers in time.  Neither the phase nor the cache is read again.
VetAnswers(r, v) ==
  LET k == gReq[r].kind
  IN /\ gReq[r].step = "vetting"
     /\ gVerdicts' = [gVerdicts EXCEPT ![CacheKey(k)] = v]
     /\ gAsked' = gAsked \cup {<<Shown(k), v>>}
     /\ gReq' = [gReq EXCEPT ![r].step = IF v = "read" THEN "sent" ELSE "aborted"]
     /\ IF v = "read" THEN UNCHANGED gBlocked ELSE Deny(k)
     /\ UNCHANGED gPhase

\* The vet throws or is not heard of for 15 seconds: refused, and not cached.
VetFails(r) ==
  /\ gReq[r].step = "vetting"
  /\ gReq' = [gReq EXCEPT ![r].step = "aborted"]
  /\ Deny(gReq[r].kind)
  /\ UNCHANGED <<gPhase, gVerdicts, gAsked>>

DrainBlocked == gBlocked' = {}

\* The agent loop's use of the gate (AgentLoop says when).
AgentUsesGate ==
  \/ \E p \in Phases : SetPhase(p) /\ UNCHANGED <<gVerdicts, gBlocked, gReq, gAsked>>
  \/ DrainBlocked /\ UNCHANGED <<gPhase, gVerdicts, gReq, gAsked>>

Intercept ==
  \E r \in Requests, k \in Kinds :
    RouteAtOnce(r, k) \/ EvaluateKnown(r, k) \/ AskVet(r, k)

VetEnds(r) == VetFails(r) \/ \E v \in Verdicts : VetAnswers(r, v)

GateNext == Intercept \/ (\E r \in Requests : VetEnds(r)) \/ AgentUsesGate

\* The gate under any client: the phase may change between any two steps.
GateSpec == GateInit /\ [][GateNext]_gateVars

----------------------------------------------------------------------------

\* write-gate.ts denies by default: a state-changing request that was
\* intercepted in the extract phase leaves the browser only if the vet called
\* exactly this request (all it was shown of it) a read, now or earlier, and no
\* request leaves for a host the crawl is not pinned to.
GateDeniesByDefault ==
  \A r \in Requests : gReq[r].step = "sent" =>
    /\ gReq[r].kind.host = "bank"
    /\ \/ gReq[r].kind.method = "GET"
       \/ gReq[r].phase = "login"
       \/ <<Shown(gReq[r].kind), "read">> \in gAsked

\* A held request is routed in the end ("an unrouted request stalls the page
\* forever"): the vet's timer answers when the vet does not.
HeldIsRouted == \A r \in Requests : gReq[r].step = "vetting" ~> gReq[r].step # "vetting"
=============================================================================
