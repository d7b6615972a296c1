---------------------------- MODULE DeviceTunnel ----------------------------
(***************************************************************************)
(* tunnel-server.ts, for one session: a device-proxy crawl is parked until *)
(* the companion's WebSocket wins the single-use claim, runs behind a      *)
(* SOCKS5 listener, and every path to the bank is closed before the parked *)
(* promise is resolved.  fenceCrawl cancels all of it.                     *)
(*                                                                         *)
(* Code between two awaits is one step.  Parks are numbered in the order   *)
(* of the dispatches; uCur is the entry of the map parkedCrawls, 0 if none.*)
(* closeTunnel is shared: whoever calls it while one runs waits for that.  *)
(***************************************************************************)
EXTENDS Naturals

CONSTANTS Sockets,        \* companion WebSockets
          Fencers,        \* fenceCrawl calls
          MaxParks,       \* bound: dispatches of the session
          MaxCloseFails,  \* bound: teardowns that fail
          NoSocket

ASSUME ParkAssumption == MaxParks \in Nat /\ MaxCloseFails \in Nat /\ NoSocket \notin Sockets

VARIABLES
  uPark,     \* each parked crawl: its promise, claimed, its timer and its TTL callback
  uCur,      \* parkedCrawls.get(sessionId)
  uFenced,   \* fencedCrawls.has(sessionId)
  uHand,     \* handleCompanionConnection of each socket
  uLive,     \* sockets still open (pendingWebSockets)
  uTunnel,   \* activeTunnels.get(sessionId): the socket it belongs to
  uListen,   \* SOCKS5 listeners that accept connections
  uBrowser,  \* crawls whose browser context is open
  uClose,    \* the closeTunnel in flight
  uFence,    \* each fenceCrawl
  uFails,    \* teardowns that failed so far
  uRow       \* the session row: active, and whether its tunnel is claimed

tunnelVars == <<uPark, uCur, uFenced, uHand, uLive, uTunnel, uListen, uBrowser,
                uClose, uFence, uFails, uRow>>

Parks == 1..MaxParks
HandlerSteps == {"idle", "claiming", "answered", "releasing", "binding", "crawling",
                 "fencing", "completing", "teardown", "done"}
CloseResults == {"none", "waiting", "ok", "failed"}

TunnelTypeOK ==
  /\ uPark \in [Parks -> [st : {"unused", "waiting", "result", "failed", "superseded", "fenced",
                                "expired"},
                          claimed : BOOLEAN, timer : BOOLEAN, ttl : {"none", "writing", "written"}]]
  /\ \A p \in Parks : uPark[p].timer => uPark[p].st = "waiting"
  /\ uCur \in 0..MaxParks /\ uFenced \in BOOLEAN
  /\ uHand \in [Sockets -> [pc : HandlerSteps, won : BOOLEAN, park : 0..MaxParks,
                            close : CloseResults, fatal : BOOLEAN]]
  /\ uLive \subseteq Sockets /\ uListen \subseteq Sockets /\ uBrowser \subseteq Sockets
  /\ uTunnel \in Sockets \cup {NoSocket}
  /\ uClose \in [on : BOOLEAN, tunnel : Sockets \cup {NoSocket}, fails : BOOLEAN]
  /\ uFence \in [Fencers -> [pc : {"idle", "first", "binds", "second", "lifecycle", "done", "failed"},
                             close : CloseResults, park : 0..MaxParks,
                             life : Sockets \cup {NoSocket}]]
  /\ uFails \in 0..MaxCloseFails
  /\ uRow \in [active : BOOLEAN, claimed : BOOLEAN]

TunnelInit ==
  /\ uPark = [p \in Parks |-> [st |-> "unused", claimed |-> FALSE, timer |-> FALSE, ttl |-> "none"]]
  /\ uCur = 0 /\ uFenced = FALSE
  /\ uHand = [s \in Sockets |-> [pc |-> "idle", won |-> FALSE, park |-> 0, close |-> "none",
                                 fatal |-> FALSE]]
  /\ uLive = {} /\ uListen = {} /\ uBrowser = {} /\ uTunnel = NoSocket
  /\ uClose = [on |-> FALSE, tunnel |-> NoSocket, fails |-> FALSE]
  /\ uFence = [f \in Fencers |-> [pc |-> "idle", close |-> "none", park |-> 0, life |-> NoSocket]]
  /\ uFails = 0
  /\ uRow = [active |-> TRUE, claimed |-> FALSE]

----------------------------------------------------------------------------
(* The park registry.                                                      *)

\* settleParked and rejectParked: the first settlement wins, and it removes
\* the map entry whichever park that is.
Settled(park, p, st) ==
  IF p # 0 /\ park[p].st = "waiting"
  THEN [park EXCEPT ![p].st = st, ![p].timer = FALSE] ELSE park

CurAfter(p) == IF p # 0 /\ uPark[p].st = "waiting" THEN 0 ELSE uCur

\* parkCrawlRequest: a fenced session gets its answer at once; a park that is
\* already there is settled before the new one takes its place.
ParkCrawlRequest(p) ==
  /\ uPark[p].st = "unused" /\ \A q \in Parks : q < p => uPark[q].st # "unused"
  /\ IF uFenced
     THEN /\ uPark' = [uPark EXCEPT ![p].st = "fenced"]
          /\ UNCHANGED uCur
     ELSE /\ uPark' = [Settled(uPark, uCur, "superseded") EXCEPT
                         ![p].st = "waiting", ![p].timer = TRUE]
          /\ uCur' = p
  /\ UNCHANGED <<uFenced, uHand, uLive, uTunnel, uListen, uBrowser, uClose, uFence, uFails, uRow>>

\* The connect-wait timer: it looks at the entry that is parked now and gives
\* up unless that is unclaimed; then completeSession is awaited.
TtlFires(p) ==
  /\ uPark[p].timer
  /\ IF uCur # 0 /\ uPark[uCur].st = "waiting" /\ ~uPark[uCur].claimed
     THEN uPark' = [uPark EXCEPT ![p].timer = FALSE, ![uCur].ttl = "writing"]
     ELSE uPark' = [uPark EXCEPT ![p].timer = FALSE]
  /\ UNCHANGED <<uCur, uFenced, uHand, uLive, uTunnel, uListen, uBrowser, uClose, uFence, uFails, uRow>>

\* The terminal write lands, or fails and is only logged.
TtlWrites(p) ==
  /\ uPark[p].ttl = "writing"
  /\ uPark' = [uPark EXCEPT ![p].ttl = "written"]
  /\ \E ok \in BOOLEAN : uRow' = [uRow EXCEPT !.active = @ /\ ~ok]
  /\ UNCHANGED <<uCur, uFenced, uHand, uLive, uTunnel, uListen, uBrowser, uClose, uFence, uFails>>

\* .finally: the park is settled without looking at claimed again.
TtlSettles(p) ==
  /\ uPark[p].ttl = "written"
  /\ uPark' = [Settled(uPark, p, "expired") EXCEPT ![p].ttl = "none"]
  /\ uCur' = CurAfter(p)
  /\ UNCHANGED <<uFenced, uHand, uLive, uTunnel, uListen, uBrowser, uClose, uFence, uFails, uRow>>

----------------------------------------------------------------------------
(* closeTunnel.                                                            *)

\* What a caller of closeTunnel gets at once: it joins the teardown in flight,
\* returns when there is nothing to close, or starts one, which terminates
\* every socket before its first await.
JoinClose == IF uClose.on \/ uTunnel # NoSocket \/ uLive # {} THEN "waiting" ELSE "ok"
StartsClose == ~uClose.on /\ (uTunnel # NoSocket \/ uLive # {})

StartClose ==
  IF StartsClose
  THEN \E fails \in BOOLEAN :
         /\ fails => uFails < MaxCloseFails
         /\ uFails' = IF fails THEN uFails + 1 ELSE uFails
         /\ uClose' = [on |-> TRUE, tunnel |-> uTunnel, fails |-> fails]
         /\ uLive' = IF fails THEN uLive ELSE {}
  ELSE UNCHANGED <<uClose, uFails, uLive>>

Told(r, result) == IF r.close = "waiting" THEN [r EXCEPT !.close = result] ELSE r

\* socks5.close() has answered.  A teardown with a failure keeps the tunnel
\* registered and throws to everyone that waits for it.
CloseEnds ==
  /\ uClose.on
  /\ uClose' = [on |-> FALSE, tunnel |-> NoSocket, fails |-> FALSE]
  /\ uListen' = uListen \ {uClose.tunnel}
  /\ uTunnel' = IF ~uClose.fails /\ uTunnel = uClose.tunnel THEN NoSocket ELSE uTunnel
  /\ LET result == IF uClose.fails THEN "failed" ELSE "ok"
     IN  /\ uHand' = [s \in Sockets |-> Told(uHand[s], result)]
         /\ uFence' = [f \in Fencers |-> Told(uFence[f], result)]
  /\ UNCHANGED <<uPark, uCur, uFenced, uLive, uBrowser, uFails, uRow>>

\* The socket goes away by itself.  Once the bridge is wired, onWsGone closes
\* the whole tunnel in the background.
SocketGone(s) ==
  /\ s \in uLive
  /\ IF uHand[s].pc \in {"crawling", "fencing", "completing"} /\ StartsClose
     THEN \E fails \in BOOLEAN :
            /\ fails => uFails < MaxCloseFails
            /\ uFails' = IF fails THEN uFails + 1 ELSE uFails
            /\ uClose' = [on |-> TRUE, tunnel |-> uTunnel, fails |-> fails]
            /\ uLive' = IF fails THEN uLive \ {s} ELSE {}
     ELSE uLive' = uLive \ {s} /\ UNCHANGED <<uClose, uFails>>
  /\ UNCHANGED <<uPark, uCur, uFenced, uHand, uTunnel, uListen, uBrowser, uFence, uRow>>

----------------------------------------------------------------------------
(* The companion's connection.                                             *)

\* attachTunnelHandler: a verified token for this session, no fence.
Upgrade(s) ==
  /\ uHand[s].pc = "idle" /\ ~uFenced
  /\ uHand' = [uHand EXCEPT ![s].pc = "claiming"]
  /\ uLive' = uLive \cup {s}
  /\ UNCHANGED <<uPark, uCur, uFenced, uTunnel, uListen, uBrowser, uClose, uFence, uFails, uRow>>

\* loadTunnelContext in the database: one connection wins the claim.
ClaimTunnel(s) ==
  /\ uHand[s].pc = "claiming"
  /\ LET won == uRow.active /\ ~uRow.claimed
     IN  /\ uHand' = [uHand EXCEPT ![s].pc = "answered", ![s].won = won]
         /\ uRow' = [uRow EXCEPT !.claimed = @ \/ won]
  /\ UNCHANGED <<uPark, uCur, uFenced, uLive, uTunnel, uListen, uBrowser, uClose, uFence, uFails>>

Claimable(p) == p # 0 /\ uPark[p].st = "waiting" /\ ~uPark[p].claimed

\* The answer of the claim is handled: refused, fenced meanwhile, no parked
\* crawl yet, a park that is taken, or a bind that starts.
ClaimAnswered(s) ==
  /\ uHand[s].pc = "answered"
  /\ CASE ~uHand[s].won \/ uFenced ->
            /\ uHand' = [uHand EXCEPT ![s].pc = "done"]
            /\ uLive' = uLive \ {s}
            /\ UNCHANGED uPark
       [] uHand[s].won /\ ~uFenced /\ uCur = 0 ->
            uHand' = [uHand EXCEPT ![s].pc = "releasing"] /\ UNCHANGED <<uLive, uPark>>
       [] uHand[s].won /\ ~uFenced /\ uCur # 0 /\ ~Claimable(uCur) ->
            /\ uHand' = [uHand EXCEPT ![s].pc = "done"]
            /\ uLive' = uLive \ {s}
            /\ UNCHANGED uPark
       [] uHand[s].won /\ ~uFenced /\ Claimable(uCur) ->
            /\ uHand' = [uHand EXCEPT ![s].pc = "binding", ![s].park = uCur]
            /\ uPark' = [uPark EXCEPT ![uCur].claimed = TRUE, ![uCur].timer = FALSE]
            /\ UNCHANGED uLive
  /\ UNCHANGED <<uCur, uFenced, uTunnel, uListen, uBrowser, uClose, uFence, uFails, uRow>>

\* releaseTunnelClaim, so that the next connection can win.  A failed release
\* is only logged.
ReleaseClaim(s) ==
  /\ uHand[s].pc = "releasing"
  /\ uHand' = [uHand EXCEPT ![s].pc = "done"]
  /\ uLive' = uLive \ {s}
  /\ \E ok \in BOOLEAN : uRow' = [uRow EXCEPT !.claimed = @ /\ ~ok]
  /\ UNCHANGED <<uPark, uCur, uFenced, uTunnel, uListen, uBrowser, uClose, uFence, uFails>>

\* createSocks5Server returned and the listener is published.  If the session
\* was fenced meanwhile the handler stops here: the fence closes the listener
\* and settles the park.  Otherwise executeCrawl opens its browser.
BindEnds(s) ==
  /\ uHand[s].pc = "binding"
  /\ uListen' = uListen \cup {s} /\ uTunnel' = s
  /\ IF uFenced
     THEN uHand' = [uHand EXCEPT ![s].pc = "done"] /\ UNCHANGED uBrowser
     ELSE /\ uHand' = [uHand EXCEPT ![s].pc = "crawling"]
          /\ uBrowser' = uBrowser \cup {s}
  /\ UNCHANGED <<uPark, uCur, uFenced, uLive, uClose, uFence, uFails, uRow>>

BindFails(s) ==
  /\ uHand[s].pc = "binding"
  /\ uHand' = [uHand EXCEPT ![s].pc = "teardown", ![s].close = JoinClose]
  /\ StartClose
  /\ UNCHANGED <<uPark, uCur, uFenced, uTunnel, uListen, uBrowser, uFence, uRow>>

\* The agent loop ends, fails, is aborted or outruns its watchdog; the browser
\* context is closed and beforeSessionCompletion closes the tunnel.
CrawlEnds(s) ==
  /\ uHand[s].pc = "crawling"
  /\ uBrowser' = uBrowser \ {s}
  /\ uHand' = [uHand EXCEPT ![s].pc = "fencing", ![s].close = JoinClose]
  /\ StartClose
  /\ UNCHANGED <<uPark, uCur, uFenced, uTunnel, uListen, uFence, uRow>>

\* A context that cannot be closed: CrawlCleanupError, nothing terminal is
\* written, the context stays registered.
BrowserCloseFails(s) ==
  /\ uHand[s].pc = "crawling" /\ uFails < MaxCloseFails
  /\ uHand' = [uHand EXCEPT ![s].pc = "teardown", ![s].fatal = TRUE, ![s].close = JoinClose]
  /\ StartClose
  /\ UNCHANGED <<uPark, uCur, uFenced, uTunnel, uListen, uBrowser, uFence, uRow>>

\* completeSession is called only behind a closed tunnel; otherwise the error
\* is fatal.  Either way the handler closes the tunnel once more.
TunnelFenced(s) ==
  /\ uHand[s].pc = "fencing" /\ uHand[s].close \in {"ok", "failed"}
  /\ IF uHand[s].close = "ok"
     THEN /\ uHand' = [uHand EXCEPT ![s].pc = "completing", ![s].close = "none"]
          /\ UNCHANGED <<uClose, uFails, uLive>>
     ELSE /\ uHand' = [uHand EXCEPT ![s].pc = "teardown", ![s].fatal = TRUE, ![s].close = JoinClose]
          /\ StartClose
  /\ UNCHANGED <<uPark, uCur, uFenced, uTunnel, uListen, uBrowser, uFence, uRow>>

CompleteSession(s) ==
  /\ uHand[s].pc = "completing"
  /\ uRow' = [uRow EXCEPT !.active = FALSE]
  /\ uHand' = [uHand EXCEPT ![s].pc = "teardown", ![s].close = JoinClose]
  /\ StartClose
  /\ UNCHANGED <<uPark, uCur, uFenced, uTunnel, uListen, uBrowser, uFence>>

\* Mutant: a failed fence is only logged.
HandlerEndsUnrejected(s) ==
  /\ uHand[s].pc = "teardown" /\ uHand[s].close \in {"ok", "failed"}
  /\ IF uHand[s].fatal \/ uHand[s].close = "failed"
     THEN UNCHANGED <<uPark, uCur>>
     ELSE /\ uPark' = Settled(uPark, uHand[s].park, "result")
          /\ uCur' = CurAfter(uHand[s].park)
  /\ uHand' = [uHand EXCEPT ![s].pc = "done", ![s].close = "none"]
  /\ UNCHANGED <<uFenced, uLive, uTunnel, uListen, uBrowser, uClose, uFence, uFails, uRow>>

\* The handler's end: the park is resolved with the outcome behind a closed
\* tunnel, rejected otherwise; finishLifecycle.
HandlerEnds(s) ==
  /\ uHand[s].pc = "teardown" /\ uHand[s].close \in {"ok", "failed"}
  /\ LET bad == uHand[s].fatal \/ uHand[s].close = "failed"
     IN  uPark' = Settled(uPark, uHand[s].park, IF bad THEN "failed" ELSE "result")
  /\ uCur' = CurAfter(uHand[s].park)
  /\ uHand' = [uHand EXCEPT ![s].pc = "done", ![s].close = "none"]
  /\ UNCHANGED <<uFenced, uLive, uTunnel, uListen, uBrowser, uClose, uFence, uFails, uRow>>

----------------------------------------------------------------------------
(* fenceCrawl.                                                             *)

\* crawlLifecycles.get(sessionId): from the claim of a park to finishLifecycle.
InLifecycle(s) ==
  uHand[s].pc \in {"binding", "crawling", "fencing", "completing", "teardown"}
Lifecycle == IF \E s \in Sockets : InLifecycle(s)
             THEN CHOOSE s \in Sockets : InLifecycle(s) ELSE NoSocket

\* The tombstone first; the abort of the lifecycle makes its CrawlEnds due.
FenceStarts(f) ==
  /\ uFence[f].pc = "idle"
  /\ uFenced' = TRUE
  /\ uFence' = [uFence EXCEPT ![f] = [pc |-> "first", close |-> JoinClose,
                                      park |-> uCur, life |-> Lifecycle]]
  /\ StartClose
  /\ UNCHANGED <<uPark, uCur, uHand, uTunnel, uListen, uBrowser, uRow>>

\* A failed teardown is thrown to the owner, who terminates the process.
FenceThrows(f) ==
  /\ uFence[f].pc \in {"first", "second"} /\ uFence[f].close = "failed"
  /\ uFence' = [uFence EXCEPT ![f].pc = "failed"]
  /\ UNCHANGED <<uPark, uCur, uFenced, uHand, uLive, uTunnel, uListen, uBrowser, uClose, uFails, uRow>>

FenceWaitsForBinds(f) ==
  /\ uFence[f].pc = "first" /\ uFence[f].close = "ok"
  /\ uFence' = [uFence EXCEPT ![f].pc = "binds"]
  /\ UNCHANGED <<uPark, uCur, uFenced, uHand, uLive, uTunnel, uListen, uBrowser, uClose, uFails, uRow>>

\* Mutant: the tunnel is not swept again after the binds.
FenceSweepsOnce(f) ==
  /\ uFence[f].pc = "binds"
  /\ uFence' = [uFence EXCEPT ![f].pc = "lifecycle"]
  /\ UNCHANGED <<uPark, uCur, uFenced, uHand, uLive, uTunnel, uListen, uBrowser, uClose, uFails, uRow>>

\* Every bind has published its listener or failed: sweep again.
FenceSweepsAgain(f) ==
  /\ uFence[f].pc = "binds"
  /\ \A s \in Sockets : uHand[s].pc # "binding"
  /\ uFence' = [uFence EXCEPT ![f].pc = "second", ![f].close = JoinClose]
  /\ StartClose
  /\ UNCHANGED <<uPark, uCur, uFenced, uHand, uTunnel, uListen, uBrowser, uRow>>

FenceWaitsForLifecycle(f) ==
  /\ uFence[f].pc = "second" /\ uFence[f].close = "ok"
  /\ uFence' = [uFence EXCEPT ![f].pc = "lifecycle"]
  /\ UNCHANGED <<uPark, uCur, uFenced, uHand, uLive, uTunnel, uListen, uBrowser, uClose, uFails, uRow>>

FenceEnds(f) ==
  /\ uFence[f].pc = "lifecycle"
  /\ uFence[f].life # NoSocket => ~InLifecycle(uFence[f].life)
  /\ uPark' = Settled(uPark, uFence[f].park, "fenced")
  /\ uCur' = CurAfter(uFence[f].park)
  /\ uFence' = [uFence EXCEPT ![f].pc = "done"]
  /\ UNCHANGED <<uFenced, uHand, uLive, uTunnel, uListen, uBrowser, uClose, uFails, uRow>>

----------------------------------------------------------------------------

\* Steps of the engine and the database that always come; the companion and
\* the owner's fence may never.
TunnelProgress ==
  \/ \E p \in Parks : TtlFires(p) \/ TtlWrites(p) \/ TtlSettles(p)
  \/ CloseEnds
  \/ \E s \in Sockets :
        \/ ClaimTunnel(s) \/ ClaimAnswered(s) \/ ReleaseClaim(s)
        \/ BindEnds(s) \/ BindFails(s) \/ CrawlEnds(s) \/ BrowserCloseFails(s)
        \/ TunnelFenced(s) \/ CompleteSession(s) \/ HandlerEnds(s)
  \/ \E f \in Fencers :
        \/ FenceThrows(f) \/ FenceWaitsForBinds(f) \/ FenceSweepsAgain(f)
        \/ FenceWaitsForLifecycle(f) \/ FenceEnds(f)

TunnelNext ==
  \/ TunnelProgress
  \/ \E p \in Parks : ParkCrawlRequest(p)
  \/ \E s \in Sockets : Upgrade(s) \/ SocketGone(s)
  \/ \E f \in Fencers : FenceStarts(f)

TunnelSpec == TunnelInit /\ [][TunnelNext]_tunnelVars

----------------------------------------------------------------------------

\* A positive fence is the control plane's licence to start a replacement:
\* once fenceCrawl has returned, no listener, socket or browser of the session
\* is left and nothing is waiting, although a claim or a bind was in flight
\* when it was called.  (A crawl that could not close its browser rejects its
\* own park and is reported there.)
FenceLeavesNothing ==
  \A f \in Fencers :
    uFence[f].pc = "done" =>
      /\ uLive = {} /\ uListen = {}
      /\ \A s \in uBrowser : uHand[s].pc = "done" /\ uHand[s].fatal
      /\ \A p \in Parks : uPark[p].st # "waiting"

\* A parked promise that reports the outcome of its crawl is resolved only
\* when neither the browser nor the SOCKS listener of that crawl is left.
ResultBehindClosedTunnel ==
  \A s \in Sockets :
    (uHand[s].pc = "done" /\ uHand[s].park # 0 /\ uPark[uHand[s].park].st = "result")
      => s \notin uBrowser /\ s \notin uListen

\* No dispatcher is orphaned: a promise that is still pending is the one the
\* map holds, so a claim, the timer or the fence can still reach it.
PendingIsParked == \A p \in Parks : uPark[p].st = "waiting" => uCur = p

\* No worker waits for ever: a parked promise is settled, by its timer if no
\* companion comes, or a fence failed and its owner ends the process.
ParkedIsSettled ==
  \A p \in Parks :
    (uPark[p].st = "waiting")
      ~> (uPark[p].st # "waiting" \/ \E f \in Fencers : uFence[f].pc = "failed")

\* "The connect-wait TTL no longer applies and must never tear down a live
\* crawl": a park that expired was never claimed.
\* TLC refutes this: see "Known disagreements" in the README.
TtlSparesLiveCrawl == \A p \in Parks : uPark[p].st = "expired" => ~uPark[p].claimed

\* Whoever is told that a crawl through the phone is over is told the truth, and
\* whoever is not told yet can still be reached.
TeardownIsComplete ==
  TunnelTypeOK /\ FenceLeavesNothing /\ ResultBehindClosedTunnel /\ PendingIsParked
=============================================================================
