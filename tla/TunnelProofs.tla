--------------------------- MODULE TunnelProofs ----------------------------
(***************************************************************************)
(* The device tunnel: the sockets that come and go around one crawl, and   *)
(* the connections to the bank that one socket carries.                    *)
(***************************************************************************)
EXTENDS DeviceTunnel, TunnelBridge, SequenceTheorems, FiniteSetTheorems,
        WellFoundedInduction, TLAPS

-----------------------------------------------------------------------------
(***************************************************************************)
(* A crawl's tunnel, for any number of sockets, parks and reconnections.   *)
(***************************************************************************)

BoundSteps == {"crawling", "fencing", "completing", "teardown", "done"}

\* The entry of the map is the promise that is pending.
CurIsWaiting == \A p \in Parks : uPark[p].st = "waiting" <=> uCur = p

\* A connection holds the session's claim, or held it and has a park.
HoldsClaim(s) == uHand[s].won /\ (uHand[s].pc # "done" \/ uHand[s].park # 0)
OneHolder == /\ \A s, t \in Sockets : HoldsClaim(s) /\ HoldsClaim(t) => s = t
             /\ \A s \in Sockets : HoldsClaim(s) => uRow.claimed

\* What a handler owns at each of its steps.
HandlerFits(s) ==
  /\ uHand[s].pc \in {"idle", "claiming"} => ~uHand[s].won
  /\ uHand[s].pc \in {"idle", "claiming", "answered", "releasing"} => uHand[s].park = 0
  /\ InLifecycle(s) => uHand[s].park # 0
  /\ uHand[s].pc = "releasing" \/ uHand[s].park # 0 => uHand[s].won
  /\ s \in uBrowser => uHand[s].pc = "crawling" \/ (uHand[s].pc \in {"teardown", "done"} /\ uHand[s].fatal)
  /\ uHand[s].close = "waiting" => uClose.on
  /\ uHand[s].park # 0 /\ uHand[s].pc # "done" => uPark[uHand[s].park].st # "result"

\* The listener is the registered tunnel's, and a handler that waits for its
\* teardown waits for the teardown of its own listener.
ListenerFits(s) ==
  /\ s \in uListen => uTunnel = s
  /\ uTunnel = s => uHand[s].park # 0 /\ uHand[s].pc \in BoundSteps
  /\ s \in uListen /\ uHand[s].pc \in {"fencing", "completing", "teardown"} => uHand[s].close = "waiting"
  /\ s \in uListen /\ uHand[s].pc # "done" /\ uClose.on => uClose.tunnel = s

\* Without a fence only a handler that has bound closes the tunnel; under a
\* fence, a teardown that overlaps a bind has ended every socket, or fails.
ClosesFit ==
  /\ uClose.on /\ ~uFenced => \E t \in Sockets : uHand[t].park # 0 /\ uHand[t].pc \in BoundSteps
  /\ \A s \in Sockets : uFenced /\ uHand[s].pc = "binding" /\ uClose.on => uClose.fails \/ uLive = {}

\* What a fence has behind it at each of its steps.
Swept(f) == uFence[f].pc \in {"first", "binds", "second", "lifecycle", "done"}
            /\ ~(uFence[f].pc = "first" /\ uFence[f].close # "ok")
FenceFits(f) ==
  /\ uFence[f].pc # "idle" => uFenced /\ uCur \in {0, uFence[f].park}
  /\ uFence[f].pc # "idle" => \A s \in Sockets : InLifecycle(s) => uFence[f].life = s
  /\ uFence[f].close = "waiting" => uClose.on
  /\ Swept(f) /\ uClose.on /\ ~uClose.fails => uLive = {}
  /\ Swept(f) => \A s \in Sockets : uHand[s].pc = "binding" => uLive = {} /\ ~uClose.on
  /\ Swept(f) /\ uClose.on => \A s \in uListen : uClose.tunnel = s
  /\ uFence[f].pc \in {"second", "lifecycle", "done"} => \A s \in Sockets : uHand[s].pc # "binding"
  /\ (uFence[f].pc = "second" /\ uFence[f].close = "ok") \/ uFence[f].pc \in {"lifecycle", "done"} =>
       uLive = {} /\ uListen = {}
  /\ uFence[f].pc = "done" => uCur = 0 /\ \A s \in Sockets : ~InLifecycle(s)

TunnelInv ==
  /\ TunnelTypeOK /\ CurIsWaiting /\ OneHolder /\ ClosesFit /\ ResultBehindClosedTunnel
  /\ \A s \in Sockets : HandlerFits(s) /\ ListenerFits(s)
  /\ \A f \in Fencers : FenceFits(f)

ParkStates == {"unused", "waiting", "result", "failed", "superseded", "fenced", "expired"}
ParkRecords == [st : ParkStates, claimed : BOOLEAN, timer : BOOLEAN, ttl : {"none", "writing", "written"}]
HandRecords == [pc : HandlerSteps, won : BOOLEAN, park : 0..MaxParks, close : CloseResults, fatal : BOOLEAN]
CloseRecords == [on : BOOLEAN, tunnel : Sockets \cup {NoSocket}, fails : BOOLEAN]
FenceRecords == [pc : {"idle", "first", "binds", "second", "lifecycle", "done", "failed"}, close : CloseResults,
                 park : 0..MaxParks, life : Sockets \cup {NoSocket}]
RowRecords == [active : BOOLEAN, claimed : BOOLEAN]

ParksOK == uPark \in [Parks -> ParkRecords] /\ \A p \in Parks : uPark[p].timer => uPark[p].st = "waiting"
RestOK ==
  /\ uCur \in 0..MaxParks /\ uFenced \in BOOLEAN /\ uHand \in [Sockets -> HandRecords]
  /\ uLive \subseteq Sockets /\ uListen \subseteq Sockets /\ uBrowser \subseteq Sockets
  /\ uTunnel \in Sockets \cup {NoSocket} /\ uClose \in CloseRecords /\ uFence \in [Fencers -> FenceRecords]
  /\ uFails \in 0..MaxCloseFails /\ uRow \in RowRecords

LEMMA TunnelTypes == TunnelTypeOK <=> ParksOK /\ RestOK
BY DEF TunnelTypeOK, ParksOK, RestOK, ParkRecords, ParkStates, HandRecords, CloseRecords, FenceRecords,
   RowRecords

LEMMA TunnelTypesNext == ParksOK' /\ RestOK' => TunnelTypeOK'
BY DEF TunnelTypeOK, ParksOK, RestOK, ParkRecords, ParkStates, HandRecords, CloseRecords, FenceRecords,
   RowRecords

\* A handler's record after a step.
Becomes(s, pc, won, park, close, fatal) ==
  uHand' = [uHand EXCEPT ![s] = [pc |-> pc, won |-> won, park |-> park, close |-> close, fatal |-> fatal]]

LEMMA BecomesIs ==
  ASSUME RestOK, NEW s \in Sockets, NEW pc \in HandlerSteps, NEW won \in BOOLEAN, NEW park \in 0..MaxParks,
         NEW close \in CloseResults, NEW fatal \in BOOLEAN, Becomes(s, pc, won, park, close, fatal)
  PROVE  /\ uHand' \in [Sockets -> HandRecords]
         /\ uHand'[s].pc = pc /\ uHand'[s].won = won /\ uHand'[s].park = park /\ uHand'[s].close = close
         /\ uHand'[s].fatal = fatal
         /\ \A t \in Sockets : t # s => uHand'[t] = uHand[t]
<1> DEFINE y == [pc |-> pc, won |-> won, park |-> park, close |-> close, fatal |-> fatal]
<1>1. y \in HandRecords /\ y.pc = pc /\ y.won = won /\ y.park = park /\ y.close = close /\ y.fatal = fatal
  BY DEF HandRecords
<1>2. uHand \in [Sockets -> HandRecords] /\ uHand' = [uHand EXCEPT ![s] = y]
  BY DEF RestOK, Becomes
<1> HIDE DEF y
<1> QED
  BY <1>1, <1>2

LEMMA HandFields ==
  ASSUME RestOK, NEW s \in Sockets
  PROVE  /\ uHand[s].pc \in HandlerSteps /\ uHand[s].won \in BOOLEAN /\ uHand[s].park \in 0..MaxParks
         /\ uHand[s].close \in CloseResults /\ uHand[s].fatal \in BOOLEAN
         /\ uHand[s] = [pc |-> uHand[s].pc, won |-> uHand[s].won, park |-> uHand[s].park, close |-> uHand[s].close,
                        fatal |-> uHand[s].fatal]
<1>1. uHand[s] \in HandRecords
  BY DEF RestOK
<1> QED
  BY <1>1 DEF HandRecords

\* What a step of a handler assigns.
LEMMA BecomesBy ==
  ASSUME RestOK, NEW s \in Sockets, NEW pc, NEW b, NEW c
  PROVE  LET x == uHand[s] IN
         /\ uHand' = [uHand EXCEPT ![s].pc = pc] => Becomes(s, pc, x.won, x.park, x.close, x.fatal)
         /\ uHand' = [uHand EXCEPT ![s].pc = pc, ![s].won = b] => Becomes(s, pc, b, x.park, x.close, x.fatal)
         /\ uHand' = [uHand EXCEPT ![s].pc = pc, ![s].park = b] => Becomes(s, pc, x.won, b, x.close, x.fatal)
         /\ uHand' = [uHand EXCEPT ![s].pc = pc, ![s].close = b] => Becomes(s, pc, x.won, x.park, b, x.fatal)
         /\ uHand' = [uHand EXCEPT ![s].pc = pc, ![s].fatal = b, ![s].close = c] => Becomes(s, pc, x.won, x.park, c, b)
<1> DEFINE x == uHand[s]
           z == [x EXCEPT !.pc = pc]
           w == [z EXCEPT !.fatal = b]
<1>0. uHand \in [Sockets -> HandRecords] /\ x \in HandRecords
  BY DEF RestOK
<1>a. z = [pc |-> pc, won |-> x.won, park |-> x.park, close |-> x.close, fatal |-> x.fatal]
  <2> HIDE DEF x
  <2> QED
    BY <1>0 DEF HandRecords
<1>b. w = [pc |-> pc, won |-> x.won, park |-> x.park, close |-> x.close, fatal |-> b]
  <2> HIDE DEF z, x
  <2> QED
    BY <1>a
<1>1. uHand' = [uHand EXCEPT ![s].pc = pc] => Becomes(s, pc, x.won, x.park, x.close, x.fatal)
  <2>1. [x EXCEPT !.pc = pc] = [pc |-> pc, won |-> x.won, park |-> x.park, close |-> x.close, fatal |-> x.fatal]
    BY <1>a
  <2>2. uHand' = [uHand EXCEPT ![s].pc = pc] => uHand' = [uHand EXCEPT ![s] = [x EXCEPT !.pc = pc]]
    BY <1>0
  <2> QED
    BY <2>1, <2>2 DEF Becomes
<1>2. uHand' = [uHand EXCEPT ![s].pc = pc, ![s].won = b] => Becomes(s, pc, b, x.park, x.close, x.fatal)
  <2>1. [x EXCEPT !.pc = pc, !.won = b] = [pc |-> pc, won |-> b, park |-> x.park, close |-> x.close, fatal |-> x.fatal]
    <3>1. [x EXCEPT !.pc = pc, !.won = b] = [z EXCEPT !.won = b]
      OBVIOUS
    <3>2. [z EXCEPT !.won = b] = [pc |-> pc, won |-> b, park |-> x.park, close |-> x.close, fatal |-> x.fatal]
      <4> HIDE DEF w, z, x
      <4> QED
        BY <1>a
    <3> QED
      BY <3>1, <3>2
  <2>2. uHand' = [uHand EXCEPT ![s].pc = pc, ![s].won = b] => uHand' = [uHand EXCEPT ![s] = [x EXCEPT !.pc = pc, !.won = b]]
    BY <1>0
  <2> QED
    BY <2>1, <2>2 DEF Becomes
<1>3. uHand' = [uHand EXCEPT ![s].pc = pc, ![s].park = b] => Becomes(s, pc, x.won, b, x.close, x.fatal)
  <2>1. [x EXCEPT !.pc = pc, !.park = b] = [pc |-> pc, won |-> x.won, park |-> b, close |-> x.close, fatal |-> x.fatal]
    <3>1. [x EXCEPT !.pc = pc, !.park = b] = [z EXCEPT !.park = b]
      OBVIOUS
    <3>2. [z EXCEPT !.park = b] = [pc |-> pc, won |-> x.won, park |-> b, close |-> x.close, fatal |-> x.fatal]
      <4> HIDE DEF w, z, x
      <4> QED
        BY <1>a
    <3> QED
      BY <3>1, <3>2
  <2>2. uHand' = [uHand EXCEPT ![s].pc = pc, ![s].park = b] => uHand' = [uHand EXCEPT ![s] = [x EXCEPT !.pc = pc, !.park = b]]
    BY <1>0
  <2> QED
    BY <2>1, <2>2 DEF Becomes
<1>4. uHand' = [uHand EXCEPT ![s].pc = pc, ![s].close = b] => Becomes(s, pc, x.won, x.park, b, x.fatal)
  <2>1. [x EXCEPT !.pc = pc, !.close = b] = [pc |-> pc, won |-> x.won, park |-> x.park, close |-> b, fatal |-> x.fatal]
    <3>1. [x EXCEPT !.pc = pc, !.close = b] = [z EXCEPT !.close = b]
      OBVIOUS
    <3>2. [z EXCEPT !.close = b] = [pc |-> pc, won |-> x.won, park |-> x.park, close |-> b, fatal |-> x.fatal]
      <4> HIDE DEF w, z, x
      <4> QED
        BY <1>a
    <3> QED
      BY <3>1, <3>2
  <2>2. uHand' = [uHand EXCEPT ![s].pc = pc, ![s].close = b] => uHand' = [uHand EXCEPT ![s] = [x EXCEPT !.pc = pc, !.close = b]]
    BY <1>0
  <2> QED
    BY <2>1, <2>2 DEF Becomes
<1>5. uHand' = [uHand EXCEPT ![s].pc = pc, ![s].fatal = b, ![s].close = c] => Becomes(s, pc, x.won, x.park, c, b)
  <2>1. [x EXCEPT !.pc = pc, !.fatal = b, !.close = c] = [pc |-> pc, won |-> x.won, park |-> x.park, close |-> c, fatal |-> b]
    <3>1. [x EXCEPT !.pc = pc, !.fatal = b, !.close = c] = [w EXCEPT !.close = c]
      OBVIOUS
    <3>2. [w EXCEPT !.close = c] = [pc |-> pc, won |-> x.won, park |-> x.park, close |-> c, fatal |-> b]
      <4> HIDE DEF w, z, x
      <4> QED
        BY <1>b
    <3> QED
      BY <3>1, <3>2
  <2>2. uHand' = [uHand EXCEPT ![s].pc = pc, ![s].fatal = b, ![s].close = c] => uHand' = [uHand EXCEPT ![s] = [x EXCEPT !.pc = pc, !.fatal = b, !.close = c]]
    BY <1>0
  <2> QED
    BY <2>1, <2>2 DEF Becomes
<1> QED
  BY <1>1, <1>2, <1>3, <1>4, <1>5

\* closeTunnel: what its caller is told, and what it starts.
CloseStarted ==
  \/ ~StartsClose /\ UNCHANGED <<uClose, uFails, uLive>>
  \/ /\ StartsClose /\ uClose'.on /\ uClose'.tunnel = uTunnel
     /\ (uClose'.fails /\ uLive' = uLive) \/ (~uClose'.fails /\ uLive' = {})
LEMMA StartCloseIs ==
  ASSUME RestOK, StartClose
  PROVE  /\ CloseStarted /\ uClose' \in CloseRecords /\ uFails' \in 0..MaxCloseFails
         /\ uLive' \subseteq uLive
         /\ JoinClose \in {"waiting", "ok"} /\ (JoinClose = "waiting" <=> uClose'.on)
         /\ JoinClose = "ok" => ~uClose.on /\ ~uClose'.on /\ uTunnel = NoSocket /\ uLive = {} /\ uLive' = {}
         /\ uClose.on => uClose' = uClose /\ uLive' = uLive
<1>0. uClose \in CloseRecords /\ uFails \in 0..MaxCloseFails /\ uTunnel \in Sockets \cup {NoSocket}
  BY DEF RestOK
<1>1. CASE StartsClose
  <2>1. PICK fails \in BOOLEAN :
          /\ fails => uFails < MaxCloseFails
          /\ uFails' = IF fails THEN uFails + 1 ELSE uFails
          /\ uClose' = [on |-> TRUE, tunnel |-> uTunnel, fails |-> fails]
          /\ uLive' = IF fails THEN uLive ELSE {}
    BY <1>1 DEF StartClose
  <2>2. uClose' \in CloseRecords /\ uClose'.on /\ uClose'.tunnel = uTunnel /\ uClose'.fails = fails
    BY <1>0, <2>1 DEF CloseRecords
  <2>3. uFails' \in 0..MaxCloseFails
    BY <1>0, <2>1, ParkAssumption
  <2>4. CloseStarted /\ uLive' \subseteq uLive
    <3>1. CASE fails
      <4>1. uLive' = uLive /\ uClose'.fails
        BY <2>1, <2>2, <3>1
      <4> QED
        BY <1>1, <2>2, <4>1 DEF CloseStarted
    <3>2. CASE ~fails
      <4>1. uLive' = {} /\ ~uClose'.fails
        BY <2>1, <2>2, <3>2
      <4> QED
        BY <1>1, <2>2, <4>1 DEF CloseStarted
    <3> QED
      BY <3>1, <3>2
  <2>5. JoinClose = "waiting" /\ ~uClose.on
    BY <1>1 DEF StartsClose, JoinClose
  <2> QED
    BY <2>2, <2>3, <2>4, <2>5
<1>2. CASE ~StartsClose
  BY <1>0, <1>2 DEF StartClose, StartsClose, JoinClose, CloseStarted, CloseRecords
<1> QED
  BY <1>1, <1>2

\* settleParked.
LEMMA SettledIs ==
  ASSUME ParksOK, NEW p \in 0..MaxParks, NEW st \in ParkStates \ {"waiting"}
  PROVE  LET S == Settled(uPark, p, st) IN
         /\ S \in [Parks -> ParkRecords]
         /\ \A q \in Parks : S[q].st = IF q = p /\ uPark[q].st = "waiting" THEN st ELSE uPark[q].st
         /\ \A q \in Parks : S[q].timer => S[q].st = "waiting"
<1> DEFINE S == Settled(uPark, p, st)
<1>0. uPark \in [Parks -> ParkRecords] /\ \A q \in Parks : uPark[q].timer => uPark[q].st = "waiting"
  BY DEF ParksOK
<1>1. CASE p # 0 /\ uPark[p].st = "waiting"
  <2> DEFINE y == [uPark[p] EXCEPT !.st = st, !.timer = FALSE]
  <2>1. p \in Parks
    BY <1>1, ParkAssumption DEF Parks
  <2>2. S = [uPark EXCEPT ![p] = y]
    BY <1>0, <1>1, <2>1 DEF Settled
  <2>3. y \in ParkRecords /\ y.st = st /\ ~y.timer
    <3>1. uPark[p] \in ParkRecords
      BY <1>0, <2>1
    <3> QED
      BY <3>1 DEF ParkRecords
  <2> HIDE DEF y, S
  <2>4. S \in [Parks -> ParkRecords] /\ S[p] = y /\ \A q \in Parks : q # p => S[q] = uPark[q]
    BY <1>0, <2>1, <2>2, <2>3
  <2>5. /\ S \in [Parks -> ParkRecords]
        /\ \A q \in Parks : S[q].st = IF q = p /\ uPark[q].st = "waiting" THEN st ELSE uPark[q].st
        /\ \A q \in Parks : S[q].timer => S[q].st = "waiting"
    BY <1>0, <1>1, <2>3, <2>4
  <2> QED
    BY <2>5 DEF S
<1>2. CASE ~(p # 0 /\ uPark[p].st = "waiting")
  <2>1. S = uPark
    BY <1>2 DEF Settled
  <2>2. \A q \in Parks : ~(q = p /\ uPark[q].st = "waiting")
    BY <1>2, ParkAssumption DEF Parks
  <2> QED
    BY <1>0, <2>1, <2>2
<1> QED
  BY <1>1, <1>2

----------------------------------------------------------------------------

\* At most one connection ever has a park.
LEMMA OneParkHolder ==
  ASSUME OneHolder,
         \A s \in Sockets : HandlerFits(s), NEW s \in Sockets, NEW t \in Sockets, uHand[s].park # 0, uHand[t].won,
         uHand[t].pc # "done" \/ uHand[t].park # 0
  PROVE  s = t
BY DEF OneHolder, HoldsClaim, HandlerFits

LEMMA LifecycleHasPark ==
  ASSUME \A s \in Sockets : HandlerFits(s), NEW s \in Sockets, InLifecycle(s)
  PROVE  uHand[s].park # 0 /\ uHand[s].won
BY DEF HandlerFits

\* Steps of the park registry.
ParkSteps == \E p \in Parks : ParkCrawlRequest(p) \/ TtlFires(p) \/ TtlWrites(p) \/ TtlSettles(p)

LEMMA ParkStepsRecords ==
  ASSUME ParksOK, RestOK, CurIsWaiting, ParkSteps
  PROVE  /\ ParksOK' /\ CurIsWaiting' /\ uCur' \in 0..MaxParks /\ uRow' \in RowRecords
         /\ uRow'.claimed = uRow.claimed
         /\ \A p \in Parks : uPark'[p].st = "result" => uPark[p].st = "result"
         /\ uFenced => uCur' \in {0, uCur}
         /\ UNCHANGED <<uFenced, uHand, uLive, uTunnel, uListen, uBrowser, uClose, uFence, uFails>>
<1>0. /\ uPark \in [Parks -> ParkRecords] /\ \A q \in Parks : uPark[q].timer => uPark[q].st = "waiting"
      /\ uCur \in 0..MaxParks /\ uRow \in RowRecords /\ \A q \in Parks : q \in 0..MaxParks /\ q # 0
  BY ParkAssumption DEF ParksOK, RestOK, Parks
<1>c. uCur # 0 => uCur \in Parks /\ uPark[uCur].st = "waiting"
  BY <1>0, ParkAssumption DEF CurIsWaiting, Parks
<1>1. ASSUME NEW p \in Parks, ParkCrawlRequest(p)
      PROVE  /\ ParksOK' /\ CurIsWaiting' /\ uCur' \in 0..MaxParks /\ uRow' = uRow
             /\ \A q \in Parks : uPark'[q].st = "result" => uPark[q].st = "result"
             /\ uFenced => uCur' \in {0, uCur}
  <2>0. uPark[p].st = "unused" /\ ~uPark[p].timer /\ p # uCur /\ uRow' = uRow
    BY <1>0, <1>1, <1>c DEF ParkCrawlRequest
  <2>1. CASE uFenced
    <3>1. uPark' = [uPark EXCEPT ![p].st = "fenced"] /\ uCur' = uCur
      BY <1>1, <2>1 DEF ParkCrawlRequest
    <3> DEFINE y == [uPark[p] EXCEPT !.st = "fenced"]
    <3>2. uPark' = [uPark EXCEPT ![p] = y]
      BY <1>0, <3>1
    <3>3. y \in ParkRecords /\ y.st = "fenced" /\ ~y.timer
      <4>1. uPark[p] \in ParkRecords
        BY <1>0
      <4> QED
        BY <2>0, <4>1 DEF ParkRecords, ParkStates
    <3> HIDE DEF y
    <3>4. uPark' \in [Parks -> ParkRecords] /\ uPark'[p] = y /\ \A q \in Parks : q # p => uPark'[q] = uPark[q]
      BY <1>0, <3>2, <3>3
    <3>5. ParksOK'
      BY <1>0, <3>3, <3>4 DEF ParksOK
    <3>6. CurIsWaiting'
      BY <2>0, <3>1, <3>3, <3>4 DEF CurIsWaiting
    <3> QED
      BY <1>0, <2>0, <3>1, <3>3, <3>4, <3>5, <3>6
  <2>2. CASE ~uFenced
    <3> DEFINE S == Settled(uPark, uCur, "superseded")
               y == [S[p] EXCEPT !.st = "waiting", !.timer = TRUE]
    <3>1. uPark' = [S EXCEPT ![p].st = "waiting", ![p].timer = TRUE] /\ uCur' = p
      BY <1>1, <2>2 DEF ParkCrawlRequest
    <3>2. /\ S \in [Parks -> ParkRecords]
          /\ \A q \in Parks : S[q].st = IF q = uCur /\ uPark[q].st = "waiting" THEN "superseded" ELSE uPark[q].st
          /\ \A q \in Parks : S[q].timer => S[q].st = "waiting"
      BY <1>0, SettledIs DEF ParkStates
    <3> HIDE DEF S
    <3>3. uPark' = [S EXCEPT ![p] = y]
      BY <3>1, <3>2
    <3>4. y \in ParkRecords /\ y.st = "waiting"
      <4>1. S[p] \in ParkRecords
        BY <3>2
      <4> QED
        BY <4>1 DEF ParkRecords, ParkStates
    <3> HIDE DEF y
    <3>5. uPark' \in [Parks -> ParkRecords] /\ uPark'[p] = y /\ \A q \in Parks : q # p => uPark'[q] = S[q]
      BY <3>2, <3>3, <3>4
    <3>6. ParksOK'
      BY <3>2, <3>4, <3>5 DEF ParksOK
    <3>7. \A q \in Parks : S[q].st # "waiting"
      BY <3>2 DEF CurIsWaiting
    <3>8. CurIsWaiting'
      BY <3>1, <3>4, <3>5, <3>7 DEF CurIsWaiting
    <3>9. \A q \in Parks : uPark'[q].st = "result" => uPark[q].st = "result"
      BY <3>2, <3>4, <3>5
    <3> QED
      BY <1>0, <2>0, <2>2, <3>1, <3>6, <3>8, <3>9
  <2> QED
    BY <2>1, <2>2
<1>2. ASSUME uPark' \in [Parks -> ParkRecords], uCur' = uCur,
             \A q \in Parks : uPark'[q].st = uPark[q].st /\ (uPark'[q].timer => uPark[q].timer)
      PROVE  /\ ParksOK' /\ CurIsWaiting' /\ uCur' \in 0..MaxParks
             /\ \A q \in Parks : uPark'[q].st = "result" => uPark[q].st = "result"
             /\ uFenced => uCur' \in {0, uCur}
  BY <1>0, <1>2 DEF ParksOK, CurIsWaiting
<1>3. ASSUME NEW p \in Parks, TtlFires(p)
      PROVE  /\ uPark' \in [Parks -> ParkRecords]
             /\ \A q \in Parks : uPark'[q].st = uPark[q].st /\ (uPark'[q].timer => uPark[q].timer)
  <2> DEFINE T == [uPark EXCEPT ![p].timer = FALSE]
  <2>1. /\ T \in [Parks -> ParkRecords]
        /\ \A q \in Parks : T[q].st = uPark[q].st /\ (T[q].timer => uPark[q].timer)
    <3> DEFINE y == [uPark[p] EXCEPT !.timer = FALSE]
    <3>1. y \in ParkRecords /\ y.st = uPark[p].st /\ ~y.timer
      <4>1. uPark[p] \in ParkRecords
        BY <1>0
      <4> QED
        BY <4>1 DEF ParkRecords
    <3>2. T = [uPark EXCEPT ![p] = y]
      BY <1>0
    <3> HIDE DEF y, T
    <3> QED
      BY <1>0, <3>1, <3>2
  <2>2. CASE uPark' = T
    BY <2>1, <2>2
  <2>3. CASE uCur # 0 /\ uPark' = [uPark EXCEPT ![p].timer = FALSE, ![uCur].ttl = "writing"]
    <3> DEFINE c == uCur
               y == [T[c] EXCEPT !.ttl = "writing"]
    <3>1. c \in Parks /\ uPark' = [T EXCEPT ![c].ttl = "writing"]
      BY <1>c, <2>3
    <3> HIDE DEF T, c
    <3>2. uPark' = [T EXCEPT ![c] = y]
      BY <2>1, <3>1
    <3>3. y \in ParkRecords /\ y.st = T[c].st /\ y.timer = T[c].timer
      <4>1. T[c] \in ParkRecords
        BY <2>1, <3>1
      <4> QED
        BY <4>1 DEF ParkRecords
    <3> HIDE DEF y
    <3> QED
      BY <2>1, <3>1, <3>2, <3>3
  <2> QED
    BY <1>3, <2>2, <2>3 DEF TtlFires
<1>4. ASSUME NEW p \in Parks, TtlWrites(p)
      PROVE  /\ uPark' \in [Parks -> ParkRecords] /\ uRow' \in RowRecords /\ uRow'.claimed = uRow.claimed
             /\ \A q \in Parks : uPark'[q].st = uPark[q].st /\ (uPark'[q].timer => uPark[q].timer)
  <2> DEFINE y == [uPark[p] EXCEPT !.ttl = "written"]
  <2>1. uPark' = [uPark EXCEPT ![p] = y]
    BY <1>0, <1>4 DEF TtlWrites
  <2>2. y \in ParkRecords /\ y.st = uPark[p].st /\ y.timer = uPark[p].timer
    <3>1. uPark[p] \in ParkRecords
      BY <1>0
    <3> QED
      BY <3>1 DEF ParkRecords
  <2>3. uRow' \in RowRecords /\ uRow'.claimed = uRow.claimed
    <3>1. PICK ok \in BOOLEAN : uRow' = [uRow EXCEPT !.active = @ /\ ~ok]
      BY <1>4 DEF TtlWrites
    <3> QED
      BY <1>0, <3>1 DEF RowRecords
  <2> HIDE DEF y
  <2> QED
    BY <1>0, <2>1, <2>2, <2>3
<1>5. ASSUME NEW p \in Parks, TtlSettles(p)
      PROVE  /\ ParksOK' /\ CurIsWaiting' /\ uCur' \in 0..MaxParks
             /\ \A q \in Parks : uPark'[q].st = "result" => uPark[q].st = "result"
             /\ uCur' \in {0, uCur}
  <2> DEFINE S == Settled(uPark, p, "expired")
             y == [S[p] EXCEPT !.ttl = "none"]
  <2>1. /\ uPark' = [S EXCEPT ![p].ttl = "none"]
        /\ uCur' = IF uPark[p].st = "waiting" THEN 0 ELSE uCur
    BY <1>0, <1>5 DEF TtlSettles, CurAfter
  <2>2. /\ S \in [Parks -> ParkRecords]
        /\ \A q \in Parks : S[q].st = IF q = p /\ uPark[q].st = "waiting" THEN "expired" ELSE uPark[q].st
        /\ \A q \in Parks : S[q].timer => S[q].st = "waiting"
    BY <1>0, SettledIs DEF ParkStates
  <2> HIDE DEF S
  <2>3. uPark' = [S EXCEPT ![p] = y]
    BY <2>1, <2>2
  <2>4. y \in ParkRecords /\ y.st = S[p].st /\ y.timer = S[p].timer
    <3>1. S[p] \in ParkRecords
      BY <2>2
    <3> QED
      BY <3>1 DEF ParkRecords
  <2> HIDE DEF y
  <2>5. uPark' \in [Parks -> ParkRecords] /\ \A q \in Parks : uPark'[q].st = S[q].st /\ uPark'[q].timer = S[q].timer
    BY <2>2, <2>3, <2>4
  <2>6. ParksOK'
    BY <2>2, <2>5 DEF ParksOK
  <2>7. CurIsWaiting'
    <3>1. CASE uPark[p].st = "waiting"
      BY <1>0, <2>1, <2>2, <2>5, <3>1 DEF CurIsWaiting
    <3>2. CASE uPark[p].st # "waiting"
      BY <2>1, <2>2, <2>5, <3>2 DEF CurIsWaiting
    <3> QED
      BY <3>1, <3>2
  <2>8. \A q \in Parks : uPark'[q].st = "result" => uPark[q].st = "result"
    BY <2>2, <2>5
  <2>9. uCur' \in {0, uCur}
    BY <2>1
  <2>10. uCur' \in 0..MaxParks
    BY <1>0, <2>9, ParkAssumption
  <2> QED
    BY <2>6, <2>7, <2>8, <2>9, <2>10
<1>6. UNCHANGED <<uFenced, uHand, uLive, uTunnel, uListen, uBrowser, uClose, uFence, uFails>>
  BY DEF ParkSteps, ParkCrawlRequest, TtlFires, TtlWrites, TtlSettles
<1>7. PICK p \in Parks : ParkCrawlRequest(p) \/ TtlFires(p) \/ TtlWrites(p) \/ TtlSettles(p)
  BY DEF ParkSteps
<1>8. CASE ParkCrawlRequest(p)
  BY <1>0, <1>1, <1>6, <1>8
<1>9. CASE TtlFires(p)
  BY <1>0, <1>2, <1>3, <1>6, <1>9 DEF TtlFires
<1>10. CASE TtlWrites(p)
  BY <1>2, <1>4, <1>6, <1>10 DEF TtlWrites
<1>11. CASE TtlSettles(p)
  BY <1>0, <1>5, <1>6, <1>11 DEF TtlSettles
<1> QED
  BY <1>7, <1>8, <1>9, <1>10, <1>11

LEMMA ParkStepsKeep == ASSUME TunnelInv, ParkSteps PROVE TunnelInv'
<1>0. ParksOK /\ RestOK /\ CurIsWaiting
  BY TunnelTypes DEF TunnelInv
<1>1. /\ ParksOK' /\ CurIsWaiting' /\ uCur' \in 0..MaxParks /\ uRow' \in RowRecords
      /\ uRow'.claimed = uRow.claimed
      /\ \A p \in Parks : uPark'[p].st = "result" => uPark[p].st = "result"
      /\ uFenced => uCur' \in {0, uCur}
      /\ UNCHANGED <<uFenced, uHand, uLive, uTunnel, uListen, uBrowser, uClose, uFence, uFails>>
  BY <1>0, ParkStepsRecords
<1>2. TunnelTypeOK'
  BY <1>0, <1>1, TunnelTypesNext DEF RestOK
<1>p. ASSUME NEW s \in Sockets PROVE uHand[s].park # 0 => uHand[s].park \in Parks
  <2>1. uHand[s].park \in 0..MaxParks
    BY <1>0, HandFields
  <2> QED
    BY <2>1, ParkAssumption DEF Parks
<1>3. OneHolder' /\ ClosesFit'
  BY <1>1 DEF TunnelInv, OneHolder, HoldsClaim, ClosesFit
<1>4. ResultBehindClosedTunnel'
  BY <1>1, <1>p DEF TunnelInv, ResultBehindClosedTunnel
<1>5. ASSUME NEW s \in Sockets PROVE HandlerFits(s)' /\ ListenerFits(s)'
  BY <1>1, <1>p DEF TunnelInv, HandlerFits, ListenerFits, InLifecycle
<1>6. ASSUME NEW f \in Fencers PROVE FenceFits(f)'
  BY <1>1 DEF TunnelInv, FenceFits, Swept, InLifecycle
<1> QED
  BY <1>1, <1>2, <1>3, <1>4, <1>5, <1>6 DEF TunnelInv

----------------------------------------------------------------------------
LEMMA TunnelFields ==
  ASSUME RestOK
  PROVE  /\ uClose.on \in BOOLEAN /\ uClose.tunnel \in Sockets \cup {NoSocket} /\ uClose.fails \in BOOLEAN
         /\ uRow.active \in BOOLEAN /\ uRow.claimed \in BOOLEAN /\ NoSocket \notin Sockets
BY ParkAssumption DEF RestOK, CloseRecords, RowRecords

\* The end of a teardown.
LEMMA CloseEndsIs ==
  ASSUME RestOK, CloseEnds
  PROVE  /\ uClose.on /\ ~uClose'.on /\ RestOK' /\ uListen' = uListen \ {uClose.tunnel}
         /\ uTunnel' = uTunnel \/ (uTunnel = uClose.tunnel /\ uTunnel' = NoSocket)
         /\ \A s \in Sockets : /\ uHand'[s].pc = uHand[s].pc /\ uHand'[s].won = uHand[s].won
                               /\ uHand'[s].park = uHand[s].park /\ uHand'[s].fatal = uHand[s].fatal
                               /\ uHand'[s].close # "waiting"
         /\ \A f \in Fencers : /\ uFence'[f].pc = uFence[f].pc /\ uFence'[f].park = uFence[f].park
                               /\ uFence'[f].life = uFence[f].life /\ uFence'[f].close # "waiting"
                               /\ uFence[f].close # "waiting" => uFence'[f].close = uFence[f].close
                               /\ uFence[f].close = "waiting" /\ uFence'[f].close = "ok" => ~uClose.fails
         /\ UNCHANGED <<uPark, uCur, uFenced, uLive, uBrowser, uFails, uRow>>
<1> DEFINE result == IF uClose.fails THEN "failed" ELSE "ok"
<1>0. uHand \in [Sockets -> HandRecords] /\ uFence \in [Fencers -> FenceRecords]
  BY DEF RestOK
<1>1. /\ uClose.on /\ uClose' = [on |-> FALSE, tunnel |-> NoSocket, fails |-> FALSE]
      /\ uListen' = uListen \ {uClose.tunnel}
      /\ uTunnel' = uTunnel \/ (uTunnel = uClose.tunnel /\ uTunnel' = NoSocket)
      /\ uHand' = [s \in Sockets |-> Told(uHand[s], result)]
      /\ uFence' = [f \in Fencers |-> Told(uFence[f], result)]
      /\ UNCHANGED <<uPark, uCur, uFenced, uLive, uBrowser, uFails, uRow>>
  BY DEF CloseEnds
<1>2. result \in {"ok", "failed"} /\ (result = "ok" => ~uClose.fails)
  OBVIOUS
<1> HIDE DEF result
<1>3. ASSUME NEW s \in Sockets
      PROVE  /\ uHand'[s] \in HandRecords /\ uHand'[s].pc = uHand[s].pc /\ uHand'[s].won = uHand[s].won
             /\ uHand'[s].park = uHand[s].park /\ uHand'[s].fatal = uHand[s].fatal
             /\ uHand'[s].close # "waiting"
  <2>1. uHand[s] \in HandRecords /\ uHand'[s] = Told(uHand[s], result)
    BY <1>0, <1>1
  <2>2. CASE uHand[s].close = "waiting"
    <3>1. uHand'[s] = [uHand[s] EXCEPT !.close = result]
      BY <2>1, <2>2 DEF Told
    <3> QED
      BY <1>2, <2>1, <3>1 DEF HandRecords, CloseResults
  <2>3. CASE uHand[s].close # "waiting"
    BY <2>1, <2>3 DEF Told
  <2> QED
    BY <2>2, <2>3
<1>4. ASSUME NEW f \in Fencers
      PROVE  /\ uFence'[f] \in FenceRecords /\ uFence'[f].pc = uFence[f].pc
             /\ uFence'[f].park = uFence[f].park
             /\ uFence'[f].life = uFence[f].life /\ uFence'[f].close # "waiting"
             /\ uFence[f].close # "waiting" => uFence'[f].close = uFence[f].close
             /\ uFence[f].close = "waiting" /\ uFence'[f].close = "ok" => ~uClose.fails
  <2>1. uFence[f] \in FenceRecords /\ uFence'[f] = Told(uFence[f], result)
    BY <1>0, <1>1
  <2>2. CASE uFence[f].close = "waiting"
    <3>1. uFence'[f] = [uFence[f] EXCEPT !.close = result]
      BY <2>1, <2>2 DEF Told
    <3>2. /\ uFence'[f] \in FenceRecords /\ uFence'[f].pc = uFence[f].pc /\ uFence'[f].park = uFence[f].park
          /\ uFence'[f].life = uFence[f].life /\ uFence'[f].close = result
      BY <1>2, <2>1, <3>1 DEF FenceRecords, CloseResults
    <3> QED
      BY <1>2, <2>2, <3>2
  <2>3. CASE uFence[f].close # "waiting"
    BY <2>1, <2>3 DEF Told
  <2> QED
    BY <2>2, <2>3
<1>5. uHand' \in [Sockets -> HandRecords] /\ uFence' \in [Fencers -> FenceRecords]
  BY <1>1, <1>3, <1>4
<1>6. uClose' \in CloseRecords /\ ~uClose'.on
  BY <1>1 DEF CloseRecords
<1>7. RestOK'
  BY <1>1, <1>5, <1>6 DEF RestOK
<1> QED
  BY <1>1, <1>3, <1>4, <1>6, <1>7

LEMMA CloseEndsKeep == ASSUME TunnelInv, CloseEnds PROVE TunnelInv'
<1>0. ParksOK /\ RestOK
  BY TunnelTypes DEF TunnelInv
<1>1. /\ uClose.on /\ ~uClose'.on /\ RestOK' /\ uListen' = uListen \ {uClose.tunnel}
      /\ uTunnel' = uTunnel \/ (uTunnel = uClose.tunnel /\ uTunnel' = NoSocket)
      /\ \A s \in Sockets : /\ uHand'[s].pc = uHand[s].pc /\ uHand'[s].won = uHand[s].won
                            /\ uHand'[s].park = uHand[s].park /\ uHand'[s].fatal = uHand[s].fatal
                            /\ uHand'[s].close # "waiting"
      /\ UNCHANGED <<uPark, uCur, uFenced, uLive, uBrowser, uFails, uRow>>
  BY <1>0, CloseEndsIs
<1>a. \A f \in Fencers : /\ uFence'[f].pc = uFence[f].pc /\ uFence'[f].park = uFence[f].park
                         /\ uFence'[f].life = uFence[f].life /\ uFence'[f].close # "waiting"
                         /\ uFence[f].close # "waiting" => uFence'[f].close = uFence[f].close
                         /\ uFence[f].close = "waiting" /\ uFence'[f].close = "ok" => ~uClose.fails
  BY <1>0, CloseEndsIs
<1>b. NoSocket \notin Sockets /\ uListen \subseteq Sockets
  BY <1>0, TunnelFields DEF RestOK
<1>2. TunnelTypeOK'
  BY <1>0, <1>1, TunnelTypesNext DEF ParksOK
<1>3. OneHolder' /\ ClosesFit' /\ CurIsWaiting'
  BY <1>1 DEF TunnelInv, OneHolder, HoldsClaim, ClosesFit, CurIsWaiting
<1>4. ResultBehindClosedTunnel'
  BY <1>1 DEF TunnelInv, ResultBehindClosedTunnel
<1>5. ASSUME NEW s \in Sockets PROVE HandlerFits(s)'
  BY <1>1 DEF TunnelInv, HandlerFits, InLifecycle
<1>6. ASSUME NEW s \in Sockets PROVE ListenerFits(s)'
  <2>1. ListenerFits(s)
    BY DEF TunnelInv
  <2>2. s \in uListen' => s \in uListen /\ s # uClose.tunnel
    BY <1>1
  <2>3. s \in uListen' => uTunnel' = s /\ uHand[s].pc = "done"
    BY <1>1, <2>1, <2>2 DEF ListenerFits
  <2>4. uTunnel' = s => uTunnel = s
    BY <1>1, <1>b
  <2> QED
    BY <1>1, <2>1, <2>3, <2>4 DEF ListenerFits
<1>7. ASSUME NEW f \in Fencers PROVE FenceFits(f)'
  <2>0. FenceFits(f) /\ ClosesFit
    BY DEF TunnelInv
  <2>1. Swept(f)' /\ ~Swept(f) => uFence[f].pc = "first" /\ ~uClose.fails /\ uFenced
    BY <1>a, <2>0 DEF Swept, FenceFits
  <2>2. Swept(f)' => \A s \in Sockets : uHand[s].pc = "binding" => uLive = {}
    BY <1>1, <2>0, <2>1 DEF FenceFits, ClosesFit
  <2>3. uFence[f].pc = "second" /\ uFence[f].close = "waiting" /\ uFence'[f].close = "ok" => uLive = {} /\ uListen' = {}
    <3> SUFFICES ASSUME uFence[f].pc = "second", uFence[f].close = "waiting", uFence'[f].close = "ok"
                 PROVE  uLive = {} /\ uListen' = {}
      OBVIOUS
    <3>1. Swept(f) /\ ~uClose.fails
      BY <1>a DEF Swept
    <3> QED
      BY <1>1, <2>0, <3>1 DEF FenceFits
  <2>4. (uFence'[f].pc = "second" /\ uFence'[f].close = "ok") \/ uFence'[f].pc \in {"lifecycle", "done"} =>
          uLive = {} /\ uListen' = {}
    BY <1>1, <1>a, <2>0, <2>3 DEF FenceFits
  <2>5. \A s \in Sockets : InLifecycle(s)' <=> InLifecycle(s)
    BY <1>1 DEF InLifecycle
  <2> QED
    BY <1>1, <1>a, <2>0, <2>2, <2>4, <2>5 DEF FenceFits
<1> QED
  BY <1>2, <1>3, <1>4, <1>5, <1>6, <1>7 DEF TunnelInv

\* A socket goes away by itself.
LEMMA SocketGoneKeeps == ASSUME TunnelInv, NEW s \in Sockets, SocketGone(s) PROVE TunnelInv'
<1>0. ParksOK /\ RestOK
  BY TunnelTypes DEF TunnelInv
<1>1. s \in uLive /\ UNCHANGED <<uPark, uCur, uFenced, uHand, uTunnel, uListen, uBrowser, uFence, uRow>>
  BY DEF SocketGone
<1>2. CASE uLive' = uLive \ {s} /\ UNCHANGED <<uClose, uFails>>
  <2>1. TunnelTypeOK'
    BY <1>0, <1>1, <1>2, TunnelTypesNext DEF ParksOK, RestOK
  <2>2. OneHolder' /\ CurIsWaiting' /\ ResultBehindClosedTunnel' /\ ClosesFit'
    BY <1>1, <1>2 DEF TunnelInv, OneHolder, HoldsClaim, CurIsWaiting, ResultBehindClosedTunnel, ClosesFit
  <2>3. ASSUME NEW t \in Sockets PROVE HandlerFits(t)' /\ ListenerFits(t)'
    BY <1>1, <1>2 DEF TunnelInv, HandlerFits, ListenerFits, InLifecycle
  <2>4. ASSUME NEW f \in Fencers PROVE FenceFits(f)'
    BY <1>1, <1>2 DEF TunnelInv, FenceFits, Swept, InLifecycle
  <2> QED
    BY <2>1, <2>2, <2>3, <2>4 DEF TunnelInv
<1>3. ASSUME uHand[s].pc \in {"crawling", "fencing", "completing"}, StartsClose, NEW fails \in BOOLEAN,
             fails => uFails < MaxCloseFails,
             uFails' = IF fails THEN uFails + 1 ELSE uFails,
             uClose' = [on |-> TRUE, tunnel |-> uTunnel, fails |-> fails],
             uLive' = IF fails THEN uLive \ {s} ELSE {}
      PROVE  TunnelInv'
  <2>0. /\ uClose'.on /\ uClose'.tunnel = uTunnel /\ uClose'.fails = fails /\ ~uClose.on
        /\ uClose' \in CloseRecords
    BY <1>0, <1>3 DEF StartsClose, RestOK, CloseRecords
  <2>1. uFails' \in 0..MaxCloseFails /\ uLive' \subseteq uLive
    BY <1>0, <1>3, ParkAssumption DEF RestOK
  <2>a. ~uClose'.fails => uLive' = {}
    BY <1>3, <2>0
  <2>2. TunnelTypeOK'
    BY <1>0, <1>1, <2>0, <2>1, TunnelTypesNext DEF ParksOK, RestOK
  <2>3. OneHolder' /\ CurIsWaiting' /\ ResultBehindClosedTunnel'
    BY <1>1 DEF TunnelInv, OneHolder, HoldsClaim, CurIsWaiting, ResultBehindClosedTunnel
  <2>4. uHand[s].park # 0 /\ uHand[s].won /\ uHand[s].pc \in BoundSteps
    BY <1>3 DEF TunnelInv, HandlerFits, InLifecycle, BoundSteps
  <2>5. \A t \in Sockets : uHand[t].pc # "binding"
    BY <1>3, <2>4 DEF TunnelInv, HandlerFits, InLifecycle, OneHolder, HoldsClaim
  <2>6. ClosesFit'
    BY <1>1, <2>4, <2>5 DEF ClosesFit
  <2>7. ASSUME NEW t \in Sockets PROVE HandlerFits(t)' /\ ListenerFits(t)'
    BY <1>1, <2>0 DEF TunnelInv, HandlerFits, ListenerFits, InLifecycle
  <2>8. ASSUME NEW f \in Fencers PROVE FenceFits(f)'
    <3>1. \A t \in uListen : uTunnel = t
      BY <1>0 DEF TunnelInv, ListenerFits, RestOK
    <3>2. FenceFits(f)
      BY DEF TunnelInv
    <3> QED
      BY <1>1, <2>0, <2>1, <2>a, <2>5, <3>1, <3>2 DEF FenceFits, Swept, InLifecycle
  <2> QED
    BY <2>2, <2>3, <2>6, <2>7, <2>8 DEF TunnelInv
<1> QED
  BY <1>2, <1>3 DEF SocketGone

----------------------------------------------------------------------------
\* The companion's connection.

\* Before the claim has an answer.
LEMMA ConnectKeeps == ASSUME TunnelInv, NEW s \in Sockets, Upgrade(s) \/ ClaimTunnel(s) PROVE TunnelInv'
<1> DEFINE x == uHand[s]
<1>0. ParksOK /\ RestOK /\ HandlerFits(s)
  BY TunnelTypes DEF TunnelInv
<1>f. /\ x.pc \in HandlerSteps /\ x.won \in BOOLEAN /\ x.park \in 0..MaxParks /\ x.close \in CloseResults
      /\ x.fatal \in BOOLEAN
      /\ uRow \in RowRecords
  BY <1>0, HandFields DEF RestOK
<1>1. /\ UNCHANGED <<uPark, uCur, uFenced, uTunnel, uListen, uBrowser, uClose, uFence, uFails>>
      /\ x.pc \in {"idle", "claiming"} /\ uLive' \subseteq Sockets
      /\ uFenced => uLive' = uLive
  BY <1>0 DEF Upgrade, ClaimTunnel, RestOK
<1>2. \E pc \in {"claiming", "answered"}, won \in BOOLEAN :
        /\ Becomes(s, pc, won, x.park, x.close, x.fatal)
        /\ pc = "claiming" => won = x.won
        /\ won => ~uRow.claimed \/ x.won
        /\ (uRow'.claimed = (uRow.claimed \/ won)) \/ (~won /\ uRow'.claimed = uRow.claimed)
        /\ uRow' \in RowRecords
  <2>1. CASE Upgrade(s)
    <3>1. Becomes(s, "claiming", x.won, x.park, x.close, x.fatal) /\ uRow' = uRow
      BY <1>0, <2>1, BecomesBy DEF Upgrade
    <3>2. ~x.won
      BY <1>0, <2>1 DEF Upgrade, HandlerFits
    <3> QED
      BY <1>f, <3>1, <3>2
  <2>2. CASE ClaimTunnel(s)
    <3> DEFINE won == uRow.active /\ ~uRow.claimed
    <3>1. /\ uHand' = [uHand EXCEPT ![s].pc = "answered", ![s].won = won]
          /\ uRow' = [uRow EXCEPT !.claimed = @ \/ won]
      BY <2>2 DEF ClaimTunnel
    <3>2. won \in BOOLEAN /\ (won => ~uRow.claimed)
      OBVIOUS
    <3> HIDE DEF won
    <3>3. Becomes(s, "answered", won, x.park, x.close, x.fatal)
      BY <1>0, <3>1, BecomesBy
    <3>4. uRow' \in RowRecords /\ uRow'.claimed = (uRow.claimed \/ won)
      BY <1>f, <3>1, <3>2 DEF RowRecords
    <3> QED
      BY <3>2, <3>3, <3>4
  <2> QED
    BY <2>1, <2>2
<1>3. PICK pc \in {"claiming", "answered"}, won \in BOOLEAN :
        /\ Becomes(s, pc, won, x.park, x.close, x.fatal)
        /\ pc = "claiming" => won = x.won
        /\ won => ~uRow.claimed \/ x.won
        /\ (uRow'.claimed = (uRow.claimed \/ won)) \/ (~won /\ uRow'.claimed = uRow.claimed)
        /\ uRow' \in RowRecords
  BY <1>2
<1>4. /\ uHand' \in [Sockets -> HandRecords] /\ uHand'[s].pc = pc /\ uHand'[s].won = won
      /\ uHand'[s].park = x.park
      /\ uHand'[s].close = x.close /\ uHand'[s].fatal = x.fatal /\ \A t \in Sockets : t # s => uHand'[t] = uHand[t]
  <2>1. pc \in HandlerSteps
    BY DEF HandlerSteps
  <2> QED
    BY <1>0, <1>3, <1>f, <2>1, BecomesIs
<1>5. ~x.won /\ x.park = 0 /\ (won => ~uRow.claimed)
  BY <1>0, <1>1, <1>3 DEF HandlerFits
<1>6. TunnelTypeOK'
  BY <1>0, <1>1, <1>3, <1>4, TunnelTypesNext DEF ParksOK, RestOK
<1>7. OneHolder'
  <2>1. uRow.claimed \/ won => uRow'.claimed
    BY <1>3
  <2>2. \A t \in Sockets : t # s => (HoldsClaim(t)' <=> HoldsClaim(t))
    BY <1>4 DEF HoldsClaim
  <2>3. HoldsClaim(s)' => won
    BY <1>4 DEF HoldsClaim
  <2>4. \A t \in Sockets : HoldsClaim(t)' => (t # s /\ HoldsClaim(t)) \/ (t = s /\ won)
    BY <2>2, <2>3
  <2> QED
    BY <1>5, <2>1, <2>4 DEF TunnelInv, OneHolder
<1>8. CurIsWaiting' /\ ResultBehindClosedTunnel'
  BY <1>1, <1>4, <1>5 DEF TunnelInv, CurIsWaiting, ResultBehindClosedTunnel
<1>9. ASSUME NEW t \in Sockets PROVE HandlerFits(t)' /\ ListenerFits(t)'
  <2>0. HandlerFits(t) /\ ListenerFits(t)
    BY DEF TunnelInv
  <2>1. CASE t = s
    BY <1>1, <1>3, <1>4, <1>5, <2>0, <2>1 DEF HandlerFits, ListenerFits, InLifecycle
  <2>2. CASE t # s
    BY <1>1, <1>4, <2>0, <2>2 DEF HandlerFits, ListenerFits, InLifecycle
  <2> QED
    BY <2>1, <2>2
<1>10. \A t \in Sockets : /\ uHand'[t].pc = "binding" <=> uHand[t].pc = "binding"
                          /\ InLifecycle(t)' <=> InLifecycle(t)
                          /\ uHand'[t].park = uHand[t].park
                          /\ uHand[t].pc \in BoundSteps => uHand'[t].pc = uHand[t].pc
  BY <1>1, <1>4 DEF InLifecycle, BoundSteps
<1>11. ClosesFit'
  BY <1>1, <1>10 DEF TunnelInv, ClosesFit
<1>12. ASSUME NEW f \in Fencers PROVE FenceFits(f)'
  BY <1>1, <1>10 DEF TunnelInv, FenceFits, Swept
<1> QED
  BY <1>6, <1>7, <1>8, <1>9, <1>11, <1>12 DEF TunnelInv

\* A connection that is refused, comes too early, or finds its park taken.
GivesUp(s, pc) ==
  /\ uHand[s].pc \in {"answered", "releasing"} /\ pc \in {"done", "releasing"}
  /\ Becomes(s, pc, uHand[s].won, uHand[s].park, uHand[s].close, uHand[s].fatal)
  /\ pc = "releasing" => uHand[s].won /\ uHand[s].pc = "answered"
  /\ uLive' \subseteq uLive /\ uRow' \in RowRecords
  /\ uRow'.claimed = uRow.claimed \/ (pc = "done" /\ uHand[s].won)
  /\ UNCHANGED <<uPark, uCur, uFenced, uTunnel, uListen, uBrowser, uClose, uFence, uFails>>

LEMMA GivesUpKeeps == ASSUME TunnelInv, NEW s \in Sockets, NEW pc, GivesUp(s, pc) PROVE TunnelInv'
<1> DEFINE x == uHand[s]
<1>0. ParksOK /\ RestOK /\ HandlerFits(s)
  BY TunnelTypes DEF TunnelInv
<1>f. /\ x.pc \in HandlerSteps /\ x.won \in BOOLEAN /\ x.park \in 0..MaxParks /\ x.close \in CloseResults
      /\ x.fatal \in BOOLEAN
  BY <1>0, HandFields
<1>1. /\ UNCHANGED <<uPark, uCur, uFenced, uTunnel, uListen, uBrowser, uClose, uFence, uFails>>
      /\ x.pc \in {"answered", "releasing"} /\ uLive' \subseteq uLive /\ uRow' \in RowRecords
      /\ pc \in {"done", "releasing"}
      /\ (uRow'.claimed = uRow.claimed \/ (pc = "done" /\ x.won)) /\ (pc = "releasing" => x.won)
  BY DEF GivesUp
<1>4. /\ uHand' \in [Sockets -> HandRecords] /\ uHand'[s].pc = pc /\ uHand'[s].won = x.won
      /\ uHand'[s].park = x.park
      /\ uHand'[s].close = x.close /\ uHand'[s].fatal = x.fatal /\ \A t \in Sockets : t # s => uHand'[t] = uHand[t]
  <2>1. pc \in HandlerSteps
    BY <1>1 DEF HandlerSteps
  <2> QED
    BY <1>0, <1>f, <2>1, BecomesIs DEF GivesUp
<1>5. x.park = 0
  BY <1>0, <1>1 DEF HandlerFits
<1>6. TunnelTypeOK'
  BY <1>0, <1>1, <1>4, TunnelTypesNext DEF ParksOK, RestOK
<1>7. OneHolder'
  <2>1. \A t \in Sockets : t # s => (HoldsClaim(t)' <=> HoldsClaim(t))
    BY <1>4 DEF HoldsClaim
  <2>2. HoldsClaim(s)' => HoldsClaim(s) /\ pc = "releasing"
    BY <1>1, <1>4, <1>5 DEF HoldsClaim
  <2>3. x.won => HoldsClaim(s)
    BY <1>1 DEF HoldsClaim
  <2>4. \A t \in Sockets : HoldsClaim(t)' => HoldsClaim(t) /\ (t = s => pc = "releasing")
    BY <2>1, <2>2
  <2>5. \A t \in Sockets : HoldsClaim(t)' => uRow.claimed /\ uRow'.claimed = uRow.claimed
    BY <1>1, <2>3, <2>4 DEF TunnelInv, OneHolder
  <2> QED
    BY <2>4, <2>5 DEF TunnelInv, OneHolder
<1>8. CurIsWaiting' /\ ResultBehindClosedTunnel'
  BY <1>1, <1>4, <1>5 DEF TunnelInv, CurIsWaiting, ResultBehindClosedTunnel
<1>9. ASSUME NEW t \in Sockets PROVE HandlerFits(t)' /\ ListenerFits(t)'
  <2>0. HandlerFits(t) /\ ListenerFits(t)
    BY DEF TunnelInv
  <2>1. CASE t = s
    BY <1>1, <1>4, <1>5, <2>0, <2>1 DEF HandlerFits, ListenerFits, InLifecycle
  <2>2. CASE t # s
    BY <1>1, <1>4, <2>0, <2>2 DEF HandlerFits, ListenerFits, InLifecycle
  <2> QED
    BY <2>1, <2>2
<1>10. \A t \in Sockets : /\ uHand'[t].pc = "binding" <=> uHand[t].pc = "binding"
                          /\ InLifecycle(t)' <=> InLifecycle(t)
                          /\ uHand'[t].park = uHand[t].park
                          /\ uHand[t].pc \in BoundSteps => uHand'[t].pc = uHand[t].pc
  BY <1>1, <1>4 DEF InLifecycle, BoundSteps
<1>11. ClosesFit'
  BY <1>1, <1>10 DEF TunnelInv, ClosesFit
<1>12. ASSUME NEW f \in Fencers PROVE FenceFits(f)'
  BY <1>1, <1>10 DEF TunnelInv, FenceFits, Swept
<1> QED
  BY <1>6, <1>7, <1>8, <1>9, <1>11, <1>12 DEF TunnelInv

\* A connection takes the park: no fence, so nobody is closing.
TakesPark(s) ==
  /\ uHand[s].pc = "answered" /\ uHand[s].won /\ ~uFenced /\ Claimable(uCur)
  /\ Becomes(s, "binding", uHand[s].won, uCur, uHand[s].close, uHand[s].fatal)
  /\ uPark' = [uPark EXCEPT ![uCur].claimed = TRUE, ![uCur].timer = FALSE]
  /\ UNCHANGED <<uLive, uCur, uFenced, uTunnel, uListen, uBrowser, uClose, uFence, uFails, uRow>>

LEMMA TakesParkKeeps == ASSUME TunnelInv, NEW s \in Sockets, TakesPark(s) PROVE TunnelInv'
<1> DEFINE x == uHand[s]
           c == uCur
<1>0. ParksOK /\ RestOK /\ HandlerFits(s)
  BY TunnelTypes DEF TunnelInv
<1>f. /\ x.pc \in HandlerSteps /\ x.won \in BOOLEAN /\ x.park \in 0..MaxParks /\ x.close \in CloseResults
      /\ x.fatal \in BOOLEAN
  BY <1>0, HandFields
<1>1. /\ UNCHANGED <<uLive, uCur, uFenced, uTunnel, uListen, uBrowser, uClose, uFence, uFails, uRow>>
      /\ x.pc = "answered" /\ x.won /\ ~uFenced /\ c # 0 /\ c \in Parks /\ uPark[c].st = "waiting"
      /\ c \in 0..MaxParks
  BY <1>0, ParkAssumption DEF TakesPark, Claimable, RestOK, Parks
<1>2. /\ uPark' \in [Parks -> ParkRecords]
      /\ \A p \in Parks : uPark'[p].st = uPark[p].st /\ (uPark'[p].timer => uPark[p].timer)
  <2> DEFINE y == [uPark[c] EXCEPT !.claimed = TRUE, !.timer = FALSE]
  <2>0. uPark \in [Parks -> ParkRecords]
    BY <1>0 DEF ParksOK
  <2>1. uPark' = [uPark EXCEPT ![c] = y]
    BY <1>1, <2>0 DEF TakesPark
  <2>2. y \in ParkRecords /\ y.st = uPark[c].st /\ ~y.timer
    <3>1. uPark[c] \in ParkRecords
      BY <1>1, <2>0
    <3> HIDE DEF c
    <3> QED
      BY <3>1 DEF ParkRecords
  <2> HIDE DEF y, c
  <2> QED
    BY <1>1, <2>0, <2>1, <2>2
<1>4. /\ uHand' \in [Sockets -> HandRecords] /\ uHand'[s].pc = "binding" /\ uHand'[s].won = x.won
      /\ uHand'[s].park = c
      /\ uHand'[s].close = x.close /\ uHand'[s].fatal = x.fatal /\ \A t \in Sockets : t # s => uHand'[t] = uHand[t]
  <2>1. "binding" \in HandlerSteps
    BY DEF HandlerSteps
  <2>2. Becomes(s, "binding", x.won, uCur, x.close, x.fatal)
    BY DEF TakesPark
  <2>3. uCur \in 0..MaxParks
    BY <1>1
  <2> HIDE DEF x
  <2> QED
    BY <1>0, <1>f, <2>1, <2>2, <2>3, BecomesIs
<1>6. TunnelTypeOK'
  BY <1>0, <1>1, <1>2, <1>4, TunnelTypesNext DEF ParksOK, RestOK
<1>7. OneHolder'
  BY <1>1, <1>4 DEF TunnelInv, OneHolder, HoldsClaim
<1>8. CurIsWaiting'
  BY <1>1, <1>2 DEF TunnelInv, CurIsWaiting
<1>a. \A t \in Sockets : t # s => ~(uHand[t].park # 0)
  BY <1>1 DEF TunnelInv, OneHolder, HoldsClaim, HandlerFits
<1>9. ResultBehindClosedTunnel'
  BY <1>1, <1>2, <1>4, <1>a DEF ResultBehindClosedTunnel
<1>10. s \notin uListen /\ uTunnel # s /\ s \notin uBrowser /\ ~uClose.on
  BY <1>1, <1>a DEF TunnelInv, HandlerFits, ListenerFits, ClosesFit, BoundSteps
<1>11. ASSUME NEW t \in Sockets PROVE HandlerFits(t)' /\ ListenerFits(t)'
  <2>0. HandlerFits(t) /\ ListenerFits(t)
    BY DEF TunnelInv
  <2>1. CASE t = s
    BY <1>1, <1>2, <1>4, <1>10, <2>0, <2>1 DEF HandlerFits, ListenerFits, InLifecycle
  <2>2. CASE t # s
    BY <1>1, <1>4, <1>a, <2>0, <2>2 DEF HandlerFits, ListenerFits, InLifecycle
  <2> QED
    BY <2>1, <2>2
<1>12. ClosesFit'
  BY <1>1, <1>10 DEF ClosesFit
<1>13. ASSUME NEW f \in Fencers PROVE FenceFits(f)'
  <2>1. uFence[f].pc = "idle" /\ uFence[f].close # "waiting"
    BY <1>1, <1>10 DEF TunnelInv, FenceFits
  <2> QED
    BY <1>1, <2>1 DEF FenceFits, Swept
<1> QED
  BY <1>6, <1>7, <1>8, <1>9, <1>11, <1>12, <1>13 DEF TunnelInv

----------------------------------------------------------------------------

\* What the rest of the state may rely on when somebody calls closeTunnel.
LEMMA StartCloseKeeps ==
  ASSUME TunnelInv, StartClose
  PROVE  /\ uClose.on => uClose'.on
         /\ uLive = {} => uLive' = {}
         /\ \A t \in Sockets : t \in uListen /\ uHand[t].pc # "done" /\ uClose'.on => uClose'.tunnel = t
         /\ \A f \in Fencers : Swept(f) /\ uClose'.on /\ ~uClose'.fails => uLive' = {}
         /\ \A f \in Fencers : Swept(f) /\ uClose'.on => \A t \in uListen : uClose'.tunnel = t
         /\ \A f \in Fencers, t \in Sockets : Swept(f) /\ uHand[t].pc = "binding" => uLive' = {} /\ ~uClose'.on
         /\ \A t \in Sockets : uHand[t].pc = "binding" /\ uClose'.on => uClose'.fails \/ uLive' = {}
         /\ JoinClose = "ok" => uListen = {}
<1>0. RestOK
  BY TunnelTypes DEF TunnelInv
<1>1. /\ CloseStarted /\ uLive' \subseteq uLive
      /\ JoinClose = "ok" => ~uClose.on /\ ~uClose'.on /\ uTunnel = NoSocket /\ uLive = {} /\ uLive' = {}
      /\ uClose.on => uClose' = uClose /\ uLive' = uLive
  BY <1>0, StartCloseIs
<1>2. \A t \in uListen : t \in Sockets /\ uTunnel = t /\ t # NoSocket
  BY <1>0, TunnelFields DEF TunnelInv, ListenerFits, RestOK
<1>3. ASSUME NEW t \in Sockets, uHand[t].pc = "binding" PROVE uTunnel = NoSocket /\ (uClose.on => uFenced)
  <2>0. \A u \in Sockets : uHand[u].park # 0 => u = t
    <3>1. uHand[t].park # 0 /\ uHand[t].won
      BY <1>3 DEF TunnelInv, HandlerFits, InLifecycle
    <3> QED
      BY <1>3, <3>1, OneParkHolder DEF TunnelInv
  <2>1. ASSUME NEW u \in Sockets, uHand[u].park # 0, uHand[u].pc \in BoundSteps PROVE FALSE
    BY <1>3, <2>0, <2>1 DEF BoundSteps
  <2>2. uTunnel \in Sockets => FALSE
    BY <2>1 DEF TunnelInv, ListenerFits
  <2>3. uClose.on /\ ~uFenced => FALSE
    BY <2>1 DEF TunnelInv, ClosesFit
  <2> QED
    BY <1>0, <2>2, <2>3 DEF RestOK
<1>4. CASE ~StartsClose
  <2>1. UNCHANGED <<uClose, uLive>>
    BY <1>1, <1>4 DEF CloseStarted
  <2>2. ASSUME NEW f \in Fencers PROVE FenceFits(f)
    BY DEF TunnelInv
  <2>3. ASSUME NEW t \in Sockets PROVE ListenerFits(t)
    BY DEF TunnelInv
  <2>4. ASSUME NEW t \in Sockets, uHand[t].pc = "binding", uClose.on PROVE uClose.fails \/ uLive = {}
    BY <1>3, <2>4 DEF TunnelInv, ClosesFit
  <2>5. JoinClose = "ok" => uListen = {}
    BY <1>1, <1>2
  <2>6. /\ \A f \in Fencers : Swept(f) /\ uClose.on /\ ~uClose.fails => uLive = {}
        /\ \A f \in Fencers : Swept(f) /\ uClose.on => \A t \in uListen : uClose.tunnel = t
        /\ \A f \in Fencers, t \in Sockets : Swept(f) /\ uHand[t].pc = "binding" => uLive = {} /\ ~uClose.on
    BY <2>2 DEF FenceFits
  <2>7. \A t \in Sockets : t \in uListen /\ uHand[t].pc # "done" /\ uClose.on => uClose.tunnel = t
    BY <2>3 DEF ListenerFits
  <2> QED
    BY <2>1, <2>4, <2>5, <2>6, <2>7
<1>5. CASE StartsClose
  <2>1. /\ ~uClose.on /\ uClose'.on /\ uClose'.tunnel = uTunnel /\ (uClose'.fails \/ uLive' = {})
        /\ uTunnel # NoSocket \/ uLive # {}
    BY <1>1, <1>5 DEF CloseStarted, StartsClose
  <2>2. ASSUME NEW f \in Fencers, NEW t \in Sockets, Swept(f), uHand[t].pc = "binding" PROVE FALSE
    <3>1. uLive = {}
      BY <2>2 DEF TunnelInv, FenceFits
    <3> QED
      BY <1>3, <2>1, <2>2, <3>1
  <2>3. JoinClose # "ok"
    BY <1>1, <2>1
  <2>4. \A t \in uListen : uClose'.tunnel = t
    BY <1>2, <2>1
  <2>5. uLive = {} => uLive' = {}
    BY <1>1
  <2> QED
    BY <2>1, <2>2, <2>3, <2>4, <2>5
<1> QED
  BY <1>4, <1>5

\* The tunnel's listener is up.
LEMMA BindEndsKeeps == ASSUME TunnelInv, NEW s \in Sockets, BindEnds(s) PROVE TunnelInv'
<1> DEFINE x == uHand[s]
           pc == IF uFenced THEN "done" ELSE "crawling"
<1>0. ParksOK /\ RestOK /\ HandlerFits(s)
  BY TunnelTypes DEF TunnelInv
<1>f. /\ x.pc \in HandlerSteps /\ x.won \in BOOLEAN /\ x.park \in 0..MaxParks /\ x.close \in CloseResults
      /\ x.fatal \in BOOLEAN
  BY <1>0, HandFields
<1>1. /\ UNCHANGED <<uPark, uCur, uFenced, uLive, uClose, uFence, uFails, uRow>>
      /\ x.pc = "binding" /\ uListen' = uListen \cup {s} /\ uTunnel' = s
      /\ uFenced => uBrowser' = uBrowser
      /\ ~uFenced => uBrowser' = uBrowser \cup {s}
  BY DEF BindEnds
<1>2. Becomes(s, pc, x.won, x.park, x.close, x.fatal)
  <2>1. uHand' = [uHand EXCEPT ![s].pc = pc]
    BY DEF BindEnds
  <2> QED
    BY <1>0, <2>1, BecomesBy
<1>3. pc \in HandlerSteps /\ pc \in {"done", "crawling"} /\ (pc = "done" <=> uFenced)
  BY <1>0 DEF HandlerSteps, RestOK
<1> HIDE DEF pc
<1>4. /\ uHand' \in [Sockets -> HandRecords] /\ uHand'[s].pc = pc /\ uHand'[s].won = x.won
      /\ uHand'[s].park = x.park
      /\ uHand'[s].close = x.close /\ uHand'[s].fatal = x.fatal /\ \A t \in Sockets : t # s => uHand'[t] = uHand[t]
  BY <1>0, <1>2, <1>3, <1>f, BecomesIs
<1>5. x.park # 0 /\ x.won /\ uPark[x.park].st # "result" /\ s \notin uBrowser
  BY <1>0, <1>1 DEF HandlerFits, InLifecycle
<1>6. \A t \in Sockets : t # s => uHand[t].park = 0
  BY <1>1, <1>5, OneParkHolder DEF TunnelInv
<1>7. \A t \in Sockets : t # s => ~InLifecycle(t)
  BY <1>6 DEF TunnelInv, HandlerFits
<1>a. \A t \in Sockets : t # s => t \notin uListen
  BY <1>6 DEF TunnelInv, ListenerFits
<1>b. s \notin uListen
  BY <1>1 DEF TunnelInv, ListenerFits, BoundSteps
<1>c. uListen' = {s}
  BY <1>0, <1>1, <1>a, <1>b DEF RestOK
<1>d. ~uFenced => ~uClose.on
  BY <1>1, <1>6 DEF TunnelInv, ClosesFit, BoundSteps
<1>8. TunnelTypeOK'
  BY <1>0, <1>1, <1>4, TunnelTypesNext DEF ParksOK, RestOK
<1>9. OneHolder'
  <2>1. \A t \in Sockets : HoldsClaim(t)' <=> HoldsClaim(t)
    BY <1>1, <1>4, <1>5 DEF HoldsClaim
  <2> QED
    BY <1>1, <2>1 DEF TunnelInv, OneHolder
<1>10. CurIsWaiting' /\ ResultBehindClosedTunnel'
  BY <1>1, <1>4, <1>5, <1>6 DEF TunnelInv, CurIsWaiting, ResultBehindClosedTunnel
<1>11. ASSUME NEW t \in Sockets PROVE HandlerFits(t)' /\ ListenerFits(t)'
  <2>0. HandlerFits(t) /\ ListenerFits(t)
    BY DEF TunnelInv
  <2>1. CASE t = s
    <3>1. HandlerFits(s)'
      BY <1>0, <1>1, <1>3, <1>4, <1>5 DEF HandlerFits, InLifecycle
    <3>2. ListenerFits(s)'
      BY <1>1, <1>3, <1>4, <1>5, <1>d DEF ListenerFits, BoundSteps
    <3> QED
      BY <2>1, <3>1, <3>2
  <2>2. CASE t # s
    BY <1>1, <1>4, <1>6, <1>c, <2>0, <2>2 DEF HandlerFits, ListenerFits, InLifecycle
  <2> QED
    BY <2>1, <2>2
<1>12. \A t \in Sockets : uHand'[t].pc # "binding" /\ (InLifecycle(t)' => InLifecycle(t))
  BY <1>1, <1>3, <1>4, <1>7 DEF InLifecycle
<1>13. ClosesFit'
  BY <1>1, <1>12, <1>d DEF ClosesFit
<1>14. ASSUME NEW f \in Fencers PROVE FenceFits(f)'
  <2>0. FenceFits(f)
    BY DEF TunnelInv
  <2>1. uFence[f].pc \notin {"second", "lifecycle", "done"}
    BY <1>1, <2>0 DEF FenceFits
  <2>2. Swept(f) => ~uClose.on
    BY <1>1, <2>0 DEF FenceFits
  <2> QED
    BY <1>1, <1>12, <2>0, <2>1, <2>2 DEF FenceFits, Swept
<1> QED
  BY <1>8, <1>9, <1>10, <1>11, <1>13, <1>14 DEF TunnelInv

\* A handler of a bound crawl closes the tunnel.
HandlerCloses(s, pc, fatal) ==
  /\ uHand[s].pc \in {"binding", "crawling", "fencing", "completing"} /\ pc \in {"fencing", "teardown"}
  /\ fatal \in BOOLEAN /\ Becomes(s, pc, uHand[s].won, uHand[s].park, JoinClose, fatal)
  /\ StartClose
  /\ uBrowser' \subseteq uBrowser /\ (s \in uBrowser' => pc = "teardown" /\ fatal)
  /\ uRow' \in RowRecords /\ uRow'.claimed = uRow.claimed
  /\ UNCHANGED <<uPark, uCur, uFenced, uTunnel, uListen, uFence>>

LEMMA HandlerClosesKeeps ==
  ASSUME TunnelInv, NEW s \in Sockets, NEW pc, NEW fatal, HandlerCloses(s, pc, fatal) PROVE TunnelInv'
<1> DEFINE x == uHand[s]
<1>0. ParksOK /\ RestOK /\ HandlerFits(s)
  BY TunnelTypes DEF TunnelInv
<1>f. x.pc \in HandlerSteps /\ x.won \in BOOLEAN /\ x.park \in 0..MaxParks
  BY <1>0, HandFields
<1>1. /\ UNCHANGED <<uPark, uCur, uFenced, uTunnel, uListen, uFence>>
      /\ x.pc \in {"binding", "crawling", "fencing", "completing"} /\ pc \in {"fencing", "teardown"}
      /\ fatal \in BOOLEAN
      /\ StartClose /\ uBrowser' \subseteq uBrowser /\ (s \in uBrowser' => pc = "teardown" /\ fatal)
      /\ uRow' \in RowRecords /\ uRow'.claimed = uRow.claimed
  BY DEF HandlerCloses
<1>2. /\ uClose' \in CloseRecords /\ uFails' \in 0..MaxCloseFails /\ uLive' \subseteq uLive
      /\ JoinClose \in {"waiting", "ok"} /\ (JoinClose = "waiting" <=> uClose'.on)
      /\ JoinClose = "ok" => uTunnel = NoSocket
  BY <1>0, <1>1, StartCloseIs
<1>3. /\ uClose.on => uClose'.on
      /\ uLive = {} => uLive' = {}
      /\ \A t \in Sockets : t \in uListen /\ uHand[t].pc # "done" /\ uClose'.on => uClose'.tunnel = t
      /\ \A f \in Fencers : Swept(f) /\ uClose'.on /\ ~uClose'.fails => uLive' = {}
      /\ \A f \in Fencers : Swept(f) /\ uClose'.on => \A t \in uListen : uClose'.tunnel = t
      /\ JoinClose = "ok" => uListen = {}
  BY <1>1, StartCloseKeeps
<1>4. /\ uHand' \in [Sockets -> HandRecords] /\ uHand'[s].pc = pc /\ uHand'[s].won = x.won
      /\ uHand'[s].park = x.park
      /\ uHand'[s].close = JoinClose /\ uHand'[s].fatal = fatal /\ \A t \in Sockets : t # s => uHand'[t] = uHand[t]
  <2>1. pc \in HandlerSteps /\ JoinClose \in CloseResults
    BY <1>1, <1>2 DEF HandlerSteps, CloseResults
  <2>2. Becomes(s, pc, x.won, x.park, JoinClose, fatal)
    BY DEF HandlerCloses
  <2> HIDE DEF x
  <2> QED
    BY <1>0, <1>1, <1>f, <2>1, <2>2, BecomesIs
<1>5. x.park # 0 /\ x.won /\ uPark[x.park].st # "result"
  BY <1>0, <1>1 DEF HandlerFits, InLifecycle
<1>6. \A t \in Sockets : t # s => uHand[t].park = 0
  BY <1>1, <1>5, OneParkHolder DEF TunnelInv
<1>7. \A t \in Sockets : t # s => ~InLifecycle(t)
  BY <1>6 DEF TunnelInv, HandlerFits
<1>8. TunnelTypeOK'
  BY <1>0, <1>1, <1>2, <1>4, TunnelTypesNext DEF ParksOK, RestOK
<1>9. OneHolder'
  <2>1. \A t \in Sockets : HoldsClaim(t)' <=> HoldsClaim(t)
    BY <1>1, <1>4, <1>5 DEF HoldsClaim
  <2> QED
    BY <1>1, <2>1 DEF TunnelInv, OneHolder
<1>10. CurIsWaiting' /\ ResultBehindClosedTunnel'
  BY <1>1, <1>4, <1>5, <1>6 DEF TunnelInv, CurIsWaiting, ResultBehindClosedTunnel
<1>11. ASSUME NEW t \in Sockets PROVE HandlerFits(t)' /\ ListenerFits(t)'
  <2>0. HandlerFits(t) /\ ListenerFits(t)
    BY DEF TunnelInv
  <2>1. CASE t = s
    <3>1. HandlerFits(s)'
      BY <1>0, <1>1, <1>2, <1>4, <1>5 DEF HandlerFits, InLifecycle
    <3>2. ListenerFits(s)'
      BY <1>1, <1>2, <1>3, <1>4, <1>5, <2>0, <2>1 DEF ListenerFits, BoundSteps
    <3> QED
      BY <2>1, <3>1, <3>2
  <2>2. CASE t # s
    <3>1. t \in uBrowser' => t \in uBrowser
      BY <1>1
    <3> QED
      BY <1>1, <1>3, <1>4, <1>6, <2>0, <2>2, <3>1 DEF HandlerFits, ListenerFits, InLifecycle
  <2> QED
    BY <2>1, <2>2
<1>12. \A t \in Sockets : uHand'[t].pc # "binding" /\ (InLifecycle(t)' <=> InLifecycle(t))
  BY <1>1, <1>4, <1>7 DEF InLifecycle
<1>13. ClosesFit'
  <2>1. uHand'[s].park # 0 /\ uHand'[s].pc \in BoundSteps
    BY <1>1, <1>4, <1>5 DEF BoundSteps
  <2> QED
    BY <1>12, <2>1 DEF ClosesFit
<1>14. ASSUME NEW f \in Fencers PROVE FenceFits(f)'
  <2>0. FenceFits(f)
    BY DEF TunnelInv
  <2>1. Swept(f)' <=> Swept(f)
    BY <1>1 DEF Swept
  <2> QED
    BY <1>1, <1>3, <1>12, <2>0, <2>1 DEF FenceFits
<1> QED
  BY <1>8, <1>9, <1>10, <1>11, <1>13, <1>14 DEF TunnelInv

\* completeSession is due: the handler's tunnel is closed.
LEMMA FencedKeeps ==
  ASSUME TunnelInv, NEW s \in Sockets, uHand[s].pc = "fencing", uHand[s].close = "ok",
         Becomes(s, "completing", uHand[s].won, uHand[s].park, "none", uHand[s].fatal),
         UNCHANGED <<uPark, uCur, uFenced, uLive, uTunnel, uListen, uBrowser, uClose, uFence, uFails, uRow>>
  PROVE  TunnelInv'
<1> DEFINE x == uHand[s]
<1>0. ParksOK /\ RestOK /\ HandlerFits(s)
  BY TunnelTypes DEF TunnelInv
<1>f. x.pc \in HandlerSteps /\ x.won \in BOOLEAN /\ x.park \in 0..MaxParks /\ x.fatal \in BOOLEAN
  BY <1>0, HandFields
<1>4. /\ uHand' \in [Sockets -> HandRecords] /\ uHand'[s].pc = "completing" /\ uHand'[s].won = x.won
      /\ uHand'[s].park = x.park
      /\ uHand'[s].close = "none" /\ uHand'[s].fatal = x.fatal /\ \A t \in Sockets : t # s => uHand'[t] = uHand[t]
  <2>1. "completing" \in HandlerSteps /\ "none" \in CloseResults
    BY DEF HandlerSteps, CloseResults
  <2> QED
    BY <1>0, <1>f, <2>1, BecomesIs
<1>5. s \notin uListen /\ s \notin uBrowser
  BY DEF TunnelInv, ListenerFits, HandlerFits
<1>6. TunnelTypeOK'
  BY <1>0, <1>4, TunnelTypesNext DEF ParksOK, RestOK
<1>7. OneHolder'
  <2>1. \A t \in Sockets : HoldsClaim(t)' <=> HoldsClaim(t)
    BY <1>4 DEF HoldsClaim
  <2> QED
    BY <2>1 DEF TunnelInv, OneHolder
<1>8. CurIsWaiting' /\ ResultBehindClosedTunnel'
  BY <1>4, <1>5 DEF TunnelInv, CurIsWaiting, ResultBehindClosedTunnel
<1>9. ASSUME NEW t \in Sockets PROVE HandlerFits(t)' /\ ListenerFits(t)'
  <2>0. HandlerFits(t) /\ ListenerFits(t)
    BY DEF TunnelInv
  <2>1. CASE t = s
    BY <1>4, <1>5, <2>0, <2>1 DEF HandlerFits, ListenerFits, InLifecycle, BoundSteps
  <2>2. CASE t # s
    BY <1>4, <2>0, <2>2 DEF HandlerFits, ListenerFits, InLifecycle
  <2> QED
    BY <2>1, <2>2
<1>10. \A t \in Sockets : /\ uHand'[t].pc = "binding" <=> uHand[t].pc = "binding"
                          /\ InLifecycle(t)' <=> InLifecycle(t)
                          /\ uHand'[t].park = uHand[t].park
                          /\ uHand[t].pc \in BoundSteps => uHand'[t].pc \in BoundSteps
  BY <1>4 DEF InLifecycle, BoundSteps
<1>11. ClosesFit'
  BY <1>10 DEF TunnelInv, ClosesFit
<1>12. ASSUME NEW f \in Fencers PROVE FenceFits(f)'
  BY <1>10 DEF TunnelInv, FenceFits, Swept
<1> QED
  BY <1>6, <1>7, <1>8, <1>9, <1>11, <1>12 DEF TunnelInv

\* What settling a park does to the registry.
LEMMA SettlesIs ==
  ASSUME ParksOK, RestOK, CurIsWaiting, NEW p \in 0..MaxParks, NEW st \in ParkStates \ {"waiting"},
         uPark' = Settled(uPark, p, st), uCur' = CurAfter(p)
  PROVE  /\ ParksOK' /\ CurIsWaiting' /\ uCur' \in 0..MaxParks /\ uCur' \in {0, uCur}
         /\ (uCur = p => uCur' = 0)
         /\ \A q \in Parks : uPark'[q].st = "result" => uPark[q].st = "result" \/ st = "result"
<1>1. /\ uPark' \in [Parks -> ParkRecords]
      /\ \A q \in Parks : uPark'[q].st = IF q = p /\ uPark[q].st = "waiting" THEN st ELSE uPark[q].st
      /\ \A q \in Parks : uPark'[q].timer => uPark'[q].st = "waiting"
  BY SettledIs
<1>2. uCur \in 0..MaxParks /\ Parks = 1..MaxParks /\ MaxParks \in Nat
  BY ParkAssumption DEF RestOK, Parks
<1>3. ParksOK'
  BY <1>1 DEF ParksOK
<1>4. CASE p # 0 /\ uPark[p].st = "waiting"
  <2>1. uCur = p /\ uCur' = 0 /\ p \in Parks
    BY <1>2, <1>4 DEF CurIsWaiting, CurAfter
  <2>2. CurIsWaiting'
    BY <1>1, <1>2, <2>1 DEF CurIsWaiting
  <2> QED
    BY <1>1, <1>2, <1>3, <2>1, <2>2
<1>5. CASE ~(p # 0 /\ uPark[p].st = "waiting")
  <2>1. uCur' = uCur
    BY <1>5 DEF CurAfter
  <2>2. \A q \in Parks : uPark'[q].st = uPark[q].st
    BY <1>1, <1>2, <1>5
  <2>3. uCur = p => uCur = 0
    BY <1>2, <1>5 DEF CurIsWaiting
  <2>4. CurIsWaiting'
    BY <2>1, <2>2 DEF CurIsWaiting
  <2> QED
    BY <1>2, <1>3, <2>1, <2>2, <2>3, <2>4
<1> QED
  BY <1>4, <1>5

\* The handler resolves its park.
LEMMA HandlerEndsKeeps == ASSUME TunnelInv, NEW s \in Sockets, HandlerEnds(s) PROVE TunnelInv'
<1> DEFINE x == uHand[s]
           st == IF x.fatal \/ x.close = "failed" THEN "failed" ELSE "result"
<1>0. ParksOK /\ RestOK /\ CurIsWaiting /\ HandlerFits(s) /\ ListenerFits(s)
  BY TunnelTypes DEF TunnelInv
<1>f. x.pc \in HandlerSteps /\ x.won \in BOOLEAN /\ x.park \in 0..MaxParks /\ x.fatal \in BOOLEAN
  BY <1>0, HandFields
<1>1. /\ UNCHANGED <<uFenced, uLive, uTunnel, uListen, uBrowser, uClose, uFence, uFails, uRow>>
      /\ x.pc = "teardown" /\ x.close \in {"ok", "failed"}
      /\ uPark' = Settled(uPark, x.park, st) /\ uCur' = CurAfter(x.park)
  BY DEF HandlerEnds
<1>2. st \in ParkStates \ {"waiting"} /\ (st = "result" => ~x.fatal)
  BY DEF ParkStates
<1>3. Becomes(s, "done", x.won, x.park, "none", x.fatal)
  BY <1>0, BecomesBy DEF HandlerEnds
<1> HIDE DEF st
<1>4. /\ uHand' \in [Sockets -> HandRecords] /\ uHand'[s].pc = "done" /\ uHand'[s].won = x.won
      /\ uHand'[s].park = x.park
      /\ uHand'[s].close = "none" /\ uHand'[s].fatal = x.fatal /\ \A t \in Sockets : t # s => uHand'[t] = uHand[t]
  <2>1. "done" \in HandlerSteps /\ "none" \in CloseResults
    BY DEF HandlerSteps, CloseResults
  <2> HIDE DEF x
  <2> QED
    BY <1>0, <1>f, <1>3, <2>1, BecomesIs
<1>5. /\ ParksOK' /\ CurIsWaiting' /\ uCur' \in 0..MaxParks /\ uCur' \in {0, uCur}
      /\ \A q \in Parks : uPark'[q].st = "result" => uPark[q].st = "result" \/ st = "result"
  <2> HIDE DEF x
  <2> QED
    BY <1>0, <1>1, <1>2, <1>f, SettlesIs
<1>6. x.park # 0 /\ x.won /\ x.park \in Parks /\ uPark[x.park].st # "result"
  <2>1. x.park # 0 /\ x.won /\ uPark[x.park].st # "result"
    BY <1>0, <1>1 DEF HandlerFits, InLifecycle
  <2> HIDE DEF x
  <2> QED
    BY <1>f, <2>1, ParkAssumption DEF Parks
<1>7. \A t \in Sockets : t # s => uHand[t].park = 0
  BY <1>1, <1>6, OneParkHolder DEF TunnelInv
<1>8. \A t \in Sockets : t # s => ~InLifecycle(t)
  BY <1>7 DEF TunnelInv, HandlerFits
<1>9. s \notin uListen /\ (s \in uBrowser => x.fatal)
  BY <1>0, <1>1 DEF ListenerFits, HandlerFits
<1>10. TunnelTypeOK'
  BY <1>0, <1>1, <1>4, <1>5, TunnelTypesNext DEF RestOK
<1>11. OneHolder'
  <2>1. \A t \in Sockets : HoldsClaim(t)' <=> HoldsClaim(t)
    BY <1>1, <1>4, <1>6 DEF HoldsClaim
  <2> QED
    BY <1>1, <2>1 DEF TunnelInv, OneHolder
<1>12. ResultBehindClosedTunnel'
  <2>1. uPark'[x.park].st = "result" => st = "result"
    BY <1>5, <1>6
  <2> QED
    BY <1>1, <1>2, <1>4, <1>7, <1>9, <2>1 DEF ResultBehindClosedTunnel
<1>13. ASSUME NEW t \in Sockets PROVE HandlerFits(t)' /\ ListenerFits(t)'
  <2>0. HandlerFits(t) /\ ListenerFits(t)
    BY DEF TunnelInv
  <2>1. CASE t = s
    BY <1>1, <1>4, <1>6, <1>9, <2>0, <2>1 DEF HandlerFits, ListenerFits, InLifecycle, BoundSteps
  <2>2. CASE t # s
    BY <1>1, <1>4, <1>7, <2>0, <2>2 DEF HandlerFits, ListenerFits, InLifecycle
  <2> QED
    BY <2>1, <2>2
<1>14. \A t \in Sockets : /\ uHand'[t].pc = "binding" <=> uHand[t].pc = "binding"
                          /\ InLifecycle(t)' => InLifecycle(t)
                          /\ uHand'[t].park = uHand[t].park
                          /\ uHand[t].pc \in BoundSteps => uHand'[t].pc \in BoundSteps
  BY <1>1, <1>4 DEF InLifecycle, BoundSteps
<1>15. ClosesFit'
  BY <1>1, <1>14 DEF TunnelInv, ClosesFit
<1>16. ASSUME NEW f \in Fencers PROVE FenceFits(f)'
  BY <1>1, <1>5, <1>14 DEF TunnelInv, FenceFits, Swept
<1> QED
  BY <1>5, <1>10, <1>11, <1>12, <1>13, <1>15, <1>16 DEF TunnelInv

----------------------------------------------------------------------------
\* fenceCrawl.
FenceBecomes(f, pc, close, park, life) ==
  uFence' = [uFence EXCEPT ![f] = [pc |-> pc, close |-> close, park |-> park, life |-> life]]

LEMMA FenceBecomesIs ==
  ASSUME RestOK, NEW f \in Fencers, NEW pc \in {"first", "binds", "second", "lifecycle", "done", "failed"},
         NEW close \in CloseResults, NEW park \in 0..MaxParks, NEW life \in Sockets \cup {NoSocket},
         FenceBecomes(f, pc, close, park, life)
  PROVE  /\ uFence' \in [Fencers -> FenceRecords]
         /\ uFence'[f].pc = pc /\ uFence'[f].close = close /\ uFence'[f].park = park
         /\ uFence'[f].life = life
         /\ \A g \in Fencers : g # f => uFence'[g] = uFence[g]
<1> DEFINE y == [pc |-> pc, close |-> close, park |-> park, life |-> life]
<1>1. y \in FenceRecords /\ y.pc = pc /\ y.close = close /\ y.park = park /\ y.life = life
  BY DEF FenceRecords
<1>2. uFence \in [Fencers -> FenceRecords] /\ uFence' = [uFence EXCEPT ![f] = y]
  BY DEF RestOK, FenceBecomes
<1> HIDE DEF y
<1> QED
  BY <1>1, <1>2

LEMMA FenceFields ==
  ASSUME RestOK, NEW f \in Fencers
  PROVE  /\ uFence[f].close \in CloseResults /\ uFence[f].park \in 0..MaxParks
         /\ uFence[f].life \in Sockets \cup {NoSocket}
         /\ uFence[f].pc \in {"idle", "first", "binds", "second", "lifecycle", "done", "failed"}
BY DEF RestOK, FenceRecords

LEMMA FenceBecomesBy ==
  ASSUME RestOK, NEW f \in Fencers, NEW pc, NEW c
  PROVE  LET x == uFence[f] IN
         /\ uFence' = [uFence EXCEPT ![f].pc = pc] => FenceBecomes(f, pc, x.close, x.park, x.life)
         /\ uFence' = [uFence EXCEPT ![f].pc = pc, ![f].close = c] => FenceBecomes(f, pc, c, x.park, x.life)
<1> DEFINE x == uFence[f]
           z == [x EXCEPT !.pc = pc]
<1>0. uFence \in [Fencers -> FenceRecords] /\ x \in FenceRecords
  BY DEF RestOK
<1>a. z = [pc |-> pc, close |-> x.close, park |-> x.park, life |-> x.life]
  <2> HIDE DEF x
  <2> QED
    BY <1>0 DEF FenceRecords
<1>1. uFence' = [uFence EXCEPT ![f].pc = pc] => FenceBecomes(f, pc, x.close, x.park, x.life)
  <2>1. [x EXCEPT !.pc = pc] = [pc |-> pc, close |-> x.close, park |-> x.park, life |-> x.life]
    BY <1>a
  <2>2. uFence' = [uFence EXCEPT ![f].pc = pc] => uFence' = [uFence EXCEPT ![f] = [x EXCEPT !.pc = pc]]
    BY <1>0
  <2> QED
    BY <2>1, <2>2 DEF FenceBecomes
<1>2. uFence' = [uFence EXCEPT ![f].pc = pc, ![f].close = c] => FenceBecomes(f, pc, c, x.park, x.life)
  <2>1. [x EXCEPT !.pc = pc, !.close = c] = [pc |-> pc, close |-> c, park |-> x.park, life |-> x.life]
    <3>1. [x EXCEPT !.pc = pc, !.close = c] = [z EXCEPT !.close = c]
      OBVIOUS
    <3>2. [z EXCEPT !.close = c] = [pc |-> pc, close |-> c, park |-> x.park, life |-> x.life]
      <4> HIDE DEF z, x
      <4> QED
        BY <1>a
    <3> QED
      BY <3>1, <3>2
  <2>2. uFence' = [uFence EXCEPT ![f].pc = pc, ![f].close = c] => uFence' = [uFence EXCEPT ![f] = [x EXCEPT !.pc = pc, !.close = c]]
    BY <1>0
  <2> QED
    BY <2>1, <2>2 DEF FenceBecomes
<1> QED
  BY <1>1, <1>2

\* A fence closes the tunnel: when it starts, and again after the binds.
FenceCloses(f, pc, park, life) ==
  /\ FenceBecomes(f, pc, JoinClose, park, life) /\ park \in 0..MaxParks /\ life \in Sockets \cup {NoSocket}
  /\ uFenced' = TRUE /\ StartClose
  /\ \/ pc = "first" /\ uFence[f].pc = "idle" /\ park = uCur
     \/ /\ pc = "second" /\ uFence[f].pc = "binds" /\ park = uFence[f].park
        /\ \A s \in Sockets : uHand[s].pc # "binding"
  /\ \A s \in Sockets : InLifecycle(s) => life = s
  /\ UNCHANGED <<uPark, uCur, uHand, uTunnel, uListen, uBrowser, uRow>>

LEMMA FenceClosesKeeps ==
  ASSUME TunnelInv, NEW f \in Fencers, NEW pc, NEW park, NEW life, FenceCloses(f, pc, park, life)
  PROVE  TunnelInv'
<1>0. ParksOK /\ RestOK /\ FenceFits(f)
  BY TunnelTypes DEF TunnelInv
<1>1. /\ UNCHANGED <<uPark, uCur, uHand, uTunnel, uListen, uBrowser, uRow>>
      /\ FenceBecomes(f, pc, JoinClose, park, life) /\ park \in 0..MaxParks
      /\ life \in Sockets \cup {NoSocket}
      /\ uFenced' = TRUE /\ StartClose /\ pc \in {"first", "second"} /\ uCur \in {0, park}
      /\ pc = "second" => uFence[f].pc = "binds" /\ \A s \in Sockets : uHand[s].pc # "binding"
      /\ \A s \in Sockets : InLifecycle(s) => life = s
  BY <1>0 DEF FenceCloses, FenceFits
<1>2. /\ uClose' \in CloseRecords /\ uFails' \in 0..MaxCloseFails /\ uLive' \subseteq uLive
      /\ JoinClose \in {"waiting", "ok"} /\ (JoinClose = "waiting" <=> uClose'.on)
      /\ JoinClose = "ok" => ~uClose'.on /\ uLive' = {}
  BY <1>0, <1>1, StartCloseIs
<1>3. /\ uClose.on => uClose'.on
      /\ uLive = {} => uLive' = {}
      /\ \A t \in Sockets : t \in uListen /\ uHand[t].pc # "done" /\ uClose'.on => uClose'.tunnel = t
      /\ \A g \in Fencers : Swept(g) /\ uClose'.on /\ ~uClose'.fails => uLive' = {}
      /\ \A g \in Fencers : Swept(g) /\ uClose'.on => \A t \in uListen : uClose'.tunnel = t
      /\ \A g \in Fencers, t \in Sockets : Swept(g) /\ uHand[t].pc = "binding" => uLive' = {} /\ ~uClose'.on
      /\ \A t \in Sockets : uHand[t].pc = "binding" /\ uClose'.on => uClose'.fails \/ uLive' = {}
      /\ JoinClose = "ok" => uListen = {}
  BY <1>1, StartCloseKeeps
<1>4. /\ uFence' \in [Fencers -> FenceRecords] /\ uFence'[f].pc = pc /\ uFence'[f].close = JoinClose
      /\ uFence'[f].park = park /\ uFence'[f].life = life /\ \A g \in Fencers : g # f => uFence'[g] = uFence[g]
  <2>1. pc \in {"first", "binds", "second", "lifecycle", "done", "failed"} /\ JoinClose \in CloseResults
    BY <1>1, <1>2 DEF CloseResults
  <2> QED
    BY <1>0, <1>1, <2>1, FenceBecomesIs
<1>5. TunnelTypeOK'
  BY <1>0, <1>1, <1>2, <1>4, TunnelTypesNext DEF ParksOK, RestOK
<1>6. OneHolder' /\ CurIsWaiting' /\ ResultBehindClosedTunnel' /\ ClosesFit'
  BY <1>1, <1>3 DEF TunnelInv, OneHolder, HoldsClaim, CurIsWaiting, ResultBehindClosedTunnel, ClosesFit
<1>7. ASSUME NEW t \in Sockets PROVE HandlerFits(t)' /\ ListenerFits(t)'
  BY <1>1, <1>3 DEF TunnelInv, HandlerFits, ListenerFits, InLifecycle
<1>8. ASSUME NEW g \in Fencers PROVE FenceFits(g)'
  <2>l. \A t \in Sockets : InLifecycle(t)' <=> InLifecycle(t)
    BY <1>1 DEF InLifecycle
  <2>0. FenceFits(g)
    BY DEF TunnelInv
  <2>1. CASE g # f
    <3>1. Swept(g)' <=> Swept(g)
      BY <1>4, <2>1 DEF Swept
    <3>2. uFence'[g] = uFence[g]
      BY <1>4, <2>1
    <3> QED
      BY <1>1, <1>3, <2>0, <2>l, <3>1, <3>2 DEF FenceFits
  <2>2. CASE g = f /\ pc = "first"
    <3>1. Swept(f)' => JoinClose = "ok"
      BY <1>4, <2>2 DEF Swept
    <3> QED
      BY <1>1, <1>2, <1>4, <2>2, <2>l, <3>1 DEF FenceFits
  <2>3. CASE g = f /\ pc = "second"
    <3>1. Swept(f)
      BY <1>1, <2>3 DEF Swept
    <3> QED
      BY <1>1, <1>2, <1>3, <1>4, <2>3, <2>l, <3>1 DEF FenceFits
  <2> QED
    BY <1>1, <2>1, <2>2, <2>3
<1> QED
  BY <1>5, <1>6, <1>7, <1>8 DEF TunnelInv

\* A fence goes on, or throws; nothing but the park registry changes.
FenceMoves(f, pc) ==
  /\ FenceBecomes(f, pc, uFence[f].close, uFence[f].park, uFence[f].life)
  /\ \/ pc = "failed"
     \/ pc = "binds" /\ uFence[f].pc = "first" /\ uFence[f].close = "ok"
     \/ pc = "lifecycle" /\ uFence[f].pc = "second" /\ uFence[f].close = "ok"
     \/ pc = "done" /\ uFence[f].pc = "lifecycle" /\ uCur' = 0 /\ \A s \in Sockets : ~InLifecycle(s)
  /\ uFence[f].pc # "idle"
  /\ ParksOK' /\ CurIsWaiting' /\ uCur' \in {0, uCur}
  /\ \A q \in Parks : uPark'[q].st = "result" => uPark[q].st = "result"
  /\ UNCHANGED <<uFenced, uHand, uLive, uTunnel, uListen, uBrowser, uClose, uFails, uRow>>

LEMMA FenceMovesKeeps == ASSUME TunnelInv, NEW f \in Fencers, NEW pc, FenceMoves(f, pc) PROVE TunnelInv'
<1> DEFINE x == uFence[f]
<1>0. ParksOK /\ RestOK /\ FenceFits(f)
  BY TunnelTypes DEF TunnelInv
<1>f. x.close \in CloseResults /\ x.park \in 0..MaxParks /\ x.life \in Sockets \cup {NoSocket}
  BY <1>0, FenceFields
<1>1. /\ UNCHANGED <<uFenced, uHand, uLive, uTunnel, uListen, uBrowser, uClose, uFails, uRow>>
      /\ FenceBecomes(f, pc, x.close, x.park, x.life) /\ pc \in {"failed", "binds", "lifecycle", "done"}
      /\ x.pc # "idle"
      /\ ParksOK' /\ CurIsWaiting' /\ uCur' \in {0, uCur}
      /\ \A q \in Parks : uPark'[q].st = "result" => uPark[q].st = "result"
  BY DEF FenceMoves
<1>2. /\ pc = "binds" => x.pc = "first" /\ x.close = "ok"
      /\ pc = "lifecycle" => x.pc = "second" /\ x.close = "ok"
      /\ pc = "done" => x.pc = "lifecycle" /\ uCur' = 0 /\ \A s \in Sockets : ~InLifecycle(s)
  BY DEF FenceMoves
<1>3. /\ uFence' \in [Fencers -> FenceRecords] /\ uFence'[f].pc = pc /\ uFence'[f].close = x.close
      /\ uFence'[f].park = x.park /\ uFence'[f].life = x.life /\ \A g \in Fencers : g # f => uFence'[g] = uFence[g]
  <2>1. pc \in {"first", "binds", "second", "lifecycle", "done", "failed"}
    BY <1>1
  <2> HIDE DEF x
  <2> QED
    BY <1>0, <1>1, <1>f, <2>1, FenceBecomesIs
<1>4. TunnelTypeOK'
  <2>1. uCur' \in 0..MaxParks
    BY <1>0, <1>1, ParkAssumption DEF RestOK
  <2> QED
    BY <1>0, <1>1, <1>3, <2>1, TunnelTypesNext DEF RestOK
<1>5. OneHolder' /\ ClosesFit'
  BY <1>1 DEF TunnelInv, OneHolder, HoldsClaim, ClosesFit
<1>p. ASSUME NEW s \in Sockets PROVE uHand[s].park # 0 => uHand[s].park \in Parks
  <2>1. uHand[s].park \in 0..MaxParks
    BY <1>0, HandFields
  <2> QED
    BY <2>1, ParkAssumption DEF Parks
<1>6. ResultBehindClosedTunnel'
  BY <1>1, <1>p DEF TunnelInv, ResultBehindClosedTunnel
<1>7. ASSUME NEW t \in Sockets PROVE HandlerFits(t)' /\ ListenerFits(t)'
  BY <1>1, <1>p DEF TunnelInv, HandlerFits, ListenerFits, InLifecycle
<1>8. ASSUME NEW g \in Fencers PROVE FenceFits(g)'
  <2>l. \A t \in Sockets : InLifecycle(t)' <=> InLifecycle(t)
    BY <1>1 DEF InLifecycle
  <2>0. FenceFits(g)
    BY DEF TunnelInv
  <2>1. CASE g # f
    <3>1. Swept(g)' <=> Swept(g)
      BY <1>3, <2>1 DEF Swept
    <3>2. uFence'[g] = uFence[g]
      BY <1>3, <2>1
    <3> QED
      BY <1>1, <2>0, <2>l, <3>1, <3>2 DEF FenceFits
  <2>2. CASE g = f
    <3>1. Swept(f)' => Swept(f)
      BY <1>1, <1>2, <1>3 DEF Swept
    <3> HIDE DEF x
    <3>2. /\ x.pc = uFence[f].pc /\ x.close = uFence[f].close /\ x.park = uFence[f].park
          /\ x.life = uFence[f].life
      BY DEF x
    <3> QED
      BY <1>0, <1>1, <1>2, <1>3, <2>2, <2>l, <3>1, <3>2 DEF FenceFits
  <2> QED
    BY <2>1, <2>2
<1> QED
  BY <1>1, <1>4, <1>5, <1>6, <1>7, <1>8 DEF TunnelInv

----------------------------------------------------------------------------

\* Every step of a connection keeps the invariant.
LEMMA SocketStepsKeep ==
  ASSUME TunnelInv, NEW s \in Sockets,
         \/ ClaimAnswered(s) \/ ReleaseClaim(s) \/ BindFails(s) \/ CrawlEnds(s) \/ BrowserCloseFails(s)
         \/ TunnelFenced(s) \/ CompleteSession(s)
  PROVE  TunnelInv'
<1> DEFINE x == uHand[s]
<1>0. ParksOK /\ RestOK /\ HandlerFits(s) /\ uRow \in RowRecords /\ uCur \in 0..MaxParks
  BY TunnelTypes DEF TunnelInv, RestOK
<1>f. /\ x.pc \in HandlerSteps /\ x.won \in BOOLEAN /\ x.park \in 0..MaxParks /\ x.close \in CloseResults
      /\ x.fatal \in BOOLEAN
  BY <1>0, HandFields
<1>1. CASE ClaimAnswered(s)
  <2>0. /\ x.pc = "answered"
        /\ UNCHANGED <<uCur, uFenced, uTunnel, uListen, uBrowser, uClose, uFence, uFails, uRow>>
    BY <1>1 DEF ClaimAnswered
  <2>1. CASE ~x.won \/ uFenced
    <3>1. uHand' = [uHand EXCEPT ![s].pc = "done"] /\ uLive' = uLive \ {s} /\ uPark' = uPark
      BY <1>1, <2>1 DEF ClaimAnswered
    <3>2. GivesUp(s, "done")
      BY <1>0, <2>0, <3>1, BecomesBy DEF GivesUp
    <3> QED
      BY <3>2, GivesUpKeeps
  <2>2. CASE x.won /\ ~uFenced /\ uCur = 0
    <3>1. uHand' = [uHand EXCEPT ![s].pc = "releasing"] /\ UNCHANGED <<uLive, uPark>>
      BY <1>1, <2>2 DEF ClaimAnswered, Claimable
    <3>2. GivesUp(s, "releasing")
      BY <1>0, <2>0, <2>2, <3>1, BecomesBy DEF GivesUp
    <3> QED
      BY <3>2, GivesUpKeeps
  <2>3. CASE x.won /\ ~uFenced /\ uCur # 0 /\ ~Claimable(uCur)
    <3>1. uHand' = [uHand EXCEPT ![s].pc = "done"] /\ uLive' = uLive \ {s} /\ uPark' = uPark
      BY <1>1, <2>3 DEF ClaimAnswered
    <3>2. GivesUp(s, "done")
      BY <1>0, <2>0, <3>1, BecomesBy DEF GivesUp
    <3> QED
      BY <3>2, GivesUpKeeps
  <2>4. CASE x.won /\ ~uFenced /\ Claimable(uCur)
    <3>0. uCur # 0
      BY <2>4 DEF Claimable
    <3>1. /\ uHand' = [uHand EXCEPT ![s].pc = "binding", ![s].park = uCur]
          /\ uPark' = [uPark EXCEPT ![uCur].claimed = TRUE, ![uCur].timer = FALSE] /\ UNCHANGED uLive
      BY <1>1, <2>4, <3>0 DEF ClaimAnswered
    <3>2. Becomes(s, "binding", x.won, uCur, x.close, x.fatal)
      BY <1>0, <3>1, BecomesBy
    <3>3. TakesPark(s)
      BY <2>0, <2>4, <3>1, <3>2 DEF TakesPark
    <3> QED
      BY <3>3, TakesParkKeeps
  <2>5. Claimable(uCur) \/ uCur = 0 \/ (uCur # 0 /\ ~Claimable(uCur))
    OBVIOUS
  <2> QED
    BY <2>1, <2>2, <2>3, <2>4, <2>5
<1>2. CASE ReleaseClaim(s)
  <2>1. /\ x.pc = "releasing" /\ uHand' = [uHand EXCEPT ![s].pc = "done"] /\ uLive' = uLive \ {s}
        /\ UNCHANGED <<uPark, uCur, uFenced, uTunnel, uListen, uBrowser, uClose, uFence, uFails>>
    BY <1>2 DEF ReleaseClaim
  <2>2. PICK ok \in BOOLEAN : uRow' = [uRow EXCEPT !.claimed = @ /\ ~ok]
    BY <1>2 DEF ReleaseClaim
  <2>3. uRow' \in RowRecords
    BY <1>0, <2>2 DEF RowRecords
  <2>4. x.won
    BY <1>0, <2>1 DEF HandlerFits
  <2>5. GivesUp(s, "done")
    BY <1>0, <2>1, <2>3, <2>4, BecomesBy DEF GivesUp
  <2> QED
    BY <2>5, GivesUpKeeps
<1>3. CASE BindFails(s)
  <2>1. s \notin uBrowser
    BY <1>0, <1>3 DEF BindFails, HandlerFits
  <2>2. Becomes(s, "teardown", x.won, x.park, JoinClose, x.fatal)
    BY <1>0, <1>3, BecomesBy DEF BindFails
  <2>3. HandlerCloses(s, "teardown", x.fatal)
    BY <1>0, <1>3, <1>f, <2>1, <2>2 DEF HandlerCloses, BindFails
  <2> QED
    BY <2>3, HandlerClosesKeeps
<1>4. CASE CrawlEnds(s)
  <2>2. Becomes(s, "fencing", x.won, x.park, JoinClose, x.fatal)
    BY <1>0, <1>4, BecomesBy DEF CrawlEnds
  <2>3. HandlerCloses(s, "fencing", x.fatal)
    BY <1>0, <1>4, <1>f, <2>2 DEF HandlerCloses, CrawlEnds
  <2> QED
    BY <2>3, HandlerClosesKeeps
<1>5. CASE BrowserCloseFails(s)
  <2>2. Becomes(s, "teardown", x.won, x.park, JoinClose, TRUE)
    BY <1>0, <1>5, BecomesBy DEF BrowserCloseFails
  <2>3. HandlerCloses(s, "teardown", TRUE)
    BY <1>0, <1>5, <1>f, <2>2 DEF HandlerCloses, BrowserCloseFails
  <2> QED
    BY <2>3, HandlerClosesKeeps
<1>6. CASE TunnelFenced(s)
  <2>0. /\ x.pc = "fencing" /\ UNCHANGED <<uPark, uCur, uFenced, uTunnel, uListen, uBrowser, uFence, uRow>>
    BY <1>6 DEF TunnelFenced
  <2>1. CASE x.close = "ok"
    <3>1. /\ uHand' = [uHand EXCEPT ![s].pc = "completing", ![s].close = "none"]
          /\ UNCHANGED <<uClose, uFails, uLive>>
      BY <1>6, <2>1 DEF TunnelFenced
    <3>2. Becomes(s, "completing", x.won, x.park, "none", x.fatal)
      BY <1>0, <3>1, BecomesBy
    <3> QED
      BY <2>0, <2>1, <3>1, <3>2, FencedKeeps
  <2>2. CASE x.close # "ok"
    <3>1. /\ uHand' = [uHand EXCEPT ![s].pc = "teardown", ![s].fatal = TRUE, ![s].close = JoinClose]
          /\ StartClose
      BY <1>6, <2>2 DEF TunnelFenced
    <3>2. Becomes(s, "teardown", x.won, x.park, JoinClose, TRUE)
      BY <1>0, <3>1, BecomesBy
    <3>3. HandlerCloses(s, "teardown", TRUE)
      BY <1>0, <2>0, <3>1, <3>2 DEF HandlerCloses
    <3> QED
      BY <3>3, HandlerClosesKeeps
  <2> QED
    BY <2>1, <2>2
<1>7. CASE CompleteSession(s)
  <2>0. /\ x.pc = "completing" /\ uRow' = [uRow EXCEPT !.active = FALSE] /\ StartClose
        /\ uHand' = [uHand EXCEPT ![s].pc = "teardown", ![s].close = JoinClose]
        /\ UNCHANGED <<uPark, uCur, uFenced, uTunnel, uListen, uBrowser, uFence>>
    BY <1>7 DEF CompleteSession
  <2>1. uRow' \in RowRecords /\ uRow'.claimed = uRow.claimed
    BY <1>0, <2>0 DEF RowRecords
  <2>2. Becomes(s, "teardown", x.won, x.park, JoinClose, x.fatal)
    BY <1>0, <2>0, BecomesBy
  <2>3. s \notin uBrowser
    BY <1>0, <2>0 DEF HandlerFits
  <2>4. HandlerCloses(s, "teardown", x.fatal)
    BY <1>f, <2>0, <2>1, <2>2, <2>3 DEF HandlerCloses
  <2> QED
    BY <2>4, HandlerClosesKeeps
<1> QED
  BY <1>1, <1>2, <1>3, <1>4, <1>5, <1>6, <1>7

\* Every step of a fence keeps the invariant.
LEMMA FenceStepsKeep ==
  ASSUME TunnelInv, NEW f \in Fencers,
         \/ FenceStarts(f) \/ FenceThrows(f) \/ FenceWaitsForBinds(f) \/ FenceSweepsAgain(f)
         \/ FenceWaitsForLifecycle(f) \/ FenceEnds(f)
  PROVE  TunnelInv'
<1> DEFINE x == uFence[f]
<1>0. ParksOK /\ RestOK /\ CurIsWaiting /\ FenceFits(f) /\ uCur \in 0..MaxParks
  BY TunnelTypes DEF TunnelInv, RestOK
<1>f. x.close \in CloseResults /\ x.park \in 0..MaxParks /\ x.life \in Sockets \cup {NoSocket}
  BY <1>0, FenceFields
<1>1. CASE FenceStarts(f)
  <2>1. Lifecycle \in Sockets \cup {NoSocket}
    BY DEF Lifecycle
  <2>2. ASSUME NEW s \in Sockets, InLifecycle(s) PROVE Lifecycle = s
    <3>1. Lifecycle \in Sockets /\ InLifecycle(Lifecycle)
      BY <2>2 DEF Lifecycle
    <3>2. uHand[s].park # 0 /\ uHand[Lifecycle].won /\ uHand[Lifecycle].park # 0
      BY <2>2, <3>1, LifecycleHasPark DEF TunnelInv
    <3> QED
      BY <3>1, <3>2, OneParkHolder DEF TunnelInv
  <2>3. FenceBecomes(f, "first", JoinClose, uCur, Lifecycle)
    BY <1>1 DEF FenceStarts, FenceBecomes
  <2>4. FenceCloses(f, "first", uCur, Lifecycle)
    BY <1>0, <1>1, <2>1, <2>2, <2>3 DEF FenceCloses, FenceStarts
  <2> QED
    BY <2>4, FenceClosesKeeps
<1>2. CASE FenceThrows(f)
  <2>1. FenceBecomes(f, "failed", x.close, x.park, x.life)
    BY <1>0, <1>2, FenceBecomesBy DEF FenceThrows
  <2>2. ParksOK' /\ CurIsWaiting'
    BY <1>0, <1>2 DEF FenceThrows, ParksOK, CurIsWaiting
  <2>3. FenceMoves(f, "failed")
    BY <1>2, <2>1, <2>2 DEF FenceMoves, FenceThrows
  <2> QED
    BY <2>3, FenceMovesKeeps
<1>3. CASE FenceWaitsForBinds(f)
  <2>1. FenceBecomes(f, "binds", x.close, x.park, x.life)
    BY <1>0, <1>3, FenceBecomesBy DEF FenceWaitsForBinds
  <2>2. ParksOK' /\ CurIsWaiting'
    BY <1>0, <1>3 DEF FenceWaitsForBinds, ParksOK, CurIsWaiting
  <2>3. FenceMoves(f, "binds")
    BY <1>3, <2>1, <2>2 DEF FenceMoves, FenceWaitsForBinds
  <2> QED
    BY <2>3, FenceMovesKeeps
<1>4. CASE FenceSweepsAgain(f)
  <2>1. FenceBecomes(f, "second", JoinClose, x.park, x.life)
    BY <1>0, <1>4, FenceBecomesBy DEF FenceSweepsAgain
  <2>2. uFenced /\ \A s \in Sockets : InLifecycle(s) => x.life = s
    BY <1>0, <1>4 DEF FenceSweepsAgain, FenceFits
  <2>3. uFenced' = TRUE
    <3>1. uFenced' = uFenced /\ uFenced \in BOOLEAN
      BY <1>0, <1>4 DEF FenceSweepsAgain, RestOK
    <3> QED
      BY <2>2, <3>1
  <2>4. FenceCloses(f, "second", x.park, x.life)
    BY <1>4, <1>f, <2>1, <2>2, <2>3 DEF FenceCloses, FenceSweepsAgain
  <2> QED
    BY <2>4, FenceClosesKeeps
<1>5. CASE FenceWaitsForLifecycle(f)
  <2>1. FenceBecomes(f, "lifecycle", x.close, x.park, x.life)
    BY <1>0, <1>5, FenceBecomesBy DEF FenceWaitsForLifecycle
  <2>2. ParksOK' /\ CurIsWaiting'
    BY <1>0, <1>5 DEF FenceWaitsForLifecycle, ParksOK, CurIsWaiting
  <2>3. FenceMoves(f, "lifecycle")
    BY <1>5, <2>1, <2>2 DEF FenceMoves, FenceWaitsForLifecycle
  <2> QED
    BY <2>3, FenceMovesKeeps
<1>6. CASE FenceEnds(f)
  <2>0. /\ x.pc = "lifecycle" /\ (x.life # NoSocket => ~InLifecycle(x.life))
        /\ uPark' = Settled(uPark, x.park, "fenced") /\ uCur' = CurAfter(x.park)
        /\ UNCHANGED <<uFenced, uHand, uLive, uTunnel, uListen, uBrowser, uClose, uFails, uRow>>
    BY <1>6 DEF FenceEnds
  <2>1. FenceBecomes(f, "done", x.close, x.park, x.life)
    BY <1>0, <1>6, FenceBecomesBy DEF FenceEnds
  <2>2. /\ ParksOK' /\ CurIsWaiting' /\ uCur' \in {0, uCur} /\ (uCur = x.park => uCur' = 0)
        /\ \A q \in Parks : uPark'[q].st = "result" => uPark[q].st = "result"
    <3>1. "fenced" \in ParkStates \ {"waiting"}
      BY DEF ParkStates
    <3> HIDE DEF x
    <3> QED
      BY <1>0, <1>f, <2>0, <3>1, SettlesIs
  <2>3. uCur' = 0
    BY <1>0, <2>0, <2>2 DEF FenceFits
  <2>4. \A s \in Sockets : ~InLifecycle(s)
    <3>1. \A s \in Sockets : InLifecycle(s) => x.life = s /\ s # NoSocket
      BY <1>0, <2>0, ParkAssumption DEF FenceFits
    <3> QED
      BY <2>0, <3>1
  <2>5. FenceMoves(f, "done")
    BY <2>0, <2>1, <2>2, <2>3, <2>4 DEF FenceMoves
  <2> QED
    BY <2>5, FenceMovesKeeps
<1> QED
  BY <1>1, <1>2, <1>3, <1>4, <1>5, <1>6

LEMMA TunnelInvKept == ASSUME TunnelInv, [TunnelNext]_tunnelVars PROVE TunnelInv'
<1>1. CASE UNCHANGED tunnelVars
  <2>0. ParksOK /\ RestOK
    BY TunnelTypes DEF TunnelInv
  <2>1. TunnelTypeOK'
    BY <1>1, <2>0, TunnelTypesNext DEF tunnelVars, ParksOK, RestOK
  <2> QED
    BY <1>1, <2>1 DEF tunnelVars, TunnelInv, CurIsWaiting, OneHolder, HoldsClaim, ClosesFit,
       ResultBehindClosedTunnel,
                      HandlerFits, ListenerFits, FenceFits, Swept, InLifecycle
<1>2. CASE ParkSteps
  BY <1>2, ParkStepsKeep
<1>3. CASE CloseEnds
  BY <1>3, CloseEndsKeep
<1>4. ASSUME NEW s \in Sockets, Upgrade(s) \/ ClaimTunnel(s) PROVE TunnelInv'
  BY <1>4, ConnectKeeps
<1>5. ASSUME NEW s \in Sockets,
             \/ ClaimAnswered(s) \/ ReleaseClaim(s) \/ BindFails(s) \/ CrawlEnds(s) \/ BrowserCloseFails(s)
             \/ TunnelFenced(s) \/ CompleteSession(s)
      PROVE  TunnelInv'
  BY <1>5, SocketStepsKeep
<1>6. ASSUME NEW s \in Sockets, SocketGone(s) PROVE TunnelInv'
  BY <1>6, SocketGoneKeeps
<1>7. ASSUME NEW s \in Sockets, BindEnds(s) PROVE TunnelInv'
  BY <1>7, BindEndsKeeps
<1>8. ASSUME NEW s \in Sockets, HandlerEnds(s) PROVE TunnelInv'
  BY <1>8, HandlerEndsKeeps
<1>9. ASSUME NEW f \in Fencers,
             \/ FenceStarts(f) \/ FenceThrows(f) \/ FenceWaitsForBinds(f) \/ FenceSweepsAgain(f)
             \/ FenceWaitsForLifecycle(f) \/ FenceEnds(f)
      PROVE  TunnelInv'
  BY <1>9, FenceStepsKeep
<1> QED
  BY <1>1, <1>2, <1>3, <1>4, <1>5, <1>6, <1>7, <1>8, <1>9 DEF TunnelNext, TunnelProgress, ParkSteps

LEMMA TunnelInvInit == TunnelInit => TunnelInv
<1> SUFFICES ASSUME TunnelInit PROVE TunnelInv
  OBVIOUS
<1>1. TunnelTypeOK
  <2>1. ParksOK
    BY DEF TunnelInit, ParksOK, ParkRecords, ParkStates
  <2>2. uHand \in [Sockets -> HandRecords]
    BY ParkAssumption DEF TunnelInit, HandRecords, HandlerSteps, CloseResults
  <2>3. uFence \in [Fencers -> FenceRecords]
    BY ParkAssumption DEF TunnelInit, FenceRecords, CloseResults
  <2>4. uClose \in CloseRecords /\ uRow \in RowRecords
    BY DEF TunnelInit, CloseRecords, RowRecords
  <2>5. /\ uCur = 0 /\ uFenced \in BOOLEAN /\ uLive = {} /\ uListen = {} /\ uBrowser = {}
        /\ uTunnel = NoSocket /\ uFails = 0
    BY DEF TunnelInit
  <2>6. RestOK
    BY <2>2, <2>3, <2>4, <2>5, ParkAssumption DEF RestOK
  <2> QED
    BY <2>1, <2>6, TunnelTypes
<1>2. \A s \in Sockets : uHand[s].pc = "idle" /\ ~uHand[s].won /\ uHand[s].park = 0 /\ uHand[s].close = "none"
  BY DEF TunnelInit
<1>3. \A f \in Fencers : uFence[f].pc = "idle" /\ uFence[f].close = "none"
  BY DEF TunnelInit
<1>4. /\ uCur = 0 /\ ~uClose.on /\ uListen = {} /\ uBrowser = {} /\ uTunnel = NoSocket
      /\ \A p \in Parks : uPark[p].st = "unused" /\ p # 0
  BY ParkAssumption DEF TunnelInit, Parks
<1>5. CurIsWaiting /\ OneHolder /\ ClosesFit /\ ResultBehindClosedTunnel
  BY <1>2, <1>4 DEF CurIsWaiting, OneHolder, HoldsClaim, ClosesFit, ResultBehindClosedTunnel
<1>6. \A s \in Sockets : HandlerFits(s) /\ ListenerFits(s)
  BY <1>2, <1>4, ParkAssumption DEF HandlerFits, ListenerFits, InLifecycle
<1>7. \A f \in Fencers : FenceFits(f)
  BY <1>3 DEF FenceFits, Swept
<1> QED
  BY <1>1, <1>5, <1>6, <1>7 DEF TunnelInv

LEMMA TunnelInvSuffices == TunnelInv => TeardownIsComplete
<1> SUFFICES ASSUME TunnelInv PROVE TeardownIsComplete
  OBVIOUS
<1>1. PendingIsParked
  BY DEF TunnelInv, CurIsWaiting, PendingIsParked
<1>2. ASSUME NEW f \in Fencers, uFence[f].pc = "done"
      PROVE  /\ uLive = {} /\ uListen = {}
             /\ \A s \in uBrowser : uHand[s].pc = "done" /\ uHand[s].fatal
             /\ \A p \in Parks : uPark[p].st # "waiting"
  <2>1. uLive = {} /\ uListen = {} /\ uCur = 0 /\ \A s \in Sockets : ~InLifecycle(s)
    BY <1>2 DEF TunnelInv, FenceFits
  <2>2. \A p \in Parks : uPark[p].st # "waiting"
    BY <2>1, ParkAssumption DEF TunnelInv, CurIsWaiting, Parks
  <2>3. ASSUME NEW s \in uBrowser PROVE uHand[s].pc = "done" /\ uHand[s].fatal
    <3>1. s \in Sockets
      BY DEF TunnelInv, TunnelTypeOK
    <3>2. HandlerFits(s) /\ uHand[s].pc \notin {"crawling", "teardown"}
      BY <2>1, <3>1 DEF TunnelInv, InLifecycle
    <3> QED
      BY <3>2 DEF HandlerFits
  <2> QED
    BY <2>1, <2>2, <2>3
<1> QED
  BY <1>1, <1>2 DEF TunnelInv, TeardownIsComplete, FenceLeavesNothing

\* For any number of companions, dispatches and fences: once fenceCrawl has
\* returned no listener, socket or waiting promise of the session is left and
\* no browser but one that could not be closed, a parked crawl reports its
\* outcome only behind a closed tunnel, and a pending promise is the one the
\* map of parked crawls holds.
THEOREM TunnelTeardown == TunnelSpec => []TeardownIsComplete
<1>1. TunnelInv /\ [TunnelNext]_tunnelVars => TunnelInv'
  BY TunnelInvKept
<1> QED
  BY <1>1, TunnelInvInit, TunnelInvSuffices, PTL DEF TunnelSpec

-----------------------------------------------------------------------------
(***************************************************************************)
(* The bridge of one tunnel, for any number of connections, chunks and any *)
(* watermarks.                                                             *)
(*                                                                         *)
(* BridgeInv follows every chunk: what the bank has, what the writer holds *)
(* and what is on its way are consecutive, so a chunk is never skipped,    *)
(* repeated or overtaken; and it says which connections can queue no       *)
(* further chunk, which is what bounds the uploads.                        *)
(***************************************************************************)

----------------------------------------------------------------------------
\* The data frames of c in the queue q carry the chunks after the first l, up
\* to the h-th, in order and without a gap.
IsData(f, c) == f.type = "data" /\ f.conn = c
Stream(q, c, l, h) ==
  /\ l <= h
  /\ \A i \in 1..Len(q) : IsData(q[i], c) => l < q[i].chunk /\ q[i].chunk <= h
  /\ \A i, j \in 1..Len(q) : i < j /\ IsData(q[i], c) /\ IsData(q[j], c) => q[i].chunk < q[j].chunk
  /\ \A n \in (l + 1)..h : \E i \in 1..Len(q) : IsData(q[i], c) /\ q[i].chunk = n

\* The frames of one type for c in the queue q: some, and one at most.
Holds(q, t, c) == \E i \in 1..Len(q) : q[i].type = t /\ q[i].conn = c
Once(q, t, c) == \A i, j \in 1..Len(q) : q[i].type = t /\ q[i].conn = c /\ q[j].type = t /\ q[j].conn = c => i = j

\* To the bank, while the phone has the connection: what it has written and
\* what waits for its writer, then what is on its way.
UpFits(c) ==
  /\ \A i \in 1..Len(kBank[c]) : kBank[c][i] = i
  /\ \A i \in 1..Len(kWriter[c]) : kWriter[c][i] = Len(kBank[c]) + i
  /\ kAlive /\ kConn[c] # "closed" => Stream(kTx, c, Len(kBank[c]) + Len(kWriter[c]), kUp[c])
  /\ kUp[c] > 0 => kConn[c] \in {"open", "closed"}

\* To the browser, while the engine has the connection.
DownFits(c) ==
  /\ \A i \in 1..Len(kChrome[c]) : kChrome[c][i] = i
  /\ kAlive /\ kEng[c] # "gone" => Stream(kRx, c, Len(kChrome[c]), kDown[c])
  /\ kDown[c] > 0 => kTask[c] # "none"

\* A connection is asked for once, registered once, and reported as connected
\* only when it was.
ConnectFits(c) ==
  /\ kEng[c] \in {"idle", "handshake"} => kTask[c] = "none" /\ ~Holds(kTx, "connect", c)
  /\ Holds(kTx, "connect", c) => kTask[c] = "none"
  /\ Once(kTx, "connect", c)
  /\ kTask[c] \in {"none", "accepted"} => kConn[c] = "none"
  /\ kTask[c] \in {"opened", "pump"} => kConn[c] \in {"open", "closed"}
  /\ kEng[c] = "open" => kConn[c] \in {"open", "closed"}
  /\ Holds(kRx, "connected", c) => kConn[c] \in {"open", "closed"}

\* Who is paused, and why.
PauseFits ==
  /\ kAlive => /\ \A c \in Conns : c \in kBp <=> c \in kFull /\ Live(c)
               /\ kPaused <=> kBp # {}
  /\ \A c \in kFull : kEng[c] \in {"asking", "open", "gone"}
  /\ \A c \in kHeld : kEng[c] \in {"open", "gone"}

\* Connections that can queue no further chunk.
Quiet == {c \in Conns : c \in kHeld \/ kEng[c] = "gone"}
Waiting(q) == {i \in 1..Len(q) : q[i].type = "data"}
QueueFits == Cardinality(Waiting(kTx)) <= HighWater + Cardinality(Quiet)

SocketFits(c) == c \in kDrained => kFinished /\ kSock[c] # "open"

BridgeInv ==
  /\ BridgeTypeOK /\ PauseFits /\ QueueFits
  /\ ~kAlive => kTx = <<>> /\ kRx = <<>>
  /\ \A c \in Conns : UpFits(c) /\ DownFits(c) /\ ConnectFits(c) /\ SocketFits(c)

----------------------------------------------------------------------------
(* Queues of frames.                                                       *)

LEMMA BridgeNumbers ==
  /\ MaxUp \in Nat /\ MaxDown \in Nat /\ LowWater \in Nat /\ HighWater \in Nat /\ LowWater <= HighWater
  /\ IsFiniteSet(Conns) /\ MaxChunks \in Nat /\ MaxUp <= MaxChunks /\ MaxDown <= MaxChunks
BY WaterAssumption DEF MaxChunks

FrameTypes == {"connect", "connected", "data", "close", "error"}

LEMMA FrameIs ==
  ASSUME NEW t \in FrameTypes, NEW c \in Conns
  PROVE  Frame(t, c) \in Frames /\ Frame(t, c).type = t /\ Frame(t, c).conn = c
<1> DEFINE z == 0
<1>1. z \in 0..MaxChunks
  BY BridgeNumbers
<1> HIDE DEF z
<1>2. /\ [type |-> t, conn |-> c, chunk |-> z] \in Frames
      /\ [type |-> t, conn |-> c, chunk |-> z].type = t /\ [type |-> t, conn |-> c, chunk |-> z].conn = c
  BY <1>1 DEF Frames, FrameTypes
<1> QED
  BY <1>2 DEF z, Frame

LEMMA DataFrameIs ==
  ASSUME NEW c \in Conns, NEW n \in 0..MaxChunks
  PROVE  DataFrame(c, n) \in Frames /\ DataFrame(c, n).type = "data" /\ DataFrame(c, n).conn = c /\ DataFrame(c, n).chunk = n
BY DEF Frames, DataFrame

LEMMA FrameFields ==
  ASSUME NEW f \in Frames PROVE f.type \in FrameTypes /\ f.conn \in Conns /\ f.chunk \in 0..MaxChunks
BY DEF Frames, FrameTypes

LEMMA Appended ==
  ASSUME NEW S, NEW q \in Seq(S), NEW f \in S
  PROVE  /\ Append(q, f) \in Seq(S) /\ Len(q) \in Nat /\ Len(Append(q, f)) = Len(q) + 1
         /\ Append(q, f)[Len(q) + 1] = f /\ \A i \in 1..Len(q) : Append(q, f)[i] = q[i]
BY AppendProperties, LenProperties

LEMMA Headed ==
  ASSUME NEW S, NEW q \in Seq(S), q # <<>>
  PROVE  /\ Tail(q) \in Seq(S) /\ Len(q) \in Nat \ {0} /\ Len(Tail(q)) = Len(q) - 1 /\ Head(q) = q[1]
         /\ Head(q) \in S
         /\ \A i \in 1..Len(Tail(q)) : Tail(q)[i] = q[i + 1] /\ i + 1 \in 1..Len(q)
BY HeadTailProperties, LenProperties

LEMMA FramesIn ==
  ASSUME NEW q \in Seq(Frames)
  PROVE  Len(q) \in Nat /\ \A i \in 1..Len(q) : q[i] \in Frames /\ q[i].chunk \in Nat
<1>1. Len(q) \in Nat /\ \A i \in 1..Len(q) : q[i] \in Frames
  BY LenProperties
<1> QED
  BY <1>1, FrameFields, BridgeNumbers

\* Another frame at the end.
LEMMA StreamAppend ==
  ASSUME NEW q \in Seq(Frames), NEW f \in Frames, NEW c, ~IsData(f, c), NEW l \in Nat, NEW h \in Nat,
         Stream(q, c, l, h)
  PROVE  Stream(Append(q, f), c, l, h)
<1> DEFINE a == Append(q, f)
<1>1. Len(q) \in Nat /\ Len(a) = Len(q) + 1 /\ a[Len(q) + 1] = f /\ \A i \in 1..Len(q) : a[i] = q[i]
  BY Appended
<1> SUFFICES Stream(a, c, l, h)
  OBVIOUS
<1> HIDE DEF a
<1>2. \A i \in 1..Len(a) : IsData(a[i], c) => i \in 1..Len(q) /\ a[i] = q[i]
  BY <1>1
<1>3. \A n \in (l + 1)..h : \E i \in 1..Len(a) : IsData(a[i], c) /\ a[i].chunk = n
  <2> SUFFICES ASSUME NEW n \in (l + 1)..h PROVE \E i \in 1..Len(a) : IsData(a[i], c) /\ a[i].chunk = n
    OBVIOUS
  <2>1. PICK i \in 1..Len(q) : IsData(q[i], c) /\ q[i].chunk = n
    BY DEF Stream
  <2>2. i \in 1..Len(a) /\ a[i] = q[i]
    BY <1>1
  <2> QED
    BY <2>1, <2>2
<1> QED
  BY <1>2, <1>3 DEF Stream

\* The next chunk at the end.
LEMMA StreamGrows ==
  ASSUME NEW q \in Seq(Frames), NEW f \in Frames, NEW c, NEW l \in Nat, NEW h \in Nat, Stream(q, c, l, h),
         IsData(f, c), f.chunk = h + 1
  PROVE  Stream(Append(q, f), c, l, h + 1)
<1> DEFINE a == Append(q, f)
<1>1. Len(q) \in Nat /\ Len(a) = Len(q) + 1 /\ a[Len(q) + 1] = f /\ \A i \in 1..Len(q) : a[i] = q[i]
  BY Appended
<1> SUFFICES Stream(a, c, l, h + 1)
  OBVIOUS
<1> HIDE DEF a
<1>0. /\ \A i \in 1..Len(q) : IsData(q[i], c) => l < q[i].chunk /\ q[i].chunk <= h
      /\ l <= h /\ \A i \in 1..Len(q) : q[i].chunk \in Nat
  BY FramesIn DEF Stream
<1>2. ASSUME NEW i \in 1..Len(a) PROVE a[i] = f \/ (i \in 1..Len(q) /\ a[i] = q[i])
  <2>1. i = Len(q) + 1 \/ i \in 1..Len(q)
    BY <1>1
  <2> QED
    BY <1>1, <2>1
<1>3. ASSUME NEW i \in 1..Len(a), IsData(a[i], c) PROVE l < a[i].chunk /\ a[i].chunk <= h + 1
  <2>1. CASE a[i] = f
    BY <1>0, <2>1
  <2>2. CASE i \in 1..Len(q) /\ a[i] = q[i]
    BY <1>0, <1>3, <2>2
  <2> QED
    BY <1>2, <2>1, <2>2
<1>4. ASSUME NEW i \in 1..Len(a), NEW j \in 1..Len(a), i < j, IsData(a[i], c), IsData(a[j], c)
      PROVE  a[i].chunk < a[j].chunk
  <2>0. i \in 1..Len(q) /\ a[i] = q[i]
    BY <1>1, <1>4
  <2>1. CASE a[j] = f
    BY <1>0, <1>4, <2>0, <2>1
  <2>2. CASE j \in 1..Len(q) /\ a[j] = q[j]
    BY <1>4, <2>0, <2>2 DEF Stream
  <2> QED
    BY <1>2, <2>1, <2>2
<1>5. ASSUME NEW n \in (l + 1)..(h + 1) PROVE \E i \in 1..Len(a) : IsData(a[i], c) /\ a[i].chunk = n
  <2>1. CASE n = h + 1
    <3>1. Len(a) \in 1..Len(a) /\ a[Len(a)] = f
      BY <1>1
    <3> QED
      BY <2>1, <3>1
  <2>2. CASE n # h + 1
    <3>1. n \in (l + 1)..h
      BY <2>2
    <3>2. PICK i \in 1..Len(q) : IsData(q[i], c) /\ q[i].chunk = n
      BY <3>1 DEF Stream
    <3>3. i \in 1..Len(a) /\ a[i] = q[i]
      BY <1>1
    <3> QED
      BY <3>2, <3>3
  <2> QED
    BY <2>1, <2>2
<1>6. l <= h + 1
  BY <1>0
<1> QED
  BY <1>3, <1>4, <1>5, <1>6 DEF Stream

\* The first frame is taken: one of another kind, or the next chunk.
LEMMA StreamTail ==
  ASSUME NEW q \in Seq(Frames), q # <<>>, NEW c, ~IsData(Head(q), c), NEW l \in Nat, NEW h \in Nat,
         Stream(q, c, l, h)
  PROVE  Stream(Tail(q), c, l, h)
<1> DEFINE u == Tail(q)
<1>1. /\ Len(q) \in Nat \ {0} /\ Len(u) = Len(q) - 1 /\ Head(q) = q[1]
      /\ \A i \in 1..Len(u) : u[i] = q[i + 1] /\ i + 1 \in 1..Len(q)
  BY Headed
<1> SUFFICES Stream(u, c, l, h)
  OBVIOUS
<1> HIDE DEF u
<1>2. \A n \in (l + 1)..h : \E i \in 1..Len(u) : IsData(u[i], c) /\ u[i].chunk = n
  <2> SUFFICES ASSUME NEW n \in (l + 1)..h PROVE \E i \in 1..Len(u) : IsData(u[i], c) /\ u[i].chunk = n
    OBVIOUS
  <2>1. PICK i \in 1..Len(q) : IsData(q[i], c) /\ q[i].chunk = n
    BY DEF Stream
  <2>2. i # 1
    BY <1>1, <2>1
  <2>3. i - 1 \in 1..Len(u) /\ (i - 1) + 1 = i
    BY <1>1, <2>2
  <2>4. u[i - 1] = q[i]
    BY <1>1, <2>3
  <2> QED
    BY <2>1, <2>3, <2>4
<1>3. \A i \in 1..Len(u) : IsData(u[i], c) => l < u[i].chunk /\ u[i].chunk <= h
  BY <1>1 DEF Stream
<1>4. ASSUME NEW i \in 1..Len(u), NEW j \in 1..Len(u), i < j, IsData(u[i], c), IsData(u[j], c)
      PROVE  u[i].chunk < u[j].chunk
  <2>1. u[i] = q[i + 1] /\ i + 1 \in 1..Len(q) /\ u[j] = q[j + 1] /\ j + 1 \in 1..Len(q) /\ i + 1 < j + 1
    BY <1>1, <1>4
  <2> QED
    BY <1>4, <2>1 DEF Stream
<1> QED
  BY <1>2, <1>3, <1>4 DEF Stream

LEMMA StreamNext ==
  ASSUME NEW q \in Seq(Frames), q # <<>>, NEW c, IsData(Head(q), c), NEW l \in Nat, NEW h \in Nat,
         Stream(q, c, l, h)
  PROVE  Head(q).chunk = l + 1 /\ Stream(Tail(q), c, l + 1, h) /\ l + 1 <= h
<1> DEFINE u == Tail(q)
<1>1. /\ Len(q) \in Nat \ {0} /\ Len(u) = Len(q) - 1 /\ Head(q) = q[1] /\ u \in Seq(Frames)
      /\ \A i \in 1..Len(u) : u[i] = q[i + 1] /\ i + 1 \in 1..Len(q)
  BY Headed
<1> HIDE DEF u
<1>0. \A i \in 1..Len(q) : q[i].chunk \in Nat
  BY FramesIn
<1>2. l < q[1].chunk /\ q[1].chunk <= h /\ 1 \in 1..Len(q)
  BY <1>1 DEF Stream
<1>3. \A j \in 1..Len(q) : j # 1 /\ IsData(q[j], c) => q[1].chunk < q[j].chunk
  BY <1>1, <1>2 DEF Stream
<1>4. q[1].chunk = l + 1
  <2>1. l + 1 \in (l + 1)..h
    BY <1>0, <1>2
  <2>2. PICK i \in 1..Len(q) : IsData(q[i], c) /\ q[i].chunk = l + 1
    BY <2>1 DEF Stream
  <2> QED
    BY <1>0, <1>2, <1>3, <2>2
<1>5. \A n \in ((l + 1) + 1)..h : \E i \in 1..Len(u) : IsData(u[i], c) /\ u[i].chunk = n
  <2> SUFFICES ASSUME NEW n \in ((l + 1) + 1)..h PROVE \E i \in 1..Len(u) : IsData(u[i], c) /\ u[i].chunk = n
    OBVIOUS
  <2>0. n \in (l + 1)..h /\ n # l + 1
    OBVIOUS
  <2>1. PICK i \in 1..Len(q) : IsData(q[i], c) /\ q[i].chunk = n
    BY <2>0 DEF Stream
  <2>2. i # 1
    BY <1>4, <2>0, <2>1
  <2>3. i - 1 \in 1..Len(u) /\ (i - 1) + 1 = i
    BY <1>1, <2>2
  <2>4. u[i - 1] = q[i]
    BY <1>1, <2>3
  <2> QED
    BY <2>1, <2>3, <2>4
<1>6. ASSUME NEW i \in 1..Len(u), IsData(u[i], c) PROVE l + 1 < u[i].chunk /\ u[i].chunk <= h
  <2>1. u[i] = q[i + 1] /\ i + 1 \in 1..Len(q) /\ i + 1 # 1
    BY <1>1
  <2> QED
    BY <1>3, <1>4, <1>6, <2>1 DEF Stream
<1>7. ASSUME NEW i \in 1..Len(u), NEW j \in 1..Len(u), i < j, IsData(u[i], c), IsData(u[j], c)
      PROVE  u[i].chunk < u[j].chunk
  <2>1. u[i] = q[i + 1] /\ i + 1 \in 1..Len(q) /\ u[j] = q[j + 1] /\ j + 1 \in 1..Len(q) /\ i + 1 < j + 1
    BY <1>1, <1>7
  <2> QED
    BY <1>7, <2>1 DEF Stream
<1>8. l + 1 <= h
  BY <1>2, <1>4
<1>9. Stream(u, c, l + 1, h)
  BY <1>5, <1>6, <1>7, <1>8 DEF Stream
<1> QED
  BY <1>1, <1>4, <1>8, <1>9 DEF u

\* Frames of one type for one connection.
LEMMA HoldsAppend ==
  ASSUME NEW q \in Seq(Frames), NEW f \in Frames, NEW t, NEW c, ~(f.type = t /\ f.conn = c)
  PROVE  (Holds(Append(q, f), t, c) => Holds(q, t, c)) /\ (Once(q, t, c) => Once(Append(q, f), t, c))
<1> DEFINE a == Append(q, f)
<1>1. Len(q) \in Nat /\ Len(a) = Len(q) + 1 /\ a[Len(q) + 1] = f /\ \A i \in 1..Len(q) : a[i] = q[i]
  BY Appended
<1> HIDE DEF a
<1>2. \A i \in 1..Len(a) : a[i].type = t /\ a[i].conn = c => i \in 1..Len(q) /\ a[i] = q[i]
  BY <1>1
<1>3. (Holds(a, t, c) => Holds(q, t, c)) /\ (Once(q, t, c) => Once(a, t, c))
  BY <1>2 DEF Holds, Once
<1> QED
  BY <1>3 DEF a

LEMMA OnceAppend ==
  ASSUME NEW q \in Seq(Frames), NEW f \in Frames, NEW t, NEW c, ~Holds(q, t, c)
  PROVE  Once(Append(q, f), t, c)
<1> DEFINE a == Append(q, f)
<1>1. Len(q) \in Nat /\ Len(a) = Len(q) + 1 /\ \A i \in 1..Len(q) : a[i] = q[i]
  BY Appended
<1> HIDE DEF a
<1>2. \A i \in 1..Len(a) : a[i].type = t /\ a[i].conn = c => i = Len(a)
  BY <1>1 DEF Holds
<1>3. Once(a, t, c)
  BY <1>2 DEF Once
<1> QED
  BY <1>3 DEF a

LEMMA HoldsTail ==
  ASSUME NEW q \in Seq(Frames), q # <<>>, NEW t, NEW c
  PROVE  /\ Holds(Tail(q), t, c) => Holds(q, t, c)
         /\ Once(q, t, c) => Once(Tail(q), t, c)
         /\ Head(q).type = t /\ Head(q).conn = c => Holds(q, t, c) /\ (Once(q, t, c) => ~Holds(Tail(q), t, c))
<1> DEFINE u == Tail(q)
<1>1. /\ Len(q) \in Nat \ {0} /\ Len(u) = Len(q) - 1 /\ Head(q) = q[1] /\ 1 \in 1..Len(q)
      /\ \A i \in 1..Len(u) : u[i] = q[i + 1] /\ i + 1 \in 1..Len(q)
  BY Headed
<1> HIDE DEF u
<1>2. Holds(u, t, c) => Holds(q, t, c)
  BY <1>1 DEF Holds
<1>3. ASSUME Once(q, t, c), NEW i \in 1..Len(u), NEW j \in 1..Len(u),
             u[i].type = t, u[i].conn = c, u[j].type = t, u[j].conn = c
      PROVE  i = j
  <2>1. u[i] = q[i + 1] /\ i + 1 \in 1..Len(q) /\ u[j] = q[j + 1] /\ j + 1 \in 1..Len(q)
    BY <1>1
  <2>2. i + 1 = j + 1
    BY <1>3, <2>1 DEF Once
  <2> QED
    BY <2>2
<1>4. Once(q, t, c) => Once(u, t, c)
  BY <1>3 DEF Once
<1>5. ASSUME Head(q).type = t, Head(q).conn = c PROVE Holds(q, t, c) /\ (Once(q, t, c) => ~Holds(u, t, c))
  <2>1. Holds(q, t, c)
    BY <1>1, <1>5 DEF Holds
  <2>2. ASSUME Once(q, t, c), NEW i \in 1..Len(u), u[i].type = t, u[i].conn = c PROVE FALSE
    <3>1. i + 1 = 1
      BY <1>1, <1>5, <2>2 DEF Once
    <3> QED
      BY <1>1, <3>1
  <2> QED
    BY <2>1, <2>2 DEF Holds
<1> QED
  BY <1>2, <1>4, <1>5 DEF u

LEMMA EmptyQueue == Len(<<>>) = 0 /\ \A t, c : ~Holds(<<>>, t, c) /\ Once(<<>>, t, c)
BY DEF Holds, Once

\* How many chunks wait.
LEMMA WaitingFinite ==
  ASSUME NEW q \in Seq(Frames)
  PROVE  IsFiniteSet(Waiting(q)) /\ Cardinality(Waiting(q)) \in Nat /\ Cardinality(Waiting(q)) <= Len(q) /\ Len(q) \in Nat
<1>1. Len(q) \in Nat
  BY LenProperties
<1>2. IsFiniteSet(1..Len(q)) /\ Cardinality(1..Len(q)) = Len(q)
  BY <1>1, FS_Interval, SMTT(30)
<1>3. Waiting(q) \in SUBSET (1..Len(q))
  BY DEF Waiting
<1>4. IsFiniteSet(Waiting(q)) /\ Cardinality(Waiting(q)) <= Len(q)
  BY <1>2, <1>3, FS_Subset
<1> QED
  BY <1>1, <1>4, FS_CardinalityType

LEMMA WaitingAppend ==
  ASSUME NEW q \in Seq(Frames), NEW f \in Frames
  PROVE  /\ f.type # "data" => Cardinality(Waiting(Append(q, f))) <= Cardinality(Waiting(q))
         /\ Cardinality(Waiting(Append(q, f))) <= Cardinality(Waiting(q)) + 1
<1> DEFINE a == Append(q, f)
           w == Waiting(q)
           n == Len(q) + 1
<1>1. Len(q) \in Nat /\ Len(a) = Len(q) + 1 /\ a[Len(q) + 1] = f /\ \A i \in 1..Len(q) : a[i] = q[i]
  BY Appended
<1>2. IsFiniteSet(w) /\ Cardinality(w) \in Nat
  BY WaitingFinite
<1>3. Waiting(a) \subseteq w \cup {n} /\ (f.type # "data" => Waiting(a) \subseteq w)
  <2> HIDE DEF a
  <2> QED
    BY <1>1 DEF Waiting
<1>4. IsFiniteSet(w \cup {n}) /\ Cardinality(w \cup {n}) <= Cardinality(w) + 1
  <2> HIDE DEF w, n
  <2>1. IsFiniteSet(w \cup {n}) /\ Cardinality(w \cup {n}) = IF n \in w THEN Cardinality(w) ELSE Cardinality(w) + 1
    BY <1>2, FS_AddElement
  <2> QED
    BY <1>2, <2>1
<1>5. Cardinality(Waiting(a)) <= Cardinality(w \cup {n})
  <2> HIDE DEF w, a, n
  <2> QED
    BY <1>3, <1>4, FS_Subset
<1>6. f.type # "data" => Cardinality(Waiting(a)) <= Cardinality(w)
  <2> HIDE DEF w, a
  <2> QED
    BY <1>2, <1>3, FS_Subset
<1>7. Cardinality(Waiting(a)) \in Nat /\ Cardinality(w \cup {n}) \in Nat
  <2>1. IsFiniteSet(Waiting(a))
    <3> HIDE DEF w, a, n
    <3> QED
      BY <1>3, <1>4, FS_Subset
  <2> QED
    BY <1>4, <2>1, FS_CardinalityType
<1> QED
  BY <1>2, <1>4, <1>5, <1>6, <1>7

LEMMA WaitingTail ==
  ASSUME NEW q \in Seq(Frames), q # <<>> PROVE Cardinality(Waiting(Tail(q))) <= Cardinality(Waiting(q))
<1> DEFINE u == Tail(q)
           g == [i \in Waiting(u) |-> i + 1]
<1>1. \A i \in 1..Len(u) : u[i] = q[i + 1] /\ i + 1 \in 1..Len(q)
  BY Headed
<1>2. IsFiniteSet(Waiting(q))
  BY WaitingFinite
<1> SUFFICES Cardinality(Waiting(u)) <= Cardinality(Waiting(q))
  OBVIOUS
<1> HIDE DEF u
<1>3. \A i \in Waiting(u) : i + 1 \in Waiting(q) /\ i \in Int
  BY <1>1 DEF Waiting
<1>4. g \in [Waiting(u) -> Waiting(q)] /\ \A i, j \in Waiting(u) : g[i] = g[j] => i = j
  BY <1>3
<1>5. g \in Injection(Waiting(u), Waiting(q))
  BY <1>4 DEF Injection, IsInjective
<1> HIDE DEF g
<1> QED
  BY <1>2, <1>5, FS_Injection
----------------------------------------------------------------------------
(* What a step leaves alone.                                               *)

\* The data frames of c go on as they were; so do the requests to connect and
\* the reports that it is connected.
StreamKept(q, p, c) == \A l, h \in Nat : Stream(q, c, l, h) => Stream(p, c, l, h)
AskKept(q, p, c) == (Holds(p, "connect", c) => Holds(q, "connect", c)) /\ (Once(q, "connect", c) => Once(p, "connect", c))
ToldKept(q, p, c) == Holds(p, "connected", c) => Holds(q, "connected", c)
AllKept(q, p, c) == StreamKept(q, p, c) /\ AskKept(q, p, c) /\ ToldKept(q, p, c)

LEMMA KeptSame == ASSUME NEW q, NEW c PROVE AllKept(q, q, c)
BY DEF AllKept, StreamKept, AskKept, ToldKept

LEMMA KeptAppend ==
  ASSUME NEW q \in Seq(Frames), NEW f \in Frames, NEW c, f.conn # c \/ f.type \in {"close", "error"}
  PROVE  AllKept(q, Append(q, f), c)
<1>1. ~IsData(f, c) /\ ~(f.type = "connect" /\ f.conn = c) /\ ~(f.type = "connected" /\ f.conn = c)
  BY DEF IsData
<1>2. StreamKept(q, Append(q, f), c)
  BY <1>1, StreamAppend DEF StreamKept
<1>3. AskKept(q, Append(q, f), c) /\ ToldKept(q, Append(q, f), c)
  BY <1>1, HoldsAppend DEF AskKept, ToldKept
<1> QED
  BY <1>2, <1>3 DEF AllKept

LEMMA KeptTail ==
  ASSUME NEW q \in Seq(Frames), q # <<>>, NEW c, ~IsData(Head(q), c) PROVE AllKept(q, Tail(q), c)
<1>1. StreamKept(q, Tail(q), c)
  BY StreamTail DEF StreamKept
<1>2. AskKept(q, Tail(q), c) /\ ToldKept(q, Tail(q), c)
  BY HoldsTail DEF AskKept, ToldKept
<1> QED
  BY <1>1, <1>2 DEF AllKept

\* What is sent to the phone, and to the engine.
LEMMA ToPhoneIs ==
  ASSUME NEW f \in Frames, kTx \in Seq(Frames)
  PROVE  /\ ToPhone(f) \in Seq(Frames) /\ (kAlive => ToPhone(f) = Append(kTx, f))
         /\ (~kAlive => ToPhone(f) = kTx)
         /\ f.type # "data" => Cardinality(Waiting(ToPhone(f))) <= Cardinality(Waiting(kTx))
         /\ \A c : f.conn # c \/ f.type \in {"close", "error"} => AllKept(kTx, ToPhone(f), c)
<1>1. CASE kAlive
  <2>1. ToPhone(f) = Append(kTx, f)
    BY <1>1 DEF ToPhone
  <2> QED
    BY <1>1, <2>1, Appended, WaitingAppend, KeptAppend
<1>2. CASE ~kAlive
  <2>1. ToPhone(f) = kTx
    BY <1>2 DEF ToPhone
  <2>2. Cardinality(Waiting(kTx)) \in Nat
    BY WaitingFinite
  <2> QED
    BY <1>2, <2>1, <2>2, KeptSame
<1> QED
  BY <1>1, <1>2

LEMMA ToEngineIs ==
  ASSUME NEW f \in Frames, kRx \in Seq(Frames)
  PROVE  /\ ToEngine(f) \in Seq(Frames) /\ (kAlive /\ ~kFinished => ToEngine(f) = Append(kRx, f))
         /\ ToEngine(f) = kRx \/ (kAlive /\ ToEngine(f) = Append(kRx, f))
         /\ \A c : f.conn # c \/ f.type \in {"close", "error"} => AllKept(kRx, ToEngine(f), c)
<1>1. CASE kAlive /\ ~kFinished
  <2>1. ToEngine(f) = Append(kRx, f)
    BY <1>1 DEF ToEngine
  <2> QED
    BY <1>1, <2>1, Appended, KeptAppend
<1>2. CASE ~(kAlive /\ ~kFinished)
  <2>1. ToEngine(f) = kRx
    BY <1>2 DEF ToEngine
  <2> QED
    BY <1>2, <2>1, KeptSame
<1> QED
  BY <1>1, <1>2

\* Types.
LEMMA BridgeFields ==
  ASSUME BridgeTypeOK, NEW c \in Conns
  PROVE  /\ kBank[c] \in Seq(Chunks) /\ kWriter[c] \in Seq(Chunks) /\ kChrome[c] \in Seq(Chunks)
         /\ Len(kBank[c]) \in Nat /\ Len(kWriter[c]) \in Nat /\ Len(kChrome[c]) \in Nat
         /\ Len(kBank[c]) + Len(kWriter[c]) \in Nat
         /\ kUp[c] \in Nat /\ kDown[c] \in Nat /\ kUp[c] <= MaxChunks /\ kDown[c] <= MaxChunks
         /\ kTx \in Seq(Frames) /\ kRx \in Seq(Frames)
<1>1. kBank[c] \in Seq(Chunks) /\ kWriter[c] \in Seq(Chunks) /\ kChrome[c] \in Seq(Chunks)
  BY DEF BridgeTypeOK
<1>2. Len(kBank[c]) \in Nat /\ Len(kWriter[c]) \in Nat /\ Len(kChrome[c]) \in Nat
  BY <1>1, LenProperties
<1>3. kUp[c] \in 0..MaxChunks /\ kDown[c] \in 0..MaxChunks /\ kTx \in Seq(Frames) /\ kRx \in Seq(Frames)
  BY DEF BridgeTypeOK
<1> DEFINE a == Len(kBank[c])
           b == Len(kWriter[c])
<1>4. a + b \in Nat
  <2> HIDE DEF a, b
  <2>1. a \in Nat /\ b \in Nat
    BY <1>2 DEF a, b
  <2> QED
    BY <2>1
<1>5. kUp[c] \in Nat /\ kDown[c] \in Nat /\ kUp[c] <= MaxChunks /\ kDown[c] <= MaxChunks
  BY <1>3, BridgeNumbers
<1> QED
  BY <1>1, <1>2, <1>3, <1>4, <1>5

\* A connection whose chunks stay where they are.
LEMMA UpKept ==
  ASSUME BridgeTypeOK, NEW c \in Conns, UpFits(c), StreamKept(kTx, kTx', c), kAlive' => kAlive,
         kBank'[c] = kBank[c], kUp'[c] = kUp[c],
         kWriter'[c] = kWriter[c] \/ (kWriter'[c] = <<>> /\ kConn'[c] = "closed"),
         kConn'[c] # "closed" => kConn[c] # "closed",
         kConn[c] \in {"open", "closed"} => kConn'[c] \in {"open", "closed"}
  PROVE  UpFits(c)'
<1> DEFINE l == Len(kBank[c]) + Len(kWriter[c])
<1>0. l \in Nat /\ kUp[c] \in Nat
  BY BridgeFields
<1>1. \A i \in 1..Len(kBank'[c]) : kBank'[c][i] = i
  BY DEF UpFits
<1>2. \A i \in 1..Len(kWriter'[c]) : kWriter'[c][i] = Len(kBank'[c]) + i
  BY DEF UpFits
<1>3. kAlive' /\ kConn'[c] # "closed" => Stream(kTx', c, Len(kBank'[c]) + Len(kWriter'[c]), kUp'[c])
  <2> SUFFICES ASSUME kAlive', kConn'[c] # "closed" PROVE Stream(kTx', c, Len(kBank'[c]) + Len(kWriter'[c]), kUp'[c])
    OBVIOUS
  <2>1. kAlive /\ kConn[c] # "closed" /\ kWriter'[c] = kWriter[c]
    OBVIOUS
  <2>2. Stream(kTx, c, l, kUp[c])
    BY <2>1 DEF UpFits
  <2>3. Stream(kTx', c, l, kUp[c])
    BY <1>0, <2>2 DEF StreamKept
  <2> QED
    BY <2>1, <2>3
<1>4. kUp'[c] > 0 => kConn'[c] \in {"open", "closed"}
  BY DEF UpFits
<1> QED
  BY <1>1, <1>2, <1>3, <1>4 DEF UpFits

LEMMA DownKept ==
  ASSUME BridgeTypeOK, NEW c \in Conns, DownFits(c), StreamKept(kRx, kRx', c), kAlive' => kAlive,
         kChrome'[c] = kChrome[c], kDown'[c] = kDown[c], kEng'[c] # "gone" => kEng[c] # "gone",
         kTask[c] # "none" => kTask'[c] # "none"
  PROVE  DownFits(c)'
<1> DEFINE l == Len(kChrome[c])
<1>0. l \in Nat /\ kDown[c] \in Nat
  BY BridgeFields
<1>1. \A i \in 1..Len(kChrome'[c]) : kChrome'[c][i] = i
  BY DEF DownFits
<1>2. kAlive' /\ kEng'[c] # "gone" => Stream(kRx', c, Len(kChrome'[c]), kDown'[c])
  <2> SUFFICES ASSUME kAlive', kEng'[c] # "gone" PROVE Stream(kRx', c, Len(kChrome'[c]), kDown'[c])
    OBVIOUS
  <2>1. Stream(kRx, c, l, kDown[c])
    BY DEF DownFits
  <2>2. Stream(kRx', c, l, kDown[c])
    BY <1>0, <2>1 DEF StreamKept
  <2> QED
    BY <2>2
<1>3. kDown'[c] > 0 => kTask'[c] # "none"
  BY DEF DownFits
<1> QED
  BY <1>1, <1>2, <1>3 DEF DownFits

LEMMA ConnectKept ==
  ASSUME NEW c \in Conns, ConnectFits(c), AskKept(kTx, kTx', c),
         Holds(kRx', "connected", c) => Holds(kRx, "connected", c) \/ kConn'[c] \in {"open", "closed"},
         kEng'[c] \in {"idle", "handshake"} => kEng[c] \in {"idle", "handshake"},
         kEng'[c] = "open" => kEng[c] = "open" \/ kConn'[c] \in {"open", "closed"},
         kTask[c] = "none" => kTask'[c] = "none",
         kConn[c] \in {"open", "closed"} => kConn'[c] \in {"open", "closed"},
         kTask'[c] \in {"none", "accepted"} => kConn'[c] = "none",
         kTask'[c] \in {"opened", "pump"} => kConn'[c] \in {"open", "closed"}
  PROVE  ConnectFits(c)'
BY DEF ConnectFits, AskKept

\* A connection that the step is not about.
LEMMA Bystander ==
  ASSUME BridgeTypeOK, NEW c \in Conns, UpFits(c), DownFits(c), ConnectFits(c), SocketFits(c),
         AllKept(kTx, kTx', c), AllKept(kRx, kRx', c), kAlive' => kAlive, kFinished => kFinished',
         kBank'[c] = kBank[c], kUp'[c] = kUp[c], kWriter'[c] = kWriter[c], kChrome'[c] = kChrome[c],
         kDown'[c] = kDown[c],
         kEng'[c] = kEng[c], kTask'[c] = kTask[c], kConn'[c] = kConn[c], kSock'[c] = kSock[c],
         c \in kDrained' => c \in kDrained
  PROVE  UpFits(c)' /\ DownFits(c)' /\ ConnectFits(c)' /\ SocketFits(c)'
<1>1. /\ StreamKept(kTx, kTx', c) /\ AskKept(kTx, kTx', c) /\ StreamKept(kRx, kRx', c)
      /\ ToldKept(kRx, kRx', c)
  BY DEF AllKept
<1>2. UpFits(c)'
  BY <1>1, UpKept
<1>3. DownFits(c)'
  BY <1>1, DownKept
<1>4. ConnectFits(c)'
  BY <1>1 DEF ConnectFits, AskKept, ToldKept
<1>5. SocketFits(c)'
  BY DEF SocketFits
<1> QED
  BY <1>2, <1>3, <1>4, <1>5

LEMMA QuietFinite == IsFiniteSet(Quiet) /\ Cardinality(Quiet) \in Nat
<1>1. Quiet \in SUBSET Conns
  BY DEF Quiet
<1> QED
  BY <1>1, BridgeNumbers, FS_Subset, FS_CardinalityType

LEMMA QuietFiniteNext == IsFiniteSet(Quiet') /\ Cardinality(Quiet') \in Nat
<1>1. Quiet' \in SUBSET Conns
  BY DEF Quiet
<1> QED
  BY <1>1, BridgeNumbers, FS_Subset, FS_CardinalityType

LEMMA QueueKept ==
  ASSUME QueueFits, kTx \in Seq(Frames), kTx' \in Seq(Frames),
         Cardinality(Waiting(kTx')) <= Cardinality(Waiting(kTx)),
         \A c \in Conns : (c \in kHeld \/ kEng[c] = "gone") => (c \in kHeld' \/ kEng'[c] = "gone")
  PROVE  QueueFits'
<1>1. Quiet \in SUBSET Quiet'
  BY DEF Quiet
<1>2. Cardinality(Quiet) <= Cardinality(Quiet') /\ Cardinality(Quiet) \in Nat /\ Cardinality(Quiet') \in Nat
  BY <1>1, QuietFinite, QuietFiniteNext, FS_Subset
<1>3. Cardinality(Waiting(kTx)) \in Nat /\ Cardinality(Waiting(kTx')) \in Nat
  BY WaitingFinite
<1>4. Cardinality(Waiting(kTx)) <= HighWater + Cardinality(Quiet)
  BY DEF QueueFits
<1>5. Cardinality(Waiting(kTx')) <= HighWater + Cardinality(Quiet')
  BY <1>2, <1>3, <1>4, BridgeNumbers
<1> QED
  BY <1>5 DEF QueueFits, Waiting

LEMMA PauseKept ==
  ASSUME BridgeTypeOK, PauseFits, UNCHANGED <<kBp, kPaused, kFull, kHeld, kAlive>>,
         \A c \in Conns : c \in kFull \/ c \in kHeld => kEng'[c] = kEng[c]
  PROVE  PauseFits'
<1>1. kFull \subseteq Conns /\ kHeld \subseteq Conns
  BY DEF BridgeTypeOK
<1>2. \A c \in Conns : c \in kFull => (Live(c)' <=> Live(c))
  BY DEF Live
<1>3. kAlive' => (\A c \in Conns : c \in kBp' <=> c \in kFull' /\ Live(c)') /\ (kPaused' <=> kBp' # {})
  BY <1>2 DEF PauseFits
<1>4. \A c \in kFull' : kEng'[c] \in {"asking", "open", "gone"}
  BY <1>1 DEF PauseFits
<1>5. \A c \in kHeld' : kEng'[c] \in {"open", "gone"}
  BY <1>1 DEF PauseFits
<1> QED
  BY <1>3, <1>4, <1>5 DEF PauseFits

----------------------------------------------------------------------------
(* The steps.  A step is about one connection; the others keep what they    *)
(* have, and the queues keep what is theirs.                                *)

Untouched(c) ==
  /\ kBank'[c] = kBank[c] /\ kUp'[c] = kUp[c] /\ kWriter'[c] = kWriter[c]
  /\ kChrome'[c] = kChrome[c] /\ kDown'[c] = kDown[c] /\ kEng'[c] = kEng[c]
  /\ kTask'[c] = kTask[c] /\ kConn'[c] = kConn[c] /\ kSock'[c] = kSock[c]
  /\ c \in kDrained' => c \in kDrained
QueuesKept(c) == AllKept(kTx, kTx', c) /\ AllKept(kRx, kRx', c)

LEMMA Assembled ==
  ASSUME BridgeInv, NEW c \in Conns, kAlive' => kAlive, kFinished => kFinished',
         \A d \in Conns \ {c} : Untouched(d) /\ QueuesKept(d),
         BridgeTypeOK', PauseFits', QueueFits', ~kAlive' => kTx' = <<>> /\ kRx' = <<>>,
         UpFits(c)', DownFits(c)', ConnectFits(c)', SocketFits(c)'
  PROVE  BridgeInv'
<1>1. ASSUME NEW d \in Conns PROVE UpFits(d)' /\ DownFits(d)' /\ ConnectFits(d)' /\ SocketFits(d)'
  <2>1. CASE d = c
    BY <2>1
  <2>2. CASE d # c
    <3>1. Untouched(d) /\ QueuesKept(d)
      BY <2>2
    <3>2. BridgeTypeOK /\ UpFits(d) /\ DownFits(d) /\ ConnectFits(d) /\ SocketFits(d)
      BY DEF BridgeInv
    <3> QED
      BY <3>1, <3>2, Bystander DEF Untouched, QueuesKept
  <2> QED
    BY <2>1, <2>2
<1> QED
  BY <1>1 DEF BridgeInv

LEMMA SameCount ==
  ASSUME BridgeTypeOK, kTx' = kTx PROVE Cardinality(Waiting(kTx')) <= Cardinality(Waiting(kTx))
<1>1. kTx \in Seq(Frames)
  BY DEF BridgeTypeOK
<1>2. Cardinality(Waiting(kTx)) \in Nat
  BY <1>1, WaitingFinite
<1> QED
  BY <1>2

LEMMA SocksOpensKeeps ==
  ASSUME BridgeInv, NEW c \in Conns, SocksOpens(c) PROVE BridgeInv'
<1>0. BridgeTypeOK /\ PauseFits /\ QueueFits /\ UpFits(c) /\ DownFits(c) /\ ConnectFits(c) /\ SocketFits(c)
  BY DEF BridgeInv
<1>1. /\ kEng[c] = "idle" /\ kEng' = [kEng EXCEPT ![c] = "handshake"]
      /\ UNCHANGED <<kUp, kHeld, kChrome, kFull, kBp, kPaused, kTx, kRx, kAlive, kMore>>
      /\ UNCHANGED <<kConn, kTask, kSock, kWriter, kBank, kDown, kFinished, kDrained>>
  BY DEF SocksOpens, phoneVars
<1>2. kEng'[c] = "handshake" /\ \A d \in Conns \ {c} : kEng'[d] = kEng[d]
  BY <1>0, <1>1 DEF BridgeTypeOK
<1>3. BridgeTypeOK'
  BY <1>0, <1>1 DEF BridgeTypeOK
<1>4. \A d \in Conns : QueuesKept(d)
  BY <1>1, KeptSame DEF QueuesKept
<1>5. \A d \in Conns \ {c} : Untouched(d) /\ QueuesKept(d)
  BY <1>1, <1>2, <1>4 DEF Untouched
<1>6. PauseFits'
  <2>1. c \notin kFull /\ c \notin kHeld
    BY <1>0, <1>1 DEF PauseFits
  <2> QED
    BY <1>0, <1>1, <1>2, <2>1, PauseKept
<1>7. QueueFits'
  <2>1. kTx \in Seq(Frames) /\ kTx' \in Seq(Frames)
    BY <1>0, <1>1 DEF BridgeTypeOK
  <2> QED
    BY <1>0, <1>1, <1>2, <2>1, SameCount, QueueKept
<1>8. UpFits(c)'
  BY <1>0, <1>1, <1>4, UpKept DEF QueuesKept, AllKept
<1>9. DownFits(c)'
  BY <1>0, <1>1, <1>4, DownKept DEF QueuesKept, AllKept
<1>10. ConnectFits(c)'
  BY <1>0, <1>1, <1>2 DEF ConnectFits
<1>11. SocketFits(c)'
  BY <1>0, <1>1 DEF SocketFits
<1>12. ~kAlive' => kTx' = <<>> /\ kRx' = <<>>
  BY <1>1 DEF BridgeInv
<1> QED
  BY <1>1, <1>3, <1>5, <1>6, <1>7, <1>8, <1>9, <1>10, <1>11, <1>12, Assembled

LEMMA HandshakeFailsKeeps ==
  ASSUME BridgeInv, NEW c \in Conns, HandshakeFails(c) PROVE BridgeInv'
<1>0. BridgeTypeOK /\ PauseFits /\ QueueFits /\ UpFits(c) /\ DownFits(c) /\ ConnectFits(c) /\ SocketFits(c)
  BY DEF BridgeInv
<1>1. /\ kEng[c] = "handshake" /\ kEng' = [kEng EXCEPT ![c] = "gone"]
      /\ UNCHANGED <<kUp, kHeld, kChrome, kFull, kBp, kPaused, kTx, kRx, kAlive, kMore>>
      /\ UNCHANGED <<kConn, kTask, kSock, kWriter, kBank, kDown, kFinished, kDrained>>
  BY DEF HandshakeFails, phoneVars
<1>2. kEng'[c] = "gone" /\ \A d \in Conns \ {c} : kEng'[d] = kEng[d]
  BY <1>0, <1>1 DEF BridgeTypeOK
<1>3. BridgeTypeOK'
  BY <1>0, <1>1 DEF BridgeTypeOK
<1>4. \A d \in Conns : QueuesKept(d)
  BY <1>1, KeptSame DEF QueuesKept
<1>5. \A d \in Conns \ {c} : Untouched(d) /\ QueuesKept(d)
  BY <1>1, <1>2, <1>4 DEF Untouched
<1>6. PauseFits'
  <2>1. c \notin kFull /\ c \notin kHeld
    BY <1>0, <1>1 DEF PauseFits
  <2> QED
    BY <1>0, <1>1, <1>2, <2>1, PauseKept
<1>7. QueueFits'
  <2>1. kTx \in Seq(Frames) /\ kTx' \in Seq(Frames)
    BY <1>0, <1>1 DEF BridgeTypeOK
  <2> QED
    BY <1>0, <1>1, <1>2, <2>1, SameCount, QueueKept
<1>8. UpFits(c)'
  BY <1>0, <1>1, <1>4, UpKept DEF QueuesKept, AllKept
<1>9. DownFits(c)'
  BY <1>0, <1>1, <1>2, <1>4, DownKept DEF QueuesKept, AllKept
<1>10. ConnectFits(c)'
  BY <1>0, <1>1, <1>2 DEF ConnectFits
<1>11. SocketFits(c)'
  BY <1>0, <1>1 DEF SocketFits
<1>12. ~kAlive' => kTx' = <<>> /\ kRx' = <<>>
  BY <1>1 DEF BridgeInv
<1> QED
  BY <1>1, <1>3, <1>5, <1>6, <1>7, <1>8, <1>9, <1>10, <1>11, <1>12, Assembled

\* The phone is asked to connect, once.
LEMMA SocksConnectKeeps ==
  ASSUME BridgeInv, NEW c \in Conns, SocksConnect(c) PROVE BridgeInv'
<1> DEFINE f == Frame("connect", c)
<1>0. BridgeTypeOK /\ PauseFits /\ QueueFits /\ UpFits(c) /\ DownFits(c) /\ ConnectFits(c) /\ SocketFits(c)
  BY DEF BridgeInv
<1>f. f \in Frames /\ f.type = "connect" /\ f.conn = c
  BY FrameIs DEF FrameTypes
<1>1. /\ kEng[c] = "handshake" /\ kEng' = [kEng EXCEPT ![c] = IF kAlive THEN "asking" ELSE "gone"]
      /\ kTx' = ToPhone(f)
      /\ UNCHANGED <<kUp, kHeld, kChrome, kFull, kBp, kPaused, kRx, kAlive, kMore>>
      /\ UNCHANGED <<kConn, kTask, kSock, kWriter, kBank, kDown, kFinished, kDrained>>
  BY DEF SocksConnect, phoneVars
<1> HIDE DEF f
<1>q. kTx \in Seq(Frames) /\ kRx \in Seq(Frames)
  BY <1>0 DEF BridgeTypeOK
<1>2. kEng'[c] \in {"asking", "gone"} /\ \A d \in Conns \ {c} : kEng'[d] = kEng[d]
  BY <1>0, <1>1 DEF BridgeTypeOK
<1>t. kTx' \in Seq(Frames) /\ Cardinality(Waiting(kTx')) <= Cardinality(Waiting(kTx))
      /\ (kAlive => kTx' = Append(kTx, f)) /\ (~kAlive => kTx' = kTx)
  BY <1>f, <1>1, <1>q, ToPhoneIs
<1>3. BridgeTypeOK'
  <2>1. kEng' \in [Conns -> {"idle", "handshake", "asking", "open", "gone"}]
    BY <1>0, <1>1 DEF BridgeTypeOK
  <2> QED
    BY <1>0, <1>1, <1>t, <2>1 DEF BridgeTypeOK
<1>r. \A d \in Conns : AllKept(kRx, kRx', d)
  BY <1>1, KeptSame
<1>s. StreamKept(kTx, kTx', c) /\ Once(kTx', "connect", c)
  <2>0. ~Holds(kTx, "connect", c) /\ Once(kTx, "connect", c)
    BY <1>0, <1>1 DEF ConnectFits
  <2>1. CASE kAlive
    <3>1. ~IsData(f, c)
      BY <1>f DEF IsData
    <3> QED
      BY <1>f, <1>q, <1>t, <2>0, <2>1, <3>1, StreamAppend, OnceAppend DEF StreamKept
  <2>2. CASE ~kAlive
    BY <1>t, <2>0, <2>2 DEF StreamKept
  <2> QED
    BY <2>1, <2>2
<1>5. \A d \in Conns \ {c} : Untouched(d) /\ QueuesKept(d)
  <2> SUFFICES ASSUME NEW d \in Conns \ {c} PROVE Untouched(d) /\ QueuesKept(d)
    OBVIOUS
  <2>1. AllKept(kTx, kTx', d)
    BY <1>f, <1>1, <1>q, ToPhoneIs
  <2>2. Untouched(d)
    BY <1>1, <1>2 DEF Untouched
  <2> QED
    BY <1>r, <2>1, <2>2 DEF QueuesKept
<1>6. PauseFits'
  <2>1. c \notin kFull /\ c \notin kHeld
    BY <1>0, <1>1 DEF PauseFits
  <2> QED
    BY <1>0, <1>1, <1>2, <2>1, PauseKept
<1>7. QueueFits'
  BY <1>0, <1>1, <1>2, <1>q, <1>t, QueueKept
<1>8. UpFits(c)'
  BY <1>0, <1>1, <1>s, UpKept
<1>9. DownFits(c)'
  BY <1>0, <1>1, <1>r, DownKept DEF AllKept
<1>10. ConnectFits(c)'
  BY <1>0, <1>1, <1>2, <1>s DEF ConnectFits
<1>11. SocketFits(c)'
  BY <1>0, <1>1 DEF SocketFits
<1>12. ~kAlive' => kTx' = <<>> /\ kRx' = <<>>
  BY <1>1, <1>t DEF BridgeInv
<1> QED
  BY <1>1, <1>3, <1>5, <1>6, <1>7, <1>8, <1>9, <1>10, <1>11, <1>12, Assembled

\* A chunk to the bank: the sender pauses once the queue is above the mark.
LEMMA BrowserSendsKeeps ==
  ASSUME BridgeInv, NEW c \in Conns, BrowserSends(c) PROVE BridgeInv'
<1> DEFINE f == DataFrame(c, kUp[c] + 1)
           l == Len(kBank[c]) + Len(kWriter[c])
           h == kUp[c]
<1>0. BridgeTypeOK /\ PauseFits /\ QueueFits /\ UpFits(c) /\ DownFits(c) /\ ConnectFits(c) /\ SocketFits(c)
  BY DEF BridgeInv
<1>1. /\ kEng[c] = "open" /\ c \notin kHeld /\ kUp[c] < MaxUp
      /\ kUp' = [kUp EXCEPT ![c] = @ + 1] /\ kTx' = ToPhone(f)
      /\ kHeld' = IF kAlive /\ Len(kTx') > HighWater THEN kHeld \cup {c} ELSE kHeld
      /\ UNCHANGED <<kEng, kChrome, kFull, kBp, kPaused, kRx, kAlive, kMore>>
      /\ UNCHANGED <<kConn, kTask, kSock, kWriter, kBank, kDown, kFinished, kDrained>>
  BY DEF BrowserSends, phoneVars
<1>n. l \in Nat /\ h \in Nat /\ h + 1 \in 0..MaxChunks
  <2>1. l \in Nat /\ h \in Nat
    BY <1>0, BridgeFields
  <2>2. h < MaxUp /\ MaxUp \in Nat /\ MaxUp <= MaxChunks /\ MaxChunks \in Nat
    BY <1>1, BridgeNumbers
  <2> HIDE DEF l, h
  <2> QED
    BY <2>1, <2>2
<1>f. f \in Frames /\ f.type = "data" /\ f.conn = c /\ f.chunk = h + 1 /\ IsData(f, c)
  BY <1>n, DataFrameIs DEF IsData
<1> HIDE DEF f
<1>q. kTx \in Seq(Frames) /\ kRx \in Seq(Frames)
  BY <1>0 DEF BridgeTypeOK
<1>2. kUp'[c] = h + 1 /\ (\A d \in Conns \ {c} : kUp'[d] = kUp[d]) /\ kUp' \in [Conns -> 0..MaxChunks]
  BY <1>0, <1>1, <1>n DEF BridgeTypeOK
<1>t. kTx' \in Seq(Frames) /\ (kAlive => kTx' = Append(kTx, f)) /\ (~kAlive => kTx' = kTx)
  BY <1>f, <1>1, <1>q, ToPhoneIs
<1>3. BridgeTypeOK'
  <2>1. kHeld' \subseteq Conns
    BY <1>0, <1>1 DEF BridgeTypeOK
  <2> QED
    BY <1>0, <1>1, <1>2, <1>t, <2>1 DEF BridgeTypeOK
<1>r. \A d \in Conns : AllKept(kRx, kRx', d)
  BY <1>1, KeptSame
<1>5. \A d \in Conns \ {c} : Untouched(d) /\ QueuesKept(d)
  <2> SUFFICES ASSUME NEW d \in Conns \ {c} PROVE Untouched(d) /\ QueuesKept(d)
    OBVIOUS
  <2>1. AllKept(kTx, kTx', d)
    BY <1>f, <1>1, <1>q, ToPhoneIs
  <2>2. Untouched(d)
    BY <1>1, <1>2 DEF Untouched
  <2> QED
    BY <1>r, <2>1, <2>2 DEF QueuesKept
<1>6. PauseFits'
  <2>1. kFull \subseteq Conns
    BY <1>0 DEF BridgeTypeOK
  <2> QED
    BY <1>0, <1>1, <2>1 DEF PauseFits, Live
<1>w. /\ Cardinality(Waiting(kTx)) \in Nat /\ Cardinality(Waiting(kTx')) \in Nat
      /\ Cardinality(Waiting(kTx')) <= Len(kTx') /\ Len(kTx') \in Nat
      /\ kAlive => Cardinality(Waiting(kTx')) <= Cardinality(Waiting(kTx)) + 1
  BY <1>f, <1>q, <1>t, WaitingFinite, WaitingAppend
<1>7. QueueFits'
  <2>1. CASE ~kAlive
    <3>1. kHeld' = kHeld /\ kTx' = kTx
      BY <1>1, <1>t, <2>1
    <3> QED
      BY <1>0, <1>1, <1>q, <3>1, SameCount, QueueKept
  <2>2. CASE kAlive /\ Len(kTx') > HighWater
    <3>1. kHeld' = kHeld \cup {c}
      BY <1>1, <2>2
    <3>2. Quiet' = Quiet \cup {c} /\ c \notin Quiet
      BY <1>1, <3>1 DEF Quiet
    <3>3. Cardinality(Quiet') = Cardinality(Quiet) + 1
      BY <3>2, QuietFinite, FS_AddElement
    <3>4. Cardinality(Waiting(kTx)) <= HighWater + Cardinality(Quiet)
      BY <1>0 DEF QueueFits
    <3>5. Cardinality(Waiting(kTx')) <= HighWater + Cardinality(Quiet')
      BY <1>w, <2>2, <3>3, <3>4, QuietFinite, BridgeNumbers
    <3> QED
      BY <3>5 DEF QueueFits, Waiting
  <2>3. CASE Len(kTx') <= HighWater
    <3>1. Cardinality(Waiting(kTx')) <= HighWater + Cardinality(Quiet')
      BY <1>w, <2>3, QuietFiniteNext, BridgeNumbers
    <3> QED
      BY <3>1 DEF QueueFits, Waiting
  <2> QED
    BY <1>w, <2>1, <2>2, <2>3, BridgeNumbers
<1>8. UpFits(c)'
  <2>1. kAlive' /\ kConn'[c] # "closed" => Stream(kTx', c, l, h + 1)
    <3> SUFFICES ASSUME kAlive', kConn'[c] # "closed" PROVE Stream(kTx', c, l, h + 1)
      OBVIOUS
    <3>1. Stream(kTx, c, l, h) /\ kTx' = Append(kTx, f)
      BY <1>0, <1>1, <1>t DEF UpFits
    <3> HIDE DEF l, h
    <3> QED
      BY <1>f, <1>n, <1>q, <3>1, StreamGrows
  <2>2. kConn[c] \in {"open", "closed"}
    BY <1>0, <1>1 DEF ConnectFits
  <2> QED
    BY <1>0, <1>1, <1>2, <2>1, <2>2 DEF UpFits
<1>9. DownFits(c)'
  BY <1>0, <1>1, <1>r, DownKept DEF AllKept
<1>10. ConnectFits(c)'
  <2>1. AskKept(kTx, kTx', c)
    <3>1. ~(f.type = "connect" /\ f.conn = c)
      BY <1>f
    <3> QED
      BY <1>f, <1>q, <1>t, <3>1, HoldsAppend DEF AskKept
  <2> QED
    BY <1>0, <1>1, <2>1 DEF ConnectFits, AskKept
<1>11. SocketFits(c)'
  BY <1>0, <1>1 DEF SocketFits
<1>12. ~kAlive' => kTx' = <<>> /\ kRx' = <<>>
  BY <1>1, <1>t DEF BridgeInv
<1> QED
  BY <1>1, <1>3, <1>5, <1>6, <1>7, <1>8, <1>9, <1>10, <1>11, <1>12, Assembled

\* The sender goes on: the queue is low, or it can send nothing any more.
LEMMA DrainResumeKeeps ==
  ASSUME BridgeInv, NEW c \in Conns, DrainResume(c) PROVE BridgeInv'
<1>0. BridgeTypeOK /\ PauseFits /\ QueueFits /\ UpFits(c) /\ DownFits(c) /\ ConnectFits(c) /\ SocketFits(c)
  BY DEF BridgeInv
<1>1. /\ c \in kHeld /\ (Len(kTx) <= LowWater \/ ~Live(c) \/ ~kAlive) /\ kHeld' = kHeld \ {c}
      /\ UNCHANGED <<kEng, kUp, kChrome, kFull, kBp, kPaused, kTx, kRx, kAlive, kMore>>
      /\ UNCHANGED <<kConn, kTask, kSock, kWriter, kBank, kDown, kFinished, kDrained>>
  BY DEF DrainResume, phoneVars
<1>3. BridgeTypeOK'
  BY <1>0, <1>1 DEF BridgeTypeOK
<1>4. \A d \in Conns : QueuesKept(d)
  BY <1>1, KeptSame DEF QueuesKept
<1>5. \A d \in Conns \ {c} : Untouched(d) /\ QueuesKept(d)
  BY <1>1, <1>4 DEF Untouched
<1>6. PauseFits'
  BY <1>0, <1>1 DEF PauseFits, Live
<1>w. /\ kTx \in Seq(Frames) /\ Cardinality(Waiting(kTx)) \in Nat /\ Cardinality(Waiting(kTx)) <= Len(kTx)
      /\ Len(kTx) \in Nat
  BY <1>0, WaitingFinite DEF BridgeTypeOK
<1>7. QueueFits'
  <2>1. CASE Len(kTx) <= HighWater
    <3>1. Cardinality(Waiting(kTx')) <= HighWater + Cardinality(Quiet')
      BY <1>1, <1>w, <2>1, QuietFiniteNext, BridgeNumbers
    <3> QED
      BY <3>1 DEF QueueFits, Waiting
  <2>2. CASE kEng[c] = "gone"
    BY <1>0, <1>1, <1>w, <2>2, SameCount, QueueKept
  <2>3. Len(kTx) <= HighWater \/ kEng[c] = "gone"
    <3>1. Len(kTx) <= LowWater => Len(kTx) <= HighWater
      BY <1>w, BridgeNumbers
    <3>2. ~Live(c) => kEng[c] = "gone"
      BY <1>0, <1>1 DEF PauseFits, Live
    <3>3. ~kAlive => Len(kTx) <= HighWater
      BY EmptyQueue, BridgeNumbers DEF BridgeInv
    <3> QED
      BY <1>1, <3>1, <3>2, <3>3
  <2> QED
    BY <2>1, <2>2, <2>3
<1>8. UpFits(c)'
  BY <1>0, <1>1, <1>4, UpKept DEF QueuesKept, AllKept
<1>9. DownFits(c)'
  BY <1>0, <1>1, <1>4, DownKept DEF QueuesKept, AllKept
<1>10. ConnectFits(c)'
  BY <1>0, <1>1 DEF ConnectFits
<1>11. SocketFits(c)'
  BY <1>0, <1>1 DEF SocketFits
<1>12. ~kAlive' => kTx' = <<>> /\ kRx' = <<>>
  BY <1>1 DEF BridgeInv
<1> QED
  BY <1>1, <1>3, <1>5, <1>6, <1>7, <1>8, <1>9, <1>10, <1>11, <1>12, Assembled

\* The receive side stays paused exactly while a connection holds it back.
LEMMA RemoveKeeps ==
  ASSUME kPaused \in BOOLEAN, kPaused <=> kBp # {}, NEW c, RemoveWsBackpressure(c)
  PROVE  kBp' = kBp \ {c} /\ kPaused' \in BOOLEAN /\ (kPaused' <=> kBp' # {})
<1>1. kBp' = kBp \ {c} /\ kPaused' = IF c \in kBp /\ kBp' = {} THEN FALSE ELSE kPaused
  BY DEF RemoveWsBackpressure
<1>2. CASE c \in kBp /\ kBp' = {}
  BY <1>1, <1>2
<1>3. CASE ~(c \in kBp /\ kBp' = {})
  <2>1. kPaused' = kPaused
    BY <1>1, <1>3
  <2>2. kBp' # {} <=> kBp # {}
    BY <1>1, <1>3
  <2> QED
    BY <1>1, <2>1, <2>2
<1> QED
  BY <1>2, <1>3

LEMMA RemoveTypes ==
  ASSUME BridgeTypeOK, NEW c \in Conns, RemoveWsBackpressure(c)
  PROVE  kBp' \subseteq Conns /\ kPaused' \in BOOLEAN
<1>1. kBp' = kBp \ {c} /\ kPaused' = IF c \in kBp /\ kBp' = {} THEN FALSE ELSE kPaused
  BY DEF RemoveWsBackpressure
<1>2. kPaused' = FALSE \/ kPaused' = kPaused
  BY <1>1
<1> QED
  BY <1>1, <1>2 DEF BridgeTypeOK

LEMMA ConnGonePauses ==
  ASSUME BridgeTypeOK, PauseFits, NEW c \in Conns, RemoveWsBackpressure(c),
         UNCHANGED <<kFull, kHeld, kAlive>>,
         kEng' = [kEng EXCEPT ![c] = "gone"]
  PROVE  PauseFits'
<1>1. kEng'[c] = "gone" /\ \A d \in Conns \ {c} : kEng'[d] = kEng[d]
  BY DEF BridgeTypeOK
<1>2. ~Live(c)' /\ \A d \in Conns \ {c} : Live(d)' <=> Live(d)
  BY <1>1 DEF Live
<1>3. kFull \subseteq Conns /\ kHeld \subseteq Conns
  BY DEF BridgeTypeOK
<1>4. ASSUME kAlive'
      PROVE  (\A d \in Conns : d \in kBp' <=> d \in kFull' /\ Live(d)') /\ (kPaused' <=> kBp' # {})
  <2>1. /\ (\A d \in Conns : d \in kBp <=> d \in kFull /\ Live(d)) /\ (kPaused <=> kBp # {})
        /\ kPaused \in BOOLEAN
    BY <1>4 DEF PauseFits, BridgeTypeOK
  <2>2. kBp' = kBp \ {c} /\ (kPaused' <=> kBp' # {})
    BY <2>1, RemoveKeeps
  <2>3. \A d \in Conns : d \in kBp' <=> d \in kFull' /\ Live(d)'
    BY <1>2, <2>1, <2>2
  <2> QED
    BY <2>2, <2>3
<1>5. \A d \in kFull' : kEng'[d] \in {"asking", "open", "gone"}
  BY <1>1, <1>3 DEF PauseFits
<1>6. \A d \in kHeld' : kEng'[d] \in {"open", "gone"}
  BY <1>1, <1>3 DEF PauseFits
<1> QED
  BY <1>4, <1>5, <1>6 DEF PauseFits

LEMMA BrowserClosesKeeps ==
  ASSUME BridgeInv, NEW c \in Conns, BrowserCloses(c) PROVE BridgeInv'
<1> DEFINE f == Frame("close", c)
<1>0. BridgeTypeOK /\ PauseFits /\ QueueFits /\ UpFits(c) /\ DownFits(c) /\ ConnectFits(c) /\ SocketFits(c)
  BY DEF BridgeInv
<1>f. f \in Frames /\ f.type = "close" /\ f.conn = c
  BY FrameIs DEF FrameTypes
<1>1. /\ Live(c) /\ kEng' = [kEng EXCEPT ![c] = "gone"] /\ RemoveWsBackpressure(c) /\ kTx' = ToPhone(f)
      /\ UNCHANGED <<kUp, kHeld, kChrome, kFull, kRx, kAlive, kMore>>
      /\ UNCHANGED <<kConn, kTask, kSock, kWriter, kBank, kDown, kFinished, kDrained>>
  BY DEF BrowserCloses, phoneVars
<1> HIDE DEF f
<1>q. kTx \in Seq(Frames) /\ kRx \in Seq(Frames)
  BY <1>0 DEF BridgeTypeOK
<1>2. kEng'[c] = "gone" /\ (\A d \in Conns \ {c} : kEng'[d] = kEng[d])
      /\ kEng' \in [Conns -> {"idle", "handshake", "asking", "open", "gone"}]
  BY <1>0, <1>1 DEF BridgeTypeOK
<1>t. /\ kTx' \in Seq(Frames) /\ Cardinality(Waiting(kTx')) <= Cardinality(Waiting(kTx))
      /\ (~kAlive => kTx' = kTx)
  BY <1>f, <1>1, <1>q, ToPhoneIs
<1>3. BridgeTypeOK'
  BY <1>0, <1>1, <1>2, <1>t, RemoveTypes DEF BridgeTypeOK
<1>4. \A d \in Conns : QueuesKept(d)
  BY <1>f, <1>1, <1>q, ToPhoneIs, KeptSame DEF QueuesKept
<1>5. \A d \in Conns \ {c} : Untouched(d) /\ QueuesKept(d)
  BY <1>1, <1>2, <1>4 DEF Untouched
<1>6. PauseFits'
  BY <1>0, <1>1, ConnGonePauses
<1>7. QueueFits'
  BY <1>0, <1>1, <1>2, <1>q, <1>t, QueueKept
<1>8. UpFits(c)'
  BY <1>0, <1>1, <1>4, UpKept DEF QueuesKept, AllKept
<1>9. DownFits(c)'
  BY <1>0, <1>1, <1>2, <1>4, DownKept DEF QueuesKept, AllKept
<1>10. ConnectFits(c)'
  BY <1>0, <1>1, <1>2, <1>4 DEF ConnectFits, QueuesKept, AllKept, AskKept
<1>11. SocketFits(c)'
  BY <1>0, <1>1 DEF SocketFits
<1>12. ~kAlive' => kTx' = <<>> /\ kRx' = <<>>
  BY <1>1, <1>t DEF BridgeInv
<1> QED
  BY <1>1, <1>3, <1>5, <1>6, <1>7, <1>8, <1>9, <1>10, <1>11, <1>12, Assembled

LEMMA SocketDrainsKeeps ==
  ASSUME BridgeInv, NEW c \in Conns, SocketDrains(c) PROVE BridgeInv'
<1>0. BridgeTypeOK /\ PauseFits /\ QueueFits /\ UpFits(c) /\ DownFits(c) /\ ConnectFits(c) /\ SocketFits(c)
  BY DEF BridgeInv
<1>1. /\ c \in kFull /\ Live(c) /\ kFull' = kFull \ {c} /\ RemoveWsBackpressure(c)
      /\ UNCHANGED <<kEng, kUp, kHeld, kChrome, kTx, kRx, kAlive, kMore>>
      /\ UNCHANGED <<kConn, kTask, kSock, kWriter, kBank, kDown, kFinished, kDrained>>
  BY DEF SocketDrains, phoneVars
<1>3. BridgeTypeOK'
  <2>1. kBp' \subseteq Conns /\ kPaused' \in BOOLEAN
    BY <1>0, <1>1, RemoveTypes
  <2> QED
    BY <1>0, <1>1, <2>1 DEF BridgeTypeOK
<1>4. \A d \in Conns : QueuesKept(d)
  BY <1>1, KeptSame DEF QueuesKept
<1>5. \A d \in Conns \ {c} : Untouched(d) /\ QueuesKept(d)
  BY <1>1, <1>4 DEF Untouched
<1>6. PauseFits'
  <2>1. ASSUME kAlive'
        PROVE  (\A d \in Conns : d \in kBp' <=> d \in kFull' /\ Live(d)') /\ (kPaused' <=> kBp' # {})
    <3>1. /\ (\A d \in Conns : d \in kBp <=> d \in kFull /\ Live(d)) /\ (kPaused <=> kBp # {})
          /\ kPaused \in BOOLEAN
      BY <1>0, <1>1, <2>1 DEF PauseFits, BridgeTypeOK
    <3>2. kBp' = kBp \ {c} /\ (kPaused' <=> kBp' # {})
      BY <1>1, <3>1, RemoveKeeps
    <3>3. \A d \in Conns : Live(d)' <=> Live(d)
      BY <1>1 DEF Live
    <3> QED
      BY <1>1, <3>1, <3>2, <3>3
  <2> QED
    BY <1>0, <1>1, <2>1 DEF PauseFits
<1>7. QueueFits'
  <2>1. kTx \in Seq(Frames) /\ kTx' \in Seq(Frames)
    BY <1>0, <1>1 DEF BridgeTypeOK
  <2> QED
    BY <1>0, <1>1, <2>1, SameCount, QueueKept
<1>8. UpFits(c)'
  BY <1>0, <1>1, <1>4, UpKept DEF QueuesKept, AllKept
<1>9. DownFits(c)'
  BY <1>0, <1>1, <1>4, DownKept DEF QueuesKept, AllKept
<1>10. ConnectFits(c)'
  BY <1>0, <1>1 DEF ConnectFits
<1>11. SocketFits(c)'
  BY <1>0, <1>1 DEF SocketFits
<1>12. ~kAlive' => kTx' = <<>> /\ kRx' = <<>>
  BY <1>1 DEF BridgeInv
<1> QED
  BY <1>1, <1>3, <1>5, <1>6, <1>7, <1>8, <1>9, <1>10, <1>11, <1>12, Assembled

\* A frame of the phone.  What every case of it has in common.
LEMMA EngineTakes ==
  ASSUME BridgeInv, EngineReceives, NEW c, c = Head(kRx).conn
  PROVE  /\ c \in Conns /\ Head(kRx) \in Frames /\ kAlive /\ kRx # <<>> /\ kRx' = Tail(kRx)
         /\ kRx \in Seq(Frames)
         /\ kRx' \in Seq(Frames) /\ kTx \in Seq(Frames)
         /\ UNCHANGED <<kUp, kHeld, kAlive, kConn, kTask, kSock, kWriter, kBank, kDown, kFinished, kDrained>>
         /\ kMore' \in BOOLEAN
         /\ \A d \in Conns \ {c} : AllKept(kRx, kRx', d)
         /\ ToldKept(kRx, kRx', c)
         /\ ~IsData(Head(kRx), c) => AllKept(kRx, kRx', c)
<1>0. BridgeTypeOK
  BY DEF BridgeInv
<1>1. /\ kAlive /\ kRx # <<>> /\ kRx' = Tail(kRx) /\ kMore' \in BOOLEAN
      /\ UNCHANGED <<kUp, kHeld, kAlive, kConn, kTask, kSock, kWriter, kBank, kDown, kFinished, kDrained>>
  BY DEF EngineReceives, phoneVars
<1>2. kRx \in Seq(Frames) /\ kTx \in Seq(Frames)
  BY <1>0 DEF BridgeTypeOK
<1>3. Head(kRx) \in Frames /\ kRx' \in Seq(Frames) /\ c \in Conns
  BY <1>1, <1>2, Headed, FrameFields
<1>4. \A d \in Conns \ {c} : AllKept(kRx, kRx', d)
  BY <1>1, <1>2, KeptTail DEF IsData
<1>5. ~IsData(Head(kRx), c) => AllKept(kRx, kRx', c)
  BY <1>1, <1>2, KeptTail
<1>6. ToldKept(kRx, kRx', c)
  BY <1>1, <1>2, HoldsTail DEF ToldKept
<1> QED
  BY <1>1, <1>2, <1>3, <1>4, <1>5, <1>6

\* The cases of a frame, for the connection it is for.
EngineCase(c) ==
  LET f == Head(kRx)
  IN  \/ /\ ~Live(c)
         /\ UNCHANGED <<kEng, kChrome, kFull, kBp, kPaused, kTx>>
      \/ /\ Live(c) /\ f.type = "connected"
         /\ kEng' = [kEng EXCEPT ![c] = "open"]
         /\ UNCHANGED <<kChrome, kFull, kBp, kPaused, kTx>>
      \/ /\ Live(c) /\ f.type = "data"
         /\ kChrome' = [kChrome EXCEPT ![c] = Append(@, f.chunk)]
         /\ \/ c \notin kFull /\ UNCHANGED <<kFull, kBp, kPaused>>
            \/ kFull' = kFull \cup {c} /\ AddWsBackpressure(c)
         /\ UNCHANGED <<kEng, kTx>>
      \/ /\ Live(c) /\ f.type \in {"close", "error"}
         /\ kEng' = [kEng EXCEPT ![c] = "gone"]
         /\ RemoveWsBackpressure(c)
         /\ kTx' = ToPhone(Frame("close", c))
         /\ UNCHANGED <<kChrome, kFull>>

\* A frame of a connection that is gone, or that never asked.
LEMMA EngineIgnores ==
  ASSUME BridgeInv, EngineReceives, NEW c, c = Head(kRx).conn, ~Live(c),
         UNCHANGED <<kEng, kChrome, kFull, kBp, kPaused, kTx>>
  PROVE  BridgeInv'
<1>0. /\ c \in Conns /\ BridgeTypeOK /\ PauseFits /\ QueueFits /\ UpFits(c) /\ DownFits(c) /\ ConnectFits(c)
      /\ SocketFits(c)
  BY EngineTakes DEF BridgeInv
<1>1. /\ kAlive /\ kRx # <<>> /\ kRx' = Tail(kRx) /\ kRx \in Seq(Frames) /\ kRx' \in Seq(Frames)
      /\ kTx \in Seq(Frames)
      /\ UNCHANGED <<kUp, kHeld, kAlive, kConn, kTask, kSock, kWriter, kBank, kDown, kFinished, kDrained>>
      /\ kMore' \in BOOLEAN /\ (\A d \in Conns \ {c} : AllKept(kRx, kRx', d)) /\ ToldKept(kRx, kRx', c)
      /\ ~IsData(Head(kRx), c) => AllKept(kRx, kRx', c)
  BY EngineTakes
<1>3. BridgeTypeOK'
  BY <1>0, <1>1 DEF BridgeTypeOK
<1>5. \A d \in Conns \ {c} : Untouched(d) /\ QueuesKept(d)
  BY <1>1, KeptSame DEF Untouched, QueuesKept
<1>6. PauseFits'
  BY <1>0, <1>1, PauseKept
<1>7. QueueFits'
  BY <1>0, <1>1, SameCount, QueueKept
<1>8. UpFits(c)'
  <2>1. StreamKept(kTx, kTx', c)
    BY KeptSame DEF AllKept
  <2> QED
    BY <1>0, <1>1, <2>1, UpKept
<1>9. DownFits(c)'
  <2>1. CASE kEng[c] = "gone"
    BY <1>0, <1>1, <2>1 DEF DownFits
  <2>2. CASE kEng[c] # "gone"
    <3>1. kTask[c] = "none"
      BY <1>0, <2>2 DEF ConnectFits, Live, BridgeTypeOK
    <3>2. kDown[c] = 0 /\ Len(kChrome[c]) \in Nat
      <4>1. kDown[c] \in Nat /\ Len(kChrome[c]) \in Nat
        BY <1>0, BridgeFields
      <4>2. ~(kDown[c] > 0)
        BY <1>0, <3>1 DEF DownFits
      <4> QED
        BY <4>1, <4>2
    <3>3. Stream(kRx, c, Len(kChrome[c]), 0)
      BY <1>0, <1>1, <2>2, <3>2 DEF DownFits
    <3>4. ~IsData(Head(kRx), c)
      <4> SUFFICES ASSUME IsData(Head(kRx), c) PROVE FALSE
        OBVIOUS
      <4>1. Len(kChrome[c]) + 1 <= 0
        BY <1>1, <3>2, <3>3, StreamNext
      <4> QED
        BY <3>2, <4>1
    <3> QED
      BY <1>0, <1>1, <3>4, DownKept DEF AllKept
  <2> QED
    BY <2>1, <2>2
<1>10. ConnectFits(c)'
  BY <1>0, <1>1 DEF ConnectFits, ToldKept
<1>11. SocketFits(c)'
  BY <1>0, <1>1 DEF SocketFits
<1> QED
  BY <1>0, <1>1, <1>3, <1>5, <1>6, <1>7, <1>8, <1>9, <1>10, <1>11, Assembled

\* {connected}: the phone has the connection.
LEMMA EngineOpens ==
  ASSUME BridgeInv, EngineReceives, NEW c, c = Head(kRx).conn, Live(c), Head(kRx).type = "connected",
         kEng' = [kEng EXCEPT ![c] = "open"], UNCHANGED <<kChrome, kFull, kBp, kPaused, kTx>>
  PROVE  BridgeInv'
<1>0. /\ c \in Conns /\ BridgeTypeOK /\ PauseFits /\ QueueFits /\ UpFits(c) /\ DownFits(c) /\ ConnectFits(c)
      /\ SocketFits(c)
  BY EngineTakes DEF BridgeInv
<1>1. /\ kAlive /\ kRx # <<>> /\ kRx' = Tail(kRx) /\ kRx \in Seq(Frames) /\ kRx' \in Seq(Frames)
      /\ kTx \in Seq(Frames)
      /\ UNCHANGED <<kUp, kHeld, kAlive, kConn, kTask, kSock, kWriter, kBank, kDown, kFinished, kDrained>>
      /\ kMore' \in BOOLEAN /\ (\A d \in Conns \ {c} : AllKept(kRx, kRx', d)) /\ ToldKept(kRx, kRx', c)
      /\ ~IsData(Head(kRx), c) => AllKept(kRx, kRx', c)
  BY EngineTakes
<1>2. kEng'[c] = "open" /\ (\A d \in Conns \ {c} : kEng'[d] = kEng[d])
      /\ kEng' \in [Conns -> {"idle", "handshake", "asking", "open", "gone"}]
  BY <1>0 DEF BridgeTypeOK
<1>3. BridgeTypeOK'
  BY <1>0, <1>1, <1>2 DEF BridgeTypeOK
<1>4. \A d \in Conns : QueuesKept(d)
  <2>1. ~IsData(Head(kRx), c)
    BY DEF IsData
  <2> QED
    BY <1>1, <2>1, KeptSame DEF QueuesKept
<1>5. \A d \in Conns \ {c} : Untouched(d) /\ QueuesKept(d)
  BY <1>1, <1>2, <1>4 DEF Untouched
<1>6. PauseFits'
  <2>1. \A d \in Conns : Live(d)' <=> Live(d)
    BY <1>2 DEF Live
  <2>2. kFull \subseteq Conns /\ kHeld \subseteq Conns
    BY <1>0 DEF BridgeTypeOK
  <2>3. kAlive' => (\A d \in Conns : d \in kBp' <=> d \in kFull' /\ Live(d)') /\ (kPaused' <=> kBp' # {})
    BY <1>0, <1>1, <2>1 DEF PauseFits
  <2>4. \A d \in kFull' : kEng'[d] \in {"asking", "open", "gone"}
    BY <1>0, <1>2, <2>2 DEF PauseFits
  <2>5. \A d \in kHeld' : kEng'[d] \in {"open", "gone"}
    BY <1>0, <1>1, <1>2, <2>2 DEF PauseFits
  <2> QED
    BY <2>3, <2>4, <2>5 DEF PauseFits
<1>7. QueueFits'
  <2>1. kEng[c] # "gone"
    BY DEF Live
  <2> QED
    BY <1>0, <1>1, <1>2, <2>1, SameCount, QueueKept
<1>8. UpFits(c)'
  BY <1>0, <1>1, <1>4, UpKept DEF QueuesKept, AllKept
<1>9. DownFits(c)'
  <2>1. kEng[c] # "gone"
    BY DEF Live
  <2> QED
    BY <1>0, <1>1, <1>4, <2>1, DownKept DEF QueuesKept, AllKept
<1>10. ConnectFits(c)'
  <2>1. Holds(kRx, "connected", c)
    BY <1>1, HoldsTail
  <2>2. kConn[c] \in {"open", "closed"}
    BY <1>0, <2>1 DEF ConnectFits
  <2> QED
    BY <1>0, <1>1, <1>2, <2>2 DEF ConnectFits
<1>11. SocketFits(c)'
  BY <1>0, <1>1 DEF SocketFits
<1> QED
  BY <1>0, <1>1, <1>3, <1>5, <1>6, <1>7, <1>8, <1>9, <1>10, <1>11, Assembled

\* A chunk for the browser is the next one; the browser may be slow.
LEMMA EngineRelays ==
  ASSUME BridgeInv, EngineReceives, NEW c, c = Head(kRx).conn, Live(c), Head(kRx).type = "data",
         kChrome' = [kChrome EXCEPT ![c] = Append(@, Head(kRx).chunk)],
         \/ c \notin kFull /\ UNCHANGED <<kFull, kBp, kPaused>>
         \/ kFull' = kFull \cup {c} /\ AddWsBackpressure(c),
         UNCHANGED <<kEng, kTx>>
  PROVE  BridgeInv'
<1> DEFINE n == Head(kRx).chunk
           l == Len(kChrome[c])
<1>0. /\ c \in Conns /\ BridgeTypeOK /\ PauseFits /\ QueueFits /\ UpFits(c) /\ DownFits(c) /\ ConnectFits(c)
      /\ SocketFits(c)
  BY EngineTakes DEF BridgeInv
<1>1. /\ kAlive /\ kRx # <<>> /\ kRx' = Tail(kRx) /\ kRx \in Seq(Frames) /\ kRx' \in Seq(Frames)
      /\ kTx \in Seq(Frames)
      /\ UNCHANGED <<kUp, kHeld, kAlive, kConn, kTask, kSock, kWriter, kBank, kDown, kFinished, kDrained>>
      /\ kMore' \in BOOLEAN /\ (\A d \in Conns \ {c} : AllKept(kRx, kRx', d)) /\ ToldKept(kRx, kRx', c)
  BY EngineTakes
<1>n. l \in Nat /\ kDown[c] \in Nat /\ kDown[c] <= MaxChunks /\ kChrome[c] \in Seq(Chunks)
  BY <1>0, BridgeFields
<1>s. n = l + 1 /\ Stream(kRx', c, l + 1, kDown[c]) /\ l + 1 <= kDown[c]
  <2>1. Stream(kRx, c, l, kDown[c])
    BY <1>0, <1>1 DEF DownFits, Live
  <2>2. IsData(Head(kRx), c)
    BY DEF IsData
  <2> HIDE DEF l
  <2> QED
    BY <1>1, <1>n, <2>1, <2>2, StreamNext
<1>c. n \in Chunks
  <2> HIDE DEF n, l
  <2> QED
    BY <1>n, <1>s, BridgeNumbers DEF Chunks
<1> HIDE DEF n
<1>2. /\ kChrome'[c] = Append(kChrome[c], n) /\ (\A d \in Conns \ {c} : kChrome'[d] = kChrome[d])
      /\ kChrome' \in [Conns -> Seq(Chunks)]
  <2>1. kChrome \in [Conns -> Seq(Chunks)] /\ kChrome' = [kChrome EXCEPT ![c] = Append(kChrome[c], n)]
    BY <1>0 DEF BridgeTypeOK, n
  <2>2. Append(kChrome[c], n) \in Seq(Chunks)
    BY <1>c, <1>n, Appended
  <2> QED
    BY <1>0, <2>1, <2>2
<1>b. /\ kFull' \subseteq Conns /\ kBp' \subseteq Conns /\ kPaused' \in BOOLEAN
      /\ (kFull' = kFull /\ kBp' = kBp /\ kPaused' = kPaused) \/ (kFull' = kFull \cup {c} /\ kBp' = kBp \cup {c} /\ kPaused' = TRUE)
  BY <1>0 DEF AddWsBackpressure, BridgeTypeOK
<1>3. BridgeTypeOK'
  BY <1>0, <1>1, <1>2, <1>b DEF BridgeTypeOK
<1>5. \A d \in Conns \ {c} : Untouched(d) /\ QueuesKept(d)
  BY <1>1, <1>2, KeptSame DEF Untouched, QueuesKept
<1>6. PauseFits'
  <2>1. \A d \in Conns : Live(d)' <=> Live(d)
    BY DEF Live
  <2>2. (\A d \in Conns : d \in kBp <=> d \in kFull /\ Live(d)) /\ (kPaused <=> kBp # {})
    BY <1>0, <1>1 DEF PauseFits
  <2>3. (\A d \in Conns : d \in kBp' <=> d \in kFull' /\ Live(d)') /\ (kPaused' <=> kBp' # {})
    BY <1>0, <1>b, <2>1, <2>2
  <2>4. \A d \in kFull' : kEng'[d] \in {"asking", "open", "gone"}
    BY <1>0, <1>b DEF PauseFits, Live
  <2>5. \A d \in kHeld' : kEng'[d] \in {"open", "gone"}
    BY <1>0, <1>1 DEF PauseFits
  <2> QED
    BY <2>3, <2>4, <2>5 DEF PauseFits
<1>7. QueueFits'
  BY <1>0, <1>1, SameCount, QueueKept
<1>8. UpFits(c)'
  <2>1. StreamKept(kTx, kTx', c)
    BY KeptSame DEF AllKept
  <2> QED
    BY <1>0, <1>1, <2>1, UpKept
<1>9. DownFits(c)'
  <2>1. Len(kChrome'[c]) = l + 1 /\ kChrome'[c][l + 1] = n /\ \A i \in 1..l : kChrome'[c][i] = kChrome[c][i]
    BY <1>2, <1>c, <1>n, Appended
  <2>2. \A i \in 1..l : kChrome[c][i] = i
    BY <1>0 DEF DownFits
  <2>3. \A i \in 1..Len(kChrome'[c]) : kChrome'[c][i] = i
    <3> HIDE DEF l
    <3> QED
      BY <1>n, <1>s, <2>1, <2>2
  <2>4. Stream(kRx', c, Len(kChrome'[c]), kDown'[c])
    BY <1>1, <1>s, <2>1
  <2>5. kDown'[c] > 0 => kTask'[c] # "none"
    BY <1>0, <1>1 DEF DownFits
  <2> QED
    BY <2>3, <2>4, <2>5 DEF DownFits
<1>10. ConnectFits(c)'
  BY <1>0, <1>1 DEF ConnectFits, ToldKept
<1>11. SocketFits(c)'
  BY <1>0, <1>1 DEF SocketFits
<1> QED
  BY <1>0, <1>1, <1>3, <1>5, <1>6, <1>7, <1>8, <1>9, <1>10, <1>11, Assembled

\* {close} and {error}: the browser's socket is destroyed, and the phone told.
LEMMA EngineCloses ==
  ASSUME BridgeInv, EngineReceives, NEW c, c = Head(kRx).conn, Live(c),
         Head(kRx).type \in {"close", "error"},
         kEng' = [kEng EXCEPT ![c] = "gone"], RemoveWsBackpressure(c), kTx' = ToPhone(Frame("close", c)),
         UNCHANGED <<kChrome, kFull>>
  PROVE  BridgeInv'
<1> DEFINE f == Frame("close", c)
<1>0. /\ c \in Conns /\ BridgeTypeOK /\ PauseFits /\ QueueFits /\ UpFits(c) /\ DownFits(c) /\ ConnectFits(c)
      /\ SocketFits(c)
  BY EngineTakes DEF BridgeInv
<1>1. /\ kAlive /\ kRx # <<>> /\ kRx' = Tail(kRx) /\ kRx \in Seq(Frames) /\ kRx' \in Seq(Frames)
      /\ kTx \in Seq(Frames)
      /\ UNCHANGED <<kUp, kHeld, kAlive, kConn, kTask, kSock, kWriter, kBank, kDown, kFinished, kDrained>>
      /\ kMore' \in BOOLEAN /\ (\A d \in Conns \ {c} : AllKept(kRx, kRx', d)) /\ ToldKept(kRx, kRx', c)
      /\ ~IsData(Head(kRx), c) => AllKept(kRx, kRx', c)
  BY EngineTakes
<1>f. f \in Frames /\ f.type = "close" /\ f.conn = c /\ kTx' = ToPhone(f)
  BY <1>0, FrameIs DEF FrameTypes
<1> HIDE DEF f
<1>2. kEng'[c] = "gone" /\ (\A d \in Conns \ {c} : kEng'[d] = kEng[d])
      /\ kEng' \in [Conns -> {"idle", "handshake", "asking", "open", "gone"}]
  BY <1>0 DEF BridgeTypeOK
<1>t. /\ kTx' \in Seq(Frames) /\ Cardinality(Waiting(kTx')) <= Cardinality(Waiting(kTx))
      /\ (~kAlive => kTx' = kTx)
  BY <1>f, <1>1, ToPhoneIs
<1>3. BridgeTypeOK'
  BY <1>0, <1>1, <1>2, <1>t, RemoveTypes DEF BridgeTypeOK
<1>4. \A d \in Conns : QueuesKept(d)
  <2>1. ~IsData(Head(kRx), c)
    BY DEF IsData
  <2> QED
    BY <1>f, <1>1, <2>1, ToPhoneIs DEF QueuesKept
<1>5. \A d \in Conns \ {c} : Untouched(d) /\ QueuesKept(d)
  BY <1>1, <1>2, <1>4 DEF Untouched
<1>6. PauseFits'
  BY <1>0, <1>1, ConnGonePauses
<1>7. QueueFits'
  BY <1>0, <1>1, <1>2, <1>t, QueueKept
<1>8. UpFits(c)'
  BY <1>0, <1>1, <1>4, UpKept DEF QueuesKept, AllKept
<1>9. DownFits(c)'
  BY <1>0, <1>1, <1>2, <1>4, DownKept DEF QueuesKept, AllKept
<1>10. ConnectFits(c)'
  BY <1>0, <1>1, <1>2, <1>4 DEF ConnectFits, QueuesKept, AllKept, AskKept, ToldKept
<1>11. SocketFits(c)'
  BY <1>0, <1>1 DEF SocketFits
<1> QED
  BY <1>0, <1>1, <1>3, <1>5, <1>6, <1>7, <1>8, <1>9, <1>10, <1>11, Assembled

LEMMA EngineReceivesKeeps == BridgeInv /\ EngineReceives => BridgeInv'
<1> SUFFICES ASSUME BridgeInv, EngineReceives PROVE BridgeInv'
  OBVIOUS
<1> DEFINE c == Head(kRx).conn
<1>1. EngineCase(c)
  BY DEF EngineReceives, EngineCase
<1> HIDE DEF c
<1>2. c = Head(kRx).conn
  BY DEF c
<1> QED
  BY <1>1, <1>2, EngineIgnores, EngineOpens, EngineRelays, EngineCloses DEF EngineCase

\* The WebSocket is gone: so is every client of the engine.
LEMMA EngineWsGoneKeeps == BridgeInv /\ EngineWsGone => BridgeInv'
<1> SUFFICES ASSUME BridgeInv, EngineWsGone PROVE BridgeInv'
  OBVIOUS
<1>0. BridgeTypeOK /\ PauseFits /\ QueueFits
  BY DEF BridgeInv
<1>1. /\ ~kAlive /\ kEng' = [c \in Conns |-> "gone"] /\ kBp' = {} /\ kPaused' = FALSE
      /\ UNCHANGED <<kUp, kHeld, kChrome, kFull, kTx, kRx, kAlive, kMore>>
      /\ UNCHANGED <<kConn, kTask, kSock, kWriter, kBank, kDown, kFinished, kDrained>>
  BY DEF EngineWsGone, phoneVars
<1>2. \A c \in Conns : kEng'[c] = "gone"
  BY <1>1
<1>3. BridgeTypeOK'
  BY <1>0, <1>1 DEF BridgeTypeOK
<1>4. PauseFits'
  <2>1. kFull \subseteq Conns /\ kHeld \subseteq Conns
    BY <1>0 DEF BridgeTypeOK
  <2> QED
    BY <1>1, <1>2, <2>1 DEF PauseFits
<1>5. QueueFits'
  <2>1. kTx \in Seq(Frames) /\ kTx' \in Seq(Frames)
    BY <1>0, <1>1 DEF BridgeTypeOK
  <2> QED
    BY <1>0, <1>1, <1>2, <2>1, SameCount, QueueKept
<1>6. ASSUME NEW c \in Conns PROVE UpFits(c)' /\ DownFits(c)' /\ ConnectFits(c)' /\ SocketFits(c)'
  <2>0. UpFits(c) /\ DownFits(c) /\ ConnectFits(c) /\ SocketFits(c)
    BY DEF BridgeInv
  <2>1. StreamKept(kTx, kTx', c)
    BY <1>1, KeptSame DEF AllKept
  <2>2. UpFits(c)'
    BY <1>0, <1>1, <2>0, <2>1, UpKept
  <2>3. DownFits(c)'
    BY <1>1, <2>0 DEF DownFits
  <2>4. ConnectFits(c)'
    BY <1>1, <1>2, <2>0 DEF ConnectFits
  <2>5. SocketFits(c)'
    BY <1>1, <2>0 DEF SocketFits
  <2> QED
    BY <2>2, <2>3, <2>4, <2>5
<1>7. ~kAlive' => kTx' = <<>> /\ kRx' = <<>>
  BY <1>1 DEF BridgeInv
<1> QED
  BY <1>3, <1>4, <1>5, <1>6, <1>7 DEF BridgeInv

\* What was under way is lost.
LEMMA WsDropsKeeps == BridgeInv /\ WsDrops => BridgeInv'
<1> SUFFICES ASSUME BridgeInv, WsDrops PROVE BridgeInv'
  OBVIOUS
<1>0. BridgeTypeOK /\ PauseFits /\ QueueFits
  BY DEF BridgeInv
<1>1. /\ kAlive' = FALSE /\ kTx' = <<>> /\ kRx' = <<>>
      /\ UNCHANGED <<kEng, kUp, kHeld, kChrome, kFull, kBp, kPaused, kMore>>
      /\ UNCHANGED <<kConn, kTask, kSock, kWriter, kBank, kDown, kFinished, kDrained>>
  BY DEF WsDrops, phoneVars, engineVars
<1>2. kTx' \in Seq(Frames) /\ kRx' \in Seq(Frames)
  BY <1>1, EmptySeq
<1>3. BridgeTypeOK'
  BY <1>0, <1>1, <1>2 DEF BridgeTypeOK
<1>4. PauseFits'
  BY <1>0, <1>1 DEF PauseFits
<1>5. QueueFits'
  <2>1. Cardinality(Waiting(kTx')) <= Len(kTx') /\ Cardinality(Waiting(kTx')) \in Nat /\ Len(kTx') = 0
    BY <1>1, <1>2, WaitingFinite, EmptyQueue
  <2>2. Cardinality(Waiting(kTx')) <= HighWater + Cardinality(Quiet')
    BY <2>1, QuietFiniteNext, BridgeNumbers
  <2> QED
    BY <2>2 DEF QueueFits, Waiting
<1>6. ASSUME NEW c \in Conns PROVE UpFits(c)' /\ DownFits(c)' /\ ConnectFits(c)' /\ SocketFits(c)'
  <2>0. UpFits(c) /\ DownFits(c) /\ ConnectFits(c) /\ SocketFits(c)
    BY DEF BridgeInv
  <2>2. UpFits(c)'
    BY <1>1, <2>0 DEF UpFits
  <2>3. DownFits(c)'
    BY <1>1, <2>0 DEF DownFits
  <2>4. ConnectFits(c)'
    BY <1>1, <2>0, EmptyQueue DEF ConnectFits
  <2>5. SocketFits(c)'
    BY <1>1, <2>0 DEF SocketFits
  <2> QED
    BY <2>2, <2>3, <2>4, <2>5
<1> QED
  BY <1>1, <1>3, <1>4, <1>5, <1>6 DEF BridgeInv

----------------------------------------------------------------------------
(* The steps of the phone.                                                  *)

LEMMA SameQueue ==
  ASSUME BridgeTypeOK, QueueFits, UNCHANGED <<kTx, kHeld, kEng>> PROVE QueueFits'
<1>1. kTx \in Seq(Frames) /\ kTx' \in Seq(Frames)
  BY DEF BridgeTypeOK
<1> QED
  BY <1>1, SameCount, QueueKept

\* A step of the phone leaves the engine's side and what is on its way to the
\* phone alone.
LEMMA PhoneAssembled ==
  ASSUME BridgeInv, NEW c \in Conns, UNCHANGED <<engineVars, kTx, kAlive>>, kFinished => kFinished',
         \A d \in Conns \ {c} :
            /\ kBank'[d] = kBank[d] /\ kWriter'[d] = kWriter[d] /\ kDown'[d] = kDown[d]
            /\ kTask'[d] = kTask[d] /\ kConn'[d] = kConn[d] /\ kSock'[d] = kSock[d]
            /\ d \in kDrained' => d \in kDrained
            /\ AllKept(kRx, kRx', d),
         BridgeTypeOK', ~kAlive => kRx' = kRx, UpFits(c)', DownFits(c)', ConnectFits(c)', SocketFits(c)'
  PROVE  BridgeInv'
<1>0. BridgeTypeOK /\ PauseFits /\ QueueFits
  BY DEF BridgeInv
<1>1. UNCHANGED <<kEng, kUp, kHeld, kChrome, kFull, kBp, kPaused, kMore, kTx, kAlive>>
  BY DEF engineVars
<1>2. \A d \in Conns \ {c} : Untouched(d) /\ QueuesKept(d)
  BY <1>1, KeptSame DEF Untouched, QueuesKept
<1>3. PauseFits'
  BY <1>0, <1>1, PauseKept
<1>4. QueueFits'
  BY <1>0, <1>1, SameQueue
<1>5. ~kAlive' => kTx' = <<>> /\ kRx' = <<>>
  BY <1>1 DEF BridgeInv
<1> QED
  BY <1>1, <1>2, <1>3, <1>4, <1>5, Assembled

\* What reports the end of a connection to the engine.
LEMMA EndSent ==
  ASSUME BridgeTypeOK, NEW c \in Conns, NEW t \in {"close", "error"}, kRx' = ToEngine(Frame(t, c))
  PROVE  kRx' \in Seq(Frames) /\ (~kAlive => kRx' = kRx) /\ \A d : AllKept(kRx, kRx', d)
<1> DEFINE f == Frame(t, c)
<1>1. f \in Frames /\ f.type = t /\ f.conn = c
  BY FrameIs DEF FrameTypes
<1>2. kRx \in Seq(Frames) /\ kRx' = ToEngine(f)
  BY DEF BridgeTypeOK
<1> HIDE DEF f
<1> QED
  BY <1>1, <1>2, ToEngineIs

LEMMA RegisterConnKeeps ==
  ASSUME BridgeInv, NEW c \in Conns, RegisterConn(c) PROVE BridgeInv'
<1>0. BridgeTypeOK /\ UpFits(c) /\ DownFits(c) /\ ConnectFits(c) /\ SocketFits(c)
  BY DEF BridgeInv
<1>1. /\ kTask[c] = "accepted"
      /\ UNCHANGED <<kSock, kWriter, kBank, kDown, kFinished, kDrained, kTx, kAlive, engineVars>>
      /\ UNCHANGED <<kEng, kUp, kHeld, kChrome, kFull, kBp, kPaused, kMore>>
  BY DEF RegisterConn, engineVars
<1>2. \/ kConn' = [kConn EXCEPT ![c] = "connecting"] /\ kTask' = [kTask EXCEPT ![c] = "queued"] /\ UNCHANGED kRx
      \/ kConn' = [kConn EXCEPT ![c] = "closed"] /\ kTask' = [kTask EXCEPT ![c] = "end"] /\ kRx' = ToEngine(Frame("error", c))
  BY DEF RegisterConn
<1>3. /\ kConn' \in [Conns -> {"none", "connecting", "open", "closed"}]
      /\ kTask' \in [Conns -> {"none", "accepted", "queued", "connecting", "opened", "pump", "end"}]
      /\ \A d \in Conns \ {c} : kConn'[d] = kConn[d] /\ kTask'[d] = kTask[d]
      /\ (kConn'[c] = "connecting" /\ kTask'[c] = "queued") \/ (kConn'[c] = "closed" /\ kTask'[c] = "end")
  BY <1>0, <1>2 DEF BridgeTypeOK
<1>4. kRx' \in Seq(Frames) /\ (~kAlive => kRx' = kRx) /\ \A d : AllKept(kRx, kRx', d)
  <2>1. CASE UNCHANGED kRx
    BY <1>0, <2>1, KeptSame DEF BridgeTypeOK
  <2>2. CASE kRx' = ToEngine(Frame("error", c))
    BY <1>0, <2>2, EndSent
  <2> QED
    BY <1>2, <2>1, <2>2
<1>5. BridgeTypeOK'
  BY <1>0, <1>1, <1>3, <1>4 DEF BridgeTypeOK
<1>6. kConn[c] = "none"
  BY <1>0, <1>1 DEF ConnectFits
<1>7. StreamKept(kTx, kTx', c) /\ AskKept(kTx, kTx', c)
  BY <1>1, KeptSame DEF AllKept
<1>8. UpFits(c)'
  BY <1>0, <1>1, <1>6, <1>7, UpKept
<1>9. DownFits(c)'
  BY <1>0, <1>1, <1>3, <1>4, DownKept DEF AllKept
<1>10. ConnectFits(c)'
  BY <1>0, <1>1, <1>3, <1>4, <1>6 DEF ConnectFits, AllKept, ToldKept
<1>11. SocketFits(c)'
  BY <1>0, <1>1 DEF SocketFits
<1> QED
  BY <1>1, <1>3, <1>4, <1>5, <1>8, <1>9, <1>10, <1>11, PhoneAssembled

LEMMA TaskStartsKeeps ==
  ASSUME BridgeInv, NEW c \in Conns, TaskStarts(c) PROVE BridgeInv'
<1>0. BridgeTypeOK /\ UpFits(c) /\ DownFits(c) /\ ConnectFits(c) /\ SocketFits(c)
  BY DEF BridgeInv
<1>1. /\ kTask[c] = "queued"
      /\ UNCHANGED <<kWriter, kBank, kDown, kFinished, kDrained, kTx, kRx, kAlive, engineVars>>
      /\ UNCHANGED <<kEng, kUp, kHeld, kChrome, kFull, kBp, kPaused, kMore>>
  BY DEF TaskStarts, engineVars
<1>2. \/ kTask' = [kTask EXCEPT ![c] = "end"] /\ kConn' = [kConn EXCEPT ![c] = "closed"] /\ UNCHANGED kSock
      \/ ~kFinished /\ kTask' = [kTask EXCEPT ![c] = "connecting"] /\ kSock' = [kSock EXCEPT ![c] = "open"] /\ UNCHANGED kConn
  BY DEF TaskStarts
<1>3. /\ kConn' \in [Conns -> {"none", "connecting", "open", "closed"}]
      /\ kTask' \in [Conns -> {"none", "accepted", "queued", "connecting", "opened", "pump", "end"}]
      /\ kSock' \in [Conns -> {"none", "open", "closed"}]
      /\ \A d \in Conns \ {c} : kConn'[d] = kConn[d] /\ kTask'[d] = kTask[d] /\ kSock'[d] = kSock[d]
      /\ \/ kConn'[c] = "closed" /\ kTask'[c] = "end" /\ kSock'[c] = kSock[c]
         \/ ~kFinished /\ kTask'[c] = "connecting" /\ kConn'[c] = kConn[c]
  BY <1>0, <1>2, ZenonT(60) DEF BridgeTypeOK
<1>4. \A d : AllKept(kRx, kRx', d) /\ AllKept(kTx, kTx', d)
  BY <1>1, KeptSame
<1>5. BridgeTypeOK'
  BY <1>0, <1>1, <1>3 DEF BridgeTypeOK
<1>8. UpFits(c)'
  BY <1>0, <1>1, <1>3, <1>4, UpKept DEF AllKept
<1>9. DownFits(c)'
  BY <1>0, <1>1, <1>3, <1>4, DownKept DEF AllKept
<1>10. ConnectFits(c)'
  BY <1>0, <1>1, <1>3 DEF ConnectFits
<1>11. SocketFits(c)'
  BY <1>0, <1>1, <1>3 DEF SocketFits
<1> QED
  BY <1>1, <1>3, <1>4, <1>5, <1>8, <1>9, <1>10, <1>11, PhoneAssembled

LEMMA ConnectFailsKeeps ==
  ASSUME BridgeInv, NEW c \in Conns, ConnectFails(c) PROVE BridgeInv'
<1>0. BridgeTypeOK /\ UpFits(c) /\ DownFits(c) /\ ConnectFits(c) /\ SocketFits(c)
  BY DEF BridgeInv
<1>1. /\ kTask[c] = "connecting"
      /\ UNCHANGED <<kWriter, kBank, kDown, kFinished, kDrained, kTx, kAlive, engineVars>>
      /\ UNCHANGED <<kEng, kUp, kHeld, kChrome, kFull, kBp, kPaused, kMore>>
      /\ kTask' = [kTask EXCEPT ![c] = "end"] /\ kConn' = [kConn EXCEPT ![c] = "closed"]
      /\ kSock' = [kSock EXCEPT ![c] = "closed"] /\ kRx' = ToEngine(Frame("error", c))
  BY DEF ConnectFails, engineVars
<1>3. /\ kConn' \in [Conns -> {"none", "connecting", "open", "closed"}]
      /\ kTask' \in [Conns -> {"none", "accepted", "queued", "connecting", "opened", "pump", "end"}]
      /\ kSock' \in [Conns -> {"none", "open", "closed"}]
      /\ \A d \in Conns \ {c} : kConn'[d] = kConn[d] /\ kTask'[d] = kTask[d] /\ kSock'[d] = kSock[d]
      /\ kConn'[c] = "closed" /\ kTask'[c] = "end" /\ kSock'[c] = "closed"
  BY <1>0, <1>1 DEF BridgeTypeOK
<1>4. kRx' \in Seq(Frames) /\ (~kAlive => kRx' = kRx) /\ \A d : AllKept(kRx, kRx', d)
  BY <1>0, <1>1, EndSent
<1>5. BridgeTypeOK'
  BY <1>0, <1>1, <1>3, <1>4 DEF BridgeTypeOK
<1>7. StreamKept(kTx, kTx', c)
  BY <1>1, KeptSame DEF AllKept
<1>8. UpFits(c)'
  BY <1>0, <1>1, <1>3, <1>7, UpKept
<1>9. DownFits(c)'
  BY <1>0, <1>1, <1>3, <1>4, DownKept DEF AllKept
<1>10. ConnectFits(c)'
  BY <1>0, <1>1, <1>3 DEF ConnectFits
<1>11. SocketFits(c)'
  BY <1>0, <1>1, <1>3 DEF SocketFits
<1> QED
  BY <1>1, <1>3, <1>4, <1>5, <1>8, <1>9, <1>10, <1>11, PhoneAssembled

LEMMA ConnectReturnsKeeps ==
  ASSUME BridgeInv, NEW c \in Conns, ConnectReturns(c) PROVE BridgeInv'
<1>0. BridgeTypeOK /\ UpFits(c) /\ DownFits(c) /\ ConnectFits(c) /\ SocketFits(c)
  BY DEF BridgeInv
<1>1. /\ kTask[c] = "connecting"
      /\ UNCHANGED <<kWriter, kBank, kDown, kFinished, kDrained, kTx, kRx, kAlive, engineVars>>
      /\ UNCHANGED <<kEng, kUp, kHeld, kChrome, kFull, kBp, kPaused, kMore>>
  BY DEF ConnectReturns, engineVars
<1>2. \/ /\ kTask' = [kTask EXCEPT ![c] = "end"] /\ kConn' = [kConn EXCEPT ![c] = "closed"]
         /\ kSock' = [kSock EXCEPT ![c] = "closed"]
      \/ /\ ~(kFinished \/ kConn[c] = "closed")
         /\ kTask' = [kTask EXCEPT ![c] = "opened"] /\ kConn' = [kConn EXCEPT ![c] = "open"]
         /\ UNCHANGED kSock
  BY DEF ConnectReturns
<1>3. /\ kConn' \in [Conns -> {"none", "connecting", "open", "closed"}]
      /\ kTask' \in [Conns -> {"none", "accepted", "queued", "connecting", "opened", "pump", "end"}]
      /\ kSock' \in [Conns -> {"none", "open", "closed"}]
      /\ \A d \in Conns \ {c} : kConn'[d] = kConn[d] /\ kTask'[d] = kTask[d] /\ kSock'[d] = kSock[d]
      /\ \/ kConn'[c] = "closed" /\ kTask'[c] = "end" /\ kSock'[c] = "closed"
         \/ kConn[c] # "closed" /\ kTask'[c] = "opened" /\ kConn'[c] = "open" /\ kSock'[c] = kSock[c]
  BY <1>0, <1>2, ZenonT(60) DEF BridgeTypeOK
<1>4. \A d : AllKept(kRx, kRx', d) /\ AllKept(kTx, kTx', d)
  BY <1>1, KeptSame
<1>5. BridgeTypeOK'
  BY <1>0, <1>1, <1>3 DEF BridgeTypeOK
<1>8. UpFits(c)'
  BY <1>0, <1>1, <1>3, <1>4, UpKept DEF AllKept
<1>9. DownFits(c)'
  BY <1>0, <1>1, <1>3, <1>4, DownKept DEF AllKept
<1>10. ConnectFits(c)'
  BY <1>0, <1>1, <1>3 DEF ConnectFits
<1>11. SocketFits(c)'
  BY <1>0, <1>1, <1>3 DEF SocketFits
<1> QED
  BY <1>1, <1>3, <1>4, <1>5, <1>8, <1>9, <1>10, <1>11, PhoneAssembled

\* The end of a connection: nothing is written any more.
LEMMA EndConnIs ==
  ASSUME BridgeTypeOK, NEW c \in Conns, EndConn(c)
  PROVE  /\ kConn' \in [Conns -> {"none", "connecting", "open", "closed"}]
         /\ kTask' \in [Conns -> {"none", "accepted", "queued", "connecting", "opened", "pump", "end"}]
         /\ kSock' \in [Conns -> {"none", "open", "closed"}] /\ kWriter' \in [Conns -> Seq(Chunks)]
         /\ \A d \in Conns \ {c} : kConn'[d] = kConn[d] /\ kTask'[d] = kTask[d] /\ kSock'[d] = kSock[d] /\ kWriter'[d] = kWriter[d]
         /\ kConn'[c] = "closed" /\ kTask'[c] = "end" /\ kSock'[c] = "closed" /\ kWriter'[c] = <<>>
<1>1. <<>> \in Seq(Chunks)
  BY EmptySeq
<1> QED
  BY <1>1 DEF EndConn, BridgeTypeOK

LEMMA SendConnectedKeeps ==
  ASSUME BridgeInv, NEW c \in Conns, SendConnected(c) PROVE BridgeInv'
<1> DEFINE f == Frame("connected", c)
<1>0. BridgeTypeOK /\ UpFits(c) /\ DownFits(c) /\ ConnectFits(c) /\ SocketFits(c)
  BY DEF BridgeInv
<1>f. f \in Frames /\ f.type = "connected" /\ f.conn = c
  BY FrameIs DEF FrameTypes
<1>1. /\ kTask[c] = "opened" /\ UNCHANGED <<kBank, kDown, kFinished, kDrained, kTx, kAlive, engineVars>>
      /\ UNCHANGED <<kEng, kUp, kHeld, kChrome, kFull, kBp, kPaused, kMore>> /\ kRx' = ToEngine(f)
  BY DEF SendConnected, engineVars
<1>2. \/ kTask' = [kTask EXCEPT ![c] = "pump"] /\ UNCHANGED <<kConn, kSock, kWriter>>
      \/ EndConn(c)
  BY DEF SendConnected
<1> HIDE DEF f
<1>q. kRx \in Seq(Frames)
  BY <1>0 DEF BridgeTypeOK
<1>k. kConn[c] \in {"open", "closed"}
  BY <1>0, <1>1 DEF ConnectFits
<1>3. /\ kConn' \in [Conns -> {"none", "connecting", "open", "closed"}]
      /\ kTask' \in [Conns -> {"none", "accepted", "queued", "connecting", "opened", "pump", "end"}]
      /\ kSock' \in [Conns -> {"none", "open", "closed"}] /\ kWriter' \in [Conns -> Seq(Chunks)]
      /\ \A d \in Conns \ {c} : kConn'[d] = kConn[d] /\ kTask'[d] = kTask[d] /\ kSock'[d] = kSock[d] /\ kWriter'[d] = kWriter[d]
      /\ \/ kConn'[c] = kConn[c] /\ kTask'[c] = "pump" /\ kSock'[c] = kSock[c] /\ kWriter'[c] = kWriter[c]
         \/ kConn'[c] = "closed" /\ kTask'[c] = "end" /\ kSock'[c] = "closed" /\ kWriter'[c] = <<>>
  <2>1. CASE kTask' = [kTask EXCEPT ![c] = "pump"] /\ UNCHANGED <<kConn, kSock, kWriter>>
    BY <1>0, <2>1 DEF BridgeTypeOK
  <2>2. CASE EndConn(c)
    BY <1>0, <2>2, EndConnIs
  <2> QED
    BY <1>2, <2>1, <2>2
<1>4. /\ kRx' \in Seq(Frames) /\ (~kAlive => kRx' = kRx) /\ (\A d \in Conns \ {c} : AllKept(kRx, kRx', d))
      /\ StreamKept(kRx, kRx', c)
  <2>1. ~IsData(f, c)
    BY <1>f DEF IsData
  <2>2. CASE kAlive /\ ~kFinished
    <3>1. kRx' = Append(kRx, f)
      BY <1>1, <1>f, <1>q, <2>2, ToEngineIs
    <3>2. StreamKept(kRx, kRx', c)
      BY <1>f, <1>q, <2>1, <3>1, StreamAppend DEF StreamKept
    <3> QED
      BY <1>1, <1>f, <1>q, <2>2, <3>2, ToEngineIs
  <2>3. CASE ~(kAlive /\ ~kFinished)
    <3>1. kRx' = kRx
      BY <1>1, <2>3 DEF ToEngine
    <3> QED
      BY <1>q, <3>1, KeptSame DEF AllKept
  <2> QED
    BY <2>2, <2>3
<1>5. BridgeTypeOK'
  BY <1>0, <1>1, <1>3, <1>4 DEF BridgeTypeOK
<1>7. StreamKept(kTx, kTx', c)
  BY <1>1, KeptSame DEF AllKept
<1>8. UpFits(c)'
  BY <1>0, <1>1, <1>3, <1>7, UpKept
<1>9. DownFits(c)'
  BY <1>0, <1>1, <1>3, <1>4, DownKept
<1>10. ConnectFits(c)'
  BY <1>0, <1>1, <1>3, <1>k DEF ConnectFits
<1>11. SocketFits(c)'
  BY <1>0, <1>1, <1>3 DEF SocketFits
<1> QED
  BY <1>1, <1>3, <1>4, <1>5, <1>8, <1>9, <1>10, <1>11, PhoneAssembled

\* A chunk of the bank.
LEMMA PumpReadsKeeps ==
  ASSUME BridgeInv, NEW c \in Conns, PumpReads(c) PROVE BridgeInv'
<1> DEFINE f == DataFrame(c, kDown[c] + 1)
           l == Len(kChrome[c])
           h == kDown[c]
<1>0. BridgeTypeOK /\ UpFits(c) /\ DownFits(c) /\ ConnectFits(c) /\ SocketFits(c)
  BY DEF BridgeInv
<1>1. /\ kTask[c] = "pump" /\ ~kFinished /\ kAlive /\ kDown[c] < MaxDown
      /\ kDown' = [kDown EXCEPT ![c] = @ + 1] /\ kRx' = ToEngine(f)
      /\ UNCHANGED <<kConn, kTask, kSock, kWriter, kBank, kFinished, kDrained, kTx, kAlive, engineVars>>
      /\ UNCHANGED <<kEng, kUp, kHeld, kChrome, kFull, kBp, kPaused, kMore>>
  BY DEF PumpReads, engineVars
<1>n. l \in Nat /\ h \in Nat /\ h + 1 \in 0..MaxChunks
  <2>1. l \in Nat /\ h \in Nat
    BY <1>0, BridgeFields
  <2>2. h < MaxDown /\ MaxDown \in Nat /\ MaxDown <= MaxChunks /\ MaxChunks \in Nat
    BY <1>1, BridgeNumbers
  <2> HIDE DEF l, h
  <2> QED
    BY <2>1, <2>2
<1>f. f \in Frames /\ f.type = "data" /\ f.conn = c /\ f.chunk = h + 1 /\ IsData(f, c)
  BY <1>n, DataFrameIs DEF IsData
<1> HIDE DEF f
<1>q. kRx \in Seq(Frames)
  BY <1>0 DEF BridgeTypeOK
<1>2. /\ kDown'[c] = h + 1 /\ (\A d \in Conns \ {c} : kDown'[d] = kDown[d])
      /\ kDown' \in [Conns -> 0..MaxChunks]
  BY <1>0, <1>1, <1>n DEF BridgeTypeOK
<1>4. kRx' \in Seq(Frames) /\ kRx' = Append(kRx, f) /\ (\A d \in Conns \ {c} : AllKept(kRx, kRx', d))
  BY <1>1, <1>f, <1>q, ToEngineIs
<1>5. BridgeTypeOK'
  BY <1>0, <1>1, <1>2, <1>4 DEF BridgeTypeOK
<1>7. StreamKept(kTx, kTx', c)
  BY <1>1, KeptSame DEF AllKept
<1>8. UpFits(c)'
  BY <1>0, <1>1, <1>7, UpKept
<1>9. DownFits(c)'
  <2>1. kAlive' /\ kEng'[c] # "gone" => Stream(kRx', c, l, h + 1)
    <3> SUFFICES ASSUME kAlive', kEng'[c] # "gone" PROVE Stream(kRx', c, l, h + 1)
      OBVIOUS
    <3>1. Stream(kRx, c, l, h)
      BY <1>0, <1>1 DEF DownFits
    <3> HIDE DEF l, h
    <3> QED
      BY <1>4, <1>f, <1>n, <1>q, <3>1, StreamGrows
  <2> QED
    BY <1>0, <1>1, <1>2, <2>1 DEF DownFits
<1>10. ConnectFits(c)'
  <2>1. ~(f.type = "connected" /\ f.conn = c)
    BY <1>f
  <2>2. Holds(kRx', "connected", c) => Holds(kRx, "connected", c)
    BY <1>4, <1>f, <1>q, <2>1, HoldsAppend
  <2> QED
    BY <1>0, <1>1, <2>2 DEF ConnectFits
<1>11. SocketFits(c)'
  BY <1>0, <1>1 DEF SocketFits
<1> QED
  BY <1>1, <1>2, <1>4, <1>5, <1>8, <1>9, <1>10, <1>11, PhoneAssembled

LEMMA PumpEndsKeeps ==
  ASSUME BridgeInv, NEW c \in Conns, PumpEnds(c) PROVE BridgeInv'
<1>0. BridgeTypeOK /\ UpFits(c) /\ DownFits(c) /\ ConnectFits(c) /\ SocketFits(c)
  BY DEF BridgeInv
<1>1. /\ kTask[c] = "pump" /\ UNCHANGED <<kBank, kDown, kFinished, kDrained, kTx, kAlive, engineVars>>
      /\ UNCHANGED <<kEng, kUp, kHeld, kChrome, kFull, kBp, kPaused, kMore>> /\ EndConn(c)
  BY DEF PumpEnds, engineVars
<1>2. \E t \in {"close", "error"} : kRx' = ToEngine(Frame(t, c)) \/ kRx' = kRx
  BY DEF PumpEnds
<1>3. /\ kConn' \in [Conns -> {"none", "connecting", "open", "closed"}]
      /\ kTask' \in [Conns -> {"none", "accepted", "queued", "connecting", "opened", "pump", "end"}]
      /\ kSock' \in [Conns -> {"none", "open", "closed"}] /\ kWriter' \in [Conns -> Seq(Chunks)]
      /\ \A d \in Conns \ {c} : kConn'[d] = kConn[d] /\ kTask'[d] = kTask[d] /\ kSock'[d] = kSock[d] /\ kWriter'[d] = kWriter[d]
      /\ kConn'[c] = "closed" /\ kTask'[c] = "end" /\ kSock'[c] = "closed" /\ kWriter'[c] = <<>>
  BY <1>0, <1>1, EndConnIs
<1>4. kRx' \in Seq(Frames) /\ (~kAlive => kRx' = kRx) /\ \A d : AllKept(kRx, kRx', d)
  <2>1. PICK t \in {"close", "error"} : kRx' = ToEngine(Frame(t, c)) \/ kRx' = kRx
    BY <1>2
  <2>2. CASE kRx' = kRx
    BY <1>0, <2>2, KeptSame DEF BridgeTypeOK
  <2>3. CASE kRx' = ToEngine(Frame(t, c))
    BY <1>0, <2>3, EndSent
  <2> QED
    BY <2>1, <2>2, <2>3
<1>5. BridgeTypeOK'
  BY <1>0, <1>1, <1>3, <1>4 DEF BridgeTypeOK
<1>7. StreamKept(kTx, kTx', c)
  BY <1>1, KeptSame DEF AllKept
<1>8. UpFits(c)'
  BY <1>0, <1>1, <1>3, <1>7, UpKept
<1>9. DownFits(c)'
  BY <1>0, <1>1, <1>3, <1>4, DownKept DEF AllKept
<1>10. ConnectFits(c)'
  BY <1>0, <1>1, <1>3 DEF ConnectFits
<1>11. SocketFits(c)'
  BY <1>0, <1>1, <1>3 DEF SocketFits
<1> QED
  BY <1>1, <1>3, <1>4, <1>5, <1>8, <1>9, <1>10, <1>11, PhoneAssembled

\* The single writer: the chunk at the head is the next one.
LEMMA WriterWritesNext ==
  ASSUME BridgeInv, NEW c \in Conns, kWriter[c] # <<>>, kConn[c] = "open",
         kBank' = [kBank EXCEPT ![c] = Append(@, Head(kWriter[c]))],
         kWriter' = [kWriter EXCEPT ![c] = Tail(@)],
         UNCHANGED <<kConn, kSock, kRx>>,
         UNCHANGED <<kTask, kDown, kFinished, kDrained, kTx, kAlive, engineVars>>
  PROVE  BridgeInv'
<1> DEFINE w == kWriter[c]
           b == kBank[c]
           m == Len(kBank[c])
           k == Len(kWriter[c])
<1>0. BridgeTypeOK /\ UpFits(c) /\ DownFits(c) /\ ConnectFits(c) /\ SocketFits(c)
  BY DEF BridgeInv
<1>1. UNCHANGED <<kEng, kUp, kHeld, kChrome, kFull, kBp, kPaused, kMore>>
  BY DEF engineVars
<1>n. b \in Seq(Chunks) /\ w \in Seq(Chunks) /\ m \in Nat /\ k \in Nat
  BY <1>0, BridgeFields
<1>h. /\ Tail(w) \in Seq(Chunks) /\ k # 0 /\ Len(Tail(w)) = k - 1 /\ Head(w) = w[1] /\ Head(w) \in Chunks
      /\ 1 \in 1..k
      /\ \A i \in 1..Len(Tail(w)) : Tail(w)[i] = w[i + 1] /\ i + 1 \in 1..k
  BY <1>n, Headed
<1>a. Append(b, Head(w)) \in Seq(Chunks) /\ Len(Append(b, Head(w))) = m + 1
      /\ Append(b, Head(w))[m + 1] = Head(w) /\ \A i \in 1..m : Append(b, Head(w))[i] = b[i]
  BY <1>n, <1>h, Appended
<1>2. /\ kBank'[c] = Append(b, Head(w)) /\ kWriter'[c] = Tail(w)
      /\ \A d \in Conns \ {c} : kBank'[d] = kBank[d] /\ kWriter'[d] = kWriter[d]
      /\ kBank' \in [Conns -> Seq(Chunks)] /\ kWriter' \in [Conns -> Seq(Chunks)]
  BY <1>0, <1>a, <1>h DEF BridgeTypeOK
<1>4. \A d : AllKept(kRx, kRx', d) /\ AllKept(kTx, kTx', d)
  BY KeptSame
<1>5. BridgeTypeOK'
  BY <1>0, <1>1, <1>2 DEF BridgeTypeOK
<1>8. UpFits(c)'
  <2>0. (\A i \in 1..m : b[i] = i) /\ (\A i \in 1..k : w[i] = m + i)
        /\ (kAlive /\ kConn[c] # "closed" => Stream(kTx, c, m + k, kUp[c]))
        /\ (kUp[c] > 0 => kConn[c] \in {"open", "closed"})
    BY <1>0 DEF UpFits
  <2>1. Len(kBank'[c]) = m + 1 /\ Len(kWriter'[c]) = k - 1
    BY <1>2, <1>a, <1>h
  <2>2. ASSUME NEW i \in 1..(m + 1) PROVE kBank'[c][i] = i
    <3>1. CASE i = m + 1
      <4>1. Head(w) = m + 1
        BY <1>h, <2>0
      <4> QED
        BY <1>2, <1>a, <3>1, <4>1
    <3>2. CASE i # m + 1
      <4>1. i \in 1..m
        <5> HIDE DEF m
        <5> QED
          BY <1>n, <3>2
      <4> QED
        BY <1>2, <1>a, <2>0, <4>1
    <3> QED
      BY <3>1, <3>2
  <2>3. ASSUME NEW i \in 1..(k - 1) PROVE kWriter'[c][i] = (m + 1) + i
    <3>1. kWriter'[c][i] = w[i + 1] /\ i + 1 \in 1..k
      BY <1>2, <1>h
    <3>2. kWriter'[c][i] = m + (i + 1)
      BY <2>0, <3>1
    <3>3. m + (i + 1) = (m + 1) + i
      <4> HIDE DEF m, k
      <4>1. m \in Nat /\ i \in Int
        BY <1>n
      <4> QED
        BY <4>1
    <3> QED
      BY <3>2, <3>3
  <2>4. (m + 1) + (k - 1) = m + k
    <3> HIDE DEF m, k
    <3> QED
      BY <1>n
  <2>5. kAlive' /\ kConn'[c] # "closed" => Stream(kTx', c, Len(kBank'[c]) + Len(kWriter'[c]), kUp'[c])
    BY <1>1, <2>0, <2>1, <2>4
  <2>6. \A i \in 1..Len(kBank'[c]) : kBank'[c][i] = i
    BY <2>1, <2>2
  <2>7. \A i \in 1..Len(kWriter'[c]) : kWriter'[c][i] = Len(kBank'[c]) + i
    BY <2>1, <2>3
  <2>8. kUp'[c] > 0 => kConn'[c] \in {"open", "closed"}
    BY <1>1, <2>0
  <2> QED
    BY <2>5, <2>6, <2>7, <2>8 DEF UpFits
<1>9. DownFits(c)'
  BY <1>0, <1>1, <1>4, DownKept DEF AllKept
<1>10. ConnectFits(c)'
  BY <1>0, <1>1 DEF ConnectFits
<1>11. SocketFits(c)'
  BY <1>0, <1>1 DEF SocketFits
<1> QED
  BY <1>1, <1>2, <1>4, <1>5, <1>8, <1>9, <1>10, <1>11, PhoneAssembled

LEMMA WriterFails ==
  ASSUME BridgeInv, NEW c \in Conns, kConn[c] = "open", kRx' = ToEngine(Frame("error", c)),
         kConn' = [kConn EXCEPT ![c] = "closed"], kSock' = [kSock EXCEPT ![c] = "closed"],
         kWriter' = [kWriter EXCEPT ![c] = <<>>], UNCHANGED kBank,
         UNCHANGED <<kTask, kDown, kFinished, kDrained, kTx, kAlive, engineVars>>
  PROVE  BridgeInv'
<1>0. BridgeTypeOK /\ UpFits(c) /\ DownFits(c) /\ ConnectFits(c) /\ SocketFits(c)
  BY DEF BridgeInv
<1>1. UNCHANGED <<kEng, kUp, kHeld, kChrome, kFull, kBp, kPaused, kMore>>
  BY DEF engineVars
<1>2. <<>> \in Seq(Chunks)
  BY EmptySeq
<1>3. /\ kConn' \in [Conns -> {"none", "connecting", "open", "closed"}]
      /\ kSock' \in [Conns -> {"none", "open", "closed"}]
      /\ kWriter' \in [Conns -> Seq(Chunks)]
      /\ \A d \in Conns \ {c} : kConn'[d] = kConn[d] /\ kSock'[d] = kSock[d] /\ kWriter'[d] = kWriter[d]
      /\ kConn'[c] = "closed" /\ kSock'[c] = "closed" /\ kWriter'[c] = <<>>
  BY <1>0, <1>2 DEF BridgeTypeOK
<1>4. kRx' \in Seq(Frames) /\ (~kAlive => kRx' = kRx) /\ \A d : AllKept(kRx, kRx', d)
  BY <1>0, EndSent
<1>5. BridgeTypeOK'
  BY <1>0, <1>1, <1>3, <1>4 DEF BridgeTypeOK
<1>7. StreamKept(kTx, kTx', c)
  BY KeptSame DEF AllKept
<1>8. UpFits(c)'
  BY <1>0, <1>1, <1>3, <1>7, UpKept
<1>9. DownFits(c)'
  BY <1>0, <1>1, <1>4, DownKept DEF AllKept
<1>10. ConnectFits(c)'
  BY <1>0, <1>1, <1>3 DEF ConnectFits
<1>11. SocketFits(c)'
  BY <1>0, <1>3 DEF SocketFits
<1> QED
  BY <1>1, <1>3, <1>4, <1>5, <1>8, <1>9, <1>10, <1>11, PhoneAssembled

LEMMA WriterWritesKeeps ==
  ASSUME BridgeInv, NEW c \in Conns, WriterWrites(c) PROVE BridgeInv'
BY WriterWritesNext, WriterFails DEF WriterWrites

\* The teardown comes to a connection.
LEMMA DrainConnKeeps ==
  ASSUME BridgeInv, NEW c \in Conns, DrainConn(c) PROVE BridgeInv'
<1>0. BridgeTypeOK /\ UpFits(c) /\ DownFits(c) /\ ConnectFits(c) /\ SocketFits(c)
  BY DEF BridgeInv
<1>1. /\ kFinished /\ kDrained' = kDrained \cup {c}
      /\ UNCHANGED <<kTask, kBank, kDown, kFinished, kTx, kRx, kAlive, engineVars>>
      /\ UNCHANGED <<kEng, kUp, kHeld, kChrome, kFull, kBp, kPaused, kMore>>
  BY DEF DrainConn, engineVars
<1>2. /\ kConn' = [kConn EXCEPT ![c] = IF @ = "none" THEN "none" ELSE "closed"]
      /\ kSock' = [kSock EXCEPT ![c] = IF @ = "open" THEN "closed" ELSE @]
      /\ kWriter' = [kWriter EXCEPT ![c] = <<>>]
  BY DEF DrainConn
<1>e. <<>> \in Seq(Chunks)
  BY EmptySeq
<1>3. /\ kConn' \in [Conns -> {"none", "connecting", "open", "closed"}]
      /\ kSock' \in [Conns -> {"none", "open", "closed"}]
      /\ kWriter' \in [Conns -> Seq(Chunks)]
      /\ \A d \in Conns \ {c} : kConn'[d] = kConn[d] /\ kSock'[d] = kSock[d] /\ kWriter'[d] = kWriter[d]
      /\ kConn'[c] = (IF kConn[c] = "none" THEN "none" ELSE "closed") /\ kSock'[c] # "open"
      /\ kWriter'[c] = <<>>
  BY <1>0, <1>2, <1>e DEF BridgeTypeOK
<1>4. \A d : AllKept(kRx, kRx', d) /\ AllKept(kTx, kTx', d)
  BY <1>1, KeptSame
<1>5. BridgeTypeOK'
  BY <1>0, <1>1, <1>3 DEF BridgeTypeOK
<1>d. \A d \in Conns \ {c} : d \in kDrained' => d \in kDrained
  BY <1>1
<1>8. UpFits(c)'
  <2>1. CASE kConn[c] = "none"
    <3>1. \A i \in 1..Len(kWriter'[c]) : kWriter'[c][i] = Len(kBank'[c]) + i
      BY <1>3, EmptyQueue
    <3>2. kUp[c] = 0
      <4>1. kUp[c] \in Nat
        BY <1>0, BridgeFields
      <4>2. ~(kUp[c] > 0)
        BY <1>0, <2>1 DEF UpFits
      <4> QED
        BY <4>1, <4>2
    <3>3. kAlive => kWriter[c] = <<>>
      <4> SUFFICES ASSUME kAlive PROVE kWriter[c] = <<>>
        OBVIOUS
      <4> DEFINE m == Len(kBank[c])
                 k == Len(kWriter[c])
      <4>1. m + k <= 0 /\ m \in Nat /\ k \in Nat /\ kWriter[c] \in Seq(Chunks)
        BY <1>0, <2>1, <3>2, BridgeFields DEF UpFits, Stream
      <4>2. k = 0
        <5> HIDE DEF m, k
        <5> QED
          BY <4>1
      <4> QED
        BY <4>1, <4>2, EmptySeq
    <3>4. kAlive' /\ kConn'[c] # "closed" => Stream(kTx', c, Len(kBank'[c]) + Len(kWriter'[c]), kUp'[c])
      BY <1>0, <1>1, <1>3, <2>1, <3>3 DEF UpFits
    <3>5. (\A i \in 1..Len(kBank'[c]) : kBank'[c][i] = i)
      BY <1>0, <1>1 DEF UpFits
    <3>6. kUp'[c] > 0 => kConn'[c] \in {"open", "closed"}
      BY <1>1, <3>2
    <3> QED
      BY <3>1, <3>4, <3>5, <3>6 DEF UpFits
  <2>2. CASE kConn[c] # "none"
    <3>1. kConn'[c] = "closed" /\ StreamKept(kTx, kTx', c)
      BY <1>3, <1>4, <2>2 DEF AllKept
    <3> QED
      BY <1>0, <1>1, <1>3, <3>1, UpKept
  <2> QED
    BY <2>1, <2>2
<1>9. DownFits(c)'
  BY <1>0, <1>1, <1>4, DownKept DEF AllKept
<1>10. ConnectFits(c)'
  BY <1>0, <1>1, <1>3 DEF ConnectFits
<1>11. SocketFits(c)'
  BY <1>1, <1>3 DEF SocketFits
<1> QED
  BY <1>1, <1>3, <1>4, <1>5, <1>d, <1>8, <1>9, <1>10, <1>11, PhoneAssembled

\* finish().
LEMMA PhoneFinishesKeeps == BridgeInv /\ PhoneFinishes => BridgeInv'
<1> SUFFICES ASSUME BridgeInv, PhoneFinishes PROVE BridgeInv'
  OBVIOUS
<1>0. BridgeTypeOK /\ PauseFits /\ QueueFits
  BY DEF BridgeInv
<1>1. /\ kFinished' = TRUE /\ UNCHANGED <<kEng, kUp, kHeld, kChrome, kFull, kBp, kPaused, kMore>>
      /\ UNCHANGED <<kConn, kTask, kSock, kWriter, kBank, kDown, kDrained, kTx, kRx, kAlive>>
  BY DEF PhoneFinishes, engineVars
<1>2. BridgeTypeOK'
  BY <1>0, <1>1 DEF BridgeTypeOK
<1>3. PauseFits'
  BY <1>0, <1>1, PauseKept
<1>4. QueueFits'
  BY <1>0, <1>1, SameQueue
<1>5. ASSUME NEW c \in Conns PROVE UpFits(c)' /\ DownFits(c)' /\ ConnectFits(c)' /\ SocketFits(c)'
  <2>1. /\ UpFits(c) /\ DownFits(c) /\ ConnectFits(c) /\ SocketFits(c) /\ AllKept(kTx, kTx', c)
        /\ AllKept(kRx, kRx', c)
    BY <1>1, KeptSame DEF BridgeInv
  <2> QED
    BY <1>0, <1>1, <2>1, Bystander
<1>6. ~kAlive' => kTx' = <<>> /\ kRx' = <<>>
  BY <1>1 DEF BridgeInv
<1> QED
  BY <1>2, <1>3, <1>4, <1>5, <1>6 DEF BridgeInv

----------------------------------------------------------------------------

\* A frame of the engine.  What every case of it has in common.
LEMMA PhoneTakes ==
  ASSUME BridgeInv, PhoneReceives, NEW c, c = Head(kTx).conn
  PROVE  /\ c \in Conns /\ Head(kTx) \in Frames /\ kAlive /\ kTx # <<>> /\ kTx' = Tail(kTx)
         /\ kTx \in Seq(Frames) /\ kTx' \in Seq(Frames)
         /\ UNCHANGED <<kEng, kUp, kHeld, kChrome, kFull, kBp, kPaused, kMore, kBank, kDown, kFinished, kDrained, kAlive>>
         /\ (\A d \in Conns \ {c} : AllKept(kTx, kTx', d)) /\ AskKept(kTx, kTx', c)
         /\ ~IsData(Head(kTx), c) => AllKept(kTx, kTx', c)
         /\ PauseFits' /\ QueueFits'
<1>0. BridgeTypeOK /\ PauseFits /\ QueueFits
  BY DEF BridgeInv
<1>1. /\ kAlive /\ kTx # <<>> /\ kTx' = Tail(kTx)
      /\ UNCHANGED <<kEng, kUp, kHeld, kChrome, kFull, kBp, kPaused, kMore, kBank, kDown, kFinished, kDrained, kAlive>>
  BY DEF PhoneReceives, engineVars
<1>2. kTx \in Seq(Frames)
  BY <1>0 DEF BridgeTypeOK
<1>3. Head(kTx) \in Frames /\ kTx' \in Seq(Frames) /\ c \in Conns
  BY <1>1, <1>2, Headed, FrameFields
<1>4. \A d \in Conns \ {c} : AllKept(kTx, kTx', d)
  BY <1>1, <1>2, KeptTail DEF IsData
<1>5. ~IsData(Head(kTx), c) => AllKept(kTx, kTx', c)
  BY <1>1, <1>2, KeptTail
<1>6. AskKept(kTx, kTx', c)
  BY <1>1, <1>2, HoldsTail DEF AskKept
<1>7. PauseFits'
  BY <1>0, <1>1, PauseKept
<1>8. QueueFits'
  BY <1>0, <1>1, <1>2, <1>3, WaitingTail, QueueKept
<1> QED
  BY <1>1, <1>2, <1>3, <1>4, <1>5, <1>6, <1>7, <1>8

\* The cases of a frame, for the connection it is for.
PhoneCase(c) ==
  LET f == Head(kTx)
  IN  \/ /\ f.type = "connect" /\ ~kFinished
         /\ kTask' = [kTask EXCEPT ![c] = "accepted"]
         /\ UNCHANGED <<kConn, kSock, kWriter, kRx>>
      \/ /\ f.type = "connect" /\ kFinished
         /\ UNCHANGED <<kConn, kTask, kSock, kWriter, kRx>>
      \/ /\ f.type = "data"
         /\ kWriter' = IF kConn[c] = "open" THEN [kWriter EXCEPT ![c] = Append(@, f.chunk)] ELSE kWriter
         /\ UNCHANGED <<kConn, kTask, kSock, kRx>>
      \/ /\ f.type = "close"
         /\ IF kConn[c] = "none" THEN UNCHANGED <<kConn, kSock, kWriter>>
            ELSE /\ kConn' = [kConn EXCEPT ![c] = "closed"]
                 /\ kSock' = [kSock EXCEPT ![c] = IF @ = "open" THEN "closed" ELSE @]
                 /\ kWriter' = [kWriter EXCEPT ![c] = <<>>]
         /\ UNCHANGED <<kTask, kRx>>

\* What is left to show of a case.
LEMMA PhoneCaseKeeps ==
  ASSUME BridgeInv, PhoneReceives, NEW c, c = Head(kTx).conn, UNCHANGED kRx,
         \A d \in Conns \ {c} : kTask'[d] = kTask[d] /\ kConn'[d] = kConn[d] /\ kSock'[d] = kSock[d] /\ kWriter'[d] = kWriter[d],
         BridgeTypeOK', UpFits(c)', ConnectFits(c)', SocketFits(c)', kTask[c] # "none" => kTask'[c] # "none"
  PROVE  BridgeInv'
<1>1. /\ c \in Conns /\ kAlive /\ kTx # <<>>
      /\ UNCHANGED <<kEng, kUp, kHeld, kChrome, kFull, kBp, kPaused, kMore, kBank, kDown, kFinished, kDrained, kAlive>>
      /\ (\A d \in Conns \ {c} : AllKept(kTx, kTx', d)) /\ PauseFits' /\ QueueFits'
  BY PhoneTakes
<1>2. \A d \in Conns \ {c} : Untouched(d) /\ QueuesKept(d)
  BY <1>1, KeptSame DEF Untouched, QueuesKept
<1>3. BridgeTypeOK /\ DownFits(c)
  BY <1>1 DEF BridgeInv
<1>4. StreamKept(kRx, kRx', c)
  BY KeptSame DEF AllKept
<1>5. DownFits(c)'
  BY <1>1, <1>3, <1>4, DownKept
<1> QED
  BY <1>1, <1>2, <1>5, Assembled

LEMMA PhoneAccepts ==
  ASSUME BridgeInv, PhoneReceives, NEW c, c = Head(kTx).conn, Head(kTx).type = "connect",
         kTask' = [kTask EXCEPT ![c] = "accepted"], UNCHANGED <<kConn, kSock, kWriter, kRx>>
  PROVE  BridgeInv'
<1>1. /\ c \in Conns /\ kAlive /\ kTx # <<>> /\ kTx' = Tail(kTx) /\ kTx \in Seq(Frames)
      /\ kTx' \in Seq(Frames)
      /\ UNCHANGED <<kEng, kUp, kHeld, kChrome, kFull, kBp, kPaused, kMore, kBank, kDown, kFinished, kDrained, kAlive>>
      /\ ~IsData(Head(kTx), c) => AllKept(kTx, kTx', c)
  BY PhoneTakes
<1>0. BridgeTypeOK /\ UpFits(c) /\ ConnectFits(c) /\ SocketFits(c)
  BY <1>1 DEF BridgeInv
<1>2. /\ kTask' \in [Conns -> {"none", "accepted", "queued", "connecting", "opened", "pump", "end"}]
      /\ kTask'[c] = "accepted" /\ \A d \in Conns \ {c} : kTask'[d] = kTask[d]
  BY <1>0, <1>1 DEF BridgeTypeOK
<1>3. BridgeTypeOK'
  BY <1>0, <1>1, <1>2 DEF BridgeTypeOK
<1>4. AllKept(kTx, kTx', c)
  <2>1. ~IsData(Head(kTx), c)
    BY DEF IsData
  <2> QED
    BY <1>1, <2>1
<1>5. UpFits(c)'
  BY <1>0, <1>1, <1>4, UpKept DEF AllKept
<1>6. ConnectFits(c)'
  <2>1. /\ Holds(kTx, "connect", c) /\ (Once(kTx, "connect", c) => ~Holds(kTx', "connect", c))
        /\ (Once(kTx, "connect", c) => Once(kTx', "connect", c))
    BY <1>1, HoldsTail
  <2>2. /\ kTask[c] = "none" /\ kConn[c] = "none" /\ Once(kTx, "connect", c)
        /\ kEng[c] \notin {"idle", "handshake"}
    BY <1>0, <2>1 DEF ConnectFits
  <2> QED
    BY <1>0, <1>1, <1>2, <2>1, <2>2 DEF ConnectFits
<1>7. SocketFits(c)'
  BY <1>0, <1>1 DEF SocketFits
<1> QED
  BY <1>2, <1>3, <1>5, <1>6, <1>7, PhoneCaseKeeps

\* A frame that changes nothing on the phone.
LEMMA PhoneIgnores ==
  ASSUME BridgeInv, PhoneReceives, NEW c, c = Head(kTx).conn, UpFits(c)',
         UNCHANGED <<kConn, kTask, kSock, kWriter, kRx>>
  PROVE  BridgeInv'
<1>1. /\ c \in Conns /\ kTx \in Seq(Frames) /\ kTx' \in Seq(Frames) /\ AskKept(kTx, kTx', c)
      /\ UNCHANGED <<kEng, kUp, kHeld, kChrome, kFull, kBp, kPaused, kMore, kBank, kDown, kFinished, kDrained, kAlive>>
  BY PhoneTakes
<1>2. /\ kMore' = kMore
      /\ UNCHANGED <<kEng, kUp, kHeld, kChrome, kFull, kBp, kPaused, kBank, kDown, kFinished, kDrained, kAlive>>
  BY <1>1
<1>0. BridgeTypeOK /\ ConnectFits(c) /\ SocketFits(c)
  BY <1>1 DEF BridgeInv
<1>3. BridgeTypeOK'
  BY <1>0, <1>1, <1>2 DEF BridgeTypeOK
<1>6. ConnectFits(c)'
  BY <1>0, <1>1 DEF ConnectFits, AskKept
<1>7. SocketFits(c)'
  BY <1>0, <1>1 DEF SocketFits
<1> QED
  BY <1>3, <1>6, <1>7, PhoneCaseKeeps

\* A chunk for the bank: the next one, and the connection is open or closed.
LEMMA PhoneQueues ==
  ASSUME BridgeInv, PhoneReceives, NEW c, c = Head(kTx).conn, Head(kTx).type = "data",
         kWriter' = IF kConn[c] = "open" THEN [kWriter EXCEPT ![c] = Append(@, Head(kTx).chunk)] ELSE kWriter,
         UNCHANGED <<kConn, kTask, kSock, kRx>>
  PROVE  BridgeInv'
<1> DEFINE n == Head(kTx).chunk
           m == Len(kBank[c])
           k == Len(kWriter[c])
<1>1. /\ c \in Conns /\ kAlive /\ kTx # <<>> /\ kTx' = Tail(kTx) /\ kTx \in Seq(Frames)
      /\ kTx' \in Seq(Frames)
      /\ UNCHANGED <<kEng, kUp, kHeld, kChrome, kFull, kBp, kPaused, kMore, kBank, kDown, kFinished, kDrained, kAlive>>
      /\ AskKept(kTx, kTx', c)
  BY PhoneTakes
<1>0. BridgeTypeOK /\ UpFits(c) /\ ConnectFits(c) /\ SocketFits(c)
  BY <1>1 DEF BridgeInv
<1>n. /\ m \in Nat /\ k \in Nat /\ m + k \in Nat /\ kUp[c] \in Nat /\ kUp[c] <= MaxChunks
      /\ kWriter[c] \in Seq(Chunks)
  BY <1>0, <1>1, BridgeFields
<1>s. kConn[c] # "closed" => n = (m + k) + 1 /\ Stream(kTx', c, (m + k) + 1, kUp[c]) /\ (m + k) + 1 <= kUp[c]
  <2> SUFFICES ASSUME kConn[c] # "closed" PROVE n = (m + k) + 1 /\ Stream(kTx', c, (m + k) + 1, kUp[c]) /\ (m + k) + 1 <= kUp[c]
    OBVIOUS
  <2>1. Stream(kTx, c, m + k, kUp[c]) /\ IsData(Head(kTx), c)
    BY <1>0, <1>1 DEF UpFits, IsData
  <2> DEFINE l == m + k
  <2>2. l \in Nat /\ Stream(kTx, c, l, kUp[c])
    BY <1>n, <2>1
  <2> HIDE DEF l
  <2>3. n = l + 1 /\ Stream(kTx', c, l + 1, kUp[c]) /\ l + 1 <= kUp[c]
    BY <1>1, <1>n, <2>1, <2>2, StreamNext
  <2> QED
    BY <2>3 DEF l
<1>k. kConn[c] \in {"open", "closed"}
  <2>1. kConn[c] # "closed" => kUp[c] > 0
    <3> HIDE DEF m, k, n
    <3> QED
      BY <1>n, <1>s
  <2> QED
    BY <1>0, <2>1 DEF UpFits
<1>a. CASE kConn[c] = "open"
  <2>1. n \in Chunks
    <3> HIDE DEF m, k, n
    <3> QED
      BY <1>a, <1>n, <1>s, BridgeNumbers DEF Chunks
  <2> HIDE DEF n
  <2>2. /\ kWriter'[c] = Append(kWriter[c], n) /\ (\A d \in Conns \ {c} : kWriter'[d] = kWriter[d])
        /\ kWriter' \in [Conns -> Seq(Chunks)]
    <3>1. kWriter \in [Conns -> Seq(Chunks)] /\ kWriter' = [kWriter EXCEPT ![c] = Append(kWriter[c], n)]
      BY <1>0, <1>a DEF BridgeTypeOK, n
    <3>2. Append(kWriter[c], n) \in Seq(Chunks)
      BY <1>n, <2>1, Appended
    <3> QED
      BY <1>1, <3>1, <3>2
  <2>3. BridgeTypeOK'
    BY <1>0, <1>1, <2>2 DEF BridgeTypeOK
  <2>4. UpFits(c)'
    <3>0. (\A i \in 1..m : kBank[c][i] = i) /\ (\A i \in 1..k : kWriter[c][i] = m + i)
      BY <1>0 DEF UpFits
    <3>1. Len(kWriter'[c]) = k + 1 /\ kWriter'[c][k + 1] = n /\ \A i \in 1..k : kWriter'[c][i] = kWriter[c][i]
      BY <1>n, <2>1, <2>2, Appended
    <3>2. n = (m + k) + 1 /\ Stream(kTx', c, (m + k) + 1, kUp[c])
      BY <1>a, <1>s
    <3>3. m + (k + 1) = (m + k) + 1
      <4> HIDE DEF m, k
      <4> QED
        BY <1>n
    <3>4. ASSUME NEW i \in 1..(k + 1) PROVE kWriter'[c][i] = m + i
      <4>1. CASE i = k + 1
        BY <3>1, <3>2, <3>3, <4>1
      <4>2. CASE i # k + 1
        <5>1. i \in 1..k
          <6> HIDE DEF k
          <6> QED
            BY <1>n, <4>2
        <5> QED
          BY <3>0, <3>1, <5>1
      <4> QED
        BY <4>1, <4>2
    <3>5. \A i \in 1..Len(kWriter'[c]) : kWriter'[c][i] = Len(kBank'[c]) + i
      BY <1>1, <3>1, <3>4
    <3>6. Stream(kTx', c, Len(kBank'[c]) + Len(kWriter'[c]), kUp'[c])
      BY <1>1, <3>1, <3>2, <3>3
    <3>7. /\ (\A i \in 1..Len(kBank'[c]) : kBank'[c][i] = i)
          /\ (kUp'[c] > 0 => kConn'[c] \in {"open", "closed"})
      BY <1>0, <1>1 DEF UpFits
    <3> QED
      BY <3>5, <3>6, <3>7 DEF UpFits
  <2>5. ConnectFits(c)'
    BY <1>0, <1>1 DEF ConnectFits, AskKept
  <2>6. SocketFits(c)'
    BY <1>0, <1>1 DEF SocketFits
  <2> QED
    BY <2>2, <2>3, <2>4, <2>5, <2>6, PhoneCaseKeeps
<1>b. CASE kConn[c] = "closed"
  <2>1. kWriter' = kWriter
    BY <1>b
  <2>2. UpFits(c)'
    BY <1>0, <1>1, <1>b, <2>1 DEF UpFits
  <2> QED
    BY <2>1, <2>2, PhoneIgnores
<1> QED
  BY <1>k, <1>a, <1>b

\* {close}: the connection is closed, or unknown.
LEMMA PhoneCloses ==
  ASSUME BridgeInv, PhoneReceives, NEW c, c = Head(kTx).conn, ~IsData(Head(kTx), c),
         kConn' = [kConn EXCEPT ![c] = "closed"],
         kSock' = [kSock EXCEPT ![c] = IF @ = "open" THEN "closed" ELSE @],
         kWriter' = [kWriter EXCEPT ![c] = <<>>], kConn[c] # "none", UNCHANGED <<kTask, kRx>>
  PROVE  BridgeInv'
<1>1. /\ c \in Conns /\ kTx' \in Seq(Frames) /\ AllKept(kTx, kTx', c)
      /\ UNCHANGED <<kEng, kUp, kHeld, kChrome, kFull, kBp, kPaused, kMore, kBank, kDown, kFinished, kDrained, kAlive>>
  BY PhoneTakes
<1>0. BridgeTypeOK /\ UpFits(c) /\ ConnectFits(c) /\ SocketFits(c)
  BY <1>1 DEF BridgeInv
<1>e. <<>> \in Seq(Chunks)
  BY EmptySeq
<1>2. /\ kConn' \in [Conns -> {"none", "connecting", "open", "closed"}]
      /\ kSock' \in [Conns -> {"none", "open", "closed"}]
      /\ kWriter' \in [Conns -> Seq(Chunks)]
      /\ \A d \in Conns \ {c} : kConn'[d] = kConn[d] /\ kSock'[d] = kSock[d] /\ kWriter'[d] = kWriter[d]
      /\ kConn'[c] = "closed" /\ kSock'[c] # "open" /\ kWriter'[c] = <<>>
  BY <1>0, <1>1, <1>e DEF BridgeTypeOK
<1>3. BridgeTypeOK'
  BY <1>0, <1>1, <1>2 DEF BridgeTypeOK
<1>5. UpFits(c)'
  BY <1>0, <1>1, <1>2, UpKept DEF AllKept
<1>6. ConnectFits(c)'
  BY <1>0, <1>1, <1>2 DEF ConnectFits, AllKept, AskKept
<1>7. SocketFits(c)'
  BY <1>0, <1>1, <1>2 DEF SocketFits
<1> QED
  BY <1>2, <1>3, <1>5, <1>6, <1>7, PhoneCaseKeeps

LEMMA PhoneReceivesKeeps == BridgeInv /\ PhoneReceives => BridgeInv'
<1> SUFFICES ASSUME BridgeInv, PhoneReceives PROVE BridgeInv'
  OBVIOUS
<1>2. PICK c : c = Head(kTx).conn
  OBVIOUS
<1>1. PhoneCase(c)
  BY <1>2 DEF PhoneReceives, PhoneCase
<1>3. ASSUME ~IsData(Head(kTx), c), UNCHANGED <<kConn, kTask, kSock, kWriter, kRx>> PROVE BridgeInv'
  <2>1. /\ c \in Conns /\ AllKept(kTx, kTx', c) /\ UNCHANGED <<kUp, kBank, kAlive>>
    BY <1>2, <1>3, PhoneTakes
  <2>2. BridgeTypeOK /\ UpFits(c)
    BY <2>1 DEF BridgeInv
  <2>3. UpFits(c)'
    BY <1>3, <2>1, <2>2, UpKept DEF AllKept
  <2> QED
    BY <1>2, <1>3, <2>3, PhoneIgnores
<1>4. Head(kTx).type # "data" => ~IsData(Head(kTx), c)
  BY DEF IsData
<1>5. CASE Head(kTx).type = "connect"
  <2>1. CASE kTask' = [kTask EXCEPT ![c] = "accepted"] /\ UNCHANGED <<kConn, kSock, kWriter, kRx>>
    BY <1>2, <1>5, <2>1, PhoneAccepts
  <2>2. CASE UNCHANGED <<kConn, kTask, kSock, kWriter, kRx>>
    BY <1>3, <1>4, <1>5, <2>2
  <2> QED
    BY <1>1, <1>5, <2>1, <2>2 DEF PhoneCase
<1>6. CASE Head(kTx).type = "data"
  BY <1>1, <1>2, <1>6, PhoneQueues DEF PhoneCase
<1>7. CASE Head(kTx).type = "close"
  <2>1. CASE kConn[c] = "none"
    BY <1>1, <1>3, <1>4, <1>7, <2>1 DEF PhoneCase
  <2>2. CASE kConn[c] # "none"
    BY <1>1, <1>2, <1>4, <1>7, <2>2, PhoneCloses DEF PhoneCase
  <2> QED
    BY <2>1, <2>2
<1> QED
  BY <1>1, <1>5, <1>6, <1>7 DEF PhoneCase

----------------------------------------------------------------------------
LEMMA BridgeInitially == BridgeInit => BridgeInv
<1> SUFFICES ASSUME BridgeInit PROVE BridgeInv
  OBVIOUS
<1>1. <<>> \in Seq(Frames) /\ <<>> \in Seq(Chunks) /\ 0 \in 0..MaxChunks
  BY EmptySeq, BridgeNumbers
<1>2. BridgeTypeOK
  BY <1>1 DEF BridgeInit, BridgeTypeOK
<1>3. PauseFits
  BY DEF BridgeInit, PauseFits
<1>4. QueueFits
  <2>1. kTx = <<>> /\ kTx \in Seq(Frames)
    BY <1>1 DEF BridgeInit
  <2>2. Cardinality(Waiting(kTx)) <= Len(kTx) /\ Cardinality(Waiting(kTx)) \in Nat /\ Len(kTx) = 0
    BY <2>1, WaitingFinite, EmptyQueue
  <2>3. Cardinality(Waiting(kTx)) <= HighWater + Cardinality(Quiet)
    BY <2>2, QuietFinite, BridgeNumbers
  <2> QED
    BY <2>3 DEF QueueFits, Waiting
<1>5. ASSUME NEW c \in Conns PROVE UpFits(c) /\ DownFits(c) /\ ConnectFits(c) /\ SocketFits(c)
  <2>1. /\ kBank[c] = <<>> /\ kWriter[c] = <<>> /\ kChrome[c] = <<>> /\ kUp[c] = 0 /\ kDown[c] = 0
        /\ kTx = <<>> /\ kRx = <<>>
        /\ kEng[c] = "idle" /\ kTask[c] = "none" /\ kConn[c] = "none" /\ c \notin kDrained
    BY DEF BridgeInit
  <2>2. Stream(<<>>, c, 0, 0)
    BY EmptyQueue DEF Stream
  <2>3. UpFits(c)
    BY <2>1, <2>2, EmptyQueue DEF UpFits
  <2>4. DownFits(c)
    BY <2>1, <2>2, EmptyQueue DEF DownFits
  <2>5. ConnectFits(c)
    BY <2>1, EmptyQueue DEF ConnectFits
  <2>6. SocketFits(c)
    BY <2>1 DEF SocketFits
  <2> QED
    BY <2>3, <2>4, <2>5, <2>6
<1>6. ~kAlive => kTx = <<>> /\ kRx = <<>>
  BY DEF BridgeInit
<1> QED
  BY <1>2, <1>3, <1>4, <1>5, <1>6 DEF BridgeInv

LEMMA BridgeStutters == BridgeInv /\ UNCHANGED bridgeVars => BridgeInv'
<1> SUFFICES ASSUME BridgeInv, UNCHANGED bridgeVars PROVE BridgeInv'
  OBVIOUS
<1>0. BridgeTypeOK /\ PauseFits /\ QueueFits
  BY DEF BridgeInv
<1>1. UNCHANGED <<kEng, kUp, kHeld, kChrome, kFull, kBp, kPaused, kMore, kTx, kRx, kAlive,
                  kConn, kTask, kSock, kWriter, kBank, kDown, kFinished, kDrained>>
  BY DEF bridgeVars
<1>2. BridgeTypeOK'
  BY <1>0, <1>1 DEF BridgeTypeOK
<1>3. PauseFits'
  BY <1>0, <1>1, PauseKept
<1>4. QueueFits'
  BY <1>0, <1>1, SameQueue
<1>5. ASSUME NEW c \in Conns PROVE UpFits(c)' /\ DownFits(c)' /\ ConnectFits(c)' /\ SocketFits(c)'
  <2>1. /\ UpFits(c) /\ DownFits(c) /\ ConnectFits(c) /\ SocketFits(c) /\ AllKept(kTx, kTx', c)
        /\ AllKept(kRx, kRx', c)
    BY <1>1, KeptSame DEF BridgeInv
  <2> QED
    BY <1>0, <1>1, <2>1, Bystander
<1>6. ~kAlive' => kTx' = <<>> /\ kRx' = <<>>
  BY <1>1 DEF BridgeInv
<1> QED
  BY <1>2, <1>3, <1>4, <1>5, <1>6 DEF BridgeInv

LEMMA BridgeStep == BridgeInv /\ [BridgeNext]_bridgeVars => BridgeInv'
BY SocksOpensKeeps, SocksConnectKeeps, HandshakeFailsKeeps, BrowserSendsKeeps, DrainResumeKeeps,
   BrowserClosesKeeps,
   SocketDrainsKeeps, RegisterConnKeeps, DrainConnKeeps, TaskStartsKeeps, ConnectFailsKeeps, ConnectReturnsKeeps,
   SendConnectedKeeps, PumpReadsKeeps, PumpEndsKeeps, WriterWritesKeeps, EngineReceivesKeeps, EngineWsGoneKeeps,
   PhoneReceivesKeeps, WsDropsKeeps, PhoneFinishesKeeps, BridgeStutters
   DEF BridgeNext, PhoneStep

LEMMA BridgeInvariant == BridgeSpec => []BridgeInv
BY BridgeInitially, BridgeStep, PTL DEF BridgeSpec

\* Flow control holds in both directions for any number of connections: the
\* receive side is paused exactly while a live reader is behind (addWs- and
\* removeWsBackpressure), and the uploads queued for the phone stay below the
\* high watermark and one chunk for each connection (onSocketData's pause and
\* scheduleDrainResume).
THEOREM BridgeThrottles == BridgeSpec => []BridgeHoldsBack
<1>1. BridgeInv => BridgeHoldsBack
  <2> SUFFICES ASSUME BridgeInv PROVE BridgeHoldsBack
    OBVIOUS
  <2>1. BridgeTypeOK /\ PauseFits /\ QueueFits
    BY DEF BridgeInv
  <2>2. ThrottledWhileAnyIsFull
    <3>1. kFull \subseteq Conns /\ kBp \subseteq Conns
      BY <2>1 DEF BridgeTypeOK
    <3> QED
      BY <2>1, <3>1 DEF PauseFits, ThrottledWhileAnyIsFull
  <2>3. UploadIsBounded
    <3>1. Quiet \in SUBSET Conns
      BY DEF Quiet
    <3>2. Cardinality(Quiet) <= Cardinality(Conns) /\ Cardinality(Conns) \in Nat
      BY <3>1, BridgeNumbers, FS_Subset, FS_CardinalityType
    <3>3. kTx \in Seq(Frames)
      BY <2>1 DEF BridgeTypeOK
    <3>4. Cardinality(Waiting(kTx)) \in Nat
      BY <3>3, WaitingFinite
    <3>5. Cardinality(Waiting(kTx)) <= HighWater + Cardinality(Quiet)
      BY <2>1 DEF QueueFits
    <3>6. Cardinality(Waiting(kTx)) <= HighWater + Cardinality(Conns)
      BY <3>2, <3>4, <3>5, QuietFinite, BridgeNumbers
    <3> QED
      BY <3>6 DEF UploadIsBounded, Waiting
  <2> QED
    BY <2>1, <2>2, <2>3 DEF BridgeHoldsBack
<1> QED
  BY <1>1, BridgeInvariant, PTL

\* The chunks of a connection reach the bank and the browser in order, each
\* once and none skipped, through the frames, the single writer thread and the
\* closes that race with them; and no socket to the bank is open once the
\* phone's teardown has been through the connections.
THEOREM BridgeDelivers == BridgeSpec => []BridgeIsFaithful
<1>1. BridgeInv => BridgeIsFaithful
  <2> SUFFICES ASSUME BridgeInv PROVE BridgeIsFaithful
    OBVIOUS
  <2>1. ASSUME NEW q \in Seq(Chunks), \A i \in 1..Len(q) : q[i] = i PROVE q = [i \in 1..Len(q) |-> i]
    <3>1. q \in [1..Len(q) -> Chunks]
      BY LenProperties
    <3> QED
      BY <2>1, <3>1
  <2>2. ASSUME NEW c \in Conns
        PROVE  kBank[c] = [i \in 1..Len(kBank[c]) |-> i] /\ kChrome[c] = [i \in 1..Len(kChrome[c]) |-> i]
    <3>1. kBank[c] \in Seq(Chunks) /\ kChrome[c] \in Seq(Chunks)
      BY BridgeFields DEF BridgeInv
    <3>2. (\A i \in 1..Len(kBank[c]) : kBank[c][i] = i) /\ (\A i \in 1..Len(kChrome[c]) : kChrome[c][i] = i)
      BY DEF BridgeInv, UpFits, DownFits
    <3> QED
      BY <2>1, <3>1, <3>2
  <2>3. NoSocketOutlivesTunnel
    BY DEF BridgeInv, SocketFits, NoSocketOutlivesTunnel
  <2> QED
    BY <2>2, <2>3 DEF BridgeIsFaithful, StreamsAreOrdered
<1> QED
  BY <1>1, BridgeInvariant, PTL
=============================================================================
