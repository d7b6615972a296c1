---------------------------- MODULE TunnelBridge ----------------------------
(***************************************************************************)
(* The bridge of one device tunnel, both ends: wireSocksBridge and the     *)
(* SOCKS5 server of the engine (tunnel-server.ts, socks5-server.ts), and   *)
(* the phone's connections to the bank (TunnelService.kt).  The WebSocket  *)
(* between them delivers frames in order until it drops.                   *)
(*                                                                         *)
(* Frames are counted, not sized: a data frame carries the number of its   *)
(* chunk in its direction, and the watermarks count queued frames.  Every  *)
(* phone step is what one thread does under one connection lock.           *)
(***************************************************************************)
EXTENDS Naturals, Sequences, FiniteSets, SequencesExt

CONSTANTS Conns,      \* connIds
          MaxUp,      \* bound: chunks of a connection to the bank
          MaxDown,    \* bound: chunks of a connection from the bank
          HighWater,  \* WS_HIGH_WATER_BYTES
          LowWater    \* WS_LOW_WATER_BYTES

ASSUME WaterAssumption ==
  MaxUp \in Nat /\ MaxDown \in Nat /\ LowWater \in Nat /\ HighWater \in Nat /\ LowWater <= HighWater /\ IsFiniteSet(Conns)

VARIABLES
  kEng,      \* the SOCKS client's connection on the engine
  kUp,       \* chunks the browser has sent
  kHeld,     \* SOCKS sockets paused because the WebSocket's send buffer is high
  kChrome,   \* chunks written to the browser
  kFull,     \* SOCKS sockets whose write buffer is full
  kBp,       \* wsBackpressuredConns
  kPaused,   \* the WebSocket's receive side is paused
  kMore,     \* frames read before the pause are still to be delivered
  kTx, kRx,  \* frames on their way to the phone, to the engine
  kAlive,    \* the WebSocket is up
  kConn,     \* the phone's Conn.state ("none": not in conns)
  kTask,     \* the phone's connect task and pump of the connection
  kSock,     \* the phone's socket to the bank
  kWriter,   \* chunks queued on the connection's writer thread
  kBank,     \* chunks the bank has received
  kDown,     \* chunks read from the bank
  kFinished, \* the phone's tunnel is finished
  kDrained   \* connections its teardown has come to

bridgeVars == <<kEng, kUp, kHeld, kChrome, kFull, kBp, kPaused, kMore, kTx, kRx,
                kAlive, kConn, kTask, kSock, kWriter, kBank, kDown, kFinished, kDrained>>
engineVars == <<kEng, kUp, kHeld, kChrome, kFull, kBp, kPaused, kMore>>
phoneVars == <<kConn, kTask, kSock, kWriter, kBank, kDown, kFinished, kDrained>>

MaxChunks == IF MaxUp > MaxDown THEN MaxUp ELSE MaxDown
Chunks == 1..MaxChunks
Frame(t, c) == [type |-> t, conn |-> c, chunk |-> 0]

\* parseTunnelFrame: the header is cut off, the rest is the payload.
DataFrame(c, n) == [type |-> "data", conn |-> c, chunk |-> n]

Frames == [type : {"connect", "connected", "data", "close", "error"}, conn : Conns, chunk : 0..MaxChunks]
Live(c) == kEng[c] \in {"asking", "open"}

BridgeTypeOK ==
  /\ kEng \in [Conns -> {"idle", "handshake", "asking", "open", "gone"}]
  /\ kUp \in [Conns -> 0..MaxChunks] /\ kDown \in [Conns -> 0..MaxChunks]
  /\ kChrome \in [Conns -> Seq(Chunks)] /\ kBank \in [Conns -> Seq(Chunks)]
  /\ kWriter \in [Conns -> Seq(Chunks)]
  /\ kHeld \subseteq Conns /\ kFull \subseteq Conns /\ kBp \subseteq Conns
  /\ kPaused \in BOOLEAN /\ kMore \in BOOLEAN /\ kAlive \in BOOLEAN
  /\ kFinished \in BOOLEAN /\ kDrained \subseteq Conns
  /\ kTx \in Seq(Frames) /\ kRx \in Seq(Frames)
  /\ kConn \in [Conns -> {"none", "connecting", "open", "closed"}]
  /\ kTask \in [Conns -> {"none", "accepted", "queued", "connecting", "opened", "pump", "end"}]
  /\ kSock \in [Conns -> {"none", "open", "closed"}]

BridgeInit ==
  /\ kEng = [c \in Conns |-> "idle"]
  /\ kUp = [c \in Conns |-> 0] /\ kDown = [c \in Conns |-> 0]
  /\ kChrome = [c \in Conns |-> <<>>] /\ kBank = [c \in Conns |-> <<>>]
  /\ kWriter = [c \in Conns |-> <<>>]
  /\ kHeld = {} /\ kFull = {} /\ kBp = {}
  /\ kPaused = FALSE /\ kMore = FALSE /\ kAlive = TRUE
  /\ kFinished = FALSE /\ kDrained = {}
  /\ kTx = <<>> /\ kRx = <<>>
  /\ kConn = [c \in Conns |-> "none"]
  /\ kTask = [c \in Conns |-> "none"]
  /\ kSock = [c \in Conns |-> "none"]

----------------------------------------------------------------------------
(* The engine.                                                             *)

\* sendToApk: nothing is sent on a socket that is not open.
ToPhone(f) == IF kAlive THEN Append(kTx, f) ELSE kTx

\* Mutant: the first connection that drains resumes the receive side.
RemoveWsBackpressureAny(c) ==
  /\ kBp' = kBp \ {c}
  /\ kPaused' = IF c \in kBp THEN FALSE ELSE kPaused

\* removeWsBackpressure: the shared receive side resumes only when the last
\* backpressured connection is gone.
RemoveWsBackpressure(c) ==
  /\ kBp' = kBp \ {c}
  /\ kPaused' = IF c \in kBp /\ kBp' = {} THEN FALSE ELSE kPaused

\* addWsBackpressure.
AddWsBackpressure(c) ==
  /\ kBp' = kBp \cup {c}
  /\ kPaused' = TRUE

SocksOpens(c) ==
  /\ kEng[c] = "idle"
  /\ kEng' = [kEng EXCEPT ![c] = "handshake"]
  /\ UNCHANGED <<kUp, kHeld, kChrome, kFull, kBp, kPaused, kTx, kRx, kAlive, kMore, phoneVars>>

\* A complete CONNECT.  If the companion is gone the client is refused at
\* once; otherwise the phone is asked to connect.
SocksConnect(c) ==
  /\ kEng[c] = "handshake"
  /\ kEng' = [kEng EXCEPT ![c] = IF kAlive THEN "asking" ELSE "gone"]
  /\ kTx' = ToPhone(Frame("connect", c))
  /\ UNCHANGED <<kUp, kHeld, kChrome, kFull, kBp, kPaused, kRx, kAlive, kMore, phoneVars>>

\* Not SOCKS5, not CONNECT, an unknown address type, a parse error or a
\* handshake that does not complete in time.
HandshakeFails(c) ==
  /\ kEng[c] = "handshake"
  /\ kEng' = [kEng EXCEPT ![c] = "gone"]
  /\ UNCHANGED <<kUp, kHeld, kChrome, kFull, kBp, kPaused, kTx, kRx, kAlive, kMore, phoneVars>>

\* onSocketData: relayed, and the socket is paused when the send buffer is
\* above the high watermark.
BrowserSends(c) ==
  /\ kEng[c] = "open" /\ c \notin kHeld /\ kUp[c] < MaxUp
  /\ kUp' = [kUp EXCEPT ![c] = @ + 1]
  /\ kTx' = ToPhone(DataFrame(c, kUp[c] + 1))
  /\ kHeld' = IF kAlive /\ Len(kTx') > HighWater THEN kHeld \cup {c} ELSE kHeld
  /\ UNCHANGED <<kEng, kChrome, kFull, kBp, kPaused, kRx, kAlive, kMore, phoneVars>>

\* scheduleDrainResume: the poll finds the buffer low, or nothing to resume.
DrainResume(c) ==
  /\ c \in kHeld
  /\ Len(kTx) <= LowWater \/ ~Live(c) \/ ~kAlive
  /\ kHeld' = kHeld \ {c}
  /\ UNCHANGED <<kEng, kUp, kChrome, kFull, kBp, kPaused, kTx, kRx, kAlive, kMore, phoneVars>>

\* The SOCKS socket's 'close' or 'error' event.
BrowserCloses(c) ==
  /\ Live(c)
  /\ kEng' = [kEng EXCEPT ![c] = "gone"]
  /\ RemoveWsBackpressure(c)
  /\ kTx' = ToPhone(Frame("close", c))
  /\ UNCHANGED <<kUp, kHeld, kChrome, kFull, kRx, kAlive, kMore, phoneVars>>

\* The SOCKS socket emits 'drain'.
SocketDrains(c) ==
  /\ c \in kFull /\ Live(c)
  /\ kFull' = kFull \ {c}
  /\ RemoveWsBackpressure(c)
  /\ UNCHANGED <<kEng, kUp, kHeld, kChrome, kTx, kRx, kAlive, kMore, phoneVars>>

\* One frame of the phone.  A frame of a connection that is gone is ignored;
\* close and error both end in a destroyed socket, whose 'close' event tells
\* the phone.  A pause does not hold back the frames that were read with this
\* one.
EngineReceives ==
  /\ kAlive /\ (~kPaused \/ kMore) /\ kRx # <<>>
  /\ kRx' = Tail(kRx)
  /\ LET f == Head(kRx)  c == Head(kRx).conn
     IN  \/ /\ ~Live(c)
            /\ UNCHANGED <<kEng, kChrome, kFull, kBp, kPaused, kTx>>
         \/ /\ Live(c) /\ f.type = "connected"
            /\ kEng' = [kEng EXCEPT ![c] = "open"]
            /\ UNCHANGED <<kChrome, kFull, kBp, kPaused, kTx>>
         \/ /\ Live(c) /\ f.type = "data"
            /\ kChrome' = [kChrome EXCEPT ![c] = Append(@, f.chunk)]
            /\ \/ c \notin kFull /\ UNCHANGED <<kFull, kBp, kPaused>>
               \/ kFull' = kFull \cup {c} /\ AddWsBackpressure(c)
            /\ UNCHANGED <<kEng, kTx>>
         \/ /\ Live(c) /\ f.type \in {"close", "error"}
            /\ kEng' = [kEng EXCEPT ![c] = "gone"]
            /\ RemoveWsBackpressure(c)
            /\ kTx' = ToPhone(Frame("close", c))
            /\ UNCHANGED <<kChrome, kFull>>
  /\ kMore' \in IF kPaused' /\ kRx' # <<>> THEN BOOLEAN ELSE {FALSE}
  /\ UNCHANGED <<kUp, kHeld, kAlive, phoneVars>>

\* onWsGone: every SOCKS client is failed; closeTunnel stops the listener.
EngineWsGone ==
  /\ ~kAlive /\ \E c \in Conns : kEng[c] # "gone"
  /\ kEng' = [c \in Conns |-> "gone"]
  /\ kBp' = {} /\ kPaused' = FALSE
  /\ UNCHANGED <<kUp, kHeld, kChrome, kFull, kTx, kRx, kAlive, kMore, phoneVars>>

----------------------------------------------------------------------------
(* The phone.                                                              *)

\* send: refused once the tunnel is finished, lost once the socket is down.
ToEngine(f) == IF kAlive /\ ~kFinished THEN Append(kRx, f) ELSE kRx

\* onConnect (which looks at the flag before anything else), onData and onClose,
\* one frame after the other; frames of unknown connections are ignored.
PhoneReceives ==
  /\ kAlive /\ kTx # <<>> /\ \A c \in Conns : kTask[c] # "accepted"
  /\ kTx' = Tail(kTx)
  /\ LET f == Head(kTx)  c == Head(kTx).conn
     IN  \/ /\ f.type = "connect" /\ ~kFinished
            /\ kTask' = [kTask EXCEPT ![c] = "accepted"]
            /\ UNCHANGED <<kConn, kSock, kWriter, kRx>>
         \/ /\ f.type = "connect" /\ kFinished
            /\ UNCHANGED <<kConn, kTask, kSock, kWriter, kRx>>
         \/ /\ f.type = "data"
            /\ kWriter' = IF kConn[c] = "open" THEN [kWriter EXCEPT ![c] = Append(@, f.chunk)] ELSE kWriter
            /\ UNCHANGED <<kConn, kTask, kSock, kRx>>
         \/ /\ f.type = "close"
            /\ IF kConn[c] = "none" THEN UNCHANGED <<kConn, kSock, kWriter>>
               ELSE /\ kConn' = [kConn EXCEPT ![c] = "closed"]
                    /\ kSock' = [kSock EXCEPT ![c] = IF @ = "open" THEN "closed" ELSE @]
                    /\ kWriter' = [kWriter EXCEPT ![c] = <<>>]
            /\ UNCHANGED <<kTask, kRx>>
  /\ UNCHANGED <<kBank, kDown, kFinished, kDrained, kAlive, engineVars>>

\* The rest of onConnect: the connection is registered and its task handed to
\* the connect pool, or rejected (saturated, or shut down by the teardown).
RegisterConn(c) ==
  /\ kTask[c] = "accepted"
  /\ \/ /\ kConn' = [kConn EXCEPT ![c] = "connecting"]
        /\ kTask' = [kTask EXCEPT ![c] = "queued"]
        /\ UNCHANGED kRx
     \/ /\ kConn' = [kConn EXCEPT ![c] = "closed"]
        /\ kTask' = [kTask EXCEPT ![c] = "end"]
        /\ kRx' = ToEngine(Frame("error", c))
  /\ UNCHANGED <<kSock, kWriter, kBank, kDown, kFinished, kDrained, kTx, kAlive, engineVars>>

\* The connect task: the socket is tracked under the lock before connect()
\* blocks, unless the connection or the tunnel is closed already.
TaskStarts(c) ==
  /\ kTask[c] = "queued"
  /\ IF kFinished \/ kConn[c] = "closed"
     THEN kTask' = [kTask EXCEPT ![c] = "end"] /\ kConn' = [kConn EXCEPT ![c] = "closed"] /\ UNCHANGED kSock
     ELSE kTask' = [kTask EXCEPT ![c] = "connecting"] /\ kSock' = [kSock EXCEPT ![c] = "open"] /\ UNCHANGED kConn
  /\ UNCHANGED <<kWriter, kBank, kDown, kFinished, kDrained, kTx, kRx, kAlive, engineVars>>

\* connect() throws: the bank refuses, it times out, or the socket was closed.
ConnectFails(c) ==
  /\ kTask[c] = "connecting"
  /\ kTask' = [kTask EXCEPT ![c] = "end"]
  /\ kConn' = [kConn EXCEPT ![c] = "closed"]
  /\ kSock' = [kSock EXCEPT ![c] = "closed"]
  /\ kRx' = ToEngine(Frame("error", c))
  /\ UNCHANGED <<kWriter, kBank, kDown, kFinished, kDrained, kTx, kAlive, engineVars>>

\* connect() returns: OPEN, or the close that raced with it wins.
ConnectReturns(c) ==
  /\ kTask[c] = "connecting" /\ kSock[c] = "open"
  /\ IF kFinished \/ kConn[c] = "closed"
     THEN /\ kTask' = [kTask EXCEPT ![c] = "end"]
          /\ kConn' = [kConn EXCEPT ![c] = "closed"]
          /\ kSock' = [kSock EXCEPT ![c] = "closed"]
     ELSE /\ kTask' = [kTask EXCEPT ![c] = "opened"]
          /\ kConn' = [kConn EXCEPT ![c] = "open"]
          /\ UNCHANGED kSock
  /\ UNCHANGED <<kWriter, kBank, kDown, kFinished, kDrained, kTx, kRx, kAlive, engineVars>>

EndConn(c) ==
  /\ kTask' = [kTask EXCEPT ![c] = "end"]
  /\ kConn' = [kConn EXCEPT ![c] = "closed"]
  /\ kSock' = [kSock EXCEPT ![c] = "closed"]
  /\ kWriter' = [kWriter EXCEPT ![c] = <<>>]

\* {connected} goes out and the pump starts, or the connection is torn down.
SendConnected(c) ==
  /\ kTask[c] = "opened"
  /\ IF kAlive /\ ~kFinished
     THEN kTask' = [kTask EXCEPT ![c] = "pump"] /\ UNCHANGED <<kConn, kSock, kWriter>>
     ELSE EndConn(c)
  /\ kRx' = ToEngine(Frame("connected", c))
  /\ UNCHANGED <<kBank, kDown, kFinished, kDrained, kTx, kAlive, engineVars>>

\* pumpSocketToWs: one chunk of the bank is relayed.
PumpReads(c) ==
  /\ kTask[c] = "pump" /\ kSock[c] = "open" /\ ~kFinished /\ kAlive
  /\ kDown[c] < MaxDown
  /\ kDown' = [kDown EXCEPT ![c] = @ + 1]
  /\ kRx' = ToEngine(DataFrame(c, kDown[c] + 1))
  /\ UNCHANGED <<kConn, kTask, kSock, kWriter, kBank, kFinished, kDrained, kTx, kAlive, engineVars>>

\* End of file, a read error (the socket was closed) or a send that is
\* refused.  Only the side that closes the connection reports it (markClosed).
PumpEnds(c) ==
  /\ kTask[c] = "pump"
  /\ \E t \in {"close", "error"} :
       kRx' = IF kConn[c] # "closed" THEN ToEngine(Frame(t, c)) ELSE kRx
  /\ EndConn(c)
  /\ UNCHANGED <<kBank, kDown, kFinished, kDrained, kTx, kAlive, engineVars>>

\* Mutant: each chunk has a thread of its own.
WriterWritesAny(c) ==
  /\ kWriter[c] # <<>>
  /\ \E i \in 1..Len(kWriter[c]) :
       /\ kBank' = [kBank EXCEPT ![c] = Append(@, kWriter[c][i])]
       /\ kWriter' = [kWriter EXCEPT ![c] = RemoveAt(@, i)]
  /\ UNCHANGED <<kConn, kTask, kSock, kRx, kDown, kFinished, kDrained, kTx, kAlive, engineVars>>

\* onData's single writer thread: chunks are written in the order they were
\* queued; a failed write closes the connection, a closed one drops them.
WriterWrites(c) ==
  /\ kWriter[c] # <<>>
  /\ \/ /\ kConn[c] = "open" /\ kSock[c] = "open"
        /\ kBank' = [kBank EXCEPT ![c] = Append(@, Head(kWriter[c]))]
        /\ kWriter' = [kWriter EXCEPT ![c] = Tail(@)]
        /\ UNCHANGED <<kConn, kSock, kRx>>
     \/ /\ kConn[c] = "open"
        /\ kRx' = ToEngine(Frame("error", c))
        /\ kConn' = [kConn EXCEPT ![c] = "closed"]
        /\ kSock' = [kSock EXCEPT ![c] = "closed"]
        /\ kWriter' = [kWriter EXCEPT ![c] = <<>>]
        /\ UNCHANGED kBank
  /\ UNCHANGED <<kTask, kDown, kFinished, kDrained, kTx, kAlive, engineVars>>

\* The WebSocket drops (either end, the network, or the phone's ten minutes).
WsDrops ==
  /\ kAlive
  /\ kAlive' = FALSE /\ kTx' = <<>> /\ kRx' = <<>>
  /\ UNCHANGED <<phoneVars, engineVars>>

\* finish().
PhoneFinishes ==
  /\ ~kAlive /\ ~kFinished
  /\ kFinished' = TRUE
  /\ UNCHANGED <<kConn, kTask, kSock, kWriter, kBank, kDown, kDrained, kTx, kRx, kAlive, engineVars>>

\* close() removes the connections that are in the map one by one; one that is
\* registered after it passed is left to its own task.
DrainConn(c) ==
  /\ kFinished /\ c \notin kDrained
  /\ kDrained' = kDrained \cup {c}
  /\ kConn' = [kConn EXCEPT ![c] = IF @ = "none" THEN "none" ELSE "closed"]
  /\ kSock' = [kSock EXCEPT ![c] = IF @ = "open" THEN "closed" ELSE @]
  /\ kWriter' = [kWriter EXCEPT ![c] = <<>>]
  /\ UNCHANGED <<kTask, kBank, kDown, kFinished, kTx, kRx, kAlive, engineVars>>

----------------------------------------------------------------------------

PhoneStep(c) ==
  \/ RegisterConn(c) \/ DrainConn(c) \/ TaskStarts(c) \/ ConnectFails(c) \/ ConnectReturns(c) \/ SendConnected(c)
  \/ PumpReads(c) \/ PumpEnds(c) \/ WriterWrites(c)

BridgeNext ==
  \/ \E c \in Conns :
        \/ SocksOpens(c) \/ SocksConnect(c) \/ HandshakeFails(c)
        \/ BrowserSends(c) \/ DrainResume(c) \/ BrowserCloses(c) \/ SocketDrains(c)
        \/ PhoneStep(c)
  \/ EngineReceives \/ EngineWsGone \/ PhoneReceives \/ WsDrops \/ PhoneFinishes

BridgeSpec == BridgeInit /\ [][BridgeNext]_bridgeVars

----------------------------------------------------------------------------

\* The shared receive side stays throttled while any live connection's reader
\* is behind, and is never left paused when none is: a drain, a close or an
\* error of one connection neither resumes it for another nor strands it.
ThrottledWhileAnyIsFull ==
  kAlive => (kPaused <=> \E c \in kFull : Live(c))

\* Bytes of one connection reach the bank and the browser in the order they
\* were sent, none of them twice and none skipped before a later one.
StreamsAreOrdered ==
  \A c \in Conns :
    /\ kBank[c] = [i \in 1..Len(kBank[c]) |-> i]
    /\ kChrome[c] = [i \in 1..Len(kChrome[c]) |-> i]

\* Uploads queued for the phone are bounded by the high watermark and one
\* chunk for each connection.
UploadIsBounded ==
  Cardinality({i \in 1..Len(kTx) : kTx[i].type = "data"}) <= HighWater + Cardinality(Conns)

\* A socket to the bank never outlives the tunnel: when the teardown has been
\* through the connections none is open, not even one whose connect was accepted
\* before the tunnel finished and registered after the teardown had passed.
NoSocketOutlivesTunnel ==
  kDrained = Conns => \A c \in Conns : kSock[c] # "open"

\* Flow control holds in both directions, whichever connection ends first.
BridgeHoldsBack == BridgeTypeOK /\ ThrottledWhileAnyIsFull /\ UploadIsBounded

\* What goes over the tunnel arrives in order, and ends with it.
BridgeIsFaithful == StreamsAreOrdered /\ NoSocketOutlivesTunnel
=============================================================================
