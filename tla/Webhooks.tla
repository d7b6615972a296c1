------------------------------ MODULE Webhooks ------------------------------
(***************************************************************************)
(* Telling a subscriber how a crawl ended: one endpoint, one session.      *)
(* A self-hosted deployment fans the events out in process; a hosted one   *)
(* keeps a durable outbox that several instances drain.  The receiver      *)
(* verifies with the SDK and a replay window.                              *)
(*                                                                         *)
(* A body is known by its event, outcome and time of occurrence, a         *)
(* signature by the timestamp bound into it.  The outbox's store is        *)
(* external; what it may decide is the repository's policy.                *)
(***************************************************************************)
EXTENDS Naturals, Sequences, SequencesExt

CONSTANTS Drains,      \* instances draining the outbox
          MaxAttempts, \* attempts of the in-process fan-out
          Budget,      \* MAX_DELIVERY_ATTEMPTS
          DeliveryLease, Tolerance,
          Followed,    \* bound: the events whose outbox records are drained
          LastTick      \* bound: the clock

ASSUME WebhookAssumption ==
  {MaxAttempts, Budget, DeliveryLease} \subseteq Nat \ {0} /\ {Tolerance, LastTick} \subseteq Nat

VARIABLES
  wMode,   \* "process" or "outbox"
  wNow,
  wHook,   \* the endpoint: none, active or deleted
  wSess,   \* the session: outcome, when it ended, what else it reports
  wChain,  \* in process: the events still to send, by dispatcher
  wOut,    \* the outbox records
  wDrain,  \* what each instance is delivering
  wRecv    \* the receiver: requests of the fan-out, and refusals, by event

webhookVars == <<wMode, wNow, wHook, wSess, wChain, wOut, wDrain, wRecv>>

Events == {"crawl", "sync", "transactions", "status"}

ASSUME FollowedAssumption == Followed \subseteq Events

NoRecord == [st |-> "none", attempts |-> 0, until |-> 0, secret |-> FALSE, at |-> 0]
Outcomes == {"delivered", "permanent", "retryable"}

WebhookTypeOK ==
  /\ wMode \in {"process", "outbox"} /\ wNow \in 0..LastTick
  /\ wHook \in {"none", "active", "deleted"}
  /\ wSess \in [status : {"running", "completed", "failed"}, at : 0..LastTick, counts : BOOLEAN,
                moved : BOOLEAN, subscribed : BOOLEAN]
  /\ \A c \in {"crawl", "sync"} : wChain[c].attempt \in 0..MaxAttempts
  /\ wOut \in [Events -> [st : {"none", "pending", "delivered", "permanent"}, attempts : 0..(Budget + LastTick),
                          until : 0..(LastTick + DeliveryLease), secret : BOOLEAN, at : 0..LastTick]]
  /\ wDrain \in [Drains -> [e : Events \cup {"none"}, until : 0..(LastTick + DeliveryLease), got : Outcomes \cup {"none"}]]
  /\ wRecv \in [Events -> [posts : Nat, refused : BOOLEAN]]

IdleDrain == [e |-> "none", until |-> 0, got |-> "none"]

WebhookInit ==
  /\ wMode \in {"process", "outbox"}
  /\ wNow = 0 /\ wHook = "none"
  /\ wSess = [status |-> "running", at |-> 0, counts |-> FALSE, moved |-> FALSE, subscribed |-> FALSE]
  /\ wChain = [c \in {"crawl", "sync"} |-> [left |-> <<>>, attempt |-> 0]]
  /\ wOut = [e \in Events |-> NoRecord]
  /\ wDrain = [d \in Drains |-> IdleDrain]
  /\ wRecv = [e \in Events |-> [posts |-> 0, refused |-> FALSE]]

WebhookClock ==
  /\ wNow < LastTick
  /\ wNow' = wNow + 1
  /\ UNCHANGED <<wMode, wHook, wSess, wChain, wOut, wDrain, wRecv>>

----------------------------------------------------------------------------

CreateWebhook ==
  /\ wHook = "none" /\ wHook' = "active"
  /\ UNCHANGED <<wMode, wNow, wSess, wChain, wOut, wDrain, wRecv>>

\* Hosted, a tombstone keeps the endpoint and the secret for the deliveries of
\* what happened before.
DeleteWebhook ==
  /\ wHook = "active" /\ wHook' = "deleted"
  /\ UNCHANGED <<wMode, wNow, wSess, wChain, wOut, wDrain, wRecv>>

\* activeWebhooksForEvent
Subscribed == wHook = "active"

\* The events of an outcome, in the order they are sent.
SyncEvents(success, counts, moved) ==
  <<"sync">> \o (IF success /\ counts THEN <<"transactions">> ELSE <<>>) \o (IF moved THEN <<"status">> ELSE <<>>)
TerminalCrawlEvents ==
  <<"crawl">> \o SyncEvents(wSess.status = "completed", wSess.counts, wSess.moved)

\* finishSession: the outcome is recorded, then both dispatchers are started.
\* The status change is the one their read of the connection finds.
FinishSession ==
  /\ wSess.status = "running"
  /\ \E success, counts, moved \in BOOLEAN :
       /\ wSess' = [status |-> IF success THEN "completed" ELSE "failed", at |-> wNow, counts |-> counts,
                    moved |-> moved, subscribed |-> Subscribed]
       /\ wChain' = IF wMode = "outbox" THEN wChain
                    ELSE [crawl |-> [left |-> <<"crawl">>, attempt |-> 0],
                          sync |-> [left |-> SyncEvents(success, counts, moved), attempt |-> 0]]
  /\ UNCHANGED <<wMode, wNow, wHook, wOut, wDrain, wRecv>>

----------------------------------------------------------------------------
(* The receiver: verifyWebhookSignature, then its own work.                *)

\* The timestamp is the one of the occurrence, on every attempt.
TimestampOf == wSess.at

Verifies == wNow - TimestampOf <= Tolerance

\* What one POST comes to: deliverWebhookOnce's classification of the status,
\* of a network error or of an answer that is lost after the receiver's work.
Post(e, outcome) ==
  /\ outcome = "delivered" => Verifies
  /\ wRecv' = [wRecv EXCEPT ![e].posts = @ + (IF wMode = "process" THEN 1 ELSE 0),
                            ![e].refused = @ \/ outcome = "permanent"]

----------------------------------------------------------------------------
(* In process.                                                             *)

\* fanOut: the subscribers are read again for every event.
FanOut(c) ==
  /\ wChain[c].left # <<>> /\ wChain[c].attempt = 0
  /\ wChain' = IF Subscribed THEN [wChain EXCEPT ![c].attempt = 1] ELSE [wChain EXCEPT ![c].left = Tail(@)]
  /\ UNCHANGED <<wMode, wNow, wHook, wSess, wOut, wDrain, wRecv>>

\* deliver: the loop ends with an answer, a permanent failure or the last attempt.
GivesUp(attempt, outcome) == outcome \in {"delivered", "permanent"} \/ attempt = MaxAttempts

Deliver(c) ==
  /\ wChain[c].attempt > 0
  /\ \E outcome \in Outcomes :
       /\ Post(Head(wChain[c].left), outcome)
       /\ wChain' = IF GivesUp(wChain[c].attempt, outcome)
                    THEN [wChain EXCEPT ![c] = [left |-> Tail(@.left), attempt |-> 0]]
                    ELSE [wChain EXCEPT ![c].attempt = @ + 1]
  /\ UNCHANGED <<wMode, wNow, wHook, wSess, wOut, wDrain>>

\* The process dies: nothing of the fan-out is durable.
ProcessDies ==
  /\ wMode = "process" /\ \E c \in DOMAIN wChain : wChain[c].left # <<>>
  /\ wChain' = [c \in {"crawl", "sync"} |-> [left |-> <<>>, attempt |-> 0]]
  /\ UNCHANGED <<wMode, wNow, wHook, wSess, wOut, wDrain, wRecv>>

----------------------------------------------------------------------------
(* The outbox.                                                             *)

Finished(r) == r.st \in {"delivered", "permanent"}

\* What is written for an event: the secret and the timestamp with it.
Expected == [NoRecord EXCEPT !.st = "pending", !.secret = TRUE, !.at = TimestampOf]

\* sameImmutableDelivery: a finished record has had its secret scrubbed.
SameImmutableDelivery(r) == r.at = Expected.at /\ (r.secret \/ Finished(r))

\* The delivery id is that of the session, the event and the endpoint: a record
\* that is there already stays as it is.
DrainedRecord(r) == IF r.st = "none" THEN Expected ELSE r

\* An instance writes the outbox records of the finished session, again or for
\* the first time.
Materialise ==
  /\ wMode = "outbox" /\ wSess.status # "running" /\ wSess.subscribed
  /\ \A e \in Events : wOut[e].st # "none" => SameImmutableDelivery(wOut[e])
  /\ wOut' = [e \in Events |-> IF Contains(TerminalCrawlEvents, e) THEN DrainedRecord(wOut[e]) ELSE wOut[e]]
  /\ UNCHANGED <<wMode, wNow, wHook, wSess, wChain, wDrain, wRecv>>

TakeDelivery(d, e) ==
  /\ wDrain[d].e = "none" /\ wOut[e].st = "pending" /\ wOut[e].until <= wNow /\ wNow < LastTick
  /\ wOut' = [wOut EXCEPT ![e].attempts = @ + 1, ![e].until = wNow + DeliveryLease]
  /\ wDrain' = [wDrain EXCEPT ![d] = [e |-> e, until |-> wNow + DeliveryLease, got |-> "none"]]
  /\ UNCHANGED <<wMode, wNow, wHook, wSess, wChain, wRecv>>

DeliverOnce(d) ==
  /\ wDrain[d].e # "none" /\ wDrain[d].got = "none"
  /\ \E outcome \in Outcomes :
       Post(wDrain[d].e, outcome) /\ wDrain' = [wDrain EXCEPT ![d].got = outcome]
  /\ UNCHANGED <<wMode, wNow, wHook, wSess, wChain, wOut>>

DecideRetry(outcome, attempts) == IF outcome = "retryable" THEN "pending" ELSE outcome
\* decideDeliveryFinish
DecideDeliveryFinish(outcome, attempts) ==
  IF outcome # "retryable" THEN outcome ELSE IF attempts >= Budget THEN "permanent" ELSE "pending"

HoldsAnyLease(d) == TRUE
\* The record is still under the lease this instance took.
HoldsLease(d) == LET r == wOut[wDrain[d].e] IN r.st = "pending" /\ r.until = wDrain[d].until

FinishDelivery(d) ==
  LET e == wDrain[d].e
      st == DecideDeliveryFinish(wDrain[d].got, wOut[e].attempts)
  IN
  /\ e # "none" /\ wDrain[d].got # "none"
  /\ wOut' = IF HoldsLease(d) THEN [wOut EXCEPT ![e].st = st, ![e].until = 0, ![e].secret = st = "pending"] ELSE wOut
  /\ wDrain' = [wDrain EXCEPT ![d] = IdleDrain]
  /\ UNCHANGED <<wMode, wNow, wHook, wSess, wChain, wRecv>>

DrainDies(d) ==
  /\ wDrain[d].e # "none"
  /\ wDrain' = [wDrain EXCEPT ![d] = IdleDrain]
  /\ UNCHANGED <<wMode, wNow, wHook, wSess, wChain, wOut, wRecv>>

----------------------------------------------------------------------------

WebhookNext ==
  \/ WebhookClock \/ CreateWebhook \/ DeleteWebhook \/ FinishSession \/ ProcessDies \/ Materialise
  \/ \E c \in {"crawl", "sync"} : FanOut(c) \/ Deliver(c)
  \/ \E d \in Drains : DeliverOnce(d) \/ FinishDelivery(d) \/ DrainDies(d) \/ \E e \in Followed : TakeDelivery(d, e)

WebhookSpec == WebhookInit /\ [][WebhookNext]_webhookVars

----------------------------------------------------------------------------

\* Draining again, after any number of attempts and also after the record was
\* finished and its secret scrubbed, finds the delivery it would write.
RedrainAgrees == \A e \in Events : wOut[e].st # "none" => SameImmutableDelivery(wOut[e])

\* A delivery that is finished is never taken up again, and its outcome does
\* not change when an instance whose lease ran out reports late.
FinishedIsFinal == [][\A e \in Events : Finished(wOut[e]) => wOut'[e] = wOut[e]]_webhookVars

\* A refusal ends it: an endpoint that answers with a client error gets that
\* event no second time from the same fan-out, and none gets it more often than
\* the attempts allow.
FanOutStops == [][\A c \in DOMAIN wChain : wChain[c].attempt > 0 /\ wRecv' # wRecv /\ wChain'[c] # wChain[c]
                    => LET e == Head(wChain[c].left) IN
                       /\ wRecv'[e].posts <= MaxAttempts
                       /\ wRecv'[e].refused => wChain'[c].attempt = 0]_webhookVars

\* A record that is waiting, and that nobody holds, has attempts left.
BudgetEnds == \A e \in Events : wOut[e].st = "pending" /\ wOut[e].until = 0 => wOut[e].attempts < Budget

\* A delivery can be drained and attempted again at any time, within its budget.
OutboxIsSound == WebhookTypeOK /\ RedrainAgrees /\ BudgetEnds
=============================================================================
