--------------------------- MODULE DurableRecords ---------------------------
(***************************************************************************)
(* The durable records a deployment works from: the Kubernetes crawl job,  *)
(* the job of a remote worker, the hosted schedule, the transactions of a  *)
(* connection and the webhook outbox.  They share no variable; the initial *)
(* state chooses one, and only that one steps.                             *)
(***************************************************************************)
EXTENDS JobWorker, HostedBroker, HostedSchedule, TxStore, Webhooks

VARIABLE part

Init ==
  /\ part \in {"job", "broker", "schedule", "transactions", "webhooks"}
  /\ JobInit /\ BrokerInit /\ HostedScheduleInit /\ TxInit /\ WebhookInit
  /\ part # "transactions" => tStore = "sql"
  /\ part # "webhooks" => wMode = "process"

vars == <<part, jobVars, brokerVars, hostedScheduleVars, txVars, webhookVars>>

Next ==
  \/ part = "job" /\ JobNext
     /\ UNCHANGED <<part, brokerVars, hostedScheduleVars, txVars, webhookVars>>
  \/ part = "broker" /\ BrokerNext
     /\ UNCHANGED <<part, jobVars, hostedScheduleVars, txVars, webhookVars>>
  \/ part = "schedule" /\ HostedScheduleNext
     /\ UNCHANGED <<part, jobVars, brokerVars, txVars, webhookVars>>
  \/ part = "transactions" /\ TxNext
     /\ UNCHANGED <<part, jobVars, brokerVars, hostedScheduleVars, webhookVars>>
  \/ part = "webhooks" /\ WebhookNext
     /\ UNCHANGED <<part, jobVars, brokerVars, hostedScheduleVars, txVars>>

Spec == Init /\ [][Next]_vars

\* What a durable record says was decided stays decided: the job's owner, its
\* outcome, a finished delivery and the end of a fan-out.
RecordsStand == OneLogin /\ OutcomeStands /\ FinishedIsFinal /\ FanOutStops
=============================================================================
