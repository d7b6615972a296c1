------------------------------- MODULE OtpRelay ------------------------------
(***************************************************************************)
(* How a one-time code reaches the crawl of ONE session: the agent loop's  *)
(* OTP state (OtpState), the session row's otp_* columns, the wake-up that *)
(* decides who supplies the code, and the relays that write it: the paired *)
(* phone (SMS), the email watcher, and the operator's console.             *)
(*                                                                         *)
(* An OTP-request episode is opened by postgresOtp.prepare, which bumps    *)
(* otp_request_epoch, and closed by waitForOtp when it claims a code.      *)
(*                                                                         *)
(* The model decides what the agent does (\E over its actions), and sender *)
(* matching and the LLM's extraction are taken to accept or refuse.  The   *)
(* active statuses other than waiting_for_otp are one value, "active".     *)
(* The relay caps (MAX_SMS_RELAYS, MAX_OTP_ATTEMPTS) only refuse calls: a  *)
(* refused call is one that is not made.                                   *)
(***************************************************************************)
EXTENDS Naturals

CONSTANTS Relays,     \* requests that may be in flight at the same time
          MaxAttempts,\* codes one login may ask for (2 in the code)
          MaxCodes,   \* bound: codes the bank sends
          MaxEpochs   \* bound: OTP-request episodes

ASSUME BoundsAssumption ==
  MaxAttempts \in Nat /\ MaxCodes \in Nat /\ MaxEpochs \in Nat

VARIABLES
  status,             \* sessions.status: "active", "waiting_for_otp" or "ended"
  requested, epoch,   \* otp_requested, otp_request_epoch
  ready,              \* otp_relay_ready (otp_relay_online only selects a timeout)
  mode,               \* otp_relay_mode
  otp, key,           \* otp, otp_idempotency_key
  requires2fa,        \* request.requires2fa
  pc, then,           \* where the agent loop is, and where prepare returns to
  recovering,         \* the step is the retry of one whose action failed
  goal,               \* "login" or "extract"
  prepared, cached, consumed, filled, attempts,  \* OtpState
  posts, wakes,       \* wake requests not yet handled; armOtpRelayEpisode calls
  relay,              \* the requests that carry a code
  paired,             \* an authorized phone exists
  issued,             \* the codes the bank has sent are 1..issued
  modeFor,            \* history: the episode the recorded mode was decided for
  otpFor,             \* history: the episode the code in the row was relayed for; 0 if typed
  cachedFor,          \* history: the episode the cached code was claimed in
  taken, got          \* history: codes claimed in all, and since the login (re)started

rowVars    == <<status, requested, epoch, ready, mode, otp, key>>
otpVars    == <<prepared, cached, consumed, filled, attempts>>
agentVars  == <<requires2fa, pc, then, recovering, goal, otpVars>>
serverVars == <<posts, wakes, relay>>
worldVars  == <<paired, issued>>
ghostVars  == <<modeFor, otpFor, cachedFor, taken, got>>
vars == <<rowVars, agentVars, serverVars, worldVars, ghostVars>>

Codes == 1..MaxCodes
Epochs == 0..MaxEpochs
NoCode == 0
NoKey == <<0, 0>>
NoRelay == [kind |-> "none", code |-> NoCode, epoch |-> 0, step |-> "idle"]

\* "login": about to write 'logging_in'.  "arm": about to write
\* 'waiting_for_otp' before prepare.  "execute": a resend action is about to run.
Targets == {"login", "execute", "poll"}
Steps == Targets \cup {"start", "idle", "step", "arm", "prepare", "confirm",
                       "polling", "done"}
Modes == {"none", "companion", "manual"}
Wakes == [epoch : Epochs, mode : Modes]
RelayRequests == [kind : {"none", "sms", "email", "operator"},
                  code : Codes \cup {NoCode}, epoch : Epochs,
                  step : {"idle", "post", "extract", "write"}]

RowTypeOK ==
  /\ status \in {"active", "waiting_for_otp", "ended"}
  /\ requested \in BOOLEAN /\ epoch \in Epochs /\ ready \in BOOLEAN /\ mode \in Modes
  /\ otp \in Codes \cup {NoCode} /\ key \in (Codes \cup {NoCode}) \X Epochs

AgentTypeOK ==
  /\ requires2fa \in BOOLEAN /\ recovering \in BOOLEAN
  /\ pc \in Steps /\ then \in Targets /\ goal \in {"login", "extract"}
  /\ prepared \in BOOLEAN /\ cached \in Codes \cup {NoCode}
  /\ consumed \in BOOLEAN /\ filled \in BOOLEAN /\ attempts \in 0..(MaxAttempts + 1)

ServerTypeOK ==
  /\ posts \in Epochs /\ wakes \in SUBSET Wakes
  /\ relay \in [Relays -> RelayRequests]
  /\ paired \in BOOLEAN /\ issued \in 0..MaxCodes

HistoryTypeOK ==
  /\ modeFor \in Epochs /\ otpFor \in Epochs /\ cachedFor \in Epochs
  /\ taken \in Epochs /\ got \in Epochs

TypeOK == RowTypeOK /\ AgentTypeOK /\ ServerTypeOK /\ HistoryTypeOK

Init ==
  /\ status = "active" /\ requested = FALSE /\ epoch = 0
  /\ ready = FALSE /\ mode = "none"
  /\ otp = NoCode /\ key = NoKey
  /\ requires2fa \in BOOLEAN /\ recovering = FALSE
  /\ pc = "start" /\ then = "login" /\ goal = "login"
  /\ prepared = FALSE /\ cached = NoCode
  /\ consumed = FALSE /\ filled = FALSE /\ attempts = 0
  /\ posts = 0 /\ wakes = {}
  /\ relay = [r \in Relays |-> NoRelay]
  /\ paired \in BOOLEAN /\ issued = 0
  /\ modeFor = 0 /\ otpFor = 0 /\ cachedFor = 0 /\ taken = 0 /\ got = 0

Active == status # "ended"        \* ACTIVE_STATUSES

-----------------------------------------------------------------------------
(* postgresOtp: the session-column handshake.                              *)

\* The update that opens an episode.
OpenEpisode ==
  /\ requested' = TRUE /\ epoch' = epoch + 1
  /\ ready' = FALSE
  /\ mode' = "none" /\ modeFor' = 0

\* prepare up to its poll, with the wake request it posts.  Its other branch,
\* joining an episode that is already open, is never taken: PreparedIsArmed
\* says that no episode is open here.
Prepare ==
  /\ pc = "prepare" /\ Active /\ ~requested
  /\ epoch < MaxEpochs
  /\ OpenEpisode
  /\ posts' = posts + 1
  /\ pc' = "confirm"
  /\ UNCHANGED <<status, otp, key, requires2fa, then, recovering, goal, otpVars,
                 wakes, relay, worldVars, otpFor, cachedFor, taken, got>>

\* prepare returns, and its callers set otp.relayPrepared.
Confirm ==
  /\ pc = "confirm" /\ Active
  /\ ready \/ mode = "manual"
  /\ prepared' = TRUE
  /\ pc' = then /\ then' = "login"
  /\ UNCHANGED <<rowVars, requires2fa, recovering, goal, cached, consumed,
                 filled, attempts, serverVars, worldVars, ghostVars>>

\* The offline or busy timeout of prepare: the crawl fails.
ConfirmTimeout ==
  /\ pc = "confirm" /\ ~ready /\ mode # "manual"
  /\ pc' = "done"
  /\ UNCHANGED <<rowVars, requires2fa, then, recovering, goal, otpVars, serverVars,
                 worldVars, ghostVars>>

\* waitForOtp's guarded transition.
WaitForOtp ==
  /\ pc = "poll" /\ Active
  /\ status' = "waiting_for_otp"
  /\ pc' = "polling"
  /\ UNCHANGED <<requested, epoch, ready, mode, otp, key, requires2fa, then,
                 recovering, goal, otpVars, serverVars, worldVars, ghostVars>>

\* Mutant: the claimed code does not close the episode.
CloseEpisodeLeft == UNCHANGED <<requested, ready>>

\* What claiming a code does to the episode.
CloseEpisode == requested' = FALSE /\ ready' = FALSE

ResetAfterOtpReceived == prepared' = FALSE /\ consumed' = FALSE /\ filled' = FALSE

\* The claiming update of waitForOtp, and what the agent loop does with the code.
ClaimOtp ==
  /\ pc = "polling" /\ Active /\ otp # NoCode
  /\ otp' = NoCode /\ status' = "active"
  /\ CloseEpisode
  /\ cached' = otp /\ cachedFor' = epoch
  /\ ResetAfterOtpReceived
  /\ taken' = taken + 1 /\ got' = got + 1
  /\ pc' = "idle"
  /\ UNCHANGED <<epoch, mode, key, requires2fa, then, recovering, goal, attempts,
                 serverVars, worldVars, modeFor, otpFor>>

PollTimeout ==
  /\ pc = "polling"
  /\ pc' = "done"
  /\ UNCHANGED <<rowVars, requires2fa, then, recovering, goal, otpVars, serverVars,
                 worldVars, ghostVars>>

-----------------------------------------------------------------------------
(* The agent loop.                                                         *)

\* updateSessionStatus, when it is the last thing a step does.
Proceed(from, to, s) ==
  /\ pc = from /\ pc' = to
  /\ Active /\ status' = s
  /\ UNCHANGED <<requested, epoch, ready, mode, otp, key, requires2fa, then,
                 serverVars, worldVars, modeFor, otpFor, cachedFor, taken>>

\* An agent step that writes no row.
Local ==
  UNCHANGED <<rowVars, requires2fa, serverVars, worldVars,
              modeFor, otpFor, cachedFor, taken>>

\* prepareOtpRelay, where the code expects 2FA and has not prepared yet.
PrepareFirst(step, target) ==
  IF requires2fa /\ ~prepared THEN pc' = step /\ then' = target
                              ELSE pc' = target /\ UNCHANGED then

\* 2FA expected: the relay is armed before the browser navigates.
Start ==
  /\ pc = "start"
  /\ PrepareFirst("prepare", "login")
  /\ Local /\ UNCHANGED <<recovering, goal, otpVars, got>>

LoggingIn ==
  /\ Proceed("login", "idle", "active")
  /\ UNCHANGED <<recovering, goal, otpVars, got>>

\* The model answers; the status follows the goal again.
NextStep ==
  /\ Proceed("idle", "step", "active")
  /\ recovering' = FALSE
  /\ UNCHANGED <<goal, otpVars, got>>

\* updateSessionStatus('waiting_for_otp') ahead of prepareOtpRelay.
Arm ==
  /\ Proceed("arm", "prepare", "waiting_for_otp")
  /\ UNCHANGED <<recovering, goal, otpVars, got>>

ForgetCode == cached' = NoCode /\ consumed' = FALSE /\ filled' = FALSE

LoginComplete ==
  /\ Proceed("step", "idle", "active")
  /\ goal' = "extract"
  /\ ForgetCode
  /\ UNCHANGED <<recovering, prepared, attempts, got>>

ResetForNewLogin == attempts' = 0 /\ ForgetCode

\* loginFlowRestarted: honoured after a login that completed.
LoginFlowRestarted ==
  /\ pc = "step"
  /\ IF goal = "extract"
     THEN /\ goal' = "login" /\ got' = 0
          /\ ResetForNewLogin
          /\ PrepareFirst("arm", "login")
     ELSE /\ pc' = "login"
          /\ UNCHANGED <<goal, got, cached, consumed, filled, attempts, then>>
  /\ Local /\ UNCHANGED <<recovering, prepared>>

\* waitForOtp without evidence, or with an unused code at hand.
WaitRefused ==
  /\ pc = "step"
  /\ pc' = "idle"
  /\ Local /\ UNCHANGED <<then, recovering, goal, otpVars, got>>

\* Mutant: one attempt more.
MayRequestOnceMore == attempts <= MaxAttempts /\ ~(cached # NoCode /\ consumed)

\* The two checks that abort the crawl "to prevent account lockout".
MayRequest == attempts < MaxAttempts /\ ~(cached # NoCode /\ consumed)

\* The waitForOtp step.  The recovery path prepares without writing the status.
RequestOtp ==
  /\ pc = "step"
  /\ cached = NoCode \/ consumed
  /\ attempts' = attempts + 1
  /\ \/ ~MayRequest /\ pc' = "done" /\ UNCHANGED then
     \/ MayRequest /\ prepared /\ pc' = "poll" /\ UNCHANGED then
     \/ MayRequest /\ ~prepared /\ pc' = (IF recovering THEN "prepare" ELSE "arm")
        /\ then' = "poll"
  /\ Local /\ UNCHANGED <<recovering, goal, prepared, cached, consumed, filled, got>>

\* Mutant: a resend gives the login its attempts back.
ResetForResendAttempts == attempts' = 0 /\ ForgetCode

ResetForResend == ForgetCode /\ UNCHANGED attempts

\* An action whose description asks the bank for a new code.
RequestResend ==
  /\ pc = "step"
  /\ ResetForResend
  /\ PrepareFirst("arm", "execute")
  /\ Local /\ UNCHANGED <<recovering, goal, prepared, got>>

Resend ==
  /\ pc = "execute"
  /\ ForgetCode
  /\ pc' = "idle"
  /\ Local /\ UNCHANGED <<then, recovering, goal, prepared, attempts, got>>

\* A fill of OTP_CODE, which needs a cached code.
FillOtp ==
  /\ pc = "step" /\ cached # NoCode
  /\ filled' = TRUE
  /\ pc' = "idle"
  /\ Local /\ UNCHANGED <<then, recovering, goal, prepared, cached, consumed,
                          attempts, got>>

\* Any other action; one described as OTP_CONFIRMED_FILLED uses the code up.
Act(confirmed) ==
  /\ pc = "step"
  /\ consumed' = (consumed \/ (confirmed /\ filled))
  /\ filled' = (filled /\ ~confirmed)
  /\ pc' = "idle"
  /\ Local /\ UNCHANGED <<then, recovering, goal, prepared, cached, attempts, got>>

\* The browser action fails: recoverFromActionError asks the model once.
ActionFails ==
  /\ pc \in {"step", "execute"}
  /\ pc' = IF recovering THEN "idle" ELSE "step"
  /\ recovering' = TRUE
  /\ Local /\ UNCHANGED <<then, goal, otpVars, got>>

\* complete, error, or CrawlCancelledError.
Stop ==
  /\ pc = "step" \/ (pc \notin {"done", "execute"} /\ ~Active)
  /\ pc' = "done"
  /\ Local /\ UNCHANGED <<then, recovering, goal, otpVars, got>>

-----------------------------------------------------------------------------
(* The control plane: who supplies the code.                               *)

\* armOtpRelayEpisode reads the session (the request names nothing else).
WakeArrives ==
  /\ posts > 0
  /\ posts' = posts - 1
  /\ wakes' = IF requested /\ Active
              THEN wakes \cup {[epoch |-> epoch, mode |-> "none"]} ELSE wakes
  /\ UNCHANGED <<rowVars, agentVars, relay, worldVars, ghostVars>>

WakeLost ==
  /\ posts > 0
  /\ posts' = posts - 1
  /\ UNCHANGED <<rowVars, agentVars, wakes, relay, worldVars, ghostVars>>

\* otpRelayModeFor, over the phones authorized at that moment.
CountDevices(w) ==
  /\ w.mode = "none"
  /\ wakes' = (wakes \ {w}) \cup
              {[w EXCEPT !.mode = IF paired THEN "companion" ELSE "manual"]}
  /\ UNCHANGED <<rowVars, agentVars, posts, relay, worldVars, ghostVars>>

\* Mutant: the epoch is not part of the WHERE clause.
IsCurrentAny(e) == requested /\ Active

\* The WHERE clause of markOtpRelayMode.
IsCurrent(e) == requested /\ Active /\ epoch = e

MarkOtpRelayMode(w) ==
  /\ w.mode # "none"
  /\ wakes' = wakes \ {w}
  /\ IF IsCurrent(w.epoch) THEN mode' = w.mode /\ modeFor' = w.epoch
                           ELSE UNCHANGED <<mode, modeFor>>
  /\ UNCHANGED <<status, requested, epoch, ready, otp, key, agentVars, posts,
                 relay, worldVars, otpFor, cachedFor, taken, got>>

\* A phone without SMS access cannot clear another one's readiness.
ReadyAfter(smsPermission, isReady) == ready \/ (smsPermission /\ isReady)

\* markOtpRelayStatus: one transaction, under a lock of the row.
MarkOtpRelayStatus(smsPermission, isReady) ==
  /\ paired /\ requested /\ Active
  /\ ready' = ReadyAfter(smsPermission, isReady)
  /\ UNCHANGED <<status, requested, epoch, mode, otp, key, agentVars, serverVars,
                 worldVars, ghostVars>>

-----------------------------------------------------------------------------
(* The control plane: the requests that carry a code.                      *)

Goes(r, ok, step) ==
  relay' = [relay EXCEPT ![r] = IF ok THEN [@ EXCEPT !.step = step] ELSE NoRelay]

KeyOf(r) == <<relay[r].code, relay[r].epoch>>       \* otpSmsIdempotencyKey
Authorized(r) == relay[r].kind = "sms" => paired

\* The phone or the email watcher has a message and lists the armed sessions.
ListAwaiting(r, kind, c) ==
  /\ relay[r] = NoRelay
  /\ requested /\ Active /\ (kind = "sms" => paired)
  /\ relay' = [relay EXCEPT ![r] = [kind |-> kind, code |-> c, epoch |-> epoch,
                                    step |-> "post"]]
  /\ UNCHANGED <<rowVars, agentVars, posts, wakes, worldVars, ghostVars>>

\* submitOtpFromSms up to the call of the model.
SubmitOtpFromSms(r) ==
  /\ relay[r].step = "post"
  /\ Goes(r, /\ Authorized(r) /\ key # KeyOf(r)
             /\ status = "waiting_for_otp" /\ epoch = relay[r].epoch, "extract")
  /\ UNCHANGED <<rowVars, agentVars, posts, wakes, worldVars, ghostVars>>

\* The model answers; then submitOtp's select.
Extracted(r, found) ==
  /\ relay[r].step = "extract"
  /\ Goes(r, /\ found /\ Authorized(r) /\ key # KeyOf(r)
             /\ status = "waiting_for_otp", "write")
  /\ UNCHANGED <<rowVars, agentVars, posts, wakes, worldVars, ghostVars>>

\* The operator types a code: submitOtp's select.  The console's idempotency
\* key is a fresh UUID for each entry; NoKey stands for it, since neither equals
\* the key of any relay.
OperatorSubmits(r, c) ==
  /\ relay[r] = NoRelay
  /\ status = "waiting_for_otp"
  /\ relay' = [relay EXCEPT ![r] = [kind |-> "operator", code |-> c, epoch |-> 0,
                                    step |-> "write"]]
  /\ UNCHANGED <<rowVars, agentVars, posts, wakes, worldVars, ghostVars>>

\* submitOtp's update, conditional on the status alone.
SubmitOtp(r) ==
  /\ relay[r].step = "write"
  /\ IF status = "waiting_for_otp"
     THEN /\ otp' = relay[r].code
          /\ otpFor' = relay[r].epoch
          /\ key' = IF relay[r].kind = "operator" THEN NoKey ELSE KeyOf(r)
     ELSE UNCHANGED <<otp, otpFor, key>>
  /\ relay' = [relay EXCEPT ![r] = NoRelay]
  /\ UNCHANGED <<status, requested, epoch, ready, mode, agentVars, posts, wakes,
                 worldVars, modeFor, cachedFor, taken, got>>

-----------------------------------------------------------------------------
(* The surroundings.                                                       *)

BankSendsCode ==
  /\ issued < MaxCodes
  /\ issued' = issued + 1
  /\ UNCHANGED <<rowVars, agentVars, serverVars, paired, ghostVars>>

\* Pairing or revoking; lockActiveDevice holds a revocation back.
PairingChanges ==
  /\ ~ \E r \in Relays : relay[r].kind = "sms" /\ relay[r].step = "write"
  /\ paired' = ~paired
  /\ UNCHANGED <<rowVars, agentVars, serverVars, issued, ghostVars>>

\* Cancellation, the reaper, or the crawl's own outcome.
SessionEnds ==
  /\ Active
  /\ status' = "ended"
  /\ UNCHANGED <<requested, epoch, ready, mode, otp, key, agentVars, serverVars,
                 worldVars, ghostVars>>

Agent ==
  \/ Start \/ LoggingIn \/ NextStep \/ Arm \/ Prepare \/ Confirm \/ ConfirmTimeout
  \/ WaitForOtp \/ ClaimOtp \/ PollTimeout \/ LoginComplete \/ LoginFlowRestarted
  \/ WaitRefused \/ RequestOtp \/ RequestResend \/ Resend \/ FillOtp
  \/ \E confirmed \in BOOLEAN : Act(confirmed)
  \/ ActionFails \/ Stop

Server ==
  \/ WakeArrives \/ WakeLost
  \/ \E w \in wakes : CountDevices(w) \/ MarkOtpRelayMode(w)
  \/ \E p, q \in BOOLEAN : MarkOtpRelayStatus(p, q)
  \/ \E r \in Relays :
       \/ \E kind \in {"sms", "email"}, c \in 1..issued : ListAwaiting(r, kind, c)
       \/ SubmitOtpFromSms(r)
       \/ \E found \in BOOLEAN : Extracted(r, found)
       \/ \E c \in 1..issued : OperatorSubmits(r, c)
       \/ SubmitOtp(r)

Next == Agent \/ Server \/ BankSendsCode \/ PairingChanges \/ SessionEnds

Spec == Init /\ [][Next]_vars

-----------------------------------------------------------------------------
(* What the handshake promises.                                            *)

\* The agent's relayPrepared is true to the row: it waits for a code only
\* while an episode is open (so that the phones see the session and may answer),
\* and prepare never finds an episode already open.
PreparedIsArmed ==
  pc # "done" => /\ requested <=> (prepared \/ pc = "confirm")
                 /\ pc \in {"poll", "polling"} => requested
                 /\ pc \in {"arm", "prepare"} => ~requested

\* One episode yields at most one code: the codes claimed so far are the
\* episodes opened, less the one that is open.
OneCodePerEpisode == epoch = taken + (IF requested THEN 1 ELSE 0)

\* The code the agent would type was claimed in the latest episode: a resend or
\* a restarted login, which opens the next one, leaves no older code behind.
CachedIsLatest == cached # NoCode => cachedFor = epoch

\* Between two (re)starts of the login at most MaxAttempts codes are
\* obtained, however many resends lie between: another wrong code may lock the
\* account.
LockoutBound == got <= MaxAttempts

\* A recorded mode was decided for the episode it is read in: a wake-up that was
\* in flight when its episode closed does not decide the next one.
ModeIsCurrent == mode # "none" => modeFor = epoch

\* submitOtp's comment: no change of state between the read and the write lets a
\* stale code in.  A relayed code that the engine claims was relayed for the
\* episode that is open.
\* TLC refutes this: see "Known disagreements" in the README.
NoStaleCode ==
  [][otp # NoCode /\ otp' = NoCode => otpFor \in {0, epoch}]_vars

\* What the agent and the row hold belongs to the episode that is open: the code
\* it would type, the mode it reads, and its own idea of being armed.
EpisodeIsCurrent == PreparedIsArmed /\ CachedIsLatest /\ ModeIsCurrent
=============================================================================
