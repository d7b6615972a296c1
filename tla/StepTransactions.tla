--------------------------- MODULE StepTransactions --------------------------
(***************************************************************************)
(* How the rows the model reports are told apart within one crawl:         *)
(* transactionDedupKey, accumulateStepTransactions and                     *)
(* expandTransactionCounts (agent-loop.ts), called by the main path with   *)
(* the crawl's set of demoted references and by the recovery path without. *)
(*                                                                         *)
(* A movement stands for the fields that identify a row without a          *)
(* reference (account, date, amount, currency, description); fields that   *)
(* no identity looks at are left out.  The statement gives a movement its  *)
(* reference, which the bank may use again for another movement.           *)
(***************************************************************************)
EXTENDS Naturals, Sequences

CONSTANTS Movements,   \* rows of the statement
          References,  \* bank references
          MaxCount,    \* bound: the multiplicity a row claims
          MaxListed,   \* bound: rows in a step's report
          MaxReports   \* bound: steps that report rows

ASSUME ReportsAssumption == MaxCount \in Nat \ {0} /\ MaxListed \in Nat /\ MaxReports \in Nat

NONE == "NONE"

VARIABLES
  xRef,       \* the statement: the reference shown for each movement, or NONE
  xMap,       \* transactionMap
  xDemoted,   \* demotedIdKeys
  xReports,   \* steps so far
  xSeen       \* history: the movements reported so far

rowsVars == <<xRef, xMap, xDemoted, xReports, xSeen>>

Keys == ({"id"} \X References) \cup ({"fallback"} \X Movements)
Rows == [id : References \cup {NONE}, of : Movements, count : 1..MaxCount]
Absent == [id |-> NONE, of |-> "nothing", count |-> 0]

RowsTypeOK ==
  /\ xRef \in [Movements -> References \cup {NONE}]
  /\ xMap \in [Keys -> Rows \cup {Absent}]
  /\ xDemoted \subseteq References
  /\ xReports \in 0..MaxReports
  /\ xSeen \subseteq Movements

RowsInit ==
  /\ xRef \in [Movements -> References \cup {NONE}]
  /\ xMap = [k \in Keys |-> Absent]
  /\ xDemoted = {} /\ xReports = 0 /\ xSeen = {}

----------------------------------------------------------------------------

TransactionDedupKey(row) ==
  IF row.id = NONE THEN <<"fallback", row.of>> ELSE <<"id", row.id>>

Without(row) == [row EXCEPT !.id = NONE]

Largest(a, b) == IF a >= b THEN a ELSE b

\* The path of a row without an id.  A second listing in one batch is a
\* stutter and keeps the larger claim; one of an earlier step is replaced.
AddContent(acc, row) ==
  LET key == TransactionDedupKey(row)
  IN IF row.of \in acc.batch
     THEN [acc EXCEPT !.map[key] = [row EXCEPT !.count = Largest(@, acc.map[key].count)]]
     ELSE [acc EXCEPT !.map[key] = row, !.batch = @ \cup {row.of}]

\* Mutant: the latest row of a reference wins, whatever it was before.
AddRowLatestWins(acc, row) ==
  IF row.id = NONE \/ row.id \in acc.demoted THEN AddContent(acc, Without(row))
  ELSE [acc EXCEPT !.map[TransactionDedupKey(row)] = row]

\* A reference seen on two different rows is no identity: both rows lose it,
\* and the reference is remembered if the caller gave a set to remember it in.
AddRow(acc, row) ==
  LET key  == TransactionDedupKey(row)
      prev == acc.map[key]
  IN IF row.id = NONE THEN AddContent(acc, row)
     ELSE IF row.id \in acc.demoted THEN AddContent(acc, Without(row))
     ELSE IF prev = Absent \/ prev.of = row.of THEN [acc EXCEPT !.map[key] = row]
     ELSE AddContent(AddContent([acc EXCEPT !.map[key] = Absent,
                                            !.demoted = IF acc.remembers THEN @ \cup {row.id} ELSE @],
                                Without(prev)), Without(row))

\* The loop over one step's rows: what it has after the first i of them.
AccumulateStepTransactions(map, rows, demoted, remembers) ==
  LET after[i \in 0..Len(rows)] ==
        IF i = 0 THEN [map |-> map, batch |-> {}, demoted |-> demoted, remembers |-> remembers]
        ELSE AddRow(after[i - 1], rows[i])
  IN after[Len(rows)]

\* What the model may list of the statement: the reference as it is shown, and
\* a count only where there is no reference.
Listing ==
  {row \in Rows : row.id = xRef[row.of] /\ (row.id # NONE => row.count = 1)}

Batches == UNION {[1..k -> Listing] : k \in 1..MaxListed}

Report(rows, demoted, remembers) ==
  LET acc == AccumulateStepTransactions(xMap, rows, demoted, remembers)
  IN /\ xReports < MaxReports
     /\ xReports' = xReports + 1
     /\ xMap' = acc.map
     /\ xDemoted' = IF remembers THEN acc.demoted ELSE xDemoted
     /\ xSeen' = xSeen \cup {rows[i].of : i \in DOMAIN rows}
     /\ UNCHANGED xRef

\* agent-loop.ts passes the crawl's own set, which grows.
MainReports == \E rows \in Batches : Report(rows, xDemoted, TRUE)

\* error-recovery.ts passes none: nothing is known to be demoted, and what the
\* batch demotes is not remembered.
RecoveryReports == \E rows \in Batches : Report(rows, {}, FALSE)

RowsNext == MainReports \/ RecoveryReports

----------------------------------------------------------------------------

ExpandTransactionCounts(row) == IF row.count > 10 THEN 10 ELSE row.count

\* No movement of the statement that the model ever reported is lost before
\* the hand-off: "treating that reference as an identity makes last-wins
\* silently discard a real movement" is what demotion exists to prevent, on the
\* main path and in recovery.
NoMovementLost ==
  \A m \in xSeen : \E k \in Keys :
    xMap[k].of = m /\ ExpandTransactionCounts(xMap[k]) >= 1

\* accumulateStepTransactions: "Once a ref is demoted it stays demoted for the
\* whole crawl (a later step re-reporting one of its rows alone must not re-mint
\* the id identity)": no movement is handed off twice.
\* TLC refutes this: see "Known disagreements" in the README.
NoPhantomRow ==
  \A m \in Movements : xRef[m] # NONE =>
    ~(xMap[<<"id", xRef[m]>>].of = m /\ xMap[<<"fallback", m>>] # Absent)

\* Everything reported reaches the hand-off.
RowsAreKept == RowsTypeOK /\ NoMovementLost
=============================================================================
