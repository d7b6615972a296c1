------------------------------ MODULE TxStore ------------------------------
(***************************************************************************)
(* From an extracted batch of transactions to the stored rows of one       *)
(* connection: the update targets sent with a crawl, transaction identity, *)
(* promotion (in one transaction on PostgreSQL; planned and then committed *)
(* on the document store), and the change cursor a consumer reads with.    *)
(*                                                                         *)
(* Ids are hashes of distinct preimages: here numbers, all different, with  *)
(* accounts, references and places in a batch as digits.                   *)
(* What a bank prints about a transaction never takes part in identity, so *)
(* an observation has no content but its references.                       *)
(***************************************************************************)
EXTENDS Naturals, FiniteSets, Sequences, SequencesExt, TLC

CONSTANTS IdBase,     \* the base of the digits of an id
          Accts,      \* provider accounts, digits; 0 is the unattributed account
          Refs,       \* references a bank prints, digits from 1
          MaxCrawls,  \* bound: crawls
          MaxBatch,   \* bound: transactions in a crawl
          Planners,   \* reconciliations planning at the same time
          Stores,     \* the kinds of store: "sql", "document" or both
          PageLimit

ASSUME TxAssumption ==
  /\ {IdBase, MaxCrawls, PageLimit} \subseteq Nat \ {0}
  /\ Accts \subseteq 0..(IdBase - 1) /\ Refs \subseteq 1..(IdBase - 1) /\ MaxBatch \in 1..(IdBase - 1)

VARIABLES
  tStore,   \* which kind of store this deployment has
  tCrawl,   \* the crawl: its number (the scope and the clock), step, targets sent, batch
  tRows,    \* the transactions rows
  tClaims,  \* the transaction_occurrences rows
  tGen,     \* the connection's active data generation
  tPlan,    \* plans computed and not yet committed
  tCons     \* a consumer: its cursor, and the row versions it has

txVars == <<tStore, tCrawl, tRows, tClaims, tGen, tPlan, tCons>>

None == 0
BankId(acct, ref) == IdBase * acct + ref
OccurrenceId(acct, scope, occ) == IdBase * (IdBase * scope + acct) + occ
Unsent == IdBase  \* a canonical id no crawl was sent
IsBankProvidedId(c) == c \in Refs

Row == [id : Nat, acct : Accts, canon : Nat, created : Nat, updated : Nat, src : Nat \X Nat]
Observation(canons) ==
  [acct : Accts, ref : Refs \cup {None}, upd : canons \cup {None}, old : {FALSE}]
    \cup [acct : Accts, ref : {None}, upd : {None}, old : {TRUE}]

NoPlan == [scope |-> 0, base |-> 0, rows |-> {}, claims |-> {}]

TxTypeOK ==
  /\ tStore \in Stores
  /\ tCrawl.n \in 0..MaxCrawls /\ tCrawl.st \in {"none", "running", "stored", "promoted"}
  /\ \A r \in tRows : r \in Row
  /\ \A c \in tClaims : c \in (1..MaxCrawls) \X (1..MaxBatch) \X Nat
  /\ tGen \in Nat
  /\ DOMAIN tPlan = Planners
  /\ \A v \in tCons.seen : v \in Nat \X Nat

TxInit ==
  /\ tStore \in Stores
  /\ tCrawl = [n |-> 0, st |-> "none", sent |-> {}, batch |-> <<>>]
  /\ tRows = {} /\ tClaims = {} /\ tGen = 0
  /\ tPlan = [p \in Planners |-> NoPlan]
  /\ tCons = [at |-> 0, id |-> 0, seen |-> {}]

----------------------------------------------------------------------------
(* A crawl is dispatched with the recent rows' canonical ids (whichever    *)
(* are within the window); the row each                                    *)
(* of them names stays on this side.  It returns a batch.                  *)

StartCrawl ==
  /\ tCrawl.st \in {"none", "promoted"} /\ tCrawl.n < MaxCrawls
  /\ \E recent \in SUBSET tRows :
       tCrawl' = [n |-> tCrawl.n + 1, st |-> "running", batch |-> <<>>,
                  sent |-> {[acct |-> r.acct, canon |-> r.canon, id |-> r.id] : r \in recent}]
  /\ UNCHANGED <<tStore, tRows, tClaims, tGen, tPlan, tCons>>

ReturnBatch ==
  /\ tCrawl.st = "running" /\ tCrawl.batch = <<>>
  /\ \E k \in 1..MaxBatch :
       \E b \in [1..k -> Observation({t.canon : t \in tCrawl.sent} \cup {Unsent})] :
         tCrawl' = [tCrawl EXCEPT !.batch = [i \in 1..k |->
           [occ |-> i, acct |-> b[i].acct, ref |-> b[i].ref, upd |-> b[i].upd, old |-> b[i].old]]]
  /\ UNCHANGED <<tStore, tRows, tClaims, tGen, tPlan, tCons>>

----------------------------------------------------------------------------
(* resolveAuthoritativeTransactionUpdateTargets                            *)

Key(o) == <<o.acct, o.upd>>
Targets(o) == {t.id : t \in {u \in tCrawl.sent : u.acct = o.acct /\ u.canon = o.upd}}
RowOf(rows, id) == CHOOSE r \in rows : r.id = id
Has(rows, id) == \E r \in rows : r.id = id

\* The one row this update may change, if its claim is unique and was sent.
Resolves(batch, rows, o) ==
  /\ o.upd # None
  /\ \A k \in 1..Len(batch) : batch[k] # o => Key(batch[k]) # Key(o)
  /\ \E id \in Targets(o) : Targets(o) = {id} /\ Has(rows, id) /\ RowOf(rows, id).acct = o.acct
Target(o) == CHOOSE id \in Targets(o) : TRUE

\* Dropped as well when another update resolves to the same row.
UpdateAccepted(batch, rows, o) ==
  /\ Resolves(batch, rows, o)
  /\ \A k \in 1..Len(batch) : batch[k] # o /\ Resolves(batch, rows, batch[k]) => Target(batch[k]) # Target(o)

----------------------------------------------------------------------------
(* One observation.  "first" are the rows the promotion began with.        *)

Owners(rows, acct, ref) == {r.id : r \in {q \in rows : q.acct = acct /\ q.canon = ref}}
Repeats(batch, o) == \E k \in 1..Len(batch) : batch[k] # o /\ batch[k].ref = o.ref /\ batch[k].acct = o.acct

ReferenceFreeUnlessStored(batch, first, rows, o, self) ==
  (Owners(first, o.acct, o.ref) \cup Owners(rows, o.acct, o.ref)) \subseteq self
\* A reference identifies a row only if the batch prints it once and no other
\* row has had it since the promotion began.
ReferenceFree(batch, first, rows, o, self) ==
  /\ ~Repeats(batch, o)
  /\ (Owners(first, o.acct, o.ref) \cup Owners(rows, o.acct, o.ref)) \subseteq self

KeepsReference(batch, first, rows, o) ==
  /\ IsBankProvidedId(o.ref)
  /\ ReferenceFree(batch, first, rows, o, IF o.upd = None THEN {} ELSE {Target(o)})
  /\ o.upd = None => ~Has(rows, BankId(o.acct, o.ref))

\* assignTransactionId
AssignTransactionId(batch, first, rows, o) ==
  IF o.upd # None THEN Target(o)
  ELSE IF KeepsReference(batch, first, rows, o) THEN BankId(o.acct, o.ref)
  ELSE OccurrenceId(o.acct, tCrawl.n, o.occ)

CanonicalField(batch, first, rows, o, id) ==
  IF KeepsReference(batch, first, rows, o) THEN o.ref
  ELSE IF o.upd # None THEN o.upd ELSE id

Claimed(claims, o) == \E c \in claims : c[1] = tCrawl.n /\ c[2] = o.occ
\* An occurrence promoted before is not applied again.
AlreadyPromoted(claims, o) == Claimed(claims, o)

Skipped(batch, first, claims, o) ==
  \/ AlreadyPromoted(claims, o)
  \/ o.upd # None /\ ~UpdateAccepted(batch, first, o)
  \/ o.upd = None /\ ~IsBankProvidedId(o.ref) /\ o.old  \* older than the storage floor

\* The upsert and the occurrence claim of one observation.
PromoteOne(batch, first, st, o) ==
  IF Skipped(batch, first, st.claims, o) THEN st
  ELSE LET id == AssignTransactionId(batch, first, st.rows, o)
           before == {r \in st.rows : r.id = id}
           created == IF before = {} THEN tCrawl.n ELSE RowOf(st.rows, id).created
           row == [id |-> id, acct |-> o.acct, created |-> created, updated |-> tCrawl.n,
                   canon |-> CanonicalField(batch, first, st.rows, o, id), src |-> <<tCrawl.n, o.occ>>]
       IN [rows |-> (st.rows \ before) \cup {row},
           claims |-> st.claims \cup {<<tCrawl.n, o.occ, id>>}]

\* The loop over the batch, in the order it was returned.
PromotionOf(batch) ==
  LET after[i \in 0..Len(batch)] ==
        IF i = 0 THEN [rows |-> tRows, claims |-> tClaims]
        ELSE PromoteOne(batch, tRows, after[i - 1], batch[i])
  IN after[Len(batch)]

----------------------------------------------------------------------------
(* PostgreSQL: one transaction; recovery may run it again on the same      *)
(* staged batch before the session is marked completed.                    *)

StoreCrawlResults ==
  /\ tStore = "sql" /\ tCrawl.st \in {"running", "stored"} /\ tCrawl.batch # <<>>
  /\ tCrawl' = [tCrawl EXCEPT !.st = "stored"]
  /\ tRows' = PromotionOf(tCrawl.batch).rows
  /\ tClaims' = PromotionOf(tCrawl.batch).claims
  /\ UNCHANGED <<tStore, tGen, tPlan, tCons>>

CompleteCrawl ==
  /\ tCrawl.st = "stored"
  /\ tCrawl' = [tCrawl EXCEPT !.st = "promoted"]
  /\ UNCHANGED <<tStore, tRows, tClaims, tGen, tPlan, tCons>>

----------------------------------------------------------------------------
(* The document store: a plan is computed from the active generation, and  *)
(* committed if that is still the active one.                              *)

PlanCrawlResults(p) ==
  /\ tStore = "document" /\ tCrawl.st = "running" /\ tCrawl.batch # <<>> /\ tPlan[p] = NoPlan
  /\ tPlan' = [tPlan EXCEPT ![p] = [scope |-> tCrawl.n, base |-> tGen, rows |-> PromotionOf(tCrawl.batch).rows,
                                    claims |-> PromotionOf(tCrawl.batch).claims]]
  /\ UNCHANGED <<tStore, tCrawl, tRows, tClaims, tGen, tCons>>

PromotionAlwaysReady(p) == TRUE
\* decidePromotionReadiness: this crawl is the active one, and the generation
\* its plan was computed from has not moved.
PromotionReady(p) == tCrawl.st = "running" /\ tPlan[p].scope = tCrawl.n /\ tPlan[p].base = tGen

PromotePlan(p) ==
  /\ tPlan[p] # NoPlan
  /\ IF PromotionReady(p)
     THEN /\ tRows' = tPlan[p].rows /\ tClaims' = tPlan[p].claims /\ tGen' = tGen + 1
          /\ tCrawl' = [tCrawl EXCEPT !.st = "promoted"]
     ELSE UNCHANGED <<tRows, tClaims, tGen, tCrawl>>
  /\ tPlan' = [tPlan EXCEPT ![p] = NoPlan]
  /\ UNCHANGED <<tStore, tCons>>

----------------------------------------------------------------------------
(* The change cursor: rows after (updatedAt, id), a page at a time.        *)

AfterCursor(r) == r.updated > tCons.at \/ (r.updated = tCons.at /\ r.id > tCons.id)

Before(r, s) == r.updated < s.updated \/ (r.updated = s.updated /\ r.id < s.id)

SyncPage ==
  LET rest == {r \in tRows : AfterCursor(r)}
      page == {r \in rest : Cardinality({s \in rest : Before(s, r)}) < PageLimit}
      last == CHOOSE r \in page : \A s \in page : s = r \/ Before(s, r)
  IN /\ rest # {}
     /\ tCons' = [at |-> last.updated, id |-> last.id,
                  seen |-> {v \in tCons.seen : \A r \in page : r.id # v[1]} \cup {<<r.id, r.updated>> : r \in page}]
     /\ UNCHANGED <<tStore, tCrawl, tRows, tClaims, tGen, tPlan>>

----------------------------------------------------------------------------

TxNext ==
  \/ StartCrawl \/ ReturnBatch \/ StoreCrawlResults \/ CompleteCrawl \/ SyncPage
  \/ \E p \in Planners : PlanCrawlResults(p) \/ PromotePlan(p)

TxSpec == TxInit /\ [][TxNext]_txVars

----------------------------------------------------------------------------

\* Two observations of one crawl never become one row, whatever references
\* they share.
ObservationsStayApart ==
  \A c, d \in tClaims : c[1] = d[1] /\ c[2] # d[2] => c[3] # d[3]

\* No two rows of an account carry the same bank reference.
ReferenceIsUnique ==
  \A r, s \in tRows : r.acct = s.acct /\ r.canon = s.canon /\ IsBankProvidedId(r.canon) => r.id = s.id

\* A stored row is rewritten only by the one observation that named it as its
\* update and was sent it, and no row disappears.
OnlyUpdatesOverwrite ==
  [][\A r \in tRows : \E s \in tRows' :
       /\ s.id = r.id
       /\ s = r \/ \E t \in tCrawl.sent : \E k \in 1..Len(tCrawl.batch) :
                     t.id = r.id /\ t.canon = tCrawl.batch[k].upd /\ t.acct = tCrawl.batch[k].acct]_txVars

\* The order in which a batch is returned does not decide which row gets which
\* reference.
OrderDoesNotMatter ==
  tCrawl.batch # <<>> /\ tCrawl.st = "running" => PromotionOf(tCrawl.batch) = PromotionOf(Reverse(tCrawl.batch))

\* Once a crawl's results are in, promoting them again (a retry, a recovery, a
\* plan from an older generation) changes nothing.
PromotedOnce ==
  [][tCrawl.st \in {"stored", "promoted"} => tRows' = tRows /\ tClaims' = tClaims]_txVars

\* A consumer that has read to the end has the current version of every row.
DrainedConsumerIsCurrent ==
  (\A r \in tRows : ~AfterCursor(r)) => tCons.seen = {<<r.id, r.updated>> : r \in tRows}

\* Movements keep their identity from the bank's statement to the consumer.
IdentityIsSound ==
  /\ TxTypeOK
  /\ ReferenceIsUnique /\ ObservationsStayApart /\ OrderDoesNotMatter
  /\ DrainedConsumerIsCurrent

\* Promoting a crawl adds its rows once and rewrites only what it was asked to.
PromotionIsSafe == OnlyUpdatesOverwrite /\ PromotedOnce
=============================================================================
