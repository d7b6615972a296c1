---------------------------- MODULE TxStoreProofs ---------------------------
(***************************************************************************)
(* Transactions keep their identity, for any accounts and references, any  *)
(* number of crawls, rows of a batch and planners, and any size of a page. *)
(*                                                                         *)
(* A promotion is a loop over a batch in which each row looks at what the  *)
(* earlier ones wrote. After(P, M) says what the rows P of the batch M     *)
(* come to without the loop: an observation's fate depends on the rest of  *)
(* its batch and on the rows the promotion began with, and on nothing      *)
(* else. That is why the order does not matter, and why TxInv can say what *)
(* a batch that is about to be promoted, was stored, or was planned        *)
(* against an older generation still owes to the rows.                     *)
(***************************************************************************)
EXTENDS TxStore, FiniteSetTheorems, WellFoundedInduction, TLAPS

\* A set of numbers has a least element.
LEMMA LeastNat ==
  ASSUME NEW S, S \subseteq Nat, S # {}
  PROVE  \E x \in S : \A y \in S : x <= y
<1> DEFINE R == OpToRel(<, Nat)
<1>1. IsWellFoundedOn(R, Nat)
  BY NatLessThanWellFounded
<1>2. \A x, y \in Nat : <<y, x>> \in R <=> y < x
  BY DEF OpToRel
<1> HIDE DEF R
<1>3. \E x \in S : \A y \in S : ~(<<y, x>> \in R)
  BY <1>1, WFMin
<1>4. PICK x \in S : \A y \in S : ~(<<y, x>> \in R)
  BY <1>3
<1>5. ASSUME NEW y \in S PROVE x <= y
  <2>1. x \in Nat /\ y \in Nat
    OBVIOUS
  <2>2. ~(y < x)
    BY <1>2, <1>4, <2>1
  <2> QED
    BY <2>1, <2>2
<1> QED
  BY <1>5

\* Induction over a set of numbers.
LEMMA AllNat ==
  ASSUME NEW S, 0 \in S, \A n \in Nat : n \in S => n + 1 \in S
  PROVE  Nat \subseteq S
<1> SUFFICES ASSUME Nat \ S # {} PROVE FALSE
  OBVIOUS
<1>1. PICK n \in Nat \ S : \A m \in Nat \ S : n <= m
  BY LeastNat
<1>2. n # 0
  OBVIOUS
<1>3. n - 1 \in Nat /\ n = (n - 1) + 1 /\ ~(n <= n - 1)
  BY <1>2
<1> QED
  BY <1>1, <1>3

\* A bounded set of numbers has a greatest element.
LEMMA GreatestNat ==
  ASSUME NEW S, S \subseteq Nat, S # {}, NEW b \in Nat, \A x \in S : x <= b
  PROVE  \E x \in S : \A y \in S : y <= x
<1> DEFINE D == {b - x : x \in S}
<1>1. D \subseteq Nat /\ D # {}
  <2>1. \A x \in S : x \in Nat /\ x <= b
    OBVIOUS
  <2>2. \A x \in S : b - x \in Nat
    BY <2>1
  <2> QED
    BY <2>2
<1>2. PICK d \in D : \A e \in D : d <= e
  BY <1>1, LeastNat
<1>3. PICK x \in S : d = b - x
  BY <1>2
<1>4. ASSUME NEW y \in S PROVE y <= x
  <2>1. b - x <= b - y
    BY <1>2, <1>3
  <2>2. x \in Nat /\ y \in Nat
    OBVIOUS
  <2> QED
    BY <2>1, <2>2
<1> QED
  BY <1>4

-----------------------------------------------------------------------------
\* What an observation comes to depends on the others of its batch, not on
\* their order: the definitions of TxStore over the set M of a batch.
Members(batch) == {batch[i] : i \in 1..Len(batch)}

ResolvesIn(M, o) ==
  /\ o.upd # None
  /\ \A q \in M : q # o => Key(q) # Key(o)
  /\ \E id \in Targets(o) : Targets(o) = {id}
AcceptedIn(M, o) ==
  ResolvesIn(M, o) /\ \A q \in M : q # o /\ ResolvesIn(M, q) => Target(q) # Target(o)
Alone(M, o) == \A q \in M : q # o => ~(q.ref = o.ref /\ q.acct = o.acct)
Self(o) == IF o.upd = None THEN {} ELSE {Target(o)}
KeepsIn(M, o) ==
  /\ IsBankProvidedId(o.ref) /\ Alone(M, o) /\ Owners(tRows, o.acct, o.ref) \subseteq Self(o)
  /\ o.upd = None => ~Has(tRows, BankId(o.acct, o.ref))
IdIn(M, o) ==
  IF o.upd # None THEN Target(o)
  ELSE IF KeepsIn(M, o) THEN BankId(o.acct, o.ref) ELSE OccurrenceId(o.acct, tCrawl.n, o.occ)
CanonIn(M, o) == IF KeepsIn(M, o) THEN o.ref ELSE IF o.upd # None THEN o.upd ELSE IdIn(M, o)
AppliesIn(M, o) == IF o.upd # None THEN AcceptedIn(M, o) ELSE IsBankProvidedId(o.ref) \/ ~o.old
Applied(P, M) == {o \in P : AppliesIn(M, o)}
RowIn(M, o) ==
  [id |-> IdIn(M, o), acct |-> o.acct, canon |-> CanonIn(M, o), updated |-> tCrawl.n,
   created |-> IF Has(tRows, IdIn(M, o)) THEN RowOf(tRows, IdIn(M, o)).created ELSE tCrawl.n,
   src |-> <<tCrawl.n, o.occ>>]

\* What the rows P of the batch M make of the store.
RowsAfter(P, M) ==
  {r \in tRows : \A o \in Applied(P, M) : r.id # IdIn(M, o)} \cup {RowIn(M, o) : o \in Applied(P, M)}
ClaimsAfter(P, M) == tClaims \cup {<<tCrawl.n, o.occ, IdIn(M, o)>> : o \in Applied(P, M)}
After(P, M) == [rows |-> RowsAfter(P, M), claims |-> ClaimsAfter(P, M)]

Observed == [occ : 1..MaxBatch, acct : Accts, ref : Refs \cup {None}, upd : Nat, old : BOOLEAN]
Sent == [acct : Accts, canon : Nat, id : Nat]
Claims == (1..MaxCrawls) \X (1..MaxBatch) \X Nat
OneEach(M) == \A o, q \in M : o.occ = q.occ => o = q
Numbered(batch) == \A i, j \in 1..Len(batch) : batch[i].occ = batch[j].occ => i = j

\* The ids of the crawls up to the m-th are below this number.
IdsUpTo(m) == IdBase * (IdBase * (m + 1))

\* Rows written by the crawls up to the m-th.
RowsAreOf(rows, m) ==
  /\ rows \subseteq Row
  /\ \A r, s \in rows : r.id = s.id => r = s
  /\ \A r \in rows : r.id < IdsUpTo(m) /\ r.updated <= m
  /\ \A r, s \in rows : r.acct = s.acct /\ r.canon = s.canon /\ IsBankProvidedId(r.canon) => r.id = s.id
ClaimsAreOf(claims, m) ==
  /\ claims \subseteq Claims
  /\ \A c \in claims : c[1] <= m
  /\ \A c, d \in claims : c[1] = d[1] /\ c[2] # d[2] => c[3] # d[3]

\* What was sent names rows of the account it was sent for.
SentStands == \A t \in tCrawl.sent : \E r \in tRows : r.id = t.id /\ r.acct = t.acct
\* A batch that is about to be promoted: what was sent is still as it was.
Fresh(M) ==
  /\ tCrawl.n \in 1..MaxCrawls /\ tCrawl.sent \subseteq Sent /\ M \subseteq Observed /\ OneEach(M)
  /\ RowsAreOf(tRows, tCrawl.n - 1) /\ ClaimsAreOf(tClaims, tCrawl.n - 1)
  /\ \A t \in tCrawl.sent : \E r \in tRows : r.id = t.id /\ r.acct = t.acct /\ r.canon = t.canon

\* What a promotion makes of the rows and claims.
Outcome(rows, claims) ==
  /\ RowsAreOf(rows, tCrawl.n) /\ ClaimsAreOf(claims, tCrawl.n)
  /\ \A r \in tRows : \E s \in rows :
       /\ s.id = r.id /\ s.acct = r.acct
       /\ s = r \/ \E t \in tCrawl.sent : \E k \in 1..Len(tCrawl.batch) :
                     t.id = r.id /\ t.canon = tCrawl.batch[k].upd /\ t.acct = tCrawl.batch[k].acct
  /\ \A s \in rows : s \in tRows \/ s.updated = tCrawl.n

\* The crawls whose rows are in.
Done == IF tCrawl.st = "running" THEN tCrawl.n - 1 ELSE tCrawl.n

Batches == {<<>>} \cup UNION {[1..k -> Observed] : k \in 1..MaxBatch}
CrawlRecords == [n : 0..MaxCrawls, st : {"none", "running", "stored", "promoted"}, sent : SUBSET Sent, batch : Batches]
Plans == [scope : 0..MaxCrawls, base : Nat, rows : SUBSET Row, claims : SUBSET Claims]

PlanFits(p) ==
  /\ tPlan[p].scope <= tCrawl.n /\ tPlan[p].base <= tGen
  /\ PromotionReady(p) => tCrawl.batch # <<>> /\ Outcome(tPlan[p].rows, tPlan[p].claims)

ConsumerFits ==
  /\ tCons \in [at : Nat, id : Nat, seen : SUBSET (Nat \X Nat)]
  /\ tCons.at <= Done
  /\ \A v \in tCons.seen : \E r \in tRows : r.id = v[1] /\ (v[2] = r.updated \/ AfterCursor(r))
  /\ \A r \in tRows : ~AfterCursor(r) => <<r.id, r.updated>> \in tCons.seen

TxTypes ==
  /\ tStore \in Stores /\ tCrawl \in CrawlRecords /\ tGen \in Nat /\ tPlan \in [Planners -> Plans]
  /\ Numbered(tCrawl.batch)

TxInv ==
  /\ TxTypes /\ RowsAreOf(tRows, Done) /\ ClaimsAreOf(tClaims, Done) /\ SentStands /\ ConsumerFits
  /\ tCrawl.st = "running" =>
       tCrawl.n >= 1 /\ \A t \in tCrawl.sent : \E r \in tRows : r.id = t.id /\ r.acct = t.acct /\ r.canon = t.canon
  /\ tCrawl.st = "stored" =>
       \A o \in Members(tCrawl.batch) : Claimed(tClaims, o) \/ ~AppliesIn(Members(tCrawl.batch), o)
  /\ \A p \in Planners : PlanFits(p)

-----------------------------------------------------------------------------
(* Numbers, rows and targets.                                              *)

\* The constants are numbers.
LEMMA TxNumbers ==
  /\ Accts \subseteq Nat /\ Refs \subseteq Nat /\ None \notin Refs /\ IdBase \in Nat \ {0}
  /\ MaxBatch \in Nat /\ MaxCrawls \in Nat \ {0} /\ PageLimit \in Nat \ {0}
BY TxAssumption DEF None

\* Two digits make different numbers of different numbers.
LEMMA ShiftsApart ==
  ASSUME NEW x \in Nat, NEW y \in Nat, x < y
  PROVE  IdBase * x + IdBase <= IdBase * y
<1>1. PICK d \in Nat : y = x + 1 + d
  <2>1. y - x - 1 \in Nat /\ y = x + 1 + (y - x - 1)
    OBVIOUS
  <2> QED
    BY <2>1
<1>2. IdBase \in Nat
  BY TxNumbers
<1>3. IdBase * (x + 1 + d) = IdBase * x + IdBase + IdBase * d
  BY <1>2
<1>4. IdBase * d \in Nat /\ IdBase * x \in Nat
  BY <1>2
<1> DEFINE u == IdBase * x
           v == IdBase * d
           w == IdBase * y
<1>5. w = u + IdBase + v /\ u \in Nat /\ v \in Nat
  BY <1>1, <1>3, <1>4
<1> HIDE DEF u, v, w
<1>6. u + IdBase <= w
  BY <1>2, <1>5
<1> QED
  BY <1>6 DEF u, w

LEMMA DigitsApart ==
  ASSUME NEW x \in Nat, NEW y \in Nat, NEW i \in 0..(IdBase - 1), NEW j \in 0..(IdBase - 1),
         IdBase * x + i = IdBase * y + j
  PROVE  x = y /\ i = j
<1> DEFINE u == IdBase * x
           v == IdBase * y
<1>1. IdBase \in Nat
  BY TxNumbers
<1>2. u \in Nat /\ v \in Nat
  BY <1>1
<1>3. (x < y => u + IdBase <= v) /\ (y < x => v + IdBase <= u)
  BY ShiftsApart
<1>4. (x = y => u = v) /\ u + i = v + j
  OBVIOUS
<1> HIDE DEF u, v
<1>5. ~(x < y) /\ ~(y < x)
  BY <1>1, <1>2, <1>3, <1>4
<1>6. x = y
  BY <1>5
<1> QED
  BY <1>2, <1>4, <1>6

LEMMA IdsGrow ==
  /\ \A m \in Nat : IdsUpTo(m) \in Nat
  /\ \A m, n \in Nat : m <= n => IdsUpTo(m) <= IdsUpTo(n)
  /\ \A x \in Refs : x < IdsUpTo(0)
<1>1. IdBase \in Nat /\ IdBase >= 1
  BY TxNumbers
<1>2. \A m \in Nat : IdBase * m \in Nat /\ IdsUpTo(m) \in Nat
  BY <1>1 DEF IdsUpTo
<1>3. ASSUME NEW m \in Nat, NEW n \in Nat, m <= n PROVE IdsUpTo(m) <= IdsUpTo(n)
  <2>1. CASE m = n
    BY <1>2, <2>1
  <2>2. CASE m # n
    <3>1. m + 1 < n + 1 /\ m + 1 \in Nat /\ n + 1 \in Nat
      BY <1>3, <2>2
    <3> DEFINE u == IdBase * (m + 1)
               v == IdBase * (n + 1)
    <3>2. u + IdBase <= v /\ u \in Nat /\ v \in Nat
      BY <1>2, <3>1, ShiftsApart
    <3> HIDE DEF u, v
    <3>3. u < v
      BY <1>1, <3>2
    <3> DEFINE x == IdBase * u
               y == IdBase * v
    <3>4. x + IdBase <= y /\ x \in Nat /\ y \in Nat
      BY <1>2, <3>2, <3>3, ShiftsApart
    <3> HIDE DEF x, y
    <3>5. x <= y
      BY <1>1, <3>4
    <3> QED
      BY <3>5 DEF IdsUpTo, x, y, u, v
  <2> QED
    BY <2>1, <2>2
<1>4. \A x \in Refs : x \in Nat /\ x < IdBase
  BY <1>1, TxAssumption
<1>5. IdBase <= IdsUpTo(0)
  <2>1. IdBase * 0 + IdBase <= IdBase * IdBase
    BY <1>1, ShiftsApart
  <2>2. IdBase * 0 = 0 /\ IdBase * (0 + 1) = IdBase
    BY <1>1
  <2>3. IdsUpTo(0) = IdBase * IdBase
    BY <2>2 DEF IdsUpTo
  <2> DEFINE u == IdBase * IdBase
             z == IdBase * 0
  <2> HIDE DEF u, z
  <2>4. z + IdBase <= u /\ z = 0
    BY <2>1, <2>2 DEF u, z
  <2> QED
    BY <1>1, <2>3, <2>4 DEF u
<1>6. \A x \in Refs : x < IdsUpTo(0)
  <2> DEFINE b == IdsUpTo(0)
  <2>1. b \in Nat /\ IdBase <= b
    BY <1>2, <1>5
  <2> HIDE DEF b
  <2>2. \A x \in Refs : x < b
    BY <1>1, <1>4, <2>1
  <2> QED
    BY <2>2 DEF b
<1> QED
  BY <1>2, <1>3, <1>6

\* What the ids of the model stand for: different numbers, by their digits.
LEMMA BankIdFits ==
  ASSUME NEW a \in Accts, NEW x \in Refs
  PROVE  BankId(a, x) \in Nat /\ BankId(a, x) < IdsUpTo(0)
<1>1. IdBase \in Nat /\ IdBase >= 1
  BY TxNumbers
<1>2. a \in Nat /\ a < IdBase /\ x \in Nat /\ x < IdBase
  BY <1>1, TxAssumption
<1> DEFINE u == IdBase * a
           w == IdBase * IdBase
<1>3. u \in Nat /\ u + IdBase <= w /\ w \in Nat
  BY <1>1, <1>2, ShiftsApart
<1>4. IdsUpTo(0) = w
  <2>1. IdBase * (0 + 1) = IdBase
    BY <1>1
  <2> QED
    BY <2>1 DEF IdsUpTo
<1>5. BankId(a, x) = u + x
  BY DEF BankId
<1> HIDE DEF u, w
<1> QED
  BY <1>1, <1>2, <1>3, <1>4, <1>5

LEMMA BankIdsApart ==
  ASSUME NEW a \in Accts, NEW b \in Accts, NEW x \in Refs, NEW y \in Refs, BankId(a, x) = BankId(b, y)
  PROVE  a = b /\ x = y
<1>1. a \in Nat /\ b \in Nat /\ x \in 0..(IdBase - 1) /\ y \in 0..(IdBase - 1)
  BY TxNumbers, TxAssumption
<1>2. IdBase * a + x = IdBase * b + y
  BY DEF BankId
<1> QED
  BY <1>1, <1>2, DigitsApart

LEMMA OccurrenceIdFits ==
  ASSUME NEW a \in Accts, NEW n \in Nat \ {0}, NEW k \in 1..MaxBatch
  PROVE  /\ OccurrenceId(a, n, k) \in Nat
         /\ IdsUpTo(n - 1) <= OccurrenceId(a, n, k) /\ OccurrenceId(a, n, k) < IdsUpTo(n)
<1>1. IdBase \in Nat /\ IdBase >= 1
  BY TxNumbers
<1>2. a \in Nat /\ a < IdBase /\ k \in Nat /\ k < IdBase
  BY <1>1, TxAssumption
<1> DEFINE p == IdBase * n
           q == IdBase * (n + 1)
<1>3. p \in Nat /\ q \in Nat /\ p + IdBase <= q
  <2>1. n < n + 1 /\ n + 1 \in Nat
    OBVIOUS
  <2> QED
    BY <1>1, <2>1, ShiftsApart
<1>4. IdsUpTo(n - 1) = IdBase * p /\ IdsUpTo(n) = IdBase * q
  <2>1. (n - 1) + 1 = n
    OBVIOUS
  <2> QED
    BY <2>1 DEF IdsUpTo
<1>5. OccurrenceId(a, n, k) = IdBase * (p + a) + k
  BY DEF OccurrenceId
<1> HIDE DEF p, q
<1>6. p + a \in Nat /\ p + a < q /\ (p < p + a \/ p = p + a)
  BY <1>1, <1>2, <1>3
<1> DEFINE u == IdBase * p
           v == IdBase * (p + a)
           w == IdBase * q
<1>7. u \in Nat /\ v \in Nat /\ w \in Nat
  BY <1>1, <1>3, <1>6
<1>8. v + IdBase <= w
  BY <1>3, <1>6, ShiftsApart
<1>9. u = v \/ u + IdBase <= v
  <2>1. CASE p = p + a
    BY <2>1
  <2>2. CASE p < p + a
    BY <1>3, <1>6, <2>2, ShiftsApart
  <2> QED
    BY <1>6, <2>1, <2>2
<1> HIDE DEF u, v, w
<1>10. v + k \in Nat /\ u <= v + k /\ v + k < w
  BY <1>1, <1>2, <1>7, <1>8, <1>9
<1> QED
  BY <1>4, <1>5, <1>10 DEF u, v, w

LEMMA OccurrenceIdsApart ==
  ASSUME NEW a \in Accts, NEW b \in Accts, NEW n \in Nat, NEW j \in 1..MaxBatch, NEW k \in 1..MaxBatch,
         OccurrenceId(a, n, j) = OccurrenceId(b, n, k)
  PROVE  j = k
<1>1. IdBase \in Nat /\ a \in Nat /\ b \in Nat /\ j \in 0..(IdBase - 1) /\ k \in 0..(IdBase - 1)
  BY TxNumbers, TxAssumption
<1>2. IdBase * n \in Nat
  BY <1>1
<1> DEFINE x == IdBase * n + a
           y == IdBase * n + b
<1>3. x \in Nat /\ y \in Nat
  BY <1>1, <1>2
<1>4. IdBase * x + j = IdBase * y + k
  BY DEF OccurrenceId
<1> HIDE DEF x, y
<1> QED
  BY <1>1, <1>3, <1>4, DigitsApart

\* A row is found by its id.
LEMMA RowOfIs ==
  ASSUME NEW rows, \A r, s \in rows : r.id = s.id => r = s, NEW r \in rows
  PROVE  Has(rows, r.id) /\ RowOf(rows, r.id) = r
<1>1. \E s \in rows : s.id = r.id
  OBVIOUS
<1>2. RowOf(rows, r.id) \in rows /\ RowOf(rows, r.id).id = r.id
  BY <1>1 DEF RowOf
<1> QED
  BY <1>1, <1>2 DEF Has

\* An update that resolves names the one record that was sent for it.
LEMMA ResolvesTo ==
  ASSUME NEW M, NEW o, ResolvesIn(M, o)
  PROVE  /\ Targets(o) = {Target(o)}
         /\ \E t \in tCrawl.sent : t.acct = o.acct /\ t.canon = o.upd /\ t.id = Target(o)
<1>1. PICK id \in Targets(o) : Targets(o) = {id}
  BY DEF ResolvesIn
<1>2. Target(o) = id
  BY <1>1 DEF Target
<1>3. \E t \in tCrawl.sent : t.acct = o.acct /\ t.canon = o.upd /\ t.id = id
  BY <1>1 DEF Targets
<1> QED
  BY <1>1, <1>2, <1>3

\* Which update is accepted does not depend on the rows, as long as what was
\* sent is there.
LEMMA AcceptedIs ==
  ASSUME NEW rows, \A r, s \in rows : r.id = s.id => r = s,
         \A t \in tCrawl.sent : \E r \in rows : r.id = t.id /\ r.acct = t.acct,
         NEW batch, NEW o
  PROVE  UpdateAccepted(batch, rows, o) <=> AcceptedIn(Members(batch), o)
<1> DEFINE M == Members(batch)
<1>1. ASSUME NEW q PROVE Resolves(batch, rows, q) <=> ResolvesIn(M, q)
  <2>1. (\A k \in 1..Len(batch) : batch[k] # q => Key(batch[k]) # Key(q)) <=> \A x \in M : x # q => Key(x) # Key(q)
    BY DEF Members
  <2>2. ASSUME NEW id \in Targets(q) PROVE Has(rows, id) /\ RowOf(rows, id).acct = q.acct
    <3>1. PICK t \in tCrawl.sent : t.id = id /\ t.acct = q.acct
      BY <2>2 DEF Targets
    <3>2. PICK r \in rows : r.id = t.id /\ r.acct = t.acct
      OBVIOUS
    <3>3. Has(rows, r.id) /\ RowOf(rows, r.id) = r
      BY RowOfIs
    <3> QED
      BY <3>1, <3>2, <3>3
  <2>3. (\E id \in Targets(q) : Targets(q) = {id} /\ Has(rows, id) /\ RowOf(rows, id).acct = q.acct)
        <=> \E id \in Targets(q) : Targets(q) = {id}
    BY <2>2
  <2> HIDE DEF M
  <2> QED
    BY <2>1, <2>3 DEF Resolves, ResolvesIn
<1>2. (\A k \in 1..Len(batch) : batch[k] # o /\ Resolves(batch, rows, batch[k]) => Target(batch[k]) # Target(o))
      <=> \A q \in M : q # o /\ ResolvesIn(M, q) => Target(q) # Target(o)
  <2>1. \A k \in 1..Len(batch) : Resolves(batch, rows, batch[k]) <=> ResolvesIn(M, batch[k])
    BY <1>1
  <2> DEFINE N(x) == Resolves(batch, rows, x)
  <2>2. \A q \in M : N(q) <=> ResolvesIn(M, q)
    BY <1>1
  <2>3. (\A k \in 1..Len(batch) : batch[k] # o /\ N(batch[k]) => Target(batch[k]) # Target(o))
        <=> \A q \in M : q # o /\ N(q) => Target(q) # Target(o)
    <3> HIDE DEF N
    <3> QED
      BY DEF Members
  <2> HIDE DEF M
  <2> QED
    BY <2>2, <2>3
<1> HIDE DEF M
<1>3. UpdateAccepted(batch, rows, o) <=> AcceptedIn(M, o)
  BY <1>1, <1>2 DEF UpdateAccepted, AcceptedIn
<1> QED
  BY <1>3 DEF M

-----------------------------------------------------------------------------
(* A batch that is promoted for the first time.                            *)

\* An update that applies has the row that was sent; the others have no row.
LEMMA AppliedUpdate ==
  ASSUME NEW M, Fresh(M), NEW o \in M, AppliesIn(M, o), o.upd # None
  PROVE  \E r \in tRows : r.id = IdIn(M, o) /\ r.acct = o.acct /\ r.canon = o.upd
<1>1. PICK t \in tCrawl.sent : t.acct = o.acct /\ t.canon = o.upd /\ t.id = Target(o)
  BY ResolvesTo DEF AppliesIn, AcceptedIn
<1> QED
  BY <1>1 DEF Fresh, IdIn

\* What a new row is called is a number, and not the name of a stored row.
LEMMA NewIds ==
  ASSUME NEW M, Fresh(M), NEW o \in M, o.upd = None
  PROVE  /\ o.acct \in Accts /\ o.occ \in 1..MaxBatch /\ tCrawl.n \in Nat /\ tCrawl.n >= 1
         /\ KeepsIn(M, o) => o.ref \in Refs /\ IdIn(M, o) = BankId(o.acct, o.ref)
         /\ ~KeepsIn(M, o) => IdIn(M, o) = OccurrenceId(o.acct, tCrawl.n, o.occ)
         /\ IdIn(M, o) \in Nat /\ IdIn(M, o) < IdsUpTo(tCrawl.n)
         /\ KeepsIn(M, o) => IdIn(M, o) < IdsUpTo(0)
         /\ ~KeepsIn(M, o) => IdsUpTo(tCrawl.n - 1) <= IdIn(M, o)
<1>1. o.acct \in Accts /\ o.occ \in 1..MaxBatch /\ tCrawl.n \in Nat /\ tCrawl.n >= 1
  BY TxNumbers DEF Fresh, Observed
<1>2. KeepsIn(M, o) => o.ref \in Refs /\ IdIn(M, o) = BankId(o.acct, o.ref)
  BY DEF KeepsIn, IsBankProvidedId, IdIn
<1>3. ~KeepsIn(M, o) => IdIn(M, o) = OccurrenceId(o.acct, tCrawl.n, o.occ)
  BY DEF IdIn
<1>4. CASE KeepsIn(M, o)
  <2>1. BankId(o.acct, o.ref) \in Nat /\ BankId(o.acct, o.ref) < IdsUpTo(0)
    BY <1>1, <1>2, <1>4, BankIdFits
  <2> DEFINE id == BankId(o.acct, o.ref)
             b == IdsUpTo(tCrawl.n)
             z == IdsUpTo(0)
  <2>3. z \in Nat /\ b \in Nat /\ z <= b
    BY <1>1, IdsGrow
  <2> HIDE DEF id, b, z
  <2>2. id < b
    BY <2>1, <2>3 DEF id, z
  <2> QED
    BY <1>1, <1>2, <1>4, <2>1, <2>2 DEF id, b
<1>5. CASE ~KeepsIn(M, o)
  BY <1>1, <1>3, <1>5, OccurrenceIdFits
<1> QED
  BY <1>1, <1>2, <1>3, <1>4, <1>5

\* A new row has an id that no stored row has.
LEMMA AppliedNew ==
  ASSUME NEW M, Fresh(M), NEW o \in M, o.upd = None
  PROVE  ~Has(tRows, IdIn(M, o))
<1>1. CASE KeepsIn(M, o)
  BY <1>1, NewIds DEF KeepsIn
<1>2. CASE ~KeepsIn(M, o)
  <2> DEFINE id == IdIn(M, o)
  <2>1. id \in Nat /\ IdsUpTo(tCrawl.n - 1) <= id /\ tCrawl.n \in Nat
    BY <1>2, NewIds
  <2>2. \A r \in tRows : r.id \in Nat /\ r.id < IdsUpTo(tCrawl.n - 1)
    BY DEF Fresh, RowsAreOf, Row
  <2>4. IdsUpTo(tCrawl.n - 1) \in Nat
    BY <1>2, NewIds, IdsGrow
  <2> HIDE DEF id
  <2>3. \A r \in tRows : r.id # id
    BY <2>1, <2>2, <2>4
  <2> QED
    BY <2>3 DEF Has, id
<1> QED
  BY <1>1, <1>2

\* Two observations come to two rows.
LEMMA AppliedApart ==
  ASSUME NEW M, Fresh(M), NEW o \in M, NEW q \in M, o # q, AppliesIn(M, o), AppliesIn(M, q)
  PROVE  IdIn(M, o) # IdIn(M, q)
<1>1. CASE o.upd # None /\ q.upd # None
  BY <1>1 DEF AppliesIn, AcceptedIn, IdIn
<1>2. CASE o.upd # None /\ q.upd = None
  <2>1. PICK r \in tRows : r.id = IdIn(M, o)
    BY <1>2, AppliedUpdate
  <2> QED
    BY <1>2, <2>1, AppliedNew DEF Has
<1>3. CASE o.upd = None /\ q.upd # None
  <2>1. PICK r \in tRows : r.id = IdIn(M, q)
    BY <1>3, AppliedUpdate
  <2> QED
    BY <1>3, <2>1, AppliedNew DEF Has
<1>4. CASE o.upd = None /\ q.upd = None
  <2>1. ASSUME NEW x \in M, NEW y \in M, x # y, x.upd = None, y.upd = None, KeepsIn(M, x)
        PROVE  IdIn(M, x) # IdIn(M, y)
    <3>1. /\ x.acct \in Accts /\ x.ref \in Refs /\ IdIn(M, x) = BankId(x.acct, x.ref)
          /\ IdIn(M, x) \in Nat /\ IdIn(M, x) < IdsUpTo(0)
      BY <2>1, NewIds
    <3>2. ~(y.ref = x.ref /\ y.acct = x.acct)
      BY <2>1 DEF KeepsIn, Alone
    <3>3. CASE KeepsIn(M, y)
      <4>1. y.acct \in Accts /\ y.ref \in Refs /\ IdIn(M, y) = BankId(y.acct, y.ref)
        BY <2>1, <3>3, NewIds
      <4> QED
        BY <3>1, <3>2, <4>1, BankIdsApart
    <3>4. CASE ~KeepsIn(M, y)
      <4>1. IdsUpTo(tCrawl.n - 1) <= IdIn(M, y) /\ IdIn(M, y) \in Nat /\ tCrawl.n \in Nat /\ tCrawl.n >= 1
        BY <2>1, <3>4, NewIds
      <4> DEFINE a == IdIn(M, x)
                 b == IdIn(M, y)
                 z == IdsUpTo(0)
                 f == IdsUpTo(tCrawl.n - 1)
      <4>3. z \in Nat /\ f \in Nat /\ z <= f
        BY <4>1, IdsGrow
      <4> HIDE DEF a, b, z, f
      <4>2. a # b
        BY <3>1, <4>1, <4>3 DEF a, b, z, f
      <4> QED
        BY <4>2 DEF a, b
    <3> QED
      BY <3>3, <3>4
  <2>2. CASE KeepsIn(M, o)
    BY <1>4, <2>1, <2>2
  <2>3. CASE KeepsIn(M, q)
    BY <1>4, <2>1, <2>3
  <2>4. CASE ~KeepsIn(M, o) /\ ~KeepsIn(M, q)
    <3>1. /\ o.acct \in Accts /\ o.occ \in 1..MaxBatch /\ tCrawl.n \in Nat
          /\ IdIn(M, o) = OccurrenceId(o.acct, tCrawl.n, o.occ)
      BY <1>4, <2>4, NewIds
    <3>2. q.acct \in Accts /\ q.occ \in 1..MaxBatch /\ IdIn(M, q) = OccurrenceId(q.acct, tCrawl.n, q.occ)
      BY <1>4, <2>4, NewIds
    <3>3. o.occ # q.occ
      BY DEF Fresh, OneEach
    <3> QED
      BY <3>1, <3>2, <3>3, OccurrenceIdsApart
  <2> QED
    BY <2>2, <2>3, <2>4
<1> QED
  BY <1>1, <1>2, <1>3, <1>4

\* A bank reference on an applied row: one that is kept, or the one it had.
LEMMA CanonOfApplied ==
  ASSUME NEW M, Fresh(M), NEW o \in M, AppliesIn(M, o), CanonIn(M, o) \in Refs
  PROVE  \/ KeepsIn(M, o) /\ CanonIn(M, o) = o.ref
         \/ ~KeepsIn(M, o) /\ o.upd # None /\ CanonIn(M, o) = o.upd
<1>1. CASE KeepsIn(M, o)
  BY <1>1 DEF CanonIn
<1>2. CASE ~KeepsIn(M, o) /\ o.upd # None
  BY <1>2 DEF CanonIn
<1>3. CASE ~KeepsIn(M, o) /\ o.upd = None
  <2> DEFINE id == IdIn(M, o)
  <2>1. CanonIn(M, o) = id
    BY <1>3 DEF CanonIn
  <2>2. IdsUpTo(tCrawl.n - 1) <= id /\ id \in Nat /\ tCrawl.n \in Nat /\ tCrawl.n >= 1
    BY <1>3, NewIds
  <2> DEFINE z == IdsUpTo(0)
             f == IdsUpTo(tCrawl.n - 1)
  <2>3. id < z
    BY <2>1, IdsGrow
  <2>4. z \in Nat /\ f \in Nat /\ z <= f
    BY <2>2, IdsGrow
  <2> HIDE DEF id, z, f
  <2> QED
    BY <2>2, <2>3, <2>4 DEF f
<1> QED
  BY <1>1, <1>2, <1>3

\* The row that has a reference is the one it is printed for.
LEMMA CanonOwner ==
  ASSUME NEW M, Fresh(M), NEW o \in M, AppliesIn(M, o), CanonIn(M, o) \in Refs,
         NEW r \in tRows, r.acct = o.acct, r.canon = CanonIn(M, o)
  PROVE  r.id = IdIn(M, o)
<1>1. CASE KeepsIn(M, o)
  <2>1. r.id \in Owners(tRows, o.acct, o.ref)
    BY <1>1, CanonOfApplied DEF Owners
  <2>2. r.id \in Self(o)
    BY <1>1, <2>1 DEF KeepsIn
  <2> QED
    BY <2>2 DEF Self, IdIn
<1>2. CASE ~KeepsIn(M, o)
  <2>1. o.upd # None /\ CanonIn(M, o) = o.upd
    BY <1>2, CanonOfApplied
  <2>2. PICK s \in tRows : s.id = IdIn(M, o) /\ s.acct = o.acct /\ s.canon = o.upd
    BY <2>1, AppliedUpdate
  <2>3. IsBankProvidedId(r.canon)
    BY DEF IsBankProvidedId
  <2> QED
    BY <2>1, <2>2, <2>3 DEF Fresh, RowsAreOf
<1> QED
  BY <1>1, <1>2

\* Two applied rows of an account do not get the same bank reference.
LEMMA CanonsApart ==
  ASSUME NEW M, Fresh(M), NEW o \in M, NEW q \in M, o # q, AppliesIn(M, o), AppliesIn(M, q),
         o.acct = q.acct, CanonIn(M, o) = CanonIn(M, q), CanonIn(M, o) \in Refs
  PROVE  FALSE
<1>1. ASSUME NEW x \in M, NEW y \in M, x # y, AppliesIn(M, x), AppliesIn(M, y),
             x.acct = y.acct, CanonIn(M, x) = CanonIn(M, y), CanonIn(M, x) \in Refs, ~KeepsIn(M, y)
      PROVE  FALSE
  <2>1. y.upd # None /\ CanonIn(M, y) = y.upd
    BY <1>1, CanonOfApplied
  <2>2. PICK s \in tRows : s.id = IdIn(M, y) /\ s.acct = y.acct /\ s.canon = y.upd
    BY <1>1, <2>1, AppliedUpdate
  <2>3. s.id = IdIn(M, x)
    BY <1>1, <2>1, <2>2, CanonOwner
  <2> QED
    BY <1>1, <2>2, <2>3, AppliedApart
<1>2. CASE KeepsIn(M, o) /\ KeepsIn(M, q)
  BY <1>2, CanonOfApplied DEF KeepsIn, Alone
<1> QED
  BY <1>1, <1>2

-----------------------------------------------------------------------------
(* One observation of a batch.                                             *)

\* The rows before it do not change what an observation comes to.
LEMMA KeepsAlike ==
  ASSUME NEW batch, NEW M, M = Members(batch), Fresh(M), NEW P \in SUBSET M, NEW o \in M, o \notin P,
         AppliesIn(M, o)
  PROVE  KeepsReference(batch, tRows, RowsAfter(P, M), o) <=> KeepsIn(M, o)
<1> DEFINE rows == RowsAfter(P, M)
<1>1. \A q \in Applied(P, M) : q \in M /\ q # o /\ AppliesIn(M, q)
  BY DEF Applied
<1>2. ~Repeats(batch, o) <=> Alone(M, o)
  BY DEF Repeats, Alone, Members
<1>3. ASSUME KeepsIn(M, o) PROVE Owners(rows, o.acct, o.ref) \subseteq Self(o)
  <2>1. CanonIn(M, o) = o.ref /\ o.ref \in Refs
    BY <1>3 DEF CanonIn, KeepsIn, IsBankProvidedId
  <2>2. ASSUME NEW r \in rows, r.acct = o.acct, r.canon = o.ref PROVE r.id \in Self(o)
    <3>1. CASE r \in tRows
      <4>1. r.id \in Owners(tRows, o.acct, o.ref)
        BY <2>2, <3>1 DEF Owners
      <4> QED
        BY <1>3, <4>1 DEF KeepsIn
    <3>2. CASE r \in {RowIn(M, q) : q \in Applied(P, M)}
      <4>1. PICK q \in Applied(P, M) : r = RowIn(M, q)
        BY <3>2
      <4>2. r.acct = q.acct /\ r.canon = CanonIn(M, q)
        BY <4>1 DEF RowIn
      <4>3. FALSE
        BY <1>1, <2>1, <2>2, <4>2, CanonsApart, ZenonT(60)
      <4> QED
        BY <4>3
    <3> QED
      BY <3>1, <3>2 DEF RowsAfter
  <2> QED
    BY <2>2 DEF Owners
<1>4. ASSUME KeepsIn(M, o), o.upd = None, Has(rows, BankId(o.acct, o.ref)) PROVE FALSE
  <2>1. IdIn(M, o) = BankId(o.acct, o.ref)
    BY <1>4 DEF IdIn
  <2>2. PICK r \in rows : r.id = IdIn(M, o)
    BY <1>4, <2>1 DEF Has
  <2>3. CASE r \in tRows
    BY <1>4, <2>1, <2>2, <2>3, AppliedNew DEF Has
  <2>4. CASE r \in {RowIn(M, q) : q \in Applied(P, M)}
    <3>1. PICK q \in Applied(P, M) : r = RowIn(M, q)
      BY <2>4
    <3>2. r.id = IdIn(M, q)
      BY <3>1 DEF RowIn
    <3> QED
      BY <1>1, <2>2, <3>2, AppliedApart
  <2> QED
    BY <2>3, <2>4 DEF RowsAfter
<1>5. ASSUME NEW id, Has(tRows, id) PROVE Has(rows, id)
  <2>1. PICK r \in tRows : r.id = id
    BY <1>5 DEF Has
  <2>2. CASE \A q \in Applied(P, M) : r.id # IdIn(M, q)
    BY <2>1, <2>2 DEF RowsAfter, Has
  <2>3. CASE \E q \in Applied(P, M) : r.id = IdIn(M, q)
    <3>1. PICK q \in Applied(P, M) : r.id = IdIn(M, q)
      BY <2>3
    <3>2. RowIn(M, q) \in rows /\ RowIn(M, q).id = id
      BY <2>1, <3>1 DEF RowsAfter, RowIn
    <3> QED
      BY <3>2 DEF Has
  <2> QED
    BY <2>2, <2>3
<1> HIDE DEF rows
<1>6. KeepsReference(batch, tRows, rows, o) =
        ( /\ IsBankProvidedId(o.ref)
          /\ ~Repeats(batch, o)
          /\ (Owners(tRows, o.acct, o.ref) \cup Owners(rows, o.acct, o.ref)) \subseteq Self(o)
          /\ o.upd = None => ~Has(rows, BankId(o.acct, o.ref)) )
  BY DEF KeepsReference, ReferenceFree, Self
<1>7. KeepsReference(batch, tRows, rows, o) => KeepsIn(M, o)
  BY <1>2, <1>5, <1>6 DEF KeepsIn
<1>8. KeepsIn(M, o) => KeepsReference(batch, tRows, rows, o)
  BY <1>2, <1>3, <1>4, <1>6 DEF KeepsIn
<1> QED
  BY <1>7, <1>8 DEF rows

\* Before its turn the row of an observation is as the promotion found it.
LEMMA RowUntouched ==
  ASSUME NEW M, Fresh(M), NEW P \in SUBSET M, NEW o \in M, o \notin P, AppliesIn(M, o)
  PROVE  {r \in RowsAfter(P, M) : r.id = IdIn(M, o)} = {r \in tRows : r.id = IdIn(M, o)}
<1>1. \A q \in Applied(P, M) : q \in M /\ q # o /\ AppliesIn(M, q) /\ RowIn(M, q).id = IdIn(M, q)
  BY DEF Applied, RowIn
<1>2. \A q \in Applied(P, M) : IdIn(M, q) # IdIn(M, o)
  BY <1>1, AppliedApart
<1> QED
  BY <1>1, <1>2 DEF RowsAfter

\* An observation that is not skipped writes one row and one claim.
LEMMA PromoteOneWrites ==
  ASSUME NEW batch, NEW first, NEW st, NEW o, ~Skipped(batch, first, st.claims, o)
  PROVE  LET id == AssignTransactionId(batch, first, st.rows, o)
             mine == {r \in st.rows : r.id = id}
         IN PromoteOne(batch, first, st, o) =
              [rows |-> (st.rows \ mine) \cup
                          {[id |-> id, acct |-> o.acct,
                            created |-> IF mine = {} THEN tCrawl.n ELSE RowOf(st.rows, id).created,
                            updated |-> tCrawl.n, canon |-> CanonicalField(batch, first, st.rows, o, id),
                            src |-> <<tCrawl.n, o.occ>>]},
               claims |-> st.claims \cup {<<tCrawl.n, o.occ, id>>}]
BY DEF PromoteOne

\* One turn of the loop, whatever came before it.
LEMMA PromoteOneIs ==
  ASSUME NEW batch, NEW M, M = Members(batch), Fresh(M), NEW P \in SUBSET M, NEW o \in M, o \notin P
  PROVE  PromoteOne(batch, tRows, After(P, M), o) = After(P \cup {o}, M)
<1> DEFINE rows == RowsAfter(P, M)
           claims == ClaimsAfter(P, M)
           id == IdIn(M, o)
           mine == {r \in tRows : r.id = id}
<1>1. After(P, M).rows = rows /\ After(P, M).claims = claims
  BY DEF After
<1>2. ~AlreadyPromoted(claims, o)
  <2>1. \A c \in tClaims : c[1] # tCrawl.n
    <3>1. tCrawl.n \in Nat
      BY TxNumbers DEF Fresh
    <3>2. \A c \in tClaims : c[1] \in Nat /\ c[1] <= tCrawl.n - 1
      BY TxNumbers DEF Fresh, ClaimsAreOf, Claims
    <3> QED
      BY <3>1, <3>2
  <2>2. \A q \in Applied(P, M) : q \in M /\ q.occ # o.occ
    BY DEF Applied, Fresh, OneEach
  <2> QED
    BY <2>1, <2>2 DEF AlreadyPromoted, Claimed, ClaimsAfter
<1>3. UpdateAccepted(batch, tRows, o) <=> AcceptedIn(M, o)
  <2>1. /\ \A r, s \in tRows : r.id = s.id => r = s
        /\ \A t \in tCrawl.sent : \E r \in tRows : r.id = t.id /\ r.acct = t.acct
    BY DEF Fresh, RowsAreOf
  <2> QED
    BY <2>1, AcceptedIs
<1>4. Skipped(batch, tRows, claims, o) <=> ~AppliesIn(M, o)
  BY <1>2, <1>3 DEF Skipped, AppliesIn
<1>5. CASE ~AppliesIn(M, o)
  <2>1. Applied(P \cup {o}, M) = Applied(P, M)
    BY <1>5 DEF Applied
  <2>2. After(P \cup {o}, M) = After(P, M)
    BY <2>1 DEF After, RowsAfter, ClaimsAfter
  <2>3. PromoteOne(batch, tRows, After(P, M), o) = After(P, M)
    BY <1>1, <1>4, <1>5 DEF PromoteOne
  <2> QED
    BY <2>2, <2>3
<1>6. CASE AppliesIn(M, o)
  <2>1. KeepsReference(batch, tRows, rows, o) <=> KeepsIn(M, o)
    BY <1>6, KeepsAlike
  <2>2. AssignTransactionId(batch, tRows, rows, o) = id
    BY <2>1 DEF AssignTransactionId, IdIn
  <2>3. CanonicalField(batch, tRows, rows, o, id) = CanonIn(M, o)
    BY <2>1 DEF CanonicalField, CanonIn
  <2>4. {r \in rows : r.id = id} = mine
    BY <1>6, RowUntouched
  <2>5. Applied(P \cup {o}, M) = Applied(P, M) \cup {o}
    BY <1>6 DEF Applied
  <2> DEFINE created == IF mine = {} THEN tCrawl.n ELSE RowOf(rows, id).created
             row == [id |-> id, acct |-> o.acct, created |-> created, updated |-> tCrawl.n,
                     canon |-> CanonIn(M, o), src |-> <<tCrawl.n, o.occ>>]
  <2>6. created = IF Has(tRows, id) THEN RowOf(tRows, id).created ELSE tCrawl.n
    <3>1. CASE mine = {}
      BY <3>1 DEF Has
    <3>2. CASE mine # {}
      <4>1. PICK r \in mine : TRUE
        BY <3>2
      <4>2. \A x, y \in tRows : x.id = y.id => x = y
        BY DEF Fresh, RowsAreOf
      <4>3. Has(tRows, id) /\ RowOf(tRows, id) = r
        BY <4>1, <4>2, RowOfIs
      <4>4. \E s \in rows : s.id = id
        BY <2>4, <4>1
      <4>5. RowOf(rows, id) \in rows /\ RowOf(rows, id).id = id
        BY <4>4 DEF RowOf
      <4>6. RowOf(rows, id) \in mine
        BY <2>4, <4>5
      <4>7. RowOf(rows, id) = r
        BY <4>1, <4>2, <4>6
      <4> QED
        BY <3>2, <4>3, <4>7
    <3> QED
      BY <3>1, <3>2
  <2>7. row = RowIn(M, o)
    BY <2>6 DEF RowIn
  <2>8. (rows \ mine) \cup {RowIn(M, o)} = RowsAfter(P \cup {o}, M)
    <3>1. \A q \in Applied(P, M) : RowIn(M, q).id # id
      <4>1. \A q \in Applied(P, M) : q \in M /\ q # o /\ AppliesIn(M, q) /\ RowIn(M, q).id = IdIn(M, q)
        BY DEF Applied, RowIn
      <4> QED
        BY <1>6, <4>1, AppliedApart
    <3> HIDE DEF id
    <3>2. rows \ mine = {r \in tRows : r.id # id /\ \A q \in Applied(P, M) : r.id # IdIn(M, q)}
                          \cup {RowIn(M, q) : q \in Applied(P, M)}
      BY <3>1 DEF RowsAfter
    <3>3. RowsAfter(P \cup {o}, M) = {r \in tRows : r.id # id /\ \A q \in Applied(P, M) : r.id # IdIn(M, q)}
                          \cup {RowIn(M, q) : q \in Applied(P, M)} \cup {RowIn(M, o)}
      BY <2>5 DEF RowsAfter, id
    <3> QED
      BY <3>2, <3>3
  <2>9. claims \cup {<<tCrawl.n, o.occ, id>>} = ClaimsAfter(P \cup {o}, M)
    BY <2>5 DEF ClaimsAfter
  <2>10. PromoteOne(batch, tRows, After(P, M), o)
           = [rows |-> (rows \ mine) \cup {row}, claims |-> claims \cup {<<tCrawl.n, o.occ, id>>}]
    <3>1. ~Skipped(batch, tRows, claims, o)
      BY <1>4, <1>6
    <3> DEFINE st == After(P, M)
               new == AssignTransactionId(batch, tRows, st.rows, o)
               old == {r \in st.rows : r.id = new}
    <3>2. ~Skipped(batch, tRows, st.claims, o)
      BY <1>1, <3>1
    <3>3. PromoteOne(batch, tRows, st, o) =
            [rows |-> (st.rows \ old) \cup
                        {[id |-> new, acct |-> o.acct,
                          created |-> IF old = {} THEN tCrawl.n ELSE RowOf(st.rows, new).created,
                          updated |-> tCrawl.n, canon |-> CanonicalField(batch, tRows, st.rows, o, new),
                          src |-> <<tCrawl.n, o.occ>>]},
             claims |-> st.claims \cup {<<tCrawl.n, o.occ, new>>}]
      <4> HIDE DEF st
      <4> QED
        BY <3>2, PromoteOneWrites
    <3>4. st.rows = rows /\ st.claims = claims
      BY <1>1
    <3> HIDE DEF st, rows, claims, id, mine
    <3>5. new = id
      BY <2>2, <3>4
    <3>6. old = mine
      BY <2>4, <3>4, <3>5
    <3>7. CanonicalField(batch, tRows, st.rows, o, new) = CanonIn(M, o)
      BY <2>3, <3>4, <3>5
    <3>8. RowOf(st.rows, new) = RowOf(rows, id)
      BY <3>4, <3>5
    <3> HIDE DEF new, old
    <3> QED
      BY <3>3, <3>4, <3>5, <3>6, <3>7, <3>8 DEF st
  <2> HIDE DEF row, rows, claims, id, mine
  <2> QED
    BY <2>7, <2>8, <2>9, <2>10 DEF After
<1> QED
  BY <1>5, <1>6

-----------------------------------------------------------------------------
(* A whole batch.                                                          *)

Prefix(batch, i) == {batch[j] : j \in 1..i}

\* The loop is what its recursion says, for a batch of any length.
PromotionLoop(after, n, batch, first, start) ==
  after = [i \in 0..n |-> IF i = 0 THEN start ELSE PromoteOne(batch, first, after[i - 1], batch[i])]

LEMMA PromotionLoopExists ==
  ASSUME NEW batch, NEW first, NEW start
  PROVE  \A n \in Nat : \E after : PromotionLoop(after, n, batch, first, start)
<1> DEFINE S == {n \in Nat : \E after : PromotionLoop(after, n, batch, first, start)}
           Do(st, o) == PromoteOne(batch, first, st, o)
<1>0. \A after, n : PromotionLoop(after, n, batch, first, start) <=>
        after = [i \in 0..n |-> IF i = 0 THEN start ELSE Do(after[i - 1], batch[i])]
  BY DEF PromotionLoop
<1> HIDE DEF Do
<1>1. 0 \in S
  <2> DEFINE g == [i \in 0..0 |-> start]
  <2>1. g = [i \in 0..0 |-> IF i = 0 THEN start ELSE Do(g[i - 1], batch[i])]
    OBVIOUS
  <2> HIDE DEF g
  <2> QED
    BY <1>0, <2>1
<1>2. ASSUME NEW n \in Nat, n \in S PROVE n + 1 \in S
  <2>1. PICK f : f = [i \in 0..n |-> IF i = 0 THEN start ELSE Do(f[i - 1], batch[i])]
    BY <1>0, <1>2
  <2> DEFINE g == [i \in 0..(n + 1) |-> IF i = n + 1 THEN Do(f[n], batch[n + 1]) ELSE f[i]]
  <2>2. \A i \in 0..n : f[i] = IF i = 0 THEN start ELSE Do(f[i - 1], batch[i])
    BY <2>1
  <2>3. ASSUME NEW i \in 0..(n + 1) PROVE g[i] = IF i = 0 THEN start ELSE Do(g[i - 1], batch[i])
    <3>1. CASE i = 0
      BY <2>2, <3>1
    <3>2. CASE i # 0 /\ i # n + 1
      <4>1. i \in 0..n /\ i - 1 \in 0..(n + 1) /\ i - 1 # n + 1
        BY <3>2
      <4> QED
        BY <2>2, <3>2, <4>1
    <3>3. CASE i = n + 1
      <4>1. i - 1 = n /\ n \in 0..(n + 1) /\ n # n + 1
        BY <3>3
      <4> QED
        BY <3>3, <4>1
    <3> QED
      BY <3>1, <3>2, <3>3
  <2>4. g = [i \in 0..(n + 1) |-> g[i]]
    OBVIOUS
  <2> HIDE DEF g
  <2>5. g = [i \in 0..(n + 1) |-> IF i = 0 THEN start ELSE Do(g[i - 1], batch[i])]
    BY <2>3, <2>4
  <2> QED
    BY <1>0, <2>5
<1>3. Nat \subseteq S
  <2> HIDE DEF S
  <2> QED
    BY <1>1, <1>2, AllNat
<1> QED
  BY <1>3

\* PromotionOf is the last state of a loop.
LEMMA PromotionIsLoop ==
  ASSUME NEW batch, Len(batch) \in Nat
  PROVE  \E after : /\ PromotionOf(batch) = after[Len(batch)]
                    /\ after[0] = [rows |-> tRows, claims |-> tClaims]
                    /\ \A i \in Nat : i + 1 <= Len(batch) =>
                         after[i + 1] = PromoteOne(batch, tRows, after[i], batch[i + 1])
<1> DEFINE start == [rows |-> tRows, claims |-> tClaims]
           n == Len(batch)
           after == CHOOSE g : PromotionLoop(g, n, batch, tRows, start)
<1>1. PromotionOf(batch) = after[n]
  BY DEF PromotionOf, PromotionLoop
<1> HIDE DEF start, n
<1>2. n \in Nat
  BY DEF n
<1>3. PromotionLoop(after, n, batch, tRows, start)
  BY <1>2, PromotionLoopExists
<1> HIDE DEF after
<1>4. \A i \in 0..n : after[i] = IF i = 0 THEN start ELSE PromoteOne(batch, tRows, after[i - 1], batch[i])
  BY <1>3 DEF PromotionLoop
<1>5. after[0] = start
  BY <1>2, <1>4
<1>6. ASSUME NEW i \in Nat, i + 1 <= n PROVE after[i + 1] = PromoteOne(batch, tRows, after[i], batch[i + 1])
  <2>1. i + 1 \in 0..n /\ i + 1 # 0 /\ (i + 1) - 1 = i
    BY <1>2, <1>6
  <2> QED
    BY <1>4, <2>1
<1> QED
  BY <1>1, <1>5, <1>6 DEF start, n

\* A batch that is promoted for the first time: its order does not matter.
LEMMA PromotionIs ==
  ASSUME NEW batch, Len(batch) \in Nat, Numbered(batch), Fresh(Members(batch))
  PROVE  PromotionOf(batch) = After(Members(batch), Members(batch))
<1> DEFINE M == Members(batch)
           n == Len(batch)
<1>1. PICK after : /\ PromotionOf(batch) = after[n]
                   /\ after[0] = [rows |-> tRows, claims |-> tClaims]
                   /\ \A i \in Nat : i + 1 <= n => after[i + 1] = PromoteOne(batch, tRows, after[i], batch[i + 1])
  BY PromotionIsLoop
<1> DEFINE S == {i \in Nat : i <= n => after[i] = After(Prefix(batch, i), M)}
<1>2. 0 \in S
  <2>1. Prefix(batch, 0) = {}
    BY DEF Prefix
  <2>2. After({}, M) = [rows |-> tRows, claims |-> tClaims]
    BY DEF After, RowsAfter, ClaimsAfter, Applied
  <2> QED
    BY <1>1, <2>1, <2>2
<1>3. ASSUME NEW i \in Nat, i \in S PROVE i + 1 \in S
  <2> SUFFICES ASSUME i + 1 <= n PROVE after[i + 1] = After(Prefix(batch, i + 1), M)
    OBVIOUS
  <2> DEFINE P == Prefix(batch, i)
             o == batch[i + 1]
  <2>1. /\ n \in Nat /\ i + 1 \in 1..n /\ i <= n /\ 1..i \subseteq 1..n /\ i + 1 \notin 1..i
        /\ 1..(i + 1) = (1..i) \cup {i + 1}
    OBVIOUS
  <2>2. P \subseteq M /\ o \in M
    BY <2>1 DEF Prefix, Members
  <2>3. o \notin P
    <3>1. \A j \in 1..i : batch[j] # o
      BY <2>1 DEF Numbered
    <3> QED
      BY <3>1 DEF Prefix
  <2>4. Prefix(batch, i + 1) = P \cup {o}
    BY <2>1 DEF Prefix
  <2>5. after[i] = After(P, M)
    BY <1>3, <2>1
  <2>6. after[i + 1] = PromoteOne(batch, tRows, After(P, M), o)
    BY <1>1, <2>5
  <2> HIDE DEF P, o, M
  <2> QED
    BY <2>2, <2>3, <2>4, <2>6, PromoteOneIs DEF M
<1>4. n \in S
  <2> HIDE DEF S
  <2> QED
    BY <1>2, <1>3, AllNat
<1>5. Prefix(batch, n) = M
  BY DEF Prefix, Members
<1> QED
  BY <1>1, <1>4, <1>5

\* A batch reversed has the same observations.
LEMMA ReverseKeeps ==
  ASSUME NEW n \in Nat, NEW batch, batch = [i \in 1..n |-> batch[i]], Numbered(batch)
  PROVE  /\ Len(Reverse(batch)) = n /\ Len(batch) = n /\ Numbered(Reverse(batch))
         /\ Members(Reverse(batch)) = Members(batch)
<1> DEFINE back == [i \in 1..n |-> batch[(n - i) + 1]]
<1>1. Len(batch) = n
  OBVIOUS
<1>2. Reverse(batch) = back /\ Len(back) = n
  BY <1>1 DEF Reverse
<1>3. \A i \in 1..n : (n - i) + 1 \in 1..n /\ (n - ((n - i) + 1)) + 1 = i
  OBVIOUS
<1>4. \A i \in 1..n : back[i] = batch[(n - i) + 1] /\ batch[i] = back[(n - i) + 1]
  BY <1>3
<1> HIDE DEF back
<1>5. Numbered(back)
  <2> SUFFICES ASSUME NEW i \in 1..n, NEW j \in 1..n, back[i].occ = back[j].occ PROVE i = j
    BY <1>2 DEF Numbered
  <2>1. (n - i) + 1 \in 1..Len(batch) /\ (n - j) + 1 \in 1..Len(batch)
    BY <1>1
  <2>2. batch[(n - i) + 1].occ = batch[(n - j) + 1].occ
    BY <1>4
  <2>3. (n - i) + 1 = (n - j) + 1
    BY <2>1, <2>2 DEF Numbered
  <2> QED
    BY <2>3
<1>6. Members(back) = Members(batch)
  <2>1. Members(back) = {back[i] : i \in 1..n} /\ Members(batch) = {batch[i] : i \in 1..n}
    BY <1>1, <1>2 DEF Members
  <2>2. {back[i] : i \in 1..n} \subseteq {batch[i] : i \in 1..n}
    BY <1>3, <1>4
  <2>3. ASSUME NEW i \in 1..n PROVE \E j \in 1..n : batch[i] = back[j]
    <3>1. (n - i) + 1 \in 1..n /\ batch[i] = back[(n - i) + 1]
      BY <1>3, <1>4
    <3> QED
      BY <3>1
  <2> QED
    BY <2>1, <2>2, <2>3, ZenonT(60)
<1> QED
  BY <1>1, <1>2, <1>5, <1>6

\* A batch whose observations were all promoted, or are never applied, changes
\* nothing.
LEMMA ReplayIs ==
  ASSUME NEW batch, Len(batch) \in Nat, \A r, s \in tRows : r.id = s.id => r = s, SentStands,
         \A o \in Members(batch) : Claimed(tClaims, o) \/ ~AppliesIn(Members(batch), o)
  PROVE  PromotionOf(batch) = [rows |-> tRows, claims |-> tClaims]
<1> DEFINE start == [rows |-> tRows, claims |-> tClaims]
           n == Len(batch)
<1>1. PICK after : /\ PromotionOf(batch) = after[n]
                   /\ after[0] = start
                   /\ \A i \in Nat : i + 1 <= n => after[i + 1] = PromoteOne(batch, tRows, after[i], batch[i + 1])
  BY PromotionIsLoop
<1>2. ASSUME NEW o \in Members(batch) PROVE PromoteOne(batch, tRows, start, o) = start
  <2>1. UpdateAccepted(batch, tRows, o) <=> AcceptedIn(Members(batch), o)
    BY AcceptedIs DEF SentStands
  <2>2. Skipped(batch, tRows, tClaims, o)
    BY <2>1 DEF Skipped, AppliesIn, AlreadyPromoted
  <2> QED
    BY <2>2 DEF PromoteOne
<1> DEFINE S == {i \in Nat : i <= n => after[i] = start}
<1>3. 0 \in S
  BY <1>1
<1>4. ASSUME NEW i \in Nat, i \in S PROVE i + 1 \in S
  <2> SUFFICES ASSUME i + 1 <= n PROVE after[i + 1] = start
    OBVIOUS
  <2>1. i <= n /\ i + 1 \in 1..n
    OBVIOUS
  <2>2. batch[i + 1] \in Members(batch)
    BY <2>1 DEF Members
  <2>3. after[i] = start
    BY <1>4, <2>1
  <2> HIDE DEF start
  <2> QED
    BY <1>1, <1>2, <2>2, <2>3
<1>5. n \in S
  <2> HIDE DEF S
  <2> QED
    BY <1>3, <1>4, AllNat
<1> QED
  BY <1>1, <1>5

\* What a promotion makes of the rows and claims, whatever the batch.
LEMMA PromotionComesTo ==
  ASSUME NEW M, Fresh(M), M = Members(tCrawl.batch)
  PROVE  Outcome(RowsAfter(M, M), ClaimsAfter(M, M))
<1> DEFINE n == tCrawl.n
           rows == RowsAfter(M, M)
           claims == ClaimsAfter(M, M)
<1>1. n \in 1..MaxCrawls /\ n \in Nat /\ M \subseteq Observed
  BY TxNumbers DEF Fresh
<1>2. /\ tRows \subseteq Row
      /\ \A r, s \in tRows : r.id = s.id => r = s
      /\ \A r \in tRows : r.id < IdsUpTo(n - 1) /\ r.updated <= n - 1
      /\ \A r, s \in tRows : r.acct = s.acct /\ r.canon = s.canon /\ IsBankProvidedId(r.canon) => r.id = s.id
  BY DEF Fresh, RowsAreOf
<1>3. \A o \in Applied(M, M) : o \in M /\ AppliesIn(M, o)
  BY DEF Applied
<1>4. \A r \in rows : \/ r \in tRows /\ \A o \in Applied(M, M) : r.id # IdIn(M, o)
                      \/ \E o \in Applied(M, M) : r = RowIn(M, o)
  BY DEF RowsAfter
<1>5. \A o : /\ RowIn(M, o).id = IdIn(M, o) /\ RowIn(M, o).acct = o.acct /\ RowIn(M, o).canon = CanonIn(M, o)
             /\ RowIn(M, o).updated = n
  BY DEF RowIn
<1>6. \A r \in tRows : r.id < IdsUpTo(n) /\ r.updated <= n
  <2> SUFFICES ASSUME NEW r \in tRows PROVE r.id < IdsUpTo(n) /\ r.updated <= n
    OBVIOUS
  <2> DEFINE id == r.id
             u == r.updated
  <2>1. id \in Nat /\ u \in Nat
    BY <1>2 DEF Row
  <2> DEFINE f == IdsUpTo(n - 1)
             b == IdsUpTo(n)
  <2>2. id < f /\ u <= n - 1
    BY <1>2
  <2>4. f \in Nat /\ b \in Nat /\ f <= b
    <3>1. n - 1 \in Nat /\ n - 1 <= n
      BY <1>1
    <3> QED
      BY <1>1, <3>1, IdsGrow
  <2> HIDE DEF id, u, n, f, b
  <2>3. id < b /\ u <= n
    BY <1>1, <2>1, <2>2, <2>4
  <2> QED
    BY <2>3 DEF id, u, b
\* A row that was written is a row, and named like one.
<1>7. ASSUME NEW o \in Applied(M, M)
      PROVE  RowIn(M, o) \in Row /\ IdIn(M, o) < IdsUpTo(n) /\ IdIn(M, o) \in Nat
  <2>1. o \in Observed
    BY <1>1, <1>3
  <2>2. IdIn(M, o) \in Nat /\ IdIn(M, o) < IdsUpTo(n)
    <3>1. CASE o.upd = None
      BY <1>3, <3>1, NewIds
    <3>2. CASE o.upd # None
      <4>1. PICK r \in tRows : r.id = IdIn(M, o)
        BY <1>3, <3>2, AppliedUpdate
      <4>2. r.id \in Nat
        BY <1>2 DEF Row
      <4> QED
        BY <1>6, <4>1, <4>2
    <3> QED
      BY <3>1, <3>2
  <2>3. CanonIn(M, o) \in Nat
    <3>1. o.upd \in Nat /\ (KeepsIn(M, o) => o.ref \in Nat)
      BY <2>1, TxNumbers DEF KeepsIn, IsBankProvidedId, Observed
    <3> QED
      BY <2>2, <3>1 DEF CanonIn
  <2> DEFINE id == IdIn(M, o)
             created == IF Has(tRows, id) THEN RowOf(tRows, id).created ELSE n
  <2>4. created \in Nat
    <3>1. ASSUME Has(tRows, id) PROVE RowOf(tRows, id).created \in Nat
      <4>1. \E r \in tRows : r.id = id
        BY <3>1 DEF Has
      <4>2. RowOf(tRows, id) \in tRows
        BY <4>1 DEF RowOf
      <4> QED
        BY <1>2, <4>2 DEF Row
    <3> QED
      BY <1>1, <3>1
  <2>5. o.acct \in Accts /\ o.occ \in Nat
    BY <2>1, TxNumbers DEF Observed
  <2>6. RowIn(M, o) = [id |-> id, acct |-> o.acct, canon |-> CanonIn(M, o), updated |-> n,
                       created |-> created, src |-> <<n, o.occ>>]
    BY DEF RowIn
  <2> HIDE DEF id, created, n
  <2> QED
    BY <1>1, <2>2, <2>3, <2>4, <2>5, <2>6 DEF Row, id
<1>8. \A o, q \in Applied(M, M) : o # q => IdIn(M, o) # IdIn(M, q)
  BY <1>3, AppliedApart
<1>9. RowsAreOf(rows, n)
  <2>1. rows \subseteq Row
    BY <1>2, <1>4, <1>7
  <2>2. ASSUME NEW r \in rows, NEW s \in rows, r.id = s.id PROVE r = s
    BY <1>2, <1>4, <1>5, <1>8, <2>2
  <2>3. \A r \in rows : r.id < IdsUpTo(n) /\ r.updated <= n
    <3>1. n <= n
      BY <1>1
    <3> HIDE DEF rows, n
    <3> QED
      BY <1>4, <1>5, <1>6, <1>7, <3>1
  <2>4. ASSUME NEW r \in rows, NEW s \in rows, r.acct = s.acct, r.canon = s.canon, IsBankProvidedId(r.canon)
        PROVE  r.id = s.id
    <3>1. r.canon \in Refs
      BY <2>4 DEF IsBankProvidedId
    <3>2. CASE r \in tRows /\ s \in tRows
      BY <1>2, <2>4, <3>2
    <3>3. ASSUME NEW x \in tRows, NEW o \in Applied(M, M), x.acct = o.acct, x.canon = CanonIn(M, o),
                 x.canon \in Refs
          PROVE  x.id = IdIn(M, o)
      BY <1>3, <3>3, CanonOwner
    <3>4. CASE \E o, q \in Applied(M, M) : r = RowIn(M, o) /\ s = RowIn(M, q)
      <4>1. PICK o \in Applied(M, M), q \in Applied(M, M) : r = RowIn(M, o) /\ s = RowIn(M, q)
        BY <3>4
      <4>2. o.acct = q.acct /\ CanonIn(M, o) = CanonIn(M, q) /\ CanonIn(M, o) \in Refs
        BY <1>5, <2>4, <3>1, <4>1
      <4>3. o = q
        BY <1>3, <4>2, CanonsApart
      <4> QED
        BY <4>1, <4>3
    <3>5. CASE r \in tRows /\ \E q \in Applied(M, M) : s = RowIn(M, q)
      <4>1. PICK q \in Applied(M, M) : s = RowIn(M, q)
        BY <3>5
      <4> QED
        BY <1>5, <2>4, <3>1, <3>3, <3>5, <4>1
    <3>6. CASE s \in tRows /\ \E o \in Applied(M, M) : r = RowIn(M, o)
      <4>1. PICK o \in Applied(M, M) : r = RowIn(M, o)
        BY <3>6
      <4> QED
        BY <1>5, <2>4, <3>1, <3>3, <3>6, <4>1
    <3> QED
      BY <1>4, <3>2, <3>4, <3>5, <3>6
  <2> QED
    BY <2>1, <2>2, <2>3, <2>4 DEF RowsAreOf
<1>10. ClaimsAreOf(claims, n)
  <2>1. tClaims \subseteq Claims /\ (\A c \in tClaims : c[1] <= n - 1)
        /\ \A c, d \in tClaims : c[1] = d[1] /\ c[2] # d[2] => c[3] # d[3]
    BY DEF Fresh, ClaimsAreOf
  <2>2. \A c \in claims : c \in tClaims \/ \E o \in Applied(M, M) : c = <<n, o.occ, IdIn(M, o)>>
    BY DEF ClaimsAfter
  <2>3. \A o \in Applied(M, M) : o.occ \in 1..MaxBatch
    BY <1>1, <1>3 DEF Observed
  <2>4. \A c \in tClaims : c[1] \in Nat
    BY <2>1 DEF Claims
  <2> HIDE DEF claims, n
  <2>5. claims \subseteq Claims
    BY <1>1, <1>7, <2>1, <2>2, <2>3 DEF Claims
  <2>6. \A c \in claims : c[1] <= n
    BY <1>1, <2>1, <2>2, <2>4
  <2>7. \A c \in tClaims : c[1] # n
    BY <1>1, <2>1, <2>4
  <2>8. ASSUME NEW c \in claims, NEW d \in claims, c[1] = d[1], c[2] # d[2] PROVE c[3] # d[3]
    <3>1. CASE c \in tClaims /\ d \in tClaims
      BY <2>1, <2>8, <3>1
    <3>2. CASE \E o, q \in Applied(M, M) : c = <<n, o.occ, IdIn(M, o)>> /\ d = <<n, q.occ, IdIn(M, q)>>
      BY <1>8, <2>8, <3>2
    <3> QED
      BY <2>2, <2>7, <2>8, <3>1, <3>2
  <2> QED
    BY <2>5, <2>6, <2>8 DEF ClaimsAreOf
\* A row that is overwritten is the one an update names.
<1>11. ASSUME NEW r \in tRows
       PROVE  \E s \in rows :
                /\ s.id = r.id /\ s.acct = r.acct
                /\ s = r \/ \E t \in tCrawl.sent : \E k \in 1..Len(tCrawl.batch) :
                              t.id = r.id /\ t.canon = tCrawl.batch[k].upd /\ t.acct = tCrawl.batch[k].acct
  <2>1. CASE \A o \in Applied(M, M) : r.id # IdIn(M, o)
    <3>1. r \in rows
      BY <2>1 DEF RowsAfter
    <3> QED
      BY <3>1
  <2>2. CASE \E o \in Applied(M, M) : r.id = IdIn(M, o)
    <3>1. PICK o \in Applied(M, M) : r.id = IdIn(M, o)
      BY <2>2
    <3>2. o.upd # None
      BY <1>3, <3>1, AppliedNew DEF Has
    <3>3. PICK x \in tRows : x.id = IdIn(M, o) /\ x.acct = o.acct
      BY <1>3, <3>2, AppliedUpdate
    <3>4. r.acct = o.acct
      BY <1>2, <3>1, <3>3
    <3>5. ResolvesIn(M, o)
      BY <1>3, <3>2 DEF AppliesIn, AcceptedIn
    <3>6. PICK t \in tCrawl.sent : t.acct = o.acct /\ t.canon = o.upd /\ t.id = Target(o)
      BY <3>5, ResolvesTo
    <3>7. t.id = r.id
      BY <3>1, <3>2, <3>6 DEF IdIn
    <3>8. PICK k \in 1..Len(tCrawl.batch) : tCrawl.batch[k] = o
      BY <1>3 DEF Members
    <3>9. RowIn(M, o) \in rows
      BY DEF RowsAfter
    <3> HIDE DEF rows
    <3> QED
      BY <1>5, <3>1, <3>4, <3>6, <3>7, <3>8, <3>9
  <2> QED
    BY <2>1, <2>2
<1>12. \A s \in rows : s \in tRows \/ s.updated = n
  BY <1>4, <1>5
<1> QED
  BY <1>9, <1>10, <1>11, <1>12 DEF Outcome

-----------------------------------------------------------------------------
(* A page of the change cursor.                                            *)

\* The rows of so many crawls are finitely many.
LEMMA RowsAreFinite ==
  ASSUME NEW m \in Nat, NEW rows, RowsAreOf(rows, m)
  PROVE  IsFiniteSet(rows)
<1> DEFINE b == IdsUpTo(m)
           f == [r \in rows |-> r.id]
<1>1. \A r \in rows : r.id \in Nat /\ r.id < b
  BY DEF RowsAreOf, Row
<1>2. \A r, s \in rows : r.id = s.id => r = s
  BY DEF RowsAreOf
<1>3. b \in Nat
  BY IdsGrow
<1> HIDE DEF b
<1>4. \A r \in rows : r.id \in 0..b
  BY <1>1, <1>3
<1>5. f \in Injection(rows, 0..b)
  BY <1>2, <1>4 DEF Injection, IsInjective
<1>6. IsFiniteSet(0..b)
  BY <1>3, FS_Interval
<1> QED
  BY <1>5, <1>6, FS_Injection

\* The order of the cursor is total on the rows, and has a least and a greatest
\* among any of them.
LEMMA BeforeIsOrder ==
  ASSUME NEW m \in Nat, NEW rows, RowsAreOf(rows, m)
  PROVE  /\ \A r, s, t \in rows : Before(r, s) /\ Before(s, t) => Before(r, t)
         /\ \A r, s \in rows : r = s \/ Before(r, s) \/ Before(s, r)
         /\ \A r, s \in rows : Before(r, s) => ~Before(s, r)
         /\ \A r \in rows : ~Before(r, r)
<1>1. \A r \in rows : r.id \in Nat /\ r.updated \in Nat
  BY DEF RowsAreOf, Row
<1>2. \A r, s \in rows : r.id = s.id => r = s
  BY DEF RowsAreOf
<1>3. ASSUME NEW r \in rows, NEW s \in rows, NEW t \in rows, Before(r, s), Before(s, t) PROVE Before(r, t)
  <2>1. /\ r.id \in Nat /\ r.updated \in Nat /\ s.id \in Nat /\ s.updated \in Nat /\ t.id \in Nat
        /\ t.updated \in Nat
    BY <1>1
  <2> QED
    BY <1>3, <2>1 DEF Before
<1>4. ASSUME NEW r \in rows, NEW s \in rows
      PROVE  /\ r = s \/ Before(r, s) \/ Before(s, r)
             /\ Before(r, s) => ~Before(s, r)
  <2>1. r.id \in Nat /\ r.updated \in Nat /\ s.id \in Nat /\ s.updated \in Nat /\ (r.id = s.id => r = s)
    BY <1>1, <1>2
  <2> QED
    BY <2>1 DEF Before
<1> QED
  BY <1>1, <1>3, <1>4 DEF Before

LEMMA FirstAndLast ==
  ASSUME NEW m \in Nat, NEW rows, RowsAreOf(rows, m), NEW some, some \subseteq rows, some # {}
  PROVE  /\ \E r \in some : \A s \in some : s = r \/ Before(r, s)
         /\ \E r \in some : \A s \in some : s = r \/ Before(s, r)
<1> DEFINE U == {r.updated : r \in some}
           I(u) == {r.id : r \in {q \in some : q.updated = u}}
           b == IdsUpTo(m)
<1>1. \A r \in some : r.id \in Nat /\ r.updated \in Nat /\ r.updated <= m /\ r.id < b
  BY DEF RowsAreOf, Row
<1>2. \A r, s \in some : r.id = s.id => r = s
  BY DEF RowsAreOf
<1>3. b \in Nat
  BY IdsGrow
<1> HIDE DEF b
<1>4. U \subseteq Nat /\ U # {} /\ \A u \in U : u <= m
  BY <1>1
<1>5. \A u \in U : I(u) \subseteq Nat /\ I(u) # {} /\ \A i \in I(u) : i <= b
  BY <1>1, <1>3
<1>6. \E r \in some : \A s \in some : s = r \/ Before(r, s)
  <2>1. PICK u \in U : \A v \in U : u <= v
    BY <1>4, LeastNat
  <2>2. I(u) \subseteq Nat /\ I(u) # {}
    BY <1>5
  <2>3. PICK i \in I(u) : \A j \in I(u) : i <= j
    <3> HIDE DEF I
    <3> QED
      BY <2>2, LeastNat
  <2>4. PICK r \in some : r.updated = u /\ r.id = i
    OBVIOUS
  <2>5. ASSUME NEW s \in some PROVE s = r \/ Before(r, s)
    <3>1. u <= s.updated
      BY <2>1
    <3>2. s.updated = u => i <= s.id
      BY <2>3
    <3>3. s.id = r.id => s = r
      BY <1>2
    <3>4. s.id \in Nat /\ s.updated \in Nat /\ r.id \in Nat /\ r.updated \in Nat
      BY <1>1
    <3> QED
      BY <2>4, <3>1, <3>2, <3>3, <3>4 DEF Before
  <2> QED
    BY <2>5
<1>7. \E r \in some : \A s \in some : s = r \/ Before(s, r)
  <2>1. PICK u \in U : \A v \in U : v <= u
    BY <1>4, GreatestNat
  <2>2. I(u) \subseteq Nat /\ I(u) # {} /\ \A i \in I(u) : i <= b
    BY <1>5
  <2>3. PICK i \in I(u) : \A j \in I(u) : j <= i
    <3> HIDE DEF I
    <3> QED
      BY <1>3, <2>2, GreatestNat
  <2>4. PICK r \in some : r.updated = u /\ r.id = i
    OBVIOUS
  <2>5. ASSUME NEW s \in some PROVE s = r \/ Before(s, r)
    <3>1. s.updated <= u
      BY <2>1
    <3>2. s.updated = u => s.id <= i
      BY <2>3
    <3>3. s.id = r.id => s = r
      BY <1>2
    <3>4. s.id \in Nat /\ s.updated \in Nat /\ r.id \in Nat /\ r.updated \in Nat
      BY <1>1
    <3> QED
      BY <2>4, <3>1, <3>2, <3>3, <3>4 DEF Before
  <2> QED
    BY <2>5
<1> QED
  BY <1>6, <1>7

\* A page is not empty, and has whatever comes before one of its rows.
LEMMA PageIsFirst ==
  ASSUME NEW m \in Nat, RowsAreOf(tRows, m), NEW rest, rest \subseteq tRows, rest # {},
         NEW page, page = {r \in rest : Cardinality({s \in rest : Before(s, r)}) < PageLimit}
  PROVE  page # {} /\ \A r \in page, q \in rest : Before(q, r) => q \in page
<1> DEFINE Ahead(r) == {s \in rest : Before(s, r)}
<1>1. IsFiniteSet(rest)
  BY RowsAreFinite, FS_Subset
<1>2. \A r : IsFiniteSet(Ahead(r))
  <2> SUFFICES ASSUME NEW r PROVE IsFiniteSet(Ahead(r))
    OBVIOUS
  <2>1. Ahead(r) \in SUBSET rest
    OBVIOUS
  <2> HIDE DEF Ahead
  <2> QED
    BY <1>1, <2>1, FS_Subset
<1>3. page # {}
  <2>1. PICK r \in rest : \A s \in rest : s = r \/ Before(r, s)
    BY FirstAndLast
  <2>2. \A s \in rest : ~Before(s, r)
    BY <2>1, BeforeIsOrder
  <2>3. Ahead(r) = {}
    BY <2>2
  <2>4. Cardinality(Ahead(r)) < PageLimit
    BY <2>3, FS_EmptySet, TxNumbers
  <2> QED
    BY <2>4
<1>4. ASSUME NEW r \in page, NEW q \in rest, Before(q, r) PROVE q \in page
  <2>1. Ahead(q) \in SUBSET Ahead(r)
    BY <1>4, BeforeIsOrder
  <2>2. Cardinality(Ahead(r)) < PageLimit
    OBVIOUS
  <2>3. Cardinality(Ahead(q)) <= Cardinality(Ahead(r))
    <3> HIDE DEF Ahead
    <3> QED
      BY <1>2, <2>1, FS_Subset
  <2>4. Cardinality(Ahead(q)) \in Nat /\ Cardinality(Ahead(r)) \in Nat /\ PageLimit \in Nat
    <3> HIDE DEF Ahead
    <3> QED
      BY <1>2, FS_CardinalityType, TxNumbers
  <2>5. Cardinality(Ahead(q)) < PageLimit
    <3> DEFINE x == Cardinality(Ahead(q))
               y == Cardinality(Ahead(r))
    <3> HIDE DEF x, y
    <3>1. x < PageLimit
      BY <2>2, <2>3, <2>4 DEF x, y
    <3> QED
      BY <3>1 DEF x
  <2> QED
    BY <2>5
<1> QED
  BY <1>3, <1>4

-----------------------------------------------------------------------------
(* The invariant.                                                          *)

LEMMA TxInitKeeps == TxInit => TxInv
<1> SUFFICES ASSUME TxInit PROVE TxInv
  OBVIOUS
<1>1. tCrawl = [n |-> 0, st |-> "none", sent |-> {}, batch |-> <<>>]
  BY DEF TxInit
<1>2. tCrawl.n = 0 /\ tCrawl.st = "none" /\ tCrawl.sent = {} /\ tCrawl.batch = <<>> /\ Done = 0
  BY <1>1 DEF Done
<1>3. tCrawl \in CrawlRecords
  BY <1>1, TxNumbers DEF CrawlRecords, Batches
<1>4. NoPlan \in Plans
  BY TxNumbers DEF NoPlan, Plans
<1>5. Numbered(tCrawl.batch)
  BY <1>2 DEF Numbered
<1>6. TxTypes
  BY <1>3, <1>4, <1>5 DEF TxTypes, TxInit
<1>7. RowsAreOf(tRows, Done) /\ ClaimsAreOf(tClaims, Done) /\ SentStands
  BY <1>2 DEF RowsAreOf, ClaimsAreOf, SentStands, TxInit
<1>8. ConsumerFits
  BY <1>2 DEF ConsumerFits, TxInit
<1>9. \A p \in Planners : PlanFits(p)
  <2> SUFFICES ASSUME NEW p \in Planners PROVE PlanFits(p)
    OBVIOUS
  <2>1. tPlan[p] = NoPlan /\ tGen = 0
    BY DEF TxInit
  <2> QED
    BY <1>2, <2>1 DEF PlanFits, NoPlan, PromotionReady
<1> QED
  BY <1>2, <1>6, <1>7, <1>8, <1>9 DEF TxInv

\* Of a crawl that is running, what it comes to is known from its batch.
LEMMA RunningIsFresh ==
  ASSUME TxInv, tCrawl.st = "running"
  PROVE  LET M == Members(tCrawl.batch) IN
         /\ Fresh(M) /\ Numbered(tCrawl.batch)
         /\ \E n \in Nat : tCrawl.batch = [i \in 1..n |-> tCrawl.batch[i]]
         /\ PromotionOf(tCrawl.batch) = After(M, M)
         /\ Outcome(RowsAfter(M, M), ClaimsAfter(M, M))
<1> DEFINE batch == tCrawl.batch
           M == Members(batch)
<1>1. batch \in Batches /\ tCrawl.n \in 0..MaxCrawls /\ tCrawl.sent \subseteq Sent
  BY DEF TxInv, TxTypes, CrawlRecords
<1>2. PICK n \in Nat : batch \in [1..n -> Observed]
  <2>1. CASE batch = <<>>
    <3>1. batch \in [1..0 -> Observed]
      BY <2>1
    <3> QED
      BY <3>1
  <2>2. CASE batch # <<>>
    <3>1. PICK k \in 1..MaxBatch : batch \in [1..k -> Observed]
      BY <1>1, <2>2 DEF Batches
    <3> QED
      BY <3>1, TxNumbers
  <2> QED
    BY <2>1, <2>2
<1>3. Len(batch) = n /\ batch = [i \in 1..n |-> batch[i]]
  BY <1>2
<1>4. M \subseteq Observed
  BY <1>2, <1>3 DEF Members
<1>5. Numbered(batch)
  BY DEF TxInv, TxTypes
<1>6. OneEach(M)
  BY <1>5 DEF Numbered, OneEach, Members
<1>7. Fresh(M)
  <2>1. Done = tCrawl.n - 1 /\ tCrawl.n >= 1
    BY DEF Done, TxInv
  <2>2. tCrawl.n \in 1..MaxCrawls
    BY <1>1, <2>1, TxNumbers
  <2> QED
    BY <1>1, <1>4, <1>6, <2>1, <2>2 DEF Fresh, TxInv
<1>8. PromotionOf(batch) = After(M, M)
  BY <1>3, <1>5, <1>7, PromotionIs
<1> QED
  BY <1>3, <1>5, <1>7, <1>8, PromotionComesTo

\* What is sent is what the rows say at that moment.
LEMMA StartCrawlKeeps ==
  ASSUME TxInv, StartCrawl PROVE TxInv'
<1>1. /\ tCrawl.st \in {"none", "promoted"} /\ tCrawl.n < MaxCrawls
      /\ tStore' = tStore /\ tRows' = tRows /\ tClaims' = tClaims /\ tGen' = tGen /\ tPlan' = tPlan
      /\ tCons' = tCons
  BY DEF StartCrawl
<1>2. PICK recent \in SUBSET tRows :
        tCrawl' = [n |-> tCrawl.n + 1, st |-> "running", batch |-> <<>>,
                   sent |-> {[acct |-> r.acct, canon |-> r.canon, id |-> r.id] : r \in recent}]
  BY DEF StartCrawl
<1> DEFINE sent == {[acct |-> r.acct, canon |-> r.canon, id |-> r.id] : r \in recent}
<1>3. tCrawl'.n = tCrawl.n + 1 /\ tCrawl'.st = "running" /\ tCrawl'.batch = <<>> /\ tCrawl'.sent = sent
  BY <1>2
<1>4. tCrawl.n \in Nat /\ tCrawl.n + 1 \in 0..MaxCrawls
  BY <1>1, TxNumbers DEF TxInv, TxTypes, CrawlRecords
<1>5. tRows \subseteq Row
  BY DEF TxInv, RowsAreOf
<1>6. sent \subseteq Sent
  BY <1>5 DEF Sent, Row
<1>7. \A t \in sent : \E r \in tRows : r.id = t.id /\ r.acct = t.acct /\ r.canon = t.canon
  OBVIOUS
<1> HIDE DEF sent
<1>8. tCrawl' \in CrawlRecords
  BY <1>2, <1>4, <1>6 DEF CrawlRecords, Batches, sent
<1>9. Numbered(<<>>)
  BY DEF Numbered
<1>10. TxTypes'
  BY <1>1, <1>3, <1>8, <1>9 DEF TxInv, TxTypes
<1>11. Done' = Done
  BY <1>1, <1>3, <1>4 DEF Done
<1>12. RowsAreOf(tRows, Done)' /\ ClaimsAreOf(tClaims, Done)'
  BY <1>1, <1>11 DEF TxInv, RowsAreOf, ClaimsAreOf
<1>13. ConsumerFits'
  BY <1>1, <1>11 DEF TxInv, ConsumerFits, AfterCursor
<1>14. SentStands'
  BY <1>1, <1>3, <1>7 DEF SentStands
<1>15. ASSUME NEW p \in Planners PROVE PlanFits(p)'
  <2>1. tPlan[p].scope <= tCrawl.n /\ tPlan[p].base <= tGen /\ tPlan[p].scope \in Nat
    BY TxNumbers DEF TxInv, TxTypes, Plans, PlanFits
  <2>2. tPlan[p].scope <= tCrawl.n + 1 /\ tPlan[p].scope # tCrawl.n + 1
    BY <1>4, <2>1
  <2> QED
    BY <1>1, <1>3, <2>1, <2>2 DEF PlanFits, PromotionReady
<1>16. tCrawl'.n >= 1
  BY <1>3, <1>4
<1> QED
  BY <1>1, <1>3, <1>7, <1>10, <1>12, <1>13, <1>14, <1>15, <1>16 DEF TxInv

\* No plan can have been computed before the batch was there.
LEMMA ReturnBatchKeeps ==
  ASSUME TxInv, ReturnBatch PROVE TxInv'
<1>1. /\ tCrawl.st = "running" /\ tCrawl.batch = <<>>
      /\ tStore' = tStore /\ tRows' = tRows /\ tClaims' = tClaims /\ tGen' = tGen /\ tPlan' = tPlan
      /\ tCons' = tCons
  BY DEF ReturnBatch
<1>0. PICK k \in 1..MaxBatch :
        \E b \in [1..k -> Observation({t.canon : t \in tCrawl.sent} \cup {Unsent})] :
          tCrawl' = [tCrawl EXCEPT !.batch = [i \in 1..k |->
            [occ |-> i, acct |-> b[i].acct, ref |-> b[i].ref, upd |-> b[i].upd, old |-> b[i].old]]]
  BY DEF ReturnBatch
<1>2. PICK b \in [1..k -> Observation({t.canon : t \in tCrawl.sent} \cup {Unsent})] :
        tCrawl' = [tCrawl EXCEPT !.batch = [i \in 1..k |->
           [occ |-> i, acct |-> b[i].acct, ref |-> b[i].ref, upd |-> b[i].upd, old |-> b[i].old]]]
  BY <1>0
<1> DEFINE seq == [i \in 1..k |->
             [occ |-> i, acct |-> b[i].acct, ref |-> b[i].ref, upd |-> b[i].upd, old |-> b[i].old]]
<1>3. tCrawl \in CrawlRecords
  BY DEF TxInv, TxTypes
<1>4. k \in 1..MaxBatch /\ k \in Nat /\ 1..k \subseteq 1..MaxBatch
  BY TxNumbers
<1>5. {t.canon : t \in tCrawl.sent} \cup {Unsent} \subseteq Nat
  BY <1>3, TxNumbers DEF CrawlRecords, Sent, Unsent
<1>6. ASSUME NEW i \in 1..k PROVE seq[i] \in Observed
  <2>1. b[i] \in Observation({t.canon : t \in tCrawl.sent} \cup {Unsent})
    OBVIOUS
  <2>2. /\ b[i].acct \in Accts /\ b[i].ref \in Refs \cup {None} /\ b[i].old \in BOOLEAN
        /\ b[i].upd \in ({t.canon : t \in tCrawl.sent} \cup {Unsent}) \cup {None}
    BY <2>1 DEF Observation
  <2>3. b[i].upd \in Nat
    BY <1>5, <2>2 DEF None
  <2>4. i \in 1..MaxBatch
    BY <1>4
  <2> QED
    BY <2>2, <2>3, <2>4 DEF Observed
<1>7. \A i \in 1..k : seq[i].occ = i
  OBVIOUS
<1>8. Len(seq) = k /\ seq \in [1..k -> Observed]
  BY <1>4, <1>6
<1>9. tCrawl' = [tCrawl EXCEPT !.batch = seq]
  BY <1>2
<1> HIDE DEF seq
<1>10. tCrawl'.n = tCrawl.n /\ tCrawl'.st = "running" /\ tCrawl'.batch = seq /\ tCrawl'.sent = tCrawl.sent
  BY <1>1, <1>3, <1>9 DEF CrawlRecords
<1>11. seq \in Batches
  BY <1>8 DEF Batches
<1>12. tCrawl' \in CrawlRecords
  BY <1>3, <1>9, <1>11 DEF CrawlRecords
<1>13. Numbered(seq)
  BY <1>7, <1>8 DEF Numbered
<1>14. TxTypes'
  BY <1>1, <1>10, <1>12, <1>13 DEF TxInv, TxTypes
<1>15. Done' = Done
  BY <1>1, <1>10 DEF Done
<1>16. RowsAreOf(tRows, Done)' /\ ClaimsAreOf(tClaims, Done)'
  BY <1>1, <1>15 DEF TxInv, RowsAreOf, ClaimsAreOf
<1>17. ConsumerFits'
  BY <1>1, <1>15 DEF TxInv, ConsumerFits, AfterCursor
<1>18. SentStands'
  BY <1>1, <1>10 DEF TxInv, SentStands
<1>19. ASSUME NEW p \in Planners PROVE PlanFits(p)'
  <2>1. PlanFits(p) /\ ~PromotionReady(p)
    BY <1>1 DEF TxInv, PlanFits
  <2> QED
    BY <1>1, <1>10, <2>1 DEF PlanFits, PromotionReady
<1> QED
  BY <1>1, <1>10, <1>14, <1>16, <1>17, <1>18, <1>19 DEF TxInv

\* What a promotion leaves, however it was computed.
LEMMA PromotedKeeps ==
  ASSUME TxInv, tCrawl.st = "running", Outcome(tRows', tClaims'), tCrawl'.n = tCrawl.n,
         tCrawl'.sent = tCrawl.sent, tCrawl'.st \in {"stored", "promoted"}, tCons' = tCons
  PROVE  RowsAreOf(tRows, Done)' /\ ClaimsAreOf(tClaims, Done)' /\ SentStands' /\ ConsumerFits'
<1>1. Done = tCrawl.n - 1 /\ Done' = tCrawl.n /\ tCrawl.n \in Nat /\ tCrawl.n >= 1
  BY DEF Done, TxInv, TxTypes, CrawlRecords
<1>2. RowsAreOf(tRows, Done)' /\ ClaimsAreOf(tClaims, Done)'
  BY <1>1 DEF Outcome, RowsAreOf, ClaimsAreOf
<1>3. SentStands'
  <2> SUFFICES ASSUME NEW t \in tCrawl.sent PROVE \E r \in tRows' : r.id = t.id /\ r.acct = t.acct
    BY DEF SentStands
  <2>1. PICK r \in tRows : r.id = t.id /\ r.acct = t.acct
    BY DEF TxInv, SentStands
  <2> QED
    BY <2>1 DEF Outcome
<1>4. /\ tCons.at \in Nat /\ tCons.at <= tCrawl.n - 1
      /\ tCons \in [at : Nat, id : Nat, seen : SUBSET (Nat \X Nat)]
  BY <1>1 DEF TxInv, ConsumerFits
<1>5. \A s \in tRows' : s.updated = tCrawl.n => AfterCursor(s)
  <2>1. tCrawl.n > tCons.at
    BY <1>1, <1>4
  <2> QED
    BY <2>1 DEF AfterCursor
<1>6. \A r : AfterCursor(r)' <=> AfterCursor(r)
  BY DEF AfterCursor
<1>7. ASSUME NEW v \in tCons.seen
      PROVE  \E s \in tRows' : s.id = v[1] /\ (v[2] = s.updated \/ AfterCursor(s))
  <2>1. PICK r \in tRows : r.id = v[1] /\ (v[2] = r.updated \/ AfterCursor(r))
    BY DEF TxInv, ConsumerFits
  <2>2. PICK s \in tRows' : s.id = r.id
    BY DEF Outcome
  <2>3. CASE s \in tRows
    <3>1. s = r
      BY <2>2, <2>3 DEF TxInv, RowsAreOf
    <3> QED
      BY <2>1, <3>1
  <2>4. CASE s \notin tRows
    <3>1. s.updated = tCrawl.n
      BY <2>4 DEF Outcome
    <3> QED
      BY <1>5, <2>1, <2>2, <3>1
  <2> QED
    BY <2>3, <2>4
<1>8. ASSUME NEW r \in tRows', ~AfterCursor(r) PROVE <<r.id, r.updated>> \in tCons.seen
  <2>1. r \in tRows
    BY <1>5, <1>8 DEF Outcome
  <2> QED
    BY <1>8, <2>1 DEF TxInv, ConsumerFits
<1>9. tCons.at <= tCrawl.n
  BY <1>1, <1>4
<1>10. ConsumerFits'
  BY <1>1, <1>4, <1>6, <1>7, <1>8, <1>9 DEF ConsumerFits
<1> QED
  BY <1>2, <1>3, <1>10

\* A step that leaves the crawl, the rows and the claims alone.
LEMMA SameCrawl ==
  ASSUME TxInv, tCrawl' = tCrawl, tRows' = tRows, tClaims' = tClaims, TxTypes', ConsumerFits',
         \A p \in Planners : PlanFits(p)'
  PROVE  TxInv'
<1>1. RowsAreOf(tRows, Done)' /\ ClaimsAreOf(tClaims, Done)' /\ SentStands'
  BY DEF TxInv, RowsAreOf, ClaimsAreOf, Done, SentStands
<1> DEFINE M == Members(tCrawl.batch)
<1>2. \A o \in M : (AppliesIn(M, o)' <=> AppliesIn(M, o)) /\ (Claimed(tClaims, o)' <=> Claimed(tClaims, o))
  <2>1. \A o : AppliesIn(M, o)' <=> AppliesIn(M, o)
    BY DEF AppliesIn, AcceptedIn, ResolvesIn, Key, Target, Targets, Members
  <2>2. \A o : Claimed(tClaims, o)' <=> Claimed(tClaims, o)
    BY DEF Claimed
  <2> QED
    BY <2>1, <2>2
<1>3. M' = M
  BY DEF Members
<1>4. (tCrawl.st = "stored" => \A o \in M : Claimed(tClaims, o) \/ ~AppliesIn(M, o))'
  <2> SUFFICES ASSUME tCrawl'.st = "stored", NEW o \in M' PROVE Claimed(tClaims, o)' \/ ~AppliesIn(M, o)'
    OBVIOUS
  <2>1. o \in M /\ (Claimed(tClaims, o) \/ ~AppliesIn(M, o))
    BY <1>3 DEF TxInv
  <2> HIDE DEF M
  <2> QED
    BY <1>2, <2>1
<1>5. (tCrawl.st = "running" =>
         tCrawl.n >= 1 /\ \A t \in tCrawl.sent : \E r \in tRows : r.id = t.id /\ r.acct = t.acct /\ r.canon = t.canon)'
  BY DEF TxInv
<1> QED
  BY <1>1, <1>4, <1>5 DEF TxInv

\* Recovery promotes a stored batch again, and changes nothing.
LEMMA StoredBatch ==
  ASSUME TxInv, tCrawl.st = "stored"
  PROVE  PromotionOf(tCrawl.batch) = [rows |-> tRows, claims |-> tClaims]
<1>1. tCrawl.batch \in Batches
  BY DEF TxInv, TxTypes, CrawlRecords
<1>2. Len(tCrawl.batch) \in Nat
  <2>1. CASE tCrawl.batch = <<>>
    BY <2>1
  <2>2. CASE tCrawl.batch # <<>>
    <3>1. PICK k \in 1..MaxBatch : tCrawl.batch \in [1..k -> Observed]
      BY <1>1, <2>2 DEF Batches
    <3>2. k \in Nat
      BY TxNumbers
    <3> QED
      BY <3>1, <3>2
  <2> QED
    BY <2>1, <2>2
<1> QED
  BY <1>2, ReplayIs DEF TxInv, RowsAreOf

LEMMA StoreCrawlResultsKeeps ==
  ASSUME TxInv, StoreCrawlResults PROVE TxInv'
<1>1. /\ tCrawl.st \in {"running", "stored"} /\ tCrawl' = [tCrawl EXCEPT !.st = "stored"]
      /\ tRows' = PromotionOf(tCrawl.batch).rows /\ tClaims' = PromotionOf(tCrawl.batch).claims
      /\ tStore' = tStore /\ tGen' = tGen /\ tPlan' = tPlan /\ tCons' = tCons
  BY DEF StoreCrawlResults
<1>2. tCrawl \in CrawlRecords
  BY DEF TxInv, TxTypes
<1>3. /\ tCrawl'.n = tCrawl.n /\ tCrawl'.st = "stored" /\ tCrawl'.batch = tCrawl.batch
      /\ tCrawl'.sent = tCrawl.sent
  BY <1>1, <1>2 DEF CrawlRecords
<1>4. tCrawl' \in CrawlRecords
  BY <1>1, <1>2 DEF CrawlRecords
<1>5. TxTypes'
  BY <1>1, <1>3, <1>4 DEF TxInv, TxTypes
<1>6. \A p \in Planners : PlanFits(p)'
  BY <1>1, <1>3 DEF TxInv, PlanFits, PromotionReady
<1> DEFINE M == Members(tCrawl.batch)
<1>7. CASE tCrawl.st = "running"
  <2>1. PromotionOf(tCrawl.batch) = After(M, M) /\ Outcome(RowsAfter(M, M), ClaimsAfter(M, M))
    BY <1>7, RunningIsFresh
  <2>2. tRows' = RowsAfter(M, M) /\ tClaims' = ClaimsAfter(M, M)
    BY <1>1, <2>1 DEF After
  <2>3. RowsAreOf(tRows, Done)' /\ ClaimsAreOf(tClaims, Done)' /\ SentStands' /\ ConsumerFits'
    <3>1. Outcome(tRows', tClaims')
      BY <2>1, <2>2
    <3> QED
      BY <1>1, <1>3, <1>7, <3>1, PromotedKeeps
  <2>4. ASSUME NEW o \in M PROVE Claimed(tClaims, o)' \/ ~AppliesIn(M, o)
    <3>1. CASE AppliesIn(M, o)
      <4> DEFINE c == <<tCrawl.n, o.occ, IdIn(M, o)>>
      <4>1. c \in tClaims'
        BY <2>2, <3>1 DEF ClaimsAfter, Applied
      <4>2. c[1] = tCrawl.n /\ c[2] = o.occ
        OBVIOUS
      <4> HIDE DEF c
      <4> QED
        BY <1>3, <4>1, <4>2 DEF Claimed
    <3> QED
      BY <3>1
  <2>5. M' = M
    BY <1>3 DEF Members
  <2>6. (\A o \in M : Claimed(tClaims, o) \/ ~AppliesIn(M, o))'
    <3> SUFFICES ASSUME NEW o \in M' PROVE Claimed(tClaims, o)' \/ ~AppliesIn(M, o)'
      OBVIOUS
    <3>1. o \in M
      BY <2>5
    <3>2. AppliesIn(M, o)' <=> AppliesIn(M, o)
      <4>1. \A q : Targets(q)' = Targets(q) /\ Target(q)' = Target(q)
        BY <1>3 DEF Targets, Target
      <4>2. \A q : ResolvesIn(M, q)' <=> ResolvesIn(M, q)
        BY <2>5, <4>1 DEF ResolvesIn, Key
      <4> QED
        BY <2>5, <4>1, <4>2 DEF AppliesIn, AcceptedIn
    <3> HIDE DEF M
    <3> QED
      BY <2>4, <3>1, <3>2
  <2> QED
    BY <1>3, <1>5, <1>6, <2>3, <2>6 DEF TxInv
<1>8. CASE tCrawl.st = "stored"
  <2>1. tRows' = tRows /\ tClaims' = tClaims
    BY <1>1, <1>8, StoredBatch
  <2>2. tCrawl' = tCrawl
    BY <1>1, <1>2, <1>8 DEF CrawlRecords
  <2>3. ConsumerFits'
    BY <1>1, <2>1, <2>2 DEF TxInv, ConsumerFits, AfterCursor, Done
  <2> QED
    BY <1>5, <1>6, <2>1, <2>2, <2>3, SameCrawl
<1> QED
  BY <1>1, <1>7, <1>8

LEMMA CompleteCrawlKeeps ==
  ASSUME TxInv, CompleteCrawl PROVE TxInv'
<1>1. /\ tCrawl.st = "stored" /\ tCrawl' = [tCrawl EXCEPT !.st = "promoted"]
      /\ tStore' = tStore /\ tRows' = tRows /\ tClaims' = tClaims /\ tGen' = tGen /\ tPlan' = tPlan
      /\ tCons' = tCons
  BY DEF CompleteCrawl
<1>2. tCrawl \in CrawlRecords
  BY DEF TxInv, TxTypes
<1>3. /\ tCrawl'.n = tCrawl.n /\ tCrawl'.st = "promoted" /\ tCrawl'.batch = tCrawl.batch
      /\ tCrawl'.sent = tCrawl.sent
  BY <1>1, <1>2 DEF CrawlRecords
<1>4. tCrawl' \in CrawlRecords
  BY <1>1, <1>2 DEF CrawlRecords
<1>5. TxTypes'
  BY <1>1, <1>3, <1>4 DEF TxInv, TxTypes
<1>6. Done' = Done
  BY <1>1, <1>3 DEF Done
<1>7. RowsAreOf(tRows, Done)' /\ ClaimsAreOf(tClaims, Done)'
  BY <1>1, <1>6 DEF TxInv, RowsAreOf, ClaimsAreOf
<1>8. ConsumerFits'
  BY <1>1, <1>6 DEF TxInv, ConsumerFits, AfterCursor
<1>9. SentStands'
  BY <1>1, <1>3 DEF TxInv, SentStands
<1>10. \A p \in Planners : PlanFits(p)'
  BY <1>1, <1>3 DEF TxInv, PlanFits, PromotionReady
<1> QED
  BY <1>3, <1>5, <1>7, <1>8, <1>9, <1>10 DEF TxInv

\* A plan knows what it comes to for as long as its generation is the active one.
LEMMA PlanCrawlResultsKeeps ==
  ASSUME TxInv, NEW p \in Planners, PlanCrawlResults(p) PROVE TxInv'
<1> DEFINE made == PromotionOf(tCrawl.batch)
           plan == [scope |-> tCrawl.n, base |-> tGen, rows |-> made.rows, claims |-> made.claims]
           M == Members(tCrawl.batch)
<1>1. /\ tCrawl.st = "running" /\ tCrawl.batch # <<>> /\ tPlan' = [tPlan EXCEPT ![p] = plan]
      /\ tStore' = tStore /\ tCrawl' = tCrawl /\ tRows' = tRows /\ tClaims' = tClaims /\ tGen' = tGen
      /\ tCons' = tCons
  BY DEF PlanCrawlResults
<1>2. made = After(M, M) /\ Outcome(RowsAfter(M, M), ClaimsAfter(M, M))
  BY <1>1, RunningIsFresh
<1> HIDE DEF made
<1>3. Outcome(made.rows, made.claims)
  BY <1>2 DEF After
<1>4. tCrawl.n \in 0..MaxCrawls /\ tGen \in Nat /\ tPlan \in [Planners -> Plans]
  BY DEF TxInv, TxTypes, CrawlRecords
<1>5. made.rows \subseteq Row /\ made.claims \subseteq Claims
  BY <1>3 DEF Outcome, RowsAreOf, ClaimsAreOf
<1>6. plan \in Plans
  BY <1>4, <1>5 DEF Plans
<1>7. plan.scope = tCrawl.n /\ plan.base = tGen /\ plan.rows = made.rows /\ plan.claims = made.claims
  OBVIOUS
<1> HIDE DEF plan
<1>8. tPlan'[p] = plan /\ \A q \in Planners : q # p => tPlan'[q] = tPlan[q]
  BY <1>1, <1>4
<1>9. tPlan' \in [Planners -> Plans]
  BY <1>1, <1>4, <1>6
<1>10. TxTypes'
  BY <1>1, <1>9 DEF TxInv, TxTypes
<1>12. PlanFits(p)'
  <2>1. tCrawl.n <= tCrawl.n /\ tGen <= tGen
    BY <1>4, TxNumbers
  <2>2. Outcome(tPlan'[p].rows, tPlan'[p].claims)
    BY <1>3, <1>7, <1>8
  <2>3. Outcome(tPlan[p].rows, tPlan[p].claims)'
    BY <1>1, <2>2 DEF Outcome, RowsAreOf, ClaimsAreOf
  <2> QED
    BY <1>1, <1>7, <1>8, <2>1, <2>3 DEF PlanFits
<1>13. ASSUME NEW q \in Planners, q # p PROVE PlanFits(q)'
  <2>1. PlanFits(q) /\ tPlan'[q] = tPlan[q]
    BY <1>8, <1>13 DEF TxInv
  <2>2. Outcome(tPlan[q].rows, tPlan[q].claims) => Outcome(tPlan[q].rows, tPlan[q].claims)'
    BY <1>1, <2>1 DEF Outcome, RowsAreOf, ClaimsAreOf
  <2>3. PromotionReady(q)' <=> PromotionReady(q)
    BY <1>1, <2>1 DEF PromotionReady
  <2> QED
    BY <1>1, <2>1, <2>2, <2>3 DEF PlanFits
<1>14. ConsumerFits'
  BY <1>1 DEF TxInv, ConsumerFits, AfterCursor, Done
<1> QED
  BY <1>1, <1>10, <1>12, <1>13, <1>14, SameCrawl

\* A plan from an older generation, or of an older crawl, is dropped.
LEMMA PromotePlanKeeps ==
  ASSUME TxInv, NEW p \in Planners, PromotePlan(p) PROVE TxInv'
<1>1. tPlan' = [tPlan EXCEPT ![p] = NoPlan] /\ tStore' = tStore /\ tCons' = tCons
  BY DEF PromotePlan
<1>2. tCrawl \in CrawlRecords /\ tGen \in Nat /\ tPlan \in [Planners -> Plans]
  BY DEF TxInv, TxTypes
<1>3. NoPlan \in Plans /\ NoPlan.scope = 0 /\ NoPlan.base = 0
  BY TxNumbers DEF NoPlan, Plans
<1>4. tPlan' \in [Planners -> Plans] /\ tPlan'[p] = NoPlan /\ \A q \in Planners : q # p => tPlan'[q] = tPlan[q]
  BY <1>1, <1>2, <1>3
<1>5. CASE PromotionReady(p)
  <2>1. /\ tRows' = tPlan[p].rows /\ tClaims' = tPlan[p].claims /\ tGen' = tGen + 1
        /\ tCrawl' = [tCrawl EXCEPT !.st = "promoted"] /\ tCrawl.st = "running"
    BY <1>5 DEF PromotePlan, PromotionReady
  <2>2. /\ tCrawl'.n = tCrawl.n /\ tCrawl'.st = "promoted" /\ tCrawl'.batch = tCrawl.batch
        /\ tCrawl'.sent = tCrawl.sent
    BY <1>2, <2>1 DEF CrawlRecords
  <2>3. tCrawl' \in CrawlRecords
    BY <1>2, <2>1 DEF CrawlRecords
  <2>4. tGen + 1 \in Nat
    BY <1>2
  <2>5. TxTypes'
    BY <1>1, <1>4, <2>1, <2>2, <2>3, <2>4 DEF TxInv, TxTypes
  <2>6. Outcome(tRows', tClaims')
    BY <1>5, <2>1 DEF TxInv, PlanFits
  <2>7. RowsAreOf(tRows, Done)' /\ ClaimsAreOf(tClaims, Done)' /\ SentStands' /\ ConsumerFits'
    BY <1>1, <2>1, <2>2, <2>6, PromotedKeeps
  <2>8. ASSUME NEW q \in Planners PROVE PlanFits(q)'
    <3>1. ~PromotionReady(q)'
      BY <2>2 DEF PromotionReady
    <3>2. tPlan'[q].scope <= tCrawl.n /\ tPlan'[q].base <= tGen + 1
      <4>1. tCrawl.n \in Nat /\ 0 <= tCrawl.n /\ 0 <= tGen + 1
        BY <1>2, TxNumbers DEF CrawlRecords
      <4>2. CASE q = p
        BY <1>3, <1>4, <4>1, <4>2
      <4>3. CASE q # p
        <5>1. tPlan[q].scope <= tCrawl.n /\ tPlan[q].base <= tGen /\ tPlan[q].base \in Nat
          BY <1>2 DEF TxInv, PlanFits, Plans
        <5>2. tPlan[q].base <= tGen + 1
          BY <1>2, <5>1
        <5> QED
          BY <1>4, <4>3, <5>1, <5>2
      <4> QED
        BY <4>2, <4>3
    <3> QED
      BY <2>1, <2>2, <3>1, <3>2 DEF PlanFits
  <2> QED
    BY <2>2, <2>5, <2>7, <2>8 DEF TxInv
<1>6. CASE ~PromotionReady(p)
  <2>1. tRows' = tRows /\ tClaims' = tClaims /\ tGen' = tGen /\ tCrawl' = tCrawl
    BY <1>6 DEF PromotePlan
  <2>2. TxTypes'
    BY <1>1, <1>4, <2>1 DEF TxInv, TxTypes
  <2>3. ASSUME NEW q \in Planners PROVE PlanFits(q)'
    <3>1. CASE q = p
      <4>1. tCrawl.n \in Nat /\ 0 <= tCrawl.n /\ 0 <= tGen
        BY <1>2, TxNumbers DEF CrawlRecords
      <4>2. tCrawl.st = "running" => tCrawl.n # 0
        BY DEF TxInv
      <4>3. ~PromotionReady(q)'
        BY <1>3, <1>4, <2>1, <3>1, <4>2 DEF PromotionReady
      <4> QED
        BY <1>3, <1>4, <2>1, <3>1, <4>1, <4>3 DEF PlanFits
    <3>2. CASE q # p
      <4>1. PlanFits(q) /\ tPlan'[q] = tPlan[q]
        BY <1>4, <3>2 DEF TxInv
      <4>2. Outcome(tPlan[q].rows, tPlan[q].claims) => Outcome(tPlan[q].rows, tPlan[q].claims)'
        BY <2>1, <4>1 DEF Outcome, RowsAreOf, ClaimsAreOf
      <4>3. PromotionReady(q)' <=> PromotionReady(q)
        BY <2>1, <4>1 DEF PromotionReady
      <4> QED
        BY <2>1, <4>1, <4>2, <4>3 DEF PlanFits
    <3> QED
      BY <3>1, <3>2
  <2>4. ConsumerFits'
    BY <1>1, <2>1 DEF TxInv, ConsumerFits, AfterCursor, Done
  <2> QED
    BY <2>1, <2>2, <2>3, <2>4, SameCrawl
<1> QED
  BY <1>5, <1>6

\* The page ends at its last row: what is not in it is still after the cursor.
LEMMA SyncPageKeeps ==
  ASSUME TxInv, SyncPage PROVE TxInv'
<1> DEFINE rest == {r \in tRows : AfterCursor(r)}
           page == {r \in rest : Cardinality({s \in rest : Before(s, r)}) < PageLimit}
           last == CHOOSE r \in page : \A s \in page : s = r \/ Before(s, r)
           seen == {v \in tCons.seen : \A r \in page : r.id # v[1]} \cup {<<r.id, r.updated>> : r \in page}
<1>1. /\ rest # {} /\ tCons' = [at |-> last.updated, id |-> last.id, seen |-> seen]
      /\ tStore' = tStore /\ tCrawl' = tCrawl /\ tRows' = tRows /\ tClaims' = tClaims /\ tGen' = tGen
      /\ tPlan' = tPlan
  BY DEF SyncPage
<1>2. Done \in Nat /\ RowsAreOf(tRows, Done)
  <2>1. tCrawl.n \in Nat /\ (tCrawl.st = "running" => tCrawl.n >= 1)
    BY TxNumbers DEF TxInv, TxTypes, CrawlRecords
  <2> QED
    BY <2>1 DEF Done, TxInv
<1>3. rest \subseteq tRows
  OBVIOUS
<1>4. page # {} /\ \A r \in page, q \in rest : Before(q, r) => q \in page
  <2> HIDE DEF rest
  <2> QED
    BY <1>1, <1>2, <1>3, PageIsFirst
<1>5. page \subseteq rest
  OBVIOUS
<1> HIDE DEF page
<1>6. \E r \in page : \A s \in page : s = r \/ Before(s, r)
  BY <1>2, <1>3, <1>4, <1>5, FirstAndLast
<1>7. last \in page /\ \A s \in page : s = last \/ Before(s, last)
  BY <1>6
<1> HIDE DEF last
<1>8. /\ \A r \in tRows : r.id \in Nat /\ r.updated \in Nat /\ r.updated <= Done
      /\ \A r, s \in tRows : r.id = s.id => r = s
  BY <1>2 DEF RowsAreOf, Row
<1>9. last \in tRows
  BY <1>3, <1>5, <1>7
<1>10. tCons'.at = last.updated /\ tCons'.id = last.id /\ tCons'.seen = seen
  BY <1>1
<1>11. \A r \in tRows : AfterCursor(r)' <=> Before(last, r)
  <2> SUFFICES ASSUME NEW r \in tRows PROVE AfterCursor(r)' <=> Before(last, r)
    OBVIOUS
  <2>1. r.id \in Nat /\ r.updated \in Nat /\ last.id \in Nat /\ last.updated \in Nat
    BY <1>8, <1>9
  <2> QED
    BY <1>10, <2>1 DEF AfterCursor, Before
<1>12. tCons.seen \subseteq Nat \X Nat
  BY DEF TxInv, ConsumerFits
<1>13. seen \subseteq Nat \X Nat
  BY <1>3, <1>5, <1>8, <1>12
<1>14. tCons' \in [at : Nat, id : Nat, seen : SUBSET (Nat \X Nat)]
  <2>1. last.updated \in Nat /\ last.id \in Nat
    BY <1>8, <1>9
  <2> HIDE DEF seen
  <2> QED
    BY <1>1, <1>13, <2>1
<1>15. ASSUME NEW v \in seen PROVE \E r \in tRows : r.id = v[1] /\ (v[2] = r.updated \/ Before(last, r))
  <2>1. CASE v \in tCons.seen /\ \A r \in page : r.id # v[1]
    <3>1. PICK r \in tRows : r.id = v[1] /\ (v[2] = r.updated \/ AfterCursor(r))
      BY <2>1 DEF TxInv, ConsumerFits
    <3>2. CASE v[2] = r.updated
      BY <3>1, <3>2
    <3>3. CASE AfterCursor(r)
      <4>1. r \in rest /\ r \notin page
        BY <2>1, <3>1, <3>3
      <4>2. ~Before(r, last) /\ r # last
        BY <1>4, <1>7, <4>1
      <4>3. Before(last, r)
        BY <1>2, <1>9, <4>2, BeforeIsOrder
      <4> QED
        BY <3>1, <4>3
    <3> QED
      BY <3>1, <3>2, <3>3
  <2>2. CASE \E r \in page : v = <<r.id, r.updated>>
    BY <1>3, <1>5, <2>2
  <2> QED
    BY <2>1, <2>2
<1>16. ASSUME NEW r \in tRows, ~Before(last, r) PROVE <<r.id, r.updated>> \in seen
  <2>1. CASE r \in rest
    <3>1. r = last \/ Before(r, last)
      BY <1>2, <1>9, <1>16, BeforeIsOrder
    <3>2. r \in page
      BY <1>4, <1>7, <2>1, <3>1
    <3> QED
      BY <3>2
  <2>2. CASE r \notin rest
    <3>1. <<r.id, r.updated>> \in tCons.seen
      BY <2>2 DEF TxInv, ConsumerFits
    <3>2. \A q \in page : q.id # r.id
      BY <1>3, <1>5, <1>8, <2>2
    <3> QED
      BY <3>1, <3>2
  <2> QED
    BY <2>1, <2>2
<1>17. Done' = Done
  BY <1>1 DEF Done
<1> HIDE DEF seen
<1>18. ConsumerFits'
  BY <1>1, <1>8, <1>9, <1>10, <1>11, <1>14, <1>15, <1>16, <1>17 DEF ConsumerFits
<1>19. TxTypes'
  BY <1>1 DEF TxInv, TxTypes
<1>20. ASSUME NEW p \in Planners PROVE PlanFits(p)'
  BY <1>1 DEF TxInv, PlanFits, PromotionReady, Outcome, RowsAreOf, ClaimsAreOf
<1> QED
  BY <1>1, <1>18, <1>19, <1>20, SameCrawl

\* TxInv is inductive: one step per action.
LEMMA TxInvHolds == TxSpec => []TxInv
<1>1. ASSUME TxInv, [TxNext]_txVars PROVE TxInv'
  <2>1. CASE StartCrawl
    BY <1>1, <2>1, StartCrawlKeeps
  <2>2. CASE ReturnBatch
    BY <1>1, <2>2, ReturnBatchKeeps
  <2>3. CASE StoreCrawlResults
    BY <1>1, <2>3, StoreCrawlResultsKeeps
  <2>4. CASE CompleteCrawl
    BY <1>1, <2>4, CompleteCrawlKeeps
  <2>5. CASE SyncPage
    BY <1>1, <2>5, SyncPageKeeps
  <2>6. ASSUME NEW p \in Planners, PlanCrawlResults(p) PROVE TxInv'
    BY <1>1, <2>6, PlanCrawlResultsKeeps
  <2>7. ASSUME NEW p \in Planners, PromotePlan(p) PROVE TxInv'
    BY <1>1, <2>7, PromotePlanKeeps
  <2>8. CASE UNCHANGED txVars
    <3>1. /\ tStore' = tStore /\ tCrawl' = tCrawl /\ tRows' = tRows /\ tClaims' = tClaims /\ tGen' = tGen
          /\ tPlan' = tPlan /\ tCons' = tCons
      BY <2>8 DEF txVars
    <3>2. TxTypes'
      BY <1>1, <3>1 DEF TxInv, TxTypes
    <3>3. ConsumerFits'
      BY <1>1, <3>1 DEF TxInv, ConsumerFits, AfterCursor, Done
    <3>4. ASSUME NEW p \in Planners PROVE PlanFits(p)'
      BY <1>1, <3>1 DEF TxInv, PlanFits, PromotionReady, Outcome, RowsAreOf, ClaimsAreOf
    <3> QED
      BY <1>1, <3>1, <3>2, <3>3, <3>4, SameCrawl
  <2> QED
    BY <1>1, <2>1, <2>2, <2>3, <2>4, <2>5, <2>6, <2>7, <2>8 DEF TxNext
<1> QED
  BY <1>1, TxInitKeeps, PTL DEF TxSpec

\* Movements keep their identity from the bank's statement to the consumer:
\* no reference is on two rows of an account, no two observations of a crawl
\* become one row, the order of the batch decides nothing, and a consumer that
\* has read to the end has every row (resolveTransactionIdentity,
\* promoteTransactions, sync).
THEOREM IdentityStaysSound == TxSpec => []IdentityIsSound
<1>1. ASSUME TxInv PROVE IdentityIsSound
  <2>1. TxTypeOK
    BY <1>1 DEF TxInv, TxTypes, CrawlRecords, RowsAreOf, ClaimsAreOf, Claims, ConsumerFits, TxTypeOK
  <2>2. ReferenceIsUnique /\ ObservationsStayApart
    BY <1>1 DEF TxInv, RowsAreOf, ClaimsAreOf, ReferenceIsUnique, ObservationsStayApart
  <2>3. OrderDoesNotMatter
    <3> SUFFICES ASSUME tCrawl.st = "running" PROVE PromotionOf(tCrawl.batch) = PromotionOf(Reverse(tCrawl.batch))
      BY DEF OrderDoesNotMatter
    <3> DEFINE M == Members(tCrawl.batch)
               back == Reverse(tCrawl.batch)
    <3>1. /\ Fresh(M) /\ Numbered(tCrawl.batch) /\ PromotionOf(tCrawl.batch) = After(M, M)
          /\ \E n \in Nat : tCrawl.batch = [i \in 1..n |-> tCrawl.batch[i]]
      BY <1>1, RunningIsFresh
    <3>2. Len(back) \in Nat /\ Numbered(back) /\ Members(back) = M
      BY <3>1, ReverseKeeps
    <3> HIDE DEF back, M
    <3>3. PromotionOf(back) = After(M, M)
      BY <3>1, <3>2, PromotionIs
    <3> QED
      BY <3>1, <3>3 DEF back
  <2>4. DrainedConsumerIsCurrent
    <3> SUFFICES ASSUME \A r \in tRows : ~AfterCursor(r)
                 PROVE  tCons.seen = {<<r.id, r.updated>> : r \in tRows}
      BY DEF DrainedConsumerIsCurrent
    <3>1. tCons.seen \subseteq Nat \X Nat
      BY <1>1 DEF TxInv, ConsumerFits
    <3>2. \A v \in tCons.seen : v = <<v[1], v[2]>>
      BY <3>1
    <3>3. \A v \in tCons.seen : \E r \in tRows : r.id = v[1] /\ r.updated = v[2]
      BY <1>1 DEF TxInv, ConsumerFits
    <3>4. \A r \in tRows : <<r.id, r.updated>> \in tCons.seen
      BY <1>1 DEF TxInv, ConsumerFits
    <3> QED
      BY <3>2, <3>3, <3>4
  <2> QED
    BY <2>1, <2>2, <2>3, <2>4 DEF IdentityIsSound
<1> QED
  BY <1>1, TxInvHolds, PTL

\* Promoting a crawl adds its rows once and rewrites only what it was asked to,
\* in one transaction, again after a crash, and from any plan (storeCrawlResults,
\* planCrawlResults, decidePromotionReadiness).
THEOREM PromotionStaysSafe == TxSpec => PromotionIsSafe
<1> DEFINE Overwrites ==
             \A r \in tRows : \E s \in tRows' :
               /\ s.id = r.id
               /\ s = r \/ \E t \in tCrawl.sent : \E k \in 1..Len(tCrawl.batch) :
                             t.id = r.id /\ t.canon = tCrawl.batch[k].upd /\ t.acct = tCrawl.batch[k].acct
           Once == tCrawl.st \in {"stored", "promoted"} => tRows' = tRows /\ tClaims' = tClaims
<1>1. ASSUME TxInv, TxNext PROVE Overwrites /\ Once
  <2>1. ASSUME tRows' = tRows, tClaims' = tClaims PROVE Overwrites /\ Once
    BY <2>1
  <2>2. ASSUME tCrawl.st = "running", Outcome(tRows', tClaims') PROVE Overwrites /\ Once
    BY <2>2 DEF Outcome
  <2> HIDE DEF Overwrites, Once
  <2>3. CASE StoreCrawlResults
    <3>1. /\ tCrawl.st \in {"running", "stored"}
          /\ tRows' = PromotionOf(tCrawl.batch).rows /\ tClaims' = PromotionOf(tCrawl.batch).claims
      BY <2>3 DEF StoreCrawlResults
    <3>2. CASE tCrawl.st = "running"
      <4> DEFINE M == Members(tCrawl.batch)
      <4>1. PromotionOf(tCrawl.batch) = After(M, M) /\ Outcome(RowsAfter(M, M), ClaimsAfter(M, M))
        BY <1>1, <3>2, RunningIsFresh
      <4>2. tRows' = RowsAfter(M, M) /\ tClaims' = ClaimsAfter(M, M)
        BY <3>1, <4>1 DEF After
      <4>3. Outcome(tRows', tClaims')
        BY <4>1, <4>2
      <4> QED
        BY <2>2, <3>2, <4>3
    <3>3. CASE tCrawl.st = "stored"
      <4>1. tRows' = tRows /\ tClaims' = tClaims
        BY <1>1, <3>1, <3>3, StoredBatch
      <4> QED
        BY <2>1, <4>1
    <3> QED
      BY <3>1, <3>2, <3>3
  <2>4. ASSUME NEW p \in Planners, PromotePlan(p) PROVE Overwrites /\ Once
    <3>1. CASE PromotionReady(p)
      <4>1. tRows' = tPlan[p].rows /\ tClaims' = tPlan[p].claims /\ tCrawl.st = "running"
        BY <2>4, <3>1 DEF PromotePlan, PromotionReady
      <4>2. Outcome(tRows', tClaims')
        BY <1>1, <3>1, <4>1 DEF TxInv, PlanFits
      <4> QED
        BY <2>2, <4>1, <4>2
    <3>2. CASE ~PromotionReady(p)
      BY <2>1, <2>4, <3>2 DEF PromotePlan
    <3> QED
      BY <3>1, <3>2
  <2>5. CASE StartCrawl \/ ReturnBatch \/ CompleteCrawl \/ SyncPage \/ \E p \in Planners : PlanCrawlResults(p)
    BY <2>1, <2>5 DEF StartCrawl, ReturnBatch, CompleteCrawl, SyncPage, PlanCrawlResults
  <2> QED
    BY <1>1, <2>3, <2>4, <2>5 DEF TxNext
<1>2. ASSUME TxInv, [TxNext]_txVars PROVE [Overwrites]_txVars /\ [Once]_txVars
  <2> HIDE DEF Overwrites, Once
  <2> QED
    BY <1>1, <1>2
<1>3. TxSpec => [][Overwrites]_txVars /\ [][Once]_txVars
  BY <1>2, TxInvHolds, PTL DEF TxSpec
<1>4. OnlyUpdatesOverwrite <=> [][Overwrites]_txVars
  BY PTL DEF OnlyUpdatesOverwrite
<1>5. PromotedOnce <=> [][Once]_txVars
  BY PTL DEF PromotedOnce
<1> QED
  BY <1>3, <1>4, <1>5 DEF PromotionIsSafe
=============================================================================
