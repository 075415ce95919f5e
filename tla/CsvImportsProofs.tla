-------------------------- MODULE CsvImportsProofs --------------------------
(***************************************************************************)
(* Proofs about CsvImports, for any operators, batches, files, keys and    *)
(* identities.                                                             *)
(*                                                                         *)
(* The inductive invariant IInv joins what the rows say (BatchInv: a       *)
(* commit that was not scrubbed can be reconciled from its rows; MapInv: a *)
(* map entry names a committed batch and the record it made) with what a   *)
(* transaction knows at each of its steps (Knows: its batch is still the   *)
(* one it locked, its plan holds, the locks it has are below those it      *)
(* wants, the rows it will write are mapped by nobody) and with how two    *)
(* transactions are apart (no batch and no lock in common).  Without the   *)
(* last two nothing says that the rows found free under the locks are free *)
(* at COMMIT.  A step is one of three kinds: it moves one transaction and  *)
(* leaves the rows (LocalMove), it changes rows that no plan reads         *)
(* (Rested, ScrubbingKeeps), or it lands a plan (Landed).                  *)
(***************************************************************************)
EXTENDS CsvImports, FiniteSetTheorems, WellFoundedInduction, TLAPS

-----------------------------------------------------------------------------
(* Types                                                                   *)

Pcs == {"idle", "begun", "locked", "keyed", "identities", "checked", "inserted", "recorded",
        "committing"}
Refusals == {"CONFLICTED", "FAILED"}

BatchRows(b) ==
    [status : {"NONE", "PREVIEWED", "COMMITTED", "EXPIRED"}, rows : Files[b] \cup {<<>>},
     outcomes : Seq({"PENDING", "COMMITTED", "EXACT_DUPLICATE"}),
     key : Keys \cup {None}, mapping : Mappings \cup {None},
     version : {"NONE", "LEGACY", "V2"}, conflict : Refusals \cup {"NONE", "COMMITTED"},
     expired : BOOLEAN, cleanup : {"NONE", "PENDING", "FAILED", "SUCCEEDED"}]

\* What Materialize writes for the rows `fresh' of a batch.
CommitPut(b, rows, mapping, fresh) ==
    [kind |-> "commit",
     records |-> RecordsOf(b, rows, mapping, fresh),
     maps |-> MapsOf(b, rows, mapping, fresh),
     outcomes |-> [i \in DOMAIN rows |-> Outcome(rows, fresh, i)]]

PutsOf(b, f) == {CommitPut(b, f, m, new) : m \in Mappings, new \in SUBSET DOMAIN f}

Puts == {NoPut} \cup {Attempt(o) : o \in Refusals}
          \cup UNION {UNION {PutsOf(b, f) : f \in Files[b]} : b \in Batches}

Transactions ==
    [pc : Pcs, batch : Batches \cup {None}, key : Keys \cup {None}, mapping : Mappings \cup {None},
     seen : Nat, held : SUBSET (Keys \cup Sources \cup Targets), put : Puts,
     answer : Refusals \cup {"NONE", "COMMITTED", "RECONCILED"}]

Typed ==
    /\ DOMAIN batch = Batches /\ \A b \in Batches : batch[b] \in BatchRows(b)
    /\ DOMAIN record = Targets /\ \A t \in Targets : record[t].by \in {"none", "crm", "import"}
    /\ DOMAIN idMap = Sources
    /\ \A s \in Sources : idMap[s] # NoMap =>
         idMap[s].batch \in Batches /\ idMap[s].target \in Targets
    /\ tx \in [Operators -> Transactions]
    /\ requests \in 0..MaxRequests
    /\ offboarding \in {"NONE", "PENDING", "FAILED", "OFFBOARDED_ACCESS_REVOKED"}

-----------------------------------------------------------------------------
(* The committed rows                                                      *)

Kept(s) == s.cleanup \in {"PENDING", "FAILED"}

\* The rows of a batch go with its scrub, and a commit that was not scrubbed can
\* be reconciled from them.
Reconcilable(b) ==
    \A i \in DOMAIN batch[b].rows : ExactLegacyRowEvidence(b, batch[b].mapping, i)

BatchGood(b) ==
    LET s == batch[b] IN
    /\ ~Kept(s) => s.rows = <<>>
    /\ Kept(s) => s.status \in {"PREVIEWED", "COMMITTED"} /\ s.rows \in Files[b]
    /\ s.status = "PREVIEWED" => Kept(s)
    /\ s.status # "COMMITTED" => s.key = None
    /\ s.status = "COMMITTED" /\ Kept(s) =>
         /\ s.mapping \in Mappings /\ s.version \in {"LEGACY", "V2"}
         /\ s.version = "LEGACY" => s.mapping \notin WithCurrency
         /\ Prepare(s.rows, s.mapping) = "READY"
         /\ Reconcilable(b)

BatchInv == \A b \in Batches : BatchGood(b)

\* A map entry names a committed batch and the record it made of the row, and an
\* imported record has its entry.
MapInv ==
    /\ \A s \in Sources : idMap[s] # NoMap =>
        /\ batch[idMap[s].batch].status = "COMMITTED"
        /\ record[idMap[s].target] =
            [by |-> "import", batch |-> idMap[s].batch, payload |-> idMap[s].payload]
    /\ \A t \in Targets : record[t].by = "import" => \E s \in Sources : idMap[s].target = t

OffboardingInv == ~Live => \A b \in Batches : batch[b].rows = <<>>

-----------------------------------------------------------------------------
(* What a transaction knows                                                *)

InTenant(t) == t.pc \notin {"idle", "begun"}
Writing(t) == t.pc \in {"inserted", "recorded"} \/ (t.pc = "committing" /\ t.answer = "COMMITTED")
Settled(t) == t.pc = "checked" \/ Writing(t)
Planned(t) == t.pc = "identities" \/ Settled(t)

Phase(t) ==
    /\ t.pc # "idle" => t.batch \in Batches /\ t.key \in Keys /\ t.mapping \in Mappings
    /\ InTenant(t) => Live
    /\ InTenant(t) /\ t.pc # "committing" => batch[t.batch].status = "PREVIEWED"
    /\ t.pc = "committing" =>
         IF t.put = NoPut
         THEN /\ batch[t.batch].status = "COMMITTED" /\ t.answer \in {"RECONCILED", "CONFLICTED"}
              /\ t.answer = "RECONCILED" <=>
                   batch[t.batch].key = t.key /\ batch[t.batch].mapping = t.mapping
         ELSE /\ batch[t.batch].status = "PREVIEWED" /\ t.answer \in Refusals \cup {"COMMITTED"}
              /\ t.answer \in Refusals => t.put = Attempt(t.answer)
    /\ ~Writing(t) /\ t.pc # "committing" => t.put = NoPut
    /\ t.pc \in {"idle", "begun", "locked", "keyed"} => t.held = {}

\* The rows not mapped yet.
Fresh(rows) == {i \in Primary(rows) : idMap[rows[i].source.raw] = NoMap}

\* Under its locks: the key, then the identities in ascending order.
Guarded(t) == Planned(t) =>
    LET rows == batch[t.batch].rows IN
    /\ Prepare(rows, t.mapping) = "READY"
    /\ t.key \in t.held /\ t.held \subseteq {t.key} \cup IdentityLocks(rows)
    /\ \A h \in t.held \ {t.key}, k \in IdentityLocks(rows) \ t.held : h < k
    /\ \A d \in Batches : batch[d].key # t.key

Decided(t) == Settled(t) =>
    LET rows == batch[t.batch].rows IN
    /\ IdentityLocks(rows) \subseteq t.held
    /\ \A i \in Primary(rows) : i \in Fresh(rows) \/ i \in AlreadyMapped(rows, t.mapping)
    /\ \A i, j \in Fresh(rows) : Target(rows[i]) = Target(rows[j]) => i = j

Written(t) == Writing(t) =>
    LET rows == batch[t.batch].rows IN
    /\ t.put = CommitPut(t.batch, rows, t.mapping, Fresh(rows))
    /\ \A i \in Fresh(rows) : record[Target(rows[i])] = NoRecord

Knows(t) == Phase(t) /\ Guarded(t) /\ Decided(t) /\ Written(t)

Apart(t, r) ==
    /\ InTenant(t) /\ InTenant(r) => t.batch # r.batch
    /\ t.held \cap r.held = {}

IInv ==
    /\ Typed /\ BatchInv /\ MapInv /\ OffboardingInv
    /\ \A c \in Operators : Knows(tx[c])
    /\ \A c, d \in Operators : c # d => Apart(tx[c], tx[d])

-----------------------------------------------------------------------------
(* Lemmas on the rows of a file                                            *)

\* A set of numbers that is not empty has a least one.
LEMMA LeastOf ==
  ASSUME NEW S \in SUBSET Nat, S # {}
  PROVE  \E x \in S : \A y \in S : x <= y
<1> DEFINE R == OpToRel(<, Nat)
<1>1. IsWellFoundedOn(R, Nat)
  BY NatLessThanWellFounded
<1>2. \A m, n \in Nat : m < n => <<m, n>> \in R
  BY DEF OpToRel
<1> HIDE DEF R
<1>3. PICK x \in S : \A y \in S : <<y, x>> \notin R
  BY <1>1, WFMin
<1>4. ASSUME NEW y \in S PROVE x <= y
  <2>1. x \in Nat /\ y \in Nat
    OBVIOUS
  <2>2. ~(y < x)
    BY <1>2, <1>3, <2>1
  <2> QED
    BY <2>1, <2>2
<1> QED
  BY <1>4

LEMMA FileIs ==
  ASSUME NEW b \in Batches, NEW f \in Files[b]
  PROVE  /\ f \in Seq(Row) /\ f # <<>> /\ Len(f) \in Nat /\ DOMAIN f = 1..Len(f)
         /\ \A i \in DOMAIN f : /\ f[i] \in Row
                                /\ f[i].source.raw \in Sources /\ f[i].id.raw \in Targets
<1>1. f \in Seq(Row) /\ f # <<>>
  BY ImportAssumption
<1>2. \A i \in DOMAIN f : f[i].source.raw \in Sources /\ f[i].id.raw \in Targets
  BY ImportAssumption
<1> QED
  BY <1>1, <1>2

\* A prepared file has no absent identifier, and rows of one source are the same.
LEMMA ReadyIs ==
  ASSUME NEW f, NEW m, Prepare(f, m) = "READY"
  PROVE  \A i \in DOMAIN f : ~RowInvalid(f[i]) /\ f[FirstWithSource(f, i)] = f[i]
  BY DEF Prepare

LEMMA ReadyRow ==
  ASSUME NEW b \in Batches, NEW f \in Files[b], NEW m, Prepare(f, m) = "READY",
         NEW i \in DOMAIN f
  PROVE  Target(f[i]) \in Targets /\ f[i].source.raw \in Sources
<1>1. f[i].source.raw \in Sources /\ f[i].id.raw \in Targets
  BY FileIs
<1>2. ~RowInvalid(f[i])
  BY ReadyIs
<1>3. ~Absent(f[i].id)
  BY <1>2 DEF RowInvalid, FieldInvalid, Fields, Required
<1>4. CellValue("id", f[i].id) = [kind |-> "RAW", raw |-> f[i].id.raw]
  BY <1>3 DEF CellValue, Absent
<1> QED
  BY <1>1, <1>4 DEF Target

\* The first row of a source.
LEMMA FirstRow ==
  ASSUME NEW b \in Batches, NEW f \in Files[b], NEW i \in DOMAIN f
  PROVE  LET j == FirstWithSource(f, i)
         IN  /\ j \in DOMAIN f /\ j <= i
             /\ f[j].source.raw = f[i].source.raw
             /\ \A k \in 1..(j - 1) : f[k].source.raw # f[i].source.raw
<1>1. DOMAIN f = 1..Len(f) /\ Len(f) \in Nat
  BY FileIs
<1> DEFINE S == {j \in 1..i : f[j].source.raw = f[i].source.raw}
<1>2. S \in SUBSET Nat /\ i \in S
  BY <1>1
<1>3. PICK x \in S : \A y \in S : x <= y
  BY <1>2, LeastOf
<1>4. /\ x \in 1..i /\ f[x].source.raw = f[i].source.raw
      /\ \A k \in 1..(x - 1) : f[k].source.raw # f[i].source.raw
  BY <1>1, <1>3
<1>5. LET j == FirstWithSource(f, i)
      IN  /\ j \in 1..i /\ f[j].source.raw = f[i].source.raw
          /\ \A k \in 1..(j - 1) : f[k].source.raw # f[i].source.raw
  BY <1>4, Zenon DEF FirstWithSource
<1> QED
  BY <1>1, <1>5

LEMMA PrimaryIs ==
  ASSUME NEW b \in Batches, NEW f \in Files[b]
  PROVE  /\ Primary(f) \subseteq DOMAIN f
         /\ \A i \in DOMAIN f : \E j \in Primary(f) :
              f[j].source.raw = f[i].source.raw /\ j = FirstWithSource(f, i)
         /\ \A i, j \in Primary(f) : f[i].source.raw = f[j].source.raw => i = j
<1>1. DOMAIN f = 1..Len(f) /\ Len(f) \in Nat
  BY FileIs
<1>2. Primary(f) \subseteq DOMAIN f
  BY DEF Primary
<1>3. ASSUME NEW i \in DOMAIN f, NEW j \in DOMAIN f, f[i].source.raw = f[j].source.raw
      PROVE  FirstWithSource(f, i) = FirstWithSource(f, j)
  <2> DEFINE x == FirstWithSource(f, i)
             y == FirstWithSource(f, j)
  <2>1. /\ x \in DOMAIN f /\ f[x].source.raw = f[i].source.raw
        /\ \A k \in 1..(x - 1) : f[k].source.raw # f[i].source.raw
    BY FirstRow
  <2>2. /\ y \in DOMAIN f /\ f[y].source.raw = f[j].source.raw
        /\ \A k \in 1..(y - 1) : f[k].source.raw # f[j].source.raw
    BY FirstRow
  <2> HIDE DEF x, y
  <2>3. x \in Nat \ {0} /\ y \in Nat \ {0}
    BY <1>1, <2>1, <2>2
  <2>4. ~(x < y) /\ ~(y < x)
    BY <1>3, <2>1, <2>2, <2>3
  <2>5. x = y
    BY <2>3, <2>4
  <2> QED
    BY <2>5 DEF x, y
<1>4. ASSUME NEW i \in DOMAIN f
      PROVE  \E j \in Primary(f) : f[j].source.raw = f[i].source.raw /\ j = FirstWithSource(f, i)
  <2> DEFINE x == FirstWithSource(f, i)
  <2>1. x \in DOMAIN f /\ f[x].source.raw = f[i].source.raw
    BY FirstRow
  <2>2. FirstWithSource(f, x) = x
    BY <1>3, <2>1
  <2>3. x \in Primary(f)
    BY <2>1, <2>2 DEF Primary
  <2> QED
    BY <2>1, <2>3
<1>5. \A i, j \in Primary(f) : f[i].source.raw = f[j].source.raw => i = j
  BY <1>2, <1>3 DEF Primary
<1> QED
  BY <1>2, <1>4, <1>5

\* The advisory locks of a prepared file are numbers, and none is a key.
LEMMA LocksAre ==
  ASSUME NEW b \in Batches, NEW f \in Files[b], NEW m, Prepare(f, m) = "READY"
  PROVE  /\ IdentityLocks(f) \subseteq Sources \cup Targets
         /\ IdentityLocks(f) \subseteq Nat /\ IdentityLocks(f) \cap Keys = {}
         /\ \A i \in Primary(f) : /\ f[i].source.raw \in IdentityLocks(f)
                                  /\ Target(f[i]) \in IdentityLocks(f)
<1>1. \A i \in Primary(f) : Target(f[i]) \in Targets /\ f[i].source.raw \in Sources
  BY ReadyRow, PrimaryIs
<1>2. IdentityLocks(f) \subseteq Sources \cup Targets
  BY <1>1 DEF IdentityLocks
<1>3. Sources \cup Targets \subseteq Nat /\ (Sources \cup Targets) \cap Keys = {}
  BY ImportAssumption
<1> QED
  BY <1>2, <1>3 DEF IdentityLocks

-----------------------------------------------------------------------------
(* Steps that leave the committed rows as they are                         *)

\* Nothing but deadlines, scrub attempts and the conflict of a batch changes.
SameFields(s, r) ==
    /\ r.status = s.status /\ r.rows = s.rows /\ r.outcomes = s.outcomes
    /\ r.key = s.key /\ r.mapping = s.mapping /\ r.version = s.version
    /\ Kept(r) <=> Kept(s)

SameBatch(b) == batch'[b] \in BatchRows(b) /\ SameFields(batch[b], batch'[b])

Rested ==
    /\ DOMAIN batch' = Batches /\ \A b \in Batches : SameBatch(b)
    /\ record' = record /\ idMap' = idMap
    /\ offboarding' \in {"NONE", "PENDING", "FAILED", "OFFBOARDED_ACCESS_REVOKED"}
    /\ Live' <=> Live

LEMMA RestedRows ==
  ASSUME BatchInv, MapInv, OffboardingInv, Typed, Rested
  PROVE  BatchInv' /\ MapInv' /\ OffboardingInv'
<1>1. BatchInv'
  <2> SUFFICES ASSUME NEW b \in Batches PROVE BatchGood(b)'
    BY DEF BatchInv
  <2>1. SameBatch(b) /\ idMap' = idMap /\ BatchGood(b)
    BY DEF Rested, BatchInv
  <2>2. Reconcilable(b) => Reconcilable(b)'
    BY <2>1 DEF SameBatch, SameFields, Reconcilable, ExactLegacyRowEvidence
  <2> QED
    BY <2>1, <2>2 DEF BatchGood, SameBatch, SameFields
<1>2. MapInv'
  BY DEF MapInv, Rested, SameBatch, SameFields, Typed
<1>3. OffboardingInv'
  BY DEF OffboardingInv, Rested, SameBatch, SameFields
<1> QED
  BY <1>1, <1>2, <1>3

LEMMA RestedKnows ==
  ASSUME Rested, NEW t, Knows(t), t.pc # "idle" => t.batch \in Batches
  PROVE  Knows(t)'
<1>1. CASE t.pc = "idle"
  BY <1>1 DEF Knows, Phase, Guarded, Decided, Written, Planned, Settled, Writing, InTenant
<1>2. CASE t.pc # "idle"
  <2> DEFINE b == t.batch
             rows == batch[b].rows
  <2>1. b \in Batches /\ SameBatch(b)
    BY <1>2 DEF Rested
  <2>2. Phase(t)'
    BY <2>1 DEF Knows, Phase, Rested, SameBatch, SameFields, Writing, InTenant
  <2>3. Guarded(t)'
    BY <2>1 DEF Knows, Guarded, Planned, Settled, Writing, Rested, SameBatch, SameFields
  <2>4. Fresh(rows)' = Fresh(rows)
    BY <2>1 DEF Fresh, Rested, SameBatch, SameFields
  <2>5. AlreadyMapped(rows, t.mapping)' = AlreadyMapped(rows, t.mapping)
    BY <2>1 DEF AlreadyMapped, Rested, SameBatch, SameFields
  <2>6. rows' = rows
    BY <2>1 DEF SameBatch, SameFields
  <2> HIDE DEF rows
  <2>7. Decided(t)'
    BY <2>4, <2>5, <2>6 DEF Knows, Decided, Settled, Writing, rows
  <2>8. Written(t)'
    BY <2>4, <2>6 DEF Knows, Written, Writing, Rested, rows
  <2> QED
    BY <2>2, <2>3, <2>7, <2>8 DEF Knows
<1> QED
  BY <1>1, <1>2

\* A step of one transaction that leaves the committed rows as they are.
LocalMove(c) ==
    /\ Rested /\ requests' \in 0..MaxRequests
    /\ \E t \in Transactions :
         /\ tx' = [tx EXCEPT ![c] = t] /\ Knows(t)
         /\ \A d \in Operators \ {c} : Apart(t, tx[d])

LEMMA ApartSymmetric == ASSUME NEW t, NEW r, Apart(t, r) PROVE Apart(r, t)
  BY DEF Apart

LEMMA LocalKeeps ==
  ASSUME IInv, NEW c \in Operators, LocalMove(c)
  PROVE  IInv'
<1>1. PICK t \in Transactions : /\ tx' = [tx EXCEPT ![c] = t] /\ Knows(t)
                                /\ \A d \in Operators \ {c} : Apart(t, tx[d])
  BY DEF LocalMove
<1>2. Rested /\ tx \in [Operators -> Transactions] /\ requests' \in 0..MaxRequests
  BY DEF LocalMove, IInv, Typed
<1>3. tx'[c] = t /\ \A d \in Operators \ {c} : tx'[d] = tx[d]
  BY <1>1, <1>2
<1>4. Typed'
  <2>1. tx' \in [Operators -> Transactions]
    BY <1>1, <1>2
  <2> QED
    BY <1>2, <2>1 DEF IInv, Typed, Rested, SameBatch, SameFields
<1>5. BatchInv' /\ MapInv' /\ OffboardingInv'
  BY <1>2, RestedRows DEF IInv
<1>6. ASSUME NEW d \in Operators PROVE Knows(tx[d])'
  <2>1. PICK r : r = tx'[d]
    OBVIOUS
  <2>2. Knows(r)
    BY <1>1, <1>3, <2>1 DEF IInv
  <2>3. r.pc # "idle" => r.batch \in Batches
    BY <2>2 DEF Knows, Phase
  <2>4. Knows(r)'
    BY <1>2, <2>2, <2>3, RestedKnows
  <2> QED
    BY <2>1, <2>4
<1>7. ASSUME NEW d \in Operators, NEW e \in Operators, d # e PROVE Apart(tx'[d], tx'[e])
  <2>1. CASE d = c
    BY <1>1, <1>3, <1>7, <2>1
  <2>2. CASE e = c
    BY <1>1, <1>3, <1>7, <2>2, ApartSymmetric
  <2>3. CASE d # c /\ e # c
    BY <1>3, <1>7, <2>3 DEF IInv
  <2> QED
    BY <2>1, <2>2, <2>3
<1>8. \A d, e \in Operators : d # e => Apart(tx[d], tx[e])'
  BY <1>7 DEF Apart, InTenant
<1> QED
  BY <1>4, <1>5, <1>6, <1>8 DEF IInv

LEMMA StillRested ==
  ASSUME IInv, batch' = batch, record' = record, idMap' = idMap, offboarding' = offboarding
  PROVE  Rested
  BY DEF IInv, Typed, Rested, SameBatch, SameFields, Live

\* One batch changes, in its deadline, its scrub attempts or its conflict.
LEMMA OneBatchRested ==
  ASSUME IInv, NEW b \in Batches, NEW s \in BatchRows(b), SameFields(batch[b], s),
         batch' = [batch EXCEPT ![b] = s],
         record' = record, idMap' = idMap, offboarding' = offboarding
  PROVE  Rested
<1>1. DOMAIN batch' = Batches /\ batch'[b] = s
  BY DEF IInv, Typed
<1>2. \A d \in Batches \ {b} : batch'[d] = batch[d]
  BY DEF IInv, Typed
<1>3. \A d \in Batches : SameBatch(d)
  BY <1>1, <1>2 DEF IInv, Typed, SameBatch, SameFields
<1> QED
  BY <1>1, <1>3 DEF Rested, IInv, Typed, Live

-----------------------------------------------------------------------------
(* The steps of a commit                                                   *)

LEMMA IdleIs ==
  /\ Idle \in Transactions /\ Knows(Idle) /\ NoPut \in Puts
  /\ \A r : Apart(Idle, r)
<1>1. NoPut \in Puts
  BY DEF Puts
<1>2. Idle \in Transactions
  BY <1>1, Zenon DEF Transactions, Idle, Pcs
<1>3. Knows(Idle)
  BY DEF Knows, Phase, Guarded, Decided, Written, Planned, Settled, Writing, InTenant, Idle
<1>4. \A r : Apart(Idle, r)
  BY DEF Apart, InTenant, Idle
<1> QED
  BY <1>1, <1>2, <1>3, <1>4

\* A request that ends without a change of the rows, by a refusal, a lost
\* connection or a commit that changed nothing.
LEMMA EndedMove ==
  ASSUME IInv, NEW c \in Operators, Ended(c), Rested, requests' = requests
  PROVE  LocalMove(c)
  BY IdleIs DEF LocalMove, Ended, IInv, Typed

LEMMA TxIs ==
  ASSUME IInv, NEW c \in Operators
  PROVE  /\ tx[c] \in Transactions /\ Knows(tx[c]) /\ tx \in [Operators -> Transactions]
         /\ requests \in 0..MaxRequests
         /\ \A d \in Operators \ {c} : Apart(tx[c], tx[d]) /\ Knows(tx[d])
         /\ tx[c].pc # "idle" => /\ tx[c].batch \in Batches /\ tx[c].key \in Keys
                                 /\ tx[c].mapping \in Mappings
  BY DEF IInv, Typed, Knows, Phase

LEMMA CommitBatchMove ==
  ASSUME IInv, NEW c \in Operators, CommitBatch(c)
  PROVE  LocalMove(c)
<1>1. PICK b \in Batches, k \in Keys, m \in Mappings :
        tx' = [tx EXCEPT ![c] = [Idle EXCEPT !.pc = "begun", !.batch = b, !.key = k, !.mapping = m]]
  BY DEF CommitBatch
<1> DEFINE t == [Idle EXCEPT !.pc = "begun", !.batch = b, !.key = k, !.mapping = m]
<1>2. tx' = [tx EXCEPT ![c] = t]
  BY <1>1
<1>3. t \in Transactions
  BY IdleIs DEF Transactions, Pcs
<1>4. Knows(t) /\ \A r : Apart(t, r)
  <2>1. t.pc = "begun" /\ t.batch = b /\ t.key = k /\ t.mapping = m /\ t.held = {} /\ t.put = NoPut
    BY DEF Idle
  <2> HIDE DEF t
  <2> QED
    BY <2>1 DEF Knows, Phase, Guarded, Decided, Written, Planned, Settled, Writing, InTenant, Apart
<1>5. Rested /\ requests' \in 0..MaxRequests
  BY StillRested, TxIs, ImportAssumption DEF CommitBatch
<1> QED
  BY <1>2, <1>3, <1>4, <1>5 DEF LocalMove

\* A transaction that goes on in its batch, with the same locks.
LEMMA GoesOn ==
  ASSUME NEW q, NEW t, NEW r, Apart(q, r), InTenant(q),
         t.batch = q.batch, t.held = q.held
  PROVE  Apart(t, r)
  BY DEF Apart

LEMMA AttemptIs ==
  ASSUME NEW o \in Refusals
  PROVE  Attempt(o) \in Puts /\ Attempt(o) # NoPut
  BY DEF Puts, Attempt, NoPut

LEMMA RefusedMove ==
  ASSUME IInv, NEW c \in Operators, NEW o \in Refusals, Writes(c, Attempt(o), o),
         InTenant(tx[c]), tx[c].pc # "committing",
         UNCHANGED <<batch, record, idMap, offboarding, requests>>
  PROVE  LocalMove(c)
<1> DEFINE q == tx[c]
           t == [q EXCEPT !.pc = "committing", !.put = Attempt(o), !.answer = o]
<1>1. tx' = [tx EXCEPT ![c] = t]
  BY DEF Writes
<1>2. q \in Transactions /\ Knows(q) /\ requests \in 0..MaxRequests
  BY TxIs
<1>3. t \in Transactions
  BY <1>2, AttemptIs DEF Transactions, Pcs
<1>4. /\ t.pc = "committing" /\ t.put = Attempt(o) /\ t.answer = o
      /\ t.batch = q.batch /\ t.held = q.held /\ t.key = q.key /\ t.mapping = q.mapping
  BY <1>2 DEF Transactions
<1> HIDE DEF t
<1>5. Phase(t)
  BY <1>2, <1>4, AttemptIs DEF Knows, Phase, InTenant, Writing, Refusals
<1>6. ~Writing(t) /\ ~Settled(t) /\ ~Planned(t)
  BY <1>4 DEF Writing, Settled, Planned, Refusals
<1>7. Knows(t)
  BY <1>5, <1>6 DEF Knows, Guarded, Decided, Written
<1>8. \A d \in Operators \ {c} : Apart(t, tx[d])
  BY <1>4, TxIs, GoesOn
<1>9. Rested
  BY StillRested
<1> QED
  BY <1>1, <1>2, <1>3, <1>7, <1>8, <1>9 DEF LocalMove

LEMMA LockBatchMove ==
  ASSUME IInv, NEW c \in Operators, LockBatch(c)
  PROVE  LocalMove(c)
<1> DEFINE q == tx[c]
           b == q.batch
<1>1. q.pc = "begun" /\ BatchFree(c, b) /\ UNCHANGED <<batch, record, idMap, offboarding, requests>>
  BY DEF LockBatch
<1>2. /\ q \in Transactions /\ Knows(q) /\ requests \in 0..MaxRequests
      /\ b \in Batches /\ q.key \in Keys /\ q.mapping \in Mappings
  BY <1>1, TxIs
<1>3. Rested
  BY <1>1, StillRested
<1>4. \A t : t.batch = b /\ t.held = {} => \A d \in Operators \ {c} : Apart(t, tx[d])
  BY <1>1 DEF BatchFree, HoldsBatch, InTenantTransaction, Apart, InTenant
<1>5. q.held = {} /\ q.put = NoPut
  BY <1>1, <1>2 DEF Knows, Phase, Writing
<1>6. CASE ~Available(b)
  <2>1. Ended(c)
    BY <1>6 DEF LockBatch
  <2> QED
    BY <1>1, <1>3, <2>1, EndedMove
<1>7. CASE Available(b) /\ batch[b].status = "PREVIEWED"
  <2> DEFINE t == [q EXCEPT !.pc = "locked"]
  <2>1. tx' = [tx EXCEPT ![c] = t]
    BY <1>7 DEF LockBatch, To
  <2>2. t \in Transactions
    BY <1>2 DEF Transactions, Pcs
  <2>3. /\ t.pc = "locked" /\ t.batch = b /\ t.key = q.key /\ t.mapping = q.mapping
        /\ t.held = {} /\ t.put = NoPut
    BY <1>2, <1>5 DEF Transactions
  <2> HIDE DEF t
  <2>4. Knows(t)
    BY <1>2, <1>7, <2>3 DEF Knows, Phase, Guarded, Decided, Written, Planned, Settled, Writing,
                            InTenant, Available
  <2> QED
    BY <1>2, <1>3, <1>1, <1>4, <2>1, <2>2, <2>3, <2>4 DEF LocalMove
<1>8. CASE Available(b) /\ batch[b].status # "PREVIEWED"
  <2>1. Kept(batch[b]) /\ batch[b].status = "COMMITTED" /\ Live
    BY <1>2, <1>8 DEF Available, Kept, IInv, BatchInv, BatchGood
  <2>2. Replays(b, q.key, q.mapping) <=> batch[b].key = q.key /\ batch[b].mapping = q.mapping
    <3>1. batch[b].version \in {"LEGACY", "V2"}
      BY <1>2, <2>1 DEF IInv, BatchInv, BatchGood
    <3>2. ASSUME batch[b].version = "LEGACY", batch[b].key = q.key, batch[b].mapping = q.mapping
          PROVE  IsExactLegacyOpportunityReplay(b, q.key, q.mapping)
      BY <1>2, <2>1, <3>2
      DEF IInv, BatchInv, BatchGood, Reconcilable, IsExactLegacyOpportunityReplay, Unversioned
    <3>3. IsExactLegacyOpportunityReplay(b, q.key, q.mapping)
            => batch[b].key = q.key /\ batch[b].mapping = q.mapping
      BY DEF IsExactLegacyOpportunityReplay
    <3> QED
      BY <3>1, <3>2, <3>3 DEF Replays
  <2>3. PICK a \in {"RECONCILED", "CONFLICTED"} :
          /\ Writes(c, NoPut, a)
          /\ a = "RECONCILED" <=> batch[b].key = q.key /\ batch[b].mapping = q.mapping
    BY <1>8, <2>2 DEF LockBatch
  <2> DEFINE t == [q EXCEPT !.pc = "committing", !.put = NoPut, !.answer = a]
  <2>4. tx' = [tx EXCEPT ![c] = t]
    BY <2>3 DEF Writes
  <2>5. t \in Transactions
    BY <1>2, IdleIs DEF Transactions, Pcs, Refusals
  <2>6. /\ t.pc = "committing" /\ t.batch = b /\ t.key = q.key /\ t.mapping = q.mapping
        /\ t.held = {} /\ t.put = NoPut /\ t.answer = a
    BY <1>2, <1>5 DEF Transactions
  <2> HIDE DEF t
  <2>7. ~Writing(t) /\ ~Settled(t) /\ ~Planned(t)
    BY <2>6 DEF Writing, Settled, Planned
  <2>8. Phase(t)
    BY <1>2, <2>1, <2>3, <2>6 DEF Phase, InTenant, Writing
  <2>9. Knows(t)
    BY <2>7, <2>8 DEF Knows, Guarded, Decided, Written
  <2> QED
    BY <1>1, <1>2, <1>3, <1>4, <2>4, <2>5, <2>6, <2>9 DEF LocalMove
<1> QED
  BY <1>6, <1>7, <1>8

LEMMA LockRecordsMove ==
  ASSUME IInv, NEW c \in Operators, LockRecords(c)
  PROVE  LocalMove(c)
<1> DEFINE q == tx[c]
           b == q.batch
<1>1. /\ q.pc = "locked" /\ UNCHANGED <<record, idMap, offboarding, requests>>
      /\ \E n \in 0..Len(batch[b].rows) :
           /\ tx' = [tx EXCEPT ![c].pc = "keyed", ![c].seen = n]
           /\ batch' = [batch EXCEPT ![b].expired = @ \/ n < Len(batch[b].rows)]
  BY DEF LockRecords
<1>2. /\ q \in Transactions /\ Knows(q) /\ requests \in 0..MaxRequests /\ b \in Batches
      /\ tx \in [Operators -> Transactions]
  BY <1>1, TxIs
<1>3. PICK n : /\ n \in 0..Len(batch[b].rows)
               /\ tx' = [tx EXCEPT ![c].pc = "keyed", ![c].seen = n]
               /\ batch' = [batch EXCEPT ![b].expired = @ \/ n < Len(batch[b].rows)]
  BY <1>1
<1>4. Rested
  <2>1. DOMAIN batch = Batches /\ batch[b] \in BatchRows(b)
    BY <1>2 DEF IInv, Typed
  <2> DEFINE x == batch[b].expired \/ n < Len(batch[b].rows)
             s == [batch[b] EXCEPT !.expired = x]
  <2>2. x \in BOOLEAN
    OBVIOUS
  <2>3. batch' = [batch EXCEPT ![b] = s]
    BY <1>3
  <2> HIDE DEF x
  <2>4. s \in BatchRows(b) /\ SameFields(batch[b], s)
    BY <2>1, <2>2 DEF BatchRows, SameFields, Kept
  <2> HIDE DEF s
  <2> QED
    BY <1>1, <1>2, <2>1, <2>3, <2>4, OneBatchRested
<1> DEFINE t == [q EXCEPT !.pc = "keyed", !.seen = n]
<1>5. tx' = [tx EXCEPT ![c] = t]
  BY <1>2, <1>3
<1>6. n \in Nat
  <2>1. batch[b].rows \in Files[b] \cup {<<>>}
    BY <1>2 DEF IInv, Typed, BatchRows
  <2>2. Len(batch[b].rows) \in Nat
    BY <1>2, <2>1, FileIs
  <2> QED
    BY <1>3, <2>2
<1>7. t \in Transactions
  BY <1>2, <1>6 DEF Transactions, Pcs
<1>8. /\ t.pc = "keyed" /\ t.batch = b /\ t.key = q.key /\ t.mapping = q.mapping
      /\ t.held = q.held /\ t.put = q.put
  BY <1>2 DEF Transactions
<1> HIDE DEF t
<1>9. Knows(t)
  BY <1>1, <1>2, <1>8 DEF Knows, Phase, Guarded, Decided, Written, Planned, Settled, Writing, InTenant
<1>10. \A d \in Operators \ {c} : Apart(t, tx[d])
  BY <1>1, <1>8, TxIs, GoesOn DEF InTenant
<1> QED
  BY <1>1, <1>2, <1>4, <1>5, <1>7, <1>9, <1>10 DEF LocalMove

LEMMA LockKeyAndPrepareMove ==
  ASSUME IInv, NEW c \in Operators, LockKeyAndPrepare(c)
  PROVE  LocalMove(c)
<1> DEFINE q == tx[c]
           b == q.batch
           rows == batch[b].rows
           outcome == Prepare(rows, q.mapping)
<1>1. q.pc = "keyed" /\ LockFree(c, q.key) /\ UNCHANGED <<batch, record, idMap, offboarding, requests>>
  BY DEF LockKeyAndPrepare
<1>2. /\ q \in Transactions /\ Knows(q) /\ requests \in 0..MaxRequests
      /\ b \in Batches /\ q.key \in Keys
  BY <1>1, TxIs
<1>3. Rested
  BY <1>1, StillRested
<1>4. InTenant(q) /\ q.pc # "committing" /\ q.held = {} /\ q.put = NoPut
  BY <1>1, <1>2 DEF InTenant, Knows, Phase, Writing
<1>5. outcome \in {"FAILED", "CONFLICTED", "READY"}
  BY DEF Prepare
<1>6. CASE Ended(c)
  BY <1>1, <1>3, <1>6, EndedMove
<1>7. CASE \E o \in Refusals : Writes(c, Attempt(o), o)
  BY <1>1, <1>4, <1>7, RefusedMove
<1>8. CASE /\ ~\E d \in Batches \ {b} : batch[d].key = q.key
           /\ outcome = "READY"
           /\ tx' = [tx EXCEPT ![c].pc = "identities", ![c].held = {tx[c].key}]
  <2> DEFINE t == [q EXCEPT !.pc = "identities", !.held = {q.key}]
  <2>1. tx' = [tx EXCEPT ![c] = t]
    BY <1>8, TxIs
  <2>2. t \in Transactions
    BY <1>2 DEF Transactions, Pcs
  <2>3. /\ t.pc = "identities" /\ t.batch = b /\ t.key = q.key /\ t.mapping = q.mapping
        /\ t.held = {q.key} /\ t.put = NoPut
    BY <1>2, <1>4 DEF Transactions
  <2> HIDE DEF t
  <2>4. Phase(t)
    BY <1>1, <1>2, <2>3 DEF Knows, Phase, InTenant, Writing
  <2>5. batch[b].key # q.key
    BY <1>1, <1>2, ImportAssumption DEF Knows, Phase, InTenant, IInv, BatchInv, BatchGood
  <2>6. Guarded(t)
    BY <1>8, <2>3, <2>5 DEF Guarded
  <2>7. ~Settled(t) /\ ~Writing(t)
    BY <2>3 DEF Settled, Writing
  <2>8. Knows(t)
    BY <2>4, <2>6, <2>7 DEF Knows, Decided, Written
  <2>9. ASSUME NEW d \in Operators \ {c} PROVE Apart(t, tx[d])
    <3>1. Apart(q, tx[d]) /\ q.key \notin tx[d].held
      BY <1>1, TxIs DEF LockFree
    <3> QED
      BY <1>4, <2>3, <3>1 DEF Apart
  <2> QED
    BY <1>1, <1>2, <1>3, <2>1, <2>2, <2>8, <2>9 DEF LocalMove
<1> QED
  BY <1>5, <1>6, <1>7, <1>8 DEF LockKeyAndPrepare, Refusals

LEMMA LockImportIdentitiesMove ==
  ASSUME IInv, NEW c \in Operators, LockImportIdentities(c)
  PROVE  LocalMove(c)
<1> DEFINE q == tx[c]
           b == q.batch
           rows == batch[b].rows
<1>1. q.pc = "identities" /\ UNCHANGED <<batch, record, idMap, offboarding, requests>>
  BY DEF LockImportIdentities
<1>2. PICK l \in NextLock(c) : LockFree(c, l) /\ tx' = [tx EXCEPT ![c].held = @ \cup {l}]
  BY DEF LockImportIdentities
<1>3. /\ q \in Transactions /\ Knows(q) /\ requests \in 0..MaxRequests
      /\ b \in Batches /\ q.key \in Keys
  BY <1>1, TxIs
<1>4. Rested
  BY <1>1, StillRested
<1>5. l \in IdentityLocks(rows) \ q.held /\ \A k \in IdentityLocks(rows) \ q.held : l <= k
  BY <1>2 DEF NextLock
<1>6. Guarded(q) /\ Planned(q)
  BY <1>1, <1>3 DEF Knows, Planned
<1>7. batch[b].rows \in Files[b]
  BY <1>1, <1>3 DEF Knows, Phase, InTenant, IInv, BatchInv, BatchGood
<1>8. IdentityLocks(rows) \subseteq Sources \cup Targets /\ IdentityLocks(rows) \subseteq Nat
  BY <1>3, <1>6, <1>7, LocksAre DEF Guarded
<1> DEFINE t == [q EXCEPT !.held = q.held \cup {l}]
<1>9. tx' = [tx EXCEPT ![c] = t]
  BY <1>2, TxIs
<1>10. t \in Transactions
  <2>1. q.held \cup {l} \in SUBSET (Keys \cup Sources \cup Targets)
    BY <1>3, <1>5, <1>8 DEF Transactions
  <2> QED
    BY <1>3, <2>1 DEF Transactions
<1>11. /\ t.pc = "identities" /\ t.batch = b /\ t.key = q.key /\ t.mapping = q.mapping
       /\ t.held = q.held \cup {l} /\ t.put = q.put
  BY <1>1, <1>3 DEF Transactions
<1> HIDE DEF t
<1>12. Phase(t)
  BY <1>1, <1>3, <1>11 DEF Knows, Phase, InTenant, Writing
<1>13. Guarded(t)
  <2> HIDE DEF rows
  <2>1. \A h \in t.held \ {t.key}, k \in IdentityLocks(rows) \ t.held : h < k
    <3> SUFFICES ASSUME NEW h \in t.held \ {t.key}, NEW k \in IdentityLocks(rows) \ t.held
                 PROVE  h < k
      OBVIOUS
    <3>1. k \in IdentityLocks(rows) \ q.held /\ k # l
      BY <1>11
    <3>2. CASE h = l
      BY <1>5, <1>8, <3>1, <3>2
    <3>3. CASE h # l
      BY <1>6, <1>11, <3>1, <3>3 DEF Guarded, rows
    <3> QED
      BY <3>2, <3>3
  <2> QED
    BY <1>5, <1>6, <1>11, <2>1 DEF Guarded, rows
<1>14. ~Settled(t) /\ ~Writing(t)
  BY <1>11 DEF Settled, Writing
<1>15. Knows(t)
  BY <1>12, <1>13, <1>14 DEF Knows, Decided, Written
<1>16. ASSUME NEW d \in Operators \ {c} PROVE Apart(t, tx[d])
  <2>1. Apart(q, tx[d]) /\ l \notin tx[d].held
    BY <1>2, TxIs DEF LockFree
  <2> QED
    BY <1>1, <1>11, <2>1 DEF Apart, InTenant
<1> QED
  BY <1>1, <1>3, <1>4, <1>9, <1>10, <1>15, <1>16 DEF LocalMove

LEMMA CheckConflictsMove ==
  ASSUME IInv, NEW c \in Operators, CheckConflicts(c)
  PROVE  LocalMove(c)
<1> DEFINE q == tx[c]
           b == q.batch
           rows == batch[b].rows
<1>1. /\ q.pc = "identities" /\ NextLock(c) = {}
      /\ UNCHANGED <<batch, record, idMap, offboarding, requests>>
  BY DEF CheckConflicts
<1>2. /\ q \in Transactions /\ Knows(q) /\ requests \in 0..MaxRequests
      /\ b \in Batches /\ q.key \in Keys
  BY <1>1, TxIs
<1>3. Rested
  BY <1>1, StillRested
<1>4. Guarded(q) /\ Planned(q)
  BY <1>1, <1>2 DEF Knows, Planned
<1>5. rows \in Files[b]
  BY <1>1, <1>2 DEF Knows, Phase, InTenant, IInv, BatchInv, BatchGood
<1>6. Prepare(rows, q.mapping) = "READY" /\ IdentityLocks(rows) \subseteq Nat
  BY <1>2, <1>4, <1>5, LocksAre DEF Guarded
<1>7. IdentityLocks(rows) \subseteq q.held
  <2> DEFINE S == IdentityLocks(rows) \ q.held
  <2>1. NextLock(c) = {l \in S : \A k \in S : l <= k}
    BY DEF NextLock
  <2>2. S \in SUBSET Nat
    BY <1>6
  <2>3. S = {}
    BY <1>1, <2>1, <2>2, LeastOf
  <2> QED
    BY <2>3
<1>8. CASE Conflicts(rows, q.mapping)
  <2>1. Writes(c, Attempt("CONFLICTED"), "CONFLICTED")
    BY <1>8 DEF CheckConflicts
  <2> QED
    BY <1>1, <2>1, RefusedMove DEF InTenant, Refusals
<1>9. CASE ~Conflicts(rows, q.mapping)
  <2> DEFINE t == [q EXCEPT !.pc = "checked"]
  <2>1. tx' = [tx EXCEPT ![c] = t]
    BY <1>9 DEF CheckConflicts, To
  <2>2. t \in Transactions
    BY <1>2 DEF Transactions, Pcs
  <2>3. /\ t.pc = "checked" /\ t.batch = b /\ t.key = q.key /\ t.mapping = q.mapping
        /\ t.held = q.held /\ t.put = q.put
    BY <1>2 DEF Transactions
  <2> HIDE DEF t
  <2>4. Phase(t)
    BY <1>1, <1>2, <2>3 DEF Knows, Phase, InTenant, Writing
  <2>5. Guarded(t)
    BY <1>4, <2>3 DEF Guarded
  <2>6. Decided(t)
    <3> HIDE DEF rows
    <3>1. \A i \in Primary(rows) : i \in Fresh(rows) \/ i \in AlreadyMapped(rows, q.mapping)
      BY <1>9 DEF Conflicts, Fresh
    <3>2. \A i, j \in Fresh(rows) : Target(rows[i]) = Target(rows[j]) => i = j
      BY <1>9 DEF Conflicts, Fresh
    <3> QED
      BY <1>7, <2>3, <3>1, <3>2 DEF Decided, rows
  <2>7. ~Writing(t)
    BY <2>3 DEF Writing
  <2>8. Knows(t)
    BY <2>4, <2>5, <2>6, <2>7 DEF Knows, Written
  <2>9. \A d \in Operators \ {c} : Apart(t, tx[d])
    BY <1>1, <2>3, TxIs, GoesOn DEF InTenant
  <2> QED
    BY <1>1, <1>2, <1>3, <2>1, <2>2, <2>8, <2>9 DEF LocalMove
<1> QED
  BY <1>8, <1>9

\* Rows not mapped yet are those that are not mapped to what they say.
LEMMA FreshIs ==
  ASSUME NEW b \in Batches, NEW f \in Files[b], NEW m, Prepare(f, m) = "READY",
         \A i \in Primary(f) : i \in Fresh(f) \/ i \in AlreadyMapped(f, m)
  PROVE  Fresh(f) = Primary(f) \ AlreadyMapped(f, m)
<1>1. ASSUME NEW i \in Fresh(f) PROVE i \in Primary(f) /\ i \notin AlreadyMapped(f, m)
  <2>1. i \in Primary(f) /\ idMap[f[i].source.raw] = NoMap
    BY DEF Fresh
  <2>2. Target(f[i]) \in Targets
    BY <2>1, ReadyRow, PrimaryIs
  <2>3. NoMap.target \notin Targets
    BY ImportAssumption DEF NoMap, None
  <2> QED
    BY <2>1, <2>2, <2>3 DEF AlreadyMapped
<1> QED
  BY <1>1 DEF Fresh

LEMMA CommitPutIs ==
  ASSUME NEW b \in Batches, NEW f \in Files[b], NEW m \in Mappings, NEW new \in SUBSET DOMAIN f
  PROVE  CommitPut(b, f, m, new) \in Puts /\ CommitPut(b, f, m, new) # NoPut
<1>1. CommitPut(b, f, m, new) \in PutsOf(b, f)
  BY DEF PutsOf
<1>2. CommitPut(b, f, m, new) # NoPut
  BY DEF CommitPut, NoPut
<1> DEFINE p == CommitPut(b, f, m, new)
<1> HIDE DEF p
<1>3. p \in UNION {PutsOf(b, g) : g \in Files[b]}
  BY <1>1 DEF p
<1>4. p \in Puts
  BY <1>3, Zenon DEF Puts
<1> QED
  BY <1>2, <1>4 DEF p

LEMMA MaterializeMove ==
  ASSUME IInv, NEW c \in Operators, Materialize(c)
  PROVE  LocalMove(c)
<1> DEFINE q == tx[c]
           b == q.batch
           rows == batch[b].rows
           fresh == Primary(rows) \ AlreadyMapped(rows, q.mapping)
           put == CommitPut(b, rows, q.mapping, fresh)
<1>1. q.pc = "checked" /\ UNCHANGED <<batch, record, idMap, offboarding, requests>>
  BY DEF Materialize
<1>2. /\ q \in Transactions /\ Knows(q) /\ requests \in 0..MaxRequests
      /\ b \in Batches /\ q.key \in Keys /\ q.mapping \in Mappings
  BY <1>1, TxIs
<1>3. Rested
  BY <1>1, StillRested
<1>4. Guarded(q) /\ Decided(q) /\ Planned(q) /\ Settled(q)
  BY <1>1, <1>2 DEF Knows, Planned, Settled
<1>5. rows \in Files[b]
  BY <1>1, <1>2 DEF Knows, Phase, InTenant, IInv, BatchInv, BatchGood
<1>6. Fresh(rows) = fresh
  BY <1>2, <1>4, <1>5, FreshIs DEF Guarded, Decided
<1>7. CASE \E i \in fresh : record[Target(rows[i])] # NoRecord
  <2>1. Writes(c, Attempt("CONFLICTED"), "CONFLICTED")
    BY <1>7 DEF Materialize
  <2> QED
    BY <1>1, <2>1, RefusedMove DEF InTenant, Refusals
<1>8. CASE ~\E i \in fresh : record[Target(rows[i])] # NoRecord
  <2> DEFINE t == [q EXCEPT !.pc = "inserted", !.put = put]
  <2>1. tx' = [tx EXCEPT ![c] = t]
    <3>1. tx' = [tx EXCEPT ![c].pc = "inserted", ![c].put = put]
      BY <1>8 DEF Materialize, CommitPut
    <3> QED
      BY <3>1, TxIs
  <2>2. fresh \in SUBSET DOMAIN rows
    BY <1>2, <1>5, PrimaryIs
  <2> HIDE DEF fresh, rows
  <2>3. put \in Puts
    BY <1>2, <1>5, <2>2, CommitPutIs
  <2> HIDE DEF put
  <2>4. t \in Transactions
    BY <1>2, <2>3 DEF Transactions, Pcs
  <2>5. /\ t.pc = "inserted" /\ t.batch = b /\ t.key = q.key /\ t.mapping = q.mapping
        /\ t.held = q.held /\ t.put = put
    BY <1>2 DEF Transactions
  <2> HIDE DEF t
  <2>6. Phase(t)
    BY <1>1, <1>2, <2>5 DEF Knows, Phase, InTenant, Writing
  <2>7. Guarded(t) /\ Decided(t)
    BY <1>4, <2>5 DEF Guarded, Decided
  <2>8. Written(t)
    BY <1>6, <1>8, <2>5 DEF Written, put, rows
  <2>9. \A d \in Operators \ {c} : Apart(t, tx[d])
    BY <1>1, <2>5, TxIs, GoesOn DEF InTenant
  <2> QED
    BY <1>1, <1>2, <1>3, <2>1, <2>4, <2>6, <2>7, <2>8, <2>9 DEF LocalMove, Knows
<1> QED
  BY <1>7, <1>8

LEMMA RecordOutcomesMove ==
  ASSUME IInv, NEW c \in Operators, RecordOutcomes(c)
  PROVE  LocalMove(c)
<1> DEFINE q == tx[c]
<1>1. q.pc = "inserted" /\ UNCHANGED <<batch, record, idMap, offboarding, requests>>
  BY DEF RecordOutcomes
<1>2. q \in Transactions /\ Knows(q) /\ requests \in 0..MaxRequests
  BY TxIs
<1>3. Rested
  BY <1>1, StillRested
<1>4. CASE Ended(c)
  BY <1>1, <1>3, <1>4, EndedMove
<1>5. CASE To(c, "recorded")
  <2> DEFINE t == [q EXCEPT !.pc = "recorded"]
  <2>1. tx' = [tx EXCEPT ![c] = t]
    BY <1>5 DEF To
  <2>2. t \in Transactions
    BY <1>2 DEF Transactions, Pcs
  <2>3. /\ t.pc = "recorded" /\ t.batch = q.batch /\ t.key = q.key /\ t.mapping = q.mapping
        /\ t.held = q.held /\ t.put = q.put
    BY <1>2 DEF Transactions
  <2> HIDE DEF t
  <2>4. Writing(t) /\ Settled(t) /\ Planned(t) /\ Writing(q) /\ Settled(q) /\ Planned(q)
    BY <1>1, <2>3 DEF Writing, Settled, Planned
  <2>5. Phase(t)
    BY <1>1, <1>2, <2>3, <2>4 DEF Knows, Phase, InTenant
  <2>6. Guarded(t) /\ Decided(t) /\ Written(t)
    BY <1>2, <2>3, <2>4 DEF Knows, Guarded, Decided, Written
  <2>7. \A d \in Operators \ {c} : Apart(t, tx[d])
    BY <1>1, <2>3, TxIs, GoesOn DEF InTenant
  <2> QED
    BY <1>1, <1>2, <1>3, <2>1, <2>2, <2>5, <2>6, <2>7 DEF LocalMove, Knows
<1> QED
  BY <1>4, <1>5 DEF RecordOutcomes

LEMMA WritingPut ==
  ASSUME NEW t, Knows(t), Writing(t)
  PROVE  t.put.kind = "commit" /\ t.put # NoPut
  BY DEF Knows, Written, CommitPut, NoPut

LEMMA FinalizeCommitMove ==
  ASSUME IInv, NEW c \in Operators, FinalizeCommit(c)
  PROVE  LocalMove(c)
<1> DEFINE q == tx[c]
<1>1. q.pc = "recorded" /\ UNCHANGED <<batch, record, idMap, offboarding, requests>>
  BY DEF FinalizeCommit
<1>2. /\ q \in Transactions /\ Knows(q) /\ requests \in 0..MaxRequests
      /\ q.batch \in Batches /\ q.mapping \in Mappings
  BY <1>1, TxIs
<1>3. Rested
  BY <1>1, StillRested
<1>4. CASE Ended(c)
  BY <1>1, <1>3, <1>4, EndedMove
<1>5. CASE tx' = [tx EXCEPT ![c].pc = "committing", ![c].answer = "COMMITTED"]
  <2> DEFINE t == [q EXCEPT !.pc = "committing", !.answer = "COMMITTED"]
  <2>1. tx' = [tx EXCEPT ![c] = t]
    BY <1>5, TxIs
  <2>2. t \in Transactions
    BY <1>2 DEF Transactions, Pcs
  <2>3. /\ t.pc = "committing" /\ t.batch = q.batch /\ t.key = q.key /\ t.mapping = q.mapping
        /\ t.held = q.held /\ t.put = q.put /\ t.answer = "COMMITTED"
    BY <1>2 DEF Transactions
  <2> HIDE DEF t
  <2>4. Writing(t) /\ Settled(t) /\ Planned(t) /\ Writing(q) /\ Settled(q) /\ Planned(q)
    BY <1>1, <2>3 DEF Writing, Settled, Planned
  <2>5. q.put # NoPut
    BY <1>2, <2>4, WritingPut
  <2>6. Phase(t)
    BY <1>1, <1>2, <2>3, <2>4, <2>5 DEF Knows, Phase, InTenant, Refusals
  <2>7. Guarded(t) /\ Decided(t) /\ Written(t)
    BY <1>2, <2>3, <2>4 DEF Knows, Guarded, Decided, Written
  <2>8. \A d \in Operators \ {c} : Apart(t, tx[d])
    BY <1>1, <2>3, TxIs, GoesOn DEF InTenant
  <2> QED
    BY <1>1, <1>2, <1>3, <2>1, <2>2, <2>6, <2>7, <2>8 DEF LocalMove, Knows
<1> QED
  BY <1>4, <1>5 DEF FinalizeCommit

-----------------------------------------------------------------------------
(* COMMIT                                                                  *)

\* What CommitPut makes of the rows: one record and one map entry each.
RecordsFit(r, b, f, m, new) ==
    /\ DOMAIN r = {Target(f[i]) : i \in new}
    /\ \A i \in new : r[Target(f[i])] =
         [by |-> "import", batch |-> b, payload |-> Payload(f[i], m)]

MapsFit(r, b, f, m, new) ==
    /\ DOMAIN r = {f[i].source.raw : i \in new}
    /\ \A i \in new : r[f[i].source.raw] =
         [batch |-> b, target |-> Target(f[i]), payload |-> Payload(f[i], m)]

LEMMA RecordsAre ==
  ASSUME NEW b, NEW f, NEW m, NEW new,
         \A i, j \in new : Target(f[i]) = Target(f[j]) => i = j
  PROVE  RecordsFit(RecordsOf(b, f, m, new), b, f, m, new)
<1>1. ASSUME NEW i \in new
      PROVE  (CHOOSE j \in new : Target(f[j]) = Target(f[i])) = i
  <2>1. (CHOOSE j \in new : Target(f[j]) = Target(f[i])) \in new
        /\ Target(f[CHOOSE j \in new : Target(f[j]) = Target(f[i])]) = Target(f[i])
    BY Zenon
  <2> QED
    BY <2>1, Zenon
<1> QED
  BY <1>1 DEF RecordsOf, RecordsFit

LEMMA MapsAre ==
  ASSUME NEW b, NEW f, NEW m, NEW new,
         \A i, j \in new : f[i].source.raw = f[j].source.raw => i = j
  PROVE  MapsFit(MapsOf(b, f, m, new), b, f, m, new)
<1>1. ASSUME NEW i \in new
      PROVE  (CHOOSE j \in new : f[j].source.raw = f[i].source.raw) = i
  <2>1. (CHOOSE j \in new : f[j].source.raw = f[i].source.raw) \in new
        /\ f[CHOOSE j \in new : f[j].source.raw = f[i].source.raw].source.raw = f[i].source.raw
    BY Zenon
  <2> QED
    BY <2>1, Zenon
<1> QED
  BY <1>1 DEF MapsOf, MapsFit

LEMMA AppliedLocal ==
  ASSUME IInv, NEW c \in Operators, tx[c].pc = "committing", ~Writing(tx[c]),
         Applied(c), Ended(c), UNCHANGED <<offboarding, requests>>
  PROVE  LocalMove(c)
<1> DEFINE q == tx[c]
           b == q.batch
<1>1. q \in Transactions /\ Knows(q) /\ b \in Batches /\ DOMAIN batch = Batches
      /\ batch[b] \in BatchRows(b)
  BY TxIs DEF IInv, Typed
<1>2. CASE q.put = NoPut
  <2>1. UNCHANGED <<batch, record, idMap>>
    BY <1>2 DEF Applied, NoPut
  <2> QED
    BY <2>1, StillRested, EndedMove
<1>3. CASE q.put # NoPut
  <2>1. PICK o \in Refusals : q.put = Attempt(o)
    BY <1>1, <1>3 DEF Knows, Phase, Writing
  <2>2. /\ batch' = [batch EXCEPT ![b].conflict = o]
        /\ record' = record /\ idMap' = idMap
    BY <2>1 DEF Applied, Attempt
  <2> DEFINE s == [batch[b] EXCEPT !.conflict = o]
  <2>3. batch' = [batch EXCEPT ![b] = s]
    BY <2>2
  <2>4. s \in BatchRows(b) /\ SameFields(batch[b], s)
    BY <1>1 DEF BatchRows, SameFields, Kept
  <2> HIDE DEF s
  <2>5. Rested
    BY <1>1, <2>2, <2>3, <2>4, OneBatchRested
  <2> QED
    BY <2>5, EndedMove
<1> QED
  BY <1>2, <1>3

\* The committed rows after the commit of an import.
Landed(q) ==
    LET b == q.batch  f == batch[b].rows  new == Fresh(f) IN
    /\ DOMAIN batch' = Batches /\ batch'[b] \in BatchRows(b)
    /\ batch'[b].status = "COMMITTED" /\ batch'[b].rows = f
    /\ batch'[b].outcomes = [i \in DOMAIN f |-> Outcome(f, new, i)]
    /\ batch'[b].key = q.key /\ batch'[b].mapping = q.mapping
    /\ batch'[b].version = "V2" /\ batch'[b].cleanup = batch[b].cleanup
    /\ \A d \in Batches \ {b} : batch'[d] = batch[d]
    /\ DOMAIN record' = Targets /\ DOMAIN idMap' = Sources
    /\ \A i \in new :
         /\ record'[Target(f[i])] = [by |-> "import", batch |-> b, payload |-> Payload(f[i], q.mapping)]
         /\ idMap'[f[i].source.raw] =
              [batch |-> b, target |-> Target(f[i]), payload |-> Payload(f[i], q.mapping)]
    /\ \A t \in Targets : (\A i \in new : Target(f[i]) # t) => record'[t] = record[t]
    /\ \A s \in Sources : (\A i \in new : f[i].source.raw # s) => idMap'[s] = idMap[s]

LEMMA AppliedLands ==
  ASSUME IInv, NEW c \in Operators, tx[c].pc = "committing", Writing(tx[c]), Applied(c)
  PROVE  Landed(tx[c])
<1> DEFINE q == tx[c]
           b == q.batch
           f == batch[b].rows
           new == Fresh(f)
           out == [i \in DOMAIN f |-> Outcome(f, new, i)]
<1>1. /\ q \in Transactions /\ Knows(q) /\ b \in Batches /\ q.key \in Keys /\ q.mapping \in Mappings
      /\ DOMAIN batch = Batches /\ batch[b] \in BatchRows(b)
      /\ DOMAIN record = Targets /\ DOMAIN idMap = Sources
  BY TxIs DEF IInv, Typed
<1>2. /\ Written(q) /\ Decided(q) /\ Guarded(q) /\ Settled(q) /\ Planned(q)
      /\ batch[b].status = "PREVIEWED"
  BY <1>1, WritingPut DEF Knows, Settled, Planned, Phase
<1>3. f \in Files[b] /\ Prepare(f, q.mapping) = "READY"
  BY <1>1, <1>2 DEF IInv, BatchInv, BatchGood, Guarded
<1>4. q.put = CommitPut(b, f, q.mapping, new)
  BY <1>2 DEF Written
<1>5. new \subseteq Primary(f)
  BY DEF Fresh
<1> HIDE DEF new
<1>6. /\ q.put.kind = "commit" /\ q.put.records = RecordsOf(b, f, q.mapping, new)
      /\ q.put.maps = MapsOf(b, f, q.mapping, new) /\ q.put.outcomes = out
  BY <1>4 DEF CommitPut
<1> HIDE DEF out
<1> DEFINE s == [batch[b] EXCEPT !.status = "COMMITTED", !.outcomes = out, !.key = q.key,
                                 !.mapping = q.mapping, !.version = "V2", !.conflict = "COMMITTED"]
<1>7. /\ batch' = [batch EXCEPT ![b] = s]
      /\ record' = Over(record, RecordsOf(b, f, q.mapping, new))
      /\ idMap' = Over(idMap, MapsOf(b, f, q.mapping, new))
  BY <1>6 DEF Applied
<1>8. out \in Seq({"PENDING", "COMMITTED", "EXACT_DUPLICATE"})
  <2>1. DOMAIN f = 1..Len(f) /\ Len(f) \in Nat
    BY <1>1, <1>3, FileIs
  <2> QED
    BY <2>1 DEF out, Outcome
<1>9. /\ s \in BatchRows(b) /\ s.status = "COMMITTED" /\ s.rows = f /\ s.outcomes = out
      /\ s.key = q.key /\ s.mapping = q.mapping /\ s.version = "V2"
      /\ s.cleanup = batch[b].cleanup
  BY <1>1, <1>8 DEF BatchRows
<1> HIDE DEF s
<1>10. /\ DOMAIN batch' = Batches /\ batch'[b] = s
       /\ \A d \in Batches \ {b} : batch'[d] = batch[d]
  BY <1>1, <1>7
<1>11. RecordsFit(RecordsOf(b, f, q.mapping, new), b, f, q.mapping, new)
  <2>1. \A i, j \in new : Target(f[i]) = Target(f[j]) => i = j
    BY <1>2 DEF Decided, new
  <2> QED
    BY <2>1, RecordsAre
<1>12. MapsFit(MapsOf(b, f, q.mapping, new), b, f, q.mapping, new)
  <2>1. \A i, j \in new : f[i].source.raw = f[j].source.raw => i = j
    BY <1>1, <1>3, <1>5, PrimaryIs
  <2> QED
    BY <2>1, MapsAre
<1>13. \A i \in new : Target(f[i]) \in Targets /\ f[i].source.raw \in Sources
  BY <1>1, <1>3, <1>5, PrimaryIs, ReadyRow
<1>14. /\ DOMAIN record' = Targets
       /\ \A i \in new : record'[Target(f[i])]
                           = [by |-> "import", batch |-> b, payload |-> Payload(f[i], q.mapping)]
       /\ \A t \in Targets : (\A i \in new : Target(f[i]) # t) => record'[t] = record[t]
  BY <1>1, <1>7, <1>11, <1>13 DEF Over, RecordsFit
<1>15. /\ DOMAIN idMap' = Sources
       /\ \A i \in new : idMap'[f[i].source.raw] =
              [batch |-> b, target |-> Target(f[i]), payload |-> Payload(f[i], q.mapping)]
       /\ \A x \in Sources : (\A i \in new : f[i].source.raw # x) => idMap'[x] = idMap[x]
  BY <1>1, <1>7, <1>12, <1>13 DEF Over, MapsFit
<1> QED
  BY <1>9, <1>10, <1>14, <1>15 DEF Landed, new, out

LEMMA Landing ==
  ASSUME IInv, NEW c \in Operators, tx[c].pc = "committing", Writing(tx[c]),
         NEW q, q = tx[c], NEW b, b = q.batch, NEW f, f = batch[b].rows
  PROVE  /\ b \in Batches /\ q.key \in Keys /\ q.mapping \in Mappings /\ f \in Files[b] /\ Live
         /\ batch[b].status = "PREVIEWED" /\ Kept(batch[b])
         /\ Prepare(f, q.mapping) = "READY"
         /\ q.key \in q.held /\ \A d \in Batches : batch[d].key # q.key
         /\ Fresh(f) \subseteq Primary(f)
         /\ \A i \in Fresh(f) :
              /\ Target(f[i]) \in Targets /\ f[i].source.raw \in Sources
              /\ Target(f[i]) \in q.held /\ f[i].source.raw \in q.held
              /\ record[Target(f[i])] = NoRecord /\ idMap[f[i].source.raw] = NoMap
         /\ \A i \in Primary(f) \ Fresh(f) :
              LET map == idMap[f[i].source.raw]
              IN  /\ map.target = Target(f[i]) /\ map.payload = Payload(f[i], q.mapping)
                  /\ map.batch \in Batches \ {b}
<1>1. q \in Transactions /\ Knows(q) /\ b \in Batches /\ q.key \in Keys /\ q.mapping \in Mappings
  BY TxIs
<1>2. Written(q) /\ Decided(q) /\ Guarded(q) /\ Settled(q) /\ Planned(q) /\ Phase(q) /\ InTenant(q)
  BY <1>1 DEF Knows, Settled, Planned, InTenant
<1>3. batch[b].status = "PREVIEWED" /\ Live /\ Kept(batch[b]) /\ f \in Files[b]
  BY <1>1, <1>2, WritingPut DEF Phase, IInv, BatchInv, BatchGood
<1>4. /\ Prepare(f, q.mapping) = "READY" /\ q.key \in q.held
      /\ \A d \in Batches : batch[d].key # q.key
  BY <1>1, <1>2 DEF Guarded
<1>5. IdentityLocks(f) \subseteq q.held
  BY <1>2 DEF Decided
<1>6. /\ Fresh(f) \subseteq Primary(f)
      /\ \A i \in Fresh(f) : idMap[f[i].source.raw] = NoMap
  BY DEF Fresh
<1>7. \A i \in Primary(f) : /\ Target(f[i]) \in Targets /\ f[i].source.raw \in Sources
                            /\ Target(f[i]) \in q.held /\ f[i].source.raw \in q.held
  BY <1>1, <1>3, <1>4, <1>5, PrimaryIs, ReadyRow, LocksAre
<1>8. \A i \in Fresh(f) : record[Target(f[i])] = NoRecord
  BY <1>2 DEF Written
<1>9. ASSUME NEW i \in Primary(f) \ Fresh(f)
      PROVE  LET map == idMap[f[i].source.raw]
             IN  /\ map.target = Target(f[i]) /\ map.payload = Payload(f[i], q.mapping)
                 /\ map.batch \in Batches \ {b}
  <2>1. idMap[f[i].source.raw] # NoMap /\ f[i].source.raw \in Sources
    BY <1>7 DEF Fresh
  <2>2. i \in AlreadyMapped(f, q.mapping)
    BY <1>2 DEF Decided
  <2>3. idMap[f[i].source.raw].batch \in Batches \ {b}
    BY <1>3, <2>1 DEF IInv, Typed, MapInv
  <2> QED
    BY <2>2, <2>3 DEF AlreadyMapped
<1> QED
  BY <1>1, <1>3, <1>4, <1>6, <1>7, <1>8, <1>9

LEMMA LandedBatches ==
  ASSUME IInv, NEW c \in Operators, tx[c].pc = "committing", Writing(tx[c]), Landed(tx[c])
  PROVE  BatchInv'
<1> DEFINE q == tx[c]
           b == q.batch
           f == batch[b].rows
           new == Fresh(f)
<1>1. /\ b \in Batches /\ q.key \in Keys /\ q.mapping \in Mappings /\ f \in Files[b]
      /\ batch[b].status = "PREVIEWED" /\ Kept(batch[b])
      /\ Prepare(f, q.mapping) = "READY"
      /\ new \subseteq Primary(f)
      /\ \A i \in new :
           /\ Target(f[i]) \in Targets /\ f[i].source.raw \in Sources
           /\ idMap[f[i].source.raw] = NoMap
      /\ \A i \in Primary(f) \ new :
           LET map == idMap[f[i].source.raw]
           IN  /\ map.target = Target(f[i]) /\ map.payload = Payload(f[i], q.mapping)
               /\ map.batch \in Batches \ {b}
  BY Landing
<1>2. /\ batch'[b].status = "COMMITTED" /\ batch'[b].rows = f
      /\ batch'[b].outcomes = [i \in DOMAIN f |-> Outcome(f, new, i)]
      /\ batch'[b].key = q.key /\ batch'[b].mapping = q.mapping
      /\ batch'[b].version = "V2" /\ batch'[b].cleanup = batch[b].cleanup
      /\ \A d \in Batches \ {b} : batch'[d] = batch[d]
      /\ \A i \in new : idMap'[f[i].source.raw] =
              [batch |-> b, target |-> Target(f[i]), payload |-> Payload(f[i], q.mapping)]
      /\ \A s \in Sources : (\A i \in new : f[i].source.raw # s) => idMap'[s] = idMap[s]
  BY DEF Landed
<1> HIDE DEF new
\* The batch itself: every row is the first of its source, which is mapped.
<1>3. ASSUME NEW i \in DOMAIN f
      PROVE  /\ idMap'[f[i].source.raw].target = Target(f[i])
             /\ idMap'[f[i].source.raw].payload = Payload(f[i], q.mapping)
             /\ batch'[b].outcomes[i] = IF i \in Primary(f) /\ idMap'[f[i].source.raw].batch = b
                                        THEN "COMMITTED" ELSE "EXACT_DUPLICATE"
  <2>1. PICK j \in Primary(f) : f[j].source.raw = f[i].source.raw /\ j = FirstWithSource(f, i)
    BY <1>1, PrimaryIs
  <2>2. f[j] = f[i]
    BY <1>1, <2>1, ReadyIs
  <2>3. i \in Primary(f) => j = i
    BY <1>1, <2>1, PrimaryIs
  <2>4. batch'[b].outcomes[i] = IF i \in new THEN "COMMITTED" ELSE "EXACT_DUPLICATE"
    BY <1>2 DEF Outcome
  <2>5. CASE j \in new
    <3>1. idMap'[f[i].source.raw] =
            [batch |-> b, target |-> Target(f[i]), payload |-> Payload(f[i], q.mapping)]
      BY <1>2, <2>2, <2>5
    <3>2. i \in Primary(f) <=> i \in new
      BY <1>1, <2>3, <2>5
    <3> QED
      BY <2>4, <3>1, <3>2
  <2>6. CASE j \notin new
    <3>1. \A k \in new : f[k].source.raw # f[j].source.raw
      BY <1>1, <2>6, PrimaryIs
    <3>2. f[j].source.raw \in Sources
      BY <1>1, PrimaryIs, FileIs
    <3>3. idMap'[f[i].source.raw] = idMap[f[j].source.raw]
      BY <1>2, <2>1, <3>1, <3>2
    <3>4. /\ idMap'[f[i].source.raw].target = Target(f[i])
          /\ idMap'[f[i].source.raw].payload = Payload(f[i], q.mapping)
          /\ idMap'[f[i].source.raw].batch # b
      BY <1>1, <2>2, <2>6, <3>3
    <3>5. i \notin new
      BY <1>1, <2>3, <2>6
    <3> QED
      BY <2>4, <3>4, <3>5
  <2> QED
    BY <2>5, <2>6
<1>4. ASSUME NEW d \in Batches, d = b PROVE BatchGood(d)'
  <2>1. batch'[d].rows = f /\ batch'[d].mapping = q.mapping
    BY <1>2, <1>4
  <2>2. ASSUME NEW i \in DOMAIN f
        PROVE  /\ idMap'[f[i].source.raw].target = Target(f[i])
               /\ idMap'[f[i].source.raw].payload = Payload(f[i], q.mapping)
               /\ batch'[d].outcomes[i] = IF i \in Primary(f) /\ idMap'[f[i].source.raw].batch = d
                                          THEN "COMMITTED" ELSE "EXACT_DUPLICATE"
    BY <1>3, <1>4
  <2> HIDE DEF f
  <2>3. Reconcilable(d)'
    BY <2>1, <2>2 DEF Reconcilable, ExactLegacyRowEvidence
  <2> QED
    BY <1>1, <1>2, <1>4, <2>1, <2>3 DEF BatchGood, Kept, f
\* Another batch keeps its rows, and their entries.
<1>5. ASSUME NEW d \in Batches \ {b} PROVE BatchGood(d)'
  <2>1. batch'[d] = batch[d] /\ BatchGood(d)
    BY <1>2 DEF IInv, BatchInv
  <2>2. ASSUME batch[d].status = "COMMITTED", Kept(batch[d]) PROVE Reconcilable(d)'
    <3> SUFFICES ASSUME NEW i \in DOMAIN batch[d].rows
                 PROVE  idMap'[batch[d].rows[i].source.raw] = idMap[batch[d].rows[i].source.raw]
      BY <2>1, <2>2 DEF BatchGood, Reconcilable, ExactLegacyRowEvidence
    <3>1. /\ batch[d].rows \in Files[d] /\ Prepare(batch[d].rows, batch[d].mapping) = "READY"
          /\ ExactLegacyRowEvidence(d, batch[d].mapping, i)
      BY <2>1, <2>2 DEF BatchGood, Reconcilable
    <3>2. Target(batch[d].rows[i]) \in Targets /\ batch[d].rows[i].source.raw \in Sources
      BY <3>1, ReadyRow
    <3>3. idMap[batch[d].rows[i].source.raw].target # NoMap.target
      BY <3>1, <3>2, ImportAssumption DEF ExactLegacyRowEvidence, NoMap, None
    <3> QED
      BY <1>1, <1>2, <3>2, <3>3
  <2> QED
    BY <2>1, <2>2 DEF BatchGood
<1> QED
  BY <1>4, <1>5 DEF BatchInv

LEMMA LandedMaps ==
  ASSUME IInv, NEW c \in Operators, tx[c].pc = "committing", Writing(tx[c]), Landed(tx[c])
  PROVE  /\ MapInv'
         /\ \A s \in Sources : idMap'[s] # NoMap =>
              idMap'[s].batch \in Batches /\ idMap'[s].target \in Targets
         /\ \A t \in Targets : record'[t].by \in {"none", "crm", "import"}
<1> DEFINE q == tx[c]
           b == q.batch
           f == batch[b].rows
           new == Fresh(f)
<1>1. /\ b \in Batches /\ batch[b].status = "PREVIEWED"
      /\ \A i \in new :
           /\ Target(f[i]) \in Targets /\ f[i].source.raw \in Sources
           /\ record[Target(f[i])] = NoRecord /\ idMap[f[i].source.raw] = NoMap
  BY Landing
<1>2. /\ batch'[b].status = "COMMITTED"
      /\ \A d \in Batches \ {b} : batch'[d] = batch[d]
      /\ \A i \in new :
           /\ record'[Target(f[i])] =
                [by |-> "import", batch |-> b, payload |-> Payload(f[i], q.mapping)]
           /\ idMap'[f[i].source.raw] =
                [batch |-> b, target |-> Target(f[i]), payload |-> Payload(f[i], q.mapping)]
      /\ \A t \in Targets : (\A i \in new : Target(f[i]) # t) => record'[t] = record[t]
      /\ \A s \in Sources : (\A i \in new : f[i].source.raw # s) => idMap'[s] = idMap[s]
  BY DEF Landed
<1>3. /\ \A s \in Sources : idMap[s] # NoMap =>
           /\ idMap[s].batch \in Batches /\ idMap[s].target \in Targets
           /\ batch[idMap[s].batch].status = "COMMITTED"
           /\ record[idMap[s].target] =
                [by |-> "import", batch |-> idMap[s].batch, payload |-> idMap[s].payload]
      /\ \A t \in Targets : /\ record[t].by \in {"none", "crm", "import"}
                            /\ record[t].by = "import" => \E s \in Sources : idMap[s].target = t
  BY DEF IInv, Typed, MapInv
<1> HIDE DEF new, f
<1>4. ASSUME NEW s \in Sources, idMap'[s] # NoMap
      PROVE  /\ idMap'[s].batch \in Batches /\ idMap'[s].target \in Targets
             /\ batch'[idMap'[s].batch].status = "COMMITTED"
             /\ record'[idMap'[s].target] =
                  [by |-> "import", batch |-> idMap'[s].batch, payload |-> idMap'[s].payload]
  <2>1. CASE \E i \in new : f[i].source.raw = s
    <3>1. PICK i \in new : f[i].source.raw = s
      BY <2>1
    <3>2. idMap'[s] = [batch |-> b, target |-> Target(f[i]), payload |-> Payload(f[i], q.mapping)]
      BY <1>2, <3>1
    <3>3. /\ idMap'[s].batch = b /\ idMap'[s].target = Target(f[i])
          /\ idMap'[s].payload = Payload(f[i], q.mapping)
      BY <3>2
    <3> QED
      BY <1>1, <1>2, <3>3
  <2>2. CASE ~\E i \in new : f[i].source.raw = s
    <3>1. idMap'[s] = idMap[s]
      BY <1>2, <2>2
    <3>2. idMap[s].batch \in Batches \ {b}
      BY <1>1, <1>3, <1>4, <3>1
    <3>3. record[idMap[s].target] # NoRecord /\ idMap[s].target \in Targets
      <4>1. idMap[s] # NoMap
        BY <1>4, <3>1
      <4>2. /\ record[idMap[s].target] =
                 [by |-> "import", batch |-> idMap[s].batch, payload |-> idMap[s].payload]
            /\ idMap[s].target \in Targets
        BY <1>3, <4>1, Zenon
      <4> QED
        BY ONLY <4>2 DEF NoRecord
    <3>4. record'[idMap[s].target] = record[idMap[s].target]
      <4>1. \A i \in new : Target(f[i]) # idMap[s].target
        BY <1>1, <3>3
      <4> QED
        BY <1>2, <3>3, <4>1
    <3> QED
      BY <1>2, <1>3, <1>4, <3>1, <3>2, <3>4
  <2> QED
    BY <2>1, <2>2
<1>5. ASSUME NEW t \in Targets
      PROVE  /\ record'[t].by \in {"none", "crm", "import"}
             /\ record'[t].by = "import" => \E s \in Sources : idMap'[s].target = t
  <2>1. CASE \E i \in new : Target(f[i]) = t
    <3>1. PICK i \in new : Target(f[i]) = t
      BY <2>1
    <3>2. record'[t].by = "import"
      <4>1. record'[Target(f[i])] =
              [by |-> "import", batch |-> b, payload |-> Payload(f[i], q.mapping)]
        BY <1>2
      <4> QED
        BY ONLY <3>1, <4>1
    <3>3. f[i].source.raw \in Sources
      BY <1>1
    <3>4. idMap'[f[i].source.raw] =
            [batch |-> b, target |-> Target(f[i]), payload |-> Payload(f[i], q.mapping)]
      BY <1>2
    <3>5. idMap'[f[i].source.raw].target = t
      BY <3>1, <3>4
    <3>6. \E s \in Sources : idMap'[s].target = t
      BY <3>3, <3>5, Zenon
    <3> QED
      BY <3>2, <3>6
  <2>2. CASE ~\E i \in new : Target(f[i]) = t
    <3>1. record'[t] = record[t]
      BY <1>2, <2>2
    <3>2. ASSUME record[t].by = "import" PROVE \E s \in Sources : idMap'[s].target = t
      <4>1. PICK s \in Sources : idMap[s].target = t
        BY <1>3, <3>2
      <4>2. idMap[s] # NoMap
        BY <4>1, ImportAssumption DEF NoMap, None
      <4>3. idMap'[s] = idMap[s]
        BY <1>1, <1>2, <4>2
      <4> QED
        BY <4>1, <4>3
    <3> QED
      BY <1>3, <3>1, <3>2
  <2> QED
    BY <2>1, <2>2
<1> QED
  BY <1>4, <1>5 DEF MapInv

\* The locks and the batch of another transaction keep what it knows.
LEMMA LandedKnows ==
  ASSUME IInv, NEW c \in Operators, tx[c].pc = "committing", Writing(tx[c]), Landed(tx[c]),
         offboarding' = offboarding, NEW d \in Operators \ {c}, NEW t, t = tx[d]
  PROVE  Knows(t)'
<1> DEFINE q == tx[c]
           b == q.batch
           f == batch[b].rows
           new == Fresh(f)
<1>1. /\ b \in Batches /\ q.key \in q.held
      /\ \A i \in new :
           Target(f[i]) \in Targets /\ Target(f[i]) \in q.held /\ f[i].source.raw \in q.held
  BY Landing
<1>2. /\ batch'[b].key = q.key
      /\ \A e \in Batches \ {b} : batch'[e] = batch[e]
      /\ \A x \in Targets : (\A i \in new : Target(f[i]) # x) => record'[x] = record[x]
      /\ \A s \in Sources : (\A i \in new : f[i].source.raw # s) => idMap'[s] = idMap[s]
  BY DEF Landed
<1> HIDE DEF new, f
<1>3. Knows(t) /\ Apart(q, t) /\ (t.pc # "idle" => t.batch \in Batches)
  BY TxIs DEF IInv
<1>4. CASE ~InTenant(t)
  BY <1>3, <1>4 DEF Knows, Phase, Guarded, Decided, Written, Planned, Settled, Writing, InTenant
<1>5. CASE InTenant(t)
  <2> DEFINE rows == batch[t.batch].rows
  <2>1. t.batch \in Batches \ {b} /\ batch'[t.batch] = batch[t.batch] /\ t.key \in Keys
    BY <1>2, <1>3, <1>5 DEF Apart, InTenant, Knows, Phase
  <2>2. Phase(t)'
    BY <1>3, <2>1 DEF Knows, Phase, Live, Writing, InTenant
  <2>3. Guarded(t)'
    <3> SUFFICES ASSUME Planned(t) PROVE Guarded(t)'
      BY DEF Guarded, Planned, Settled, Writing
    <3>1. Guarded(t) /\ t.key \in t.held
      BY <1>3 DEF Knows, Guarded
    <3>2. t.key # q.key
      BY <1>1, <1>3, <3>1 DEF Apart
    <3>3. \A e \in Batches : batch'[e].key # t.key
      BY <1>2, <3>1, <3>2 DEF Guarded
    <3> QED
      BY <2>1, <3>1, <3>3 DEF Guarded
  <2>4. ASSUME Settled(t)
        PROVE  /\ rows \in Files[t.batch] /\ Prepare(rows, t.mapping) = "READY"
               /\ \A i \in Primary(rows) :
                    /\ idMap'[rows[i].source.raw] = idMap[rows[i].source.raw]
                    /\ Target(rows[i]) \in Targets
                    /\ record'[Target(rows[i])] = record[Target(rows[i])]
    <3>1. Decided(t) /\ Guarded(t) /\ Planned(t) /\ batch[t.batch].status = "PREVIEWED"
      BY <1>3, <1>5, <2>4, WritingPut DEF Knows, Planned, Settled, Phase, InTenant
    <3>2. rows \in Files[t.batch] /\ Prepare(rows, t.mapping) = "READY"
      BY <2>1, <3>1 DEF IInv, BatchInv, BatchGood, Guarded
    <3>3. IdentityLocks(rows) \subseteq t.held
      BY <2>4, <3>1 DEF Decided
    <3> HIDE DEF rows
    <3>4. ASSUME NEW i \in Primary(rows)
          PROVE  /\ idMap'[rows[i].source.raw] = idMap[rows[i].source.raw]
                 /\ Target(rows[i]) \in Targets
                 /\ record'[Target(rows[i])] = record[Target(rows[i])]
      <4>1. Target(rows[i]) \in Targets /\ rows[i].source.raw \in Sources
        BY <2>1, <3>2, PrimaryIs, ReadyRow
      <4>2. rows[i].source.raw \in t.held /\ Target(rows[i]) \in t.held
        BY <2>1, <3>2, <3>3, LocksAre
      <4>3. rows[i].source.raw \notin q.held /\ Target(rows[i]) \notin q.held
        BY <1>3, <4>2 DEF Apart
      <4> QED
        BY <1>1, <1>2, <4>1, <4>3
    <3> QED
      BY <3>2, <3>4
  <2>5. rows' = rows
    BY <2>1
  <2> HIDE DEF rows
  <2>6. ASSUME Settled(t)
        PROVE  /\ Fresh(rows)' = Fresh(rows)
               /\ AlreadyMapped(rows, t.mapping)' = AlreadyMapped(rows, t.mapping)
    BY <2>4, <2>5, <2>6 DEF Fresh, AlreadyMapped
  <2>7. Decided(t)'
    <3> SUFFICES ASSUME Settled(t) PROVE Decided(t)'
      BY DEF Decided, Settled, Writing
    <3> QED
      BY <1>3, <2>5, <2>6 DEF Knows, Decided, rows
  <2>8. Written(t)'
    <3> SUFFICES ASSUME Writing(t) PROVE Written(t)'
      BY DEF Written, Writing
    <3>1. Settled(t)
      BY DEF Settled
    <3>2. \A i \in Fresh(rows) : i \in Primary(rows)
      BY DEF Fresh
    <3>3. \A i \in Fresh(rows) : record'[Target(rows[i])] = NoRecord
      BY <1>3, <2>4, <3>1, <3>2 DEF Knows, Written, rows
    <3> QED
      BY <1>3, <2>5, <2>6, <3>1, <3>3 DEF Knows, Written, rows
  <2> QED
    BY <2>2, <2>3, <2>7, <2>8 DEF Knows
<1> QED
  BY <1>4, <1>5

LEMMA LandedKeeps ==
  ASSUME IInv, NEW c \in Operators, tx[c].pc = "committing", Writing(tx[c]), Landed(tx[c]),
         Ended(c), UNCHANGED <<offboarding, requests>>
  PROVE  IInv'
<1>1. tx \in [Operators -> Transactions] /\ tx' = [tx EXCEPT ![c] = Idle]
  BY DEF Ended, IInv, Typed
<1>2. tx'[c] = Idle /\ \A d \in Operators \ {c} : tx'[d] = tx[d]
  BY <1>1
<1>3. BatchInv' /\ MapInv'
  BY LandedBatches, LandedMaps
<1>4. Typed'
  <2>1. tx' \in [Operators -> Transactions]
    BY <1>1, IdleIs
  <2>2. /\ DOMAIN batch' = Batches /\ \A b \in Batches : batch'[b] \in BatchRows(b)
        /\ DOMAIN record' = Targets /\ DOMAIN idMap' = Sources
    BY DEF Landed, IInv, Typed
  <2> QED
    BY <2>1, <2>2, LandedMaps DEF IInv, Typed
<1>5. OffboardingInv'
  <2>1. Live
    BY Landing
  <2> QED
    BY <2>1 DEF OffboardingInv, Live
<1>6. ASSUME NEW d \in Operators PROVE Knows(tx[d])'
  <2>1. PICK t : t = tx'[d]
    OBVIOUS
  <2>2. CASE d = c
    <3>1. t = Idle
      BY <1>2, <2>1, <2>2
    <3>2. Knows(t)'
      BY <3>1 DEF Knows, Phase, Guarded, Decided, Written, Planned, Settled, Writing, InTenant, Idle
    <3> QED
      BY <2>1, <3>2
  <2>3. CASE d # c
    <3>1. t = tx[d]
      BY <1>2, <2>1, <2>3
    <3>2. Knows(t)'
      BY <2>3, <3>1, LandedKnows
    <3> QED
      BY <2>1, <3>2
  <2> QED
    BY <2>2, <2>3
<1>7. ASSUME NEW d \in Operators, NEW e \in Operators, d # e PROVE Apart(tx[d], tx[e])'
  <2>1. Apart(tx'[d], tx'[e])
    BY <1>2, <1>7, IdleIs, ApartSymmetric DEF IInv
  <2> QED
    BY <2>1 DEF Apart, InTenant
<1> QED
  BY <1>3, <1>4, <1>5, <1>6, <1>7 DEF IInv

LEMMA CommitKeeps ==
  ASSUME IInv, NEW c \in Operators, Commit(c) \/ CommitLost(c)
  PROVE  IInv'
<1>1. tx[c].pc = "committing" /\ Ended(c) /\ UNCHANGED <<offboarding, requests>>
  BY DEF Commit, CommitLost
<1>2. CASE UNCHANGED <<batch, record, idMap>>
  BY <1>1, <1>2, StillRested, EndedMove, LocalKeeps
<1>3. CASE Applied(c) /\ ~Writing(tx[c])
  BY <1>1, <1>3, AppliedLocal, LocalKeeps
<1>4. CASE Applied(c) /\ Writing(tx[c])
  BY <1>1, <1>4, AppliedLands, LandedKeeps
<1> QED
  BY <1>2, <1>3, <1>4 DEF Commit, CommitLost

-----------------------------------------------------------------------------
(* The other actors                                                        *)

\* A step of no transaction keeps what each knows, when the rows stay.
LEMMA OtherKeeps ==
  ASSUME IInv, Rested, tx' = tx, requests' = requests
  PROVE  IInv'
<1>1. Typed'
  BY DEF IInv, Typed, Rested, SameBatch
<1>2. BatchInv' /\ MapInv' /\ OffboardingInv'
  BY RestedRows DEF IInv
<1>3. ASSUME NEW d \in Operators PROVE Knows(tx[d])'
  <2>1. PICK t : t = tx[d]
    OBVIOUS
  <2>2. Knows(t) /\ (t.pc # "idle" => t.batch \in Batches)
    BY <2>1, TxIs
  <2>3. Knows(t)'
    BY <2>2, RestedKnows
  <2> QED
    BY <2>1, <2>3
<1>4. \A d, e \in Operators : d # e => Apart(tx[d], tx[e])'
  BY DEF IInv, Apart, InTenant
<1> QED
  BY <1>1, <1>2, <1>3, <1>4 DEF IInv

LEMMA RawExpiresStep ==
  ASSUME IInv, NEW b \in Batches, RawExpires(b) \/ CleanupFails(b)
  PROVE  IInv'
<1>1. DOMAIN batch = Batches /\ batch[b] \in BatchRows(b)
  BY DEF IInv, Typed
<1>2. CASE RawExpires(b)
  <2> DEFINE s == [batch[b] EXCEPT !.expired = TRUE]
  <2>1. /\ batch' = [batch EXCEPT ![b] = s] /\ UNCHANGED <<record, idMap, tx, offboarding, requests>>
    BY <1>2 DEF RawExpires
  <2>2. s \in BatchRows(b) /\ SameFields(batch[b], s)
    BY <1>1 DEF BatchRows, SameFields, Kept
  <2> HIDE DEF s
  <2> QED
    BY <2>1, <2>2, OneBatchRested, OtherKeeps
<1>3. CASE CleanupFails(b)
  <2> DEFINE s == [batch[b] EXCEPT !.cleanup = "FAILED"]
  <2>1. /\ batch' = [batch EXCEPT ![b] = s] /\ UNCHANGED <<record, idMap, tx, offboarding, requests>>
        /\ Kept(batch[b])
    BY <1>3 DEF CleanupFails, NextDue, Due, Kept
  <2>2. s \in BatchRows(b) /\ SameFields(batch[b], s)
    BY <1>1, <2>1 DEF BatchRows, SameFields, Kept
  <2> HIDE DEF s
  <2> QED
    BY <2>1, <2>2, OneBatchRested, OtherKeeps
<1> QED
  BY <1>2, <1>3

LEMMA OffboardingSteps ==
  ASSUME IInv, RequestOffboarding \/ OffboardingFails
  PROVE  IInv'
<1>1. Rested
  BY DEF RequestOffboarding, OffboardingFails, Rested, SameBatch, SameFields, Live, IInv, Typed
<1> QED
  BY <1>1, OtherKeeps DEF RequestOffboarding, OffboardingFails

\* A CRM record takes an identifier no import is about to write.
LEMMA CrmCreatesStep ==
  ASSUME IInv, NEW t \in Targets, CrmCreates(t)
  PROVE  IInv'
<1>1. /\ record[t] = NoRecord /\ UNCHANGED <<batch, idMap, tx, offboarding, requests>>
      /\ record' = [record EXCEPT ![t] = [NoRecord EXCEPT !.by = "crm"]]
      /\ \A c \in Operators : tx[c].put.kind = "commit" => t \notin DOMAIN tx[c].put.records
  BY DEF CrmCreates
<1>2. /\ DOMAIN record' = Targets /\ record'[t].by = "crm"
      /\ \A u \in Targets \ {t} : record'[u] = record[u]
  BY <1>1 DEF IInv, Typed, NoRecord
<1>3. Typed'
  BY <1>1, <1>2 DEF IInv, Typed
<1>4. BatchInv'
  BY <1>1 DEF IInv, BatchInv, BatchGood, Reconcilable, ExactLegacyRowEvidence
<1>5. MapInv'
  <2>1. ASSUME NEW s \in Sources, idMap[s] # NoMap PROVE idMap[s].target \in Targets \ {t}
    <3>1. /\ record[idMap[s].target] =
               [by |-> "import", batch |-> idMap[s].batch, payload |-> idMap[s].payload]
          /\ idMap[s].target \in Targets
      BY <2>1, Zenon DEF IInv, Typed, MapInv
    <3>2. record[idMap[s].target] # NoRecord
      BY ONLY <3>1 DEF NoRecord
    <3> QED
      BY <1>1, <3>1, <3>2
  <2> QED
    BY <1>1, <1>2, <2>1 DEF IInv, MapInv
<1>6. OffboardingInv'
  BY <1>1 DEF IInv, OffboardingInv, Live
<1>7. ASSUME NEW d \in Operators PROVE Knows(tx[d])'
  <2> DEFINE q == tx[d]
             rows == batch[q.batch].rows
  <2>1. Knows(q)
    BY DEF IInv
  <2>2. Phase(q)' /\ Guarded(q)'
    BY <1>1, <2>1 DEF Knows, Phase, Guarded, Planned, Settled, Writing, InTenant, Live
  <2>3. Decided(q)'
    <3>1. q' = q /\ rows' = rows
      BY <1>1
    <3>2. Fresh(rows)' = Fresh(rows)
          /\ AlreadyMapped(rows, q.mapping)' = AlreadyMapped(rows, q.mapping)
      BY <1>1 DEF Fresh, AlreadyMapped
    <3> QED
      BY <2>1, <3>1, <3>2 DEF Knows, Decided, Settled, Writing
  <2>4. ASSUME Writing(q) PROVE Written(q)'
    <3>1. Written(q) /\ Decided(q) /\ q.put.kind = "commit"
      BY <2>1, <2>4, WritingPut DEF Knows
    <3>2. q.put.records = RecordsOf(q.batch, rows, q.mapping, Fresh(rows))
      BY <2>4, <3>1 DEF Written, CommitPut
    <3>3. \A i, j \in Fresh(rows) : Target(rows[i]) = Target(rows[j]) => i = j
      BY <2>4, <3>1 DEF Decided, Settled
    <3>4. RecordsFit(q.put.records, q.batch, rows, q.mapping, Fresh(rows))
      BY <3>2, <3>3, RecordsAre
    <3>5. \A i \in Fresh(rows) : Target(rows[i]) # t
      BY <1>1, <3>1, <3>4 DEF RecordsFit
    <3>6. \A i \in Fresh(rows) : Target(rows[i]) \in Targets
      <4>1. rows \in Files[q.batch] /\ Prepare(rows, q.mapping) = "READY" /\ q.batch \in Batches
        BY <2>1, <2>4, WritingPut
        DEF Knows, Phase, Guarded, Planned, Settled, Writing, InTenant, IInv, BatchInv, BatchGood
      <4> QED
        BY <4>1, ReadyRow, PrimaryIs DEF Fresh
    <3>7. \A i \in Fresh(rows) : record'[Target(rows[i])] = NoRecord
      BY <1>2, <2>4, <3>1, <3>5, <3>6 DEF Written
    <3>8. Fresh(rows)' = Fresh(rows) /\ rows' = rows
      BY <1>1 DEF Fresh
    <3> QED
      BY <1>1, <2>4, <3>1, <3>7, <3>8 DEF Written
  <2>5. Written(q)'
    BY <1>1, <2>4 DEF Written, Writing
  <2> QED
    BY <2>2, <2>3, <2>5 DEF Knows
<1>8. \A d, e \in Operators : d # e => Apart(tx[d], tx[e])'
  BY <1>1 DEF IInv, Apart, InTenant
<1> QED
  BY <1>3, <1>4, <1>5, <1>6, <1>7, <1>8 DEF IInv

\* What a transaction knows is about its batch, the keys of the others, and the
\* entries and records of its rows.
LEMMA StaysKnown ==
  ASSUME NEW t, Knows(t), UNCHANGED <<record, idMap, offboarding>>,
         t.pc # "idle" => t.batch \in Batches,
         InTenant(t) => batch'[t.batch] = batch[t.batch],
         InTenant(t) => \A d \in Batches : batch'[d].key \in {batch[d].key, None},
         t.pc # "idle" => t.key # None
  PROVE  Knows(t)'
<1>1. CASE ~InTenant(t)
  BY <1>1 DEF Knows, Phase, Guarded, Decided, Written, Planned, Settled, Writing, InTenant
<1>2. CASE InTenant(t)
  <2> DEFINE rows == batch[t.batch].rows
  <2>1. rows' = rows /\ batch'[t.batch] = batch[t.batch] /\ t.pc # "idle"
    BY <1>2 DEF InTenant
  <2>2. Phase(t)'
    BY <2>1 DEF Knows, Phase, Live, Writing, InTenant
  <2>3. Guarded(t)'
    BY <1>2, <2>1 DEF Knows, Guarded, Planned, Settled, Writing
  <2>4. Fresh(rows)' = Fresh(rows)
        /\ AlreadyMapped(rows, t.mapping)' = AlreadyMapped(rows, t.mapping)
    BY <2>1 DEF Fresh, AlreadyMapped
  <2> HIDE DEF rows
  <2>5. Decided(t)'
    BY <2>1, <2>4 DEF Knows, Decided, Settled, Writing, rows
  <2>6. Written(t)'
    BY <2>1, <2>4 DEF Knows, Written, Writing, rows
  <2> QED
    BY <2>2, <2>3, <2>5, <2>6 DEF Knows
<1> QED
  BY <1>1, <1>2

\* What a staged batch is.
LEMMA StagedIs ==
  ASSUME NEW b \in Batches, NEW file \in Files[b]
  PROVE  LET s == Staged(file)
         IN  /\ s \in BatchRows(b) /\ s.status = "PREVIEWED" /\ s.rows = file /\ s.key = None
             /\ s.cleanup = "PENDING"
<1>1. DOMAIN file = 1..Len(file) /\ Len(file) \in Nat
  BY FileIs
<1> DEFINE O == Seq({"PENDING", "COMMITTED", "EXACT_DUPLICATE"})
           out == [i \in DOMAIN file |-> "PENDING"]
<1>2. out \in O
  BY <1>1
<1> HIDE DEF out, O
<1> DEFINE s0 == [NoBatch EXCEPT !.status = "PREVIEWED", !.rows = file,
                                 !.outcomes = out, !.cleanup = "PENDING"]
<1>3. Staged(file) = s0
  BY Zenon DEF Staged, out
<1>4. NoBatch \in BatchRows(b) /\ NoBatch.key = None
  <2>1. <<>> \in O /\ None \in Keys \cup {None} /\ None \in Mappings \cup {None}
    BY DEF O
  <2> QED
    BY <2>1 DEF BatchRows, NoBatch, Refusals, O
<1>5. /\ s0 \in BatchRows(b) /\ s0.status = "PREVIEWED" /\ s0.rows = file
      /\ s0.key = NoBatch.key /\ s0.cleanup = "PENDING"
  BY <1>2, <1>4 DEF BatchRows, O
<1> QED
  BY <1>3, <1>4, <1>5

LEMMA StagePreviewStep ==
  ASSUME IInv, StagePreview
  PROVE  IInv'
<1>1. Live /\ UNCHANGED <<record, idMap, tx, offboarding, requests>>
  BY DEF StagePreview
<1>2. PICK b \in Batches : \E file \in Files[b] :
        batch[b].status = "NONE" /\ batch' = [batch EXCEPT ![b] = Staged(file)]
  BY DEF StagePreview
<1>3. PICK file \in Files[b] :
        batch[b].status = "NONE" /\ batch' = [batch EXCEPT ![b] = Staged(file)]
  BY <1>2
<1> DEFINE s == Staged(file)
<1>4. /\ s \in BatchRows(b) /\ s.status = "PREVIEWED" /\ s.rows = file /\ s.key = None
      /\ s.cleanup = "PENDING"
  BY StagedIs
<1> HIDE DEF s
<1>5. /\ DOMAIN batch' = Batches /\ batch'[b] = s
      /\ \A d \in Batches \ {b} : batch'[d] = batch[d]
  BY <1>3 DEF IInv, Typed, s
<1>6. Typed'
  BY <1>1, <1>4, <1>5 DEF IInv, Typed
<1>7. BatchInv'
  <2>1. BatchGood(b)'
    BY <1>4, <1>5 DEF BatchGood, Kept
  <2>2. ASSUME NEW d \in Batches \ {b} PROVE BatchGood(d)'
    BY <1>1, <1>5 DEF IInv, BatchInv, BatchGood, Reconcilable, ExactLegacyRowEvidence
  <2> QED
    BY <2>1, <2>2 DEF BatchInv
<1>8. MapInv'
  BY <1>1, <1>3, <1>5 DEF IInv, Typed, MapInv
<1>9. OffboardingInv'
  BY <1>1 DEF OffboardingInv, Live
<1>10. ASSUME NEW c \in Operators PROVE Knows(tx[c])'
  <2>1. PICK t : t = tx[c]
    OBVIOUS
  <2>2. Knows(t) /\ (t.pc # "idle" => t.batch \in Batches /\ t.key \in Keys)
    BY <2>1, TxIs
  <2>3. InTenant(t) => t.pc # "idle" /\ t.batch # b
    <3>1. Phase(t) /\ (t.pc = "committing" =>
                          batch[t.batch].status \in {"PREVIEWED", "COMMITTED"})
      BY <2>2 DEF Knows, Phase
    <3> QED
      BY <1>3, <3>1 DEF Phase, InTenant
  <2>4. InTenant(t) => batch'[t.batch] = batch[t.batch]
    BY <1>5, <2>2, <2>3
  <2>5. \A d \in Batches : batch'[d].key \in {batch[d].key, None}
    BY <1>4, <1>5
  <2>6. t.pc # "idle" => t.key # None
    BY <2>2, ImportAssumption
  <2>7. t.pc # "idle" => t.batch \in Batches
    BY <2>2
  <2>8. Knows(t)'
    BY <1>1, <2>2, <2>4, <2>5, <2>6, <2>7, StaysKnown
  <2> QED
    BY <1>1, <2>1, <2>8
<1>11. \A d, e \in Operators : d # e => Apart(tx[d], tx[e])'
  BY <1>1 DEF IInv, Apart, InTenant
<1> QED
  BY <1>6, <1>7, <1>8, <1>9, <1>10, <1>11 DEF IInv

\* Scrubbing drops the raw rows of a batch and keeps its commit.
LEMMA ScrubbedIs ==
  ASSUME NEW b \in Batches, NEW s \in BatchRows(b)
  PROVE  LET r == Scrubbed(s)
         IN  /\ r \in BatchRows(b) /\ r.rows = <<>> /\ r.key = s.key /\ r.cleanup = "SUCCEEDED"
             /\ r.status = IF s.status = "COMMITTED" THEN "COMMITTED" ELSE "EXPIRED"
<1> DEFINE O == Seq({"PENDING", "COMMITTED", "EXACT_DUPLICATE"})
<1> HIDE DEF O
<1> DEFINE st == IF s.status = "COMMITTED" THEN "COMMITTED" ELSE "EXPIRED"
<1>1. st \in {"COMMITTED", "EXPIRED"} /\ (st = "COMMITTED" <=> s.status = "COMMITTED")
  OBVIOUS
<1>2. Scrubbed(s) = [s EXCEPT !.status = st, !.rows = <<>>, !.version = "NONE",
                              !.mapping = None, !.cleanup = "SUCCEEDED"]
  BY DEF Scrubbed, BatchRows, O
<1> HIDE DEF st
<1>3. LET r == [s EXCEPT !.status = st, !.rows = <<>>, !.version = "NONE",
                         !.mapping = None, !.cleanup = "SUCCEEDED"]
      IN  /\ r \in BatchRows(b) /\ r.rows = <<>> /\ r.key = s.key /\ r.cleanup = "SUCCEEDED"
          /\ r.status = st
  BY <1>1 DEF BatchRows, O
<1> QED
  BY <1>2, <1>3 DEF st

\* Nobody is in a transaction of the tenant when its batches are scrubbed.
LEMMA OutsideKnows ==
  ASSUME NEW t, Knows(t), ~InTenant(t)
  PROVE  Knows(t)'
  BY DEF Knows, Phase, Guarded, Decided, Written, Planned, Settled, Writing, InTenant

LEMMA ScrubbingKeeps ==
  ASSUME IInv, TenantFree, DOMAIN batch' = Batches, UNCHANGED <<record, idMap, tx, requests>>,
         \A b \in Batches : \/ batch'[b] = batch[b]
                            \/ Kept(batch[b]) /\ batch'[b] = Scrubbed(batch[b]),
         \/ offboarding' = offboarding
         \/ /\ offboarding' = "OFFBOARDED_ACCESS_REVOKED"
            /\ \A b \in Batches : Kept(batch[b]) => batch'[b] = Scrubbed(batch[b])
  PROVE  IInv'
<1>1. ASSUME NEW b \in Batches, batch'[b] = Scrubbed(batch[b])
      PROVE  /\ batch'[b] \in BatchRows(b) /\ batch'[b].rows = <<>>
             /\ batch'[b].key = batch[b].key /\ batch'[b].cleanup = "SUCCEEDED"
             /\ batch'[b].status =
                  IF batch[b].status = "COMMITTED" THEN "COMMITTED" ELSE "EXPIRED"
  BY <1>1, ScrubbedIs DEF IInv, Typed
<1>2. Typed'
  BY <1>1 DEF IInv, Typed
<1>3. BatchInv'
  <2> SUFFICES ASSUME NEW b \in Batches PROVE BatchGood(b)'
    BY DEF BatchInv
  <2>1. BatchGood(b)
    BY DEF IInv, BatchInv
  <2>2. CASE batch'[b] = batch[b]
    BY <2>1, <2>2 DEF BatchGood, Reconcilable, ExactLegacyRowEvidence
  <2>3. CASE batch'[b] = Scrubbed(batch[b])
    BY <1>1, <2>1, <2>3 DEF BatchGood, Kept
  <2> QED
    BY <2>2, <2>3
<1>4. MapInv'
  <2>1. \A b \in Batches : batch[b].status = "COMMITTED" => batch'[b].status = "COMMITTED"
    BY <1>1
  <2> QED
    BY <2>1 DEF IInv, Typed, MapInv
<1>5. OffboardingInv'
  <2>1. ASSUME NEW b \in Batches, batch[b].rows = <<>> PROVE batch'[b].rows = <<>>
    BY <1>1, <2>1
  <2>2. ASSUME NEW b \in Batches, ~Kept(batch[b]) PROVE batch'[b].rows = <<>>
    BY <2>1, <2>2 DEF IInv, BatchInv, BatchGood
  <2>3. CASE offboarding' = offboarding
    BY <2>1, <2>3 DEF IInv, OffboardingInv, Live
  <2>4. CASE \A b \in Batches : Kept(batch[b]) => batch'[b] = Scrubbed(batch[b])
    BY <1>1, <2>2, <2>4 DEF OffboardingInv
  <2> QED
    BY <2>3, <2>4
<1>6. ASSUME NEW c \in Operators PROVE Knows(tx[c])'
  <2>1. PICK t : t = tx[c]
    OBVIOUS
  <2>2. Knows(t) /\ ~InTenant(t)
    BY <2>1 DEF IInv, TenantFree, InTenantTransaction, InTenant
  <2>3. Knows(t)'
    BY <2>2, OutsideKnows
  <2> QED
    BY <2>1, <2>3
<1>7. \A d, e \in Operators : d # e => Apart(tx[d], tx[e])'
  BY DEF IInv, Apart, InTenant
<1> QED
  BY <1>2, <1>3, <1>4, <1>5, <1>6, <1>7 DEF IInv

LEMMA CleanupSucceedsStep ==
  ASSUME IInv, NEW b \in Batches, CleanupSucceeds(b)
  PROVE  IInv'
<1>1. /\ TenantFree /\ Kept(batch[b]) /\ UNCHANGED <<record, idMap, tx, offboarding, requests>>
      /\ batch' = [batch EXCEPT ![b] = Scrubbed(batch[b])]
  BY DEF CleanupSucceeds, NextDue, Due, Kept
<1>2. /\ DOMAIN batch' = Batches /\ batch'[b] = Scrubbed(batch[b])
      /\ \A d \in Batches \ {b} : batch'[d] = batch[d]
  BY <1>1 DEF IInv, Typed
<1> QED
  BY <1>1, <1>2, ScrubbingKeeps

LEMMA OffboardStep ==
  ASSUME IInv, Offboard
  PROVE  IInv'
<1>1. /\ TenantFree /\ UNCHANGED <<record, idMap, tx, requests>>
      /\ offboarding' = "OFFBOARDED_ACCESS_REVOKED"
      /\ batch' = [b \in Batches |-> IF Kept(batch[b]) THEN Scrubbed(batch[b]) ELSE batch[b]]
  BY DEF Offboard, Kept
<1>2. /\ DOMAIN batch' = Batches
      /\ \A b \in Batches : Kept(batch[b]) => batch'[b] = Scrubbed(batch[b])
      /\ \A b \in Batches : ~Kept(batch[b]) => batch'[b] = batch[b]
  BY <1>1
<1> QED
  BY <1>1, <1>2, ScrubbingKeeps

-----------------------------------------------------------------------------
(* The initial states                                                      *)

LEMMA LegacyIs ==
  ASSUME NEW b \in Batches, NEW f \in Files[b], NEW k \in Keys, NEW m \in Mappings
  PROVE  LET s == Legacy(f, k, m)
         IN  /\ s \in BatchRows(b) /\ s.status = "COMMITTED" /\ s.rows = f /\ s.key = k
             /\ s.mapping = m /\ s.version = "LEGACY" /\ s.cleanup = "PENDING"
             /\ \A i \in DOMAIN f :
                  s.outcomes[i] = IF i \in Primary(f) THEN "COMMITTED" ELSE "EXACT_DUPLICATE"
<1>1. DOMAIN f = 1..Len(f) /\ Len(f) \in Nat
  BY FileIs
<1> DEFINE O == Seq({"PENDING", "COMMITTED", "EXACT_DUPLICATE"})
           out == [i \in DOMAIN f |-> IF i \in Primary(f) THEN "COMMITTED" ELSE "EXACT_DUPLICATE"]
<1>2. out \in O
  BY <1>1
<1>3. \A i \in DOMAIN f : out[i] = IF i \in Primary(f) THEN "COMMITTED" ELSE "EXACT_DUPLICATE"
  OBVIOUS
<1> HIDE DEF out, O
<1> DEFINE s0 == [Staged(f) EXCEPT !.status = "COMMITTED", !.version = "LEGACY", !.key = k,
                                   !.mapping = m, !.conflict = "COMMITTED", !.outcomes = out]
<1>4. Legacy(f, k, m) = s0
  BY Zenon DEF Legacy, out
<1>5. Staged(f) \in BatchRows(b) /\ Staged(f).rows = f /\ Staged(f).cleanup = "PENDING"
  BY StagedIs
<1>6. /\ s0 \in BatchRows(b) /\ s0.status = "COMMITTED" /\ s0.rows = Staged(f).rows
      /\ s0.key = k /\ s0.mapping = m /\ s0.version = "LEGACY"
      /\ s0.cleanup = Staged(f).cleanup /\ s0.outcomes = out
  BY <1>2, <1>5 DEF BatchRows, O
<1> QED
  BY <1>3, <1>4, <1>5, <1>6

LEMMA FirstIs == First \in Batches
<1>1. Batches \in SUBSET Nat /\ Batches # {}
  BY ImportAssumption
<1>2. \E b \in Batches : \A d \in Batches : b <= d
  BY <1>1, LeastOf
<1> QED
  BY <1>2, Zenon DEF First

LEMMA NoBatchIs ==
  ASSUME NEW b \in Batches
  PROVE  NoBatch \in BatchRows(b)
<1> DEFINE O == Seq({"PENDING", "COMMITTED", "EXACT_DUPLICATE"})
<1>1. <<>> \in O /\ None \in Keys \cup {None} /\ None \in Mappings \cup {None}
  OBVIOUS
<1> HIDE DEF O
<1> QED
  BY <1>1 DEF BatchRows, NoBatch, Refusals, O

\* No transaction is under way, whatever the records are.
LEMMA StartKeeps ==
  ASSUME tx = [c \in Operators |-> Idle], offboarding = "NONE", requests = 0,
         DOMAIN batch = Batches, \A b \in Batches : batch[b] \in BatchRows(b) /\ BatchGood(b),
         DOMAIN record = Targets, \A t \in Targets : record[t].by \in {"none", "crm", "import"},
         DOMAIN idMap = Sources,
         \A s \in Sources : idMap[s] # NoMap =>
            idMap[s].batch \in Batches /\ idMap[s].target \in Targets,
         MapInv
  PROVE  IInv
<1>1. \A c \in Operators : tx[c] = Idle
  OBVIOUS
<1>2. Typed
  <2>1. tx \in [Operators -> Transactions] /\ requests \in 0..MaxRequests
    BY IdleIs, ImportAssumption
  <2> QED
    BY <2>1 DEF Typed
<1>3. \A c \in Operators : Knows(tx[c])
  BY <1>1, IdleIs
<1>4. \A c, d \in Operators : Apart(tx[c], tx[d])
  BY <1>1, IdleIs
<1> QED
  BY <1>2, <1>3, <1>4 DEF IInv, BatchInv, OffboardingInv, Live

LEMMA EmptyStart ==
  ASSUME Init, batch = [b \in Batches |-> NoBatch], record = [t \in Targets |-> NoRecord],
         idMap = [s \in Sources |-> NoMap]
  PROVE  IInv
<1>1. \A b \in Batches : batch[b] \in BatchRows(b) /\ BatchGood(b)
  BY NoBatchIs DEF BatchGood, Kept, NoBatch
<1>2. \A t \in Targets : record[t].by = "none"
  BY DEF NoRecord
<1>3. \A s \in Sources : idMap[s] = NoMap
  OBVIOUS
<1> QED
  BY <1>1, <1>2, <1>3, StartKeeps DEF Init, MapInv

LEMMA LegacyStart ==
  ASSUME Init, NEW f \in Files[First], NEW k \in Keys, NEW m \in Mappings \ WithCurrency,
         Importable(f, m),
         batch = [b \in Batches |-> IF b = First THEN Legacy(f, k, m) ELSE NoBatch],
         record = Over([t \in Targets |-> NoRecord], RecordsOf(First, f, m, Primary(f))),
         idMap = Over([s \in Sources |-> NoMap], MapsOf(First, f, m, Primary(f)))
  PROVE  IInv
<1> DEFINE new == Primary(f)
<1>1. PICK b \in Batches : b = First
  BY FirstIs
<1>2. f \in Files[b] /\ Prepare(f, m) = "READY"
  BY <1>1 DEF Importable
<1>3. RecordsFit(RecordsOf(b, f, m, new), b, f, m, new)
  <2>1. \A i, j \in new : Target(f[i]) = Target(f[j]) => i = j
    BY DEF Importable
  <2> QED
    BY <2>1, RecordsAre
<1>4. MapsFit(MapsOf(b, f, m, new), b, f, m, new)
  <2>1. \A i, j \in new : f[i].source.raw = f[j].source.raw => i = j
    BY <1>2, PrimaryIs
  <2> QED
    BY <2>1, MapsAre
<1>5. \A i \in new : Target(f[i]) \in Targets /\ f[i].source.raw \in Sources
  BY <1>2, PrimaryIs, ReadyRow
<1>6. /\ DOMAIN record = Targets
      /\ \A i \in new : record[Target(f[i])]
                          = [by |-> "import", batch |-> b, payload |-> Payload(f[i], m)]
      /\ \A t \in Targets : (\A i \in new : Target(f[i]) # t) => record[t] = NoRecord
  BY <1>1, <1>3, <1>5 DEF Over, RecordsFit
<1>7. /\ DOMAIN idMap = Sources
      /\ \A i \in new : idMap[f[i].source.raw] =
              [batch |-> b, target |-> Target(f[i]), payload |-> Payload(f[i], m)]
      /\ \A x \in Sources : (\A i \in new : f[i].source.raw # x) => idMap[x] = NoMap
  BY <1>1, <1>4, <1>5 DEF Over, MapsFit
<1>8. /\ DOMAIN batch = Batches /\ batch[b] = Legacy(f, k, m)
      /\ \A d \in Batches \ {b} : batch[d] = NoBatch
  BY <1>1
<1>9. /\ batch[b] \in BatchRows(b) /\ batch[b].status = "COMMITTED" /\ batch[b].rows = f
      /\ batch[b].key = k /\ batch[b].mapping = m /\ batch[b].version = "LEGACY"
      /\ batch[b].cleanup = "PENDING"
      /\ \A i \in DOMAIN f :
           batch[b].outcomes[i] = IF i \in new THEN "COMMITTED" ELSE "EXACT_DUPLICATE"
  BY <1>2, <1>8, LegacyIs
<1> HIDE DEF new
<1>10. BatchGood(b)
  <2>1. ASSUME NEW i \in DOMAIN f
        PROVE  /\ idMap[f[i].source.raw].target = Target(f[i])
               /\ idMap[f[i].source.raw].payload = Payload(f[i], m)
               /\ idMap[f[i].source.raw].batch = b
    <3>1. PICK j \in new : f[j].source.raw = f[i].source.raw /\ j = FirstWithSource(f, i)
      BY <1>2, PrimaryIs DEF new
    <3>2. f[j] = f[i]
      BY <1>2, <3>1, ReadyIs
    <3>3. idMap[f[i].source.raw] =
            [batch |-> b, target |-> Target(f[i]), payload |-> Payload(f[i], m)]
      BY <1>7, <3>2
    <3> QED
      BY <3>3
  <2>2. Reconcilable(b)
    BY <1>9, <2>1 DEF Reconcilable, ExactLegacyRowEvidence, new
  <2> QED
    BY <1>2, <1>9, <2>2 DEF BatchGood, Kept
<1>11. ASSUME NEW d \in Batches \ {b} PROVE batch[d] \in BatchRows(d) /\ BatchGood(d)
  <2>1. batch[d] = NoBatch
    BY <1>8
  <2>2. /\ NoBatch.status = "NONE" /\ NoBatch.rows = <<>> /\ NoBatch.key = None
        /\ NoBatch.cleanup = "NONE"
    BY DEF NoBatch
  <2> QED
    BY <2>1, <2>2, NoBatchIs DEF BatchGood, Kept
<1>12. ASSUME NEW s \in Sources, idMap[s] # NoMap
       PROVE  /\ idMap[s].batch = b /\ idMap[s].target \in Targets
              /\ record[idMap[s].target] =
                   [by |-> "import", batch |-> idMap[s].batch, payload |-> idMap[s].payload]
  <2>1. PICK i \in new : f[i].source.raw = s
    BY <1>7, <1>12
  <2>2. idMap[s] = [batch |-> b, target |-> Target(f[i]), payload |-> Payload(f[i], m)]
    BY <1>7, <2>1
  <2>3. /\ idMap[s].batch = b /\ idMap[s].target = Target(f[i])
        /\ idMap[s].payload = Payload(f[i], m)
    BY <2>2
  <2> QED
    BY <1>5, <1>6, <2>3 DEF new
<1>13. ASSUME NEW t \in Targets
       PROVE  /\ record[t].by \in {"none", "crm", "import"}
              /\ record[t].by = "import" => \E s \in Sources : idMap[s].target = t
  <2>1. CASE \E i \in new : Target(f[i]) = t
    <3>1. PICK i \in new : Target(f[i]) = t
      BY <2>1
    <3>2. record[t].by = "import"
      <4>1. record[Target(f[i])] =
              [by |-> "import", batch |-> b, payload |-> Payload(f[i], m)]
        BY <1>6
      <4> QED
        BY ONLY <3>1, <4>1
    <3>3. f[i].source.raw \in Sources
      BY <1>5 DEF new
    <3>4. idMap[f[i].source.raw] =
            [batch |-> b, target |-> Target(f[i]), payload |-> Payload(f[i], m)]
      BY <1>7
    <3>5. idMap[f[i].source.raw].target = t
      BY <3>1, <3>4
    <3> QED
      BY <3>2, <3>3, <3>5, Zenon
  <2>2. CASE ~\E i \in new : Target(f[i]) = t
    <3>1. record[t] = NoRecord
      BY <1>6, <2>2
    <3> QED
      BY <3>1 DEF NoRecord
  <2> QED
    BY <2>1, <2>2
<1>14. MapInv
  BY <1>9, <1>12, <1>13 DEF MapInv
<1> QED
  BY <1>6, <1>7, <1>8, <1>9, <1>10, <1>11, <1>12, <1>13, <1>14, StartKeeps, ZenonT(40) DEF Init

LEMMA Initially == Init => IInv
<1> SUFFICES ASSUME Init PROVE IInv
  OBVIOUS
<1>1. CASE /\ batch = [b \in Batches |-> NoBatch]
           /\ record = [t \in Targets |-> NoRecord]
           /\ idMap = [s \in Sources |-> NoMap]
  BY <1>1, EmptyStart
<1>2. CASE \E file \in Files[First], k \in Keys, m \in Mappings \ WithCurrency :
             /\ Importable(file, m)
             /\ batch = [b \in Batches |-> IF b = First THEN Legacy(file, k, m) ELSE NoBatch]
             /\ record = Over([t \in Targets |-> NoRecord], RecordsOf(First, file, m, Primary(file)))
             /\ idMap = Over([s \in Sources |-> NoMap], MapsOf(First, file, m, Primary(file)))
  BY <1>2, LegacyStart
<1> QED
  BY <1>1, <1>2, Zenon DEF Init

-----------------------------------------------------------------------------
(* The inductive invariant                                                 *)

LEMMA CommitStepKeeps ==
  ASSUME IInv, NEW c \in Operators, CommitBatch(c) \/ CommitStep(c) \/ CommitLost(c) \/ ConnectionLost(c)
  PROVE  IInv'
<1>1. CASE CommitBatch(c)
  BY <1>1, CommitBatchMove, LocalKeeps
<1>2. CASE LockBatch(c)
  BY <1>2, LockBatchMove, LocalKeeps
<1>3. CASE LockRecords(c)
  BY <1>3, LockRecordsMove, LocalKeeps
<1>4. CASE LockKeyAndPrepare(c)
  BY <1>4, LockKeyAndPrepareMove, LocalKeeps
<1>5. CASE LockImportIdentities(c)
  BY <1>5, LockImportIdentitiesMove, LocalKeeps
<1>6. CASE CheckConflicts(c)
  BY <1>6, CheckConflictsMove, LocalKeeps
<1>7. CASE Materialize(c)
  BY <1>7, MaterializeMove, LocalKeeps
<1>8. CASE RecordOutcomes(c)
  BY <1>8, RecordOutcomesMove, LocalKeeps
<1>9. CASE FinalizeCommit(c)
  BY <1>9, FinalizeCommitMove, LocalKeeps
<1>10. CASE Commit(c) \/ CommitLost(c)
  BY <1>10, CommitKeeps
<1>11. CASE ConnectionLost(c)
  BY <1>11, StillRested, EndedMove, LocalKeeps DEF ConnectionLost
<1> QED
  BY <1>1, <1>2, <1>3, <1>4, <1>5, <1>6, <1>7, <1>8, <1>9, <1>10, <1>11 DEF CommitStep

LEMMA Inductive == IInv /\ [Next]_vars => IInv'
<1> SUFFICES ASSUME IInv, [Next]_vars PROVE IInv'
  OBVIOUS
<1>1. CASE StagePreview
  BY <1>1, StagePreviewStep
<1>2. CASE \E b \in Batches : RawExpires(b) \/ CleanupSucceeds(b) \/ CleanupFails(b)
  BY <1>2, RawExpiresStep, CleanupSucceedsStep
<1>3. CASE \E t \in Targets : CrmCreates(t)
  BY <1>3, CrmCreatesStep
<1>4. CASE \E c \in Operators : CommitBatch(c) \/ CommitStep(c) \/ CommitLost(c) \/ ConnectionLost(c)
  BY <1>4, CommitStepKeeps
<1>5. CASE RequestOffboarding \/ OffboardingFails
  BY <1>5, OffboardingSteps
<1>6. CASE Offboard
  BY <1>6, OffboardStep
<1>7. CASE UNCHANGED vars
  BY <1>7, StillRested, OtherKeeps DEF vars
<1> QED
  BY <1>1, <1>2, <1>3, <1>4, <1>5, <1>6, <1>7 DEF Next

\* The inductive invariant holds in every state of every behaviour.
THEOREM Invariance == Spec => []IInv
  BY Initially, Inductive, PTL DEF Spec

\* Every variable keeps its shape.
THEOREM TypeCorrect == Spec => []TypeOK
<1>1. IInv => TypeOK
  <2> SUFFICES ASSUME IInv PROVE TypeOK
    OBVIOUS
  <2>1. ASSUME NEW b \in Batches
        PROVE  /\ batch[b].status \in {"NONE", "PREVIEWED", "COMMITTED", "EXPIRED"}
               /\ batch[b].rows \in Files[b] \cup {<<>>}
               /\ batch[b].key \in Keys \cup {None} /\ batch[b].mapping \in Mappings \cup {None}
               /\ batch[b].version \in {"NONE", "LEGACY", "V2"}
               /\ batch[b].conflict \in {"NONE", "COMMITTED", "CONFLICTED", "FAILED"}
               /\ batch[b].expired \in BOOLEAN
               /\ batch[b].cleanup \in {"NONE", "PENDING", "FAILED", "SUCCEEDED"}
    <3>1. batch[b] \in BatchRows(b)
      BY DEF IInv, Typed
    <3> QED
      BY <3>1 DEF BatchRows, Refusals
  <2>2. \A s \in Sources : idMap[s].batch \in Batches \cup {None}
    BY DEF IInv, Typed, NoMap
  <2>3. \A c \in Operators : tx[c].held \subseteq Keys \cup Sources \cup Targets
    BY TxIs DEF Transactions
  <2> QED
    BY <2>1, <2>2, <2>3 DEF TypeOK, IInv, Typed
<1> QED
  BY <1>1, Invariance, PTL

\* A batch becomes records as a whole or not at all.
THEOREM WholeImports == Spec => []AllOrNothing
<1>1. IInv => AllOrNothing
  <2> SUFFICES ASSUME IInv PROVE AllOrNothing
    OBVIOUS
  <2>1. ASSUME NEW b \in Batches, batch[b].status = "COMMITTED", NEW i \in DOMAIN batch[b].rows
        PROVE  LET row == batch[b].rows[i]
                   map == idMap[row.source.raw]
               IN /\ map.payload = Payload(row, batch[b].mapping)
                  /\ batch[b].outcomes[i] = "COMMITTED" => map.batch = b
    <3>1. BatchGood(b) /\ batch[b].rows # <<>>
      BY DEF IInv, BatchInv
    <3>2. ExactLegacyRowEvidence(b, batch[b].mapping, i)
      BY <2>1, <3>1 DEF BatchGood, Reconcilable
    <3> QED
      BY <3>2 DEF ExactLegacyRowEvidence
  <2> QED
    BY <2>1, Zenon DEF AllOrNothing, IInv, MapInv
<1> QED
  BY <1>1, Invariance, PTL

-----------------------------------------------------------------------------
(* Collisions                                                              *)

LEMMA OnlyWritersPut ==
  ASSUME NEW t, Knows(t), t.put.kind = "commit"
  PROVE  Writing(t) /\ Settled(t) /\ Planned(t) /\ InTenant(t)
<1>1. t.put # NoPut /\ \A o : t.put # Attempt(o)
  BY DEF NoPut, Attempt
<1>2. Writing(t)
  BY <1>1 DEF Knows, Phase, Writing
<1> QED
  BY <1>2 DEF Writing, Settled, Planned, InTenant

\* What a transaction is about to write is under its locks, and nobody has it.
LEMMA WritesAreFree ==
  ASSUME IInv, NEW c \in Operators, tx[c].put.kind = "commit"
  PROVE  /\ Claims(tx[c].put) \subseteq tx[c].held /\ tx[c].key \in tx[c].held
         /\ DOMAIN tx[c].put.maps \subseteq Sources /\ DOMAIN tx[c].put.records \subseteq Targets
         /\ \A s \in DOMAIN tx[c].put.maps : idMap[s] = NoMap
         /\ \A t \in DOMAIN tx[c].put.records : record[t] = NoRecord
         /\ \A b \in Batches : batch[b].key # tx[c].key
<1> DEFINE q == tx[c]
           f == batch[q.batch].rows
           new == Fresh(f)
<1>1. Knows(q) /\ Writing(q) /\ Settled(q) /\ Planned(q) /\ InTenant(q)
  BY TxIs, OnlyWritersPut
<1>2. q.put = CommitPut(q.batch, f, q.mapping, new)
  BY <1>1 DEF Knows, Written
<1>3. /\ Prepare(f, q.mapping) = "READY" /\ f \in Files[q.batch] /\ q.batch \in Batches
      /\ q.key \in q.held /\ \A b \in Batches : batch[b].key # q.key
      /\ IdentityLocks(f) \subseteq q.held
  <2>1. /\ Prepare(f, q.mapping) = "READY" /\ IdentityLocks(f) \subseteq q.held
        /\ q.key \in q.held /\ \A b \in Batches : batch[b].key # q.key
    BY <1>1 DEF Knows, Guarded, Decided
  <2>2. q.batch \in Batches /\ batch[q.batch].status = "PREVIEWED"
    BY <1>1, WritingPut DEF Knows, Phase, InTenant
  <2>3. f \in Files[q.batch]
    BY <2>2 DEF IInv, BatchInv, BatchGood
  <2> QED
    BY <2>1, <2>2, <2>3
<1>4. new \subseteq Primary(f) /\ \A i \in new : idMap[f[i].source.raw] = NoMap
  BY DEF Fresh
<1>5. \A i \in new : /\ Target(f[i]) \in Targets /\ f[i].source.raw \in Sources
                     /\ Target(f[i]) \in q.held /\ f[i].source.raw \in q.held
                     /\ record[Target(f[i])] = NoRecord
  BY <1>1, <1>3, <1>4, PrimaryIs, ReadyRow, LocksAre DEF Knows, Written
<1>6. \A i, j \in new : Target(f[i]) = Target(f[j]) => i = j
  BY <1>1 DEF Knows, Decided
<1>7. \A i, j \in new : f[i].source.raw = f[j].source.raw => i = j
  BY <1>3, <1>4, PrimaryIs
<1> HIDE DEF new, f
<1>8. DOMAIN q.put.records = {Target(f[i]) : i \in new}
  <2>1. RecordsFit(RecordsOf(q.batch, f, q.mapping, new), q.batch, f, q.mapping, new)
    BY <1>6, RecordsAre
  <2> QED
    BY <1>2, <2>1 DEF RecordsFit, CommitPut
<1>9. DOMAIN q.put.maps = {f[i].source.raw : i \in new}
  <2>1. MapsFit(MapsOf(q.batch, f, q.mapping, new), q.batch, f, q.mapping, new)
    BY <1>7, MapsAre
  <2> QED
    BY <1>2, <2>1 DEF MapsFit, CommitPut
<1> QED
  BY <1>3, <1>4, <1>5, <1>8, <1>9 DEF Claims

\* What an import is about to commit is taken by no committed batch and by no
\* other transaction: the identities and the key are locked first.
THEOREM NoCollision == Spec => []ImportsDoNotCollide
<1>1. IInv => ImportsDoNotCollide
  <2> SUFFICES ASSUME IInv, NEW c \in Operators, tx[c].put.kind = "commit"
               PROVE  /\ \A s \in DOMAIN tx[c].put.maps : idMap[s] = NoMap
                      /\ \A s \in Sources : idMap[s].target \notin DOMAIN tx[c].put.records
                      /\ \A b \in Batches : batch[b].key # tx[c].key
                      /\ \A d \in Operators \ {c} : tx[d].put.kind = "commit" =>
                           Claims(tx[c].put) \cap Claims(tx[d].put) = {} /\ tx[c].key # tx[d].key
    BY DEF ImportsDoNotCollide
  <2>1. ASSUME NEW s \in Sources PROVE idMap[s].target \notin DOMAIN tx[c].put.records
    <3>1. CASE idMap[s] = NoMap
      BY <3>1, WritesAreFree, ImportAssumption DEF NoMap, None
    <3>2. CASE idMap[s] # NoMap
      <4>1. record[idMap[s].target] =
              [by |-> "import", batch |-> idMap[s].batch, payload |-> idMap[s].payload]
        BY <3>2, Zenon DEF IInv, MapInv
      <4>2. record[idMap[s].target] # NoRecord
        BY ONLY <4>1 DEF NoRecord
      <4> QED
        BY <4>2, WritesAreFree
    <3> QED
      BY <3>1, <3>2
  <2>2. ASSUME NEW d \in Operators \ {c}, tx[d].put.kind = "commit"
        PROVE  Claims(tx[c].put) \cap Claims(tx[d].put) = {} /\ tx[c].key # tx[d].key
    <3>1. /\ Claims(tx[c].put) \subseteq tx[c].held /\ tx[c].key \in tx[c].held
          /\ Claims(tx[d].put) \subseteq tx[d].held /\ tx[d].key \in tx[d].held
      BY <2>2, WritesAreFree
    <3>2. tx[c].held \cap tx[d].held = {}
      BY TxIs DEF Apart
    <3> QED
      BY <3>1, <3>2
  <2> QED
    BY <2>1, <2>2, WritesAreFree
<1> QED
  BY <1>1, Invariance, PTL

-----------------------------------------------------------------------------
(* Waiting                                                                 *)

\* Of finitely many numbered things one has the greatest number: the one that
\* the fewest are above.
LEMMA LastInOrder ==
  ASSUME NEW G, G # {}, NEW n \in [G -> Nat], NEW S, IsFiniteSet(S), NEW h \in [G -> S],
         \A c, d \in G : h[c] = h[d] => c = d
  PROVE  \E c \in G : \A d \in G : n[d] <= n[c]
<1> DEFINE above(c) == {h[d] : d \in {e \in G : n[c] < n[e]}}
<1>1. ASSUME NEW c \in G
      PROVE  above(c) \in SUBSET S /\ IsFiniteSet(above(c)) /\ Cardinality(above(c)) \in Nat
  <2>1. above(c) \in SUBSET S
    OBVIOUS
  <2> QED
    BY <2>1, FS_Subset, FS_CardinalityType
<1> DEFINE size == [c \in G |-> Cardinality(above(c))]
           K == {size[c] : c \in G}
<1>2. K \in SUBSET Nat /\ K # {}
  <2>1. \A c \in G : size[c] \in Nat
    BY <1>1
  <2> HIDE DEF size
  <2> QED
    BY <2>1
<1>3. PICK k \in K : \A j \in K : k <= j
  BY <1>2, LeastOf
<1>4. PICK c \in G : k = Cardinality(above(c)) /\ \A d \in G : k <= Cardinality(above(d))
  <2>1. \E c \in G : k = size[c] /\ \A d \in G : k <= size[d]
    <3> HIDE DEF size
    <3> QED
      BY <1>3
  <2> HIDE DEF above
  <2>2. \A c \in G : size[c] = Cardinality(above(c))
    OBVIOUS
  <2> HIDE DEF size
  <2> QED
    BY <2>1, <2>2
<1>5. ASSUME NEW d \in G, n[c] < n[d] PROVE FALSE
  <2>1. above(d) \subseteq above(c)
    BY <1>5
  <2>2. h[d] \in above(c) /\ h[d] \notin above(d)
    BY <1>5
  <2>3. above(d) \in SUBSET above(c) /\ above(d) # above(c)
    BY <2>1, <2>2
  <2>4. /\ IsFiniteSet(above(c)) /\ Cardinality(above(c)) \in Nat /\ Cardinality(above(d)) \in Nat
        /\ Cardinality(above(c)) <= Cardinality(above(d))
    BY <1>1, <1>4, <1>5
  <2> HIDE DEF above
  <2>5. /\ Cardinality(above(d)) <= Cardinality(above(c))
        /\ Cardinality(above(d)) # Cardinality(above(c))
    BY <2>3, <2>4, FS_Subset
  <2> QED
    BY <2>4, <2>5
<1>6. \A d \in G : n[d] <= n[c]
  BY <1>5
<1> QED
  BY <1>6

\* The next lock is one, a number that is not held, and above what is held but
\* for the key.
LEMMA NextLockIs ==
  ASSUME IInv, NEW c \in Operators, tx[c].pc = "identities"
  PROVE  /\ NextLock(c) \subseteq Sources \cup Targets /\ NextLock(c) \subseteq Nat
         /\ \A l, k \in NextLock(c) : l = k
         /\ \A l \in NextLock(c) : l \notin Keys
         /\ \A l \in NextLock(c), h \in tx[c].held : h = tx[c].key \/ h < l
<1> DEFINE q == tx[c]
           f == batch[q.batch].rows
<1>1. Knows(q) /\ Planned(q) /\ InTenant(q) /\ q.pc # "committing"
  BY TxIs DEF Planned, InTenant
<1>2. q.batch \in Batches /\ f \in Files[q.batch]
  BY <1>1 DEF Knows, Phase, InTenant, IInv, BatchInv, BatchGood
<1>3. /\ Prepare(f, q.mapping) = "READY"
      /\ \A h \in q.held \ {q.key}, k \in IdentityLocks(f) \ q.held : h < k
  BY <1>1 DEF Knows, Guarded
<1>4. /\ IdentityLocks(f) \subseteq Sources \cup Targets
      /\ IdentityLocks(f) \subseteq Nat /\ IdentityLocks(f) \cap Keys = {}
  BY <1>2, <1>3, LocksAre
<1>5. NextLock(c) = {l \in IdentityLocks(f) \ q.held : \A k \in IdentityLocks(f) \ q.held : l <= k}
  BY DEF NextLock
<1> HIDE DEF f, q
<1>6. \A l, k \in NextLock(c) : l = k
  BY <1>4, <1>5
<1> QED
  BY <1>3, <1>4, <1>5, <1>6 DEF q

LEMMA SomebodyGoesOn ==
  ASSUME IInv, NEW group \in SUBSET Operators, group # {}
  PROVE  \E c \in group : \A d \in group \ {c} : ~WaitsFor(c, d)
<1>1. CASE \E c \in group : tx[c].pc \notin {"begun", "keyed", "identities"}
  BY <1>1 DEF WaitsFor
<1>2. CASE /\ \A c \in group : tx[c].pc \in {"begun", "keyed"}
           /\ \E c \in group : tx[c].pc = "keyed"
  <2>1. PICK c \in group : tx[c].pc = "keyed"
    BY <1>2
  <2>2. \A d \in group : tx[d].held = {}
    BY <1>2 DEF IInv, Knows, Phase
  <2> QED
    BY <2>1, <2>2 DEF WaitsFor
<1>3. CASE \A c \in group : tx[c].pc = "begun"
  BY <1>3 DEF WaitsFor, InTenantTransaction
<1>4. CASE /\ \A c \in group : tx[c].pc \in {"begun", "keyed", "identities"}
           /\ \E c \in group : tx[c].pc = "identities"
  <2> DEFINE G == {c \in group : tx[c].pc = "identities"}
  <2>1. CASE \E c \in G : NextLock(c) = {}
    BY <2>1 DEF WaitsFor
  <2>2. CASE \A c \in G : NextLock(c) # {}
    <3> DEFINE n == [c \in G |-> CHOOSE l \in NextLock(c) : TRUE]
               h == [c \in G |-> tx[c].batch]
    <3>1. \A c \in G : n[c] \in NextLock(c)
      BY <2>2
    <3>2. n \in [G -> Nat]
      BY <3>1, NextLockIs
    <3>3. h \in [G -> Batches]
      BY TxIs
    <3>4. \A c, d \in G : h[c] = h[d] => c = d
      BY DEF IInv, Apart, InTenant
    <3>5. G # {} /\ G \subseteq Operators /\ IsFiniteSet(Batches)
      BY <1>4, ImportAssumption
    <3> HIDE DEF n, h, G
    <3>6. PICK c \in G : \A d \in G : n[d] <= n[c]
      BY <3>2, <3>3, <3>4, <3>5, LastInOrder
    <3>7. c \in group /\ tx[c].pc = "identities" /\ c \in Operators
      BY DEF G
    <3>8. ASSUME NEW d \in group \ {c} PROVE NextLock(c) \cap tx[d].held = {}
      <4>1. CASE tx[d].pc # "identities"
        <5>1. tx[d].held = {}
          BY <1>4, <4>1 DEF IInv, Knows, Phase
        <5> QED
          BY <5>1
      <4>2. CASE tx[d].pc = "identities"
        <5>1. d \in G /\ d \in Operators
          BY <4>2 DEF G
        <5>2. n[d] <= n[c] /\ n[c] \in Nat /\ n[d] \in Nat
          BY <3>2, <3>6, <5>1
        <5>3. n[c] \in NextLock(c) /\ n[d] \in NextLock(d)
          BY <3>1, <5>1
        <5>4. n[c] \notin Keys /\ tx[d].key \in Keys /\ \A l \in NextLock(c) : l = n[c]
          BY <3>7, <4>2, <5>1, <5>3, NextLockIs, TxIs
        <5>5. n[c] \in tx[d].held => n[c] < n[d]
          BY <4>2, <5>1, <5>3, <5>4, NextLockIs
        <5>6. n[c] \notin tx[d].held
          BY <5>2, <5>5
        <5> QED
          BY <5>4, <5>6
      <4> QED
        BY <4>1, <4>2
    <3> QED
      BY <3>7, <3>8 DEF WaitsFor
  <2> QED
    BY <2>1, <2>2
<1> QED
  BY <1>1, <1>2, <1>3, <1>4

\* In any group of operators somebody waits for none of the others: the locks of
\* an import are taken in ascending order, after its key.
THEOREM NoCircle == Spec => []NoCircularWait
<1>1. IInv => NoCircularWait
  BY SomebodyGoesOn DEF NoCircularWait
<1> QED
  BY <1>1, Invariance, PTL

-----------------------------------------------------------------------------
(* What a step does                                                        *)

\* What COMMIT finds, by what it is about to answer.
LEMMA ToldIs ==
  ASSUME IInv, NEW c \in Operators, Commit(c)
  PROVE  /\ tx[c].answer = "COMMITTED" =>
              /\ ~Serves(batch[tx[c].batch], c) /\ Serves(batch'[tx[c].batch], c)
         /\ tx[c].answer = "RECONCILED" => Serves(batch[tx[c].batch], c)
         /\ tx[c].answer = "CONFLICTED" => ~Serves(batch[tx[c].batch], c)
         /\ tx[c].answer \in Refusals => UNCHANGED <<record, idMap>>
<1> DEFINE q == tx[c]
<1>1. q.pc = "committing" /\ Applied(c) /\ Ended(c) /\ UNCHANGED <<offboarding, requests>>
  BY DEF Commit
<1>2. Knows(q)
  BY TxIs
<1>3. CASE q.answer = "COMMITTED"
  <2>1. Writing(q)
    BY <1>1, <1>3 DEF Writing
  <2>2. batch[q.batch].status = "PREVIEWED"
    BY <1>1, <1>2, <2>1, WritingPut DEF Knows, Phase
  <2>3. Landed(q)
    BY <1>1, <2>1, AppliedLands
  <2> QED
    BY <1>3, <2>2, <2>3 DEF Serves, Landed, Refusals
<1>4. CASE q.answer # "COMMITTED"
  <2>1. ~Writing(q)
    BY <1>1, <1>4 DEF Writing
  <2>2. UNCHANGED <<record, idMap>>
    BY <1>1, <2>1, AppliedLocal DEF LocalMove, Rested
  <2>3. CASE q.put = NoPut
    BY <1>1, <1>2, <1>4, <2>2, <2>3 DEF Knows, Phase, Serves
  <2>4. CASE q.put # NoPut
    BY <1>1, <1>2, <1>4, <2>2, <2>4 DEF Knows, Phase, Serves, Refusals
  <2> QED
    BY <2>3, <2>4
<1> QED
  BY <1>3, <1>4

\* A step changes the identity map and the records by the COMMIT of an import
\* that was planned, or by a CRM user.
LEMMA CanonicalStep ==
  ASSUME IInv, [Next]_vars
  PROVE  \/ UNCHANGED <<record, idMap>>
         \/ idMap' = idMap /\ \E t \in Targets : CrmCreates(t)
         \/ \E c \in Operators : tx[c].pc = "committing" /\ Writing(tx[c]) /\ Applied(c)
<1>1. ASSUME NEW c \in Operators, Commit(c) \/ CommitLost(c)
      PROVE  \/ UNCHANGED <<record, idMap>>
             \/ tx[c].pc = "committing" /\ Writing(tx[c]) /\ Applied(c)
  <2>1. tx[c].pc = "committing" /\ Ended(c) /\ UNCHANGED <<offboarding, requests>>
        /\ (Applied(c) \/ UNCHANGED <<batch, record, idMap>>)
    BY <1>1 DEF Commit, CommitLost
  <2>2. CASE Applied(c) /\ ~Writing(tx[c])
    BY <2>1, <2>2, AppliedLocal DEF LocalMove, Rested
  <2> QED
    BY <2>1, <2>2
<1>2. ASSUME NEW c \in Operators,
             CommitBatch(c) \/ CommitStep(c) \/ CommitLost(c) \/ ConnectionLost(c),
             ~Commit(c), ~CommitLost(c)
      PROVE  UNCHANGED <<record, idMap>>
  BY <1>2 DEF CommitBatch, CommitStep, ConnectionLost, LockBatch, LockRecords, LockKeyAndPrepare,
              LockImportIdentities, CheckConflicts, Materialize, RecordOutcomes, FinalizeCommit
<1>3. ASSUME NEW b \in Batches, RawExpires(b) \/ CleanupSucceeds(b) \/ CleanupFails(b)
      PROVE  UNCHANGED <<record, idMap>>
  BY <1>3 DEF RawExpires, CleanupSucceeds, CleanupFails
<1>4. ASSUME StagePreview \/ RequestOffboarding \/ Offboard \/ OffboardingFails \/ UNCHANGED vars
      PROVE  UNCHANGED <<record, idMap>>
  BY <1>4 DEF StagePreview, RequestOffboarding, Offboard, OffboardingFails, vars
<1>5. ASSUME NEW t \in Targets, CrmCreates(t) PROVE idMap' = idMap
  BY <1>5 DEF CrmCreates
<1> QED
  BY <1>1, <1>2, <1>3, <1>4, <1>5 DEF Next

\* An import never writes over a record or a map entry, a CRM user's included.
THEOREM CanonicalKept == Spec => CanonicalIsKept
<1>1. IInv /\ [Next]_vars =>
        [/\ \A t \in Targets : record[t] # NoRecord => record'[t] = record[t]
         /\ \A s \in Sources : idMap[s] # NoMap => idMap'[s] = idMap[s]]_vars
  <2> SUFFICES ASSUME IInv, [Next]_vars
               PROVE  /\ \A t \in Targets : record[t] # NoRecord => record'[t] = record[t]
                      /\ \A s \in Sources : idMap[s] # NoMap => idMap'[s] = idMap[s]
    OBVIOUS
  <2>1. CASE \E t \in Targets : CrmCreates(t) /\ idMap' = idMap
    BY <2>1 DEF CrmCreates, IInv, Typed
  <2>2. ASSUME NEW c \in Operators, tx[c].pc = "committing", Writing(tx[c]), Applied(c)
        PROVE  /\ \A t \in Targets : record[t] # NoRecord => record'[t] = record[t]
               /\ \A s \in Sources : idMap[s] # NoMap => idMap'[s] = idMap[s]
    <3> DEFINE f == batch[tx[c].batch].rows
               new == Fresh(f)
    <3>1. \A i \in new : record[Target(f[i])] = NoRecord /\ idMap[f[i].source.raw] = NoMap
      BY <2>2, Landing
    <3>2. /\ \A t \in Targets : (\A i \in new : Target(f[i]) # t) => record'[t] = record[t]
          /\ \A s \in Sources : (\A i \in new : f[i].source.raw # s) => idMap'[s] = idMap[s]
      BY <2>2, AppliedLands, ZenonT(20) DEF Landed
    <3> HIDE DEF new, f
    <3> QED
      BY <3>1, <3>2
  <2> QED
    BY <2>1, <2>2, CanonicalStep
<1> QED
  BY <1>1, Invariance, PTL DEF Spec, CanonicalIsKept

\* What the operator is told is what happened.
THEOREM TrueAnswers == Spec => AnswersAreTrue
<1>1. ASSUME IInv, NEW c \in Operators
      PROVE  /\ Told(c, "COMMITTED") =>
                  ~Serves(batch[tx[c].batch], c) /\ Serves(batch'[tx[c].batch], c)
             /\ Told(c, "RECONCILED") => Serves(batch[tx[c].batch], c)
             /\ Told(c, "CONFLICTED") => ~Serves(batch[tx[c].batch], c)
             /\ Told(c, "CONFLICTED") \/ Told(c, "FAILED") => UNCHANGED <<record, idMap>>
  BY <1>1, ToldIs DEF Told, Refusals
<1>2. IInv /\ [Next]_vars =>
        [\A c \in Operators :
           /\ Told(c, "COMMITTED") =>
                ~Serves(batch[tx[c].batch], c) /\ Serves(batch'[tx[c].batch], c)
           /\ Told(c, "RECONCILED") => Serves(batch[tx[c].batch], c)
           /\ Told(c, "CONFLICTED") => ~Serves(batch[tx[c].batch], c)
           /\ Told(c, "CONFLICTED") \/ Told(c, "FAILED") => UNCHANGED <<record, idMap>>]_vars
  BY <1>1
<1> QED
  BY <1>2, Invariance, PTL DEF Spec, AnswersAreTrue

\* After the offboarding no raw row is left and no import writes.
THEOREM EndedByOffboarding == Spec => OffboardingEndsImports
<1>1. IInv /\ [Next]_vars /\ IInv' =>
        [/\ ~Live' => \A b \in Batches : batch'[b].rows = <<>>
         /\ ~Live => UNCHANGED idMap]_vars
  <2> SUFFICES ASSUME IInv, [Next]_vars, IInv'
               PROVE  /\ ~Live' => \A b \in Batches : batch'[b].rows = <<>>
                      /\ ~Live => UNCHANGED idMap
    OBVIOUS
  <2>1. ~Live' => \A b \in Batches : batch'[b].rows = <<>>
    BY DEF IInv, OffboardingInv
  <2>2. ASSUME NEW c \in Operators, tx[c].pc = "committing" PROVE Live
    BY <2>2, TxIs DEF Knows, Phase, InTenant
  <2> QED
    BY <2>1, <2>2, CanonicalStep
<1> QED
  BY <1>1, Invariance, PTL DEF Spec, OffboardingEndsImports

=============================================================================
