----------------------------- MODULE CsvImports -----------------------------
(***************************************************************************)
(* CSV imports on PostgreSQL: a file is staged as a batch of raw rows, a   *)
(* reviewed mapping turns the rows into canonical records, and one         *)
(* transaction commits all of them or none.  Several operators commit at   *)
(* once, CRM users create records, the raw rows expire after seven days    *)
(* and are scrubbed by the maintenance job, and the tenant may be          *)
(* offboarded.                                                             *)
(*                                                                         *)
(* One tenant, one source system and one target collection (opportunities, *)
(* whose rows may refer to a prospect).  A commit is a transaction of      *)
(* several steps, between which the other actors run; its writes wait in   *)
(* `put' until COMMIT and are lost by a rollback.  The deadline is tested  *)
(* with clock_timestamp(), so it may pass between two steps, or between    *)
(* two rows of one read.                                                   *)
(***************************************************************************)
EXTENDS Naturals, FiniteSets, SequencesExt

CONSTANTS
    Operators,      \* administrators who commit batches
    Batches,        \* import batches, numbered in the order they are staged
    Files,          \* the uploads each batch may stage: nonempty sequences of rows
    Mappings,       \* reviewed column selections
    WithCurrency,   \* the mappings that select a currency column
    Keys,           \* idempotency keys the operators send
    Sources,        \* source record identities
    Targets,        \* canonical record identifiers
    Prospects,      \* prospects a row may refer to
    MaxRequests     \* bound on the commit requests

None == 0

(***************************************************************************)
(* Cells.  classifyCell gives every cell of the upload a kind; `raw' is    *)
(* what the cell says.  The mapped columns of a row are its source         *)
(* identity, the identifier of its record, the prospect it refers to and   *)
(* its commercial value.                                                   *)
(***************************************************************************)
CellKinds == {"MISSING", "BLANK", "NULL", "UNKNOWN", "NUMERIC", "KNOWN_ZERO", "NONNUMERIC"}
Fields == {"id", "prospect_id", "value"}
Required == {"id"}

Cell == [kind : CellKinds, raw : Nat]
Row == [source : Cell, id : Cell, prospect_id : Cell, value : Cell]

ASSUME ImportAssumption ==
    /\ Batches \subseteq Nat \ {0} /\ IsFiniteSet(Batches) /\ Batches # {}
    /\ Sources \subseteq Nat \ {0} /\ Targets \subseteq Nat \ {0}
    /\ \A s \in Sources, t \in Targets : s < t
    /\ (Sources \cup Targets) \cap Keys = {}
    /\ None \notin Keys /\ None \notin Mappings
    /\ WithCurrency \subseteq Mappings
    /\ \A b \in Batches : \A f \in Files[b] :
        /\ f \in Seq(Row) /\ f # <<>>
        /\ \A i \in DOMAIN f : f[i].source.raw \in Sources /\ f[i].id.raw \in Targets
    /\ MaxRequests \in Nat

VARIABLES
    batch,          \* the batches, with their staged rows
    record,         \* canonical records, and who wrote them
    idMap,          \* source identity -> the record it became
    tx,             \* the operators' requests and their transactions
    offboarding,    \* the tenant's offboarding request
    requests        \* commit requests sent so far

vars == <<batch, record, idMap, tx, offboarding, requests>>

-----------------------------------------------------------------------------
(***************************************************************************)
(* The reviewed mapping (importMapping.js, importCommit.js)                *)
(***************************************************************************)
Absent(c) == c.kind \in {"MISSING", "BLANK", "NULL", "UNKNOWN"}

\* The errors validateRows reports for a field, other than duplicates.
FieldInvalid(field, c) == field \in Required /\ Absent(c)

\* A row without a usable source identity cannot be imported either.
RowInvalid(row) ==
    \/ \E field \in Fields : FieldInvalid(field, row[field])
    \/ Absent(row.source)

\* What a cell contributes to the canonical record.  A commercial value that
\* is null, unknown or zero stays what it is; other nulls are left out.
Omitted == [kind |-> "MISSING", raw |-> 0]
CellValue(field, c) ==
    IF \/ c.kind = "MISSING"
       \/ c.kind = "NULL" /\ field # "value"
       \/ c.kind = "BLANK" /\ field = "prospect_id"
    THEN Omitted
    ELSE IF field = "value" /\ c.kind \in {"NULL", "UNKNOWN", "KNOWN_ZERO"}
    THEN [kind |-> c.kind, raw |-> 0]
    ELSE [kind |-> "RAW", raw |-> c.raw]

Target(row) == CellValue("id", row.id).raw
Reference(row) == CellValue("prospect_id", row.prospect_id)
ReferenceExists(row) == Reference(row) = Omitted \/ Reference(row).raw \in Prospects

\* The canonical record; mappings differ in the fields they fill.
Payload(row, mapping) ==
    <<Target(row), Reference(row), CellValue("value", row.value), mapping>>

FirstWithSource(rows, i) ==
    CHOOSE j \in 1..i : /\ rows[j].source.raw = rows[i].source.raw
                        /\ \A k \in 1..(j - 1) : rows[k].source.raw # rows[i].source.raw

\* The plan rebuilt inside the transaction, from the rows it could read.
Prepare(rows, mapping) ==
    IF \E i \in DOMAIN rows : RowInvalid(rows[i]) THEN "FAILED"
    ELSE IF \E i \in DOMAIN rows : rows[FirstWithSource(rows, i)] # rows[i] THEN "CONFLICTED"
    ELSE "READY"

\* The rows that would become records: the first of each source identity.
Primary(rows) == {i \in DOMAIN rows : FirstWithSource(rows, i) = i}

-----------------------------------------------------------------------------
(***************************************************************************)
(* State                                                                   *)
(***************************************************************************)
NoBatch == [status |-> "NONE", rows |-> <<>>, outcomes |-> <<>>, key |-> None,
            mapping |-> None, version |-> "NONE", conflict |-> "NONE",
            expired |-> FALSE, cleanup |-> "NONE"]

Staged(file) == [NoBatch EXCEPT !.status = "PREVIEWED", !.rows = file,
                                !.outcomes = [i \in DOMAIN file |-> "PENDING"],
                                !.cleanup = "PENDING"]

NoPut == [kind |-> "none", outcomes |-> <<>>]
Idle == [pc |-> "idle", batch |-> None, key |-> None, mapping |-> None,
         seen |-> 0, held |-> {}, put |-> NoPut, answer |-> "NONE"]

\* A batch committed before the currency column existed, which the current
\* code must still reconcile.
Legacy(file, key, mapping) ==
    [Staged(file) EXCEPT !.status = "COMMITTED", !.version = "LEGACY", !.key = key,
        !.mapping = mapping, !.conflict = "COMMITTED",
        !.outcomes = [i \in DOMAIN file |->
            IF i \in Primary(file) THEN "COMMITTED" ELSE "EXACT_DUPLICATE"]]

RecordsOf(b, rows, mapping, fresh) ==
    [t \in {Target(rows[i]) : i \in fresh} |-> [by |-> "import", batch |-> b, payload |->
        Payload(rows[CHOOSE i \in fresh : Target(rows[i]) = t], mapping)]]
MapsOf(b, rows, mapping, fresh) ==
    [s \in {rows[i].source.raw : i \in fresh} |->
        LET i == CHOOSE j \in fresh : rows[j].source.raw = s
        IN [batch |-> b, target |-> Target(rows[i]), payload |-> Payload(rows[i], mapping)]]

NoRecord == [by |-> "none", batch |-> None, payload |-> <<>>]
NoMap == [batch |-> None, target |-> None, payload |-> <<>>]
Over(f, g) == [x \in DOMAIN f |-> IF x \in DOMAIN g THEN g[x] ELSE f[x]]

First == CHOOSE b \in Batches : \A d \in Batches : b <= d
Importable(file, mapping) ==
    /\ Prepare(file, mapping) = "READY"
    /\ \A i \in Primary(file) : ReferenceExists(file[i])
    /\ \A i, j \in Primary(file) : i # j => Target(file[i]) # Target(file[j])

Init ==
    /\ tx = [c \in Operators |-> Idle]
    /\ offboarding = "NONE" /\ requests = 0
    /\ \/ /\ batch = [b \in Batches |-> NoBatch]
          /\ record = [t \in Targets |-> NoRecord]
          /\ idMap = [s \in Sources |-> NoMap]
       \/ \E file \in Files[First], k \in Keys, m \in Mappings \ WithCurrency :
            /\ Importable(file, m)
            /\ batch = [b \in Batches |-> IF b = First THEN Legacy(file, k, m) ELSE NoBatch]
            /\ record = Over([t \in Targets |-> NoRecord], RecordsOf(First, file, m, Primary(file)))
            /\ idMap = Over([s \in Sources |-> NoMap], MapsOf(First, file, m, Primary(file)))

-----------------------------------------------------------------------------
(***************************************************************************)
(* Staging, the deadline, and CRM users                                    *)
(***************************************************************************)
InTenantTransaction(c) == tx[c].pc \notin {"idle", "begun"}
Live == offboarding # "OFFBOARDED_ACCESS_REVOKED"

\* The rows, the batch and its audit event are one transaction, and the
\* insert triggers refuse a tenant that was offboarded meanwhile.
StagePreview ==
    /\ Live
    /\ \E b \in Batches : \E file \in Files[b] :
        /\ batch[b].status = "NONE"
        /\ \A d \in Batches : d < b => batch[d].status # "NONE"
        /\ batch' = [batch EXCEPT ![b] = Staged(file)]
    /\ UNCHANGED <<record, idMap, tx, offboarding, requests>>

\* The seven-day deadline of a batch passes, in the order of staging.
RawExpires(b) ==
    /\ batch[b].status # "NONE" /\ ~batch[b].expired
    /\ \A d \in Batches : d < b => batch[d].expired
    /\ batch' = [batch EXCEPT ![b].expired = TRUE]
    /\ UNCHANGED <<record, idMap, tx, offboarding, requests>>

\* A CRM user creates a record under an identifier the files also use, perhaps
\* by a request authorised before the offboarding.  Its insert waits for a
\* transaction that has written the same identifier.
CrmCreates(t) ==
    /\ record[t] = NoRecord
    /\ \A c \in Operators : tx[c].put.kind = "commit" =>
            t \notin DOMAIN tx[c].put.records
    /\ record' = [record EXCEPT ![t] = [NoRecord EXCEPT !.by = "crm"]]
    /\ UNCHANGED <<batch, idMap, tx, offboarding, requests>>

-----------------------------------------------------------------------------
(***************************************************************************)
(* commitCanonical, step by step                                           *)
(***************************************************************************)
Ended(c) == tx' = [tx EXCEPT ![c] = Idle]

Writes(c, put, answer) == tx' = [tx EXCEPT ![c] = [@ EXCEPT
    !.pc = "committing", !.put = put, !.answer = answer]]

To(c, pc) == tx' = [tx EXCEPT ![c].pc = pc]

Attempt(outcome) == [kind |-> "attempt", outcomes |-> outcome]

CommitBatch(c) ==
    /\ tx[c].pc = "idle" /\ requests < MaxRequests
    /\ \E b \in Batches, k \in Keys, m \in Mappings :
        tx' = [tx EXCEPT ![c] = [Idle EXCEPT !.pc = "begun", !.batch = b, !.key = k, !.mapping = m]]
    /\ requests' = requests + 1
    /\ UNCHANGED <<batch, record, idMap, offboarding>>

\* lock_import_commit_batch: the tenant shared, the batch for update, and
\* nothing once the tenant is offboarded, the batch expired or scrubbed.
HoldsBatch(c, b) == InTenantTransaction(c) /\ tx[c].batch = b
BatchFree(c, b) == \A d \in Operators \ {c} : ~HoldsBatch(d, b)
Available(b) ==
    /\ Live /\ batch[b].status # "NONE"
    /\ ~batch[b].expired /\ batch[b].cleanup \in {"PENDING", "FAILED"}

\* A commit made before the currency column existed is reconciled when the
\* same input, without a currency column, still prepares to the rows it
\* recorded and the identity map says so.
Unversioned(b, mapping) == batch[b].version = "LEGACY" /\ mapping \notin WithCurrency

ExactLegacyRowEvidence(b, mapping, i) ==
    LET s == batch[b]
        map == idMap[s.rows[i].source.raw]
    IN /\ map.target = Target(s.rows[i]) /\ map.payload = Payload(s.rows[i], mapping)
       /\ s.outcomes[i] = IF i \in Primary(s.rows) /\ map.batch = b
                          THEN "COMMITTED" ELSE "EXACT_DUPLICATE"

IsExactLegacyOpportunityReplay(b, key, mapping) ==
    /\ Unversioned(b, mapping)
    /\ batch[b].key = key /\ batch[b].mapping = mapping
    /\ Prepare(batch[b].rows, mapping) = "READY"
    /\ \A i \in DOMAIN batch[b].rows : ExactLegacyRowEvidence(b, mapping, i)

\* Mutant: only commits of the current version are reconciled.
ReplaysV2(b, key, mapping) ==
    batch[b].version = "V2" /\ batch[b].key = key /\ batch[b].mapping = mapping

Replays(b, key, mapping) ==
    \/ batch[b].version = "V2" /\ batch[b].key = key /\ batch[b].mapping = mapping
    \/ IsExactLegacyOpportunityReplay(b, key, mapping)

LockBatch(c) ==
    LET b == tx[c].batch IN
    /\ tx[c].pc = "begun" /\ BatchFree(c, b)
    /\ IF ~Available(b) THEN Ended(c)
       ELSE IF batch[b].status = "PREVIEWED" THEN To(c, "locked")
       ELSE IF Replays(b, tx[c].key, tx[c].mapping)
       THEN Writes(c, NoPut, "RECONCILED")
       ELSE Writes(c, NoPut, "CONFLICTED")
    /\ UNCHANGED <<batch, record, idMap, offboarding, requests>>

\* lock_import_commit_records: row security hides the rows of an expired
\* batch, row by row.
LockRecords(c) ==
    LET b == tx[c].batch IN
    /\ tx[c].pc = "locked"
    /\ \E n \in 0..Len(batch[b].rows) :
        /\ n < Len(batch[b].rows) => batch[b].expired \/ \A d \in Batches : d < b => batch[d].expired
        /\ batch[b].expired => n = 0
        /\ tx' = [tx EXCEPT ![c].pc = "keyed", ![c].seen = n]
        /\ batch' = [batch EXCEPT ![b].expired = @ \/ n < Len(batch[b].rows)]
    /\ UNCHANGED <<record, idMap, offboarding, requests>>

LockFree(c, lock) == \A d \in Operators \ {c} : lock \notin tx[d].held
\* Mutant: only the source identities are locked.
IdentityLocksOfSources(rows) == {rows[i].source.raw : i \in Primary(rows)}

IdentityLocks(rows) ==
    {rows[i].source.raw : i \in Primary(rows)} \cup {Target(rows[i]) : i \in Primary(rows)}

\* The advisory lock of the idempotency key, the other batch that may have
\* used the key, and the plan.  A read that lost rows to the deadline fails.
LockKeyAndPrepare(c) ==
    LET b == tx[c].batch
        outcome == Prepare(batch[b].rows, tx[c].mapping)
    IN
    /\ tx[c].pc = "keyed" /\ LockFree(c, tx[c].key)
    /\ IF \E d \in Batches \ {b} : batch[d].key = tx[c].key
       THEN Writes(c, Attempt("CONFLICTED"), "CONFLICTED")
       ELSE IF tx[c].seen # Len(batch[b].rows) THEN Ended(c)
       ELSE IF outcome # "READY" THEN Writes(c, Attempt(outcome), outcome)
       ELSE tx' = [tx EXCEPT ![c].pc = "identities", ![c].held = {tx[c].key}]
    /\ UNCHANGED <<batch, record, idMap, offboarding, requests>>

\* Mutant: the locks are taken in any order.
NextLockAny(c) == IdentityLocks(batch[tx[c].batch].rows) \ tx[c].held

\* lockImportIdentities takes the locks one at a time, in sorted order.
NextLock(c) ==
    LET wanted == IdentityLocks(batch[tx[c].batch].rows) \ tx[c].held
    IN {l \in wanted : \A k \in wanted : l <= k}

LockImportIdentities(c) ==
    /\ tx[c].pc = "identities"
    /\ \E lock \in NextLock(c) :
        /\ LockFree(c, lock)
        /\ tx' = [tx EXCEPT ![c].held = @ \cup {lock}]
    /\ UNCHANGED <<batch, record, idMap, offboarding, requests>>

\* Mutant: an identity mapped to the same record counts as the same row.
AlreadyMappedByTarget(rows, mapping) ==
    {i \in Primary(rows) : idMap[rows[i].source.raw].target = Target(rows[i])}

\* Rows whose identity is mapped already are duplicates when they say the
\* same, conflicts when they do not; the others need a free identifier and
\* an existing reference.
AlreadyMapped(rows, mapping) ==
    {i \in Primary(rows) : idMap[rows[i].source.raw].target = Target(rows[i])
                           /\ idMap[rows[i].source.raw].payload = Payload(rows[i], mapping)}
Conflicts(rows, mapping) ==
    LET new == {i \in Primary(rows) : idMap[rows[i].source.raw] = NoMap} IN
    \/ \E i \in Primary(rows) \ new : i \notin AlreadyMapped(rows, mapping)
    \/ \E i, j \in new : i # j /\ Target(rows[i]) = Target(rows[j])
    \/ \E i \in new : record[Target(rows[i])] # NoRecord
    \/ \E i \in new : ~ReferenceExists(rows[i])

CheckConflicts(c) ==
    LET b == tx[c].batch IN
    /\ tx[c].pc = "identities" /\ NextLock(c) = {}
    /\ IF Conflicts(batch[b].rows, tx[c].mapping)
       THEN Writes(c, Attempt("CONFLICTED"), "CONFLICTED")
       ELSE To(c, "checked")
    /\ UNCHANGED <<batch, record, idMap, offboarding, requests>>

\* Records and identity map entries, behind a savepoint: a record a CRM user
\* created meanwhile violates the primary key, which undoes all of them and
\* makes the attempt a conflict.
Outcome(rows, fresh, i) == IF i \in fresh THEN "COMMITTED" ELSE "EXACT_DUPLICATE"

\* Mutant: the insert updates a record that exists.
MaterializeOver(c) ==
    LET b == tx[c].batch
        rows == batch[b].rows
        fresh == Primary(rows) \ AlreadyMapped(rows, tx[c].mapping)
    IN
    /\ tx[c].pc = "checked"
    /\ tx' = [tx EXCEPT ![c].pc = "inserted", ![c].put =
                [kind |-> "commit",
                 records |-> RecordsOf(b, rows, tx[c].mapping, fresh),
                 maps |-> MapsOf(b, rows, tx[c].mapping, fresh),
                 outcomes |-> [i \in DOMAIN rows |-> Outcome(rows, fresh, i)]]]
    /\ UNCHANGED <<batch, record, idMap, offboarding, requests>>

Materialize(c) ==
    LET b == tx[c].batch
        rows == batch[b].rows
        fresh == Primary(rows) \ AlreadyMapped(rows, tx[c].mapping)
    IN
    /\ tx[c].pc = "checked"
    /\ IF \E i \in fresh : record[Target(rows[i])] # NoRecord
       THEN Writes(c, Attempt("CONFLICTED"), "CONFLICTED")
       ELSE tx' = [tx EXCEPT ![c].pc = "inserted", ![c].put =
                [kind |-> "commit",
                 records |-> RecordsOf(b, rows, tx[c].mapping, fresh),
                 maps |-> MapsOf(b, rows, tx[c].mapping, fresh),
                 outcomes |-> [i \in DOMAIN rows |-> Outcome(rows, fresh, i)]]]
    /\ UNCHANGED <<batch, record, idMap, offboarding, requests>>

\* record_import_commit_outcome and finalize_import_commit read the staged
\* rows again, and raise when the deadline has hidden them.
RecordOutcomes(c) ==
    /\ tx[c].pc = "inserted"
    /\ IF batch[tx[c].batch].expired THEN Ended(c) ELSE To(c, "recorded")
    /\ UNCHANGED <<batch, record, idMap, offboarding, requests>>

FinalizeCommit(c) ==
    /\ tx[c].pc = "recorded"
    /\ IF batch[tx[c].batch].expired THEN Ended(c)
       ELSE tx' = [tx EXCEPT ![c].pc = "committing", ![c].answer = "COMMITTED"]
    /\ UNCHANGED <<batch, record, idMap, offboarding, requests>>

(***************************************************************************)
(* COMMIT.  Its answer may be lost, and a lost connection rolls back.      *)
(***************************************************************************)
Applied(c) ==
    LET b == tx[c].batch
        put == tx[c].put
    IN
    /\ batch' = CASE put.kind = "attempt" -> [batch EXCEPT ![b].conflict = put.outcomes]
                  [] put.kind = "commit"  -> [batch EXCEPT ![b] = [@ EXCEPT
                        !.status = "COMMITTED", !.outcomes = put.outcomes, !.key = tx[c].key,
                        !.mapping = tx[c].mapping, !.version = "V2", !.conflict = "COMMITTED"]]
                  [] OTHER -> batch
    /\ record' = IF put.kind = "commit" THEN Over(record, put.records) ELSE record
    /\ idMap' = IF put.kind = "commit" THEN Over(idMap, put.maps) ELSE idMap

Commit(c) ==
    /\ tx[c].pc = "committing"
    /\ Applied(c) /\ Ended(c)
    /\ UNCHANGED <<offboarding, requests>>

CommitLost(c) ==
    /\ tx[c].pc = "committing"
    /\ Applied(c) \/ UNCHANGED <<batch, record, idMap>>
    /\ Ended(c)
    /\ UNCHANGED <<offboarding, requests>>

ConnectionLost(c) ==
    /\ tx[c].pc \notin {"idle", "committing"}
    /\ Ended(c)
    /\ UNCHANGED <<batch, record, idMap, offboarding, requests>>

CommitStep(c) ==
    \/ LockBatch(c) \/ LockRecords(c) \/ LockKeyAndPrepare(c) \/ LockImportIdentities(c)
    \/ CheckConflicts(c) \/ Materialize(c) \/ RecordOutcomes(c) \/ FinalizeCommit(c)
    \/ Commit(c)

-----------------------------------------------------------------------------
(***************************************************************************)
(* Maintenance: expiry and offboarding                                     *)
(***************************************************************************)
\* Mutant: the scrub leaves the last row.
ScrubbedButOne(s) ==
    [s EXCEPT !.status = IF @ = "COMMITTED" THEN @ ELSE "EXPIRED",
              !.rows = IF @ = <<>> THEN @ ELSE <<Last(@)>>, !.version = "NONE", !.mapping = None,
              !.cleanup = "SUCCEEDED"]

\* scrub_import_batch_internal: the raw rows go, and a batch that was never
\* committed is EXPIRED.  Canonical records and the identity map stay.
Scrubbed(s) ==
    [s EXCEPT !.status = IF @ = "COMMITTED" THEN @ ELSE "EXPIRED",
              !.rows = <<>>, !.version = "NONE", !.mapping = None,
              !.cleanup = "SUCCEEDED"]

Due(b) == batch[b].expired /\ batch[b].cleanup \in {"PENDING", "FAILED"}
TenantFree == \A c \in Operators : ~InTenantTransaction(c)

\* process_due_raw_import_cleanup takes the oldest due batch of a tenant no
\* transaction holds, and skips a tenant that is held.
NextDue == {b \in Batches : Due(b) /\ \A d \in Batches : Due(d) => b <= d}

CleanupSucceeds(b) ==
    /\ b \in NextDue /\ TenantFree
    /\ batch' = [batch EXCEPT ![b] = Scrubbed(@)]
    /\ UNCHANGED <<record, idMap, tx, offboarding, requests>>

CleanupFails(b) ==
    /\ b \in NextDue /\ TenantFree
    /\ batch' = [batch EXCEPT ![b].cleanup = "FAILED"]
    /\ UNCHANGED <<record, idMap, tx, offboarding, requests>>

RequestOffboarding ==
    /\ offboarding = "NONE"
    /\ offboarding' = "PENDING"
    /\ UNCHANGED <<batch, record, idMap, tx, requests>>

\* Mutant: the offboarding does not wait for the tenant's transactions.
OffboardAtOnce ==
    /\ offboarding \in {"PENDING", "FAILED"}
    /\ offboarding' = "OFFBOARDED_ACCESS_REVOKED"
    /\ batch' = [b \in Batches |-> IF batch[b].cleanup \in {"PENDING", "FAILED"}
                                   THEN Scrubbed(batch[b]) ELSE batch[b]]
    /\ UNCHANGED <<record, idMap, tx, requests>>

\* process_pending_tenant_offboarding locks the tenant for update, so it
\* waits for the imports under way, then scrubs every batch or none.
Offboard ==
    /\ offboarding \in {"PENDING", "FAILED"} /\ TenantFree
    /\ offboarding' = "OFFBOARDED_ACCESS_REVOKED"
    /\ batch' = [b \in Batches |-> IF batch[b].cleanup \in {"PENDING", "FAILED"}
                                   THEN Scrubbed(batch[b]) ELSE batch[b]]
    /\ UNCHANGED <<record, idMap, tx, requests>>

OffboardingFails ==
    /\ offboarding \in {"PENDING", "FAILED"} /\ TenantFree
    /\ offboarding' = "FAILED"
    /\ UNCHANGED <<batch, record, idMap, tx, requests>>

Next ==
    \/ StagePreview
    \/ \E b \in Batches : RawExpires(b) \/ CleanupSucceeds(b) \/ CleanupFails(b)
    \/ \E t \in Targets : CrmCreates(t)
    \/ \E c \in Operators : CommitBatch(c) \/ CommitStep(c) \/ CommitLost(c) \/ ConnectionLost(c)
    \/ RequestOffboarding \/ Offboard \/ OffboardingFails

Spec == Init /\ [][Next]_vars

-----------------------------------------------------------------------------
(***************************************************************************)
(* Properties                                                              *)
(***************************************************************************)
\* Every variable keeps its shape.
TypeOK ==
    /\ \A b \in Batches :
        /\ batch[b].status \in {"NONE", "PREVIEWED", "COMMITTED", "EXPIRED"}
        /\ batch[b].rows \in Files[b] \cup {<<>>}
        /\ batch[b].key \in Keys \cup {None} /\ batch[b].mapping \in Mappings \cup {None}
        /\ batch[b].version \in {"NONE", "LEGACY", "V2"}
        /\ batch[b].conflict \in {"NONE", "COMMITTED", "CONFLICTED", "FAILED"}
        /\ batch[b].expired \in BOOLEAN
        /\ batch[b].cleanup \in {"NONE", "PENDING", "FAILED", "SUCCEEDED"}
    /\ \A t \in Targets : record[t].by \in {"none", "crm", "import"}
    /\ \A s \in Sources : idMap[s].batch \in Batches \cup {None}
    /\ \A c \in Operators : tx[c].held \subseteq Keys \cup Sources \cup Targets
    /\ requests \in 0..MaxRequests
    /\ offboarding \in {"NONE", "PENDING", "FAILED", "OFFBOARDED_ACCESS_REVOKED"}

\* A batch becomes records as a whole or not at all: while its rows are kept, a
\* committed batch has every row's identity mapped to the row's record, as the
\* row's outcome says; and no record or map entry comes from another batch.
AllOrNothing ==
    /\ \A b \in Batches : batch[b].status = "COMMITTED" =>
        \A i \in DOMAIN batch[b].rows :
            LET row == batch[b].rows[i]
                map == idMap[row.source.raw]
            IN /\ map.payload = Payload(row, batch[b].mapping)
               /\ batch[b].outcomes[i] = "COMMITTED" => map.batch = b
    /\ \A s \in Sources : idMap[s] # NoMap =>
        /\ batch[idMap[s].batch].status = "COMMITTED"
        /\ record[idMap[s].target] =
            [by |-> "import", batch |-> idMap[s].batch, payload |-> idMap[s].payload]
    /\ \A t \in Targets : record[t].by = "import" => \E s \in Sources : idMap[s].target = t

\* Imports never collide in the database: what a transaction is about to commit
\* takes no identity, record or key that a committed batch, or another
\* transaction about to commit, has.
Claims(put) == DOMAIN put.maps \cup DOMAIN put.records
ImportsDoNotCollide ==
    \A c \in Operators : tx[c].put.kind = "commit" =>
        /\ \A s \in DOMAIN tx[c].put.maps : idMap[s] = NoMap
        /\ \A s \in Sources : idMap[s].target \notin DOMAIN tx[c].put.records
        /\ \A b \in Batches : batch[b].key # tx[c].key
        /\ \A d \in Operators \ {c} : tx[d].put.kind = "commit" =>
            Claims(tx[c].put) \cap Claims(tx[d].put) = {} /\ tx[c].key # tx[d].key

\* Nobody waits in a circle for the batches and advisory locks of imports.
WaitsFor(c, d) ==
    CASE tx[c].pc = "begun" -> ~(tx[c].batch # tx[d].batch \/ ~InTenantTransaction(d))
      [] tx[c].pc = "keyed" -> tx[c].key \in tx[d].held
      [] tx[c].pc = "identities" -> NextLock(c) \cap tx[d].held # {}
      [] OTHER -> FALSE
NoCircularWait ==
    \A group \in (SUBSET Operators) \ {{}} :
        \E c \in group : \A d \in group \ {c} : ~WaitsFor(c, d)

\* An import never writes over a record or a map entry, a CRM user's included.
CanonicalIsKept ==
    [][/\ \A t \in Targets : record[t] # NoRecord => record'[t] = record[t]
       /\ \A s \in Sources : idMap[s] # NoMap => idMap'[s] = idMap[s]]_vars

\* What the operator is told is what happened.  COMMITTED is answered once for a
\* batch, RECONCILED for the request that committed it; a retry of that request
\* is never told of a conflict; and a refusal leaves no record behind.
Told(c, answer) == Commit(c) /\ tx[c].answer = answer
Serves(s, c) == s.status = "COMMITTED" /\ s.key = tx[c].key /\ s.mapping = tx[c].mapping
AnswersAreTrue ==
    [][\A c \in Operators :
        /\ Told(c, "COMMITTED") => ~Serves(batch[tx[c].batch], c) /\ Serves(batch'[tx[c].batch], c)
        /\ Told(c, "RECONCILED") => Serves(batch[tx[c].batch], c)
        /\ Told(c, "CONFLICTED") => ~Serves(batch[tx[c].batch], c)
        /\ Told(c, "CONFLICTED") \/ Told(c, "FAILED") => UNCHANGED <<record, idMap>>]_vars

\* Offboarding waits for the imports under way: afterwards no raw row is left
\* and no import writes.
OffboardingEndsImports ==
    [][/\ ~Live' => \A b \in Batches : batch'[b].rows = <<>>
       /\ ~Live => UNCHANGED idMap]_vars
=============================================================================
