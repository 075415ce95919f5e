# Trade Growth Engine: formal model

This directory holds a TLA+ model of the trade-growth-engine server (`src/`),
TLC configurations that check it on small instances, and proofs of its main
results for every size of instance. `PROJECT.json` lists the runs, the mutants
that show each property can fail, the map from definitions to source lines, the
hazards and the theorems.

## Inventory

The server is one Node program with two ways to persist. In local mode every
collection is a JSON file (`services/localStore.js`) and handlers are
synchronous; in pilot mode the data is in PostgreSQL, every request runs in a
transaction bound to a tenant, and handlers await.

| Part | State it keeps | Operations | What is hard | What makes it correct |
|---|---|---|---|---|
| RevenueAction lifecycle, JSON (`revenueActions/revenueActionService.js`, `revenueActionRepository.js`) | `revenue_actions`, ids of effects | materialize, prepare, approve, reject, cancel, execute, replay | one request is up to five file writes; crash, throw and retry between them | one active action per opportunity; effects once and only after approval; settled is settled; recovery settles |
| Recommendation basis (`revenueActionBasis.js`, `intelligence/dealIntelligence.js`) | none: derived from CRM records and the clock | next best action, fingerprint | it changes under an approval, also by the action's own effects and by time alone | effects only on the approved evidence |
| CRM requests (`api/tasks.js`, `api/intelligenceActions.js`, `opportunities/opportunityEngine.js`) | `opportunities`, `tasks`, `activities` | stage, contact, value, next-action task, task POST and PATCH | they edit the records an action owns | no duplicate task; the next action follows its task |
| Local pilot evidence (`pilotEvidence/localRevenueActionObserver.js`) | `pilot_evidence_events` | append a milestone once | a second file, written after the first | never ahead of the store |
| RevenueAction lifecycle, PostgreSQL (`postgresRevenueActionService.js`, `persistence/postgres/repositories.js`) | the same in tables | the same | concurrent requests, row locks, savepoint, commit of unknown outcome | the same contract |
| Revenue leak cases (`revenueLeakCases/`) | cases, their audit, links to actions | scan, reconcile, transition, handoff, link | awaits between reading a case and linking an action; batches | one open case per series; a link names an action of that opportunity; a case is not closed by a scan that did not look at it |
| Stalled detector, eligibility, operating queue | none | decide and rank | boundaries of ages and missing evidence | detection implies eligibility; order is total |
| Pilot evidence service | events | append, summarise | append twice | an event once; milestones in order |
| CSV imports (`imports/`, `persistence/postgres/importRepository.js`, `web/components/ImportWorkspace.jsx`) | batches, rows, identities, canonical records | preview, analysis, commit, replay | concurrent batches over the same identities; expiry of raw rows; a browser tab whose requests and answers get lost | a batch commits once and whole; an identity maps to one record; what is committed was reviewed |
| Authentication and membership (`auth/`) | memberships, invitations | invite, begin, consume, revoke, provision | races on single-use tokens and on the last owner | a token is used once; a tenant keeps an owner |
| Offboarding and raw expiry (`tenantOffboarding/`, `scripts/run-maintenance-cleanup.mjs`) | offboarding request, scrubbed rows | request, status, cleanup | against running requests | no access, no raw row and no import after completion |
| Pilot runtime (`pilot/runtime.js`) | readiness snapshot, probe in flight, server, pool | probe, listen, close, pool error | late answers of probes, shutdown during a probe | ready only on a completed probe after the last error; never after close |
| Migration runner (`scripts/migrate-db.mjs`) | ledger | migrate | lock, one transaction each | append-only order |
| Prospecting, sales, scores, forecasts, dashboards, experiments | none of their own | one-shot computations | none of the above | unit-tested formulas |
| Web client, otherwise | browser state | presentation; validation of the server's answers | its own copies of the server's rules | every answer the server gives is accepted |

Interactions. A leak case hands an opportunity over to the lifecycle and is
linked to the action it yields; the lifecycle reads CRM records through deal
intelligence and writes tasks, activities and the next action back; its
milestones become pilot evidence when the action is linked to a case of an
imported opportunity; imports create the opportunities that scans look at;
offboarding scrubs imports and revokes memberships.

## Plan

All parts of the plan are written; the order was that of their weight in the
program.

1. The lifecycle over the JSON store, with an abstract specification. First,
   because it is the part of the program that acts on behalf of a human.
2. Leak cases over the JSON store.
3. The lifecycle over PostgreSQL, with an abstract specification of its own.
4. The pilot runtime.
5. Imports with raw expiry and offboarding, then access to a tenant.
6. The pure decisions about stalled opportunities, and with them the leak cases
   over PostgreSQL and the browser's checks of their answers.
7. The import workspace of the browser against the service.

The proofs followed in the same order, and every safety property that a passing run
checks is proved. No module in the project declares a recursive operator.

## Modules

The state of a module is what the code stores; each module starts with a list
of its abstractions.

| Module | Models | State |
|---|---|---|
| `RevenueActions` | the lifecycle over JSON | the files `opportunity`, `actions`, `tasks`, `activities`, `evidence`; `caseLink` for the leak cases, `today` for the clock; `job`, the request that runs: which write is next, for which action |
| `RevenueActionContract` | what the JSON lifecycle promises: status transitions, at most one active action, effects at most once and only while executing, the task before the activity | status, owner and effects of actions |
| `RevenueLeakCases` | leak cases over JSON | `cases` in file order, `actions` as a case can see them, `events` (milestones), `facts` (what detector and deal intelligence would say now), `job` |
| `PostgresRevenueActions` | the lifecycle over PostgreSQL and the CRM requests that share its rows | the committed rows, and per client a transaction `tx[c]`: step, locks, what it has read, uncommitted rows (`put`) |
| `AtomicRevenueActions` | what the PostgreSQL lifecycle promises: every request at one moment or not at all | status, owner and effects of actions |
| `PostgresLeakCases` | leak cases over PostgreSQL | clock, evidence, cases with audit, actions, milestones, per client one request |
| `StalledOpportunities` | detector, eligibility report, operating queue | none: operators over the evidence |
| `LeakCaseContracts` | what the browser accepts of leak-case answers (`web/lib/revenueLeakCaseContracts.mjs`) | none |
| `CsvImports` | staging, commit, expiry, cleanup and offboarding of CSV batches | batches with raw rows, canonical records, identity map, offboarding, per operator one transaction |
| `TenantAccess` | bootstrap, invitations, memberships, revocation, offboarding | tenants, members, invitations, requests of the server, identity commands |
| `ImportContracts` | parsing, mapping, validation, data health and plan of an import, on the server and again in the browser | none |
| `ImportWorkspace` | one browser tab of the import workspace against the service | the tab, its requests in flight, the service's batches |
| `PilotRuntime` | readiness, probes, request gate, shutdown | the snapshot, the probe in flight, requests, listener, pool |

`PostgresLeakCases` extends `LeakCaseContracts`, which extends
`StalledOpportunities`; `ImportWorkspace` extends `ImportContracts`. The MC
modules hold values for TLC. The proofs are in `RevenueActionsProofs`,
`RevenueLeakCasesProofs`, `PilotRuntimeProofs`, `PostgresRevenueActionsProofs`,
`CsvImportsProofs`, `TenantAccessProofs`, `PostgresLeakCasesProofs` and
`ImportWorkspaceProofs`, each extending the module it is named after.

Where a subsystem exists twice, the two modules differ in what can interleave:
over JSON a request is a sequence of file writes that only a crash or an
exception divides; over PostgreSQL it is one transaction among others.

### How actions correspond to code

Handlers are synchronous, so requests do not interleave; what interleaves with
them is the loss of the process and exceptions. One action is therefore **one
file write**, with all checks the handler makes before it; the action leaves in
`job` the write that comes next. `MaterializeRevenueAction` (the write that
cancels) is followed by `InsertRevenueAction`; `StartExecution` (status
EXECUTING) by `CreateTaskForRevenueAction`, `CreateActivityForRevenueAction`,
`SetOpportunityNextAction` for CREATE_TASK, `FinalizeExecution` and
`ObserveRevenueAction`. `Abort` drops what is left, from any point; `EffectThrows`
leads to `FailExecution`, the write of the catch block. It may also happen after
`FinalizeExecution`, since the try block covers the refresh of the response.
CRM requests write their record, then `RecordNextAction` for the next-action
task, then `RecordActivity`. Approval, replay and execution recompute the basis
exactly where the code does. Where a handler writes nothing (an empty
supersede, a duplicate insert) its action leaves the file as it is.

In `RevenueLeakCases` an action is again one file write: a repository method of
the JSON store runs from its read to its write without yielding, and the awaits
between two methods yield only to continuations of the same request. The scan
is a write of its own after `ReconcileInBatch` filled `draft`, the copy that
`reconcileBatch` holds in memory. A handoff is `Handoff` (the checks and the
write that cancels outdated actions), `InsertRevenueAction`, `LinkHandoff` and
`ObserveLinkedAction`; `HandoffReplay` is the branch of a linked case. `Abort`
drops the rest after any of them. `WriteCases` is the validation with which
`writeCases` accepts or refuses the whole file; `answer` remembers a refusal.
`MaterializeRevenueAction` and `ActionProgress` are the other users of the
actions; they are the steps of `RevenueActions` as a case sees them: an action
is active, owns effects (`RECOVERING`), or is done. A case's detection time is
`at`, and `ClockSteps` says whether the next detection of an opportunity may
have the same or an earlier time. Left out: the fields and the audit of a case
that no branch of these requests reads, snooze wake times (nothing wakes a
case), and refusals that change nothing.

In `PilotRuntime` callbacks do interleave. One action is what runs between two
turns of the event loop: a timer (`Tick`, `ProbeTimesOut`, `DrainForced`), an
answer of the driver with the promise continuations it releases
(`DatabaseRowCurrent`, `MembershipAnswers`), an event (`PoolError`; `ClientLeaves`,
after which the handler runs on and its connection no longer counts), or the
synchronous part of a call (`Close`, `Listen`). `close()` is split at its three
awaits, which `awaiting` names; `Listening` is the part of `listen()` after its
await. `passing` is the set of checks of the snapshot that pass, and the
snapshot is ready when all three do. `gaveUp`, `errors`, `provenAt` and a probe's
`begunAt` are history: the code does not read them. Time is not counted: a
timeout may happen to a probe that met an unwell database (`delayed`), and any
wait of the shutdown may end by its deadline.

In `PostgresRevenueActions` one action is one statement that can wait for a lock
or see what another transaction committed; statements in between, on rows this
transaction has locked, are folded into it. `Begin` enters
`withTenantTransaction`; `LockOpportunity`, `LockAction`, `ReadEvidence`,
`LockNextActive` and so on take the locks in the code's order; the work writes to
`put`, and `Commit` installs `put` and frees the locks. A read sees what is
committed when it runs, so rows read before a wait may be stale after it, and
the `...OnEvidence` actions recompute where the code does. `EffectFails` is
the rollback to the savepoint of an execution: it undoes the rows written since
and frees the locks taken since, which are all of them. `RelockOpportunity` and
`RelockAction` take them again, after whoever came between, and
`MarkExecutionFailed` records the failure unless the action was executed,
rejected or cancelled meanwhile; the answer is the same. `Fail` is any other
statement that throws, `CommitLost` a COMMIT whose answer is lost, which may have
done either. A unique index is a guard of `Insert`, which waits for
the other transaction as PostgreSQL does.

In `PostgresLeakCases` a request reads its clock when it arrives (`Begin`), and
its transaction is a later action: its first lock, on the opportunity, is one
every writer of the same evidence needs. What is read before that lock is an
action of its own: `Enumerate` for a scan, `ReadActivities` and `ReadTasks` for the
child queries of the eligibility report, which locks nothing.

In `CsvImports` a commit is the sequence of its statements: lock the batch, read
the raw rows, lock the key and prepare, lock each identity in sorted order, check
conflicts, materialize, record outcomes, finalize, `Commit`. Between any two the
clock (`RawExpires`), the cleanup, CRM users, offboarding and other operators run.

In `TenantAccess` requests are READ COMMITTED transactions of several statements;
identity commands are SERIALIZABLE, so they carry the snapshot they read and are
`doomed` once a commit contradicts it (`Stale`), or once one of two revocations of
owners who are active to both commits (`Entangled`): such a command ends in an
abort, whose retry is a new command. The maintenance job is one step per
tenant, since it holds the tenant's row from its first statement.

In `ImportWorkspace` a request occupies a slot from the click until its answer is
dealt with. The service's handling is one step (`Serve...`), which may come after
the tab gave up on the request; `Deliver` is the browser's handler, its contract
check included; `Lose` a timeout or a lost connection, `Deny` an answer without
permission. Whether a late answer still counts is decided by the slot, the token
of `createImportOperationGuard`.

Further abstractions. A fingerprint is the record it hashes; ids are table
slots, taken in order, and activity order is slot order; a task's `terms` is its
priority and due date. In `RevenueActions` an opportunity's contact and value
facts are booleans, and titles are kept with their normalized form, since
recovery compares both; in `PostgresRevenueActions` the remaining facts are one
value. The clock advances between requests. Hash collisions of advisory locks
are left out.

## Runs

`PROJECT.json` names the properties of each run. State counts are of distinct
states, times those of two workers.

| Run | Bounds | Shows |
|---|---|---|
| `action_recovery` | 1 opportunity, 2 actions, 2 tasks, 2 activities; no next action at first; stage changes, a reusable task in another case, task status edits; crash and throw | No retry repeats or loses an effect, and the JSON lifecycle implements `RevenueActionContract`. |
| `action_evidence` | the same tables; contact, value, one day, task POST and PATCH, a case link; crash, throw, refresh throw (3.0 million states, 2 minutes) | Effects happen once and on the approved evidence; milestones are true; an action of any kind with effects is given up only by its own retry, when effects are missing and the evidence, its task and activity aside, changed. |
| `action_retry` | 3 activities, the same task asked for beside the action; crash and throw; fairness | Liveness: a started execution that is retried settles. |
| `action_refresh` | 1 action, refresh throw | Finding: EXECUTED is overwritten with FAILED. |
| `leak_cases` | 1 opportunity, 2 detection keys, 3 bases, 2 cases, 2 actions, crash anywhere, detections at a later, the same and an earlier time; fairness (540,000 states, 2 minutes) | One active action; handoffs are repaired; the validation refuses a request only over detections that share an instant or go back in time; closed evidence stays closed. |
| `postgres_actions` | 2 clients: an operator, and a colleague or CRM users; 1 opportunity, 2 actions, tasks, activities, attempts, 1 day; failing effects and statements, lost commits (900,000 states) | Recommendations stay unique, effects are whole and on current records, answers are true (a failure is told of an action that is FAILED, or that somebody else settled first), and the whole implements `AtomicRevenueActions`. |
| `postgres_leak_cases` | 2 clients, 1 to 3 opportunities, 17 settings of requests and CRM edits, 4 clock readings, 3 cases, 3 audit entries, 2 actions (1.1 million states) | One line of cases, whole scans, current handoffs, answers the browser accepts. |
| `leak_audit_order` | the same, racing snoozes and resumptions | Finding: an audit trail out of order. |
| `imports` | 2 operators, 2 batches of 5 and 4 possible files, 2 mappings, 2 keys, 2 commit requests (960,000 states) | Imports are whole, do not collide or wait in a circle, are answered truly and end with the tenant. |
| `access` | 2 tenants, 5 people, 2 requests and 2 commands at once, empty or with three open invitations to one person (310,000 states) | One membership per identity, an owner per tenant, no access to an ended tenant, answers true when given. |
| `pilot_runtime` | 2 requests, whose clients may leave, 2 pool errors, any database | Fresh readiness, order and end of the shutdown, losses and recoveries noticed. |
| `import_workspace` | 10 kinds of upload, one without rows and one with an overlong target id, 2 rows shown, 2 slots, 2 batches, 2 keys, 1 reset or reload (1.3 million states) | One import at a time, both sides agree, the exceptions of `AnswersAreReadable` aside, no blind retry, nothing committed that was not reviewed. |

Why these bounds. One opportunity for the lifecycle: every guard and query of the
code is local to the opportunity of the action, and the proofs cover any number.
Two actions, so that one supersedes or follows another; tasks and activities for
both and, where a CRM request takes part, one of its own. `StaleDays` is 0 in
place of 7, so that one day makes an activity stale. CRM requests need a free
slot (`CrmRoom`), executions the slots they use (`HasRoom`). Leak cases: a request
that would store a third case does not happen, one that is refused does. Two keys, so that a history is superseded, closed and met again; two actions, so
that a handoff can find one to reuse, one to replace and one in recovery. Two
clients race in every way two can; a third adds none for locks held to the end of
a transaction, and the proofs cover any number. In `postgres_leak_cases` the
settings name which requests meet, since all at once is out of reach: detections
against transitions, scans and handoffs; a report against CRM edits; a queue
against a portfolio that outgrows the limit of two; and each kind of unusable
evidence. Imports: files with one row, two rows in both orders, an exact and a
changed repetition, a record under two sources, a blank and an unknown
reference. Access: the person invited by both tenants and twice by one is the
case where the invitation, identity and tenant locks all matter. Uploads: clean,
with errors past the sample, repeated identities, ambiguous and overlong columns,
unsupported and malformed, without rows, and with a target id too long to be
read. Two pool errors: one before a probe and one during it.

The tables, requests and commands of the other runs are used up, and then
nothing more need happen: they do not check for deadlock. `PilotRuntime` and
`PostgresLeakCases` do, where a runtime that is not closed ticks and the clock or
a request can always go on. That transactions cannot wait in a circle is
`NoCircularWait` in `imports`.

`ImplementsContract` is checked without `refreshThrow`, the fault that
`action_refresh` shows to break it. The clock of the leak cases over JSON may stand
still or go back; `ChangedEvidenceAccepted` and `NoSilentReopening` except the
opportunities that this happened to, and no others.

## Fairness

`RetriesSettle` is checked under `FairSpec`. `RetriedExecution` is strongly fair:
the operator comes back to an execution that was started, which the interface
asks for (`REVENUE_ACTION_RECOVERY_REQUIRED`); nothing retries by itself. The
effect writes are strongly fair: a write can throw or the process can stop at it
any finite number of times. `Continue` is weakly fair: a running handler goes on.
No fairness is assumed of CRM requests, approvals or the clock. Edits of the
action's own task are excluded there: they make every retry an effect conflict
until a human undoes them, which is the documented behaviour.

`HandoffRepaired` is checked under the `FairSpec` of `RevenueLeakCases`. A
request that runs goes on (weak fairness of its writes). Nothing retries a
handoff by itself: that the operator repeats it while it is possible, and that
the process does not stop at the same write of it every time, is assumed
(strong fairness of `Handoff` or `HandoffReplay` per case, and of the writes that
follow), as `docs/architecture/REVENUE_LEAK_CASE.md` does when it speaks of an
explicit retry. No fairness of detections, transitions or other users. The
conclusion is wanted only if the case stays fit for a handoff (`HandoffReady`).

`PilotRuntime` assumes its own timers and continuations (`TimerFairness`): an
armed interval ticks, a deadline passes. It assumes nothing of requests, the
database or the pool, so `LossNoticed` and `CloseCompletes` hold with all three
hung. `Recovers` names its further assumptions itself: the work of every probe
ends, which the driver's connection and query limits give (`startPilotRuntime`
sets them; an injected pool may not), and pool errors stop.

## What is proved

With TLAPS, for every value of the constants that satisfies the assumptions of
the modules (shapes of the inputs; nothing about their number). `PROJECT.json`
lists the theorems; a hypothesis beyond those is named here.

| Module | Theorems |
|---|---|
| `RevenueActionsProofs` | `TypeCorrect`, `OneActive`, `EffectsOnce`, `ExecutedEffects`, `TrueEvidence`, `ApprovedEvidence`, `KeepAction`; `Refinement` and `SettledFinal` if `"refreshThrow"` is not among the faults |
| `RevenueLeakCasesProofs` | `LeakTypes`, `AlwaysReadable`, `TrueMilestones`, `KeptHistory`, `OneAction`, `EvidenceAccepted`, `OneHistory`, `ClosedStaysClosed`, for any clock |
| `PilotRuntimeProofs` | `FreshReadiness`, `OverdueProbe`; `PoolLast` and `ClosedRelease` if nothing closes the runtime before it listens |
| `PostgresRevenueActionsProofs` | `TypeCorrect`, `OneActive`, `WholeEffects`, `CurrentRecords`, `TerminalIsFinal`, `TrueAnswers`, `Refinement` |
| `CsvImportsProofs` | `TypeCorrect`, `WholeImports`, `NoCollision`, `NoCircle`, `CanonicalKept`, `TrueAnswers`, `EndedByOffboarding` |
| `TenantAccessProofs` | `TypeCorrect`, `OneMembership`, `KeepsAnOwner`, `AccessEnds`, `CurrentAnswers`, `Invited` |
| `PostgresLeakCasesProofs` | `TypeCorrect`, `LineOfCases`, `WholeScan`, `CurrentHandoff`, `OvertakenOnly`, `Records`, `BrowserReadsAnswers` |
| `ImportWorkspaceProofs` | `TypeCorrect`, `OneImport`, `RetryAfterMissing`, `ReviewedConfirmed`, `Agreement`; of any file: `AnalysisIsReadable`, `ConfirmedIsCommittable` |

None of the invariants is inductive by itself. The strengthened ones:

**Lifecycle over JSON.** `IInv` adds `JobInv` (what is known at each write of a
running request: an executing action is approved, the task in hand carries its
id), `SlotInv` (an unused slot carries no link, an unused action is not
approved), `LinkInv` (the activity that carries an action's id points at a task
that carries it too, or at none for a communication) and `SoleInv` (between the
two writes of materialize no active action differs from the current
recommendation; an execution that is finishing or failing is the only active
action, and not yet reported as executed). `OneActiveAction` needs the first
part of `SoleInv` for the insert and the second for a failure after the final
write; `ExecutedHasEffects` needs `LinkInv` for a retry that reconciles effects
of an earlier run. One lemma per action for the preservation of `IInv`; the
refinement has one per kind of step, mapping it to a contract action or a stutter.

**Leak cases over JSON.** `StoreInv` joins types, readability and milestones with
what the running request knows (`JobInv`). Writes keep the file readable because
they are validated, other steps because none changes what a linked action is.
`ChainInv` adds that the cases, and a scan's draft, form a chain: wherever the
detections of an opportunity are in order, each of its cases names as predecessor
one that all earlier ones of its series precede or equal, only the last can be
active, and supersession is mutual. What a clock that stood still did to one
opportunity says nothing of another. Then the predecessor that
`reconcileRecord` picks is the last of its series (`LastCase`), the collection it
builds is a chain (`ReconcileChain`), and a chain in which every series is in order
passes the validation (`ChainIsValid`). `DraftInv` says that a draft reopens nothing silently, compared with
the file, and so far differs from it only in opportunities the scan is done
with; `ActiveInv` that at the insert of a handoff no action on other evidence is
active.

**Runtime.** `ReadinessInv` relates the snapshot to the probe in flight: a probe
compares the revision it began with, that revision counts the pool errors as
long as the runtime is open, and an open gate means that the probe in flight, if
any, is neither disowned nor late. `ShutdownInv` orders the three waits of
`close()`.

**Lifecycle over PostgreSQL.** `IInv` has one part per transaction and one per
pair, so that a step of one client is proved against the knowledge of another
once and for all (`Landed`: what a commit installs; `LocalKeeps`: all other
steps). `Kept` is about the committed rows. `Knows(t)` is what a transaction
knows at its step: the locks that the step implies (`Phase`, `Guarded`), that
what it read under them is still so (`Sighted`), what it has written so far
(`Writes`) and what it is about to answer (`Promises`). `Apart(t, u)` says that
two transactions hold compatible locks, write different rows, and do not both
insert one recommendation. A failed execution knows nothing between the rollback
to its savepoint and the new locks; what it then writes, and what it answers, is
proved from the status it finds under them. `CurrentRecords` then rests on the share locks on the
opportunity and its prospect and on the task rows; `Refinement` maps each commit
to the atomic request that its `Writes` describe, and every other step to a
stutter.

**Imports.** `IInv` has the same shape: `BatchInv` and `MapInv` relate committed
batches, records and the identity map, `OffboardingInv` the end of the tenant to
the raw rows; `Knows` is what a commit has prepared, checked (`Decided`) and put
(`Written`) under its locks, `Apart` that no two hold one batch, key or
identity. Steps are a `LocalMove` of one transaction, a batch being laid to
rest (`Rested`), its `Scrubbing`, or a commit that `Landed`. `NoCircle`: in a
group, take the one who waits for the greatest identity; whoever holds it waits
for a greater one or for none, as the locks are taken in ascending order after
batch and key.

**Access.** `RowsInv` says what rows alone satisfy (one membership, none in an
ended tenant); `RequestInv` what a request has under the locks of its step, and
that two of them exclude each other from identities, invitations and drawn ids;
`CommandInv` that the owners which a command saw are owners still, as long as no
commit doomed it. So the last owner survives two revocations: the second is
doomed by the commit of the first, or counts after it.

**Leak cases over PostgreSQL.** `CasesInv` says of every opportunity that at most
one case is active, that a superseded case names the case that follows it, and, as
long as each case was detected after the one it follows (`Later`), that its cases
form a line. `Knows` is what a request
knows since its clock reading: a case that it was given exists, and a scan has
seen every opportunity that was there (`SawAll`). The rows a reconciliation writes
are described once (`Written`), for a detection and a scan alike.
`OvertakenOnly` says that a refusal for lack of integrity needs a case with a
later clock reading: no such refusal is the request's own doing.

`BrowserReadsAnswers` needs more of the rows, `RecordsInv`: the audit trail of a case
starts with its detection, every later entry is a legal step from the state before
(`Trail`), the case is in the state its trail ends in and has an action exactly if
the trail has a link, no older than the action; and its evidence was readable when it
was detected (`Recorded`, `Linked`). It is inductive together with `IInv`. A case the
browser replays is then in the state the server says (`ReplayedTrail`, `CaseStands`),
and what the detector answers is what the browser's copy of the rules accepts
(`EvidenceStands`). The rest is arithmetic over data of any size, for which no
induction theorem can be cited: a least set without the property takes its place
(`Smallest`). So a sum is the number of the units of its weights, whatever the order
of the summands (`SumIsUnits`), and server and browser count the same units
(`SameWorth`); an order of the entries exists and has each of them once
(`OrderExists`, `EveryEntry`), because `compareEntries` is linear (`RankedIsLinear`),
and implies the browser's own (`InBrowserOrder`). The dispositions of a scan add
up to its leaks by a partition (`Tallied`). Assumed of the constants: a setting starts
from finitely many opportunities of the right shape.

**Import workspace.** For the first four theorems the contents of files and mappings
are never looked into: a batch keeps its upload, and that is enough. `TabInv` says for each phase what is on
display; `ActiveInv` and `ResumeInv` that the request the tab waits for is about
just that, so the token of the guard is all a late answer has to be compared with.
`FreshInv` says that the batch a preview was answered with is nobody else's: not
in the address, not in another answer, not in doubt, hence a new import starts
without doubt even while commits of earlier ones are unanswered. `DoubtInv` says
that the batch on display is in doubt only while its commit is under way or no
lookup has found it missing. A POST is only sent by `CommitReviewed` and
`RetryCommit` (`PostsAreSubmitted`), whose guards then give both action properties.

`Agreement` looks into the files. What the parser lets through is `IsFile`; a mapping
the server makes of it gives each field a column of its own or none (`MappingIs`).
The server's health is counts over all rows, the browser checks them against the rows
of the sample: the rows not shown account for the difference (`RowsAgree`,
`CountShown`), so `AnalysisIsReadable`. Health that can be confirmed leaves no row
with an error and none without identity (`ConfirmableIs`), which is what the plan
looks at, so `ConfirmedIsCommittable`; the facts are sums of the same counts
(`FactsAre`). `AgreeInv` carries this through the steps: a staged file parses
(`FilesInv`); a request asks for a selection the server takes, and its answer tells
of nothing else (`AnswersInv`); the tab holds such a selection, and shows the health
of the one it asked for (`ReviewInv`). An expired or committed batch keeps its
upload and stays committed (`Grows`), so a late answer still tells the truth. And a
committed batch had a plan that was ready, so each of its rows has its target id and
its source id, the latter short enough (`CommittedInv`, `ReadyIsNamed`): of what the
browser checks in the rows of a result only the length of the target id is left. Assumed
of the constants: headers and cells are texts the parser knows, an edit is a field
and a column, the tables of targets and aliases have the shape of
`importMapping.js`, and the samples show a row at
least, those of the fields no more rows than the analysis.

Checked by TLC only:

* Liveness: `RetriesSettle`, `HandoffRepaired`, `LossNoticed`, `Recovers`,
  `CloseCompletes`. The prover has no rules for fairness and ENABLED.
* `StoredIntegrity` and `NoDeadlock` of `PostgresRevenueActions` are stated there and
  hold in that instance; no run repeats them. The first replays an audit of any
  length, the second speaks of ENABLED.
* The two findings, and the three properties of the next section that the code does
  not satisfy.

## Divergences

Found while modelling. The first two are runs. The next three are stated in the
modules as properties the code does not satisfy: TLC finds each violated when it is
put into the configuration named. The others were met in the source, and a model
states or avoids them as said.

* *EXECUTED is overwritten* (`action_refresh`). The try block of the execution
  covers the refresh of the response, which runs after EXECUTED was written; if it
  throws, the catch block writes FAILED.
* *Audit out of order* (`leak_audit_order`). Transitions read their clock before
  they lock the case; the browser then refuses the case's history for good.
* *Complete effects cancelled as stale.* Recovery compares the recorded next action
  with the proposed title (`revenueActionService.js:642`), execution records the
  title of the task it reused, which may differ in case. The retry then takes its own
  next action for changed evidence and cancels, against
  `REVENUE_ACTION_EXECUTION.md:40`: `CompleteEffectsAreReconciled` under
  `RevenueActionRecovery.cfg`. `EffectsKeepAction` therefore counts the next
  action among the evidence, the task and the activity not.
* *Two detections in one millisecond* tie in the sort of
  `jsonRevenueLeakCaseRepository.js:477`; the wrong predecessor makes every later
  write of that opportunity fail the validation, against `REVENUE_LEAK_CASE.md:206`:
  `EvidenceNeverRefused` under `LeakCases.cfg`. `ChangedEvidenceAccepted` names this
  exception and allows no other.
* *Retry of a cancelled action.* The rollback to the savepoint
  (`repositories.js:606`) frees the locks taken since (after `:600`).
  Until they are taken again (`:625`) another request may cancel or reject the
  action, which is then returned as it is (`:632-635`), and the service still answers
  that the execution can be safely retried (`postgresRevenueActionService.js:66`,
  `:301`): `FailedCanBeRetried` under `PostgresActions.cfg`.
* *A runtime closed while its listen() is pending* keeps its listener and interval
  (`runtime.js:370`, `:403`). `startPilotRuntime` registers signals later and is
  not affected; hence `Embedded`.
* *Handlers after the pool.* `close()` waits for connections, not for handlers
  (`runtime.js:484-502`): when a client leaves, its request may still run when the
  pool ends, before any deadline (`ClientLeaves`). `PoolEndsLast` therefore speaks
  of the requests somebody still waits for.
* *Leak cases over PostgreSQL.* A detection that read its clock before another that
  was committed first fails on a CHECK constraint; a queue is refused as
  inconsistent when a case is detected after its clock reading; an answer in flight
  across a threshold is refused by the browser's own clock. All three are
  overtaken requests (`OvertakenOnly`), a retry is served.
* *Next action "unknown"*: none for the detector, one for deal intelligence, so the
  handoff of such a case is always answered INCOMPATIBLE.
* *Lifecycle over PostgreSQL.* Repeating prepare or approve on a finished action is
  an unmapped error; `updateTask` reads the status before it locks the task, so two
  completions are recorded; the replay of an executed CREATE_TASK is refused after
  a stage change.
* *Import workspace.* A POST retry answered `reconciled: true` is refused by the
  browser, a lookup then accepts it. The lookup compares only the total of rows, so
  the commit of another administrator is shown as one's own. After a reload a
  commit still in flight reads 404, and the new key then conflicts. An unknown
  preview outcome without batch id is a dead end. A target id of more than 512
  bytes is committed (`importCommit.js:142-145` bounds the source id only) and its
  answer refused as long as it shows the rows (`importContracts.mjs:632`). So is a
  file with a header and no rows: the server stages and commits it, the browser
  reads no result whose total is zero (`importContracts.mjs:589`). Both are
  exceptions that `AnswersAreReadable` names.
* *Imports.* One batch that cannot be scrubbed holds up the cleanup of the others;
  a drain that skips a locked batch says it is done; a lookup during the commit
  reads 404.
* *Access.* The answer of an invitation may be lost after it was created, and its
  token with it; an identity command whose COMMIT is lost reports a denial; the
  server's and the command's revocation lock in opposite orders, and PostgreSQL
  ends one.
* *Prospecting.* Live discovery imports a name that its adapter does not export and
  always throws; `salesEngine.handleReply` calls with another signature;
  `saveProspectList` writes `data/leads`. Not modelled.

## Not modelled

The notes of the components in `PROJECT.json` say what is left out of each. In
short: the migration runner (sequential under one lock), prospecting, scores,
forecasts and dashboards (stateless computations), experiments (append-only),
presentation. In the lifecycle over JSON: input validation, scores and wording,
recommendation types reached only through scores, torn files, a second process on
the data directory, activities that share a millisecond. Over PostgreSQL:
milestones in the lifecycle's transaction, RESEARCH and QUALIFY actions, rows the
JSON cutover could bring. Leak cases: evidence that clients send, over
PostgreSQL; surfaced, inspected and feedback events. Imports: tokenizing the CSV,
several target collections in one commit. Access: verification of tokens, expiry
of invitations. Runtime: configuration, router composition, a second listen() of
one runtime, a repeated signal.
