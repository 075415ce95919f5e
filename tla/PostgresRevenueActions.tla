----------------------- MODULE PostgresRevenueActions -----------------------
(***************************************************************************)
(* The RevenueAction lifecycle over PostgreSQL: every request is one       *)
(* transaction, requests of several clients run at once, and row locks are *)
(* all that orders them.                                                   *)
(*                                                                         *)
(* The variables opps .. activities hold what is committed.  `tx[c]' is    *)
(* the transaction of client c: the locks it holds and, in `put', the rows *)
(* it has written and nobody else sees yet.  One action is one statement   *)
(* that can wait for a lock or see what another transaction committed;     *)
(* statements in between, on rows this transaction has locked, are folded  *)
(* into it.  Commit installs `put' and frees the locks, Rollback drops     *)
(* both, and a COMMIT whose answer is lost may have done either.           *)
(*                                                                         *)
(* Abstractions.  As in RevenueActions a basis fingerprint is the record   *)
(* it is the hash of and ids are drawn in order.  The fields of an         *)
(* opportunity that only addContact and setValue change are one value of   *)
(* Facts, those qualification changes are one flag; RESEARCH and QUALIFY,  *)
(* internal tasks like ADVANCE, are left out.  A timestamp column is set   *)
(* or not                                                                 *)
(* (`stamps'), the audit is the sequence of its transitions: the clock     *)
(* that stamps both is taken not to run backwards.  No row comes from the  *)
(* planned JSON cutover, so no committed action is EXECUTING or owns part  *)
(* of its effects, and the branches that recover one are not reached.      *)
(***************************************************************************)
EXTENDS Integers, Sequences, FiniteSets

CONSTANTS
    Clients,         \* requests that can be under way at once
    Opportunities,   \* ids of the opportunities; each has one prospect
    Facts,           \* values of the other facts of an opportunity
    Stages,          \* stages a request may move an opportunity to
    Roles,           \* bound: which requests each client sends in a behaviour
    MaxActions, MaxTasks, MaxActivities, MaxAttempts, LastDay,  \* bounds
    Faults           \* bound: which faults happen

ActionIds == 1 .. MaxActions
TaskIds == 1 .. MaxTasks
ActivityIds == 1 .. MaxActivities
None == 0

ClosedStages == {"WON", "LOST"}

\* The title a CREATE_TASK recommendation proposes, the one a stage change
\* records, and none.
Titles == {"define", "stage"}
NoTitle == ""

Transitions == {"PREPARED", "APPROVED", "REJECTED", "CANCELLED"}
ActionOps == Transitions \cup {"execute"}
OpportunityOps == {"materialize", "stage", "value", "post", "task", "qualify"}
AllOps == ActionOps \cup OpportunityOps \cup {"patch"}

ASSUME PostgresAssumption ==
    /\ MaxActions \in Nat /\ MaxTasks \in Nat /\ MaxActivities \in Nat
    /\ MaxAttempts \in Nat /\ LastDay \in Nat
    /\ None \notin Opportunities /\ Facts # {}
    /\ Roles \subseteq [Clients -> SUBSET AllOps]
    /\ Faults \subseteq {"effect", "lostCommit", "error"}

VARIABLES
    opps,        \* tge.opportunities: stage, next action and other facts
    prospects,   \* tge.prospects: whether the prospect has been qualified
    actions,     \* tge.revenue_actions
    tasks,       \* tge.tasks
    activities,  \* tge.activities
    today,       \* the day now() falls on
    role,        \* per client, the requests it sends: one of Roles, for good
    tx           \* per client, its transaction

db == <<opps, prospects, actions, tasks, activities>>
env == <<today, role>>
vars == <<opps, prospects, actions, tasks, activities, today, role, tx>>

-----------------------------------------------------------------------------
(* Records                                                                 *)

NoBasis == [type |-> "none"]

NoAction == [opp |-> None, basis |-> NoBasis, status |-> "ABSENT", audit |-> <<>>,
             stamps |-> {}, attempts |-> 0, requested |-> FALSE,
             result |-> "none", task |-> None, activity |-> None]

NoTask == [opp |-> None, source |-> "none", type |-> "none", title |-> NoTitle,
           status |-> "ABSENT", link |-> None]

NoActivity == [opp |-> None, key |-> <<>>, day |-> 0, link |-> None, task |-> None]

Empty == [x \in {} |-> None]

NoPut == [opps |-> Empty, prospects |-> Empty, actions |-> Empty,
          tasks |-> Empty, activities |-> Empty]

Idle == [op |-> "none", on |-> None, step |-> "idle", locks |-> {}, put |-> NoPut,
         basis |-> NoBasis, queue |-> {}, seen |-> "none", answer |-> "none"]

ACTIVE_ACTION_STATUSES == {"RECOMMENDED", "PREPARED", "APPROVED", "EXECUTING", "FAILED"}

\* f over g: the rows a transaction wrote hide the ones committed.
Over(f, g) == [x \in DOMAIN g |-> IF x \in DOMAIN f THEN f[x] ELSE g[x]]

\* The rows f and row x besides.
With(f, x, row) == [y \in DOMAIN f \cup {x} |-> IF y = x THEN row ELSE f[y]]

-----------------------------------------------------------------------------
(* Row locks: FOR SHARE and FOR UPDATE, held until the transaction ends or  *)
(* rolls back to a savepoint set before them.                              *)

Lock(table, x, mode) == [row |-> <<table, x>>, mode |-> mode]

\* No other transaction holds the row in a mode that excludes this one.
Grantable(c, lock) ==
    \A d \in Clients \ {c} : \A k \in tx[d].locks :
        k.row = lock.row => k.mode = "share" /\ lock.mode = "share"

\* Client c gets the lock and goes on at step s.
Take(c, lock, s) ==
    /\ Grantable(c, lock)
    /\ tx' = [tx EXCEPT ![c].locks = @ \cup {lock}, ![c].step = s]

Opp(c) == IF tx[c].op \in ActionOps THEN actions[tx[c].on].opp
          ELSE IF tx[c].op = "patch" THEN tasks[tx[c].on].opp
          ELSE tx[c].on

\* Ids that neither a row nor an uncommitted row has, taken in order.
Unused(table, committed, pending(_)) ==
    {x \in table : x \notin committed /\ \A d \in Clients : x \notin DOMAIN pending(d)}

UnusedActions == LET pending(d) == tx[d].put.actions
                 IN  Unused(ActionIds, {a \in ActionIds : actions[a] # NoAction}, pending)
UnusedTasks == LET pending(d) == tx[d].put.tasks
               IN  Unused(TaskIds, {t \in TaskIds : tasks[t] # NoTask}, pending)
UnusedActivities == LET pending(d) == tx[d].put.activities
                    IN  Unused(ActivityIds, {v \in ActivityIds : activities[v] # NoActivity},
                               pending)

First(S) == CHOOSE x \in S : \A y \in S : x <= y

-----------------------------------------------------------------------------
(* Deal intelligence over the committed rows.                              *)

LatestActivity(o) ==
    LET shown == {v \in ActivityIds : activities[v].opp = o}
    IN  {v \in shown : \A u \in shown : u <= v}

Basis(o) ==
    LET latest == LatestActivity(o)
        type == IF opps[o].next = NoTitle THEN "CREATE_TASK"
                ELSE IF \A v \in latest : activities[v].day < today THEN "FOLLOW_UP"
                ELSE "ADVANCE"
    IN  [type |-> type, opp |-> opps[o], prospect |-> prospects[o], latest |-> latest,
         work |-> {<<t, tasks[t].status>> : t \in {u \in TaskIds : tasks[u].opp = o}},
         days |-> IF type = "FOLLOW_UP"
                  THEN {today - activities[v].day : v \in latest} ELSE {}]

Closed(o) == opps[o].stage \in ClosedStages

\* validateRevenueActionBasis: the opportunity still recommends this action.
IsCurrent(a) == ~Closed(actions[a].opp) /\ Basis(actions[a].opp) = actions[a].basis

IsCommunication(act) == act.basis.type = "FOLLOW_UP"

\* Mutant: the task takes the next action the opportunity has, even when none.
ProposedTitleRecorded(act) == act.basis.opp.next

ProposedTitle(act) ==
    IF act.basis.type = "CREATE_TASK" THEN "define" ELSE act.basis.opp.next

-----------------------------------------------------------------------------
(* validateStoredRevenueActionIntegrity: the lifecycle the audit tells is  *)
(* the one the other columns show.  A row that fails it is refused by      *)
(* every later request.                                                    *)

Cancelling == {"CANCELLED", "SUPERSEDED_BY_CURRENT_RECOMMENDATION",
               "SUPERSEDED_AS_STALE", "SUPERSEDED_OPPORTUNITY_CLOSED"}

AuditMove(s, t) ==
    IF /\ t \in Cancelling /\ s \notin {"EXECUTED", "REJECTED", "CANCELLED", "INVALID"}
    THEN "CANCELLED"
    ELSE IF \/ t = "PREPARED" /\ s = "RECOMMENDED"
            \/ t \in {"APPROVED", "REJECTED"} /\ s = "PREPARED"
            \/ t = "EXECUTED" /\ s \in {"EXECUTING", "FAILED"}
            \/ t = "FAILED" /\ s = "EXECUTING"
    THEN t
    ELSE IF t = "EXECUTION_STARTED" /\ s \in {"APPROVED", "FAILED"} THEN "EXECUTING"
    ELSE "INVALID"

\* The status after each entry of an audit.
AuditStates(audit) ==
    LET after[n \in 1 .. Len(audit)] ==
          IF n = 1
          THEN IF audit[1] = "CREATED_AS_RECOMMENDED" THEN "RECOMMENDED" ELSE "INVALID"
          ELSE AuditMove(after[n - 1], audit[n])
    IN  after

Recorded(audit) == {audit[n] : n \in DOMAIN audit}

Starts(audit) == Cardinality({n \in DOMAIN audit : audit[n] = "EXECUTION_STARTED"})

NoExecution(act) ==
    /\ ~act.requested /\ act.result = "none" /\ act.attempts = 0
    /\ act.task = None /\ act.activity = None

\* The columns that go with a status other than CANCELLED.
StatusTruth(act, status) ==
    CASE status \in {"RECOMMENDED", "PREPARED", "APPROVED", "REJECTED"} -> NoExecution(act)
      [] status = "EXECUTING" -> /\ act.requested /\ act.result = "none"
                                 /\ act.attempts >= 1
      [] status = "FAILED" -> act.requested /\ act.result = "FAILED" /\ act.attempts >= 1
      [] status = "EXECUTED" ->
            /\ act.requested /\ act.attempts >= 1 /\ act.activity # None
            /\ IF IsCommunication(act)
               THEN act.task = None /\ act.result = "USER_CONFIRMED_COMPLETION"
               ELSE act.task # None /\ act.result \in {"TASK_CREATED", "TASK_REUSED"}
      [] OTHER -> FALSE

LifecycleTruth(act) ==
    LET states == AuditStates(act.audit)
        n == Len(act.audit)
        from == IF act.status = "CANCELLED" /\ n > 1 THEN states[n - 1] ELSE act.status
    IN  /\ n > 0 /\ states[n] = act.status
        /\ act.attempts = Starts(act.audit)
        /\ act.stamps =
             {s \in {"PREPARED", "APPROVED", "REJECTED", "EXECUTED"} : s \in Recorded(act.audit)}
             \cup (IF act.status = "CANCELLED" THEN {"CANCELLED"} ELSE {})
             \cup (IF from = "FAILED" THEN {"FAILED"} ELSE {})
        /\ StatusTruth(act, from)

-----------------------------------------------------------------------------
(* Beginning and ending a transaction (withTenantTransaction)              *)

Init ==
    /\ opps \in [Opportunities -> [stage : {"NEW"}, next : {NoTitle, "stage"},
                                   facts : {CHOOSE f \in Facts : TRUE}]]
    /\ prospects = [o \in Opportunities |-> FALSE]
    /\ actions = [a \in ActionIds |-> NoAction]
    /\ tasks = [t \in TaskIds |-> NoTask]
    /\ activities = [v \in ActivityIds |-> NoActivity]
    /\ today = 0
    /\ role \in Roles
    /\ tx = [c \in Clients |-> Idle]

\* BEGIN, and the reads that take no lock: the opportunity of an action, which
\* never changes, and of a task with the status the task has now.
Begin(c, op, on, seen) ==
    /\ tx[c].step = "idle"
    /\ op \in role[c]
    /\ tx' = [tx EXCEPT ![c] = [Idle EXCEPT !.op = op, !.on = on, !.seen = seen,
                                !.step = IF op = "qualify" THEN "prospect" ELSE "opp"]]
    /\ UNCHANGED <<db, env>>

BeginOnAction(c, op, a) ==
    /\ op \in ActionOps
    /\ actions[a].status # "ABSENT"
    /\ op = "execute" => UnusedActivities # {} /\ actions[a].attempts < MaxAttempts
    /\ Begin(c, op, a, "none")

BeginOnOpportunity(c, op, o) ==
    /\ op \in OpportunityOps
    /\ op = "materialize" => UnusedActions # {}
    /\ op \in {"stage", "value", "post", "task"} => UnusedActivities # {}
    /\ Begin(c, op, o, "none")

BeginOnTask(c, t) ==
    /\ tasks[t] # NoTask
    /\ UnusedActivities # {}
    /\ Begin(c, "patch", t, tasks[t].status)

\* Mutant: the connection goes back to the pool without its ROLLBACK.
AnsweredUnreleased(c, answer) ==
    tx' = [tx EXCEPT ![c] = [Idle EXCEPT !.answer = answer, !.locks = tx[c].locks]]

\* The request of client c ends and tells it `answer'.
Answered(c, answer) == tx' = [tx EXCEPT ![c] = [Idle EXCEPT !.answer = answer]]

\* What client c wrote becomes the committed rows.
Install(c) ==
    LET put == tx[c].put
    IN  /\ opps' = Over(put.opps, opps)
        /\ prospects' = Over(put.prospects, prospects)
        /\ actions' = Over(put.actions, actions)
        /\ tasks' = Over(put.tasks, tasks)
        /\ activities' = Over(put.activities, activities)

\* Mutant: the failure of COMMIT is reported like any other failure.
CommitLostAsError(c) ==
    /\ "lostCommit" \in Faults
    /\ tx[c].step = "commit"
    /\ Install(c) \/ UNCHANGED db
    /\ Answered(c, "error")
    /\ UNCHANGED env

\* COMMIT, confirmed.
Commit(c) ==
    /\ tx[c].step = "commit"
    /\ Install(c)
    /\ Answered(c, tx[c].answer)
    /\ UNCHANGED env

\* COMMIT fails on the way: PostgreSQL may have taken it or not.
CommitLost(c) ==
    /\ "lostCommit" \in Faults
    /\ tx[c].step = "commit"
    /\ Install(c) \/ UNCHANGED db
    /\ Answered(c, "unknown")
    /\ UNCHANGED env

Rollback(c, answer) ==
    /\ Answered(c, answer)
    /\ UNCHANGED <<db, env>>

\* Any statement may fail, and the transaction with it.
Fail(c) ==
    /\ "error" \in Faults
    /\ tx[c].step # "idle"
    /\ Rollback(c, "error")

\* The work of client c is done: it will commit `put' and then answer.
Ready(c, put, answer) ==
    /\ tx' = [tx EXCEPT ![c].put = put, ![c].step = "commit", ![c].answer = answer]
    /\ UNCHANGED <<db, env>>

PutAction(c, a, act) == [tx[c].put EXCEPT !.actions = With(@, a, act)]

-----------------------------------------------------------------------------
(* Locks every request on an opportunity takes first.                      *)

\* Materializations of one opportunity may share it, everything else may not.
OpportunityLock(c) ==
    Lock("opp", Opp(c), IF tx[c].op = "materialize" THEN "share" ELSE "update")

LockOpportunity(c) ==
    /\ tx[c].step = "opp"
    /\ Take(c, OpportunityLock(c),
            IF tx[c].op \in ActionOps THEN "action"
            ELSE IF tx[c].op = "materialize" THEN "evidence" ELSE "work")
    /\ UNCHANGED <<db, env>>

\* Mutant: the prospect is read without a lock.
ProspectLockNone(c) == Lock("none", Opp(c), "share")

ProspectLock(c) == Lock("prospect", Opp(c), "share")

-----------------------------------------------------------------------------
(* transitionRevenueAction                                                 *)

\* Mutant: an action that nobody prepared may be approved.
LIFECYCLE_TRANSITIONSUnprepared ==
    [RECOMMENDED |-> {"PREPARED", "APPROVED", "CANCELLED"},
     PREPARED |-> {"APPROVED", "REJECTED", "CANCELLED"}]

LIFECYCLE_TRANSITIONS ==
    [RECOMMENDED |-> {"PREPARED", "CANCELLED"},
     PREPARED |-> {"APPROVED", "REJECTED", "CANCELLED"}]

MayMove(from, to) ==
    from \in DOMAIN LIFECYCLE_TRANSITIONS /\ to \in LIFECYCLE_TRANSITIONS[from]

Audited(act, entry) == [act EXCEPT !.audit = Append(@, entry)]

Moved(act, to) ==
    [Audited(act, to) EXCEPT !.status = to, !.stamps = @ \cup {to}]

Cancelled(act, entry) ==
    [Audited(act, entry) EXCEPT !.status = "CANCELLED", !.stamps = @ \cup {"CANCELLED"}]

\* lockRevenueActionAndOpportunity, and the integrity of the row it returns.
LockAction(c) ==
    /\ tx[c].step = "action"
    /\ IF LifecycleTruth(actions[tx[c].on])
       THEN Take(c, Lock("action", tx[c].on, "update"),
                 IF tx[c].op \in {"PREPARED", "APPROVED"} THEN "evidence" ELSE "decide")
       ELSE Grantable(c, Lock("action", tx[c].on, "update")) /\ Rollback(c, "refused")
    /\ UNCHANGED <<db, env>>

\* Rejection and cancellation look at the status alone.
DecideTransition(c) ==
    LET a == tx[c].on  act == actions[a]  to == tx[c].op
    IN  /\ tx[c].step = "decide"
        /\ to \in {"REJECTED", "CANCELLED"}
        /\ IF act.status = to THEN Ready(c, tx[c].put, "duplicate")
           ELSE IF MayMove(act.status, to)
                THEN Ready(c, PutAction(c, a, Moved(act, to)), "done")
           ELSE Rollback(c, "refused")

\* The trigger guard_runtime_revenue_action refuses to change a terminal row.
Terminal == {"EXECUTED", "REJECTED", "CANCELLED"}

\* The evidence changed: the action is cancelled whatever its status, and the
\* trigger turns that into an error when the status is terminal.
Supersede(c, a) ==
    LET act == actions[a]
    IN  IF act.status \in Terminal THEN Rollback(c, "error")
        ELSE Ready(c, PutAction(c, a,
                   Cancelled(act, IF Closed(act.opp) THEN "SUPERSEDED_OPPORTUNITY_CLOSED"
                                  ELSE "SUPERSEDED_AS_STALE")), "superseded")

\* Preparation and approval, and replays of either, compare the evidence first.
TransitionOnEvidence(c) ==
    LET a == tx[c].on  act == actions[a]  to == tx[c].op
    IN  /\ tx[c].step = "evidence"
        /\ to \in {"PREPARED", "APPROVED"}
        /\ Grantable(c, ProspectLock(c))
        /\ IF ~IsCurrent(a) THEN Supersede(c, a)
           ELSE IF act.status = to THEN Ready(c, tx[c].put, "duplicate")
           ELSE IF MayMove(act.status, to)
                THEN Ready(c, PutAction(c, a, Moved(act, to)), "done")
           ELSE Rollback(c, "refused")

-----------------------------------------------------------------------------
(* materializeRevenueAction                                                *)

ActiveActions(o) ==
    {a \in ActionIds : actions[a].opp = o /\ actions[a].status \in ACTIVE_ACTION_STATUSES}

\* Reads the evidence of an open opportunity and keeps the prospect locked.
ReadEvidence(c) ==
    LET o == tx[c].on
    IN  /\ tx[c].step = "evidence"
        /\ tx[c].op = "materialize"
        /\ IF Closed(o) THEN Rollback(c, "refused")
           ELSE /\ Grantable(c, ProspectLock(c))
                /\ tx' = [tx EXCEPT ![c].locks = @ \cup {ProspectLock(c)},
                                    ![c].basis = Basis(o), ![c].step = "snapshot"]
                /\ UNCHANGED <<db, env>>

\* The statement that locks the active actions sees the ones active now.
SelectActive(c) ==
    /\ tx[c].step = "snapshot"
    /\ tx' = [tx EXCEPT ![c].queue = ActiveActions(tx[c].on), ![c].step = "active"]
    /\ UNCHANGED <<db, env>>

\* It locks them in the order of their ids; one that is not active any more when
\* its lock is granted is passed over.
LockNextActive(c) ==
    LET a == First(tx[c].queue)
        lock == Lock("action", a, "update")
    IN  /\ tx[c].step = "active"
        /\ tx[c].queue # {}
        /\ Grantable(c, lock)
        /\ tx' = [tx EXCEPT ![c].queue = @ \ {a}, ![c].locks = @ \cup {lock}]
        /\ UNCHANGED <<db, env>>

\* Mutant: what was active before the wait for the lock counts as active.
LockedActiveUnchecked(c) ==
    {a \in ActionIds : /\ actions[a].opp = tx[c].on
                      /\ Lock("action", a, "update") \in tx[c].locks}

\* The active actions whose rows client c has locked.
LockedActive(c) ==
    {a \in ActiveActions(tx[c].on) : Lock("action", a, "update") \in tx[c].locks}

RecoveryRequired(act) ==
    act.status \in {"EXECUTING", "FAILED"} /\ (act.task # None \/ act.activity # None)

\* Mutant: the actions a newer recommendation replaces stay active.
SupersededNone(c) == {}

\* Active actions that are not the recommendation just read.
Superseded(c) == {a \in LockedActive(c) : actions[a].basis # tx[c].basis}

\* Cancels what the recommendation replaces; the same recommendation is kept.
SupersedeActive(c) ==
    LET same == LockedActive(c) \ Superseded(c)
        cancelled == [a \in Superseded(c) |->
                        Cancelled(actions[a], "SUPERSEDED_BY_CURRENT_RECOMMENDATION")]
    IN  /\ tx[c].step = "active"
        /\ tx[c].queue = {}
        /\ IF \E a \in LockedActive(c) : RecoveryRequired(actions[a])
           THEN Rollback(c, "refused")
           ELSE IF same # {}
           THEN Ready(c, [tx[c].put EXCEPT !.actions = cancelled], "duplicate")
           ELSE /\ tx' = [tx EXCEPT ![c].put.actions = cancelled, ![c].step = "insert"]
                /\ UNCHANGED <<db, env>>

\* The unique index revenue_actions_active_identity_uidx: actions that carry the
\* recommendation of client c and are active.
SameIdentity(c) == {a \in ActiveActions(tx[c].on) : actions[a].basis = tx[c].basis}

\* An uncommitted row of another transaction decides whether the index is hit.
IdentityInDoubt(c) ==
    \E d \in Clients \ {c} : \E a \in DOMAIN tx[d].put.actions :
        /\ tx[d].put.actions[a].opp = tx[c].on
        /\ tx[d].put.actions[a].basis = tx[c].basis

\* Mutant: the insert looks neither at uncommitted rows nor at the index.
InsertUnchecked(c) ==
    LET a == First(UnusedActions)
    IN  /\ tx[c].step = "insert" /\ UnusedActions # {}
        /\ Ready(c, PutAction(c, a,
              [NoAction EXCEPT !.opp = tx[c].on, !.basis = tx[c].basis,
                               !.status = "RECOMMENDED",
                               !.audit = <<"CREATED_AS_RECOMMENDED">>]), "done")

\* INSERT ... ON CONFLICT ... DO NOTHING waits for whoever may hit the index.
Insert(c) ==
    LET a == First(UnusedActions)
    IN  /\ tx[c].step = "insert"
        /\ ~IdentityInDoubt(c)
        /\ SameIdentity(c) # {} \/ UnusedActions # {}
        /\ IF SameIdentity(c) = {}
           THEN Ready(c, PutAction(c, a,
                   [NoAction EXCEPT !.opp = tx[c].on, !.basis = tx[c].basis,
                                    !.status = "RECOMMENDED",
                                    !.audit = <<"CREATED_AS_RECOMMENDED">>]), "done")
           ELSE /\ tx' = [tx EXCEPT ![c].queue = SameIdentity(c), ![c].step = "existing"]
                /\ UNCHANGED <<db, env>>

\* The insert did nothing: the row it met is locked and returned, unless it is
\* not active any more once the lock is granted.
LockExisting(c) ==
    LET a == First(tx[c].queue)
        lock == Lock("action", a, "update")
    IN  /\ tx[c].step = "existing"
        /\ Grantable(c, lock)
        /\ IF actions[a].status \in ACTIVE_ACTION_STATUSES
           THEN /\ tx' = [tx EXCEPT ![c].locks = @ \cup {lock}, ![c].step = "commit",
                                    ![c].answer = "duplicate"]
                /\ UNCHANGED <<db, env>>
           ELSE Rollback(c, "refused")

-----------------------------------------------------------------------------
(* executeRevenueActionAtomic                                              *)

LinkedTasks(a) == {t \in TaskIds : tasks[t].link = a}
LinkedActivities(a) == {v \in ActivityIds : activities[v].link = a}

\* inspectExecutionEffects of an executed action: the effects the row names are
\* there, and the opportunity still shows the next action they set.
EffectsInPlace(a) ==
    LET act == actions[a]
    IN  /\ LinkedActivities(a) = {act.activity}
        /\ LinkedTasks(a) = {act.task} \ {None}
        /\ act.basis.type = "CREATE_TASK" =>
              \A t \in LinkedTasks(a) : opps[act.opp].next = tasks[t].title

\* An executed action is answered as a duplicate when its effects are in place;
\* only an approved action, or one whose execution failed, goes on.
DecideExecution(c) ==
    LET act == actions[tx[c].on]
    IN  /\ tx[c].step = "decide"
        /\ tx[c].op = "execute"
        /\ IF act.status = "EXECUTED" /\ EffectsInPlace(tx[c].on)
           THEN Ready(c, tx[c].put, "duplicate")
           ELSE IF \/ act.status \notin {"APPROVED", "FAILED"}
                   \/ LinkedTasks(tx[c].on) # {} \/ LinkedActivities(tx[c].on) # {}
           THEN Rollback(c, "refused")
           ELSE /\ tx' = [tx EXCEPT ![c].step = "evidence"]
                /\ UNCHANGED <<db, env>>

\* Mutant: an action once approved is executed on whatever the evidence is now.
ExecuteUnvalidated(c) ==
    /\ tx[c].step = "evidence"
    /\ tx[c].op = "execute"
    /\ Take(c, ProspectLock(c), "effects")
    /\ UNCHANGED <<db, env>>

ExecuteOnEvidence(c) ==
    LET a == tx[c].on
    IN  /\ tx[c].step = "evidence"
        /\ tx[c].op = "execute"
        /\ IF IsCurrent(a)
           THEN Take(c, ProspectLock(c), "effects") /\ UNCHANGED <<db, env>>
           ELSE Grantable(c, ProspectLock(c)) /\ Supersede(c, a)

Started(act) ==
    [Audited(act, "EXECUTION_STARTED") EXCEPT
        !.status = "EXECUTING", !.requested = TRUE, !.result = "none",
        !.attempts = @ + 1, !.stamps = @ \ {"FAILED"}]

\* Open deal-intelligence tasks that do what the action proposes.
EquivalentTasks(act) ==
    {t \in TaskIds :
        /\ tasks[t].opp = act.opp /\ tasks[t].link = None
        /\ tasks[t].status = "OPEN" /\ tasks[t].source = "deal_intelligence"
        /\ tasks[t].type = act.basis.type /\ tasks[t].title = ProposedTitle(act)}

\* persistInternalTask: the task the execution links, reused or new.
TaskOf(act) ==
    IF EquivalentTasks(act) # {} THEN First(EquivalentTasks(act)) ELSE First(UnusedTasks)

TaskRow(act, a) ==
    IF EquivalentTasks(act) # {}
    THEN [tasks[TaskOf(act)] EXCEPT !.link = a]
    ELSE [opp |-> act.opp, source |-> "revenue_action", type |-> act.basis.type,
          title |-> ProposedTitle(act), status |-> "OPEN", link |-> a]

Executed(act, t, v) ==
    [Audited(act, "EXECUTED") EXCEPT
        !.status = "EXECUTED", !.stamps = (@ \ {"FAILED"}) \cup {"EXECUTED"},
        !.task = t, !.activity = v,
        !.result = IF t = None THEN "USER_CONFIRMED_COMPLETION"
                   ELSE IF EquivalentTasks(act) # {} THEN "TASK_REUSED"
                   ELSE "TASK_CREATED"]

\* persistExecutionActivity: what records the effect names its action and task.
EffectActivity(act, a, t) ==
    [NoActivity EXCEPT !.opp = act.opp, !.key = <<"effect">>, !.day = today,
                       !.link = a, !.task = t]

\* The rows of an execution after its first n statements: start, task, activity,
\* next action, and the final status.
ExecutionRows(c, n) ==
    LET a == tx[c].on
        act == Started(actions[a])
        internal == ~IsCommunication(act)
        t == IF internal THEN TaskOf(act) ELSE None
        v == First(UnusedActivities)
        opp == [opps[act.opp] EXCEPT !.next = ProposedTitle(act)]
    IN  [opps |-> IF n >= 4 /\ act.basis.type = "CREATE_TASK"
                  THEN [o \in {act.opp} |-> opp] ELSE Empty,
         prospects |-> Empty,
         actions |-> [b \in {a} |-> IF n >= 5 THEN Executed(act, t, v) ELSE act],
         tasks |-> IF n >= 2 /\ internal THEN [u \in {t} |-> TaskRow(act, a)] ELSE Empty,
         activities |-> IF n >= 3 THEN [w \in {v} |-> EffectActivity(act, a, t)]
                       ELSE Empty]

\* Bound: there are ids for the rows an execution inserts.
RoomForEffects(act) ==
    /\ UnusedActivities # {}
    /\ IsCommunication(act) \/ EquivalentTasks(act) # {} \/ UnusedTasks # {}

ExecuteEffects(c) ==
    /\ tx[c].step = "effects"
    /\ RoomForEffects(actions[tx[c].on])
    /\ Ready(c, ExecutionRows(c, 5), "done")

MarkedFailed(act) ==
    LET started == IF act.status = "EXECUTING" THEN act ELSE Started(act)
    IN  [Audited(started, "FAILED") EXCEPT
            !.status = "FAILED", !.result = "FAILED", !.stamps = @ \cup {"FAILED"}]

\* ROLLBACK TO SAVEPOINT undoes the rows written since the savepoint and frees the
\* locks taken since then: the service only looked at the action before it, so
\* these are all the rows and all the locks of the transaction.
RollbackToSavepoint(t) == [t EXCEPT !.locks = {}, !.put = NoPut]

\* A statement of the attempt fails, after n others: the attempt is undone.
EffectFails(c) ==
    /\ "effect" \in Faults
    /\ tx[c].step = "effects"
    /\ RoomForEffects(actions[tx[c].on])
    /\ \E n \in 0 .. 4 :
         tx' = [tx EXCEPT ![c] = [RollbackToSavepoint([tx[c] EXCEPT !.put = ExecutionRows(c, n)])
                                    EXCEPT !.step = "undone"]]
    /\ UNCHANGED <<db, env>>

\* markExecutionFailed locks both rows again, and others may have come first.
RelockOpportunity(c) ==
    /\ tx[c].step = "undone"
    /\ Take(c, Lock("opp", Opp(c), "update"), "relock")
    /\ UNCHANGED <<db, env>>

RelockAction(c) ==
    /\ tx[c].step = "relock"
    /\ Take(c, Lock("action", tx[c].on, "update"), "marking")
    /\ UNCHANGED <<db, env>>

\* Mutant: the failure is recorded whatever became of the action meanwhile.
MarkExecutionFailedUnchecked(c) ==
    LET a == tx[c].on
    IN  /\ tx[c].step = "marking"
        /\ Ready(c, PutAction(c, a, MarkedFailed(actions[a])), "failed")

\* The attempt is recorded as failed, unless another request executed, rejected or
\* cancelled the action: the answer is the same for both.
MarkExecutionFailed(c) ==
    LET a == tx[c].on
    IN  /\ tx[c].step = "marking"
        /\ Ready(c, IF actions[a].status \in {"APPROVED", "EXECUTING", "FAILED"}
                    THEN PutAction(c, a, MarkedFailed(actions[a])) ELSE tx[c].put,
                 "failed")

-----------------------------------------------------------------------------
(* The requests of the core service: they hold the opportunity for update. *)

ActivityRow(o, key) == [NoActivity EXCEPT !.opp = o, !.key = key, !.day = today]

\* createActivityOnce: nothing is added when the key is already there.
ActivityOnce(o, key) ==
    IF \E v \in ActivityIds : activities[v].opp = o /\ activities[v].key = key
    THEN Empty
    ELSE [v \in {First(UnusedActivities)} |-> ActivityRow(o, key)]

NewActivity(o, key) == [v \in {First(UnusedActivities)} |-> ActivityRow(o, key)]

UpdateStage(c) ==
    /\ tx[c].step = "work" /\ tx[c].op = "stage" /\ UnusedActivities # {}
    /\ \E s \in Stages :
         LET o == tx[c].on
         IN  Ready(c, [NoPut EXCEPT
                !.opps = [p \in {o} |-> [opps[o] EXCEPT !.stage = s, !.next = "stage"]],
                !.activities = NewActivity(o, <<"stage">>)], "done")

\* setValue and addContact: the fact, when it changes, and its activity once.
SetFact(c) ==
    /\ tx[c].step = "work" /\ tx[c].op = "value" /\ UnusedActivities # {}
    /\ \E f \in Facts :
         LET o == tx[c].on
         IN  Ready(c, [NoPut EXCEPT
                !.opps = IF opps[o].facts = f THEN Empty
                         ELSE [p \in {o} |-> [opps[o] EXCEPT !.facts = f]],
                !.activities = ActivityOnce(o, <<"value", f>>)], "done")

\* Unfinished tasks with the proposed title that were asked for as one of the types.
SameTasks(o, types) ==
    {t \in TaskIds : /\ tasks[t].opp = o /\ tasks[t].title = "define"
                    /\ tasks[t].status # "COMPLETED" /\ tasks[t].type \in types}

\* createTask, of the title a recommendation may propose too.
CreateTask(c) ==
    LET o == tx[c].on
        task == [NoTask EXCEPT !.opp = o, !.source = "user", !.title = "define",
                               !.status = "OPEN"]
    IN  /\ tx[c].step = "work" /\ tx[c].op = "post"
        /\ UnusedTasks # {} /\ UnusedActivities # {}
        /\ IF SameTasks(o, {"none"}) # {} THEN Ready(c, NoPut, "duplicate")
           ELSE Ready(c, [NoPut EXCEPT
                   !.tasks = [t \in {First(UnusedTasks)} |-> task],
                   !.activities = NewActivity(o, <<"post">>)], "done")

\* createIntelligenceTask for the task a CREATE_TASK recommendation proposes: an
\* unfinished one of that title serves, and becomes the next action.
CreateIntelligenceTask(c) ==
    LET o == tx[c].on
        same == SameTasks(o, {"none", "CREATE_TASK"})
        task == [NoTask EXCEPT !.opp = o, !.source = "deal_intelligence",
                               !.type = "CREATE_TASK", !.title = "define",
                               !.status = "OPEN"]
    IN  /\ tx[c].step = "work" /\ tx[c].op = "task"
        /\ UnusedActivities # {} /\ (same # {} \/ UnusedTasks # {})
        /\ Ready(c, [NoPut EXCEPT
              !.tasks = IF same # {} THEN Empty
                        ELSE [t \in {First(UnusedTasks)} |-> task],
              !.opps = IF opps[o].next = "define" THEN Empty
                       ELSE [p \in {o} |-> [opps[o] EXCEPT !.next = "define"]],
              !.activities = ActivityOnce(o, <<"task">>)], "done")

\* updateTask: the status is compared with the one read before the lock, so two
\* completions under way at once are both recorded.
UpdateTask(c) ==
    /\ tx[c].step = "work" /\ tx[c].op = "patch" /\ UnusedActivities # {}
    /\ \E s \in {"OPEN", "COMPLETED"} :
         LET t == tx[c].on
         IN  Ready(c, [NoPut EXCEPT
                !.tasks = [u \in {t} |-> [tasks[t] EXCEPT !.status = s]],
                !.activities = IF s = tx[c].seen THEN Empty
                               ELSE NewActivity(tasks[t].opp, <<"status">>)], "done")

\* qualifyProspect locks the prospect and nothing else.
QualifyProspect(c) ==
    /\ tx[c].step = "prospect"
    /\ Grantable(c, Lock("prospect", tx[c].on, "update"))
    /\ tx' = [tx EXCEPT ![c].locks = {Lock("prospect", tx[c].on, "update")},
                        ![c].put.prospects = [o \in {tx[c].on} |-> TRUE],
                        ![c].step = "commit", ![c].answer = "done"]
    /\ UNCHANGED <<db, env>>

\* Bound: a request that finds no id for the rows it inserts is given up.
GivenUp(c) ==
    /\ \/ tx[c].step = "insert" /\ UnusedActions = {} /\ SameIdentity(c) = {}
       \/ tx[c].step = "effects" /\ ~RoomForEffects(actions[tx[c].on])
       \/ tx[c].step = "work" /\ (UnusedTasks = {} \/ UnusedActivities = {})
    /\ Rollback(c, "error")

NextDay ==
    /\ today < LastDay
    /\ today' = today + 1
    /\ UNCHANGED <<db, role, tx>>

-----------------------------------------------------------------------------
Request(c) ==
    \/ \E op \in ActionOps, a \in ActionIds : BeginOnAction(c, op, a)
    \/ \E op \in OpportunityOps, o \in Opportunities : BeginOnOpportunity(c, op, o)
    \/ \E t \in TaskIds : BeginOnTask(c, t)

\* Statements that may have to wait for a lock.
Acquire(c) ==
    \/ LockOpportunity(c) \/ LockAction(c) \/ LockNextActive(c) \/ LockExisting(c)
    \/ TransitionOnEvidence(c) \/ ReadEvidence(c) \/ ExecuteOnEvidence(c)
    \/ Insert(c) \/ QualifyProspect(c) \/ RelockOpportunity(c) \/ RelockAction(c)

Work(c) ==
    \/ DecideTransition(c) \/ SelectActive(c) \/ SupersedeActive(c)
    \/ DecideExecution(c) \/ ExecuteEffects(c) \/ MarkExecutionFailed(c)
    \/ UpdateStage(c) \/ SetFact(c)
    \/ CreateTask(c) \/ CreateIntelligenceTask(c) \/ UpdateTask(c)
    \/ Commit(c) \/ GivenUp(c)

Fault(c) == EffectFails(c) \/ CommitLost(c) \/ Fail(c)

Next ==
    \/ \E c \in Clients : Request(c) \/ Acquire(c) \/ Work(c) \/ Fault(c)
    \/ NextDay

Spec == Init /\ [][Next]_vars

-----------------------------------------------------------------------------
(* Properties                                                              *)

Entries == Cancelling \cup {"CREATED_AS_RECOMMENDED", "PREPARED", "APPROVED", "REJECTED",
                            "EXECUTION_STARTED", "EXECUTED", "FAILED"}
OpportunityRows == [stage : Stages \cup {"NEW"}, next : Titles \cup {NoTitle}, facts : Facts]
Bases == [type : {"CREATE_TASK", "FOLLOW_UP", "ADVANCE"}, opp : OpportunityRows,
          prospect : BOOLEAN, latest : SUBSET ActivityIds,
          work : SUBSET (TaskIds \X {"OPEN", "COMPLETED"}), days : SUBSET (0 .. LastDay)]
ActionRows ==
    [opp : Opportunities, basis : Bases,
     status : ACTIVE_ACTION_STATUSES \cup Terminal, audit : Seq(Entries),
     stamps : SUBSET {"PREPARED", "APPROVED", "REJECTED", "CANCELLED", "FAILED", "EXECUTED"},
     attempts : Nat, requested : BOOLEAN,
     result : {"none", "FAILED", "USER_CONFIRMED_COMPLETION", "TASK_CREATED", "TASK_REUSED"},
     task : TaskIds \cup {None}, activity : ActivityIds \cup {None}]
TaskRows == [opp : Opportunities, source : {"revenue_action", "deal_intelligence", "user"},
             type : {"CREATE_TASK", "ADVANCE", "none"}, title : Titles,
             status : {"OPEN", "COMPLETED"}, link : ActionIds \cup {None}]
Keys == {<<"effect">>, <<"stage">>, <<"status">>, <<"post">>, <<"task">>} \cup ({"value"} \X Facts)
ActivityRows == [opp : Opportunities, key : Keys, day : 0 .. LastDay,
                 link : ActionIds \cup {None}, task : TaskIds \cup {None}]

\* The rows f, some of those named in S, have their shape.
Written(f, S, R) == DOMAIN f \subseteq S /\ \A x \in DOMAIN f : f[x] \in R
Locks == [row : {"opp", "prospect"} \X Opportunities \cup {"action"} \X ActionIds,
          mode : {"share", "update"}]
Steps == {"idle", "opp", "prospect", "action", "decide", "evidence", "snapshot", "active",
          "insert", "existing", "effects", "undone", "relock", "marking", "work", "commit"}
Answers == {"none", "done", "duplicate", "refused", "failed", "superseded", "error",
            "unknown"}

TransactionType(t) ==
    /\ t = [op |-> t.op, on |-> t.on, step |-> t.step, locks |-> t.locks, put |-> t.put,
            basis |-> t.basis, queue |-> t.queue, seen |-> t.seen, answer |-> t.answer]
    /\ t.op \in AllOps \cup {"none"} /\ t.step \in Steps /\ t.answer \in Answers
    /\ t.locks \subseteq Locks
    /\ t.basis \in Bases \cup {NoBasis}
    /\ t.queue \subseteq ActionIds
    /\ t.seen \in {"none", "OPEN", "COMPLETED"}
    /\ Written(t.put.opps, Opportunities, OpportunityRows)
    /\ Written(t.put.prospects, Opportunities, BOOLEAN)
    /\ Written(t.put.actions, ActionIds, ActionRows)
    /\ Written(t.put.tasks, TaskIds, TaskRows)
    /\ Written(t.put.activities, ActivityIds, ActivityRows)

\* Committed and uncommitted rows keep their shape.
TypeOK ==
    /\ opps \in [Opportunities -> OpportunityRows]
    /\ prospects \in [Opportunities -> BOOLEAN]
    /\ actions \in [ActionIds -> ActionRows \cup {NoAction}]
    /\ tasks \in [TaskIds -> TaskRows \cup {NoTask}]
    /\ activities \in [ActivityIds -> ActivityRows \cup {NoActivity}]
    /\ today \in 0 .. LastDay /\ role \in Roles
    /\ DOMAIN tx = Clients
    /\ \A c \in Clients : TransactionType(tx[c])

\* Two requests that materialize the same recommendation at once, sharing the
\* opportunity, end up with one active action between them.
OneActivePerIdentity ==
    \A o \in Opportunities : \A a, b \in ActiveActions(o) :
        actions[a].basis = actions[b].basis => a = b

\* Whatever was interrupted, retried or run at the same time, the committed rows
\* show an action's task and activity exactly when they show it executed.
EffectsIffExecuted ==
    \A a \in ActionIds :
        /\ actions[a].status # "EXECUTING"
        /\ IF actions[a].status = "EXECUTED"
           THEN /\ LinkedActivities(a) = {actions[a].activity}
                /\ LinkedTasks(a) = {actions[a].task} \ {None}
           ELSE LinkedActivities(a) = {} /\ LinkedTasks(a) = {}

\* No sequence of concurrent requests, failures and retries commits an action
\* that the integrity check of its next request would refuse.
StoredIntegrity == \A a \in ActionIds : actions[a] = NoAction \/ LifecycleTruth(actions[a])

\* A transaction that executes an action commits while the rows the human
\* approved it on are still the committed ones: no CRM request slips in between.
SameRecords(a) ==
    LET basis == actions[a].basis  now == Basis(actions[a].opp)
    IN  /\ basis.opp = now.opp /\ basis.prospect = now.prospect
        /\ basis.latest = now.latest /\ basis.work = now.work
EffectsOnCurrentRecords ==
    [][\A a \in ActionIds :
         actions[a].status # "EXECUTED" /\ actions'[a].status = "EXECUTED"
            => SameRecords(a)]_vars

\* A row once executed, rejected or cancelled never changes again, although a
\* request that waited for its lock decided to change it before.
TerminalRowsAreFinal ==
    [][\A a \in ActionIds : actions[a].status \in Terminal => actions'[a] = actions[a]]_vars

\* What the ending request of client c is told, of the rows it leaves.
Told(c, answer) ==
    LET a == tx[c].on
        op == tx[c].op
    IN  /\ answer \in {"refused", "error"} => db' = db
        /\ answer \in {"done", "duplicate"} =>
             /\ op \in Transitions => actions'[a].status = op
             /\ op = "execute" => /\ actions'[a].status = "EXECUTED"
                                  /\ \E v \in ActivityIds : activities'[v].link = a
             /\ op = "materialize" =>
                  \E b \in ActionIds : /\ actions'[b].opp = a
                                       /\ actions'[b].basis = tx[c].basis
                                       /\ actions'[b].status \in ACTIVE_ACTION_STATUSES
        /\ answer = "failed" => \/ actions'[a].status = "FAILED"
                                \/ actions[a].status \in Terminal /\ db' = db
        /\ answer = "superseded" => actions'[a].status = "CANCELLED"

\* The answer of a request is true of the committed rows at the moment it is
\* given; only a COMMIT whose outcome is unknown is reported as unknown.  That an
\* execution failed is told of an action that is now FAILED, or that somebody else
\* executed, rejected or cancelled before the failure could be recorded.
AnswersAreTrue ==
    [][\A c \in Clients :
         tx[c].step # "idle" /\ tx'[c].step = "idle" => Told(c, tx'[c].answer)]_vars

\* "Revenue action execution failed and can be safely retried" is answered only of
\* an action that the retry executes, or finds executed.
FailedCanBeRetried ==
    [][\A c \in Clients :
         tx[c].step # "idle" /\ tx'[c].step = "idle" /\ tx'[c].answer = "failed"
            => actions'[tx[c].on].status \in {"FAILED", "EXECUTED"}]_vars

\* Whatever the interleaving, requests act as if each happened at one moment, and
\* the task and the activity of an execution appear with its status.
Atomic == INSTANCE AtomicRevenueActions WITH
    status <- [a \in ActionIds |-> actions[a].status],
    owner <- [a \in ActionIds |-> actions[a].opp],
    effects <- [a \in ActionIds |-> [tasks |-> LinkedTasks(a),
                                    activities |-> LinkedActivities(a)]]
ImplementsAtomic == Atomic!Spec

\* Requests never wait for each other in a circle, nor for a lock that nobody will
\* free: while one is under way, one of those under way can go on.
NoDeadlock ==
    (\E c \in Clients : tx[c].step # "idle")
       => \E c \in Clients : tx[c].step # "idle" /\ ENABLED (Acquire(c) \/ Work(c))
=============================================================================
