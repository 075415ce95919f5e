-------------------- MODULE PostgresRevenueActionsProofs --------------------
(***************************************************************************)
(* What holds of PostgresRevenueActions for any opportunities, ids and     *)
(* number of concurrent clients, and that it refines AtomicRevenueActions. *)
(*                                                                         *)
(* A transaction is several steps on rows that other transactions commit   *)
(* in between.  The inductive invariant IInv says, beside the types and    *)
(* the two invariants on the committed rows (Kept),                        *)
(*   - what each open transaction knows of them (Knows): which rows are    *)
(*     there for its step (Phase), which locks the step relies on          *)
(*     (Guarded), what an execution has read that no one may change        *)
(*     (Sighted), what it has written and not committed (Writes), and what *)
(*     the answer it goes to commit says (Promises);                       *)
(*   - that two of them stay apart (Apart): no lock held twice but shared, *)
(*     no row written by both, no recommendation inserted by both.         *)
(*                                                                         *)
(* A step before the commit changes one transaction and no row: LocalKeeps *)
(* reduces it to Knows and Apart of the new transaction, one lemma ...Move *)
(* per action.  A commit changes the rows: Landed says how, and one lemma  *)
(* ...Stay(s) per conjunct shows that what the others know stays true,     *)
(* because the locks they rely on exclude the commit.                      *)
(***************************************************************************)
EXTENDS PostgresRevenueActions, WellFoundedInduction, TLAPS

\* A set of ids that is not empty has a first one.
LEMMA FirstInSet ==
  ASSUME NEW S \in SUBSET Nat, S # {}
  PROVE  First(S) \in S
<1> DEFINE R == OpToRel(<, Nat)
<1>1. IsWellFoundedOn(R, Nat)
  BY NatLessThanWellFounded
<1>2. \A m, n \in Nat : m < n => <<m, n>> \in R
  BY DEF OpToRel
<1> HIDE DEF R
<1>3. PICK x \in S : \A y \in S : <<y, x>> \notin R
  BY <1>1, WFMin
<1>4. ASSUME NEW y \in S PROVE x <= y
  <2>1. x \in Nat /\ y \in Nat
    OBVIOUS
  <2>2. <<y, x>> \notin R
    BY <1>3
  <2>3. ~(y < x)
    BY <1>2, <2>1, <2>2
  <2> QED
    BY <2>1, <2>3
<1>5. \E z \in S : \A y \in S : z <= y
  BY <1>4
<1> QED
  BY ONLY <1>5, Zenon DEF First

LEMMA UnusedAre ==
  /\ \A a \in UnusedActions : /\ a \in ActionIds /\ actions[a] = NoAction
                              /\ \A d \in Clients : a \notin DOMAIN tx[d].put.actions
  /\ \A t \in UnusedTasks : /\ t \in TaskIds /\ tasks[t] = NoTask
                            /\ \A d \in Clients : t \notin DOMAIN tx[d].put.tasks
  /\ \A v \in UnusedActivities : /\ v \in ActivityIds /\ activities[v] = NoActivity
                                 /\ \A d \in Clients : v \notin DOMAIN tx[d].put.activities
  BY DEF UnusedActions, UnusedTasks, UnusedActivities, Unused

-----------------------------------------------------------------------------
(* Types                                                                   *)

\* Functions from a part of S to R.
Partial(S, R) == UNION {[D -> R] : D \in SUBSET S}

PutRows == [opps : Partial(Opportunities, OpportunityRows),
            prospects : Partial(Opportunities, BOOLEAN),
            actions : Partial(ActionIds, ActionRows),
            tasks : Partial(TaskIds, TaskRows),
            activities : Partial(ActivityIds, ActivityRows)]

Targets == Opportunities \cup ActionIds \cup TaskIds \cup {None}

Transactions == [op : AllOps \cup {"none"}, on : Targets, step : Steps,
                 locks : SUBSET Locks, put : PutRows, basis : Bases \cup {NoBasis},
                 queue : SUBSET ActionIds, seen : {"none", "OPEN", "COMPLETED"},
                 answer : Answers]

Rows ==
    /\ opps \in [Opportunities -> OpportunityRows]
    /\ prospects \in [Opportunities -> BOOLEAN]
    /\ actions \in [ActionIds -> ActionRows \cup {NoAction}]
    /\ tasks \in [TaskIds -> TaskRows \cup {NoTask}]
    /\ activities \in [ActivityIds -> ActivityRows \cup {NoActivity}]
    /\ today \in 0 .. LastDay /\ role \in Roles

Typed == Rows /\ tx \in [Clients -> Transactions]

-----------------------------------------------------------------------------
(* What a transaction knows of the rows                                    *)

\* The opportunity a transaction is about: Opp(c) for the one of client c.
Target(t) == IF t.op \in ActionOps THEN actions[t.on].opp
             ELSE IF t.op = "patch" THEN tasks[t.on].opp ELSE t.on

ServiceOps == {"stage", "value", "post", "task", "patch"}

\* A recommendation to go on proposes the next action there is.
Sound(b) == b \in Bases /\ (b.type # "CREATE_TASK" => b.opp.next \in Titles)

Same(t) == {a \in ActionIds : actions[a].opp = t.on /\ actions[a].basis = t.basis}

\* The row a transaction is about is there, and a step belongs to its request.
Phase(t) == t.step # "idle" =>
    /\ t.op \in AllOps
    /\ t.op \in ActionOps => t.on \in ActionIds /\ actions[t.on] # NoAction
    /\ t.op = "patch" => t.on \in TaskIds /\ tasks[t.on] # NoTask
    /\ t.op \in OpportunityOps => t.on \in Opportunities
    /\ t.op = "qualify" => t.step \in {"prospect", "commit"}
    /\ t.step = "prospect" => t.op = "qualify"
    /\ t.step \in {"action", "decide"} => t.op \in ActionOps
    /\ t.step = "evidence" => t.op \in {"PREPARED", "APPROVED", "execute", "materialize"}
    /\ t.step \in {"snapshot", "active", "insert", "existing"} => t.op = "materialize"
    /\ t.step \in {"effects", "undone", "relock", "marking"} => t.op = "execute"
    /\ t.step = "work" => t.op \in ServiceOps
    /\ t.step \notin {"insert", "existing", "commit"} => t.put = NoPut
    /\ /\ t.op = "materialize"
       /\ t.step \in {"snapshot", "active", "insert", "existing", "commit"}
       => Sound(t.basis)
    /\ t.step = "active" => \A a \in t.queue : actions[a] # NoAction /\ actions[a].opp = t.on
    /\ t.step = "existing" => t.queue # {} /\ t.queue \subseteq Same(t)

Locked(t, table, x, mode) == Lock(table, x, mode) \in t.locks

\* The locks a step relies on, of rows that are there.
Guarded(t) ==
    /\ \A a \in ActionIds : Locked(t, "action", a, "update") => actions[a] # NoAction
    /\ t.step \notin {"idle", "opp", "prospect", "undone"} /\ t.op # "qualify" =>
         Locked(t, "opp", Target(t), IF t.op = "materialize" THEN "share" ELSE "update")
    /\ t.op \in ActionOps /\ t.step \in {"decide", "evidence", "effects", "marking", "commit"} =>
         Locked(t, "action", t.on, "update")
    /\ t.op = "qualify" /\ t.step = "commit" => Locked(t, "prospect", t.on, "update")

\* The records the action was recommended on are the committed ones.
OnRecords(a) ==
    LET b == actions[a].basis  o == actions[a].opp
    IN  /\ b.opp = opps[o] /\ b.prospect = prospects[o] /\ b.latest = LatestActivity(o)
        /\ b.work = {<<u, tasks[u].status>> : u \in {w \in TaskIds : tasks[w].opp = o}}

\* An execution goes on from an approved or failed action and, once it has read
\* the evidence, keeps the records as the recommendation had them.  Once the attempt
\* is undone others may have failed the action too, or made it final.
Sighted(t) ==
    /\ t.op = "execute" /\ t.step \in {"evidence", "effects"} =>
         actions[t.on].status \in {"APPROVED", "FAILED"}
    /\ t.op = "execute" /\ t.step = "effects" =>
         OnRecords(t.on) /\ Locked(t, "prospect", actions[t.on].opp, "share")
    /\ t.op = "execute" /\ t.step \in {"undone", "relock", "marking"} =>
         actions[t.on].status \in {"APPROVED", "FAILED"} \cup Terminal

-----------------------------------------------------------------------------
(* What a transaction has written                                          *)

\* The changes of status one transaction commits.
Lawful(from, to) ==
    \/ to = "CANCELLED"
    \/ from = "RECOMMENDED" /\ to = "PREPARED"
    \/ from = "PREPARED" /\ to \in {"APPROVED", "REJECTED"}
    \/ from \in {"APPROVED", "FAILED"} /\ to \in {"FAILED", "EXECUTED"}

\* It changes a row it has locked, which was not terminal,
Replaces(t, a) ==
    LET old == actions[a]  new == t.put.actions[a]
    IN  /\ old # NoAction /\ old.status \notin Terminal
        /\ Locked(t, "action", a, "update")
        /\ new.opp = old.opp /\ new.basis = old.basis
        /\ Lawful(old.status, new.status)
        /\ new.status = "EXECUTED" => t.op = "execute"
        /\ IF t.op = "materialize"
           THEN new.status = "CANCELLED" /\ old.opp = t.on /\ old.basis # t.basis
           ELSE a = t.on /\ t.op \in ActionOps

\* or inserts one row, of a recommendation that has no active action.
Inserts(t, a) ==
    LET new == t.put.actions[a]
    IN  /\ actions[a] = NoAction
        /\ t.op = "materialize" /\ t.step = "commit"
        /\ new.opp = t.on /\ new.basis = t.basis /\ new.status = "RECOMMENDED"
        /\ \A b \in Same(t) : actions[b].status \in Terminal
        /\ \A b \in DOMAIN t.put.actions : actions[b] = NoAction => b = a

Executes(t) ==
    t.on \in DOMAIN t.put.actions /\ t.op = "execute" /\ t.put.actions[t.on].status = "EXECUTED"

\* The effects of an execution are one activity and at most one task.
Effects(t) == Executes(t) =>
    LET act == t.put.actions[t.on]
    IN  /\ actions[t.on].status \in {"APPROVED", "FAILED"}
        /\ OnRecords(t.on) /\ Locked(t, "prospect", actions[t.on].opp, "share")
        /\ DOMAIN t.put.activities = {act.activity}
        /\ DOMAIN t.put.tasks = {act.task} \ {None}
        /\ \A u \in DOMAIN t.put.tasks : t.put.tasks[u].link = t.on /\ tasks[u].link = None
        /\ \A v \in DOMAIN t.put.activities : t.put.activities[v].link = t.on

\* Whoever writes the opportunity, its tasks or its activities holds it alone.
Owns(t) == t.step = "commit" /\ t.op \in ServiceOps \cup {"execute"}

Writes(t) ==
    /\ \A o \in DOMAIN t.put.opps : Owns(t) /\ o = Target(t)
    /\ \A o \in DOMAIN t.put.prospects : t.step = "commit" /\ t.op = "qualify" /\ o = t.on
    /\ \A a \in DOMAIN t.put.actions : Replaces(t, a) \/ Inserts(t, a)
    /\ \A u \in DOMAIN t.put.tasks :
         /\ Owns(t)
         /\ t.put.tasks[u].opp = Target(t)
         /\ tasks[u] = NoTask \/ tasks[u].opp = Target(t)
         /\ ~Executes(t) => t.put.tasks[u].link = tasks[u].link
    /\ \A v \in DOMAIN t.put.activities :
         /\ Owns(t)
         /\ activities[v] = NoActivity /\ t.put.activities[v].opp = Target(t)
         /\ ~Executes(t) => t.put.activities[v].link = None
    /\ Effects(t)

\* The row of an action as the commit of t will leave it.
After(t, a) == IF a \in DOMAIN t.put.actions THEN t.put.actions[a] ELSE actions[a]

\* What the answer prepared for the commit says of the rows it will leave.
Promises(t) == t.step = "commit" =>
    /\ t.answer \in {"done", "duplicate", "failed", "superseded"}
    /\ t.answer \in {"done", "duplicate"} =>
         /\ t.op \in Transitions => After(t, t.on).status = t.op
         /\ t.op = "execute" => After(t, t.on).status = "EXECUTED"
         /\ t.op = "materialize" =>
              \E b \in ActionIds :
                 /\ b \in DOMAIN t.put.actions \/ Locked(t, "action", b, "update")
                 /\ After(t, b).opp = t.on /\ After(t, b).basis = t.basis
                 /\ After(t, b).status \in ACTIVE_ACTION_STATUSES
    /\ t.answer = "failed" =>
         /\ t.op = "execute"
         /\ \/ After(t, t.on).status = "FAILED"
            \/ actions[t.on].status \in Terminal /\ t.put = NoPut
    /\ t.answer = "superseded" => t.op \in ActionOps /\ After(t, t.on).status = "CANCELLED"

Knows(t) == Phase(t) /\ Guarded(t) /\ Sighted(t) /\ Writes(t) /\ Promises(t)

-----------------------------------------------------------------------------
(* Two transactions                                                        *)

Compatible(t, r) ==
    \A k \in t.locks, l \in r.locks : k.row = l.row => k.mode = "share" /\ l.mode = "share"

\* They write different rows and never insert the same recommendation twice.
Disjoint(t, r) ==
    /\ DOMAIN t.put.actions \cap DOMAIN r.put.actions = {}
    /\ DOMAIN t.put.tasks \cap DOMAIN r.put.tasks = {}
    /\ DOMAIN t.put.activities \cap DOMAIN r.put.activities = {}

Twins(t, r) ==
    \E a \in DOMAIN t.put.actions, b \in DOMAIN r.put.actions :
        /\ actions[a] = NoAction /\ actions[b] = NoAction
        /\ t.put.actions[a].opp = r.put.actions[b].opp
        /\ t.put.actions[a].basis = r.put.actions[b].basis

Apart(t, r) == Compatible(t, r) /\ Disjoint(t, r) /\ ~Twins(t, r)

Kept ==
    /\ \A a \in ActionIds : actions[a] # NoAction => Sound(actions[a].basis)
    /\ OneActivePerIdentity
    /\ EffectsIffExecuted

IInv ==
    /\ Typed
    /\ Kept
    /\ \A c \in Clients : Knows(tx[c])
    /\ \A c, d \in Clients : c # d => Apart(tx[c], tx[d])

-----------------------------------------------------------------------------
(* Lemmas on rows and types                                                *)

LEMMA PartialIs ==
  ASSUME NEW S, NEW R, NEW f \in Partial(S, R)
  PROVE  /\ DOMAIN f \subseteq S /\ \A x \in DOMAIN f : f[x] \in R
         /\ f \in [DOMAIN f -> R]
  BY DEF Partial

LEMMA PartialFrom ==
  ASSUME NEW S, NEW R, NEW D \in SUBSET S, NEW f \in [D -> R]
  PROVE  f \in Partial(S, R)
  BY DEF Partial

LEMMA EmptyPartial ==
  ASSUME NEW S, NEW R
  PROVE  Empty \in Partial(S, R) /\ DOMAIN Empty = {}
<1>1. Empty \in [{} -> R] /\ DOMAIN Empty = {}
  BY DEF Empty
<1> QED
  BY <1>1 DEF Partial

\* A record set in place of the equation of TransactionType.
LEMMA TransactionShape ==
  ASSUME NEW t \in Transactions
  PROVE  TransactionType(t)
<1>1. t.put \in PutRows
  BY DEF Transactions
<1>2. /\ t.put.opps \in Partial(Opportunities, OpportunityRows)
      /\ t.put.prospects \in Partial(Opportunities, BOOLEAN)
      /\ t.put.actions \in Partial(ActionIds, ActionRows)
      /\ t.put.tasks \in Partial(TaskIds, TaskRows)
      /\ t.put.activities \in Partial(ActivityIds, ActivityRows)
  BY <1>1 DEF PutRows
<1>3. /\ Written(t.put.opps, Opportunities, OpportunityRows)
      /\ Written(t.put.prospects, Opportunities, BOOLEAN)
      /\ Written(t.put.actions, ActionIds, ActionRows)
      /\ Written(t.put.tasks, TaskIds, TaskRows)
      /\ Written(t.put.activities, ActivityIds, ActivityRows)
  BY <1>2, PartialIs DEF Written
<1>4. t = [op |-> t.op, on |-> t.on, step |-> t.step, locks |-> t.locks, put |-> t.put,
           basis |-> t.basis, queue |-> t.queue, seen |-> t.seen, answer |-> t.answer]
  BY DEF Transactions
<1> QED
  BY <1>3, <1>4 DEF Transactions, TransactionType

LEMMA NoPutTyped == NoPut \in PutRows
  BY EmptyPartial DEF NoPut, PutRows

LEMMA IdleTyped == Idle \in Transactions
  BY NoPutTyped DEF Idle, Transactions, Targets, Steps, Answers

\* A row is there or is the absent one.
LEMMA RowsAre ==
  ASSUME Rows
  PROVE  /\ \A a \in ActionIds : actions[a] # NoAction => actions[a] \in ActionRows
         /\ \A u \in TaskIds : tasks[u] # NoTask => tasks[u] \in TaskRows
         /\ \A v \in ActivityIds : activities[v] # NoActivity => activities[v] \in ActivityRows
         /\ \A a \in ActionIds : actions[a] # NoAction <=> actions[a].status # "ABSENT"
         /\ \A a \in ActionIds : actions[a] # NoAction <=> actions[a].opp \in Opportunities
         /\ \A u \in TaskIds : tasks[u] # NoTask <=> tasks[u].opp \in Opportunities
         /\ \A v \in ActivityIds : activities[v] # NoActivity <=> activities[v].opp \in Opportunities
<1>1. \A a \in ActionIds : actions[a] # NoAction => actions[a] \in ActionRows
  BY DEF Rows
<1>2. \A u \in TaskIds : tasks[u] # NoTask => tasks[u] \in TaskRows
  BY DEF Rows
<1>3. \A v \in ActivityIds : activities[v] # NoActivity => activities[v] \in ActivityRows
  BY DEF Rows
<1>4. NoAction.status = "ABSENT" /\ NoAction.opp = None
  BY DEF NoAction
<1>5. NoTask.opp = None /\ NoActivity.opp = None
  BY DEF NoTask, NoActivity
<1>6. \A w \in ActionRows : w.opp \in Opportunities /\ w.status # "ABSENT"
  BY DEF ActionRows, ACTIVE_ACTION_STATUSES, Terminal
<1>7. \A w \in TaskRows : w.opp \in Opportunities
  BY DEF TaskRows
<1>8. \A w \in ActivityRows : w.opp \in Opportunities
  BY DEF ActivityRows
<1>9. None \notin Opportunities
  BY PostgresAssumption
<1> QED
  BY <1>1, <1>2, <1>3, <1>4, <1>5, <1>6, <1>7, <1>8, <1>9

\* The changes an execution or a transition makes to a row.
Stamps == SUBSET {"PREPARED", "APPROVED", "REJECTED", "CANCELLED", "FAILED", "EXECUTED"}

Statuses == ACTIVE_ACTION_STATUSES \cup Terminal

LEMMA AuditedRow ==
  ASSUME NEW w \in ActionRows, NEW e \in Entries
  PROVE  /\ Audited(w, e) \in ActionRows
         /\ Audited(w, e).opp = w.opp /\ Audited(w, e).basis = w.basis
<1> DEFINE s == Append(w.audit, e)
<1>1. s \in Seq(Entries)
  BY DEF ActionRows
<1>2. Audited(w, e) = [w EXCEPT !.audit = s]
  BY DEF Audited
<1> HIDE DEF s
<1>3. Audited(w, e) \in ActionRows
  BY <1>1, <1>2 DEF ActionRows
<1>4. Audited(w, e).opp = w.opp /\ Audited(w, e).basis = w.basis
  BY <1>2 DEF ActionRows
<1> QED
  BY <1>3, <1>4

\* The row Insert adds.
NewAction(o, b, s) ==
    [NoAction EXCEPT !.opp = o, !.basis = b, !.status = "RECOMMENDED", !.audit = s]

LEMMA NewRow ==
  ASSUME NEW o \in Opportunities, NEW b \in Bases, NEW s \in Seq(Entries)
  PROVE  /\ NewAction(o, b, s) \in ActionRows
         /\ NewAction(o, b, s).opp = o /\ NewAction(o, b, s).basis = b
         /\ NewAction(o, b, s).status = "RECOMMENDED"
<1> DEFINE Absent == [opp : {None}, basis : {NoBasis}, status : {"ABSENT"}, audit : {<<>>},
                      stamps : {{}}, attempts : {0}, requested : {FALSE}, result : {"none"},
                      task : {None}, activity : {None}]
<1>1. PICK w \in Absent : w = NoAction
  BY Zenon DEF NoAction
<1> DEFINE r == [w EXCEPT !.opp = o, !.basis = b, !.status = "RECOMMENDED", !.audit = s]
<1>2. NewAction(o, b, s) = r
  BY <1>1, Zenon DEF NewAction
<1>3. r \in [opp : {o}, basis : {b}, status : {"RECOMMENDED"}, audit : {s},
             stamps : {{}}, attempts : {0}, requested : {FALSE}, result : {"none"},
             task : {None}, activity : {None}]
  OBVIOUS
<1>4. r.opp = o /\ r.basis = b /\ r.status = "RECOMMENDED"
  OBVIOUS
<1> HIDE DEF r
<1>5. r = [opp |-> o, basis |-> b, status |-> "RECOMMENDED", audit |-> s, stamps |-> {},
           attempts |-> 0, requested |-> FALSE, result |-> "none", task |-> None,
           activity |-> None]
  BY <1>3
<1>6. r \in ActionRows
  BY <1>5, Zenon DEF ActionRows, ACTIVE_ACTION_STATUSES
<1> QED
  BY <1>2, <1>4, <1>6

LEMMA MovedRow ==
  ASSUME NEW w \in ActionRows, NEW to \in Transitions
  PROVE  /\ Moved(w, to) \in ActionRows
         /\ Moved(w, to).opp = w.opp /\ Moved(w, to).basis = w.basis
         /\ Moved(w, to).status = to
<1>1. to \in Entries /\ to \in Statuses
  BY DEF Transitions, Entries, Cancelling, Statuses, ACTIVE_ACTION_STATUSES, Terminal
<1>2. PICK r \in ActionRows : r = Audited(w, to) /\ r.opp = w.opp /\ r.basis = w.basis
  BY <1>1, AuditedRow
<1> DEFINE z == r.stamps \cup {to}
<1>3. z \in Stamps
  BY DEF ActionRows, Stamps, Transitions
<1>4. Moved(w, to) = [r EXCEPT !.status = to, !.stamps = z]
  BY <1>2 DEF Moved
<1> HIDE DEF z
<1>5. Moved(w, to) \in ActionRows
  BY <1>1, <1>3, <1>4 DEF ActionRows, Stamps, Statuses
<1>6. Moved(w, to).opp = r.opp /\ Moved(w, to).basis = r.basis /\ Moved(w, to).status = to
  BY <1>4 DEF ActionRows
<1> QED
  BY <1>2, <1>5, <1>6

LEMMA CancelledRow ==
  ASSUME NEW w \in ActionRows, NEW e \in Cancelling
  PROVE  /\ Cancelled(w, e) \in ActionRows
         /\ Cancelled(w, e).opp = w.opp /\ Cancelled(w, e).basis = w.basis
         /\ Cancelled(w, e).status = "CANCELLED"
<1>1. e \in Entries /\ "CANCELLED" \in Statuses
  BY DEF Entries, Statuses, Terminal
<1>2. PICK r \in ActionRows : r = Audited(w, e) /\ r.opp = w.opp /\ r.basis = w.basis
  BY <1>1, AuditedRow
<1> DEFINE z == r.stamps \cup {"CANCELLED"}
<1>3. z \in Stamps
  BY DEF ActionRows, Stamps
<1>4. Cancelled(w, e) = [r EXCEPT !.status = "CANCELLED", !.stamps = z]
  BY <1>2 DEF Cancelled
<1> HIDE DEF z
<1>5. Cancelled(w, e) \in ActionRows
  BY <1>1, <1>3, <1>4 DEF ActionRows, Stamps, Statuses
<1>6. /\ Cancelled(w, e).opp = r.opp /\ Cancelled(w, e).basis = r.basis
      /\ Cancelled(w, e).status = "CANCELLED"
  BY <1>4 DEF ActionRows
<1> QED
  BY <1>2, <1>5, <1>6

LEMMA StartedRow ==
  ASSUME NEW w \in ActionRows
  PROVE  /\ Started(w) \in ActionRows
         /\ Started(w).opp = w.opp /\ Started(w).basis = w.basis
         /\ Started(w).status = "EXECUTING"
<1>1. "EXECUTION_STARTED" \in Entries /\ "EXECUTING" \in Statuses
  BY DEF Entries, Statuses, ACTIVE_ACTION_STATUSES
<1>2. PICK r \in ActionRows : /\ r = Audited(w, "EXECUTION_STARTED")
                              /\ r.opp = w.opp /\ r.basis = w.basis
  BY <1>1, AuditedRow
<1> DEFINE n == r.attempts + 1
           z == r.stamps \ {"FAILED"}
<1>3. n \in Nat /\ z \in Stamps
  BY DEF ActionRows, Stamps
<1>4. Started(w) = [r EXCEPT !.status = "EXECUTING", !.requested = TRUE, !.result = "none",
                             !.attempts = n, !.stamps = z]
  BY <1>2 DEF Started
<1> HIDE DEF n, z
<1>5. Started(w) \in ActionRows
  BY <1>1, <1>3, <1>4 DEF ActionRows, Stamps, Statuses
<1>6. /\ Started(w).opp = r.opp /\ Started(w).basis = r.basis
      /\ Started(w).status = "EXECUTING"
  BY <1>4 DEF ActionRows
<1> QED
  BY <1>2, <1>5, <1>6

LEMMA ExecutedRow ==
  ASSUME NEW w \in ActionRows, NEW u \in TaskIds \cup {None}, NEW v \in ActivityIds
  PROVE  /\ Executed(w, u, v) \in ActionRows
         /\ Executed(w, u, v).opp = w.opp /\ Executed(w, u, v).basis = w.basis
         /\ Executed(w, u, v).status = "EXECUTED"
         /\ Executed(w, u, v).task = u /\ Executed(w, u, v).activity = v
<1>1. "EXECUTED" \in Entries /\ "EXECUTED" \in Statuses
  BY DEF Entries, Statuses, Terminal
<1>2. PICK r \in ActionRows : r = Audited(w, "EXECUTED") /\ r.opp = w.opp /\ r.basis = w.basis
  BY <1>1, AuditedRow
<1> DEFINE x == IF u = None THEN "USER_CONFIRMED_COMPLETION"
                ELSE IF EquivalentTasks(w) # {} THEN "TASK_REUSED" ELSE "TASK_CREATED"
           z == (r.stamps \ {"FAILED"}) \cup {"EXECUTED"}
<1>3. x \in {"USER_CONFIRMED_COMPLETION", "TASK_REUSED", "TASK_CREATED"}
  OBVIOUS
<1>7. z \in Stamps
  BY DEF ActionRows, Stamps
<1>4. Executed(w, u, v) = [r EXCEPT !.status = "EXECUTED", !.stamps = z,
                                    !.task = u, !.activity = v, !.result = x]
  BY <1>2 DEF Executed
<1> HIDE DEF x, z
<1> DEFINE p == [r EXCEPT !.status = "EXECUTED", !.stamps = z]
<1>8. p \in ActionRows
  BY <1>1, <1>7 DEF ActionRows, Stamps, Statuses
<1>9. Executed(w, u, v) = [p EXCEPT !.task = u, !.activity = v, !.result = x]
  BY <1>4
<1> HIDE DEF p
<1>5. Executed(w, u, v) \in ActionRows
  BY <1>3, <1>8, <1>9, ZenonT(40) DEF ActionRows
<1>6. /\ Executed(w, u, v).opp = r.opp /\ Executed(w, u, v).basis = r.basis
      /\ Executed(w, u, v).status = "EXECUTED"
      /\ Executed(w, u, v).task = u /\ Executed(w, u, v).activity = v
  BY <1>4 DEF ActionRows
<1> QED
  BY <1>2, <1>5, <1>6

LEMMA MarkedFailedRow ==
  ASSUME NEW w \in ActionRows
  PROVE  /\ MarkedFailed(w) \in ActionRows
         /\ MarkedFailed(w).opp = w.opp /\ MarkedFailed(w).basis = w.basis
         /\ MarkedFailed(w).status = "FAILED"
<1> DEFINE s == IF w.status = "EXECUTING" THEN w ELSE Started(w)
<1>1. "FAILED" \in Entries /\ "FAILED" \in Statuses
  BY DEF Entries, Statuses, ACTIVE_ACTION_STATUSES
<1>2. s \in ActionRows /\ s.opp = w.opp /\ s.basis = w.basis
  BY StartedRow
<1>3. MarkedFailed(w) = [Audited(s, "FAILED") EXCEPT
            !.status = "FAILED", !.result = "FAILED", !.stamps = @ \cup {"FAILED"}]
  BY DEF MarkedFailed
<1> HIDE DEF s
<1>4. PICK r \in ActionRows : r = Audited(s, "FAILED") /\ r.opp = w.opp /\ r.basis = w.basis
  BY <1>1, <1>2, AuditedRow
<1> DEFINE z == r.stamps \cup {"FAILED"}
<1>5. z \in Stamps
  BY DEF ActionRows, Stamps
<1>6. MarkedFailed(w) = [r EXCEPT !.status = "FAILED", !.result = "FAILED", !.stamps = z]
  BY <1>3, <1>4
<1> HIDE DEF z
<1>7. MarkedFailed(w) \in ActionRows
  BY <1>1, <1>5, <1>6 DEF ActionRows, Stamps, Statuses
<1>8. MarkedFailed(w).opp = r.opp /\ MarkedFailed(w).basis = r.basis
      /\ MarkedFailed(w).status = "FAILED"
  BY <1>6 DEF ActionRows
<1> QED
  BY <1>4, <1>7, <1>8

LEMMA TypedTypes == Typed => TypeOK
<1> SUFFICES ASSUME Typed PROVE TypeOK
  OBVIOUS
<1>1. DOMAIN tx = Clients
  BY DEF Typed
<1>2. ASSUME NEW c \in Clients PROVE TransactionType(tx[c])
  BY TransactionShape DEF Typed
<1> QED
  BY <1>1, <1>2 DEF Typed, Rows, TypeOK

-----------------------------------------------------------------------------
(* Steps that commit nothing                                               *)

\* A step of client c that leaves the committed rows alone and its own
\* transaction as t.
Local(c, t) == UNCHANGED <<db, env>> /\ tx' = [tx EXCEPT ![c] = t]

Allowed(c, t) ==
    /\ t \in Transactions /\ Knows(t)
    /\ \A d \in Clients \ {c} : Apart(t, tx[d])

LocalMove(c) ==
    \E t \in Transactions :
        /\ Local(c, t) /\ Allowed(c, t)
        /\ t.step = "idle" => t.answer \in {"refused", "error"}

LEMMA ApartSymmetric == ASSUME NEW t, NEW r, Apart(t, r) PROVE Apart(r, t)
<1>1. Compatible(r, t)
  BY DEF Apart, Compatible
<1>2. Disjoint(r, t)
  BY DEF Apart, Disjoint
<1>3. ~Twins(r, t)
  BY DEF Apart, Twins
<1> QED
  BY <1>1, <1>2, <1>3 DEF Apart

\* What a transaction knows is about the committed rows alone.
LEMMA RowsOnly ==
  ASSUME UNCHANGED db, NEW t, NEW r
  PROVE  /\ Knows(t) <=> Knows(t)'
         /\ Apart(t, r) <=> Apart(t, r)'
<1>1. /\ opps' = opps /\ prospects' = prospects /\ actions' = actions /\ tasks' = tasks
      /\ activities' = activities
  BY DEF db
<1>2. \A a : OnRecords(a)' <=> OnRecords(a)
  BY <1>1 DEF OnRecords, LatestActivity
<1>3. Phase(t)' <=> Phase(t)
  BY <1>1 DEF Phase, Same, Sound
<1>4. Guarded(t)' <=> Guarded(t)
  BY <1>1 DEF Guarded, Locked, Target
<1>5. Sighted(t)' <=> Sighted(t)
  BY <1>1, <1>2 DEF Sighted, Locked
<1>6. Effects(t)' <=> Effects(t)
  BY <1>1, <1>2 DEF Effects, Executes, Locked
<1>7. \A a : (Replaces(t, a) \/ Inserts(t, a))' <=> (Replaces(t, a) \/ Inserts(t, a))
  BY <1>1 DEF Replaces, Inserts, Same, Locked
<1>8. Writes(t)' <=> Writes(t)
  BY <1>1, <1>6, <1>7 DEF Writes, Owns, Target, Executes
<1>9. Promises(t)' <=> Promises(t)
  BY <1>1 DEF Promises, After, Locked
<1>10. Apart(t, r)' <=> Apart(t, r)
  BY <1>1 DEF Apart, Compatible, Disjoint, Twins
<1> QED
  BY <1>3, <1>4, <1>5, <1>8, <1>9, <1>10 DEF Knows

LEMMA KeptRows ==
  ASSUME UNCHANGED db, Kept
  PROVE  Kept'
<1>1. actions' = actions /\ tasks' = tasks /\ activities' = activities
  BY DEF db
<1>2. OneActivePerIdentity'
  BY <1>1 DEF Kept, OneActivePerIdentity, ActiveActions
<1>3. EffectsIffExecuted'
  BY <1>1 DEF Kept, EffectsIffExecuted, LinkedActivities, LinkedTasks
<1> QED
  BY <1>1, <1>2, <1>3 DEF Kept, Sound

\* Transactions that are as they were know what they knew.
LEMMA SameTransactions ==
  ASSUME IInv, UNCHANGED db, tx' = tx
  PROVE  /\ \A c \in Clients : Knows(tx[c])'
         /\ \A c, d \in Clients : c # d => Apart(tx[c], tx[d])'
<1>1. ASSUME NEW d \in Clients PROVE Knows(tx[d])'
  <2>1. PICK q : q = tx'[d]
    OBVIOUS
  <2>2. Knows(q)'
    BY <2>1, RowsOnly DEF IInv
  <2> QED
    BY <2>1, <2>2 DEF Knows, Phase, Guarded, Sighted, Writes, Promises, Same, Locked, Target,
       Effects, Executes, Replaces, Inserts, Owns, After
<1>2. ASSUME NEW d \in Clients, NEW e \in Clients, d # e PROVE Apart(tx[d], tx[e])'
  <2>1. PICK q, r : q = tx'[d] /\ r = tx'[e]
    OBVIOUS
  <2>2. Apart(q, r)
    BY <1>2, <2>1 DEF IInv
  <2>3. Apart(q, r)'
    BY <2>2, RowsOnly
  <2> QED
    BY <2>1, <2>3 DEF Apart, Compatible, Disjoint, Twins
<1> QED
  BY <1>1, <1>2

LEMMA LocalKeeps ==
  ASSUME IInv, NEW c \in Clients, NEW t \in Transactions, Local(c, t), Allowed(c, t)
  PROVE  IInv'
<1>2. UNCHANGED db /\ UNCHANGED env
  BY DEF Local, db, env
<1>3. tx \in [Clients -> Transactions] /\ tx' = [tx EXCEPT ![c] = t]
  BY DEF Local, IInv, Typed
<1>4. tx' \in [Clients -> Transactions] /\ tx'[c] = t
      /\ \A d \in Clients \ {c} : tx'[d] = tx[d]
  BY <1>3
<1>5. Typed'
  BY <1>2, <1>4 DEF IInv, Typed, Rows, db, env
<1>6. Kept'
  BY <1>2, KeptRows DEF IInv
<1>7. ASSUME NEW d \in Clients PROVE Knows(tx[d])'
  <2>1. PICK q : q = tx'[d]
    OBVIOUS
  <2>2. Knows(q)
    BY <1>4, <2>1 DEF Allowed, IInv
  <2>3. Knows(q)'
    BY <1>2, <2>2, RowsOnly
  <2> QED
    BY <2>1, <2>3 DEF Knows, Phase, Guarded, Sighted, Writes, Promises, Same, Locked, Target,
       Effects, Executes, Replaces, Inserts, Owns, After
<1>8. ASSUME NEW d \in Clients, NEW e \in Clients, d # e PROVE Apart(tx[d], tx[e])'
  <2>1. PICK q, r : q = tx'[d] /\ r = tx'[e]
    OBVIOUS
  <2>2. Apart(q, r)
    BY <1>4, <1>8, <2>1, ApartSymmetric DEF Allowed, IInv
  <2>3. Apart(q, r)'
    BY <1>2, <2>2, RowsOnly
  <2> QED
    BY <2>1, <2>3 DEF Apart, Compatible, Disjoint, Twins
<1> QED
  BY <1>5, <1>6, <1>7, <1>8 DEF IInv

LEMMA LocalStep ==
  ASSUME IInv, NEW c \in Clients, LocalMove(c)
  PROVE  IInv'
  BY LocalKeeps DEF LocalMove

-----------------------------------------------------------------------------
(* What the steps of a transaction have in common                          *)

\* Nothing written, nothing to be true of it.
LEMMA NoPutWrites ==
  ASSUME NEW t, t.put = NoPut
  PROVE  Writes(t)
<1>1. /\ DOMAIN t.put.opps = {} /\ DOMAIN t.put.prospects = {} /\ DOMAIN t.put.actions = {}
      /\ DOMAIN t.put.tasks = {} /\ DOMAIN t.put.activities = {}
  BY DEF NoPut, Empty
<1> QED
  BY <1>1 DEF Writes, Effects, Executes

\* A lock granted beside the ones held excludes nobody's.
LEMMA Granted ==
  ASSUME IInv, NEW c \in Clients, NEW t, NEW lock,
         t.locks \subseteq tx[c].locks \cup {lock}, Grantable(c, lock), t.put = tx[c].put
  PROVE  \A d \in Clients \ {c} : Apart(t, tx[d])
<1> SUFFICES ASSUME NEW d \in Clients \ {c} PROVE Apart(t, tx[d])
  OBVIOUS
<1>1. Apart(tx[c], tx[d])
  BY DEF IInv
<1>2. Compatible(t, tx[d])
  BY <1>1 DEF Apart, Compatible, Grantable
<1>3. Disjoint(t, tx[d]) /\ ~Twins(t, tx[d])
  BY <1>1 DEF Apart, Disjoint, Twins
<1> QED
  BY <1>2, <1>3 DEF Apart

LEMMA SameLocks ==
  ASSUME IInv, NEW c \in Clients, NEW t,
         t.locks \subseteq tx[c].locks, t.put = tx[c].put
  PROVE  \A d \in Clients \ {c} : Apart(t, tx[d])
<1> SUFFICES ASSUME NEW d \in Clients \ {c} PROVE Apart(t, tx[d])
  OBVIOUS
<1>1. Apart(tx[c], tx[d])
  BY DEF IInv
<1>2. Compatible(t, tx[d])
  BY <1>1 DEF Apart, Compatible
<1>3. Disjoint(t, tx[d]) /\ ~Twins(t, tx[d])
  BY <1>1 DEF Apart, Disjoint, Twins
<1> QED
  BY <1>2, <1>3 DEF Apart

\* A request that holds and has written nothing is apart from every other.
LEMMA Bare ==
  ASSUME NEW t, t.locks = {}, t.put = NoPut, NEW r
  PROVE  Apart(t, r)
<1>1. /\ DOMAIN t.put.actions = {} /\ DOMAIN t.put.tasks = {} /\ DOMAIN t.put.activities = {}
  BY DEF NoPut, Empty
<1> QED
  BY <1>1 DEF Apart, Compatible, Disjoint, Twins

\* The end of a request without a commit.
LEMMA RollbackMove ==
  ASSUME IInv, NEW c \in Clients, NEW answer \in {"refused", "error"}, Rollback(c, answer)
  PROVE  LocalMove(c)
<1> DEFINE t == [Idle EXCEPT !.answer = answer]
<1>1. /\ t \in Transactions /\ t.step = "idle" /\ t.locks = {} /\ t.put = NoPut
      /\ t.answer = answer /\ t.op = "none"
  BY IdleTyped DEF Idle, Transactions, Answers
<1>2. Local(c, t)
  BY DEF Rollback, Answered, Local
<1> HIDE DEF t
<1>3. Knows(t)
  BY <1>1, NoPutWrites DEF Knows, Phase, Guarded, Sighted, Promises, Locked, ActionOps,
     Transitions
<1>4. \A d \in Clients \ {c} : Apart(t, tx[d])
  BY <1>1, Bare
<1> QED
  BY <1>1, <1>2, <1>3, <1>4 DEF LocalMove, Allowed

\* What client c is doing, when it is doing something.
LEMMA Doing ==
  ASSUME IInv, NEW c \in Clients, tx[c].step # "idle"
  PROVE  /\ tx[c] \in Transactions /\ Knows(tx[c])
         /\ Phase(tx[c]) /\ Guarded(tx[c]) /\ Sighted(tx[c]) /\ Writes(tx[c])
         /\ Opp(c) = Target(tx[c]) /\ Target(tx[c]) \in Opportunities
         /\ tx[c].op \in AllOps
<1>1. tx[c] \in Transactions /\ Rows
  BY DEF IInv, Typed
<1>2. Knows(tx[c])
  BY DEF IInv
<1>3. Phase(tx[c]) /\ Guarded(tx[c]) /\ Sighted(tx[c]) /\ Writes(tx[c])
  BY <1>2 DEF Knows
<1>4. tx[c].op \in AllOps
  BY <1>3 DEF Phase
<1>5. Opp(c) = Target(tx[c])
  BY DEF Opp, Target
<1>6. Target(tx[c]) \in Opportunities
  BY <1>1, <1>3, <1>4, RowsAre DEF Phase, Target, AllOps
<1> QED
  BY <1>1, <1>2, <1>3, <1>4, <1>5, <1>6

LEMMA BeginMove ==
  ASSUME IInv, NEW c \in Clients, NEW op \in AllOps, NEW on \in Targets,
         NEW seen \in {"none", "OPEN", "COMPLETED"}, Begin(c, op, on, seen),
         op \in ActionOps => on \in ActionIds /\ actions[on] # NoAction,
         op = "patch" => on \in TaskIds /\ tasks[on] # NoTask,
         op \in OpportunityOps => on \in Opportunities
  PROVE  LocalMove(c)
<1> DEFINE s == IF op = "qualify" THEN "prospect" ELSE "opp"
           t == [Idle EXCEPT !.op = op, !.on = on, !.seen = seen, !.step = s]
<1>1. Local(c, t)
  BY DEF Begin, Local
<1>2. s \in Steps /\ s \in {"prospect", "opp"} /\ (s = "prospect" <=> op = "qualify")
  BY DEF Steps
<1> HIDE DEF s
<1>3. /\ t \in Transactions /\ t.step = s /\ t.locks = {} /\ t.put = NoPut
      /\ t.op = op /\ t.on = on
  BY <1>2, IdleTyped DEF Idle, Transactions
<1> HIDE DEF t
<1>4. Knows(t)
  BY <1>2, <1>3, NoPutWrites DEF Knows, Phase, Guarded, Sighted, Promises, Locked
<1>5. \A d \in Clients \ {c} : Apart(t, tx[d])
  BY <1>3, Bare
<1> QED
  BY <1>1, <1>2, <1>3, <1>4, <1>5 DEF LocalMove, Allowed

LEMMA RequestMove ==
  ASSUME IInv, NEW c \in Clients, Request(c)
  PROVE  LocalMove(c)
<1>1. Rows
  BY DEF IInv, Typed
<1>2. ASSUME NEW op \in ActionOps, NEW a \in ActionIds, BeginOnAction(c, op, a)
      PROVE  LocalMove(c)
  <2>1. op \in AllOps /\ a \in Targets /\ actions[a] # NoAction
    BY <1>1, <1>2, RowsAre DEF AllOps, Targets, BeginOnAction
  <2>2. op # "patch" /\ op \notin OpportunityOps
    BY <1>2 DEF ActionOps, Transitions, OpportunityOps
  <2> QED
    BY <1>2, <2>1, <2>2, BeginMove DEF BeginOnAction
<1>3. ASSUME NEW op \in OpportunityOps, NEW o \in Opportunities, BeginOnOpportunity(c, op, o)
      PROVE  LocalMove(c)
  <2>1. op \in AllOps /\ o \in Targets
    BY DEF AllOps, Targets
  <2>2. op # "patch" /\ op \notin ActionOps
    BY <1>3 DEF ActionOps, Transitions, OpportunityOps
  <2> QED
    BY <1>3, <2>1, <2>2, BeginMove DEF BeginOnOpportunity
<1>4. ASSUME NEW u \in TaskIds, BeginOnTask(c, u)
      PROVE  LocalMove(c)
  <2>1. "patch" \in AllOps /\ u \in Targets
    BY DEF AllOps, Targets
  <2>2. "patch" \notin ActionOps /\ "patch" \notin OpportunityOps
    BY DEF ActionOps, Transitions, OpportunityOps
  <2>3. tasks[u] # NoTask /\ tasks[u].status \in {"OPEN", "COMPLETED"}
    BY <1>1, <1>4, RowsAre DEF BeginOnTask, TaskRows
  <2> QED
    BY <1>4, <2>1, <2>2, <2>3, BeginMove DEF BeginOnTask
<1> QED
  BY <1>2, <1>3, <1>4 DEF Request

\* A statement that takes a lock and writes nothing.
LEMMA TakeMove ==
  ASSUME IInv, NEW c \in Clients, NEW lock \in Locks, NEW s \in Steps \ {"idle"},
         Take(c, lock, s), UNCHANGED <<db, env>>,
         \A t \in Transactions :
            t = [tx[c] EXCEPT !.locks = @ \cup {lock}, !.step = s] => Knows(t)
  PROVE  LocalMove(c)
<1> DEFINE t == [tx[c] EXCEPT !.locks = @ \cup {lock}, !.step = s]
<1>1. tx[c] \in Transactions /\ tx \in [Clients -> Transactions]
  BY DEF IInv, Typed
<1>2. /\ t \in Transactions /\ t.locks = tx[c].locks \cup {lock} /\ t.put = tx[c].put
      /\ t.step = s
  BY <1>1 DEF Transactions
<1>3. tx' = [tx EXCEPT ![c] = t]
  BY <1>1 DEF Take
<1> HIDE DEF t
<1>4. Local(c, t)
  BY <1>3 DEF Local
<1>5. \A d \in Clients \ {c} : Apart(t, tx[d])
  BY <1>2, Granted DEF Take
<1>6. Knows(t)
  BY <1>2 DEF t
<1> QED
  BY <1>2, <1>4, <1>5, <1>6 DEF LocalMove, Allowed

LEMMA LockOpportunityMove ==
  ASSUME IInv, NEW c \in Clients, LockOpportunity(c)
  PROVE  LocalMove(c)
<1> DEFINE q == tx[c]
           lock == OpportunityLock(c)
           s == IF q.op \in ActionOps THEN "action"
                ELSE IF q.op = "materialize" THEN "evidence" ELSE "work"
<1>1. q.step = "opp"
  BY DEF LockOpportunity
<1>2. /\ q \in Transactions /\ Phase(q) /\ Guarded(q) /\ Opp(c) = Target(q)
      /\ Target(q) \in Opportunities /\ q.op \in AllOps
  BY <1>1, Doing
<1>3. /\ lock = Lock("opp", Target(q), IF q.op = "materialize" THEN "share" ELSE "update")
      /\ lock \in Locks
  BY <1>2 DEF OpportunityLock, Lock, Locks
<1>4. s \in Steps \ {"idle"} /\ s \in {"action", "evidence", "work"}
  BY DEF Steps
<1>5. q.op # "qualify" /\ q.put = NoPut
  BY <1>1, <1>2 DEF Phase
<1>6. Take(c, lock, s) /\ UNCHANGED <<db, env>>
  BY DEF LockOpportunity
<1>7. /\ s = "action" <=> q.op \in ActionOps
      /\ s = "evidence" <=> q.op = "materialize"
      /\ s = "work" => q.op \in ServiceOps
  BY <1>2, <1>5 DEF AllOps, OpportunityOps, ServiceOps, ActionOps, Transitions
<1> HIDE DEF q, lock, s
<1>8. ASSUME NEW t \in Transactions, t = [q EXCEPT !.locks = @ \cup {lock}, !.step = s]
      PROVE  Knows(t)
  <2>1. /\ t.op = q.op /\ t.on = q.on /\ t.put = NoPut /\ t.step = s
        /\ t.locks = q.locks \cup {lock}
    BY <1>2, <1>5, <1>8 DEF Transactions
  <2>2. Target(t) = Target(q)
    BY <2>1 DEF Target
  <2>3. \A a : Locked(t, "action", a, "update") => Locked(q, "action", a, "update")
    BY <1>3, <2>1 DEF Locked, Lock
  <2>4. Locked(t, "opp", Target(t), IF t.op = "materialize" THEN "share" ELSE "update")
    BY <1>3, <2>1, <2>2 DEF Locked
  <2>5. Phase(t)
    BY <1>1, <1>2, <1>4, <1>5, <1>7, <2>1 DEF Phase
  <2>6. Guarded(t)
    BY <1>2, <1>4, <1>5, <1>7, <2>1, <2>3, <2>4 DEF Guarded
  <2>7. Sighted(t) /\ Promises(t)
    BY <1>4, <1>7, <2>1 DEF Sighted, Promises, ActionOps
  <2> QED
    BY <2>1, <2>5, <2>6, <2>7, NoPutWrites DEF Knows
<1> QED
  BY <1>3, <1>4, <1>6, <1>8, TakeMove DEF q

LEMMA LockActionMove ==
  ASSUME IInv, NEW c \in Clients, LockAction(c)
  PROVE  LocalMove(c)
<1> DEFINE q == tx[c]
           lock == Lock("action", q.on, "update")
           s == IF q.op \in {"PREPARED", "APPROVED"} THEN "evidence" ELSE "decide"
<1>1. q.step = "action"
  BY DEF LockAction
<1>2. /\ q \in Transactions /\ Phase(q) /\ Guarded(q) /\ q.op \in AllOps
  BY <1>1, Doing
<1>3. q.op \in ActionOps /\ q.on \in ActionIds /\ actions[q.on] # NoAction /\ q.put = NoPut
  BY <1>1, <1>2 DEF Phase
<1>4. lock \in Locks
  BY <1>3 DEF Lock, Locks
<1>5. s \in Steps \ {"idle"} /\ s \in {"evidence", "decide"}
      /\ (s = "evidence" <=> q.op \in {"PREPARED", "APPROVED"})
  BY DEF Steps
<1>6. q.op # "materialize" /\ q.op # "qualify"
  BY <1>3 DEF ActionOps, Transitions
<1>7. CASE ~LifecycleTruth(actions[q.on])
  BY <1>7, RollbackMove DEF LockAction
<1>8. CASE LifecycleTruth(actions[q.on])
  <2>1. Take(c, lock, s) /\ UNCHANGED <<db, env>>
    BY <1>8 DEF LockAction
  <2> HIDE DEF q, lock, s
  <2>2. ASSUME NEW t \in Transactions, t = [q EXCEPT !.locks = @ \cup {lock}, !.step = s]
        PROVE  Knows(t)
    <3>1. /\ t.op = q.op /\ t.on = q.on /\ t.put = NoPut /\ t.step = s
          /\ t.locks = q.locks \cup {lock}
      BY <1>2, <1>3, <2>2 DEF Transactions
    <3>2. Target(t) = Target(q)
      BY <3>1 DEF Target
    <3>3. \A a : Locked(t, "action", a, "update") =>
             Locked(q, "action", a, "update") \/ a = q.on
      BY <3>1 DEF Locked, Lock, lock
    <3>4. Locked(t, "action", t.on, "update")
      BY <3>1 DEF Locked, lock
    <3>5. Phase(t)
      BY <1>1, <1>2, <1>3, <1>5, <1>6, <3>1 DEF Phase
    <3>6. Locked(q, "opp", Target(q), "update")
      BY <1>1, <1>2, <1>6 DEF Guarded
    <3>7. Guarded(t)
      BY <1>2, <1>3, <1>5, <1>6, <3>1, <3>2, <3>3, <3>4, <3>6 DEF Guarded, Locked
    <3>8. Sighted(t) /\ Promises(t)
      BY <1>5, <3>1 DEF Sighted, Promises
    <3> QED
      BY <3>1, <3>5, <3>7, <3>8, NoPutWrites DEF Knows
  <2> QED
    BY <1>4, <1>5, <2>1, <2>2, TakeMove DEF q
<1> QED
  BY <1>7, <1>8

-----------------------------------------------------------------------------
(* Materialization                                                         *)

LEMMA BasisOf ==
  ASSUME Rows, NEW o \in Opportunities
  PROVE  Sound(Basis(o))
<1> DEFINE latest == LatestActivity(o)
           type == IF opps[o].next = NoTitle THEN "CREATE_TASK"
                   ELSE IF \A v \in latest : activities[v].day < today THEN "FOLLOW_UP"
                   ELSE "ADVANCE"
           work == {<<t, tasks[t].status>> : t \in {u \in TaskIds : tasks[u].opp = o}}
           days == IF type = "FOLLOW_UP" THEN {today - activities[v].day : v \in latest} ELSE {}
<1>1. latest \subseteq ActivityIds /\ \A v \in latest : activities[v].opp = o
  BY DEF LatestActivity
<1>2. \A v \in latest : activities[v].day \in 0 .. LastDay
  BY <1>1, RowsAre DEF ActivityRows
<1>3. work \in SUBSET (TaskIds \X {"OPEN", "COMPLETED"})
  BY RowsAre DEF TaskRows
<1>4. today \in 0 .. LastDay /\ LastDay \in Nat
  BY PostgresAssumption DEF Rows
<1>5. days \in SUBSET (0 .. LastDay)
  <2>1. CASE type = "FOLLOW_UP"
    <3>1. \A v \in latest : activities[v].day < today
      BY <2>1
    <3>2. \A v \in latest : today - activities[v].day \in 0 .. LastDay
      BY <1>2, <1>4, <3>1
    <3> QED
      BY <2>1, <3>2
  <2>2. CASE type # "FOLLOW_UP"
    BY <2>2
  <2> QED
    BY <2>1, <2>2
<1>6. type \in {"CREATE_TASK", "FOLLOW_UP", "ADVANCE"}
  OBVIOUS
<1>7. type # "CREATE_TASK" => opps[o].next \in Titles
  BY DEF Rows, OpportunityRows
<1>8. opps[o] \in OpportunityRows /\ prospects[o] \in BOOLEAN /\ latest \in SUBSET ActivityIds
  BY <1>1 DEF Rows
<1>9. Basis(o) = [type |-> type, opp |-> opps[o], prospect |-> prospects[o],
                  latest |-> latest, work |-> work, days |-> days]
  BY DEF Basis
<1> HIDE DEF latest, type, work, days
<1> QED
  BY <1>3, <1>5, <1>6, <1>7, <1>8, <1>9 DEF Sound, Bases

\* The recommendation of an action is the one its opportunity has: its records
\* are the committed ones.
LEMMA CurrentIsOnRecords ==
  ASSUME NEW a, IsCurrent(a)
  PROVE  OnRecords(a)
  BY DEF IsCurrent, Basis, OnRecords

\* A row a transaction has locked for update nobody else writes.
LEMMA LockedIsMine ==
  ASSUME IInv, NEW c \in Clients, NEW d \in Clients \ {c}, NEW a \in ActionIds,
         Locked(tx[c], "action", a, "update")
  PROVE  a \notin DOMAIN tx[d].put.actions
<1> SUFFICES ASSUME a \in DOMAIN tx[d].put.actions PROVE FALSE
  OBVIOUS
<1>1. actions[a] # NoAction
  BY DEF IInv, Knows, Guarded
<1>2. Locked(tx[d], "action", a, "update")
  BY <1>1 DEF IInv, Knows, Writes, Replaces, Inserts
<1>3. Compatible(tx[c], tx[d])
  BY DEF IInv, Apart
<1> QED
  BY <1>2, <1>3 DEF Compatible, Locked, Lock

LEMMA ReadEvidenceMove ==
  ASSUME IInv, NEW c \in Clients, ReadEvidence(c)
  PROVE  LocalMove(c)
<1> DEFINE q == tx[c]
           lock == ProspectLock(c)
           b == Basis(q.on)
           t == [q EXCEPT !.locks = @ \cup {lock}, !.basis = b, !.step = "snapshot"]
<1>1. q.step = "evidence" /\ q.op = "materialize"
  BY DEF ReadEvidence
<1>2. /\ q \in Transactions /\ Phase(q) /\ Guarded(q) /\ Opp(c) = Target(q)
      /\ Target(q) \in Opportunities
  BY <1>1, Doing
<1>3. CASE Closed(q.on)
  BY <1>3, RollbackMove DEF ReadEvidence
<1>4. CASE ~Closed(q.on)
  <2>1. /\ Grantable(c, lock) /\ UNCHANGED <<db, env>>
        /\ tx' = [tx EXCEPT ![c].locks = @ \cup {lock}, ![c].basis = b, ![c].step = "snapshot"]
    BY <1>4 DEF ReadEvidence
  <2>2. tx \in [Clients -> Transactions] /\ Rows
    BY DEF IInv, Typed
  <2>3. tx' = [tx EXCEPT ![c] = t]
    BY <2>1, <2>2
  <2>4. q.put = NoPut /\ q.on \in Opportunities
    BY <1>1, <1>2 DEF Phase, OpportunityOps
  <2>5. Sound(b) /\ b \in Bases
    BY <2>2, <2>4, BasisOf DEF Sound
  <2>6. lock \in Locks /\ \A a : lock # Lock("action", a, "update")
    BY <1>2 DEF ProspectLock, Lock, Locks
  <2> HIDE DEF b, lock
  <2>7. /\ t \in Transactions /\ t.op = q.op /\ t.on = q.on /\ t.put = q.put
        /\ t.step = "snapshot" /\ t.locks = q.locks \cup {lock} /\ t.basis = b
    BY <1>2, <2>5, <2>6 DEF Transactions, Steps
  <2> HIDE DEF t
  <2>8. Phase(t)
    BY <1>1, <1>2, <2>4, <2>5, <2>7 DEF Phase
  <2>9. Guarded(t)
    BY <1>1, <1>2, <2>6, <2>7 DEF Guarded, Locked, Target, ActionOps, Transitions
  <2>10. Sighted(t) /\ Promises(t)
    BY <1>1, <2>7 DEF Sighted, Promises
  <2>11. Writes(t)
    BY <2>4, <2>7, NoPutWrites
  <2>12. \A d \in Clients \ {c} : Apart(t, tx[d])
    BY <2>1, <2>7, Granted DEF q
  <2> QED
    BY <2>1, <2>3, <2>7, <2>8, <2>9, <2>10, <2>11, <2>12 DEF LocalMove, Local, Allowed, Knows
<1> QED
  BY <1>3, <1>4

LEMMA SelectActiveMove ==
  ASSUME IInv, NEW c \in Clients, SelectActive(c)
  PROVE  LocalMove(c)
<1> DEFINE q == tx[c]
           t == [q EXCEPT !.queue = ActiveActions(q.on), !.step = "active"]
<1>1. q.step = "snapshot"
  BY DEF SelectActive
<1>2. /\ q \in Transactions /\ Phase(q) /\ Guarded(q) /\ Target(q) \in Opportunities
  BY <1>1, Doing
<1>3. tx \in [Clients -> Transactions] /\ Rows
  BY DEF IInv, Typed
<1>4. tx' = [tx EXCEPT ![c] = t] /\ UNCHANGED <<db, env>>
  BY <1>3 DEF SelectActive
<1>5. q.op = "materialize" /\ q.put = NoPut /\ q.on \in Opportunities
  BY <1>1, <1>2 DEF Phase, OpportunityOps
<1>6. /\ ActiveActions(q.on) \in SUBSET ActionIds
      /\ \A a \in ActiveActions(q.on) : actions[a] # NoAction /\ actions[a].opp = q.on
  BY <1>3, <1>5, RowsAre DEF ActiveActions, ACTIVE_ACTION_STATUSES
<1>7. /\ t \in Transactions /\ t.op = q.op /\ t.on = q.on /\ t.put = q.put /\ t.basis = q.basis
      /\ t.step = "active" /\ t.locks = q.locks /\ t.queue = ActiveActions(q.on)
  BY <1>2, <1>6 DEF Transactions, Steps
<1> HIDE DEF t
<1>8. Phase(t)
  BY <1>1, <1>2, <1>5, <1>6, <1>7 DEF Phase
<1>9. Guarded(t)
  BY <1>1, <1>2, <1>5, <1>7 DEF Guarded, Locked, Target, ActionOps, Transitions
<1>10. Sighted(t) /\ Promises(t)
  BY <1>5, <1>7 DEF Sighted, Promises
<1>11. Writes(t)
  BY <1>5, <1>7, NoPutWrites
<1>12. \A d \in Clients \ {c} : Apart(t, tx[d])
  BY <1>7, SameLocks
<1> QED
  BY <1>4, <1>7, <1>8, <1>9, <1>10, <1>11, <1>12 DEF LocalMove, Local, Allowed, Knows

LEMMA LockNextActiveMove ==
  ASSUME IInv, NEW c \in Clients, LockNextActive(c)
  PROVE  LocalMove(c)
<1> DEFINE q == tx[c]
           a == First(q.queue)
           lock == Lock("action", a, "update")
           t == [q EXCEPT !.queue = @ \ {a}, !.locks = @ \cup {lock}]
<1>1. q.step = "active" /\ q.queue # {} /\ Grantable(c, lock) /\ UNCHANGED <<db, env>>
  BY DEF LockNextActive
<1>2. q \in Transactions /\ Phase(q) /\ Guarded(q)
  BY <1>1, Doing
<1>3. tx \in [Clients -> Transactions]
  BY DEF IInv, Typed
<1>4. tx' = [tx EXCEPT ![c] = t]
  BY <1>3 DEF LockNextActive
<1>5. q.op = "materialize" /\ q.put = NoPut /\ q.on \in Opportunities
  BY <1>1, <1>2 DEF Phase, OpportunityOps
<1>6. q.queue \in SUBSET ActionIds /\ q.queue \in SUBSET Nat
  BY <1>2 DEF Transactions, ActionIds
<1>7. a \in q.queue /\ a \in ActionIds
  BY <1>1, <1>6, FirstInSet
<1>8. actions[a] # NoAction
  BY <1>1, <1>2, <1>7 DEF Phase
<1> HIDE DEF a
<1>9. lock \in Locks
  BY <1>7 DEF Lock, Locks
<1>10. /\ t \in Transactions /\ t.op = q.op /\ t.on = q.on /\ t.put = q.put /\ t.basis = q.basis
       /\ t.step = q.step /\ t.locks = q.locks \cup {lock} /\ t.queue \subseteq q.queue
  BY <1>2, <1>6, <1>9 DEF Transactions
<1> HIDE DEF t
<1>11. Phase(t)
  BY <1>1, <1>2, <1>5, <1>10 DEF Phase
<1>12. Guarded(t)
  <2>1. ASSUME NEW x \in ActionIds, Locked(t, "action", x, "update") PROVE actions[x] # NoAction
    BY <1>2, <1>8, <1>10, <2>1 DEF Guarded, Locked, Lock
  <2>2. Locked(t, "opp", Target(t), "share")
    BY <1>1, <1>2, <1>5, <1>10 DEF Guarded, Locked, Target
  <2> QED
    BY <1>1, <1>5, <1>10, <2>1, <2>2 DEF Guarded, ActionOps, Transitions
<1>13. Sighted(t) /\ Promises(t)
  BY <1>1, <1>5, <1>10 DEF Sighted, Promises
<1>14. Writes(t)
  BY <1>5, <1>10, NoPutWrites
<1>15. \A d \in Clients \ {c} : Apart(t, tx[d])
  BY <1>1, <1>10, Granted
<1> QED
  BY <1>1, <1>4, <1>10, <1>11, <1>12, <1>13, <1>14, <1>15
     DEF LocalMove, Local, Allowed, Knows

-----------------------------------------------------------------------------
(* The last statement before COMMIT                                        *)

\* The transaction of client c once it is ready to commit `put'.
Readied(c, put, answer, t) ==
    /\ t \in Transactions
    /\ t.op = tx[c].op /\ t.on = tx[c].on /\ t.locks = tx[c].locks /\ t.basis = tx[c].basis
    /\ t.put = put /\ t.step = "commit" /\ t.answer = answer

LEMMA ReadyMove ==
  ASSUME IInv, NEW c \in Clients, NEW put \in PutRows,
         NEW answer \in {"done", "duplicate", "failed", "superseded"},
         Ready(c, put, answer),
         tx[c].step \in {"decide", "evidence", "active", "insert", "effects", "marking", "work"},
         tx[c].op = "materialize" => tx[c].step \in {"active", "insert"},
         \A t : Readied(c, put, answer, t) =>
            /\ Writes(t) /\ Promises(t)
            /\ \A d \in Clients \ {c} : Disjoint(t, tx[d]) /\ ~Twins(t, tx[d])
  PROVE  LocalMove(c)
<1> DEFINE q == tx[c]
           t == [q EXCEPT !.put = put, !.step = "commit", !.answer = answer]
<1>1. tx \in [Clients -> Transactions] /\ q \in Transactions
  BY DEF IInv, Typed
<1>2. tx' = [tx EXCEPT ![c] = t] /\ UNCHANGED <<db, env>>
  BY <1>1 DEF Ready
<1>3. Phase(q) /\ Guarded(q)
  BY Doing
<1>4. /\ t \in Transactions /\ t.op = q.op /\ t.on = q.on /\ t.locks = q.locks
      /\ t.basis = q.basis /\ t.put = put /\ t.step = "commit" /\ t.answer = answer
  BY <1>1 DEF Transactions, Steps, Answers
<1> HIDE DEF t
<1>5. Readied(c, put, answer, t)
  BY <1>4 DEF Readied
<1>6. Writes(t) /\ Promises(t) /\ \A d \in Clients \ {c} : Disjoint(t, tx[d]) /\ ~Twins(t, tx[d])
  BY <1>5
<1>7. q.op # "qualify"
  BY <1>3 DEF Phase
<1>8. Phase(t)
  BY <1>3, <1>4, <1>7 DEF Phase
<1>9. Target(t) = Target(q)
  BY <1>4 DEF Target
<1>10. q.op \in ActionOps => Locked(q, "action", q.on, "update")
  BY <1>3 DEF Guarded, Phase, ServiceOps, ActionOps, Transitions
<1>11. Guarded(t)
  BY <1>3, <1>4, <1>7, <1>9, <1>10 DEF Guarded, Locked
<1>12. Sighted(t)
  BY <1>4 DEF Sighted
<1>13. ASSUME NEW d \in Clients \ {c} PROVE Apart(t, tx[d])
  <2>1. Compatible(q, tx[d])
    BY DEF IInv, Apart
  <2> QED
    BY <1>4, <1>6, <2>1 DEF Apart, Compatible
<1> QED
  BY <1>2, <1>4, <1>6, <1>8, <1>11, <1>12, <1>13 DEF LocalMove, Local, Allowed, Knows

\* Rows of actions that client c has locked are written by nobody else, and are
\* no insert.
LEMMA LockedPut ==
  ASSUME IInv, NEW c \in Clients, NEW t, NEW d \in Clients \ {c},
         t.put.tasks = Empty, t.put.activities = Empty,
         DOMAIN t.put.actions \subseteq ActionIds,
         \A a \in DOMAIN t.put.actions : Locked(tx[c], "action", a, "update")
  PROVE  Disjoint(t, tx[d]) /\ ~Twins(t, tx[d])
<1>1. \A a \in DOMAIN t.put.actions : a \notin DOMAIN tx[d].put.actions
  BY LockedIsMine
<1>2. \A a \in DOMAIN t.put.actions : actions[a] # NoAction
  BY DEF IInv, Knows, Guarded
<1>3. DOMAIN t.put.tasks = {} /\ DOMAIN t.put.activities = {}
  BY DEF Empty
<1> QED
  BY <1>1, <1>2, <1>3 DEF Disjoint, Twins

\* The rows SupersedeActive writes.
LEMMA SupersededRows ==
  ASSUME IInv, NEW c \in Clients, tx[c].step = "active"
  PROVE  LET cancelled == [a \in Superseded(c) |->
                             Cancelled(actions[a], "SUPERSEDED_BY_CURRENT_RECOMMENDATION")]
         IN  /\ cancelled \in Partial(ActionIds, ActionRows)
             /\ DOMAIN cancelled = Superseded(c)
             /\ \A a \in Superseded(c) :
                   /\ a \in ActionIds /\ actions[a] # NoAction
                   /\ actions[a].status \notin Terminal
                   /\ Locked(tx[c], "action", a, "update")
                   /\ actions[a].opp = tx[c].on /\ actions[a].basis # tx[c].basis
                   /\ cancelled[a].opp = actions[a].opp /\ cancelled[a].basis = actions[a].basis
                   /\ cancelled[a].status = "CANCELLED"
<1> DEFINE e == "SUPERSEDED_BY_CURRENT_RECOMMENDATION"
           cancelled == [a \in Superseded(c) |-> Cancelled(actions[a], e)]
<1>1. Rows
  BY DEF IInv, Typed
<1>2. ASSUME NEW a \in Superseded(c)
      PROVE  /\ a \in ActionIds /\ actions[a] \in ActionRows /\ actions[a] # NoAction
             /\ actions[a].status \notin Terminal
             /\ Locked(tx[c], "action", a, "update")
             /\ actions[a].opp = tx[c].on /\ actions[a].basis # tx[c].basis
  <2>1. a \in ActionIds /\ actions[a].status \in ACTIVE_ACTION_STATUSES
    BY DEF Superseded, LockedActive, ActiveActions
  <2>2. actions[a] # NoAction
    BY <2>1 DEF NoAction, ACTIVE_ACTION_STATUSES
  <2>3. actions[a].status \notin Terminal
    BY <2>1 DEF Terminal, ACTIVE_ACTION_STATUSES
  <2> QED
    BY <1>1, <2>1, <2>2, <2>3, RowsAre DEF Superseded, LockedActive, ActiveActions, Locked
<1>3. e \in Cancelling
  BY DEF Cancelling
<1>4. \A a \in Superseded(c) :
         /\ Cancelled(actions[a], e) \in ActionRows
         /\ Cancelled(actions[a], e).opp = actions[a].opp
         /\ Cancelled(actions[a], e).basis = actions[a].basis
         /\ Cancelled(actions[a], e).status = "CANCELLED"
  BY <1>2, <1>3, CancelledRow
<1>5. cancelled \in [Superseded(c) -> ActionRows] /\ Superseded(c) \in SUBSET ActionIds
  BY <1>2, <1>4
<1>6. cancelled \in Partial(ActionIds, ActionRows)
  BY <1>5, PartialFrom
<1> HIDE DEF e
<1>7. \A a \in Superseded(c) : cancelled[a] = Cancelled(actions[a], e)
  OBVIOUS
<1> QED
  BY <1>2, <1>4, <1>5, <1>6, <1>7 DEF e

LEMMA SupersedeActiveMove ==
  ASSUME IInv, NEW c \in Clients, SupersedeActive(c)
  PROVE  LocalMove(c)
<1> DEFINE q == tx[c]
           same == LockedActive(c) \ Superseded(c)
           cancelled == [a \in Superseded(c) |->
                            Cancelled(actions[a], "SUPERSEDED_BY_CURRENT_RECOMMENDATION")]
           put == [q.put EXCEPT !.actions = cancelled]
<1>1. q.step = "active"
  BY DEF SupersedeActive
<1>2. /\ q \in Transactions /\ Phase(q) /\ Guarded(q)
      /\ tx \in [Clients -> Transactions] /\ Rows
  BY <1>1, Doing DEF IInv, Typed
<1>3. q.op = "materialize" /\ q.put = NoPut /\ q.on \in Opportunities
  BY <1>1, <1>2 DEF Phase, OpportunityOps
<1>4. /\ cancelled \in Partial(ActionIds, ActionRows) /\ DOMAIN cancelled = Superseded(c)
      /\ \A a \in Superseded(c) :
            /\ a \in ActionIds /\ actions[a] # NoAction
            /\ actions[a].status \notin Terminal
            /\ Locked(q, "action", a, "update")
            /\ actions[a].opp = q.on /\ actions[a].basis # q.basis
            /\ cancelled[a].opp = actions[a].opp /\ cancelled[a].basis = actions[a].basis
            /\ cancelled[a].status = "CANCELLED"
  BY <1>1, SupersededRows
<1> HIDE DEF cancelled
<1>5. /\ put \in PutRows /\ put.actions = cancelled /\ put.opps = Empty /\ put.prospects = Empty
      /\ put.tasks = Empty /\ put.activities = Empty
  BY <1>3, <1>4, NoPutTyped DEF NoPut, PutRows
<1>6. /\ DOMAIN put.opps = {} /\ DOMAIN put.prospects = {} /\ DOMAIN put.tasks = {}
      /\ DOMAIN put.activities = {}
  BY <1>5 DEF Empty
<1>7. \/ Rollback(c, "refused")
      \/ same # {} /\ Ready(c, put, "duplicate")
      \/ /\ tx' = [tx EXCEPT ![c].put.actions = cancelled, ![c].step = "insert"]
         /\ UNCHANGED <<db, env>>
  BY DEF SupersedeActive, cancelled
<1> HIDE DEF put
<1>8. ASSUME NEW t, t.put = put, t.locks = q.locks, t.op = q.op, t.on = q.on,
             t.basis = q.basis
      PROVE  /\ Writes(t)
             /\ \A d \in Clients \ {c} : Disjoint(t, tx[d]) /\ ~Twins(t, tx[d])
  <2>1. ASSUME NEW a \in DOMAIN t.put.actions PROVE Replaces(t, a)
    BY <1>3, <1>4, <1>5, <1>8, <2>1 DEF Replaces, Locked, Lawful
  <2>2. Writes(t)
    BY <1>3, <1>6, <1>8, <2>1 DEF Writes, Effects, Executes
  <2>3. \A d \in Clients \ {c} : Disjoint(t, tx[d]) /\ ~Twins(t, tx[d])
    BY <1>4, <1>5, <1>8, LockedPut
  <2> QED
    BY <2>2, <2>3
<1>9. CASE same # {} /\ Ready(c, put, "duplicate")
  <2>1. PICK b \in same : TRUE
    BY <1>9
  <2>2. /\ b \in ActionIds /\ b \notin Superseded(c) /\ Locked(q, "action", b, "update")
        /\ actions[b].opp = q.on /\ actions[b].basis = q.basis
        /\ actions[b].status \in ACTIVE_ACTION_STATUSES
    BY <2>1 DEF LockedActive, Superseded, ActiveActions, Locked
  <2> HIDE DEF same
  <2>3. ASSUME NEW t, Readied(c, put, "duplicate", t) PROVE Promises(t)
    <3>1. /\ t.put = put /\ t.locks = q.locks /\ t.op = q.op /\ t.on = q.on
          /\ t.basis = q.basis /\ t.answer = "duplicate"
      BY <2>3 DEF Readied
    <3>2. After(t, b) = actions[b] /\ Locked(t, "action", b, "update")
      BY <1>4, <1>5, <2>2, <3>1 DEF After, Locked
    <3> QED
      BY <1>3, <2>2, <3>1, <3>2 DEF Promises, Transitions
  <2>4. \A t : Readied(c, put, "duplicate", t) =>
            /\ Writes(t) /\ Promises(t)
            /\ \A d \in Clients \ {c} : Disjoint(t, tx[d]) /\ ~Twins(t, tx[d])
    BY <1>8, <2>3 DEF Readied
  <2> QED
    BY <1>1, <1>5, <1>9, <2>4, ReadyMove
<1>10. CASE /\ tx' = [tx EXCEPT ![c].put.actions = cancelled, ![c].step = "insert"]
            /\ UNCHANGED <<db, env>>
  <2> DEFINE t == [q EXCEPT !.put = put, !.step = "insert"]
  <2>1. tx' = [tx EXCEPT ![c] = t]
    BY <1>2, <1>10 DEF put
  <2>2. /\ t \in Transactions /\ t.op = q.op /\ t.on = q.on /\ t.put = put /\ t.basis = q.basis
        /\ t.step = "insert" /\ t.locks = q.locks
    BY <1>2, <1>5 DEF Transactions, Steps
  <2> HIDE DEF t
  <2>3. Phase(t)
    BY <1>1, <1>2, <1>3, <2>2 DEF Phase
  <2>4. Guarded(t)
    BY <1>1, <1>2, <1>3, <2>2 DEF Guarded, Locked, Target, ActionOps, Transitions
  <2>5. Sighted(t) /\ Promises(t)
    BY <1>3, <2>2 DEF Sighted, Promises
  <2>6. Writes(t) /\ \A d \in Clients \ {c} : Disjoint(t, tx[d]) /\ ~Twins(t, tx[d])
    BY <1>8, <2>2
  <2>7. ASSUME NEW d \in Clients \ {c} PROVE Apart(t, tx[d])
    <3>1. Compatible(q, tx[d])
      BY DEF IInv, Apart
    <3> QED
      BY <2>2, <2>6, <3>1 DEF Apart, Compatible
  <2> QED
    BY <1>10, <2>1, <2>2, <2>3, <2>4, <2>5, <2>6, <2>7 DEF LocalMove, Local, Allowed, Knows
<1> QED
  BY <1>7, <1>9, <1>10, RollbackMove

\* A row inserted under an id nobody has.
LEMMA InsertMove ==
  ASSUME IInv, NEW c \in Clients, Insert(c)
  PROVE  LocalMove(c)
<1> DEFINE q == tx[c]
           a == First(UnusedActions)
           new == [NoAction EXCEPT !.opp = q.on, !.basis = q.basis, !.status = "RECOMMENDED",
                                   !.audit = <<"CREATED_AS_RECOMMENDED">>]
           put == PutAction(c, a, new)
<1>1. q.step = "insert" /\ ~IdentityInDoubt(c)
  BY DEF Insert
<1>2. /\ q \in Transactions /\ Phase(q) /\ Guarded(q) /\ Writes(q)
      /\ tx \in [Clients -> Transactions] /\ Rows
  BY <1>1, Doing DEF IInv, Typed
<1>3. q.op = "materialize" /\ q.on \in Opportunities /\ Sound(q.basis)
  BY <1>1, <1>2 DEF Phase, OpportunityOps
<1>4. ASSUME NEW x \in DOMAIN q.put.actions PROVE Replaces(q, x)
  BY <1>1, <1>2 DEF Writes, Inserts
<1>5. /\ DOMAIN q.put.opps = {} /\ DOMAIN q.put.prospects = {} /\ DOMAIN q.put.tasks = {}
      /\ DOMAIN q.put.activities = {}
  BY <1>1, <1>2 DEF Writes, Owns
<1>6. CASE SameIdentity(c) = {}
  <2>1. Ready(c, put, "done") /\ UnusedActions # {}
    BY <1>6 DEF Insert
  <2>2. UnusedActions \in SUBSET Nat
    BY UnusedAre DEF ActionIds
  <2>3. /\ a \in UnusedActions /\ a \in ActionIds /\ actions[a] = NoAction
        /\ \A d \in Clients : a \notin DOMAIN tx[d].put.actions
    BY <2>1, <2>2, FirstInSet, UnusedAre
  <2> HIDE DEF a
  <2>4. /\ new.opp = q.on /\ new.basis = q.basis /\ new.status = "RECOMMENDED"
        /\ new \in ActionRows
    <3>1. <<"CREATED_AS_RECOMMENDED">> \in Seq(Entries)
      BY DEF Entries
    <3>2. PICK s \in Seq(Entries) : s = <<"CREATED_AS_RECOMMENDED">>
      BY <3>1, Zenon
    <3>3. q.basis \in Bases
      BY <1>3 DEF Sound
    <3>4. new = NewAction(q.on, q.basis, s)
      BY <3>2, Zenon DEF NewAction
    <3> HIDE DEF new
    <3> DEFINE r == NewAction(q.on, q.basis, s)
    <3>5. r \in ActionRows /\ r.opp = q.on /\ r.basis = q.basis /\ r.status = "RECOMMENDED"
      BY <1>3, <3>3, NewRow
    <3> QED
      BY <3>4, <3>5
  <2> HIDE DEF new
  <2>5. q.put \in PutRows /\ q.put.actions \in Partial(ActionIds, ActionRows)
    BY <1>2 DEF Transactions, PutRows
  <2>6. /\ DOMAIN q.put.actions \subseteq ActionIds
        /\ \A x \in DOMAIN q.put.actions : q.put.actions[x] \in ActionRows
    BY <2>5, PartialIs
  <2> DEFINE rows == With(q.put.actions, a, new)
  <2>7. /\ DOMAIN rows = DOMAIN q.put.actions \cup {a} /\ rows[a] = new
        /\ \A x \in DOMAIN q.put.actions : rows[x] = q.put.actions[x]
        /\ rows \in [DOMAIN q.put.actions \cup {a} -> ActionRows]
    BY <2>3, <2>4, <2>6 DEF With
  <2> HIDE DEF rows
  <2>8. rows \in Partial(ActionIds, ActionRows)
    BY <2>3, <2>6, <2>7, PartialFrom
  <2>9. put = [q.put EXCEPT !.actions = rows]
    BY DEF PutAction, rows
  <2> HIDE DEF put
  <2>10. /\ put \in PutRows /\ put.actions = rows /\ put.opps = q.put.opps
         /\ put.prospects = q.put.prospects /\ put.tasks = q.put.tasks
         /\ put.activities = q.put.activities
    BY <2>5, <2>8, <2>9 DEF PutRows
  <2>11. ASSUME NEW t, Readied(c, put, "done", t)
         PROVE  /\ Writes(t) /\ Promises(t)
                /\ \A d \in Clients \ {c} : Disjoint(t, tx[d]) /\ ~Twins(t, tx[d])
    <3>1. /\ t.put = put /\ t.locks = q.locks /\ t.op = q.op /\ t.on = q.on
          /\ t.basis = q.basis /\ t.answer = "done" /\ t.step = "commit"
      BY <2>11 DEF Readied
    <3>2. ASSUME NEW x \in DOMAIN q.put.actions PROVE Replaces(t, x)
      <4>1. Replaces(q, x) /\ t.put.actions[x] = q.put.actions[x]
        BY <1>4, <2>7, <2>10, <3>1, <3>2
      <4> QED
        BY <3>1, <4>1 DEF Replaces, Locked
    <3>3. Same(t) = {b \in ActionIds : actions[b].opp = q.on /\ actions[b].basis = q.basis}
      BY <3>1 DEF Same
    <3>4. ASSUME NEW b \in Same(t) PROVE actions[b].status \in Terminal
      <4>1. b \in ActionIds /\ actions[b].opp = q.on /\ actions[b].basis = q.basis
        BY <3>3, <3>4
      <4>2. actions[b] \in ActionRows
        BY <1>2, <1>3, <4>1, RowsAre
      <4>3. actions[b].status \notin ACTIVE_ACTION_STATUSES
        BY <1>6, <4>1 DEF SameIdentity, ActiveActions
      <4> QED
        BY <4>2, <4>3 DEF ActionRows
    <3>5. Inserts(t, a)
      <4>1. \A b \in DOMAIN t.put.actions : actions[b] = NoAction => b = a
        BY <2>7, <2>10, <3>1, <3>2 DEF Replaces
      <4> QED
        BY <1>3, <2>3, <2>4, <2>7, <2>10, <3>1, <3>4, <4>1 DEF Inserts
    <3>6. Writes(t)
      BY <1>3, <1>5, <2>7, <2>10, <3>1, <3>2, <3>5 DEF Writes, Effects, Executes
    <3>7. Promises(t)
      <4>1. After(t, a) = new
        BY <2>7, <2>10, <3>1 DEF After
      <4> QED
        BY <1>3, <2>3, <2>4, <2>7, <2>10, <3>1, <4>1
           DEF Promises, Transitions, ACTIVE_ACTION_STATUSES
    <3>8. ASSUME NEW d \in Clients \ {c} PROVE Disjoint(t, tx[d]) /\ ~Twins(t, tx[d])
      <4>1. Disjoint(q, tx[d])
        BY DEF IInv, Apart
      <4>2. a \notin DOMAIN tx[d].put.actions
        BY <2>3
      <4>3. Disjoint(t, tx[d])
        BY <2>7, <2>10, <3>1, <4>1, <4>2 DEF Disjoint
      <4>4. \A x \in DOMAIN tx[d].put.actions :
              ~(tx[d].put.actions[x].opp = q.on /\ tx[d].put.actions[x].basis = q.basis)
        BY <1>1 DEF IdentityInDoubt
      <4>5. \A x \in DOMAIN q.put.actions : actions[x] # NoAction
        BY <3>2 DEF Replaces
      <4>6. ~Twins(t, tx[d])
        BY <2>4, <2>7, <2>10, <3>1, <4>4, <4>5 DEF Twins
      <4> QED
        BY <4>3, <4>6
    <3> QED
      BY <3>6, <3>7, <3>8
  <2> QED
    BY <1>1, <2>1, <2>10, <2>11, ReadyMove
<1>7. CASE SameIdentity(c) # {}
  <2> DEFINE t == [q EXCEPT !.queue = SameIdentity(c), !.step = "existing"]
  <2>1. tx' = [tx EXCEPT ![c] = t] /\ UNCHANGED <<db, env>>
    BY <1>2, <1>7 DEF Insert
  <2>2. /\ SameIdentity(c) \in SUBSET ActionIds
        /\ SameIdentity(c) \subseteq {b \in ActionIds : actions[b].opp = q.on
                                                       /\ actions[b].basis = q.basis}
    BY DEF SameIdentity, ActiveActions
  <2>3. /\ t \in Transactions /\ t.op = q.op /\ t.on = q.on /\ t.put = q.put /\ t.basis = q.basis
        /\ t.step = "existing" /\ t.locks = q.locks /\ t.queue = SameIdentity(c)
    BY <1>2, <2>2 DEF Transactions, Steps
  <2> HIDE DEF t
  <2>4. Phase(t)
    BY <1>1, <1>2, <1>3, <1>7, <2>2, <2>3 DEF Phase, Same
  <2>5. Guarded(t)
    BY <1>1, <1>2, <1>3, <2>3 DEF Guarded, Locked, Target, ActionOps, Transitions
  <2>6. Sighted(t) /\ Promises(t)
    BY <1>3, <2>3 DEF Sighted, Promises
  <2>7. \A x \in DOMAIN q.put.actions : Replaces(t, x)
    BY <1>4, <2>3 DEF Replaces, Locked
  <2>8. Writes(t)
    BY <1>3, <1>5, <2>3, <2>7 DEF Writes, Effects, Executes
  <2>9. \A d \in Clients \ {c} : Apart(t, tx[d])
    BY <2>3, SameLocks
  <2> QED
    BY <2>1, <2>3, <2>4, <2>5, <2>6, <2>8, <2>9 DEF LocalMove, Local, Allowed, Knows
<1> QED
  BY <1>6, <1>7

LEMMA LockExistingMove ==
  ASSUME IInv, NEW c \in Clients, LockExisting(c)
  PROVE  LocalMove(c)
<1> DEFINE q == tx[c]
           a == First(q.queue)
           lock == Lock("action", a, "update")
           t == [q EXCEPT !.locks = @ \cup {lock}, !.step = "commit", !.answer = "duplicate"]
<1>1. q.step = "existing" /\ Grantable(c, lock)
  BY DEF LockExisting
<1>2. /\ q \in Transactions /\ Phase(q) /\ Guarded(q) /\ Writes(q)
      /\ tx \in [Clients -> Transactions] /\ Rows
  BY <1>1, Doing DEF IInv, Typed
<1>3. /\ q.op = "materialize" /\ q.on \in Opportunities /\ Sound(q.basis)
      /\ q.queue # {} /\ q.queue \subseteq Same(q)
  BY <1>1, <1>2 DEF Phase, OpportunityOps
<1>4. q.queue \in SUBSET Nat
  BY <1>2 DEF Transactions, ActionIds
<1>5. a \in ActionIds /\ actions[a].opp = q.on /\ actions[a].basis = q.basis
  BY <1>3, <1>4, FirstInSet DEF Same
<1>6. CASE actions[a].status \notin ACTIVE_ACTION_STATUSES
  BY <1>6, RollbackMove DEF LockExisting
<1>7. CASE actions[a].status \in ACTIVE_ACTION_STATUSES
  <2>1. tx' = [tx EXCEPT ![c] = t] /\ UNCHANGED <<db, env>>
    BY <1>2, <1>7 DEF LockExisting
  <2>2. actions[a] # NoAction
    BY <1>7 DEF NoAction, ACTIVE_ACTION_STATUSES
  <2> HIDE DEF a
  <2>3. lock \in Locks
    BY <1>5 DEF Lock, Locks
  <2>4. /\ t \in Transactions /\ t.op = q.op /\ t.on = q.on /\ t.put = q.put /\ t.basis = q.basis
        /\ t.step = "commit" /\ t.locks = q.locks \cup {lock} /\ t.answer = "duplicate"
    BY <1>2, <2>3 DEF Transactions, Steps, Answers
  <2> HIDE DEF t
  <2>5. Phase(t)
    BY <1>1, <1>2, <1>3, <2>4 DEF Phase
  <2>6. Guarded(t)
    <3>1. ASSUME NEW x \in ActionIds, Locked(t, "action", x, "update") PROVE actions[x] # NoAction
      BY <1>2, <2>2, <2>4, <3>1 DEF Guarded, Locked, Lock
    <3>2. Locked(t, "opp", Target(t), "share")
      BY <1>1, <1>2, <1>3, <2>4 DEF Guarded, Locked, Target
    <3> QED
      BY <1>1, <1>3, <2>4, <3>1, <3>2 DEF Guarded, ActionOps, Transitions
  <2>7. ASSUME NEW x \in DOMAIN q.put.actions PROVE Replaces(q, x) /\ Replaces(t, x)
    <3>1. Replaces(q, x)
      BY <1>1, <1>2, <2>7 DEF Writes, Inserts
    <3> QED
      BY <2>4, <3>1 DEF Replaces, Locked
  <2>8. /\ DOMAIN q.put.opps = {} /\ DOMAIN q.put.prospects = {} /\ DOMAIN q.put.tasks = {}
        /\ DOMAIN q.put.activities = {}
    BY <1>1, <1>2 DEF Writes, Owns
  <2>9. Writes(t)
    BY <1>3, <2>4, <2>7, <2>8 DEF Writes, Effects, Executes
  <2>10. Promises(t)
    <3>1. a \notin DOMAIN t.put.actions
      BY <1>3, <1>5, <2>4, <2>7 DEF Replaces
    <3>2. After(t, a) = actions[a] /\ Locked(t, "action", a, "update")
      BY <2>4, <3>1 DEF After, Locked
    <3> QED
      BY <1>3, <1>5, <1>7, <2>4, <3>2 DEF Promises, Transitions
  <2>11. Sighted(t)
    BY <1>3, <2>4 DEF Sighted
  <2>12. \A d \in Clients \ {c} : Apart(t, tx[d])
    BY <1>1, <2>4, Granted
  <2> QED
    BY <2>1, <2>4, <2>5, <2>6, <2>9, <2>10, <2>11, <2>12 DEF LocalMove, Local, Allowed, Knows
<1> QED
  BY <1>6, <1>7

-----------------------------------------------------------------------------
(* Transitions                                                             *)

\* Nothing to write.
LEMMA NothingReady ==
  ASSUME IInv, NEW c \in Clients, NEW answer \in {"done", "duplicate", "failed", "superseded"},
         tx[c].put = NoPut,
         NEW t, Readied(c, NoPut, answer, t)
  PROVE  /\ Writes(t) /\ After(t, t.on) = actions[t.on]
         /\ \A d \in Clients \ {c} : Disjoint(t, tx[d]) /\ ~Twins(t, tx[d])
<1>1. t.put = NoPut /\ t.locks = tx[c].locks
  BY DEF Readied
<1>2. DOMAIN t.put.actions = {}
  BY <1>1 DEF NoPut, Empty
<1>3. Writes(t)
  BY <1>1, NoPutWrites
<1>4. \A d \in Clients \ {c} : Apart(t, tx[d])
  BY <1>1, SameLocks
<1> QED
  BY <1>2, <1>3, <1>4 DEF Apart, After

\* The row of the action a request is about, changed.
LEMMA OneRowPut ==
  ASSUME IInv, NEW c \in Clients, tx[c].op \in ActionOps, tx[c].put = NoPut,
         tx[c].on \in ActionIds, NEW new \in ActionRows
  PROVE  /\ PutAction(c, tx[c].on, new) \in PutRows
         /\ PutAction(c, tx[c].on, new).actions = [b \in {tx[c].on} |-> new]
         /\ PutAction(c, tx[c].on, new).opps = Empty
         /\ PutAction(c, tx[c].on, new).prospects = Empty
         /\ PutAction(c, tx[c].on, new).tasks = Empty
         /\ PutAction(c, tx[c].on, new).activities = Empty
<1> DEFINE a == tx[c].on
           rows == [b \in {a} |-> new]
           put == [NoPut EXCEPT !.actions = rows]
<1>1. With(Empty, a, new) = rows
  BY DEF With, Empty
<1>2. NoPut.actions = Empty
  BY DEF NoPut
<1>3. PutAction(c, a, new) = put
  BY <1>1, <1>2 DEF PutAction
<1>4. rows \in [{a} -> ActionRows] /\ {a} \in SUBSET ActionIds
  OBVIOUS
<1>5. rows \in Partial(ActionIds, ActionRows)
  BY <1>4, PartialFrom
<1> HIDE DEF rows
<1>6. /\ put \in PutRows /\ put.actions = rows /\ put.opps = Empty /\ put.prospects = Empty
      /\ put.tasks = Empty /\ put.activities = Empty
  BY <1>5, NoPutTyped DEF NoPut, PutRows
<1> HIDE DEF put
<1> QED
  BY <1>3, <1>6 DEF rows

LEMMA OneRowReady ==
  ASSUME IInv, NEW c \in Clients, tx[c].op \in ActionOps, tx[c].put = NoPut,
         tx[c].on \in ActionIds, Locked(tx[c], "action", tx[c].on, "update"),
         NEW new \in ActionRows,
         new.opp = actions[tx[c].on].opp, new.basis = actions[tx[c].on].basis,
         actions[tx[c].on].status \notin Terminal,
         Lawful(actions[tx[c].on].status, new.status), new.status # "EXECUTED",
         NEW put, put = PutAction(c, tx[c].on, new),
         NEW answer, NEW t, Readied(c, put, answer, t)
  PROVE  /\ Writes(t) /\ After(t, t.on) = new
         /\ \A d \in Clients \ {c} : Disjoint(t, tx[d]) /\ ~Twins(t, tx[d])
<1> DEFINE a == tx[c].on
           rows == [b \in {a} |-> new]
<1>1. /\ put.actions = rows /\ put.opps = Empty /\ put.prospects = Empty /\ put.tasks = Empty
      /\ put.activities = Empty
  BY OneRowPut
<1>2. /\ t.put = put /\ t.op = tx[c].op /\ t.on = a /\ t.locks = tx[c].locks
  BY DEF Readied
<1>3. /\ DOMAIN t.put.opps = {} /\ DOMAIN t.put.prospects = {} /\ DOMAIN t.put.tasks = {}
      /\ DOMAIN t.put.activities = {}
  BY <1>1, <1>2 DEF Empty
<1>4. DOMAIN t.put.actions = {a} /\ t.put.actions[a] = new
  BY <1>1, <1>2
<1>5. actions[a] # NoAction
  BY DEF IInv, Knows, Guarded
<1>6. t.op # "materialize"
  BY <1>2 DEF ActionOps, Transitions
<1>7. Replaces(t, a)
  BY <1>2, <1>4, <1>5, <1>6 DEF Replaces, Locked
<1>8. Writes(t)
  BY <1>2, <1>3, <1>4, <1>7 DEF Writes, Effects, Executes
<1>9. \A d \in Clients \ {c} : Disjoint(t, tx[d]) /\ ~Twins(t, tx[d])
  BY <1>1, <1>2, <1>4, LockedPut
<1> QED
  BY <1>2, <1>4, <1>8, <1>9 DEF After

LEMMA MayMoveLawful ==
  ASSUME NEW s, NEW to \in Transitions, MayMove(s, to)
  PROVE  Lawful(s, to) /\ s \notin Terminal
  BY DEF MayMove, LIFECYCLE_TRANSITIONS, Lawful, Terminal

\* What holds of a request on an action once it has locked the row.
LEMMA OnAction ==
  ASSUME IInv, NEW c \in Clients, tx[c].op \in ActionOps,
         tx[c].step \in {"decide", "evidence", "effects", "marking"}
  PROVE  /\ tx[c] \in Transactions /\ tx[c].put = NoPut /\ tx[c].on \in ActionIds
         /\ Locked(tx[c], "action", tx[c].on, "update")
         /\ actions[tx[c].on] \in ActionRows /\ actions[tx[c].on] # NoAction
         /\ tx[c].op # "materialize"
         /\ Sound(actions[tx[c].on].basis)
<1>1. tx[c] \in Transactions /\ Phase(tx[c]) /\ Guarded(tx[c]) /\ Rows
  BY Doing DEF IInv, Typed
<1>2. tx[c].on \in ActionIds /\ actions[tx[c].on] # NoAction /\ tx[c].put = NoPut
  BY <1>1 DEF Phase
<1>3. actions[tx[c].on] \in ActionRows
  BY <1>1, <1>2, RowsAre
<1>4. Locked(tx[c], "action", tx[c].on, "update")
  BY <1>1 DEF Guarded
<1>5. Sound(actions[tx[c].on].basis)
  BY <1>2 DEF IInv, Kept
<1> QED
  BY <1>1, <1>2, <1>3, <1>4, <1>5 DEF ActionOps, Transitions

\* A transition that is made, and its replay.
LEMMA TransitionDone ==
  ASSUME IInv, NEW c \in Clients, tx[c].op \in Transitions,
         tx[c].step \in {"decide", "evidence"},
         MayMove(actions[tx[c].on].status, tx[c].op),
         Ready(c, PutAction(c, tx[c].on, Moved(actions[tx[c].on], tx[c].op)), "done")
  PROVE  LocalMove(c)
<1> DEFINE q == tx[c]
           new == Moved(actions[q.on], q.op)
           put == PutAction(c, q.on, new)
<1>1. q.op \in ActionOps /\ q.op # "execute" /\ q.op # "materialize"
  BY DEF ActionOps, Transitions
<1>2. /\ q.put = NoPut /\ q.on \in ActionIds /\ Locked(q, "action", q.on, "update")
      /\ actions[q.on] \in ActionRows
  BY <1>1, OnAction
<1>3. /\ new \in ActionRows /\ new.opp = actions[q.on].opp /\ new.basis = actions[q.on].basis
      /\ new.status = q.op
  BY <1>2, MovedRow
<1> HIDE DEF new
<1>4. Lawful(actions[q.on].status, new.status) /\ actions[q.on].status \notin Terminal
  BY <1>3, MayMoveLawful
<1>5. new.status # "EXECUTED"
  BY <1>3 DEF Transitions
<1>6. put \in PutRows
  BY <1>1, <1>2, <1>3, OneRowPut
<1> HIDE DEF put
<1>7. ASSUME NEW t, Readied(c, put, "done", t)
      PROVE  /\ Writes(t) /\ Promises(t)
             /\ \A d \in Clients \ {c} : Disjoint(t, tx[d]) /\ ~Twins(t, tx[d])
  <2>1. /\ Writes(t) /\ After(t, t.on) = new
        /\ \A d \in Clients \ {c} : Disjoint(t, tx[d]) /\ ~Twins(t, tx[d])
    BY <1>1, <1>2, <1>3, <1>4, <1>5, <1>7, OneRowReady DEF put
  <2>2. Promises(t)
    BY <1>1, <1>3, <1>7, <2>1 DEF Promises, Readied
  <2> QED
    BY <2>1, <2>2
<1>8. Ready(c, put, "done")
  BY DEF put, new
<1> QED
  BY <1>1, <1>6, <1>7, <1>8, ReadyMove

LEMMA TransitionReplayed ==
  ASSUME IInv, NEW c \in Clients, tx[c].op \in Transitions,
         tx[c].step \in {"decide", "evidence"}, actions[tx[c].on].status = tx[c].op,
         Ready(c, tx[c].put, "duplicate")
  PROVE  LocalMove(c)
<1>1. tx[c].op \in ActionOps /\ tx[c].op # "execute" /\ tx[c].op # "materialize"
  BY DEF ActionOps, Transitions
<1>2. tx[c].put = NoPut
  BY <1>1, OnAction
<1>3. ASSUME NEW t, Readied(c, NoPut, "duplicate", t)
      PROVE  /\ Writes(t) /\ Promises(t)
             /\ \A d \in Clients \ {c} : Disjoint(t, tx[d]) /\ ~Twins(t, tx[d])
  <2>1. /\ Writes(t) /\ After(t, t.on) = actions[t.on]
        /\ \A d \in Clients \ {c} : Disjoint(t, tx[d]) /\ ~Twins(t, tx[d])
    BY <1>2, <1>3, NothingReady
  <2>2. Promises(t)
    BY <1>1, <1>3, <2>1 DEF Promises, Readied
  <2> QED
    BY <2>1, <2>2
<1> QED
  BY <1>1, <1>2, <1>3, NoPutTyped, ReadyMove

LEMMA SupersedeMove ==
  ASSUME IInv, NEW c \in Clients, tx[c].op \in ActionOps, tx[c].step = "evidence",
         Supersede(c, tx[c].on)
  PROVE  LocalMove(c)
<1> DEFINE q == tx[c]
           e == IF Closed(actions[q.on].opp) THEN "SUPERSEDED_OPPORTUNITY_CLOSED"
                ELSE "SUPERSEDED_AS_STALE"
           new == Cancelled(actions[q.on], e)
           put == PutAction(c, q.on, new)
<1>1. CASE actions[q.on].status \in Terminal
  BY <1>1, RollbackMove DEF Supersede
<1>2. CASE actions[q.on].status \notin Terminal
  <2>1. Ready(c, put, "superseded")
    BY <1>2 DEF Supersede
  <2>2. /\ q.put = NoPut /\ q.on \in ActionIds /\ Locked(q, "action", q.on, "update")
        /\ actions[q.on] \in ActionRows /\ q.op # "materialize"
    BY OnAction
  <2>3. e \in Cancelling
    BY DEF Cancelling
  <2> HIDE DEF e
  <2>4. /\ new \in ActionRows /\ new.opp = actions[q.on].opp
        /\ new.basis = actions[q.on].basis /\ new.status = "CANCELLED"
    BY <2>2, <2>3, CancelledRow
  <2> HIDE DEF new
  <2>5. Lawful(actions[q.on].status, new.status) /\ new.status # "EXECUTED"
    BY <2>4 DEF Lawful
  <2>6. put \in PutRows
    BY <2>2, <2>4, OneRowPut
  <2> HIDE DEF put
  <2>7. ASSUME NEW t, Readied(c, put, "superseded", t)
        PROVE  /\ Writes(t) /\ Promises(t)
               /\ \A d \in Clients \ {c} : Disjoint(t, tx[d]) /\ ~Twins(t, tx[d])
    <3>1. /\ Writes(t) /\ After(t, t.on) = new
          /\ \A d \in Clients \ {c} : Disjoint(t, tx[d]) /\ ~Twins(t, tx[d])
      BY <1>2, <2>2, <2>4, <2>5, <2>7, OneRowReady DEF put
    <3>2. Promises(t)
      BY <2>4, <2>7, <3>1 DEF Promises, Readied
    <3> QED
      BY <3>1, <3>2
  <2> QED
    BY <2>1, <2>2, <2>6, <2>7, ReadyMove
<1> QED
  BY <1>1, <1>2

LEMMA DecideTransitionMove ==
  ASSUME IInv, NEW c \in Clients, DecideTransition(c)
  PROVE  LocalMove(c)
<1>1. tx[c].step = "decide" /\ tx[c].op \in Transitions
  BY DEF DecideTransition, Transitions
<1>2. \/ actions[tx[c].on].status = tx[c].op /\ Ready(c, tx[c].put, "duplicate")
      \/ /\ MayMove(actions[tx[c].on].status, tx[c].op)
         /\ Ready(c, PutAction(c, tx[c].on, Moved(actions[tx[c].on], tx[c].op)), "done")
      \/ Rollback(c, "refused")
  BY DEF DecideTransition
<1> QED
  BY <1>1, <1>2, TransitionReplayed, TransitionDone, RollbackMove

LEMMA TransitionOnEvidenceMove ==
  ASSUME IInv, NEW c \in Clients, TransitionOnEvidence(c)
  PROVE  LocalMove(c)
<1>1. tx[c].step = "evidence" /\ tx[c].op \in Transitions /\ tx[c].op \in ActionOps
  BY DEF TransitionOnEvidence, Transitions, ActionOps
<1>2. \/ Supersede(c, tx[c].on)
      \/ actions[tx[c].on].status = tx[c].op /\ Ready(c, tx[c].put, "duplicate")
      \/ /\ MayMove(actions[tx[c].on].status, tx[c].op)
         /\ Ready(c, PutAction(c, tx[c].on, Moved(actions[tx[c].on], tx[c].op)), "done")
      \/ Rollback(c, "refused")
  BY DEF TransitionOnEvidence
<1> QED
  BY <1>1, <1>2, SupersedeMove, TransitionReplayed, TransitionDone, RollbackMove

-----------------------------------------------------------------------------
(* Executions                                                              *)

LEMMA DecideExecutionMove ==
  ASSUME IInv, NEW c \in Clients, DecideExecution(c)
  PROVE  LocalMove(c)
<1> DEFINE q == tx[c]
           t == [q EXCEPT !.step = "evidence"]
<1>1. q.step = "decide" /\ q.op = "execute" /\ q.op \in ActionOps /\ q.op \notin Transitions
  BY DEF DecideExecution, ActionOps, Transitions
<1>2. /\ q \in Transactions /\ q.put = NoPut /\ q.on \in ActionIds
      /\ q.op # "materialize"
  BY <1>1, OnAction
<1>3. Phase(q) /\ Guarded(q) /\ tx \in [Clients -> Transactions]
  BY <1>1, Doing DEF IInv, Typed
<1>4. \/ actions[q.on].status = "EXECUTED" /\ Ready(c, q.put, "duplicate")
      \/ Rollback(c, "refused")
      \/ /\ actions[q.on].status \in {"APPROVED", "FAILED"}
         /\ tx' = [tx EXCEPT ![c].step = "evidence"] /\ UNCHANGED <<db, env>>
  BY DEF DecideExecution
<1>5. CASE actions[q.on].status = "EXECUTED" /\ Ready(c, q.put, "duplicate")
  <2>1. ASSUME NEW r, Readied(c, NoPut, "duplicate", r)
        PROVE  /\ Writes(r) /\ Promises(r)
               /\ \A d \in Clients \ {c} : Disjoint(r, tx[d]) /\ ~Twins(r, tx[d])
    <3>1. /\ Writes(r) /\ After(r, r.on) = actions[r.on]
          /\ \A d \in Clients \ {c} : Disjoint(r, tx[d]) /\ ~Twins(r, tx[d])
      BY <1>2, <2>1, NothingReady
    <3>2. Promises(r)
      BY <1>1, <1>5, <2>1, <3>1 DEF Promises, Readied
    <3> QED
      BY <3>1, <3>2
  <2> QED
    BY <1>1, <1>2, <1>5, <2>1, NoPutTyped, ReadyMove
<1>6. CASE /\ actions[q.on].status \in {"APPROVED", "FAILED"}
           /\ tx' = [tx EXCEPT ![c].step = "evidence"] /\ UNCHANGED <<db, env>>
  <2>1. tx' = [tx EXCEPT ![c] = t]
    BY <1>3, <1>6
  <2>2. /\ t \in Transactions /\ t.op = q.op /\ t.on = q.on /\ t.put = q.put /\ t.basis = q.basis
        /\ t.step = "evidence" /\ t.locks = q.locks
    BY <1>2 DEF Transactions, Steps
  <2> HIDE DEF t
  <2>3. Phase(t)
    BY <1>1, <1>2, <1>3, <2>2 DEF Phase
  <2>4. Guarded(t)
    BY <1>1, <1>2, <1>3, <2>2 DEF Guarded, Locked, Target
  <2>5. Sighted(t) /\ Promises(t)
    BY <1>6, <2>2 DEF Sighted, Promises
  <2>6. Writes(t)
    BY <1>2, <2>2, NoPutWrites
  <2>7. \A d \in Clients \ {c} : Apart(t, tx[d])
    BY <2>2, SameLocks
  <2> QED
    BY <1>6, <2>1, <2>2, <2>3, <2>4, <2>5, <2>6, <2>7 DEF LocalMove, Local, Allowed, Knows
<1> QED
  BY <1>4, <1>5, <1>6, RollbackMove

LEMMA ExecuteOnEvidenceMove ==
  ASSUME IInv, NEW c \in Clients, ExecuteOnEvidence(c)
  PROVE  LocalMove(c)
<1> DEFINE q == tx[c]
           lock == ProspectLock(c)
<1>1. q.step = "evidence" /\ q.op = "execute" /\ q.op \in ActionOps
  BY DEF ExecuteOnEvidence, ActionOps
<1>2. /\ q \in Transactions /\ q.put = NoPut /\ q.on \in ActionIds
      /\ q.op # "materialize"
  BY <1>1, OnAction
<1>3. /\ Phase(q) /\ Guarded(q) /\ Sighted(q) /\ Opp(c) = Target(q)
      /\ Target(q) \in Opportunities
  BY <1>1, Doing
<1>4. CASE ~IsCurrent(q.on)
  BY <1>1, <1>4, SupersedeMove DEF ExecuteOnEvidence
<1>5. CASE IsCurrent(q.on)
  <2>1. Take(c, lock, "effects") /\ UNCHANGED <<db, env>>
    BY <1>5 DEF ExecuteOnEvidence
  <2>2. /\ lock = Lock("prospect", Target(q), "share") /\ lock \in Locks
        /\ \A a : lock # Lock("action", a, "update")
    BY <1>3 DEF ProspectLock, Lock, Locks
  <2>3. OnRecords(q.on)
    BY <1>5, CurrentIsOnRecords
  <2>4. Target(q) = actions[q.on].opp
    BY <1>1 DEF Target
  <2> HIDE DEF q, lock
  <2>5. ASSUME NEW t \in Transactions, t = [q EXCEPT !.locks = @ \cup {lock}, !.step = "effects"]
        PROVE  Knows(t)
    <3>1. /\ t.op = q.op /\ t.on = q.on /\ t.put = q.put /\ t.step = "effects"
          /\ t.locks = q.locks \cup {lock}
      BY <1>2, <2>5 DEF Transactions
    <3>2. Phase(t)
      BY <1>1, <1>2, <1>3, <3>1 DEF Phase
    <3>3. Guarded(t)
      BY <1>1, <1>2, <1>3, <2>2, <3>1 DEF Guarded, Locked, Target
    <3>4. Sighted(t)
      BY <1>1, <1>3, <2>2, <2>3, <2>4, <3>1 DEF Sighted, Locked
    <3>5. Writes(t) /\ Promises(t)
      BY <1>2, <3>1, NoPutWrites DEF Promises
    <3> QED
      BY <3>2, <3>3, <3>4, <3>5 DEF Knows
  <2>6. "effects" \in Steps \ {"idle"}
    BY DEF Steps
  <2> QED
    BY <2>1, <2>2, <2>5, <2>6, TakeMove DEF q
<1> QED
  BY <1>4, <1>5

LEMMA EffectFailsMove ==
  ASSUME IInv, NEW c \in Clients, EffectFails(c)
  PROVE  LocalMove(c)
<1> DEFINE q == tx[c]
           t == [q EXCEPT !.locks = {}, !.put = NoPut, !.step = "undone"]
<1>1. q.step = "effects"
  BY DEF EffectFails
<1>2. /\ q \in Transactions /\ Phase(q) /\ Sighted(q) /\ q.op = "execute"
      /\ tx \in [Clients -> Transactions]
  BY <1>1, Doing DEF Phase, IInv, Typed
<1>3. tx' = [tx EXCEPT ![c] = t] /\ UNCHANGED <<db, env>>
  <2>1. PICK n \in 0 .. 4 :
          tx' = [tx EXCEPT ![c] = [RollbackToSavepoint([q EXCEPT !.put = ExecutionRows(c, n)])
                                     EXCEPT !.step = "undone"]]
    BY DEF EffectFails
  <2>2. PICK rows : rows = ExecutionRows(c, n)
    OBVIOUS
  <2>3. [RollbackToSavepoint([q EXCEPT !.put = rows]) EXCEPT !.step = "undone"] = t
    BY <1>2 DEF RollbackToSavepoint, Transactions
  <2> QED
    BY <2>1, <2>2, <2>3 DEF EffectFails
<1>4. /\ t \in Transactions /\ t.op = "execute" /\ t.on = q.on /\ t.step = "undone"
      /\ t.locks = {} /\ t.put = NoPut
  BY <1>2, NoPutTyped DEF Transactions, Steps
<1> HIDE DEF t
<1>5. Phase(t)
  BY <1>1, <1>2, <1>4 DEF Phase, ActionOps, OpportunityOps
<1>6. Guarded(t)
  BY <1>4 DEF Guarded, Locked
<1>7. Sighted(t) /\ Promises(t)
  BY <1>1, <1>2, <1>4 DEF Sighted, Promises
<1>8. Writes(t) /\ \A d \in Clients \ {c} : Apart(t, tx[d])
  BY <1>4, NoPutWrites, Bare
<1> QED
  BY <1>3, <1>4, <1>5, <1>6, <1>7, <1>8 DEF LocalMove, Local, Allowed, Knows

\* The locks of an attempt that was undone, taken again.
LEMMA RelockOpportunityMove ==
  ASSUME IInv, NEW c \in Clients, RelockOpportunity(c)
  PROVE  LocalMove(c)
<1> DEFINE q == tx[c]
           lock == Lock("opp", Target(q), "update")
<1>1. q.step = "undone"
  BY DEF RelockOpportunity
<1>2. /\ q \in Transactions /\ Phase(q) /\ Guarded(q) /\ Sighted(q) /\ Opp(c) = Target(q)
      /\ Target(q) \in Opportunities /\ q.op = "execute" /\ q.put = NoPut
  BY <1>1, Doing DEF Phase
<1>3. /\ lock \in Locks /\ Take(c, lock, "relock") /\ UNCHANGED <<db, env>>
      /\ \A a : lock # Lock("action", a, "update")
  BY <1>2 DEF RelockOpportunity, Lock, Locks
<1> HIDE DEF q, lock
<1>4. ASSUME NEW t \in Transactions, t = [q EXCEPT !.locks = @ \cup {lock}, !.step = "relock"]
      PROVE  Knows(t)
  <2>1. /\ t.op = "execute" /\ t.on = q.on /\ t.put = NoPut /\ t.step = "relock"
        /\ t.locks = q.locks \cup {lock}
    BY <1>2, <1>4 DEF Transactions
  <2>2. Target(t) = Target(q)
    BY <1>2, <2>1 DEF Target
  <2>3. Phase(t)
    BY <1>1, <1>2, <2>1 DEF Phase, ActionOps, OpportunityOps
  <2>4. Guarded(t)
    BY <1>2, <1>3, <2>1, <2>2 DEF Guarded, Locked, lock
  <2>5. Sighted(t) /\ Promises(t)
    BY <1>1, <1>2, <2>1 DEF Sighted, Promises
  <2> QED
    BY <2>1, <2>3, <2>4, <2>5, NoPutWrites DEF Knows
<1>5. "relock" \in Steps \ {"idle"}
  BY DEF Steps
<1> QED
  BY <1>3, <1>4, <1>5, TakeMove DEF q

LEMMA RelockActionMove ==
  ASSUME IInv, NEW c \in Clients, RelockAction(c)
  PROVE  LocalMove(c)
<1> DEFINE q == tx[c]
           lock == Lock("action", q.on, "update")
<1>1. q.step = "relock"
  BY DEF RelockAction
<1>2. /\ q \in Transactions /\ Phase(q) /\ Guarded(q) /\ Sighted(q)
      /\ q.op = "execute" /\ q.put = NoPut
  BY <1>1, Doing DEF Phase
<1>3. q.on \in ActionIds /\ actions[q.on] # NoAction
  BY <1>1, <1>2 DEF Phase, ActionOps
<1>4. lock \in Locks /\ Take(c, lock, "marking") /\ UNCHANGED <<db, env>>
  BY <1>3 DEF RelockAction, Lock, Locks
<1>5. Locked(q, "opp", Target(q), "update")
  BY <1>1, <1>2 DEF Guarded
<1> HIDE DEF q, lock
<1>6. ASSUME NEW t \in Transactions, t = [q EXCEPT !.locks = @ \cup {lock}, !.step = "marking"]
      PROVE  Knows(t)
  <2>1. /\ t.op = "execute" /\ t.on = q.on /\ t.put = NoPut /\ t.step = "marking"
        /\ t.locks = q.locks \cup {lock}
    BY <1>2, <1>6 DEF Transactions
  <2>2. Target(t) = Target(q)
    BY <1>2, <2>1 DEF Target
  <2>3. \A a : Locked(t, "action", a, "update") => Locked(q, "action", a, "update") \/ a = q.on
    BY <2>1 DEF Locked, Lock, lock
  <2>4. Locked(t, "action", t.on, "update")
    BY <2>1 DEF Locked, lock
  <2>5. Phase(t)
    BY <1>1, <1>2, <2>1 DEF Phase, ActionOps, OpportunityOps
  <2>6. Guarded(t)
    BY <1>2, <1>3, <1>5, <2>1, <2>2, <2>3, <2>4 DEF Guarded, Locked
  <2>7. Sighted(t) /\ Promises(t)
    BY <1>1, <1>2, <2>1 DEF Sighted, Promises
  <2> QED
    BY <2>1, <2>5, <2>6, <2>7, NoPutWrites DEF Knows
<1>7. "marking" \in Steps \ {"idle"}
  BY DEF Steps
<1> QED
  BY <1>4, <1>6, <1>7, TakeMove DEF q

LEMMA MarkExecutionFailedMove ==
  ASSUME IInv, NEW c \in Clients, MarkExecutionFailed(c)
  PROVE  LocalMove(c)
<1> DEFINE q == tx[c]
           new == MarkedFailed(actions[q.on])
           put == PutAction(c, q.on, new)
<1>1. q.step = "marking"
  BY DEF MarkExecutionFailed
<1>2. q.op = "execute" /\ q.op \in ActionOps /\ q.op \notin Transitions
  BY <1>1, Doing DEF Phase, ActionOps, Transitions
<1>3. /\ q.put = NoPut /\ q.on \in ActionIds /\ Locked(q, "action", q.on, "update")
      /\ actions[q.on] \in ActionRows /\ q.op # "materialize"
  BY <1>1, <1>2, OnAction
<1>4. actions[q.on].status \in {"APPROVED", "FAILED"} \cup Terminal
  BY <1>1, <1>2, Doing DEF Sighted
<1>5. CASE actions[q.on].status \in {"APPROVED", "FAILED"}
  <2>1. Ready(c, put, "failed")
    BY <1>5 DEF MarkExecutionFailed
  <2>2. /\ new \in ActionRows /\ new.opp = actions[q.on].opp
        /\ new.basis = actions[q.on].basis /\ new.status = "FAILED"
    BY <1>3, MarkedFailedRow
  <2> HIDE DEF new
  <2>3. /\ Lawful(actions[q.on].status, new.status) /\ actions[q.on].status \notin Terminal
        /\ new.status # "EXECUTED"
    BY <1>5, <2>2 DEF Lawful, Terminal
  <2>4. put \in PutRows
    BY <1>2, <1>3, <2>2, OneRowPut
  <2> HIDE DEF put
  <2>5. ASSUME NEW t, Readied(c, put, "failed", t)
        PROVE  /\ Writes(t) /\ Promises(t)
               /\ \A d \in Clients \ {c} : Disjoint(t, tx[d]) /\ ~Twins(t, tx[d])
    <3>1. /\ Writes(t) /\ After(t, t.on) = new
          /\ \A d \in Clients \ {c} : Disjoint(t, tx[d]) /\ ~Twins(t, tx[d])
      BY <1>2, <1>3, <2>2, <2>3, <2>5, OneRowReady DEF put
    <3>2. Promises(t)
      BY <1>2, <2>2, <2>5, <3>1 DEF Promises, Readied
    <3> QED
      BY <3>1, <3>2
  <2> QED
    BY <1>1, <1>2, <1>3, <2>1, <2>4, <2>5, ReadyMove
<1>6. CASE actions[q.on].status \in Terminal
  <2>1. Ready(c, NoPut, "failed")
    BY <1>3, <1>6 DEF MarkExecutionFailed, Terminal
  <2>2. ASSUME NEW t, Readied(c, NoPut, "failed", t)
        PROVE  /\ Writes(t) /\ Promises(t)
               /\ \A d \in Clients \ {c} : Disjoint(t, tx[d]) /\ ~Twins(t, tx[d])
    <3>1. /\ Writes(t) /\ After(t, t.on) = actions[t.on]
          /\ \A d \in Clients \ {c} : Disjoint(t, tx[d]) /\ ~Twins(t, tx[d])
      BY <1>3, <2>2, NothingReady
    <3>2. Promises(t)
      BY <1>2, <1>6, <2>2, <3>1 DEF Promises, Readied
    <3> QED
      BY <3>1, <3>2
  <2> QED
    BY <1>1, <1>2, <2>1, <2>2, NoPutTyped, ReadyMove
<1> QED
  BY <1>4, <1>5, <1>6

-----------------------------------------------------------------------------
(* Writes under the lock of the opportunity                                *)

\* Two transactions that own an opportunity own different ones.
LEMMA OneOwner ==
  ASSUME IInv, NEW c \in Clients, NEW d \in Clients \ {c},
         Locked(tx[c], "opp", Target(tx[c]), "update"), Owns(tx[d])
  PROVE  Target(tx[c]) # Target(tx[d])
<1>1. Guarded(tx[d]) /\ Compatible(tx[c], tx[d])
  BY DEF IInv, Knows, Apart
<1>2. tx[d].step = "commit" /\ tx[d].op # "qualify" /\ tx[d].op # "materialize"
  BY DEF Owns, ServiceOps
<1>3. Locked(tx[d], "opp", Target(tx[d]), "update")
  BY <1>1, <1>2 DEF Guarded
<1> QED
  BY <1>1, <1>3 DEF Compatible, Locked, Lock

\* A task of the opportunity client c has locked is written by nobody else.
LEMMA TaskIsMine ==
  ASSUME IInv, NEW c \in Clients, NEW d \in Clients \ {c},
         Locked(tx[c], "opp", Target(tx[c]), "update"), Target(tx[c]) \in Opportunities,
         NEW u \in TaskIds, tasks[u].opp = Target(tx[c])
  PROVE  u \notin DOMAIN tx[d].put.tasks
<1> SUFFICES ASSUME u \in DOMAIN tx[d].put.tasks PROVE FALSE
  OBVIOUS
<1>1. Owns(tx[d]) /\ (tasks[u] = NoTask \/ tasks[u].opp = Target(tx[d]))
  BY DEF IInv, Knows, Writes
<1>2. tasks[u] # NoTask
  BY PostgresAssumption DEF NoTask
<1> QED
  BY <1>1, <1>2, OneOwner

\* What a request that owns its opportunity may write of tasks and activities.
LEMMA OwnedDisjoint ==
  ASSUME IInv, NEW c \in Clients,
         Locked(tx[c], "opp", Target(tx[c]), "update"), Target(tx[c]) \in Opportunities,
         NEW t, DOMAIN t.put.tasks \subseteq TaskIds,
         \A a \in DOMAIN t.put.actions : a \in ActionIds /\ Locked(tx[c], "action", a, "update"),
         \A u \in DOMAIN t.put.tasks : u \in UnusedTasks \/ tasks[u].opp = Target(tx[c]),
         \A v \in DOMAIN t.put.activities : v \in UnusedActivities
  PROVE  \A d \in Clients \ {c} : Disjoint(t, tx[d]) /\ ~Twins(t, tx[d])
<1> SUFFICES ASSUME NEW d \in Clients \ {c} PROVE Disjoint(t, tx[d]) /\ ~Twins(t, tx[d])
  OBVIOUS
<1>1. \A a \in DOMAIN t.put.actions : a \notin DOMAIN tx[d].put.actions
  BY LockedIsMine
<1>2. \A u \in DOMAIN t.put.tasks : u \notin DOMAIN tx[d].put.tasks
  BY UnusedAre, TaskIsMine
<1>3. \A v \in DOMAIN t.put.activities : v \notin DOMAIN tx[d].put.activities
  BY UnusedAre
<1>4. \A a \in DOMAIN t.put.actions : actions[a] # NoAction
  BY DEF IInv, Knows, Guarded
<1> QED
  BY <1>1, <1>2, <1>3, <1>4 DEF Disjoint, Twins

\* The rows an execution inserts or changes.
LEMMA EffectTask ==
  ASSUME Rows, NEW act \in ActionRows, NEW a \in ActionIds, ~IsCommunication(act),
         Sound(act.basis), EquivalentTasks(act) # {} \/ UnusedTasks # {}
  PROVE  /\ TaskOf(act) \in TaskIds
         /\ TaskOf(act) \in UnusedTasks \/ tasks[TaskOf(act)].opp = act.opp
         /\ tasks[TaskOf(act)] = NoTask \/ tasks[TaskOf(act)].opp = act.opp
         /\ tasks[TaskOf(act)].link = None
         /\ TaskRow(act, a) \in TaskRows
         /\ TaskRow(act, a).opp = act.opp /\ TaskRow(act, a).link = a
<1> DEFINE u == TaskOf(act)
<1>1. act.opp \in Opportunities
  BY DEF ActionRows
<1>2. CASE EquivalentTasks(act) # {}
  <2>1. EquivalentTasks(act) \in SUBSET Nat
    BY DEF EquivalentTasks, TaskIds
  <2>2. u \in EquivalentTasks(act)
    BY <1>2, <2>1, FirstInSet DEF TaskOf
  <2> HIDE DEF u
  <2>3. u \in TaskIds /\ tasks[u].opp = act.opp /\ tasks[u].link = None
    BY <2>2 DEF EquivalentTasks
  <2>4. tasks[u] \in TaskRows
    BY <1>1, <2>3, RowsAre
  <2>5. TaskRow(act, a) = [tasks[u] EXCEPT !.link = a]
    BY <1>2 DEF TaskRow, u
  <2>6. TaskRow(act, a) \in TaskRows /\ TaskRow(act, a).opp = act.opp /\ TaskRow(act, a).link = a
    BY <2>3, <2>4, <2>5 DEF TaskRows
  <2> QED
    BY <2>3, <2>6 DEF u
<1>3. CASE EquivalentTasks(act) = {}
  <2>1. UnusedTasks \in SUBSET Nat
    BY UnusedAre DEF TaskIds
  <2>2. u \in UnusedTasks
    BY <1>3, <2>1, FirstInSet DEF TaskOf
  <2> HIDE DEF u
  <2>3. u \in TaskIds /\ tasks[u] = NoTask /\ tasks[u].link = None
    BY <2>2, UnusedAre DEF NoTask
  <2>4. act.basis.type \in {"CREATE_TASK", "ADVANCE"}
    BY DEF IsCommunication, Sound, Bases
  <2>5. ProposedTitle(act) \in Titles
    BY DEF ProposedTitle, Sound, Titles
  <2>6. TaskRow(act, a) = [opp |-> act.opp, source |-> "revenue_action",
          type |-> act.basis.type, title |-> ProposedTitle(act), status |-> "OPEN", link |-> a]
    BY <1>3 DEF TaskRow
  <2>7. TaskRow(act, a) \in TaskRows /\ TaskRow(act, a).opp = act.opp /\ TaskRow(act, a).link = a
    BY <1>1, <2>4, <2>5, <2>6 DEF TaskRows
  <2> QED
    BY <2>2, <2>3, <2>7 DEF u
<1> QED
  BY <1>2, <1>3

\* A new activity, and the one of an execution.
LEMMA NewActivityRow ==
  ASSUME Rows, NEW o \in Opportunities, NEW key \in Keys
  PROVE  /\ ActivityRow(o, key) \in ActivityRows
         /\ ActivityRow(o, key).opp = o /\ ActivityRow(o, key).link = None
<1>1. today \in 0 .. LastDay
  BY DEF Rows
<1>2. PICK w \in [opp : {None}, key : {<<>>}, day : {0}, link : {None}, task : {None}] :
         w = NoActivity
  BY Zenon DEF NoActivity
<1> DEFINE r == [w EXCEPT !.opp = o, !.key = key, !.day = today]
<1>3. ActivityRow(o, key) = r
  BY <1>2, Zenon DEF ActivityRow
<1>4. r \in [opp : {o}, key : {key}, day : {today}, link : {None}, task : {None}]
  OBVIOUS
<1> HIDE DEF r
<1>5. r = [opp |-> o, key |-> key, day |-> today, link |-> None, task |-> None]
  BY <1>4
<1> QED
  BY <1>1, <1>3, <1>5 DEF ActivityRows

LEMMA EffectActivityRow ==
  ASSUME Rows, NEW act \in ActionRows, NEW a \in ActionIds, NEW u \in TaskIds \cup {None}
  PROVE  /\ EffectActivity(act, a, u) \in ActivityRows
         /\ EffectActivity(act, a, u).opp = act.opp /\ EffectActivity(act, a, u).link = a
<1>1. today \in 0 .. LastDay /\ act.opp \in Opportunities
  BY DEF Rows, ActionRows
<1>2. PICK k \in Keys : k = <<"effect">>
  BY Zenon DEF Keys
<1>3. PICK w \in [opp : {None}, key : {<<>>}, day : {0}, link : {None}, task : {None}] :
         w = NoActivity
  BY Zenon DEF NoActivity
<1> DEFINE r == [w EXCEPT !.opp = act.opp, !.key = k, !.day = today, !.link = a, !.task = u]
<1>4. EffectActivity(act, a, u) = r
  BY <1>2, <1>3, Zenon DEF EffectActivity
<1>5. r \in [opp : {act.opp}, key : {k}, day : {today}, link : {a}, task : {u}]
  OBVIOUS
<1> HIDE DEF r
<1>6. r = [opp |-> act.opp, key |-> k, day |-> today, link |-> a, task |-> u]
  BY <1>5
<1> QED
  BY <1>1, <1>4, <1>6 DEF ActivityRows

\* The rows of the execution of action a, with task u and activity v.
EffectRows(put, a, u, v) ==
    /\ put \in PutRows
    /\ DOMAIN put.actions = {a} /\ put.actions[a].opp = actions[a].opp
    /\ put.actions[a].basis = actions[a].basis /\ put.actions[a].status = "EXECUTED"
    /\ put.actions[a].task = u /\ put.actions[a].activity = v
    /\ DOMAIN put.opps \subseteq {actions[a].opp} /\ DOMAIN put.prospects = {}
    /\ DOMAIN put.tasks = {u} \ {None}
    /\ u # None => /\ u \in UnusedTasks \/ tasks[u].opp = actions[a].opp
                   /\ tasks[u] = NoTask \/ tasks[u].opp = actions[a].opp
                   /\ tasks[u].link = None
                   /\ put.tasks[u].opp = actions[a].opp /\ put.tasks[u].link = a
    /\ DOMAIN put.activities = {v} /\ v \in UnusedActivities
    /\ put.activities[v].opp = actions[a].opp /\ put.activities[v].link = a

LEMMA ExecutionPut ==
  ASSUME IInv, NEW c \in Clients, tx[c].step = "effects",
         RoomForEffects(actions[tx[c].on]),
         NEW put, put = ExecutionRows(c, 5)
  PROVE  \E u \in TaskIds \cup {None}, v \in ActivityIds : EffectRows(put, tx[c].on, u, v)
<1> DEFINE a == tx[c].on
           act == Started(actions[a])
           u == IF ~IsCommunication(act) THEN TaskOf(act) ELSE None
           v == First(UnusedActivities)
           opp == [opps[act.opp] EXCEPT !.next = ProposedTitle(act)]
           p1 == IF act.basis.type = "CREATE_TASK" THEN [o \in {act.opp} |-> opp] ELSE Empty
           p2 == [b \in {a} |-> Executed(act, u, v)]
           p3 == IF ~IsCommunication(act) THEN [x \in {u} |-> TaskRow(act, a)] ELSE Empty
           p4 == [w \in {v} |-> EffectActivity(act, a, u)]
<1>1. Rows /\ tx[c].op = "execute" /\ tx[c].op \in ActionOps
  BY Doing DEF IInv, Typed, Phase, ActionOps
<1>2. a \in ActionIds /\ actions[a] \in ActionRows /\ Sound(actions[a].basis)
  BY <1>1, OnAction
<1>3. put = [opps |-> p1, prospects |-> Empty, actions |-> p2, tasks |-> p3, activities |-> p4]
  BY DEF ExecutionRows
<1>4. /\ act \in ActionRows /\ act.opp = actions[a].opp /\ act.basis = actions[a].basis
  BY <1>2, StartedRow
<1>5. act.opp \in Opportunities /\ opps[act.opp] \in OpportunityRows
  BY <1>1, <1>4 DEF ActionRows, Rows
<1>6. EquivalentTasks(act) = EquivalentTasks(actions[a])
  BY <1>4 DEF EquivalentTasks, ProposedTitle
<1>7. IsCommunication(act) <=> IsCommunication(actions[a])
  BY <1>4 DEF IsCommunication
<1>8. /\ UnusedActivities # {}
      /\ ~IsCommunication(act) => EquivalentTasks(act) # {} \/ UnusedTasks # {}
  BY <1>6, <1>7 DEF RoomForEffects
<1>9. v \in UnusedActivities /\ v \in ActivityIds
  BY <1>8, FirstInSet, UnusedAre DEF ActivityIds
<1> HIDE DEF act, v
<1>10. /\ ~IsCommunication(act) =>
            /\ u \in TaskIds
            /\ u \in UnusedTasks \/ tasks[u].opp = act.opp
            /\ tasks[u] = NoTask \/ tasks[u].opp = act.opp
            /\ tasks[u].link = None
            /\ TaskRow(act, a) \in TaskRows
            /\ TaskRow(act, a).opp = act.opp /\ TaskRow(act, a).link = a
       /\ IsCommunication(act) => u = None
  BY <1>1, <1>2, <1>4, <1>8, EffectTask
<1>11. u \in TaskIds \cup {None} /\ None \notin TaskIds
  BY <1>10 DEF None, TaskIds
<1> HIDE DEF u
<1>12. p1 \in Partial(Opportunities, OpportunityRows) /\ DOMAIN p1 \subseteq {act.opp}
  <2>1. CASE act.basis.type = "CREATE_TASK"
    <3>1. opp \in OpportunityRows
      BY <1>5, <2>1 DEF OpportunityRows, ProposedTitle, Titles
    <3> HIDE DEF opp
    <3>2. p1 \in [{act.opp} -> OpportunityRows] /\ DOMAIN p1 = {act.opp}
      BY <2>1, <3>1
    <3> QED
      BY <1>5, <3>2, PartialFrom
  <2>2. CASE act.basis.type # "CREATE_TASK"
    BY <2>2, EmptyPartial
  <2> QED
    BY <2>1, <2>2
<1>13. /\ Executed(act, u, v) \in ActionRows /\ Executed(act, u, v).opp = act.opp
       /\ Executed(act, u, v).basis = act.basis /\ Executed(act, u, v).status = "EXECUTED"
       /\ Executed(act, u, v).task = u /\ Executed(act, u, v).activity = v
  BY <1>4, <1>9, <1>11, ExecutedRow
<1>14. p2 \in Partial(ActionIds, ActionRows) /\ DOMAIN p2 = {a} /\ p2[a] = Executed(act, u, v)
  BY <1>2, <1>13, PartialFrom
<1>15. /\ p3 \in Partial(TaskIds, TaskRows) /\ DOMAIN p3 = {u} \ {None}
       /\ u # None => p3[u] = TaskRow(act, a) /\ ~IsCommunication(act)
  <2>1. CASE IsCommunication(act)
    BY <1>10, <2>1, EmptyPartial
  <2>2. CASE ~IsCommunication(act)
    <3>1. p3 \in [{u} -> TaskRows] /\ u \in TaskIds /\ p3[u] = TaskRow(act, a) /\ u # None
      BY <1>10, <1>11, <2>2
    <3> QED
      BY <2>2, <3>1, PartialFrom
  <2> QED
    BY <2>1, <2>2
<1>16. /\ EffectActivity(act, a, u) \in ActivityRows
       /\ EffectActivity(act, a, u).opp = act.opp /\ EffectActivity(act, a, u).link = a
  BY <1>1, <1>2, <1>4, <1>11, EffectActivityRow
<1>17. /\ p4 \in Partial(ActivityIds, ActivityRows) /\ DOMAIN p4 = {v}
       /\ p4[v] = EffectActivity(act, a, u)
  BY <1>9, <1>16, PartialFrom
<1>18. Empty \in Partial(Opportunities, BOOLEAN) /\ DOMAIN Empty = {}
  BY EmptyPartial
<1> HIDE DEF p1, p2, p3, p4
<1>19. put \in PutRows
  BY <1>3, <1>12, <1>14, <1>15, <1>17, <1>18 DEF PutRows
<1>20. /\ put.opps = p1 /\ put.prospects = Empty /\ put.actions = p2 /\ put.tasks = p3
       /\ put.activities = p4
  BY <1>3
<1>21. u # None => /\ u \in UnusedTasks \/ tasks[u].opp = actions[a].opp
                   /\ tasks[u] = NoTask \/ tasks[u].opp = actions[a].opp
                   /\ tasks[u].link = None
                   /\ put.tasks[u].opp = actions[a].opp /\ put.tasks[u].link = a
  BY <1>4, <1>10, <1>15, <1>20
<1> QED
  BY <1>4, <1>9, <1>11, <1>12, <1>13, <1>14, <1>15, <1>16, <1>17, <1>18, <1>19, <1>20, <1>21
     DEF EffectRows

LEMMA ExecuteEffectsMove ==
  ASSUME IInv, NEW c \in Clients, ExecuteEffects(c)
  PROVE  LocalMove(c)
<1> DEFINE q == tx[c]
           a == q.on
           put == ExecutionRows(c, 5)
<1>1. q.step = "effects" /\ RoomForEffects(actions[a]) /\ Ready(c, put, "done")
  BY DEF ExecuteEffects
<1>2. q.op = "execute" /\ q.op \in ActionOps /\ q.op \notin Transitions
  BY <1>1, Doing DEF Phase, ActionOps, Transitions
<1>3. /\ a \in ActionIds /\ Locked(q, "action", a, "update")
      /\ actions[a] # NoAction /\ q.op # "materialize"
  BY <1>1, <1>2, OnAction
<1>4. /\ Guarded(q) /\ Sighted(q) /\ Target(q) \in Opportunities
      /\ Target(q) = actions[a].opp
  BY <1>1, <1>2, Doing DEF Target
<1>5. /\ Locked(q, "opp", Target(q), "update") /\ OnRecords(a)
      /\ Locked(q, "prospect", actions[a].opp, "share")
      /\ actions[a].status \in {"APPROVED", "FAILED"}
  BY <1>1, <1>2, <1>4 DEF Guarded, Sighted
<1>6. PICK u \in TaskIds \cup {None}, v \in ActivityIds : EffectRows(put, a, u, v)
  BY <1>1, ExecutionPut
<1> HIDE DEF put
<1>7. activities[v] = NoActivity
  BY <1>6, UnusedAre DEF EffectRows
<1>8. ASSUME NEW t, Readied(c, put, "done", t)
      PROVE  /\ Writes(t) /\ Promises(t)
             /\ \A d \in Clients \ {c} : Disjoint(t, tx[d]) /\ ~Twins(t, tx[d])
  <2>1. /\ t.put = put /\ t.op = "execute" /\ t.on = a /\ t.locks = q.locks
        /\ t.step = "commit" /\ t.answer = "done"
    BY <1>2, <1>8 DEF Readied
  <2>2. Target(t) = actions[a].opp /\ Owns(t) /\ Executes(t)
    BY <1>2, <1>6, <2>1 DEF Target, Owns, Executes, EffectRows
  <2>3. Replaces(t, a)
    BY <1>2, <1>3, <1>5, <1>6, <2>1 DEF Replaces, Locked, Lawful, Terminal,
       EffectRows
  <2>4. Effects(t)
    BY <1>5, <1>6, <2>1 DEF Effects, Locked, EffectRows
  <2>5. Writes(t)
    BY <1>6, <1>7, <2>1, <2>2, <2>3, <2>4 DEF Writes, EffectRows
  <2>6. After(t, a).status = "EXECUTED"
    BY <1>6, <2>1 DEF After, EffectRows
  <2>7. Promises(t)
    BY <1>2, <2>1, <2>6 DEF Promises
  <2>8. /\ DOMAIN t.put.tasks \subseteq TaskIds
        /\ \A b \in DOMAIN t.put.actions : b \in ActionIds /\ Locked(q, "action", b, "update")
        /\ \A x \in DOMAIN t.put.tasks : x \in UnusedTasks \/ tasks[x].opp = Target(q)
        /\ \A x \in DOMAIN t.put.activities : x \in UnusedActivities
    BY <1>3, <1>4, <1>6, <2>1 DEF EffectRows
  <2>9. \A d \in Clients \ {c} : Disjoint(t, tx[d]) /\ ~Twins(t, tx[d])
    BY <1>4, <1>5, <2>8, OwnedDisjoint
  <2> QED
    BY <2>5, <2>7, <2>9
<1> QED
  BY <1>1, <1>2, <1>3, <1>6, <1>8, ReadyMove DEF EffectRows

-----------------------------------------------------------------------------
(* Requests of the core service                                            *)

LEMMA ServiceMove ==
  ASSUME IInv, NEW c \in Clients, tx[c].step = "work",
         NEW put \in PutRows, NEW answer \in {"done", "duplicate"}, Ready(c, put, answer),
         DOMAIN put.opps \subseteq {Target(tx[c])}, DOMAIN put.prospects = {},
         DOMAIN put.actions = {},
         \A u \in DOMAIN put.tasks : /\ u \in UnusedTasks \/ tasks[u].opp = Target(tx[c])
                                     /\ put.tasks[u].opp = Target(tx[c])
                                     /\ put.tasks[u].link = tasks[u].link,
         \A v \in DOMAIN put.activities : /\ v \in UnusedActivities
                                          /\ put.activities[v].opp = Target(tx[c])
                                          /\ put.activities[v].link = None
  PROVE  LocalMove(c)
<1> DEFINE q == tx[c]
<1>1. Phase(q) /\ Guarded(q) /\ Target(q) \in Opportunities
  BY Doing
<1>2. q.op \in ServiceOps
  BY <1>1 DEF Phase
<1>3. /\ q.op \notin ActionOps /\ q.op \notin Transitions /\ q.op # "execute"
      /\ q.op # "materialize" /\ q.op # "qualify"
  BY <1>2 DEF ServiceOps, ActionOps, Transitions
<1>4. Locked(q, "opp", Target(q), "update")
  BY <1>1, <1>3 DEF Guarded
<1>5. DOMAIN put.tasks \subseteq TaskIds
  <2>1. put.tasks \in Partial(TaskIds, TaskRows)
    BY DEF PutRows
  <2> QED
    BY <2>1, PartialIs
<1>6. ASSUME NEW t, Readied(c, put, answer, t)
      PROVE  /\ Writes(t) /\ Promises(t)
             /\ \A d \in Clients \ {c} : Disjoint(t, tx[d]) /\ ~Twins(t, tx[d])
  <2>1. /\ t.put = put /\ t.op = q.op /\ t.on = q.on /\ t.step = "commit"
        /\ t.answer \in {"done", "duplicate"}
    BY <1>6 DEF Readied
  <2>2. Target(t) = Target(q) /\ Owns(t) /\ ~Executes(t)
    BY <1>2, <1>3, <2>1 DEF Target, Owns, Executes
  <2>3. \A u \in UnusedTasks : tasks[u] = NoTask
    BY UnusedAre
  <2>4. \A v \in UnusedActivities : activities[v] = NoActivity
    BY UnusedAre
  <2>5. Writes(t)
    BY <2>1, <2>2, <2>3, <2>4 DEF Writes, Effects
  <2>6. Promises(t)
    BY <1>3, <2>1 DEF Promises
  <2>7. \A d \in Clients \ {c} : Disjoint(t, tx[d]) /\ ~Twins(t, tx[d])
    BY <1>1, <1>4, <1>5, <2>1, OwnedDisjoint
  <2> QED
    BY <2>5, <2>6, <2>7
<1> QED
  BY <1>3, <1>6, ReadyMove

LEMMA NoPutShape ==
  NoPut \in [opps : {Empty}, prospects : {Empty}, actions : {Empty}, tasks : {Empty},
             activities : {Empty}]
  BY DEF NoPut

\* Rows of opportunities, tasks and activities alone.
LEMMA ServicePut ==
  ASSUME NEW p1 \in Partial(Opportunities, OpportunityRows), NEW p2 \in Partial(TaskIds, TaskRows),
         NEW p3 \in Partial(ActivityIds, ActivityRows), NEW put,
         put \in [opps : {p1}, prospects : {Empty}, actions : {Empty}, tasks : {p2},
                  activities : {p3}]
  PROVE  /\ put \in PutRows /\ put.opps = p1 /\ put.tasks = p2 /\ put.activities = p3
         /\ DOMAIN put.prospects = {} /\ DOMAIN put.actions = {}
<1>1. /\ Empty \in Partial(Opportunities, BOOLEAN) /\ Empty \in Partial(ActionIds, ActionRows)
      /\ DOMAIN Empty = {}
  BY EmptyPartial
<1> QED
  BY <1>1 DEF PutRows

LEMMA NewActivityPut ==
  ASSUME Rows, NEW o \in Opportunities, NEW key \in Keys, UnusedActivities # {},
         NEW p, p = NewActivity(o, key) \/ p = ActivityOnce(o, key)
  PROVE  /\ p \in Partial(ActivityIds, ActivityRows)
         /\ \A v \in DOMAIN p : v \in UnusedActivities /\ p[v].opp = o /\ p[v].link = None
<1> DEFINE v == First(UnusedActivities)
           row == ActivityRow(o, key)
<1>1. v \in UnusedActivities /\ v \in ActivityIds
  BY FirstInSet, UnusedAre DEF ActivityIds
<1>2. row \in ActivityRows /\ row.opp = o /\ row.link = None
  BY NewActivityRow
<1>3. p = Empty \/ p = [w \in {v} |-> row]
  BY DEF NewActivity, ActivityOnce
<1> HIDE DEF v, row
<1>4. CASE p = Empty
  BY <1>4, EmptyPartial
<1>5. CASE p = [w \in {v} |-> row]
  <2>1. p \in [{v} -> ActivityRows]
    BY <1>2, <1>5
  <2> QED
    BY <1>1, <1>2, <1>5, <2>1, PartialFrom
<1> QED
  BY <1>3, <1>4, <1>5

\* What a request at work on an opportunity is about.
LEMMA AtWork ==
  ASSUME IInv, NEW c \in Clients, tx[c].step = "work", tx[c].op # "patch"
  PROVE  /\ Rows /\ Target(tx[c]) = tx[c].on /\ tx[c].on \in Opportunities
         /\ opps[tx[c].on] \in OpportunityRows
<1>1. Rows /\ Phase(tx[c]) /\ Target(tx[c]) \in Opportunities
  BY Doing DEF IInv, Typed
<1>2. tx[c].op \notin ActionOps
  BY <1>1 DEF Phase, ServiceOps, ActionOps, Transitions
<1>3. Target(tx[c]) = tx[c].on
  BY <1>2 DEF Target
<1> QED
  BY <1>1, <1>3 DEF Rows

LEMMA UpdateStageMove ==
  ASSUME IInv, NEW c \in Clients, UpdateStage(c)
  PROVE  LocalMove(c)
<1> DEFINE o == tx[c].on
<1>1. tx[c].step = "work" /\ tx[c].op # "patch" /\ UnusedActivities # {}
  BY DEF UpdateStage
<1>2. /\ Rows /\ Target(tx[c]) = o /\ o \in Opportunities /\ opps[o] \in OpportunityRows
  BY <1>1, AtWork
<1>3. PICK s \in Stages :
        Ready(c, [NoPut EXCEPT
                !.opps = [p \in {o} |-> [opps[o] EXCEPT !.stage = s, !.next = "stage"]],
                !.activities = NewActivity(o, <<"stage">>)], "done")
  BY DEF UpdateStage
<1> DEFINE row == [opps[o] EXCEPT !.stage = s, !.next = "stage"]
           p1 == [p \in {o} |-> row]
           p3 == NewActivity(o, <<"stage">>)
           put == [NoPut EXCEPT !.opps = p1, !.activities = p3]
<1>4. row \in OpportunityRows
  BY <1>2 DEF OpportunityRows, Titles
<1> HIDE DEF o, row
<1>5. p1 \in Partial(Opportunities, OpportunityRows) /\ DOMAIN p1 = {o}
  BY <1>2, <1>4, PartialFrom
<1>6. PICK key \in Keys : key = <<"stage">>
  BY Zenon DEF Keys
<1>7. /\ p3 \in Partial(ActivityIds, ActivityRows)
      /\ \A v \in DOMAIN p3 : v \in UnusedActivities /\ p3[v].opp = o /\ p3[v].link = None
  BY <1>1, <1>2, <1>6, NewActivityPut
<1>8. Ready(c, put, "done")
  BY <1>3 DEF o, row
<1>9. Empty \in Partial(TaskIds, TaskRows) /\ DOMAIN Empty = {}
  BY EmptyPartial
<1> HIDE DEF p1, p3
<1>10. put \in [opps : {p1}, prospects : {Empty}, actions : {Empty}, tasks : {Empty},
                activities : {p3}]
  BY NoPutShape
<1> HIDE DEF put
<1>11. /\ put \in PutRows /\ put.opps = p1 /\ put.tasks = Empty /\ put.activities = p3
       /\ DOMAIN put.prospects = {} /\ DOMAIN put.actions = {}
  BY <1>5, <1>7, <1>9, <1>10, ServicePut
<1> QED
  BY <1>1, <1>2, <1>5, <1>7, <1>8, <1>9, <1>11, ServiceMove

LEMMA SetFactMove ==
  ASSUME IInv, NEW c \in Clients, SetFact(c)
  PROVE  LocalMove(c)
<1> DEFINE o == tx[c].on
<1>1. tx[c].step = "work" /\ tx[c].op # "patch" /\ UnusedActivities # {}
  BY DEF SetFact
<1>2. /\ Rows /\ Target(tx[c]) = o /\ o \in Opportunities /\ opps[o] \in OpportunityRows
  BY <1>1, AtWork
<1>3. PICK f \in Facts :
        Ready(c, [NoPut EXCEPT
                !.opps = IF opps[o].facts = f THEN Empty
                         ELSE [p \in {o} |-> [opps[o] EXCEPT !.facts = f]],
                !.activities = ActivityOnce(o, <<"value", f>>)], "done")
  BY DEF SetFact
<1> DEFINE row == [opps[o] EXCEPT !.facts = f]
           p1 == IF opps[o].facts = f THEN Empty ELSE [p \in {o} |-> row]
           p3 == ActivityOnce(o, <<"value", f>>)
           put == [NoPut EXCEPT !.opps = p1, !.activities = p3]
<1>4. row \in OpportunityRows
  BY <1>2 DEF OpportunityRows
<1> HIDE DEF o, row
<1>5. p1 \in Partial(Opportunities, OpportunityRows) /\ DOMAIN p1 \subseteq {o}
  BY <1>2, <1>4, PartialFrom, EmptyPartial
<1>6. PICK key \in Keys : key = <<"value", f>>
  BY Zenon DEF Keys
<1>7. /\ p3 \in Partial(ActivityIds, ActivityRows)
      /\ \A v \in DOMAIN p3 : v \in UnusedActivities /\ p3[v].opp = o /\ p3[v].link = None
  BY <1>1, <1>2, <1>6, NewActivityPut
<1>8. Ready(c, put, "done")
  BY <1>3 DEF o, row
<1>9. Empty \in Partial(TaskIds, TaskRows) /\ DOMAIN Empty = {}
  BY EmptyPartial
<1> HIDE DEF p1, p3
<1>10. put \in [opps : {p1}, prospects : {Empty}, actions : {Empty}, tasks : {Empty},
                activities : {p3}]
  BY NoPutShape
<1> HIDE DEF put
<1>11. /\ put \in PutRows /\ put.opps = p1 /\ put.tasks = Empty /\ put.activities = p3
       /\ DOMAIN put.prospects = {} /\ DOMAIN put.actions = {}
  BY <1>5, <1>7, <1>9, <1>10, ServicePut
<1> QED
  BY <1>1, <1>2, <1>5, <1>7, <1>8, <1>9, <1>11, ServiceMove

\* A task that the user or deal intelligence asks for.
LEMMA AskedTask ==
  ASSUME NEW o \in Opportunities, NEW s \in {"user", "deal_intelligence"},
         NEW y \in {"none", "CREATE_TASK"},
         NEW row, row = [opp |-> o, source |-> s, type |-> y, title |-> "define",
                         status |-> "OPEN", link |-> None]
  PROVE  row \in TaskRows /\ row.opp = o /\ row.link = None
  BY DEF TaskRows, Titles

LEMMA NoTaskShape ==
  NoTask \in [opp : {None}, source : {"none"}, type : {"none"}, title : {NoTitle},
              status : {"ABSENT"}, link : {None}]
  BY DEF NoTask

LEMMA FirstUnusedTask ==
  ASSUME UnusedTasks # {}
  PROVE  /\ First(UnusedTasks) \in UnusedTasks /\ First(UnusedTasks) \in TaskIds
         /\ tasks[First(UnusedTasks)].link = None
<1>1. UnusedTasks \in SUBSET Nat
  BY UnusedAre DEF TaskIds
<1>2. First(UnusedTasks) \in UnusedTasks
  BY <1>1, FirstInSet
<1> QED
  BY <1>2, UnusedAre DEF NoTask

LEMMA CreateTaskMove ==
  ASSUME IInv, NEW c \in Clients, CreateTask(c)
  PROVE  LocalMove(c)
<1> DEFINE o == tx[c].on
           u == First(UnusedTasks)
           row == [NoTask EXCEPT !.opp = o, !.source = "user", !.title = "define",
                                 !.status = "OPEN"]
           p2 == [x \in {u} |-> row]
           p3 == NewActivity(o, <<"post">>)
           put == [NoPut EXCEPT !.tasks = p2, !.activities = p3]
<1>1. /\ tx[c].step = "work" /\ tx[c].op # "patch"
      /\ UnusedTasks # {} /\ UnusedActivities # {}
  BY DEF CreateTask
<1>2. /\ Rows /\ Target(tx[c]) = o /\ o \in Opportunities
  BY <1>1, AtWork
<1>3. Ready(c, NoPut, "duplicate") \/ Ready(c, put, "done")
  BY DEF CreateTask
<1>4. Empty \in Partial(Opportunities, OpportunityRows) /\ DOMAIN Empty = {}
  BY EmptyPartial
<1>5. /\ NoPut \in PutRows /\ NoPut.opps = Empty /\ NoPut.prospects = Empty
      /\ NoPut.actions = Empty /\ NoPut.tasks = Empty /\ NoPut.activities = Empty
  BY NoPutTyped, NoPutShape
<1>6. CASE Ready(c, NoPut, "duplicate")
  BY <1>1, <1>4, <1>5, <1>6, ServiceMove
<1>7. CASE Ready(c, put, "done")
  <2>1. row \in [opp : {o}, source : {"user"}, type : {"none"}, title : {"define"},
                 status : {"OPEN"}, link : {None}]
    BY NoTaskShape
  <2> HIDE DEF row, o
  <2>2. row = [opp |-> o, source |-> "user", type |-> "none", title |-> "define",
               status |-> "OPEN", link |-> None]
    BY <2>1
  <2>3. row \in TaskRows /\ row.opp = o /\ row.link = None
    BY <1>2, <2>2, AskedTask
  <2>4. u \in UnusedTasks /\ u \in TaskIds /\ tasks[u].link = None
    BY <1>1, FirstUnusedTask
  <2> HIDE DEF u
  <2>5. p2 \in [{u} -> TaskRows] /\ DOMAIN p2 = {u} /\ p2[u] = row
    BY <2>3
  <2>6. p2 \in Partial(TaskIds, TaskRows)
    BY <2>4, <2>5, PartialFrom
  <2>7. PICK key \in Keys : key = <<"post">>
    BY Zenon DEF Keys
  <2>8. /\ p3 \in Partial(ActivityIds, ActivityRows)
        /\ \A v \in DOMAIN p3 : v \in UnusedActivities /\ p3[v].opp = o /\ p3[v].link = None
    BY <1>1, <1>2, <2>7, NewActivityPut
  <2> HIDE DEF p2, p3
  <2>9. put \in [opps : {Empty}, prospects : {Empty}, actions : {Empty}, tasks : {p2},
                 activities : {p3}]
    BY NoPutShape
  <2> HIDE DEF put
  <2>10. /\ put \in PutRows /\ put.opps = Empty /\ put.tasks = p2 /\ put.activities = p3
         /\ DOMAIN put.prospects = {} /\ DOMAIN put.actions = {}
    BY <1>4, <2>6, <2>8, <2>9, ServicePut
  <2>11. \A x \in DOMAIN put.tasks : /\ x \in UnusedTasks
                                     /\ put.tasks[x].opp = o /\ put.tasks[x].link = tasks[x].link
    BY <2>3, <2>4, <2>5, <2>10
  <2> QED
    BY <1>1, <1>2, <1>4, <1>7, <2>8, <2>10, <2>11, ServiceMove
<1> QED
  BY <1>3, <1>6, <1>7

LEMMA CreateIntelligenceTaskMove ==
  ASSUME IInv, NEW c \in Clients, CreateIntelligenceTask(c)
  PROVE  LocalMove(c)
<1> DEFINE o == tx[c].on
           u == First(UnusedTasks)
           same == SameTasks(o, {"none", "CREATE_TASK"})
           row == [NoTask EXCEPT !.opp = o, !.source = "deal_intelligence",
                                 !.type = "CREATE_TASK", !.title = "define",
                                 !.status = "OPEN"]
           opp == [opps[o] EXCEPT !.next = "define"]
           p1 == IF opps[o].next = "define" THEN Empty ELSE [p \in {o} |-> opp]
           p2 == IF same # {} THEN Empty ELSE [x \in {u} |-> row]
           p3 == ActivityOnce(o, <<"task">>)
           put == [NoPut EXCEPT !.tasks = p2, !.opps = p1, !.activities = p3]
<1>1. /\ tx[c].step = "work" /\ tx[c].op # "patch"
      /\ UnusedActivities # {} /\ (same # {} \/ UnusedTasks # {})
      /\ Ready(c, put, "done")
  BY DEF CreateIntelligenceTask
<1>2. /\ Rows /\ Target(tx[c]) = o /\ o \in Opportunities /\ opps[o] \in OpportunityRows
  BY <1>1, AtWork
<1>3. opp \in OpportunityRows
  BY <1>2 DEF OpportunityRows, Titles
<1>4. row \in [opp : {o}, source : {"deal_intelligence"}, type : {"CREATE_TASK"},
               title : {"define"}, status : {"OPEN"}, link : {None}]
  BY NoTaskShape
<1> HIDE DEF row, o, opp, same
<1>5. row = [opp |-> o, source |-> "deal_intelligence", type |-> "CREATE_TASK",
             title |-> "define", status |-> "OPEN", link |-> None]
  BY <1>4
<1>6. row \in TaskRows /\ row.opp = o /\ row.link = None
  BY <1>2, <1>5, AskedTask
<1>7. same = {} => u \in UnusedTasks /\ u \in TaskIds /\ tasks[u].link = None
  BY <1>1, FirstUnusedTask
<1> HIDE DEF u
<1>8. p1 \in Partial(Opportunities, OpportunityRows) /\ DOMAIN p1 \subseteq {o}
  BY <1>2, <1>3, PartialFrom, EmptyPartial
<1>9. /\ p2 \in Partial(TaskIds, TaskRows)
      /\ \A x \in DOMAIN p2 : /\ x \in UnusedTasks
                              /\ p2[x].opp = o /\ p2[x].link = tasks[x].link
  <2>1. CASE same # {}
    BY <2>1, EmptyPartial
  <2>2. CASE same = {}
    <3>1. p2 \in [{u} -> TaskRows] /\ DOMAIN p2 = {u} /\ p2[u] = row
      BY <1>6, <2>2
    <3> QED
      BY <1>6, <1>7, <2>2, <3>1, PartialFrom
  <2> QED
    BY <2>1, <2>2
<1>10. PICK key \in Keys : key = <<"task">>
  BY Zenon DEF Keys
<1>11. /\ p3 \in Partial(ActivityIds, ActivityRows)
       /\ \A v \in DOMAIN p3 : v \in UnusedActivities /\ p3[v].opp = o /\ p3[v].link = None
  BY <1>1, <1>2, <1>10, NewActivityPut
<1> HIDE DEF p1, p2, p3
<1>12. put \in [opps : {p1}, prospects : {Empty}, actions : {Empty}, tasks : {p2},
                activities : {p3}]
  BY NoPutShape
<1> HIDE DEF put
<1>13. /\ put \in PutRows /\ put.opps = p1 /\ put.tasks = p2 /\ put.activities = p3
       /\ DOMAIN put.prospects = {} /\ DOMAIN put.actions = {}
  BY <1>8, <1>9, <1>11, <1>12, ServicePut
<1> QED
  BY <1>1, <1>2, <1>8, <1>9, <1>11, <1>13, ServiceMove

LEMMA UpdateTaskMove ==
  ASSUME IInv, NEW c \in Clients, UpdateTask(c)
  PROVE  LocalMove(c)
<1> DEFINE u == tx[c].on
           o == tasks[u].opp
<1>1. tx[c].step = "work" /\ tx[c].op = "patch" /\ UnusedActivities # {}
  BY DEF UpdateTask
<1>2. Rows /\ Phase(tx[c]) /\ Target(tx[c]) \in Opportunities
  BY <1>1, Doing DEF IInv, Typed
<1>3. u \in TaskIds /\ tasks[u] # NoTask
  BY <1>1, <1>2 DEF Phase
<1>4. Target(tx[c]) = o
  BY <1>1 DEF Target, ActionOps, Transitions
<1>5. tasks[u] \in TaskRows
  BY <1>2, <1>3, RowsAre
<1>6. PICK s \in {"OPEN", "COMPLETED"} :
         Ready(c, [NoPut EXCEPT
                !.tasks = [x \in {u} |-> [tasks[u] EXCEPT !.status = s]],
                !.activities = IF s = tx[c].seen THEN Empty
                               ELSE NewActivity(o, <<"status">>)], "done")
  BY DEF UpdateTask
<1> DEFINE row == [tasks[u] EXCEPT !.status = s]
           p2 == [x \in {u} |-> row]
           p3 == IF s = tx[c].seen THEN Empty ELSE NewActivity(o, <<"status">>)
           put == [NoPut EXCEPT !.tasks = p2, !.activities = p3]
<1>7. row \in TaskRows /\ row.opp = o /\ row.link = tasks[u].link
  BY <1>5 DEF TaskRows
<1>8. Ready(c, put, "done")
  BY <1>6
<1> HIDE DEF row, o, u
<1>9. p2 \in [{u} -> TaskRows] /\ DOMAIN p2 = {u} /\ p2[u] = row
  BY <1>7
<1>10. p2 \in Partial(TaskIds, TaskRows)
  BY <1>3, <1>9, PartialFrom
<1>11. PICK key \in Keys : key = <<"status">>
  BY Zenon DEF Keys
<1>12. /\ p3 \in Partial(ActivityIds, ActivityRows)
       /\ \A v \in DOMAIN p3 : v \in UnusedActivities /\ p3[v].opp = o /\ p3[v].link = None
  <2>1. CASE s = tx[c].seen
    BY <2>1, EmptyPartial
  <2>2. CASE s # tx[c].seen
    <3>1. p3 = NewActivity(o, key)
      BY <1>11, <2>2
    <3> HIDE DEF p3
    <3> QED
      BY <1>1, <1>2, <1>4, <3>1, NewActivityPut
  <2> QED
    BY <2>1, <2>2
<1>13. Empty \in Partial(Opportunities, OpportunityRows) /\ DOMAIN Empty = {}
  BY EmptyPartial
<1> HIDE DEF p2, p3
<1>14. put \in [opps : {Empty}, prospects : {Empty}, actions : {Empty}, tasks : {p2},
                activities : {p3}]
  BY NoPutShape
<1> HIDE DEF put
<1>15. /\ put \in PutRows /\ put.opps = Empty /\ put.tasks = p2 /\ put.activities = p3
       /\ DOMAIN put.prospects = {} /\ DOMAIN put.actions = {}
  BY <1>10, <1>12, <1>13, <1>14, ServicePut
<1>16. \A x \in DOMAIN put.tasks : /\ tasks[x].opp = o
                                   /\ put.tasks[x].opp = o /\ put.tasks[x].link = tasks[x].link
  BY <1>7, <1>9, <1>15 DEF o
<1> QED
  BY <1>1, <1>4, <1>8, <1>12, <1>13, <1>15, <1>16, ServiceMove

LEMMA QualifyProspectMove ==
  ASSUME IInv, NEW c \in Clients, QualifyProspect(c)
  PROVE  LocalMove(c)
<1> DEFINE q == tx[c]
           o == q.on
           lock == Lock("prospect", o, "update")
           p == [x \in {o} |-> TRUE]
           put == [q.put EXCEPT !.prospects = p]
           t == [q EXCEPT !.locks = {lock}, !.put = put, !.step = "commit", !.answer = "done"]
<1>1. /\ q.step = "prospect" /\ Grantable(c, lock) /\ UNCHANGED <<db, env>>
      /\ tx' = [tx EXCEPT ![c].locks = {lock}, ![c].put.prospects = p,
                          ![c].step = "commit", ![c].answer = "done"]
  BY DEF QualifyProspect
<1>2. /\ q \in Transactions /\ Phase(q) /\ tx \in [Clients -> Transactions]
  BY <1>1, Doing DEF IInv, Typed
<1>3. q.op = "qualify" /\ q.put = NoPut /\ o \in Opportunities
  BY <1>1, <1>2 DEF Phase, OpportunityOps
<1>4. tx' = [tx EXCEPT ![c] = t]
  BY <1>1, <1>2
<1>5. p \in Partial(Opportunities, BOOLEAN) /\ DOMAIN p = {o}
  BY <1>3, PartialFrom
<1> HIDE DEF p
<1>6. put \in [opps : {Empty}, prospects : {p}, actions : {Empty}, tasks : {Empty},
               activities : {Empty}]
  BY <1>3, NoPutShape
<1>7. /\ put \in PutRows /\ put.prospects = p
      /\ DOMAIN put.opps = {} /\ DOMAIN put.actions = {} /\ DOMAIN put.tasks = {}
      /\ DOMAIN put.activities = {}
  BY <1>5, <1>6, EmptyPartial DEF PutRows
<1>8. lock \in Locks /\ \A a : lock # Lock("action", a, "update")
  BY <1>3 DEF Locks, Lock
<1> HIDE DEF put, lock, o
<1>9. /\ t \in Transactions /\ t.op = "qualify" /\ t.on = o /\ t.put = put
      /\ t.step = "commit" /\ t.locks = {lock} /\ t.answer = "done"
  BY <1>2, <1>3, <1>7, <1>8 DEF Transactions, Steps, Answers, o
<1> HIDE DEF t
<1>10. Phase(t)
  BY <1>3, <1>9 DEF Phase, AllOps, OpportunityOps, ActionOps, Transitions
<1>11. Guarded(t)
  BY <1>8, <1>9 DEF Guarded, Locked, ActionOps, Transitions, lock
<1>12. Sighted(t) /\ Promises(t)
  BY <1>9 DEF Sighted, Promises, Transitions
<1>13. Writes(t)
  BY <1>5, <1>7, <1>9 DEF Writes, Effects, Executes
<1>14. ASSUME NEW d \in Clients \ {c} PROVE Apart(t, tx[d])
  <2>1. Compatible(t, tx[d])
    BY <1>1, <1>9 DEF Compatible, Grantable
  <2> QED
    BY <1>7, <1>9, <2>1 DEF Apart, Disjoint, Twins
<1> QED
  BY <1>1, <1>4, <1>9, <1>10, <1>11, <1>12, <1>13, <1>14 DEF LocalMove, Local, Allowed, Knows

\* Every step is one of these.
LEMMA Cases ==
  ASSUME IInv, Next
  PROVE  \/ \E c \in Clients : LocalMove(c)
         \/ \E c \in Clients : Commit(c) \/ CommitLost(c)
         \/ NextDay
<1>1. CASE NextDay
  BY <1>1
<1>2. ASSUME NEW c \in Clients, Request(c) PROVE LocalMove(c)
  BY <1>2, RequestMove
<1>3. ASSUME NEW c \in Clients, Acquire(c) PROVE LocalMove(c)
  BY <1>3, LockOpportunityMove, LockActionMove, LockNextActiveMove, LockExistingMove,
     TransitionOnEvidenceMove, ReadEvidenceMove, ExecuteOnEvidenceMove, InsertMove,
     QualifyProspectMove, RelockOpportunityMove, RelockActionMove DEF Acquire
<1>4. ASSUME NEW c \in Clients, Work(c) PROVE LocalMove(c) \/ Commit(c)
  BY <1>4, DecideTransitionMove, SelectActiveMove, SupersedeActiveMove, DecideExecutionMove,
     ExecuteEffectsMove, MarkExecutionFailedMove, UpdateStageMove, SetFactMove, CreateTaskMove,
     CreateIntelligenceTaskMove, UpdateTaskMove, RollbackMove DEF Work, GivenUp
<1>5. ASSUME NEW c \in Clients, Fault(c) PROVE LocalMove(c) \/ CommitLost(c)
  BY <1>5, EffectFailsMove, RollbackMove DEF Fault, Fail
<1> QED
  BY <1>1, <1>2, <1>3, <1>4, <1>5 DEF Next

-----------------------------------------------------------------------------
(* Commits                                                                 *)

LEMMA OverIs ==
  ASSUME NEW S, NEW R, NEW N, NEW g \in [S -> R \cup {N}], NEW f \in Partial(S, R)
  PROVE  /\ Over(f, g) \in [S -> R \cup {N}]
         /\ \A x \in S : x \in DOMAIN f => Over(f, g)[x] = f[x] /\ f[x] \in R
         /\ \A x \in S : x \notin DOMAIN f => Over(f, g)[x] = g[x]
<1>1. \A x \in DOMAIN f : f[x] \in R
  BY PartialIs
<1> QED
  BY <1>1 DEF Over

LEMMA OverAll ==
  ASSUME NEW S, NEW R, NEW g \in [S -> R], NEW f \in Partial(S, R)
  PROVE  /\ Over(f, g) \in [S -> R]
         /\ \A x \in S : x \in DOMAIN f => Over(f, g)[x] = f[x]
         /\ \A x \in S : x \notin DOMAIN f => Over(f, g)[x] = g[x]
<1>1. \A x \in DOMAIN f : f[x] \in R
  BY PartialIs
<1> QED
  BY <1>1 DEF Over

\* What a commit leaves.
Landed(t) ==
    /\ \A o \in Opportunities : opps'[o] = IF o \in DOMAIN t.put.opps THEN t.put.opps[o] ELSE opps[o]
    /\ \A o \in Opportunities : o \notin DOMAIN t.put.prospects => prospects'[o] = prospects[o]
    /\ \A a \in ActionIds : actions'[a] = After(t, a)
    /\ \A u \in TaskIds : tasks'[u] = IF u \in DOMAIN t.put.tasks THEN t.put.tasks[u] ELSE tasks[u]
    /\ \A v \in ActivityIds :
         activities'[v] = IF v \in DOMAIN t.put.activities THEN t.put.activities[v] ELSE activities[v]

\* The rows of a transaction are rows of known ids.
LEMMA PutDomains ==
  ASSUME NEW t \in Transactions
  PROVE  /\ DOMAIN t.put.opps \subseteq Opportunities
         /\ DOMAIN t.put.prospects \subseteq Opportunities
         /\ DOMAIN t.put.actions \subseteq ActionIds
         /\ DOMAIN t.put.tasks \subseteq TaskIds
         /\ DOMAIN t.put.activities \subseteq ActivityIds
         /\ \A a \in DOMAIN t.put.actions : t.put.actions[a] \in ActionRows
         /\ \A u \in DOMAIN t.put.tasks : t.put.tasks[u] \in TaskRows
         /\ \A v \in DOMAIN t.put.activities : t.put.activities[v] \in ActivityRows
<1>1. /\ t.put.opps \in Partial(Opportunities, OpportunityRows)
      /\ t.put.prospects \in Partial(Opportunities, BOOLEAN)
      /\ t.put.actions \in Partial(ActionIds, ActionRows)
      /\ t.put.tasks \in Partial(TaskIds, TaskRows)
      /\ t.put.activities \in Partial(ActivityIds, ActivityRows)
  BY DEF Transactions, PutRows
<1> QED
  BY <1>1, PartialIs

LEMMA InstallLands ==
  ASSUME IInv, NEW c \in Clients, Install(c), UNCHANGED env
  PROVE  Landed(tx[c]) /\ Rows'
<1> DEFINE q == tx[c]
<1>1. Rows /\ q \in Transactions
  BY DEF IInv, Typed
<1>2. /\ q.put.opps \in Partial(Opportunities, OpportunityRows)
      /\ q.put.prospects \in Partial(Opportunities, BOOLEAN)
      /\ q.put.actions \in Partial(ActionIds, ActionRows)
      /\ q.put.tasks \in Partial(TaskIds, TaskRows)
      /\ q.put.activities \in Partial(ActivityIds, ActivityRows)
  BY <1>1 DEF Transactions, PutRows
<1>3. /\ opps' = Over(q.put.opps, opps) /\ prospects' = Over(q.put.prospects, prospects)
      /\ actions' = Over(q.put.actions, actions) /\ tasks' = Over(q.put.tasks, tasks)
      /\ activities' = Over(q.put.activities, activities)
  BY DEF Install
<1> HIDE DEF q
<1>4. /\ opps' \in [Opportunities -> OpportunityRows]
      /\ \A o \in Opportunities :
            opps'[o] = IF o \in DOMAIN q.put.opps THEN q.put.opps[o] ELSE opps[o]
  <2>1. opps \in [Opportunities -> OpportunityRows]
    BY <1>1 DEF Rows
  <2> QED
    BY <1>2, <1>3, <2>1, OverAll
<1>5. /\ prospects' \in [Opportunities -> BOOLEAN]
      /\ \A o \in Opportunities : o \notin DOMAIN q.put.prospects => prospects'[o] = prospects[o]
  <2>1. prospects \in [Opportunities -> BOOLEAN]
    BY <1>1 DEF Rows
  <2> QED
    BY <1>2, <1>3, <2>1, OverAll
<1>6. /\ actions' \in [ActionIds -> ActionRows \cup {NoAction}]
      /\ \A a \in ActionIds : actions'[a] = After(q, a)
  <2>1. actions \in [ActionIds -> ActionRows \cup {NoAction}]
    BY <1>1 DEF Rows
  <2> QED
    BY <1>2, <1>3, <2>1, OverIs DEF After
<1>7. /\ tasks' \in [TaskIds -> TaskRows \cup {NoTask}]
      /\ \A u \in TaskIds : tasks'[u] = IF u \in DOMAIN q.put.tasks THEN q.put.tasks[u] ELSE tasks[u]
  <2>1. tasks \in [TaskIds -> TaskRows \cup {NoTask}]
    BY <1>1 DEF Rows
  <2> QED
    BY <1>2, <1>3, <2>1, OverIs
<1>8. /\ activities' \in [ActivityIds -> ActivityRows \cup {NoActivity}]
      /\ \A v \in ActivityIds :
           activities'[v] = IF v \in DOMAIN q.put.activities THEN q.put.activities[v]
                            ELSE activities[v]
  <2>1. activities \in [ActivityIds -> ActivityRows \cup {NoActivity}]
    BY <1>1 DEF Rows
  <2> DEFINE f == q.put.activities
             g == Over(f, activities)
  <2>2. f \in Partial(ActivityIds, ActivityRows) /\ activities' = g
    BY <1>2, <1>3
  <2> HIDE DEF f
  <2>3. /\ g \in [ActivityIds -> ActivityRows \cup {NoActivity}]
        /\ \A v \in ActivityIds : v \in DOMAIN f => g[v] = f[v]
        /\ \A v \in ActivityIds : v \notin DOMAIN f => g[v] = activities[v]
    BY <2>1, <2>2, OverIs
  <2> HIDE DEF g
  <2> QED
    BY <2>2, <2>3 DEF f
<1>9. Rows'
  BY <1>1, <1>4, <1>5, <1>6, <1>7, <1>8 DEF Rows, env
<1> QED
  BY <1>4, <1>5, <1>6, <1>7, <1>8, <1>9 DEF Landed, q

-----------------------------------------------------------------------------
(* What a commit leaves alone                                              *)

\* An action stays the one it is, and a row that is there stays there.
LEMMA ActionsStay ==
  ASSUME IInv, NEW c \in Clients, Landed(tx[c]), NEW a \in ActionIds
  PROVE  /\ actions[a] # NoAction => /\ actions'[a] # NoAction
                                     /\ actions'[a].opp = actions[a].opp
                                     /\ actions'[a].basis = actions[a].basis
         /\ actions[a].status \in Terminal => actions'[a] = actions[a]
         /\ actions[a] # NoAction /\ actions'[a] # actions[a] =>
              a \in DOMAIN tx[c].put.actions /\ Replaces(tx[c], a)
         /\ actions[a] = NoAction /\ actions'[a] # NoAction =>
              a \in DOMAIN tx[c].put.actions /\ Inserts(tx[c], a)
         /\ a \in DOMAIN tx[c].put.actions => actions'[a] = tx[c].put.actions[a]
<1>1. actions'[a] = After(tx[c], a) /\ Writes(tx[c]) /\ Rows /\ tx[c] \in Transactions
  BY DEF Landed, IInv, Knows, Typed
<1>2. a \in DOMAIN tx[c].put.actions => tx[c].put.actions[a] \in ActionRows
  BY <1>1, PutDomains
<1>3. NoAction \notin ActionRows /\ NoAction.status \notin Terminal
  BY DEF NoAction, ActionRows, ACTIVE_ACTION_STATUSES, Terminal
<1>4. a \in DOMAIN tx[c].put.actions => Replaces(tx[c], a) \/ Inserts(tx[c], a)
  BY <1>1 DEF Writes
<1> QED
  BY <1>1, <1>2, <1>3, <1>4 DEF After, Replaces, Inserts

LEMMA LockedStays ==
  ASSUME IInv, NEW c \in Clients, Landed(tx[c]), NEW d \in Clients \ {c}, NEW a \in ActionIds,
         Locked(tx[d], "action", a, "update")
  PROVE  actions'[a] = actions[a]
<1>1. a \notin DOMAIN tx[c].put.actions
  BY LockedIsMine
<1> QED
  BY <1>1 DEF Landed, After

LEMMA TasksStay ==
  ASSUME IInv, NEW c \in Clients, Landed(tx[c]), NEW u \in TaskIds, tasks[u] # NoTask
  PROVE  tasks'[u] # NoTask /\ tasks'[u].opp = tasks[u].opp
<1>1. CASE u \notin DOMAIN tx[c].put.tasks
  BY <1>1 DEF Landed
<1>2. CASE u \in DOMAIN tx[c].put.tasks
  <2>1. Writes(tx[c]) /\ tasks'[u] = tx[c].put.tasks[u]
    BY <1>2 DEF Landed, IInv, Knows
  <2>3. tx[c].put.tasks[u].opp = Target(tx[c]) /\ tasks[u].opp = Target(tx[c])
    BY <1>2, <2>1 DEF Writes
  <2>2. tasks[u].opp \in Opportunities /\ NoTask.opp = None /\ None \notin Opportunities
    BY RowsAre, PostgresAssumption DEF NoTask, IInv, Typed
  <2> QED
    BY <2>1, <2>2, <2>3
<1> QED
  BY <1>1, <1>2

LEMMA TargetStays ==
  ASSUME IInv, NEW c \in Clients, Landed(tx[c]), NEW d \in Clients, tx[d].step # "idle",
         NEW t, t = tx[d]
  PROVE  Target(t)' = Target(t)
<1>1. Phase(t)
  BY DEF IInv, Knows
<1>2. t.op \in ActionOps => actions'[t.on].opp = actions[t.on].opp
  BY <1>1, ActionsStay DEF Phase
<1>3. t.op = "patch" => tasks'[t.on].opp = tasks[t.on].opp
  BY <1>1, TasksStay DEF Phase
<1> QED
  BY <1>2, <1>3 DEF Target

\* The records of an opportunity that another transaction holds for update.
LEMMA RecordsStay ==
  ASSUME IInv, NEW c \in Clients, tx[c].step = "commit", Landed(tx[c]), NEW d \in Clients \ {c},
         NEW o \in Opportunities, o = Target(tx[d]), Locked(tx[d], "opp", o, "update")
  PROVE  /\ opps'[o] = opps[o] /\ LatestActivity(o)' = LatestActivity(o)
         /\ {<<u, tasks'[u].status>> : u \in {w \in TaskIds : tasks'[w].opp = o}}
              = {<<u, tasks[u].status>> : u \in {w \in TaskIds : tasks[w].opp = o}}
         /\ Locked(tx[d], "prospect", o, "share") => prospects'[o] = prospects[o]
<1> DEFINE q == tx[c]
<1>1. Writes(q) /\ Guarded(q) /\ Compatible(tx[d], q) /\ Rows
  BY DEF IInv, Knows, Apart, Typed
<1>2. Owns(q) => Target(q) # o
  BY OneOwner
<1>3. opps'[o] = opps[o]
  BY <1>1, <1>2 DEF Writes, Landed
<1>4. \A u \in TaskIds : tasks'[u] = tasks[u] \/ (tasks'[u].opp # o /\ tasks[u].opp # o)
  <2>1. NoTask.opp # o
    BY PostgresAssumption DEF NoTask
  <2> QED
    BY <1>1, <1>2, <2>1 DEF Writes, Landed
<1>5. \A v \in ActivityIds :
        activities'[v] = activities[v] \/ (activities'[v].opp # o /\ activities[v].opp # o)
  <2>1. NoActivity.opp # o
    BY PostgresAssumption DEF NoActivity
  <2> QED
    BY <1>1, <1>2, <2>1 DEF Writes, Landed
<1>6. LatestActivity(o)' = LatestActivity(o)
  <2>1. {v \in ActivityIds : activities'[v].opp = o} = {v \in ActivityIds : activities[v].opp = o}
    BY <1>5
  <2> QED
    BY <2>1 DEF LatestActivity
<1>7. {<<u, tasks'[u].status>> : u \in {w \in TaskIds : tasks'[w].opp = o}}
        = {<<u, tasks[u].status>> : u \in {w \in TaskIds : tasks[w].opp = o}}
  <2>1. {w \in TaskIds : tasks'[w].opp = o} = {w \in TaskIds : tasks[w].opp = o}
    BY <1>4
  <2>2. \A u \in {w \in TaskIds : tasks[w].opp = o} : tasks'[u] = tasks[u]
    BY <1>4
  <2> QED
    BY <2>1, <2>2
<1>8. ASSUME Locked(tx[d], "prospect", o, "share") PROVE prospects'[o] = prospects[o]
  <2>1. SUFFICES ASSUME o \in DOMAIN q.put.prospects PROVE FALSE
    BY DEF Landed
  <2>2. q.op = "qualify" /\ o = q.on
    BY <1>1, <2>1 DEF Writes
  <2>3. Locked(q, "prospect", o, "update")
    BY <1>1, <2>2 DEF Guarded
  <2> QED
    BY <1>1, <1>8, <2>3 DEF Compatible, Locked, Lock
<1> QED
  BY <1>3, <1>6, <1>7, <1>8

-----------------------------------------------------------------------------
(* What the others know when a transaction commits                         *)

LEMMA PhaseStays ==
  ASSUME IInv, NEW c \in Clients, Landed(tx[c]), NEW d \in Clients, NEW t, t = tx[d]
  PROVE  Phase(t)'
<1> SUFFICES ASSUME t.step # "idle" PROVE Phase(t)'
  BY DEF Phase
<1>1. Phase(t) /\ t \in Transactions /\ Rows
  BY DEF IInv, Knows, Typed
<1>2. t.op \in ActionOps => actions'[t.on] # NoAction
  BY <1>1, ActionsStay DEF Phase
<1>3. t.op = "patch" => tasks'[t.on] # NoTask
  BY <1>1, TasksStay DEF Phase
<1>4. t.queue \subseteq ActionIds
  BY <1>1 DEF Transactions
<1>5. t.step = "active" => \A a \in t.queue : actions'[a] # NoAction /\ actions'[a].opp = t.on
  BY <1>1, <1>4, ActionsStay DEF Phase
<1>6. t.step = "existing" => t.queue # {} /\ t.queue \subseteq Same(t)'
  <2> SUFFICES ASSUME t.step = "existing" PROVE t.queue # {} /\ t.queue \subseteq Same(t)'
    OBVIOUS
  <2>1. t.queue # {} /\ t.queue \subseteq Same(t) /\ t.on \in Opportunities
    BY <1>1 DEF Phase, OpportunityOps
  <2>2. ASSUME NEW a \in t.queue PROVE a \in Same(t)'
    <3>1. actions[a].opp = t.on /\ actions[a].basis = t.basis
      BY <2>1 DEF Same
    <3>2. actions[a] # NoAction
      BY <1>1, <1>4, <2>1, <3>1, RowsAre
    <3> QED
      BY <1>4, <3>1, <3>2, ActionsStay DEF Same
  <2> QED
    BY <2>1, <2>2
<1> QED
  BY <1>1, <1>2, <1>3, <1>5, <1>6 DEF Phase, Sound

LEMMA GuardedStays ==
  ASSUME IInv, NEW c \in Clients, Landed(tx[c]), NEW d \in Clients \ {c}, NEW t, t = tx[d]
  PROVE  Guarded(t)'
<1>1. Guarded(t)
  BY DEF IInv, Knows
<1>2. \A a \in ActionIds : Locked(t, "action", a, "update") => actions'[a] # NoAction
  BY <1>1, ActionsStay DEF Guarded
<1>3. t.step # "idle" => Target(t)' = Target(t)
  BY TargetStays
<1> QED
  BY <1>1, <1>2, <1>3 DEF Guarded, Locked

LEMMA OnRecordsStay ==
  ASSUME IInv, NEW c \in Clients, tx[c].step = "commit", Landed(tx[c]), NEW d \in Clients \ {c},
         NEW t, t = tx[d], t.op = "execute", t.step \in {"effects", "commit"},
         OnRecords(t.on), Locked(t, "prospect", actions[t.on].opp, "share")
  PROVE  OnRecords(t.on)' /\ actions'[t.on] = actions[t.on]
<1>0. PICK o : o = actions[t.on].opp
  OBVIOUS
<1>1. /\ Phase(t) /\ Guarded(t) /\ Target(t) \in Opportunities /\ t.op \in ActionOps
      /\ t.on \in ActionIds
  BY Doing DEF ActionOps, Phase
<1>2. Target(t) = o
  BY <1>0, <1>1 DEF Target
<1>3. Locked(t, "opp", o, "update") /\ Locked(t, "action", t.on, "update")
  BY <1>1, <1>2 DEF Guarded
<1>4. actions'[t.on] = actions[t.on]
  BY <1>1, <1>3, LockedStays
<1>5. /\ opps'[o] = opps[o] /\ LatestActivity(o)' = LatestActivity(o)
      /\ {<<u, tasks'[u].status>> : u \in {w \in TaskIds : tasks'[w].opp = o}}
              = {<<u, tasks[u].status>> : u \in {w \in TaskIds : tasks[w].opp = o}}
      /\ prospects'[o] = prospects[o]
  <2>1. o \in Opportunities /\ o = Target(tx[d]) /\ Locked(tx[d], "opp", o, "update")
    BY <1>1, <1>2, <1>3
  <2>2. Locked(tx[d], "prospect", o, "share")
    BY <1>0
  <2> QED
    BY <2>1, <2>2, RecordsStay
<1> QED
  BY <1>0, <1>4, <1>5 DEF OnRecords

LEMMA SightedStays ==
  ASSUME IInv, NEW c \in Clients, tx[c].step = "commit", Landed(tx[c]), NEW d \in Clients \ {c},
         NEW t, t = tx[d]
  PROVE  Sighted(t)'
<1>1. Phase(t) /\ Guarded(t) /\ Sighted(t)
  BY DEF IInv, Knows
<1>2. ASSUME t.op = "execute", t.step \in {"evidence", "effects"}
      PROVE  actions'[t.on] = actions[t.on]
  <2>1. t.on \in ActionIds /\ Locked(t, "action", t.on, "update")
    BY <1>1, <1>2 DEF Phase, Guarded, ActionOps
  <2> QED
    BY <2>1, LockedStays
<1>3. ASSUME t.op = "execute", t.step = "effects" PROVE OnRecords(t.on)'
  <2>1. OnRecords(t.on) /\ Locked(t, "prospect", actions[t.on].opp, "share")
    BY <1>1, <1>3 DEF Sighted
  <2> QED
    BY <1>3, <2>1, OnRecordsStay
<1>4. ASSUME t.op = "execute", t.step \in {"undone", "relock", "marking"}
      PROVE  actions'[t.on].status \in {"APPROVED", "FAILED"} \cup Terminal
  <2>1. /\ t.on \in ActionIds /\ actions[t.on] # NoAction
        /\ actions[t.on].status \in {"APPROVED", "FAILED"} \cup Terminal
    BY <1>1, <1>4 DEF Phase, Sighted, ActionOps
  <2>2. CASE actions'[t.on] # actions[t.on]
    <3>1. Replaces(tx[c], t.on) /\ actions'[t.on] = tx[c].put.actions[t.on]
      BY <2>1, <2>2, ActionsStay
    <3> QED
      BY <2>1, <3>1 DEF Replaces, Lawful, Terminal
  <2> QED
    BY <2>1, <2>2
<1> QED
  BY <1>1, <1>2, <1>3, <1>4 DEF Sighted, Locked

LEMMA InsertsStay ==
  ASSUME IInv, NEW c \in Clients, Landed(tx[c]), NEW d \in Clients \ {c}, NEW t, t = tx[d],
         NEW a \in DOMAIN t.put.actions, Inserts(t, a)
  PROVE  Inserts(t, a)'
<1> DEFINE q == tx[c]
<1>1. t \in Transactions /\ Apart(q, t) /\ Rows
  BY DEF IInv, Typed
<1>2. DOMAIN t.put.actions \subseteq ActionIds
  BY <1>1, PutDomains
<1>3. a \notin DOMAIN q.put.actions
  BY <1>1 DEF Apart, Disjoint
<1>4. actions[a] = NoAction /\ actions'[a] = NoAction
  BY <1>2, <1>3 DEF Inserts, Landed, After
<1>5. ASSUME NEW b \in Same(t)' PROVE actions'[b].status \in Terminal
  <2>1. b \in ActionIds /\ actions'[b].opp = t.on /\ actions'[b].basis = t.basis
    BY DEF Same
  <2>2. CASE actions[b] = NoAction
    <3>1. t.on \in Opportunities
      BY DEF Inserts, IInv, Knows, Phase, OpportunityOps
    <3>2. actions'[b] # NoAction
      BY <2>1, <3>1, PostgresAssumption DEF NoAction
    <3>3. b \in DOMAIN q.put.actions /\ actions'[b] = q.put.actions[b]
      BY <2>1, <2>2, <3>2, ActionsStay
    <3>4. q.put.actions[b].opp = t.put.actions[a].opp /\ q.put.actions[b].basis = t.put.actions[a].basis
      BY <2>1, <3>3 DEF Inserts
    <3>5. Twins(q, t)
      BY <1>4, <2>2, <3>3, <3>4 DEF Twins
    <3> QED
      BY <1>1, <3>5 DEF Apart
  <2>3. CASE actions[b] # NoAction
    <3>1. actions[b].opp = t.on /\ actions[b].basis = t.basis
      BY <2>1, <2>3, ActionsStay
    <3>2. b \in Same(t)
      BY <2>1, <3>1 DEF Same
    <3>3. actions[b].status \in Terminal
      BY <3>2 DEF Inserts
    <3> QED
      BY <2>1, <3>3, ActionsStay
  <2> QED
    BY <2>2, <2>3
<1>6. \A b \in DOMAIN t.put.actions : actions'[b] = NoAction => b = a
  BY <1>2, ActionsStay DEF Inserts
<1> QED
  BY <1>4, <1>5, <1>6 DEF Inserts

LEMMA WritesStay ==
  ASSUME IInv, NEW c \in Clients, tx[c].step = "commit", Landed(tx[c]), NEW d \in Clients \ {c},
         NEW t, t = tx[d]
  PROVE  Writes(t)'
<1> DEFINE q == tx[c]
<1>1. Writes(t) /\ Guarded(t) /\ t \in Transactions /\ Apart(q, t)
  BY DEF IInv, Knows, Typed
<1>2. /\ DOMAIN t.put.opps \subseteq Opportunities
      /\ DOMAIN t.put.prospects \subseteq Opportunities
      /\ DOMAIN t.put.actions \subseteq ActionIds
      /\ DOMAIN t.put.tasks \subseteq TaskIds
      /\ DOMAIN t.put.activities \subseteq ActivityIds
  BY <1>1, PutDomains
<1>3. t.step # "idle" => Target(t)' = Target(t)
  BY TargetStays
<1>4. Owns(t) => t.step = "commit"
  BY DEF Owns
<1>5. ASSUME NEW a \in DOMAIN t.put.actions PROVE (Replaces(t, a) \/ Inserts(t, a))'
  <2>1. CASE Replaces(t, a)
    <3>1. Locked(t, "action", a, "update")
      BY <2>1 DEF Replaces
    <3>2. actions'[a] = actions[a]
      BY <1>2, <3>1, LockedStays
    <3> QED
      BY <2>1, <3>2 DEF Replaces, Locked
  <2>2. CASE Inserts(t, a)
    BY <2>2, InsertsStay
  <2> QED
    BY <1>1, <2>1, <2>2 DEF Writes
<1>6. \A u \in DOMAIN t.put.tasks : tasks'[u] = tasks[u]
  BY <1>1, <1>2 DEF Apart, Disjoint, Landed
<1>7. \A v \in DOMAIN t.put.activities : activities'[v] = activities[v]
  BY <1>1, <1>2 DEF Apart, Disjoint, Landed
<1>8. ASSUME Executes(t)
      PROVE  OnRecords(t.on) /\ OnRecords(t.on)' /\ actions'[t.on] = actions[t.on]
  <2>1. /\ OnRecords(t.on) /\ Locked(t, "prospect", actions[t.on].opp, "share")
        /\ DOMAIN t.put.activities = {t.put.actions[t.on].activity}
    BY <1>1, <1>8 DEF Writes, Effects
  <2>2. t.step = "commit"
    BY <1>1, <1>4, <2>1 DEF Writes
  <2> QED
    BY <1>8, <2>1, <2>2, OnRecordsStay DEF Executes
<1>9. Effects(t)'
  <2>1. Effects(t)
    BY <1>1 DEF Writes
  <2>2. Executes(t)' <=> Executes(t)
    BY DEF Executes
  <2> QED
    BY <1>6, <1>8, <2>1, <2>2 DEF Effects, Locked
<1> QED
  BY <1>1, <1>3, <1>4, <1>5, <1>6, <1>7, <1>9 DEF Writes, Owns, Executes

LEMMA PromisesStay ==
  ASSUME IInv, NEW c \in Clients, Landed(tx[c]), NEW d \in Clients \ {c}, NEW t, t = tx[d]
  PROVE  Promises(t)'
<1> SUFFICES ASSUME t.step = "commit" PROVE Promises(t)'
  BY DEF Promises
<1>1. Promises(t) /\ Phase(t) /\ Guarded(t)
  BY DEF IInv, Knows
<1>2. t.op \in ActionOps => After(t, t.on)' = After(t, t.on) /\ actions'[t.on] = actions[t.on]
  <2> SUFFICES ASSUME t.op \in ActionOps
               PROVE  After(t, t.on)' = After(t, t.on) /\ actions'[t.on] = actions[t.on]
    OBVIOUS
  <2>1. t.on \in ActionIds /\ Locked(t, "action", t.on, "update")
    BY <1>1 DEF Phase, Guarded
  <2>2. actions'[t.on] = actions[t.on]
    BY <2>1, LockedStays
  <2> QED
    BY <2>2 DEF After
<1>3. \A b \in ActionIds : b \in DOMAIN t.put.actions \/ Locked(t, "action", b, "update")
         => After(t, b)' = After(t, b)
  BY LockedStays DEF After
<1>4. "execute" \in ActionOps /\ Transitions \subseteq ActionOps
  BY DEF ActionOps
<1>5. t.op = "materialize" /\ t.answer \in {"done", "duplicate"} =>
          \E b \in ActionIds :
             /\ b \in DOMAIN t.put.actions \/ Locked(t, "action", b, "update")
             /\ After(t, b)'.opp = t.on /\ After(t, b)'.basis = t.basis
             /\ After(t, b)'.status \in ACTIVE_ACTION_STATUSES
  BY <1>1, <1>3 DEF Promises
<1> QED
  BY <1>1, <1>2, <1>4, <1>5 DEF Promises, Locked

LEMMA KnowsStays ==
  ASSUME IInv, NEW c \in Clients, tx[c].step = "commit", Landed(tx[c]), NEW d \in Clients \ {c},
         NEW t, t = tx[d]
  PROVE  Knows(t)'
  BY PhaseStays, GuardedStays, SightedStays, WritesStay, PromisesStay DEF Knows

-----------------------------------------------------------------------------
(* What a commit keeps true of the committed rows                          *)

LEMMA SoundStays ==
  ASSUME IInv, NEW c \in Clients, Landed(tx[c]), NEW a \in ActionIds, actions'[a] # NoAction
  PROVE  Sound(actions'[a].basis)
<1>1. CASE actions[a] # NoAction
  BY <1>1, ActionsStay DEF IInv, Kept
<1>2. CASE actions[a] = NoAction
  <2>1. /\ a \in DOMAIN tx[c].put.actions /\ Inserts(tx[c], a)
        /\ actions'[a] = tx[c].put.actions[a]
    BY <1>2, ActionsStay
  <2>2. actions'[a].basis = tx[c].basis /\ Sound(tx[c].basis)
    BY <2>1 DEF Inserts, IInv, Knows, Phase
  <2> QED
    BY <2>2
<1> QED
  BY <1>1, <1>2

\* An action that is active after a commit was active before or is the one inserted.
LEMMA ActiveBefore ==
  ASSUME IInv, NEW c \in Clients, Landed(tx[c]), NEW a \in ActionIds,
         actions'[a].status \in ACTIVE_ACTION_STATUSES
  PROVE  \/ /\ actions[a].status \in ACTIVE_ACTION_STATUSES
            /\ actions'[a].opp = actions[a].opp /\ actions'[a].basis = actions[a].basis
         \/ /\ a \in DOMAIN tx[c].put.actions /\ Inserts(tx[c], a)
            /\ actions'[a].opp = tx[c].on /\ actions'[a].basis = tx[c].basis
<1>1. Rows
  BY DEF IInv, Typed
<1>2. CASE actions[a] = NoAction
  <2>1. actions'[a] # NoAction
    BY DEF NoAction, ACTIVE_ACTION_STATUSES
  <2> QED
    BY <1>2, <2>1, ActionsStay DEF Inserts
<1>3. CASE actions[a] # NoAction
  <2>1. actions[a].status \in Statuses
    BY <1>1, <1>3, RowsAre DEF ActionRows, Statuses
  <2>2. actions[a].status \notin Terminal
    <3>1. \A s \in Terminal : s \notin ACTIVE_ACTION_STATUSES
      BY DEF Terminal, ACTIVE_ACTION_STATUSES
    <3> QED
      BY <3>1, ActionsStay
  <2> QED
    BY <1>3, <2>1, <2>2, ActionsStay DEF Statuses
<1> QED
  BY <1>2, <1>3

LEMMA OneActiveStays ==
  ASSUME IInv, NEW c \in Clients, Landed(tx[c])
  PROVE  OneActivePerIdentity'
<1> SUFFICES ASSUME NEW o \in Opportunities, NEW a \in ActiveActions(o)', NEW b \in ActiveActions(o)',
                    actions'[a].basis = actions'[b].basis, a # b
             PROVE  FALSE
  BY DEF OneActivePerIdentity
<1> DEFINE q == tx[c]
<1>1. /\ a \in ActionIds /\ actions'[a].opp = o
      /\ actions'[a].status \in ACTIVE_ACTION_STATUSES
      /\ b \in ActionIds /\ actions'[b].opp = o
      /\ actions'[b].status \in ACTIVE_ACTION_STATUSES
  BY DEF ActiveActions
<1>2. ASSUME NEW x \in ActionIds, actions[x].status \in ACTIVE_ACTION_STATUSES,
             actions[x].opp = q.on, actions[x].basis = q.basis,
             NEW y, Inserts(q, y)
      PROVE  FALSE
  <2>1. x \in Same(q)
    BY <1>2 DEF Same
  <2>2. actions[x].status \in Terminal
    BY <1>2, <2>1 DEF Inserts
  <2> QED
    BY <1>2, <2>2 DEF Terminal, ACTIVE_ACTION_STATUSES
<1>3. CASE Inserts(q, a) /\ a \in DOMAIN q.put.actions
           /\ actions'[a].opp = q.on /\ actions'[a].basis = q.basis
  <2>1. CASE Inserts(q, b) /\ b \in DOMAIN q.put.actions
    BY <1>3, <2>1 DEF Inserts
  <2>2. CASE /\ actions[b].status \in ACTIVE_ACTION_STATUSES
             /\ actions'[b].opp = actions[b].opp /\ actions'[b].basis = actions[b].basis
    BY <1>1, <1>2, <1>3, <2>2
  <2> QED
    BY <1>1, <2>1, <2>2, ActiveBefore
<1>4. CASE /\ actions[a].status \in ACTIVE_ACTION_STATUSES
           /\ actions'[a].opp = actions[a].opp /\ actions'[a].basis = actions[a].basis
  <2>1. CASE Inserts(q, b) /\ actions'[b].opp = q.on /\ actions'[b].basis = q.basis
    BY <1>1, <1>2, <1>4, <2>1
  <2>2. CASE /\ actions[b].status \in ACTIVE_ACTION_STATUSES
             /\ actions'[b].opp = actions[b].opp /\ actions'[b].basis = actions[b].basis
    BY <1>1, <1>4, <2>2, ZenonT(40) DEF IInv, Kept, OneActivePerIdentity, ActiveActions
  <2> QED
    BY <1>1, <2>1, <2>2, ActiveBefore
<1> QED
  BY <1>1, <1>3, <1>4, ActiveBefore

\* A commit that executes nothing leaves the links of every action alone.
LEMMA LinksStay ==
  ASSUME IInv, NEW c \in Clients, Landed(tx[c]), ~Executes(tx[c]), NEW a \in ActionIds
  PROVE  LinkedTasks(a)' = LinkedTasks(a) /\ LinkedActivities(a)' = LinkedActivities(a)
<1>1. Writes(tx[c])
  BY DEF IInv, Knows
<1>2. \A u \in TaskIds : tasks'[u].link = tasks[u].link
  BY <1>1 DEF Landed, Writes
<1>3. \A v \in ActivityIds : activities'[v].link = activities[v].link
  <2>1. NoActivity.link = None
    BY DEF NoActivity
  <2> QED
    BY <1>1, <2>1 DEF Landed, Writes
<1> QED
  BY <1>2, <1>3 DEF LinkedTasks, LinkedActivities

\* What the commit of an execution does to the links.
LEMMA LinksExecuted ==
  ASSUME IInv, NEW c \in Clients, Landed(tx[c]), Executes(tx[c]),
         NEW q, q = tx[c], NEW a, a = q.on
  PROVE  /\ a \in ActionIds /\ actions[a].status \in {"APPROVED", "FAILED"}
         /\ actions'[a].status = "EXECUTED" /\ OnRecords(a)
         /\ LinkedTasks(a) = {} /\ LinkedActivities(a) = {}
         /\ LinkedActivities(a)' = {actions'[a].activity} /\ actions'[a].activity \in ActivityIds
         /\ LinkedTasks(a)' = {actions'[a].task} \ {None}
         /\ \A v \in LinkedActivities(a)' : activities[v].link = None
         /\ \A u \in LinkedTasks(a)' : tasks[u].link = None
         /\ \A b \in ActionIds \ {a} : /\ actions'[b] = actions[b]
                                       /\ LinkedTasks(b)' = LinkedTasks(b)
                                       /\ LinkedActivities(b)' = LinkedActivities(b)
<1>0. PICK act : act = q.put.actions[a]
  OBVIOUS
<1>1. Writes(q) /\ q \in Transactions
  BY DEF IInv, Knows, Typed
<1>2. /\ a \in ActionIds /\ a \in DOMAIN q.put.actions /\ act.status = "EXECUTED"
      /\ q.op = "execute"
      /\ DOMAIN q.put.tasks \subseteq TaskIds /\ DOMAIN q.put.activities \subseteq ActivityIds
  BY <1>0, <1>1, PutDomains DEF Executes
<1>3. actions'[a] = act
  BY <1>0, <1>2 DEF Landed, After
<1>4. /\ actions[a].status \in {"APPROVED", "FAILED"} /\ OnRecords(a)
      /\ DOMAIN q.put.activities = {act.activity}
      /\ DOMAIN q.put.tasks = {act.task} \ {None}
      /\ \A u \in DOMAIN q.put.tasks : q.put.tasks[u].link = a /\ tasks[u].link = None
      /\ \A v \in DOMAIN q.put.activities : q.put.activities[v].link = a
  BY <1>0, <1>1 DEF Writes, Effects
<1>5. LinkedTasks(a) = {} /\ LinkedActivities(a) = {}
  BY <1>2, <1>4 DEF IInv, Kept, EffectsIffExecuted
<1>6. \A v \in DOMAIN q.put.activities : activities[v].link = None
  BY <1>1 DEF Writes, NoActivity
<1>7. \A u \in TaskIds : tasks'[u] = IF u \in DOMAIN q.put.tasks THEN q.put.tasks[u] ELSE tasks[u]
  BY DEF Landed
<1>8. \A v \in ActivityIds :
         activities'[v] = IF v \in DOMAIN q.put.activities THEN q.put.activities[v] ELSE activities[v]
  BY DEF Landed
<1>9. None \notin ActionIds
  BY DEF None, ActionIds
<1>10. \A b \in DOMAIN q.put.actions : b = a
  BY <1>1, <1>2 DEF Writes, Replaces, Inserts
<1>11. \A b \in ActionIds \ {a} : actions'[b] = actions[b]
  BY <1>10 DEF Landed, After
<1>12. LinkedActivities(a)' = DOMAIN q.put.activities
  BY <1>2, <1>4, <1>5, <1>8 DEF LinkedActivities
<1>13. LinkedTasks(a)' = DOMAIN q.put.tasks
  BY <1>2, <1>4, <1>5, <1>7 DEF LinkedTasks
<1>14. \A b \in ActionIds \ {a} : /\ LinkedTasks(b)' = LinkedTasks(b)
                                  /\ LinkedActivities(b)' = LinkedActivities(b)
  BY <1>4, <1>6, <1>7, <1>8, <1>9 DEF LinkedTasks, LinkedActivities
<1> QED
  BY <1>2, <1>3, <1>4, <1>5, <1>6, <1>11, <1>12, <1>13, <1>14

LEMMA EffectsStay ==
  ASSUME IInv, NEW c \in Clients, Landed(tx[c])
  PROVE  EffectsIffExecuted'
<1>1. EffectsIffExecuted /\ Writes(tx[c]) /\ Rows
  BY DEF IInv, Kept, Knows, Typed
<1>2. CASE Executes(tx[c])
  <2>1. PICK q, a : q = tx[c] /\ a = q.on
    OBVIOUS
  <2>2. /\ a \in ActionIds /\ actions'[a].status = "EXECUTED"
        /\ LinkedActivities(a)' = {actions'[a].activity}
        /\ LinkedTasks(a)' = {actions'[a].task} \ {None}
        /\ \A b \in ActionIds \ {a} : /\ actions'[b] = actions[b]
                                      /\ LinkedTasks(b)' = LinkedTasks(b)
                                      /\ LinkedActivities(b)' = LinkedActivities(b)
    BY <1>2, <2>1, LinksExecuted
  <2> QED
    BY <1>1, <2>2 DEF EffectsIffExecuted
<1>3. CASE ~Executes(tx[c])
  <2>1. ASSUME NEW a \in ActionIds
        PROVE  /\ LinkedTasks(a)' = LinkedTasks(a) /\ LinkedActivities(a)' = LinkedActivities(a)
    BY <1>3, LinksStay
  <2>2. ASSUME NEW a \in ActionIds
        PROVE  /\ actions'[a].status # "EXECUTING"
               /\ actions'[a].status = "EXECUTED" <=> actions[a].status = "EXECUTED"
               /\ actions'[a].status = "EXECUTED" => actions'[a] = actions[a]
    <3>1. CASE a \notin DOMAIN tx[c].put.actions
      BY <1>1, <3>1 DEF Landed, After, EffectsIffExecuted
    <3>2. CASE a \in DOMAIN tx[c].put.actions /\ Inserts(tx[c], a)
      BY <3>2 DEF Landed, After, Inserts, NoAction
    <3>3. CASE a \in DOMAIN tx[c].put.actions /\ Replaces(tx[c], a)
      <4>1. /\ actions'[a] = tx[c].put.actions[a] /\ actions[a].status # "EXECUTED"
            /\ Lawful(actions[a].status, actions'[a].status)
        BY <3>3 DEF Landed, After, Replaces, Terminal
      <4>2. actions'[a].status # "EXECUTED"
        BY <1>3, <3>3, <4>1 DEF Replaces, Executes
      <4> QED
        BY <4>1, <4>2 DEF Lawful
    <3> QED
      BY <1>1, <3>1, <3>2, <3>3 DEF Writes
  <2> QED
    BY <1>1, <2>1, <2>2 DEF EffectsIffExecuted
<1> QED
  BY <1>2, <1>3

LEMMA KeptStays ==
  ASSUME IInv, NEW c \in Clients, Landed(tx[c])
  PROVE  Kept'
  BY SoundStays, OneActiveStays, EffectsStay DEF Kept

-----------------------------------------------------------------------------
(* Inductive invariant                                                     *)

\* The transaction of client c is over and every other is as it was.
LEMMA Ended ==
  ASSUME IInv, NEW c \in Clients, NEW answer \in Answers, Answered(c, answer)
  PROVE  \E t \in Transactions :
            /\ t.step = "idle" /\ t.answer = answer /\ t.locks = {} /\ t.put = NoPut
            /\ t.op = "none" /\ tx' = [tx EXCEPT ![c] = t]
<1> DEFINE t == [Idle EXCEPT !.answer = answer]
<1>1. /\ t \in Transactions /\ t.step = "idle" /\ t.locks = {} /\ t.put = NoPut
      /\ t.answer = answer /\ t.op = "none"
  BY IdleTyped DEF Idle, Transactions
<1>2. tx' = [tx EXCEPT ![c] = t]
  BY DEF Answered
<1> QED
  BY <1>1, <1>2

LEMMA CommitStep ==
  ASSUME IInv, NEW c \in Clients, tx[c].step = "commit", Install(c), UNCHANGED env,
         NEW answer \in Answers, Answered(c, answer)
  PROVE  IInv'
<1>1. Landed(tx[c]) /\ Rows'
  BY InstallLands
<1>2. PICK t \in Transactions :
            /\ t.step = "idle" /\ t.answer = answer /\ t.locks = {} /\ t.put = NoPut
            /\ t.op = "none" /\ tx' = [tx EXCEPT ![c] = t]
  BY Ended
<1>3. tx \in [Clients -> Transactions]
  BY DEF IInv, Typed
<1>4. /\ tx' \in [Clients -> Transactions] /\ tx'[c] = t
      /\ \A d \in Clients \ {c} : tx'[d] = tx[d]
  BY <1>2, <1>3
<1>5. ASSUME NEW d \in Clients PROVE Knows(tx[d])'
  <2>1. PICK q : q = tx'[d]
    OBVIOUS
  <2>2. CASE d = c
    <3>1. q.step = "idle" /\ q.locks = {} /\ q.put = NoPut /\ q.op = "none"
      BY <1>2, <1>4, <2>1, <2>2
    <3>2. /\ DOMAIN q.put.opps = {} /\ DOMAIN q.put.prospects = {} /\ DOMAIN q.put.actions = {}
          /\ DOMAIN q.put.tasks = {} /\ DOMAIN q.put.activities = {}
      BY <3>1 DEF NoPut, Empty
    <3>3. Writes(q)'
      BY <3>2 DEF Writes, Effects, Executes
    <3>4. Knows(q)'
      BY <3>1, <3>3 DEF Knows, Phase, Guarded, Sighted, Promises, Locked, ActionOps, Transitions
    <3> QED
      BY <2>1, <3>4 DEF Knows, Phase, Guarded, Sighted, Writes, Promises, Same, Locked, Target,
         Effects, Executes, Replaces, Inserts, Owns, After
  <2>3. CASE d # c
    <3>1. q = tx[d]
      BY <1>4, <2>1, <2>3
    <3>2. Knows(q)'
      BY <1>1, <2>3, <3>1, KnowsStays
    <3> QED
      BY <2>1, <3>2 DEF Knows, Phase, Guarded, Sighted, Writes, Promises, Same, Locked, Target,
         Effects, Executes, Replaces, Inserts, Owns, After
  <2> QED
    BY <2>2, <2>3
<1>6. ASSUME NEW d \in Clients, NEW e \in Clients, d # e PROVE Apart(tx[d], tx[e])'
  <2>1. PICK q, r : q = tx'[d] /\ r = tx'[e]
    OBVIOUS
  <2>2. Apart(q, r)
    <3>1. CASE d = c
      BY <1>2, <1>4, <2>1, <3>1, Bare
    <3>2. CASE e = c
      BY <1>2, <1>4, <2>1, <3>2, Bare, ApartSymmetric
    <3>3. CASE d # c /\ e # c
      BY <1>4, <1>6, <2>1, <3>3 DEF IInv
    <3> QED
      BY <3>1, <3>2, <3>3
  <2>3. \A a \in ActionIds : actions'[a] = NoAction => actions[a] = NoAction
    BY <1>1, ActionsStay
  <2>4. DOMAIN q.put.actions \subseteq ActionIds /\ DOMAIN r.put.actions \subseteq ActionIds
    BY <1>4, <2>1, PutDomains
  <2>5. Apart(q, r)'
    BY <2>2, <2>3, <2>4 DEF Apart, Compatible, Disjoint, Twins
  <2> QED
    BY <2>1, <2>5 DEF Apart, Compatible, Disjoint, Twins
<1>7. Kept'
  BY <1>1, KeptStays
<1> QED
  BY <1>1, <1>4, <1>5, <1>6, <1>7 DEF IInv, Typed

\* COMMIT fails and PostgreSQL has not taken it: like a rollback.
LEMMA LostStep ==
  ASSUME IInv, NEW c \in Clients, UNCHANGED db, UNCHANGED env,
         NEW answer \in Answers, Answered(c, answer)
  PROVE  IInv'
<1>1. PICK t \in Transactions :
            /\ t.step = "idle" /\ t.answer = answer /\ t.locks = {} /\ t.put = NoPut
            /\ t.op = "none" /\ tx' = [tx EXCEPT ![c] = t]
  BY Ended
<1>2. Knows(t)
  BY <1>1, NoPutWrites DEF Knows, Phase, Guarded, Sighted, Promises, Locked, ActionOps,
     Transitions
<1>3. \A d \in Clients \ {c} : Apart(t, tx[d])
  BY <1>1, Bare
<1> QED
  BY <1>1, <1>2, <1>3, LocalKeeps DEF Allowed, Local

LEMMA NextDayStep ==
  ASSUME IInv, NextDay
  PROVE  IInv'
<1>1. UNCHANGED db /\ tx' = tx /\ role' = role /\ today' = today + 1 /\ today < LastDay
  BY DEF NextDay
<1>2. today' \in 0 .. LastDay
  BY <1>1, PostgresAssumption DEF IInv, Typed, Rows
<1>3. Typed'
  BY <1>1, <1>2 DEF IInv, Typed, Rows, db
<1>4. Kept'
  BY <1>1, KeptRows DEF IInv
<1>5. \A c \in Clients : Knows(tx[c])'
  BY <1>1, SameTransactions DEF IInv
<1>6. \A c, d \in Clients : c # d => Apart(tx[c], tx[d])'
  BY <1>1, SameTransactions DEF IInv
<1> QED
  BY <1>3, <1>4, <1>5, <1>6 DEF IInv

LEMMA InitKept == Init => IInv
<1> SUFFICES ASSUME Init PROVE IInv
  OBVIOUS
<1>1. /\ actions = [a \in ActionIds |-> NoAction] /\ tasks = [t \in TaskIds |-> NoTask]
      /\ activities = [v \in ActivityIds |-> NoActivity]
      /\ prospects = [o \in Opportunities |-> FALSE] /\ today = 0 /\ role \in Roles
      /\ tx = [c \in Clients |-> Idle]
  BY DEF Init
<1>2. opps \in [Opportunities -> OpportunityRows]
  BY PostgresAssumption DEF Init, OpportunityRows, Titles
<1>3. 0 \in 0 .. LastDay
  BY PostgresAssumption
<1>4. Rows
  BY <1>1, <1>2, <1>3 DEF Rows
<1>5. Typed
  BY <1>1, <1>4, IdleTyped DEF Typed
<1>6. /\ NoAction.status = "ABSENT" /\ NoAction.opp = None
      /\ NoTask.link = None /\ NoActivity.link = None
  BY DEF NoAction, NoTask, NoActivity
<1>7. OneActivePerIdentity
  BY <1>1, <1>6 DEF OneActivePerIdentity, ActiveActions, ACTIVE_ACTION_STATUSES
<1>8. EffectsIffExecuted
  BY <1>1, <1>6 DEF EffectsIffExecuted, LinkedActivities, LinkedTasks, ActionIds, None
<1>9. Kept
  BY <1>1, <1>7, <1>8 DEF Kept
<1>10. /\ Idle.step = "idle" /\ Idle.locks = {} /\ Idle.put = NoPut /\ Idle.op = "none"
  BY DEF Idle
<1>11. PICK t : t = Idle
  OBVIOUS
<1>12. Knows(t)
  BY <1>10, <1>11, NoPutWrites DEF Knows, Phase, Guarded, Sighted, Promises, Locked, ActionOps,
     Transitions
<1>13. Apart(t, t)
  BY <1>10, <1>11, Bare
<1>14. \A c \in Clients : tx[c] = t
  BY <1>1, <1>11
<1> QED
  BY <1>5, <1>9, <1>12, <1>13, <1>14 DEF IInv

\* The invariant is kept by every step.
LEMMA Inductive == IInv /\ [Next]_vars => IInv'
<1> SUFFICES ASSUME IInv, [Next]_vars PROVE IInv'
  OBVIOUS
<1>1. CASE UNCHANGED vars
  <2>1. UNCHANGED db /\ UNCHANGED env /\ tx' = tx
    BY <1>1 DEF vars, db, env
  <2>2. Typed'
    BY <2>1 DEF IInv, Typed, Rows, db, env
  <2>3. Kept'
    BY <2>1, KeptRows DEF IInv
  <2> QED
    BY <2>1, <2>2, <2>3, SameTransactions DEF IInv
<1>2. ASSUME NEW c \in Clients, LocalMove(c) PROVE IInv'
  BY <1>2, LocalStep
<1>3. ASSUME NEW c \in Clients, Commit(c) PROVE IInv'
  <2>1. tx[c].step = "commit" /\ tx[c].answer \in Answers
    BY <1>3 DEF Commit, IInv, Typed, Transactions
  <2> QED
    BY <1>3, <2>1, CommitStep DEF Commit
<1>4. ASSUME NEW c \in Clients, CommitLost(c) PROVE IInv'
  <2>1. "unknown" \in Answers
    BY DEF Answers
  <2> QED
    BY <1>4, <2>1, CommitStep, LostStep DEF CommitLost
<1>5. CASE NextDay
  BY <1>5, NextDayStep
<1> QED
  BY <1>1, <1>2, <1>3, <1>4, <1>5, Cases

-----------------------------------------------------------------------------
(* The theorems                                                            *)

\* Between any two statements, what every open transaction knows of the rows under
\* its locks is true, and no two of them write the same row.
THEOREM Invariance == Spec => []IInv
<1>1. Init => IInv
  BY InitKept
<1>2. IInv /\ [Next]_vars => IInv'
  BY Inductive
<1> QED
  BY <1>1, <1>2, PTL DEF Spec

\* Committed and uncommitted rows keep their shape.
THEOREM TypeCorrect == Spec => []TypeOK
<1>1. IInv => TypeOK
  BY TypedTypes DEF IInv
<1> QED
  BY <1>1, Invariance, PTL

\* Materializations of one recommendation that run at once, sharing the opportunity,
\* leave one active action between them: INSERT ... ON CONFLICT waits for whoever may
\* have inserted it.
THEOREM OneActive == Spec => []OneActivePerIdentity
<1>1. IInv => OneActivePerIdentity
  BY DEF IInv, Kept
<1> QED
  BY <1>1, Invariance, PTL

\* The committed task and activity of an action are there exactly when it is executed.
THEOREM WholeEffects == Spec => []EffectsIffExecuted
<1>1. IInv => EffectsIffExecuted
  BY DEF IInv, Kept
<1> QED
  BY <1>1, Invariance, PTL

-----------------------------------------------------------------------------
(* What a step may never do                                                *)

\* Committed rows change in a commit alone.
LEMMA RowSteps ==
  ASSUME IInv, [Next]_vars
  PROVE  \/ UNCHANGED db
         \/ \E c \in Clients : tx[c].step = "commit" /\ Landed(tx[c])
<1>1. ASSUME NEW c \in Clients, Commit(c) \/ CommitLost(c)
      PROVE  UNCHANGED db \/ (tx[c].step = "commit" /\ Landed(tx[c]))
  BY <1>1, InstallLands DEF Commit, CommitLost
<1>2. UNCHANGED vars => UNCHANGED db
  BY DEF vars, db
<1>3. NextDay => UNCHANGED db
  BY DEF NextDay
<1>4. \A c \in Clients : LocalMove(c) => UNCHANGED db
  BY DEF LocalMove, Local
<1> QED
  BY <1>1, <1>2, <1>3, <1>4, Cases

LEMMA ExecutedOnRecords ==
  ASSUME IInv, NEW c \in Clients, Landed(tx[c]), NEW a \in ActionIds,
         actions[a].status # "EXECUTED", actions'[a].status = "EXECUTED"
  PROVE  OnRecords(a)
<1>1. a \in DOMAIN tx[c].put.actions /\ actions'[a] = tx[c].put.actions[a]
  BY DEF Landed, After
<1>2. Writes(tx[c])
  BY DEF IInv, Knows
<1>3. Replaces(tx[c], a)
  BY <1>1, <1>2 DEF Writes, Inserts
<1>4. tx[c].op = "execute" /\ a = tx[c].on
  BY <1>1, <1>3 DEF Replaces
<1>5. Executes(tx[c])
  BY <1>1, <1>4 DEF Executes
<1> QED
  BY <1>2, <1>4, <1>5 DEF Writes, Effects

\* An execution commits while the opportunity, its prospect, its tasks and its latest
\* activity are still as the recommendation had them: the transaction has held the
\* opportunity and the prospect since it compared them.
THEOREM CurrentRecords == Spec => EffectsOnCurrentRecords
<1>1. ASSUME IInv, [Next]_vars, NEW a \in ActionIds,
             actions[a].status # "EXECUTED", actions'[a].status = "EXECUTED"
      PROVE  SameRecords(a)
  <2>1. PICK c \in Clients : tx[c].step = "commit" /\ Landed(tx[c])
    BY <1>1, RowSteps DEF db
  <2>2. OnRecords(a)
    BY <1>1, <2>1, ExecutedOnRecords
  <2> QED
    BY <2>2 DEF OnRecords, SameRecords, Basis
<1>2. IInv /\ [Next]_vars =>
        [\A a \in ActionIds :
           actions[a].status # "EXECUTED" /\ actions'[a].status = "EXECUTED"
              => SameRecords(a)]_vars
  BY <1>1
<1> QED
  BY <1>2, Invariance, PTL DEF Spec, EffectsOnCurrentRecords

\* A row once executed, rejected or cancelled never changes again, although a request
\* that waited for its lock decided to change it before.
THEOREM TerminalIsFinal == Spec => TerminalRowsAreFinal
<1>1. ASSUME IInv, [Next]_vars, NEW a \in ActionIds, actions[a].status \in Terminal
      PROVE  actions'[a] = actions[a]
  BY <1>1, RowSteps, ActionsStay DEF db
<1>2. IInv /\ [Next]_vars =>
        [\A a \in ActionIds : actions[a].status \in Terminal => actions'[a] = actions[a]]_vars
  BY <1>1
<1> QED
  BY <1>2, Invariance, PTL DEF Spec, TerminalRowsAreFinal

\* The answer given with a confirmed commit is true of the rows it leaves.
LEMMA ToldOnCommit ==
  ASSUME IInv, IInv', NEW c \in Clients, tx[c].step = "commit", Landed(tx[c]),
         NEW answer, answer = tx[c].answer
  PROVE  Told(c, answer)
<1> DEFINE q == tx[c]
<1>1. Promises(q) /\ Phase(q) /\ q.op \in AllOps
  BY Doing DEF IInv, Knows
<1>2. answer \in {"done", "duplicate", "failed", "superseded"}
  BY <1>1 DEF Promises
<1>3. q.op \in ActionOps => q.on \in ActionIds /\ actions'[q.on] = After(q, q.on)
  BY <1>1 DEF Phase, Landed
<1>4. Transitions \subseteq ActionOps /\ "execute" \in ActionOps
  BY DEF ActionOps
<1>5. \A a \in ActionIds : actions'[a].status = "EXECUTED"
         => \E v \in ActivityIds : activities'[v].link = a
  <2>1. \A a \in ActionIds : actions'[a].status = "EXECUTED"
           => LinkedActivities(a)' = {actions'[a].activity}
    BY DEF IInv, Kept, EffectsIffExecuted
  <2> QED
    BY <2>1 DEF LinkedActivities
<1>6. q.op = "materialize" /\ answer \in {"done", "duplicate"} =>
        \E b \in ActionIds : /\ actions'[b].opp = q.on /\ actions'[b].basis = q.basis
                             /\ actions'[b].status \in ACTIVE_ACTION_STATUSES
  BY <1>1 DEF Promises, Landed
<1>7. q.put = NoPut => db' = db
  <2> SUFFICES ASSUME q.put = NoPut PROVE db' = db
    OBVIOUS
  <2>1. /\ DOMAIN q.put.opps = {} /\ DOMAIN q.put.prospects = {} /\ DOMAIN q.put.actions = {}
        /\ DOMAIN q.put.tasks = {} /\ DOMAIN q.put.activities = {}
    BY DEF NoPut, Empty
  <2>2. Rows /\ Rows'
    BY DEF IInv, Typed
  <2>3. opps' = opps /\ prospects' = prospects
    BY <2>1, <2>2 DEF Landed, Rows
  <2>4. actions' = actions
    BY <2>1, <2>2 DEF Landed, Rows, After
  <2>5. tasks' = tasks /\ activities' = activities
    BY <2>1, <2>2 DEF Landed, Rows
  <2> QED
    BY <2>3, <2>4, <2>5 DEF db
<1> QED
  BY <1>1, <1>2, <1>3, <1>4, <1>5, <1>6, <1>7 DEF Told, Promises

\* The answer of a request is true of the committed rows at the moment it is given.
THEOREM TrueAnswers == Spec => AnswersAreTrue
<1>1. ASSUME IInv, IInv', [Next]_vars, NEW c \in Clients,
             tx[c].step # "idle", tx'[c].step = "idle"
      PROVE  Told(c, tx'[c].answer)
  <2>0. tx \in [Clients -> Transactions]
    BY <1>1 DEF IInv, Typed
  <2>1. ASSUME NEW d \in Clients, NEW t, tx' = [tx EXCEPT ![d] = t] PROVE d = c /\ tx'[c] = t
    BY <1>1, <2>0, <2>1
  <2>2. CASE \E d \in Clients : LocalMove(d)
    <3>1. PICK d \in Clients, t \in Transactions :
             /\ Local(d, t) /\ (t.step = "idle" => t.answer \in {"refused", "error"})
      BY <2>2 DEF LocalMove
    <3>2. d = c /\ tx'[c] = t /\ db' = db
      BY <2>1, <3>1 DEF Local
    <3>3. tx'[c].answer \in {"refused", "error"}
      BY <1>1, <3>1, <3>2
    <3> QED
      BY <3>2, <3>3 DEF Told
  <2>3. ASSUME NEW d \in Clients, Commit(d) PROVE Told(c, tx'[c].answer)
    <3>1. PICK t : t = [Idle EXCEPT !.answer = tx[d].answer]
      OBVIOUS
    <3>2. d = c /\ tx'[c] = t /\ t.answer = tx[d].answer
      BY <2>1, <2>3, <3>1 DEF Commit, Answered, Idle
    <3>3. tx[c].step = "commit" /\ Landed(tx[c])
      BY <1>1, <2>3, <3>2, InstallLands DEF Commit
    <3> QED
      BY <1>1, <3>2, <3>3, ToldOnCommit
  <2>4. ASSUME NEW d \in Clients, CommitLost(d) PROVE Told(c, tx'[c].answer)
    <3>1. PICK t : t = [Idle EXCEPT !.answer = "unknown"]
      OBVIOUS
    <3>2. tx'[c] = t /\ t.answer = "unknown"
      BY <2>1, <2>4, <3>1 DEF CommitLost, Answered, Idle
    <3> QED
      BY <3>2 DEF Told
  <2>5. ~NextDay /\ ~UNCHANGED vars
    BY <1>1 DEF NextDay, vars
  <2> QED
    BY <1>1, <2>2, <2>3, <2>4, <2>5, Cases
<1>2. IInv /\ IInv' /\ [Next]_vars =>
        [\A c \in Clients :
           tx[c].step # "idle" /\ tx'[c].step = "idle" => Told(c, tx'[c].answer)]_vars
  BY <1>1
<1> QED
  BY <1>2, Invariance, PTL DEF Spec, AnswersAreTrue

-----------------------------------------------------------------------------
(* Requests act as if each happened at one moment                          *)

LEMMA AtomicInit == Init => Atomic!Init
<1> SUFFICES ASSUME Init PROVE Atomic!Init
  OBVIOUS
<1>1. /\ \A a \in ActionIds : actions[a].status = "ABSENT" /\ actions[a].opp = None
      /\ \A u \in TaskIds : tasks[u].link = None
      /\ \A v \in ActivityIds : activities[v].link = None
  BY DEF Init, NoAction, NoTask, NoActivity
<1>2. \A a \in ActionIds : LinkedTasks(a) = {} /\ LinkedActivities(a) = {}
  BY <1>1 DEF LinkedTasks, LinkedActivities, ActionIds, None
<1> QED
  BY <1>1, <1>2 DEF Atomic!Init, Atomic!NoEffects

\* Steps of the atomic lifecycle, from what a commit does to the rows.
OwnersStay == \A a \in ActionIds : actions'[a].opp = actions[a].opp

AllLinksStay == \A a \in ActionIds : /\ LinkedTasks(a)' = LinkedTasks(a)
                                     /\ LinkedActivities(a)' = LinkedActivities(a)

LEMMA AtomicStutter ==
  ASSUME UNCHANGED db
  PROVE  UNCHANGED Atomic!vars
<1>1. actions' = actions /\ AllLinksStay
  BY DEF db, AllLinksStay, LinkedTasks, LinkedActivities
<1> QED
  BY <1>1 DEF AllLinksStay, Atomic!vars

LEMMA AtomicMove ==
  ASSUME OwnersStay, AllLinksStay, NEW a \in ActionIds, NEW from, NEW to,
         actions[a].status \in from, actions'[a].status = to,
         \A b \in ActionIds \ {a} : actions'[b].status = actions[b].status
  PROVE  Atomic!Move(a, from, to)
  BY DEF OwnersStay, AllLinksStay, Atomic!Move

LEMMA AtomicSupersede ==
  ASSUME OwnersStay, AllLinksStay, NEW o \in Opportunities, NEW S \in SUBSET ActionIds,
         \A a \in S : /\ actions[a].opp = o /\ actions[a].status \in Atomic!Active
                      /\ actions'[a].status = "CANCELLED",
         \A a \in ActionIds \ S : actions'[a].status = actions[a].status
  PROVE  Atomic!Supersede(o, S)
  BY DEF OwnersStay, AllLinksStay, Atomic!Supersede, Atomic!ActiveOf

LEMMA AtomicRecommend ==
  ASSUME AllLinksStay, NEW o \in Opportunities, NEW S \in SUBSET ActionIds, NEW a \in ActionIds,
         actions[a].status = "ABSENT", actions'[a].status = "RECOMMENDED", actions'[a].opp = o,
         \A b \in S : /\ actions[b].opp = o /\ actions[b].status \in Atomic!Active
                      /\ actions'[b].status = "CANCELLED",
         \A b \in ActionIds \ {a} : actions'[b].opp = actions[b].opp,
         \A b \in ActionIds \ (S \cup {a}) : actions'[b].status = actions[b].status
  PROVE  Atomic!Recommend(o, S, a)
<1>1. S \subseteq Atomic!ActiveOf(o) /\ a \notin S
  BY DEF Atomic!ActiveOf, Atomic!Active
<1> QED
  BY <1>1 DEF AllLinksStay, Atomic!Recommend

LEMMA AtomicExecute ==
  ASSUME OwnersStay, NEW a \in ActionIds, NEW u, NEW v \in ActivityIds,
         {u} \ {None} \subseteq TaskIds,
         actions[a].status \in {"APPROVED", "FAILED"}, actions'[a].status = "EXECUTED",
         \A b \in ActionIds \ {a} : /\ actions'[b].status = actions[b].status
                                    /\ LinkedTasks(b)' = LinkedTasks(b)
                                    /\ LinkedActivities(b)' = LinkedActivities(b),
         LinkedTasks(a) = {} /\ LinkedActivities(a) = {},
         LinkedTasks(a)' = {u} \ {None} /\ LinkedActivities(a)' = {v},
         activities[v].link = None, \A x \in {u} \ {None} : tasks[x].link = None
  PROVE  \E T \in SUBSET TaskIds : Atomic!Execute(a, T, v)
<1>0. PICK T : T = {u} \ {None}
  OBVIOUS
<1>1. \A x, y \in T : x = y
  BY <1>0
<1>2. \A b \in ActionIds : b # None
  BY DEF ActionIds, None
<1>3. \A b \in ActionIds : v \notin LinkedActivities(b) /\ T \cap LinkedTasks(b) = {}
  BY <1>0, <1>2 DEF LinkedActivities, LinkedTasks
<1>4. LinkedTasks(a)' = T /\ T \in SUBSET TaskIds
  BY <1>0
<1>5. [b \in ActionIds |-> actions'[b].status]
        = [[b \in ActionIds |-> actions[b].status] EXCEPT ![a] = "EXECUTED"]
  OBVIOUS
<1>6. [b \in ActionIds |-> [tasks |-> LinkedTasks(b)', activities |-> LinkedActivities(b)']]
        = [[b \in ActionIds |-> [tasks |-> LinkedTasks(b), activities |-> LinkedActivities(b)]]
             EXCEPT ![a] = [tasks |-> T, activities |-> {v}]]
  BY <1>4
<1>7. [b \in ActionIds |-> actions'[b].opp] = [b \in ActionIds |-> actions[b].opp]
  BY DEF OwnersStay
<1>8. /\ [b \in ActionIds |-> actions[b].status][a] \in {"APPROVED", "FAILED"}
      /\ [b \in ActionIds |-> [tasks |-> LinkedTasks(b), activities |-> LinkedActivities(b)]][a]
           = Atomic!NoEffects
      /\ \A b \in ActionIds :
            LET e == [x \in ActionIds |-> [tasks |-> LinkedTasks(x),
                                          activities |-> LinkedActivities(x)]][b]
            IN  v \notin e.activities /\ T \cap e.tasks = {}
  BY <1>3 DEF Atomic!NoEffects
<1>9. Atomic!Execute(a, T, v)
  BY <1>1, <1>5, <1>6, <1>7, <1>8 DEF Atomic!Execute
<1> QED
  BY <1>4, <1>9

\* A commit of a materialization: at most one row is new, the rest is cancelled.
LEMMA AtomicMaterialize ==
  ASSUME IInv, NEW c \in Clients, tx[c].step = "commit", tx[c].op = "materialize", Landed(tx[c])
  PROVE  Atomic!Next
<1>0. PICK q : q = tx[c]
  OBVIOUS
<1>1. /\ Writes(q) /\ Phase(q) /\ q \in Transactions /\ Landed(q)
  BY <1>0 DEF IInv, Knows, Typed
<1>2. /\ q.on \in Opportunities /\ DOMAIN q.put.actions \subseteq ActionIds
      /\ ~Executes(q)
  BY <1>0, <1>1, PutDomains DEF Phase, OpportunityOps, Executes
<1>3. AllLinksStay
  BY <1>0, <1>2, LinksStay DEF AllLinksStay
<1>4. PICK S : S = {a \in DOMAIN q.put.actions : Replaces(q, a)}
  OBVIOUS
<1>5. S \in SUBSET ActionIds
  BY <1>2, <1>4
<1>6. ASSUME NEW a \in S
      PROVE  /\ actions[a].opp = q.on /\ actions[a].status \in Atomic!Active
             /\ actions'[a].status = "CANCELLED" /\ actions'[a].opp = actions[a].opp
  <2>1. Replaces(q, a) /\ a \in DOMAIN q.put.actions /\ a \in ActionIds
    BY <1>4, <1>5
  <2>2. actions'[a] = q.put.actions[a]
    BY <1>1, <2>1 DEF Landed, After
  <2>3. /\ actions[a].opp = q.on /\ actions'[a].status = "CANCELLED"
        /\ actions'[a].opp = actions[a].opp
        /\ actions[a] # NoAction /\ actions[a].status \notin Terminal
    BY <1>0, <2>1, <2>2 DEF Replaces
  <2>4. actions[a] \in ActionRows /\ actions[a].status # "EXECUTING"
    BY <2>1, <2>3, RowsAre DEF IInv, Typed, Kept, EffectsIffExecuted
  <2> QED
    BY <2>3, <2>4 DEF ActionRows, ACTIVE_ACTION_STATUSES, Atomic!Active, Terminal
<1>7. \A a \in ActionIds \ DOMAIN q.put.actions : actions'[a] = actions[a]
  BY <1>1 DEF Landed, After
<1>8. CASE DOMAIN q.put.actions \subseteq S
  <2>1. OwnersStay /\ \A a \in ActionIds \ S : actions'[a].status = actions[a].status
    BY <1>6, <1>7, <1>8 DEF OwnersStay
  <2>2. Atomic!Supersede(q.on, S)
    BY <1>2, <1>3, <1>5, <1>6, <2>1, AtomicSupersede
  <2> QED
    BY <1>2, <1>5, <2>2 DEF Atomic!Next
<1>9. ASSUME NEW a \in DOMAIN q.put.actions, a \notin S PROVE Atomic!Next
  <2>1. Inserts(q, a) /\ a \in ActionIds
    BY <1>1, <1>2, <1>4, <1>9 DEF Writes
  <2>2. actions'[a] = q.put.actions[a]
    BY <1>1, <2>1 DEF Landed, After
  <2>3. /\ actions[a].status = "ABSENT" /\ actions'[a].status = "RECOMMENDED"
        /\ actions'[a].opp = q.on
    BY <2>1, <2>2 DEF Inserts, NoAction
  <2>4. \A b \in DOMAIN q.put.actions : b \in S \/ b = a
    BY <1>1, <1>4, <2>1 DEF Writes, Inserts
  <2>5. /\ \A b \in ActionIds \ {a} : actions'[b].opp = actions[b].opp
        /\ \A b \in ActionIds \ (S \cup {a}) : actions'[b].status = actions[b].status
    BY <1>6, <1>7, <2>4
  <2>6. Atomic!Recommend(q.on, S, a)
    BY <1>2, <1>3, <1>5, <1>6, <2>1, <2>3, <2>5, AtomicRecommend
  <2> QED
    BY <1>2, <1>5, <2>1, <2>6 DEF Atomic!Next
<1> QED
  BY <1>8, <1>9

\* A commit that changes the status of the action its request is about.
LEMMA AtomicTransition ==
  ASSUME IInv, NEW c \in Clients, tx[c].step = "commit", Landed(tx[c]),
         tx[c].op \in ActionOps, ~Executes(tx[c]), DOMAIN tx[c].put.actions # {}
  PROVE  Atomic!Next
<1>0. PICK q, a : q = tx[c] /\ a = q.on
  OBVIOUS
<1>1. Writes(q) /\ Phase(q) /\ q \in Transactions /\ q.op # "materialize" /\ Landed(q)
  BY <1>0 DEF IInv, Knows, Typed, ActionOps, Transitions
<1>2. /\ \A b \in DOMAIN q.put.actions : b = a /\ Replaces(q, b)
      /\ a \in DOMAIN q.put.actions
  BY <1>0, <1>1 DEF Writes, Replaces, Inserts
<1>3. a \in ActionIds
  BY <1>0, <1>1 DEF Phase
<1>4. actions'[a] = q.put.actions[a] /\ \A b \in ActionIds \ {a} : actions'[b] = actions[b]
  BY <1>1, <1>2, <1>3 DEF Landed, After
<1>5. /\ actions'[a].opp = actions[a].opp /\ actions[a] # NoAction
      /\ actions[a].status \notin Terminal
      /\ Lawful(actions[a].status, actions'[a].status) /\ actions'[a].status # "EXECUTED"
  BY <1>0, <1>2, <1>4 DEF Replaces, Executes
<1>6. OwnersStay /\ AllLinksStay
  BY <1>4, <1>5, LinksStay DEF OwnersStay, AllLinksStay
<1>7. \A b \in ActionIds \ {a} : actions'[b].status = actions[b].status
  BY <1>4
<1>8. CASE actions'[a].status = "CANCELLED"
  <2>1. actions[a] \in ActionRows /\ actions[a].status # "EXECUTING"
    BY <1>3, <1>5, RowsAre DEF IInv, Typed, Kept, EffectsIffExecuted
  <2>2. actions[a].status \in Atomic!Active /\ actions[a].opp \in Opportunities
    BY <1>5, <2>1 DEF ActionRows, ACTIVE_ACTION_STATUSES, Atomic!Active, Terminal
  <2>3. PICK S, o : S = {a} /\ o = actions[a].opp
    OBVIOUS
  <2>4. Atomic!Supersede(o, S)
    BY <1>3, <1>6, <1>7, <1>8, <2>2, <2>3, AtomicSupersede
  <2> QED
    BY <1>3, <2>2, <2>3, <2>4 DEF Atomic!Next
<1>9. CASE actions[a].status = "RECOMMENDED" /\ actions'[a].status = "PREPARED"
  <2>1. Atomic!Move(a, {"RECOMMENDED"}, "PREPARED")
    BY <1>3, <1>6, <1>7, <1>9, AtomicMove
  <2> QED
    BY <1>3, <2>1 DEF Atomic!Next, Atomic!Prepare
<1>10. CASE actions[a].status = "PREPARED" /\ actions'[a].status = "APPROVED"
  <2>1. Atomic!Move(a, {"PREPARED"}, "APPROVED")
    BY <1>3, <1>6, <1>7, <1>10, AtomicMove
  <2> QED
    BY <1>3, <2>1 DEF Atomic!Next, Atomic!Approve
<1>11. CASE actions[a].status = "PREPARED" /\ actions'[a].status = "REJECTED"
  <2>1. Atomic!Move(a, {"PREPARED"}, "REJECTED")
    BY <1>3, <1>6, <1>7, <1>11, AtomicMove
  <2> QED
    BY <1>3, <2>1 DEF Atomic!Next, Atomic!Reject
<1>12. CASE actions[a].status \in {"APPROVED", "FAILED"} /\ actions'[a].status = "FAILED"
  <2>1. Atomic!Move(a, {"APPROVED", "FAILED"}, "FAILED")
    BY <1>3, <1>6, <1>7, <1>12, AtomicMove
  <2> QED
    BY <1>3, <2>1 DEF Atomic!Next, Atomic!FailExecution
<1> QED
  BY <1>5, <1>8, <1>9, <1>10, <1>11, <1>12 DEF Lawful

LEMMA AtomicExecution ==
  ASSUME IInv, NEW c \in Clients, Landed(tx[c]), Executes(tx[c])
  PROVE  Atomic!Next
<1>1. PICK q, a : q = tx[c] /\ a = q.on
  OBVIOUS
<1>2. PICK u, v : u = actions'[a].task /\ v = actions'[a].activity
  OBVIOUS
<1>3. /\ a \in ActionIds /\ actions[a].status \in {"APPROVED", "FAILED"}
      /\ actions'[a].status = "EXECUTED"
      /\ LinkedTasks(a) = {} /\ LinkedActivities(a) = {}
      /\ LinkedActivities(a)' = {v} /\ v \in ActivityIds
      /\ LinkedTasks(a)' = {u} \ {None}
      /\ \A w \in LinkedActivities(a)' : activities[w].link = None
      /\ \A w \in LinkedTasks(a)' : tasks[w].link = None
      /\ \A b \in ActionIds \ {a} : /\ actions'[b] = actions[b]
                                    /\ LinkedTasks(b)' = LinkedTasks(b)
                                    /\ LinkedActivities(b)' = LinkedActivities(b)
  BY <1>1, <1>2, LinksExecuted
<1>4. OwnersStay
  BY <1>3, ActionsStay DEF OwnersStay, NoAction
<1>5. {u} \ {None} \subseteq TaskIds
  BY <1>3 DEF LinkedTasks
<1>6. PICK T \in SUBSET TaskIds : Atomic!Execute(a, T, v)
  BY <1>3, <1>4, <1>5, AtomicExecute
<1> QED
  BY <1>3, <1>6 DEF Atomic!Next

LEMMA AtomicStep ==
  ASSUME IInv, [Next]_vars
  PROVE  [Atomic!Next]_(Atomic!vars)
<1>1. CASE UNCHANGED db
  BY <1>1, AtomicStutter
<1>2. ASSUME NEW c \in Clients, tx[c].step = "commit", Landed(tx[c])
      PROVE  [Atomic!Next]_(Atomic!vars)
  <2>1. CASE Executes(tx[c])
    BY <1>2, <2>1, AtomicExecution
  <2>2. CASE tx[c].op = "materialize"
    BY <1>2, <2>2, AtomicMaterialize
  <2>3. CASE tx[c].op \in ActionOps /\ ~Executes(tx[c]) /\ DOMAIN tx[c].put.actions # {}
    BY <1>2, <2>3, AtomicTransition
  <2>4. CASE ~Executes(tx[c]) /\ DOMAIN tx[c].put.actions = {}
    <3>1. \A a \in ActionIds : actions'[a] = actions[a]
      BY <1>2, <2>4 DEF Landed, After
    <3>2. AllLinksStay
      BY <1>2, <2>4, LinksStay DEF AllLinksStay
    <3> QED
      BY <3>1, <3>2 DEF AllLinksStay, Atomic!vars
  <2>5. tx[c].op \in ActionOps \/ tx[c].op = "materialize" \/ DOMAIN tx[c].put.actions = {}
    BY DEF IInv, Knows, Writes, Replaces, Inserts
  <2> QED
    BY <2>1, <2>2, <2>3, <2>4, <2>5
<1> QED
  BY <1>1, <1>2, RowSteps

\* Whatever the interleaving, committed rows change as if every request happened at
\* one moment, and the effects of an execution appear with its status.
THEOREM Refinement == Spec => ImplementsAtomic
<1>1. IInv /\ [Next]_vars => [Atomic!Next]_(Atomic!vars)
  BY AtomicStep
<1> QED
  BY <1>1, AtomicInit, Invariance, PTL DEF Spec, ImplementsAtomic, Atomic!Spec

=============================================================================
