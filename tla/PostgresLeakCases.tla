------------------------- MODULE PostgresLeakCases -------------------------
(***************************************************************************)
(* Revenue leak cases over PostgreSQL: concurrent detections, scans,       *)
(* handoffs, human transitions and reads of several server processes,      *)
(* while the CRM changes the evidence under them and time passes.          *)
(*                                                                         *)
(* A request reads its clock when it arrives (Begin) and does its work in  *)
(* one transaction later.  A transaction takes its row locks in one order, *)
(* opportunities, cases, actions, and every writer of the evidence of an   *)
(* opportunity locks its row: from its first lock on a transaction reads   *)
(* and writes only what no other can change, so it is one action.  What a  *)
(* statement reads before that is a step of its own: the enumeration of a  *)
(* scan and every statement of the eligibility report, which locks         *)
(* nothing.                                                                *)
(*                                                                         *)
(* A COMMIT whose answer is lost differs from Detect, Scan, ... only in    *)
(* what the client hears; a retry is one more request.                     *)
(*                                                                         *)
(* Abstractions.  The text, subjects and fingerprints of records; actions  *)
(* are OPEN or DONE; a recommendation is CREATE_TASK exactly if no next    *)
(* action at all is recorded, and its basis is the evidence it shows.      *)
(***************************************************************************)
EXTENDS LeakCaseContracts, Functions, TLC

CONSTANTS
    Clients,
    Imported,        \* opportunities a customer import created
    Settings,        \* bound: what happens together, see Init
    Amounts,         \* bound: the values CRM users set
    MaxNow, MaxCases, MaxAudit, MaxActions   \* bounds

ASSUME BoundAssumption ==
    MaxNow \in Nat /\ MaxCases \in Nat /\ MaxAudit \in Nat /\ MaxActions \in Nat

\* Settings start from finitely many opportunities of the right shape and stop
\* at a last tick.
ASSUME SettingAssumption ==
    /\ Amounts \subseteq Nat
    /\ \A s \in Settings :
         /\ s.until \in 0 .. MaxNow
         /\ IsFiniteSet(DOMAIN s.evidence)
         /\ s.evidence \in [DOMAIN s.evidence -> Evidence(0 .. MaxNow)]
         /\ s.new \in [DOMAIN s.new -> Evidence(0 .. MaxNow)]

VARIABLES
    now,         \* the clock
    evidence,    \* opportunities with their activities and tasks
    cases,       \* tge.revenue_leak_cases
    actions,     \* tge.revenue_actions
    milestones,  \* tge.pilot_evidence_events: linked cases, and ScanCompleted
    setting,     \* bound: who does what, never changed
    tx,          \* the request of a client
    reply        \* the answer this step gave, if any

vars == <<now, evidence, cases, actions, milestones, setting, tx, reply>>

\* The milestone of the first scan; the others are named by their case.
ScanCompleted == 0

Idle == [op |-> "none"]

NoReply == [op |-> "none"]

\* A request: its operation, its target, and the clock when it arrived.
Request(op, o, id, more) ==
    [op |-> op, opp |-> o, case |-> id, more |-> more, at |-> now,
     step |-> "begun", seen |-> <<>>, todo |-> {}]

\* A setting has the evidence the store holds at first, the requests each
\* client makes, what else may happen, what an import may add, and its last tick.
Init ==
    /\ now = 0
    /\ cases = <<>> /\ actions = <<>> /\ milestones = {}
    /\ setting \in Settings /\ evidence = setting.evidence
    /\ tx = [c \in Clients |-> Idle] /\ reply = NoReply

-----------------------------------------------------------------------------
(* Answers                                                                 *)

Answer(c, answer) ==
    /\ tx' = [tx EXCEPT ![c] = Idle]
    /\ reply' = answer

Refuse(c, code) ==
    /\ Answer(c, [op |-> "refused", of |-> tx[c].op, code |-> code, at |-> tx[c].at])
    /\ UNCHANGED <<now, evidence, cases, actions, milestones, setting>>

Store == <<now, evidence, cases, actions, milestones, setting>>

-----------------------------------------------------------------------------
(* Reconciliation                                                          *)

Series(o) == {id \in DOMAIN cases : cases[id].opp = o}

\* Mutant: a snoozed case is not active.
ActiveOpenOnly(o) == {id \in Series(o) : cases[id].state = "OPEN"}

Active(o) == {id \in Series(o) : cases[id].state \in ActiveCases}

\* The first case of a series, by detection time descending and id.
Newest(o) ==
    {id \in Series(o) : \A other \in Series(o) \ {id} :
        \/ cases[id].detected > cases[other].detected
        \/ cases[id].detected = cases[other].detected /\ id < other}

\* The case a detection follows: the active one, else the newest one.
Predecessor(o) == IF Active(o) # {} THEN Active(o) ELSE Newest(o)

\* Mutant: only an active case can be the same detection.
ReplayedActive(o, facts) == {id \in Active(o) : cases[id].facts = facts}

\* The case that a detection with these facts only repeats.
ReplayedCase(o, facts) == {id \in Predecessor(o) : cases[id].facts = facts}

The(S) == IF S = {} THEN 0 ELSE CHOOSE x \in S : TRUE

Audited(r, to, at) ==
    [r EXCEPT !.updated = at, !.audit = Append(@, [to |-> to, at |-> at])]

\* insertDetection
NewCase(o, facts, at) ==
    [opp |-> o, facts |-> facts, detected |-> at, state |-> "OPEN",
     updated |-> at, wake |-> NoTime, pred |-> The(Predecessor(o)), succ |-> 0,
     action |-> 0, audit |-> <<[to |-> "OPEN", at |-> at]>>]

\* reconcileBatch: found are the facts of the leaks, fresh the ids of those
\* among them that no case has yet.
Reconciled(found, fresh, at) ==
    [id \in DOMAIN cases \cup Range(fresh) |->
        IF id \notin DOMAIN cases
        THEN LET o == CHOOSE o \in DOMAIN fresh : fresh[o] = id
             IN  NewCase(o, found[o], at)
        ELSE IF cases[id].opp \in DOMAIN fresh /\ id \in Active(cases[id].opp)
        THEN [Audited(cases[id], "SUPERSEDED", at)
                EXCEPT !.state = "SUPERSEDED", !.succ = fresh[cases[id].opp]]
        ELSE cases[id]]

\* The checks of the table: its unique index and the order of its times.
Admissible(cs) ==
    /\ \A i, j \in DOMAIN cs : /\ cs[i].opp = cs[j].opp /\ i # j
                               /\ cs[i].state \in ActiveCases
                               => cs[j].state \notin ActiveCases
    /\ \A i \in DOMAIN cs : cs[i].updated >= cs[i].detected

FreshIds == (1 .. MaxCases) \ DOMAIN cases

\* The ways to give ids to new cases.
Numberings(found) ==
    LET new == {o \in DOMAIN found : ReplayedCase(o, found[o]) = {}}
    IN  {fresh \in [new -> FreshIds] :
            \A o, p \in new : o # p => fresh[o] # fresh[p]}

-----------------------------------------------------------------------------
(* Requests                                                                *)

Begin(c) ==
    /\ tx[c] = Idle
    /\ \E op \in setting.requests[c] :
         \/ /\ op \in {"scan", "eligibility", "queue"}
            /\ tx' = [tx EXCEPT ![c] = Request(op, 0, 0, 0)]
         \/ /\ op \in {"detect", "list"}
            /\ \E o \in DOMAIN evidence :
                 tx' = [tx EXCEPT ![c] = Request(op, o, 0, 0)]
         \/ /\ op \in {"handoff", "resume", "dismiss"}
            /\ \E id \in DOMAIN cases :
                 tx' = [tx EXCEPT ![c] = Request(op, cases[id].opp, id, 0)]
         \/ /\ op = "snooze"
            /\ \E id \in DOMAIN cases, wake \in 1 .. MaxNow :
                 tx' = [tx EXCEPT ![c] = Request(op, cases[id].opp, id, wake)]
         \/ /\ op = "link"
            /\ \E id \in DOMAIN cases, a \in DOMAIN actions :
                 tx' = [tx EXCEPT ![c] = Request(op, cases[id].opp, id, a)]
    /\ reply' = NoReply /\ UNCHANGED Store

\* The transaction is rolled back, or the process stops before its COMMIT.
Abort(c) ==
    /\ tx[c] # Idle
    /\ tx' = [tx EXCEPT ![c] = Idle] /\ reply' = NoReply
    /\ UNCHANGED Store

DetectionAnswer(o, at, case, created) ==
    LET e == Evaluation(evidence[o], at)
    IN  [op |-> "detect", opp |-> o, at |-> at, outcome |-> e.outcome,
         reason |-> e.reason, facts |-> e.facts, case |-> case,
         created |-> created]

\* detectWithRepositories
Detect(c) ==
    LET o == tx[c].opp
        at == tx[c].at
        found == [p \in {o} |-> Facts(evidence[p])]
    IN  /\ tx[c].op = "detect"
        /\ \/ /\ ~IsLeak(evidence[o], at)
              /\ Answer(c, DetectionAnswer(o, at, {}, FALSE))
              /\ UNCHANGED Store
           \/ /\ IsLeak(evidence[o], at)
              /\ \E fresh \in Numberings(found) :
                   LET after == Reconciled(found, fresh, at)
                       id == IF o \in DOMAIN fresh THEN fresh[o]
                             ELSE The(ReplayedCase(o, found[o]))
                   IN  IF Admissible(after)
                       THEN /\ cases' = after
                            /\ Answer(c, DetectionAnswer(o, at, {after[id]},
                                                         o \in DOMAIN fresh))
                            /\ UNCHANGED <<now, evidence, actions, milestones, setting>>
                       ELSE Refuse(c, "FAILED")

\* listForStalledScan: the statement sees the opportunities there are now, and
\* counts all of them.
Enumerate(c) ==
    /\ tx[c].op \in {"scan", "eligibility"} /\ tx[c].step = "begun"
    /\ tx' = [tx EXCEPT ![c].step = "enumerated", ![c].seen = evidence,
                        ![c].todo = DOMAIN evidence]
    /\ reply' = NoReply /\ UNCHANGED Store

\* Mutant: the scan takes the first opportunities up to the limit.
ScannedUpToLimit(c) ==
    {o \in DOMAIN tx[c].seen :
        Cardinality({p \in DOMAIN tx[c].seen : p <= o}) <= Limit}

Scanned(c) == DOMAIN tx[c].seen

\* summarizeScan
ScanAnswer(scanned, fresh, at) ==
    LET Item(o) ==
          LET e == Evaluation(evidence[o], at)
              old == The(Active(o))
          IN  [outcome |-> e.outcome, reason |-> e.reason,
               disposition |-> IF e.outcome # "LEAK" THEN "READ_ONLY"
                               ELSE IF o \notin DOMAIN fresh THEN "REPLAYED"
                               ELSE IF old # 0 THEN "SUPERSEDED" ELSE "CREATED",
               case |-> IF e.outcome # "LEAK" THEN 0
                        ELSE IF o \in DOMAIN fresh THEN fresh[o]
                        ELSE The(ReplayedCase(o, Facts(evidence[o]))),
               old |-> IF o \in DOMAIN fresh THEN old ELSE 0]
        results == [o \in scanned |-> Item(o)]
        dispositions == CountBy(results, {"CREATED", "REPLAYED", "SUPERSEDED"},
                                LAMBDA r : r.disposition)
        outcomes == CountBy(results, Outcomes, LAMBDA r : r.outcome)
    IN  [op |-> "scan", at |-> at, total |-> Cardinality(scanned),
         results |-> results, outcomes |-> outcomes,
         detected |-> outcomes["LEAK"], created |-> dispositions["CREATED"],
         replayed |-> dispositions["REPLAYED"],
         superseded |-> dispositions["SUPERSEDED"]]

\* scanWithRepositories
Scan(c) ==
    LET at == tx[c].at
        scanned == Scanned(c)
        found == [o \in {p \in scanned : IsLeak(evidence[p], at)} |-> Facts(evidence[o])]
    IN  /\ tx[c].op = "scan" /\ tx[c].step = "enumerated"
        /\ IF Cardinality(scanned) > Limit THEN Refuse(c, "LIMIT")
           ELSE \E fresh \in Numberings(found) :
                  LET after == Reconciled(found, fresh, at)
                  IN  IF Admissible(after)
                      THEN /\ cases' = after
                           /\ milestones' = milestones \cup {ScanCompleted}
                           /\ Answer(c, ScanAnswer(scanned, fresh, at))
                           /\ UNCHANGED <<now, evidence, actions, setting>>
                      ELSE Refuse(c, "FAILED")

\* The activities, or the tasks, of an opportunity as they are now.
WithActivities(seen, o) == [seen EXCEPT ![o].act = evidence[o].act]
WithTasks(seen, o) ==
    [seen EXCEPT ![o].task = evidence[o].task, ![o].tasked = evidence[o].tasked]

\* evaluateStalledPortfolio, without locks: the activities of one opportunity
\* are read after its row, and its tasks by another statement after these.
ReadActivities(c) ==
    /\ tx[c].op = "eligibility" /\ tx[c].step = "enumerated"
    /\ Cardinality(DOMAIN tx[c].seen) <= Limit /\ tx[c].todo # {}
    /\ tx' = [tx EXCEPT ![c].step = "activities",
                        ![c].seen = WithActivities(@, Min(tx[c].todo))]
    /\ reply' = NoReply /\ UNCHANGED Store

ReadTasks(c) ==
    /\ tx[c].op = "eligibility" /\ tx[c].step = "activities"
    /\ LET o == Min(tx[c].todo)
       IN  tx' = [tx EXCEPT ![c].step = "enumerated", ![c].todo = @ \ {o},
                            ![c].seen = WithTasks(@, o)]
    /\ reply' = NoReply /\ UNCHANGED Store

\* eligibilityWithRepositories
AnswerEligibility(c) ==
    LET total == Cardinality(DOMAIN tx[c].seen)
    IN  /\ tx[c].op = "eligibility" /\ tx[c].step = "enumerated"
        /\ \/ /\ total > Limit
              /\ Answer(c, BlockedEligibility(total, tx[c].at))
           \/ /\ total <= Limit /\ tx[c].todo = {}
              /\ Answer(c, Eligibility(tx[c].seen, tx[c].at))
        /\ UNCHANGED Store

\* queueWithRepository
AnswerQueue(c) ==
    LET active == [id \in {i \in DOMAIN cases : cases[i].state \in ActiveCases}
                     |-> cases[id]]
    IN  /\ tx[c].op = "queue"
        /\ IF Cardinality(DOMAIN active) > Limit THEN Refuse(c, "LIMIT")
           ELSE IF \E id \in DOMAIN active : active[id].detected > tx[c].at
           THEN Refuse(c, "INTEGRITY")
           ELSE Answer(c, Queue(active, tx[c].at)) /\ UNCHANGED Store

\* list
AnswerList(c) ==
    /\ tx[c].op = "list"
    /\ Answer(c, [op |-> "list", opp |-> tx[c].opp, at |-> tx[c].at,
                  cases |-> [id \in Series(tx[c].opp) |-> cases[id]]])
    /\ UNCHANGED Store

-----------------------------------------------------------------------------
(* Human transitions                                                       *)

\* A transition writes its case and answers with it.
Write(c, r) ==
    /\ cases' = [cases EXCEPT ![tx[c].case] = r]
    /\ Answer(c, [op |-> "mutation", at |-> tx[c].at, case |-> r])
    /\ UNCHANGED <<now, evidence, actions, milestones, setting>>

MayTransition(r, op, at, wake) ==
    \/ op = "snooze" /\ r.state = "OPEN" /\ wake > at
    \/ op = "resume" /\ r.state = "SNOOZED"
    \/ op = "dismiss" /\ r.state \in ActiveCases

\* transition: the time of the request, read before the lock of the row.
Transition(c) ==
    LET r == cases[tx[c].case]
        at == tx[c].at
    IN  /\ tx[c].op \in {"snooze", "resume", "dismiss"}
        /\ IF ~MayTransition(r, tx[c].op, at, tx[c].more)
           THEN Refuse(c, "TRANSITION_INVALID")
           ELSE /\ Len(r.audit) < MaxAudit
                /\ \/ /\ tx[c].op = "snooze"
                      /\ Write(c, [Audited(r, "SNOOZED", at)
                                     EXCEPT !.state = "SNOOZED", !.wake = tx[c].more])
                   \/ /\ tx[c].op = "resume"
                      /\ Write(c, [Audited(r, "OPEN", at)
                                     EXCEPT !.state = "OPEN", !.wake = NoTime])
                   \/ /\ tx[c].op = "dismiss"
                      /\ Write(c, [Audited(r, "DISMISSED", at)
                                     EXCEPT !.state = "DISMISSED"])

\* linkRevenueAction, of an action that the client has seen: it is older than
\* the request, so the check that its creation is not later is left out.
Link(c) ==
    LET r == cases[tx[c].case]
        a == tx[c].more
    IN  /\ tx[c].op = "link"
        /\ IF r.state \notin ActiveCases THEN Refuse(c, "TRANSITION_INVALID")
           ELSE IF r.action \notin {0, a} THEN Refuse(c, "LINK_CONFLICT")
           ELSE IF r.action = a THEN Write(c, r)
           ELSE IF actions[a].opp # r.opp THEN Refuse(c, "UNAVAILABLE")
           ELSE /\ Len(r.audit) < MaxAudit
                /\ Write(c, [Audited(r, "LINKED", tx[c].at) EXCEPT !.action = a])

-----------------------------------------------------------------------------
(* The handoff                                                             *)

\* What deal intelligence recommends, and the evidence it rests on.
Basis(e) ==
    [type |-> IF e.next = "none" THEN "CREATE_TASK" ELSE "OTHER",
     stage |-> e.stage, next |-> e.next, value |-> e.value, act |-> e.act,
     task |-> e.task]

OpenActions(o) == {a \in DOMAIN actions : actions[a].opp = o /\ actions[a].status = "OPEN"}

\* materializeRevenueAction: the open action with the current basis, or a new
\* one; the other open ones are cancelled.
Materialized(o, a) ==
    [b \in DOMAIN actions \cup {a} |->
        IF b \notin DOMAIN actions
        THEN [opp |-> o, basis |-> Basis(evidence[o]), status |-> "OPEN", created |-> now]
        ELSE IF b \in OpenActions(o) \ {a} THEN [actions[b] EXCEPT !.status = "DONE"]
        ELSE actions[b]]

\* The open action to reuse, if there is one, or else an id for a new one.
Candidates(o) ==
    LET same == {a \in OpenActions(o) : actions[a].basis = Basis(evidence[o])}
    IN  IF same # {} THEN same ELSE {Cardinality(DOMAIN actions) + 1}

\* Mutant: the milestone waits for a replay.
LinkMilestonesNone(id, o) == {}

\* observeLinkedAction
LinkMilestones(id, o) == IF o \in Imported THEN {id} ELSE {}

HandoffAnswer(c, r, a, made, flags) ==
    Answer(c, [op |-> "handoff", at |-> tx[c].at, case |-> r, action |-> a,
               made |-> [type |-> made.basis.type, opp |-> made.opp,
                         created |-> made.created],
               created |-> flags.created, linked |-> flags.linked,
               reconciled |-> flags.reconciled])

\* Mutant: any leak of the opportunity will do.
CaseIsCurrentLeak(r, at) == IsLeak(evidence[r.opp], at)

\* validateCurrentCase
CaseIsCurrent(r, at) ==
    IsLeak(evidence[r.opp], at) /\ Facts(evidence[r.opp]) = r.facts

\* materialize, linkRevenueAction and the milestone. The clock is read again:
\* an action of this transaction or an earlier one is not newer.
LinkCurrent(c, r) ==
    LET o == r.opp
    IN  \E a \in Candidates(o) :
          /\ a <= MaxActions
          /\ actions' = Materialized(o, a)
          /\ LET linked == [Audited(r, "LINKED", now) EXCEPT !.action = a]
                 created == a \notin DOMAIN actions
             IN  /\ cases' = [cases EXCEPT ![tx[c].case] = linked]
                 /\ milestones' = milestones \cup LinkMilestones(tx[c].case, o)
                 /\ HandoffAnswer(c, linked, a, actions'[a],
                        [created |-> created, linked |-> TRUE, reconciled |-> ~created])

\* handoffWithRepositories, of a case that has its action.
ReplayHandoff(c, r) ==
    IF actions[r.action].basis.type # "CREATE_TASK" THEN Refuse(c, "UNAVAILABLE")
    ELSE /\ milestones' = milestones \cup LinkMilestones(tx[c].case, r.opp)
         /\ HandoffAnswer(c, r, r.action, actions[r.action],
                          [created |-> FALSE, linked |-> FALSE, reconciled |-> TRUE])
         /\ UNCHANGED <<cases, actions>>

Handoff(c) ==
    LET r == cases[tx[c].case]
        at == tx[c].at
    IN  /\ tx[c].op = "handoff"
        /\ \/ r.state \notin ActiveCases /\ Refuse(c, "TRANSITION_INVALID")
           \/ /\ r.state \in ActiveCases /\ r.action # 0
              /\ ReplayHandoff(c, r) /\ UNCHANGED <<now, evidence, setting>>
           \/ /\ r.state \in ActiveCases /\ r.action = 0
              /\ ~CaseIsCurrent(r, at) /\ Refuse(c, "STALE")
           \/ /\ r.state \in ActiveCases /\ r.action = 0 /\ CaseIsCurrent(r, at)
              /\ Basis(evidence[r.opp]).type # "CREATE_TASK"
              /\ Refuse(c, "INCOMPATIBLE")
           \/ /\ r.state \in ActiveCases /\ r.action = 0 /\ CaseIsCurrent(r, at)
              /\ Basis(evidence[r.opp]).type = "CREATE_TASK"
              /\ Len(r.audit) < MaxAudit
              /\ LinkCurrent(c, r) /\ UNCHANGED <<now, evidence, setting>>

-----------------------------------------------------------------------------
(* Everything else that happens                                            *)

\* What a CRM user or an import makes of the evidence of an opportunity; the
\* other events are not edits.
Edited(e, edit) ==
    CASE edit = "contact" -> {[e EXCEPT !.updated = now, !.act = now]}
      [] edit = "value" -> {[e EXCEPT !.value = v, !.updated = now, !.act = now] : v \in Amounts}
      [] edit = "stage" -> {[e EXCEPT !.stage = s, !.next = "set", !.updated = now, !.act = now] :
                               s \in {"active", "closed"}}
      [] edit = "task" -> {[e EXCEPT !.task = "active", !.tasked = now, !.act = now]}
      [] edit = "done" -> {[e EXCEPT !.task = "done", !.tasked = now, !.act = now]}
      [] edit = "history" -> {[e EXCEPT !.task = "done", !.tasked = t] : t \in 0 .. now}
      [] OTHER -> {}

EditCrm(o) ==
    /\ \E edit \in setting.events :
         /\ edit = "done" => evidence[o].task = "active"
         /\ edit \in {"task", "history"} => evidence[o].task = "none"
         /\ \E e \in Edited(evidence[o], edit) : evidence' = [evidence EXCEPT ![o] = e]
    /\ reply' = NoReply /\ UNCHANGED <<now, cases, actions, milestones, setting, tx>>

\* An import creates an opportunity.
Create ==
    /\ \E o \in DOMAIN setting.new \ DOMAIN evidence :
         evidence' = [p \in DOMAIN evidence \cup {o} |->
            IF p = o THEN [setting.new[o] EXCEPT !.born = now] ELSE evidence[p]]
    /\ reply' = NoReply /\ UNCHANGED <<now, cases, actions, milestones, setting, tx>>

\* materializeRevenueAction, requested outside of any handoff.
Materialize(o) ==
    /\ "materialize" \in setting.events /\ evidence[o].stage # "closed"
    /\ \E a \in Candidates(o) : a <= MaxActions /\ actions' = Materialized(o, a)
    /\ reply' = NoReply /\ UNCHANGED <<now, evidence, cases, milestones, setting, tx>>

\* An action is rejected, cancelled or executed: an execution on its approved
\* evidence creates the task and records it as the next action.
FinishAction(a) ==
    LET o == actions[a].opp
        e == evidence[o]
    IN  /\ "finish" \in setting.events /\ actions[a].status = "OPEN"
        /\ actions' = [actions EXCEPT ![a].status = "DONE"]
        /\ \/ evidence' = evidence
           \/ /\ actions[a].basis = Basis(e) /\ actions[a].basis.type = "CREATE_TASK"
              /\ evidence' = [evidence EXCEPT ![o] =
                    [e EXCEPT !.next = "set", !.task = "active", !.updated = now,
                              !.act = now, !.tasked = now]]
        /\ reply' = NoReply /\ UNCHANGED <<now, cases, milestones, setting, tx>>

Tick ==
    /\ now < setting.until /\ now' = now + 1
    /\ reply' = NoReply /\ UNCHANGED <<evidence, cases, actions, milestones, setting, tx>>

Next ==
    \/ \E c \in Clients :
         \/ Begin(c) \/ Abort(c)
         \/ Detect(c) \/ Enumerate(c) \/ Scan(c)
         \/ ReadActivities(c) \/ ReadTasks(c) \/ AnswerEligibility(c) \/ AnswerQueue(c) \/ AnswerList(c)
         \/ Transition(c) \/ Link(c) \/ Handoff(c)
    \/ \E o \in DOMAIN evidence : EditCrm(o) \/ Materialize(o)
    \/ \E a \in DOMAIN actions : FinishAction(a)
    \/ Create \/ Tick

Spec == Init /\ [][Next]_vars

-----------------------------------------------------------------------------
(* What must hold                                                          *)

\* The stored records have their shape.
TypeOK ==
    /\ now \in 0 .. MaxNow
    /\ \A id \in DOMAIN cases : /\ cases[id].detected \in 0 .. now
                                /\ cases[id].action \in {0} \cup DOMAIN actions
                                /\ {cases[id].pred, cases[id].succ} \subseteq
                                       {0} \cup DOMAIN cases
    /\ milestones \subseteq {ScanCompleted} \cup DOMAIN cases

\* The cases of an opportunity are one line of evidence: each follows one other
\* and differs from it, and only the last can be active, as long as no case was
\* detected earlier than the one it follows (reconcile orders the series by
\* detected_at, which is read before the opportunity is locked).
SeriesIsALine ==
    \A o \in DOMAIN evidence :
        LET follows(i, j) == cases[i].pred = j
            later == \A i \in Series(o) :
                cases[i].pred # 0 => cases[cases[i].pred].detected < cases[i].detected
        IN  later =>
              /\ \A i, j \in Series(o) : cases[i].pred = cases[j].pred => i = j
              /\ \A i, j \in Series(o) : follows(i, j) =>
                   /\ cases[i].facts # cases[j].facts
                   /\ cases[j].state \notin ActiveCases
                   /\ cases[j].state = "SUPERSEDED" => cases[j].succ = i

\* A chronological audit trail, which is what docs/architecture/
\* REVENUE_LEAK_CASE.md and the browser expect of every case.  It is violated:
\* two requests read their clocks in one order and lock the case in the other.
AuditIsChronological == \A id \in DOMAIN cases : Chronological(cases[id].audit)

\* What the browser makes of an answer received at t.
Readable(a, t) ==
    CASE a.op = "detect" -> DetectionReadable(a, t)
      [] a.op = "scan" -> ScanReadable(a, t)
      [] a.op = "eligibility" -> EligibilityReadable(a, t)
      [] a.op = "queue" -> QueueReadable(a, t)
      [] a.op = "list" -> ListReadable(a, t)
      [] a.op = "mutation" -> MutationReadable(a, t)
      [] a.op = "handoff" -> HandoffReadable(a, t)
      [] OTHER -> TRUE

\* No answer of the server is refused by the browser, though each has its own
\* copy of the rules, whatever rows and clocks the answers combine.  Excepted
\* are a detection of which the detector would by now say something else (the
\* browser applies the thresholds to the time of receipt), and cases whose
\* audit trail is not chronological, see AuditIsChronological.
AnswersAreReadable ==
    [][ LET a == reply'
        IN  a.op \notin {"none", "refused"} =>
              \/ Readable(a, now)
              \/ a.op = "detect" /\ Reason(evidence[a.opp], now) # a.reason
              \/ \E id \in DOMAIN cases' : ~Chronological(cases'[id].audit) ]_vars

\* A scan is whole: it has an item for every opportunity that was there when it
\* read its clock, and its leaks are those of the evidence at its COMMIT, each
\* with a case of exactly this evidence.
ScanIsWhole ==
    [][ reply'.op = "scan" =>
          \A o \in DOMAIN evidence : evidence[o].born < reply'.at =>
            /\ o \in DOMAIN reply'.results
            /\ LET item == reply'.results[o]
               IN  /\ item.outcome = "LEAK" <=> IsLeak(evidence[o], reply'.at)
                   /\ item.outcome = "LEAK" =>
                        /\ cases'[item.case].opp = o
                        /\ cases'[item.case].facts = Facts(evidence[o]) ]_vars

\* A handoff links an action to a case only while the case is what the evidence
\* says, and the action is the open recommendation of the same evidence; the
\* pilot milestone of an imported opportunity is in the same commit.
HandoffIsCurrent ==
    [][ (reply'.op = "handoff" /\ reply'.linked) =>
          LET r == reply'.case
              a == actions'[reply'.action]
              e == evidence[r.opp]
          IN  /\ r.state \in ActiveCases /\ r.facts = Facts(e)
              /\ IsLeak(e, reply'.at) /\ a.basis = Basis(e) /\ a.status = "OPEN"
              /\ \A b \in DOMAIN actions' :
                   actions'[b].opp = r.opp /\ actions'[b].status = "OPEN"
                   => b = reply'.action
              /\ r.opp \in Imported =>
                   \E id \in milestones' \ {ScanCompleted} : cases'[id] = r ]_vars

\* A request is refused as inconsistent, or fails on a constraint, only if
\* another that arrived later was first.
RefusedOnlyOvertaken ==
    [][ (reply'.op = "refused" /\ reply'.code \in {"INTEGRITY", "FAILED"}) =>
          \E id \in DOMAIN cases : cases[id].detected > reply'.at ]_vars
=============================================================================
