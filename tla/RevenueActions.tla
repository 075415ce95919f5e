--------------------------- MODULE RevenueActions ---------------------------
(***************************************************************************)
(* The RevenueAction lifecycle over the local JSON store: the server that  *)
(* turns an opportunity's current next best action into a human-controlled *)
(* record, has it prepared and approved, and applies its CRM effects.      *)
(*                                                                         *)
(* Every collection is one JSON file, and a write replaces that file.  A   *)
(* request handler is synchronous, so requests never interleave, but one   *)
(* handler makes several writes and the process can stop, or a write can   *)
(* throw, between any two of them.  One action of this module is therefore *)
(* one file write; `job' is the part of the running request still to do,   *)
(* and Abort is the loss of it.                                            *)
(*                                                                         *)
(* Abstractions.  A basis fingerprint is the record it is the hash of      *)
(* (the hash is taken to be injective), without the fields that are        *)
(* functions of the ones kept (priority, reason, task title).  Record ids  *)
(* are drawn in order from bounded tables, and the order of the activities *)
(* is the order of their ids, as if no two shared a millisecond.  A task's *)
(* `terms' is its priority together with its due date.  A collection write *)
(* happens or does not: a torn file is not modelled.                       *)
(***************************************************************************)
EXTENDS Integers

CONSTANTS
    Opportunities,   \* ids of the opportunities, created before the model starts
    Titles,          \* display titles of tasks and recorded next actions
    NoTitle,         \* an opportunity without a recorded next action
    TitleKey,        \* trimmed, case-folded form of a title (normalizeKey)
    ProposedTitle,   \* per action type, the task title the recommendation carries
    StageTitle,      \* per stage, the next action the stage change records
    Terms,           \* values of a task's priority and due date
    ProposedTerms,   \* per action type, the terms the proposal carries
    StaleDays,       \* age in days above which the latest activity is stale
    MaxActions, MaxTasks, MaxActivities, LastDay,    \* bounds of the tables
    Facts,           \* bound: the opportunities' initial contact and value facts
    CrmInputs,       \* bound: which CRM requests the environment sends
    TaskRequests,    \* bound: the tasks those requests ask for
    Faults           \* bound: which faults happen

ActionTypes == {"CREATE_TASK", "RESEARCH", "FOLLOW_UP", "QUALIFY", "ADVANCE"}

ClosedStages == {"WON", "LOST"}

Stages == DOMAIN StageTitle

ActionIds == 1 .. MaxActions
TaskIds == 1 .. MaxTasks
ActivityIds == 1 .. MaxActivities
None == 0

TaskStatuses == {"OPEN", "IN_PROGRESS", "COMPLETED", "CANCELLED"}

CrmRequests == {"stage", "contact", "value", "task", "postTask", "patchTitle",
                "patchTerms", "patchStatus", "day", "caseLink"}

ASSUME TableAssumption ==
    /\ MaxActions \in Nat /\ MaxTasks \in Nat /\ MaxActivities \in Nat
    /\ LastDay \in Nat /\ StaleDays \in Nat

ASSUME TitleAssumption ==
    /\ None \notin Opportunities /\ NoTitle \notin Titles
    /\ ProposedTitle \in [{"CREATE_TASK", "RESEARCH", "QUALIFY"} -> Titles]
    /\ ProposedTerms \in [ActionTypes -> Terms]
    /\ StageTitle \in [Stages -> Titles] /\ Stages # {} /\ Terms # {}
    /\ DOMAIN TitleKey = Titles \cup {NoTitle}

ASSUME InputAssumption ==
    /\ CrmInputs \subseteq CrmRequests
    /\ Facts \subseteq [contact : BOOLEAN, valued : BOOLEAN, nextAction : Titles \cup {NoTitle}]
    /\ TaskRequests \subseteq [type : ActionTypes, title : Titles, terms : Terms]
    /\ Faults \subseteq {"crash", "throw", "refreshThrow"}

VARIABLES
    opportunity,  \* opportunities.json, with the prospect facts it resolves
    actions,      \* revenue_actions.json
    tasks,        \* tasks.json
    activities,   \* activities.json
    evidence,     \* pilot_evidence_events.json: the ACTION_* milestones
    caseLink,     \* actions that a leak case of an imported opportunity links
    today,        \* the day the clock shows
    job           \* what the running request still has to do

crm == <<opportunity, tasks, activities>>
store == <<opportunity, actions, tasks, activities, evidence>>
vars == <<opportunity, actions, tasks, activities, evidence, caseLink, today, job>>

Steps == {"idle", "insert",
          "task", "activity", "nextAction", "finalize", "refresh", "failed",
          "observeApproved", "observeExecuted",
          "crmNextAction", "crmActivity"}

Idle == [step |-> "idle", opp |-> None, action |-> None, task |-> None, key |-> <<>>]

\* A request on opportunity o, and on its action a, whose next write is step s.
Job(s, o, a) == [Idle EXCEPT !.step = s, !.opp = o, !.action = a]

-----------------------------------------------------------------------------
(* Record shapes, and the empty slots of the tables.                       *)

Keys == {TitleKey[t] : t \in Titles \cup {NoTitle}}

NoKey == <<>>

ActivityKeys == {NoKey, <<"contact">>, <<"value">>}
                \cup ({"task"} \X ActionTypes \X Keys)

Bases == [type : ActionTypes, stage : Stages, nextAction : Titles \cup {NoTitle},
          contact : BOOLEAN, valued : BOOLEAN,
          latest : SUBSET ActivityIds, days : SUBSET Int]

NoBasis == [type |-> "CREATE_TASK", stage |-> CHOOSE s \in Stages : TRUE,
            nextAction |-> NoTitle, contact |-> FALSE, valued |-> FALSE,
            latest |-> {}, days |-> {}]

NoAction == [status |-> "ABSENT", opp |-> None, basis |-> NoBasis,
             approved |-> FALSE, requested |-> FALSE,
             task |-> None, activity |-> None]

NoTask == [status |-> "ABSENT", opp |-> None, source |-> "none",
           title |-> NoTitle, terms |-> CHOOSE x \in Terms : TRUE,
           link |-> None, type |-> "none", key |-> TitleKey[NoTitle]]

NoActivity == [kind |-> "ABSENT", opp |-> None, day |-> 0, link |-> None,
               task |-> None, key |-> NoKey]

\* Mutant: executed actions still count as active.
ActiveStatusesWithExecuted ==
    {"RECOMMENDED", "PREPARED", "APPROVED", "EXECUTING", "FAILED", "EXECUTED"}

ActiveStatuses == {"RECOMMENDED", "PREPARED", "APPROVED", "EXECUTING", "FAILED"}

\* i is the first free slot of a table whose slots used are those of U.
IsNext(i, U) == i \notin U /\ \A j \in 1 .. (i - 1) : j \in U

UsedActions == {a \in ActionIds : actions[a].status # "ABSENT"}
UsedTasks == {t \in TaskIds : tasks[t].status # "ABSENT"}
UsedActivities == {v \in ActivityIds : activities[v].kind # "ABSENT"}

-----------------------------------------------------------------------------
(* Deal intelligence: the next best action of an opportunity and the basis *)
(* its fingerprint covers, with the activities linked to one action left   *)
(* out (`without', None to leave out nothing).                             *)

\* The latest recorded activity: empty, or the one with the greatest id.
LatestActivity(o, without) ==
    LET shown == {v \in ActivityIds : /\ activities[v].opp = o
                                      /\ without = None \/ activities[v].link # without}
    IN  {v \in shown : \A u \in shown : u <= v}

IsQuiet(latest) == \A v \in latest : today - activities[v].day > StaleDays

NextBestActionType(o, latest) ==
    LET opp == opportunity[o]
    IN  IF opp.nextAction = NoTitle THEN "CREATE_TASK"
        ELSE IF ~opp.contact THEN "RESEARCH"
        ELSE IF IsQuiet(latest) THEN "FOLLOW_UP"
        ELSE IF ~opp.valued THEN "QUALIFY"
        ELSE "ADVANCE"

Basis(o, without) ==
    LET opp == opportunity[o]
        latest == LatestActivity(o, without)
        type == NextBestActionType(o, latest)
    IN  [type |-> type, stage |-> opp.stage, nextAction |-> opp.nextAction,
         contact |-> opp.contact, valued |-> opp.valued, latest |-> latest,
         days |-> IF type = "FOLLOW_UP"
                  THEN {today - activities[v].day : v \in latest} ELSE {}]

\* The title and terms of the task that action a proposes.
Proposal(a) ==
    LET b == actions[a].basis
    IN  [title |-> IF b.type = "ADVANCE" THEN b.nextAction ELSE ProposedTitle[b.type],
         terms |-> ProposedTerms[b.type]]

ProposedKey(a) == TitleKey[Proposal(a).title]

IsCommunication(a) == actions[a].basis.type = "FOLLOW_UP"

-----------------------------------------------------------------------------
(* The effects an action already owns.                                     *)

LinkedTasks(a) == {t \in TaskIds : tasks[t].link = a}
LinkedActivities(a) == {v \in ActivityIds : activities[v].link = a}

HasEffects(a) == LinkedTasks(a) # {} \/ LinkedActivities(a) # {}

\* taskMatchesRevenueAction: the linked task is still the task proposed.
TaskMatches(t, a) ==
    /\ tasks[t].opp = actions[a].opp
    /\ tasks[t].status = "OPEN"
    /\ tasks[t].source \in {"revenue_action", "deal_intelligence"}
    /\ tasks[t].type = actions[a].basis.type
    /\ tasks[t].key = ProposedKey(a)
    /\ tasks[t].terms = Proposal(a).terms

\* isEquivalentOpenTask: an unlinked deal-intelligence task to reuse.
IsEquivalentOpenTask(t, a) ==
    /\ tasks[t].opp = actions[a].opp
    /\ tasks[t].status = "OPEN"
    /\ tasks[t].link = None
    /\ tasks[t].source = "deal_intelligence"
    /\ tasks[t].type = actions[a].basis.type
    /\ tasks[t].key = ProposedKey(a)
    /\ tasks[t].terms = Proposal(a).terms

\* Mutant: an effect that is not complete yet is taken for a conflict.
EffectConflictPartial(a) ==
    \/ LinkedTasks(a) # {} /\ LinkedActivities(a) = {}
    \/ \E t \in LinkedTasks(a) : ~TaskMatches(t, a)

\* inspectExecutionEffects, the conflict outcomes.
EffectConflict(a) ==
    \/ \E t, u \in LinkedTasks(a) : t # u
    \/ \E v, w \in LinkedActivities(a) : v # w
    \/ IF IsCommunication(a)
       THEN \/ LinkedTasks(a) # {}
            \/ \E v \in LinkedActivities(a) : activities[v].kind # "MANUALLY_CONFIRMED"
       ELSE \/ \E t \in LinkedTasks(a) : ~TaskMatches(t, a)
            \/ \E v \in LinkedActivities(a) :
                 \/ activities[v].kind # "TASK_EXECUTED"
                 \/ activities[v].task \notin LinkedTasks(a)

\* inspectExecutionEffects, the complete outcome: every effect is in place.
EffectsComplete(a) ==
    /\ LinkedActivities(a) # {}
    /\ ~IsCommunication(a) => LinkedTasks(a) # {}
    /\ actions[a].basis.type = "CREATE_TASK" =>
          opportunity[actions[a].opp].nextAction = Proposal(a).title

\* Mutant: only the type of the recommendation is compared, not its evidence.
EvidenceIsCurrentByType(a) ==
    Basis(actions[a].opp, None).type = actions[a].basis.type

\* The evidence a retry compares with: its own effects do not count as change.
EvidenceIsCurrent(a) ==
    Basis(actions[a].opp, IF HasEffects(a) THEN a ELSE None) = actions[a].basis

-----------------------------------------------------------------------------
Init ==
    /\ opportunity \in [Opportunities ->
          {[stage |-> s, nextAction |-> f.nextAction, contact |-> f.contact,
            valued |-> f.valued] : s \in Stages \ ClosedStages, f \in Facts}]
    /\ actions = [a \in ActionIds |-> NoAction]
    /\ tasks = [t \in TaskIds |-> NoTask]
    /\ activities = [v \in ActivityIds |-> NoActivity]
    /\ evidence = {}
    /\ caseLink = {}
    /\ today = 0
    /\ job = Idle

\* Records action a with status s; the request goes on with job j.
SetStatus(a, s, j) ==
    /\ actions' = [actions EXCEPT ![a].status = s]
    /\ job' = j

-----------------------------------------------------------------------------
(* materializeRevenueAction                                                *)

ActiveActions(o) ==
    {a \in ActionIds : actions[a].opp = o /\ actions[a].status \in ActiveStatuses}

\* Mutant: failed actions are left alone.
IncompatibleUnlessFailed(o) ==
    {a \in ActiveActions(o) : /\ actions[a].status # "FAILED"
                              /\ actions[a].basis # Basis(o, None)}

\* Active actions that are not the current recommendation on current evidence.
Incompatible(o) == {a \in ActiveActions(o) : actions[a].basis # Basis(o, None)}

\* Mutant: only an action that is still executing is protected.
RecoveryRequiredExecuting(o) ==
    \E a \in Incompatible(o) : actions[a].status = "EXECUTING" /\ HasEffects(a)

RecoveryRequired(o) ==
    \E a \in Incompatible(o) :
        actions[a].status \in {"EXECUTING", "FAILED"} /\ HasEffects(a)

\* supersedeIncompatibleActiveActions: one write cancels them all, unless one of
\* them owns effects that only its own recovery may settle.
MaterializeRevenueAction(o) ==
    /\ job = Idle
    /\ opportunity[o].stage \notin ClosedStages
    /\ UsedActions # ActionIds
    /\ ~RecoveryRequired(o)
    /\ actions' = [a \in ActionIds |->
                     IF a \in Incompatible(o)
                     THEN [actions[a] EXCEPT !.status = "CANCELLED"]
                     ELSE actions[a]]
    /\ job' = Job("insert", o, None)
    /\ UNCHANGED <<crm, evidence, caseLink, today>>

Duplicate(o) == \E a \in ActiveActions(o) : actions[a].basis = Basis(o, None)

\* The second write: insert the recommendation unless an active action carries it.
InsertRevenueAction ==
    /\ job.step = "insert"
    /\ IF Duplicate(job.opp)
       THEN UNCHANGED actions
       ELSE \E a \in ActionIds :
              /\ IsNext(a, UsedActions)
              /\ actions' = [actions EXCEPT ![a] =
                    [NoAction EXCEPT !.status = "RECOMMENDED", !.opp = job.opp,
                                     !.basis = Basis(job.opp, None)]]
    /\ job' = Idle
    /\ UNCHANGED <<crm, evidence, caseLink, today>>

-----------------------------------------------------------------------------
(* prepare, approve, reject and cancel                                     *)

\* validateCurrentRevenueAction: the opportunity still recommends this action.
IsCurrent(a) == Basis(actions[a].opp, None) = actions[a].basis

\* Preparation and approval, or a replay of either, find the evidence changed.
\* An action is created open, so a closed opportunity is a changed basis too.
SupersedeStale(a) ==
    /\ job = Idle
    /\ actions[a].status \in {"RECOMMENDED", "PREPARED", "APPROVED"}
    /\ ~IsCurrent(a)
    /\ SetStatus(a, "CANCELLED", Idle)
    /\ UNCHANGED <<crm, evidence, caseLink, today>>

PrepareRevenueAction(a) ==
    /\ job = Idle
    /\ actions[a].status = "RECOMMENDED"
    /\ IsCurrent(a)
    /\ SetStatus(a, "PREPARED", Idle)
    /\ UNCHANGED <<crm, evidence, caseLink, today>>

\* Mutant: an action is approved without having been prepared.
ApproveUnprepared(a) ==
    /\ job = Idle
    /\ actions[a].status \in {"RECOMMENDED", "PREPARED", "APPROVED"}
    /\ IsCurrent(a)
    /\ actions' = [actions EXCEPT ![a] = [@ EXCEPT !.status = "APPROVED",
                                                     !.approved = TRUE]]
    /\ job' = Job("observeApproved", actions[a].opp, a)
    /\ UNCHANGED <<crm, evidence, caseLink, today>>

ApproveRevenueAction(a) ==
    /\ job = Idle
    /\ actions[a].status \in {"PREPARED", "APPROVED"}
    /\ IsCurrent(a)
    /\ actions' = [actions EXCEPT ![a] = [@ EXCEPT !.status = "APPROVED",
                                                     !.approved = TRUE]]
    /\ job' = Job("observeApproved", actions[a].opp, a)
    /\ UNCHANGED <<crm, evidence, caseLink, today>>

RejectRevenueAction(a) ==
    /\ job = Idle
    /\ actions[a].status = "PREPARED"
    /\ SetStatus(a, "REJECTED", Idle)
    /\ UNCHANGED <<crm, evidence, caseLink, today>>

CancelRevenueAction(a) ==
    /\ job = Idle
    /\ actions[a].status \in {"RECOMMENDED", "PREPARED"}
    /\ SetStatus(a, "CANCELLED", Idle)
    /\ UNCHANGED <<crm, evidence, caseLink, today>>

-----------------------------------------------------------------------------
(* executeRevenueAction                                                    *)

InRecovery(a) == actions[a].status \in {"EXECUTING", "FAILED"}

\* The guards every execution passes before it touches anything.  A
\* communication is only executed on a request that confirms it manually.
Executable(a) ==
    /\ job = Idle
    /\ actions[a].status = "APPROVED" \/ InRecovery(a)
    /\ actions[a].approved
    /\ InRecovery(a) => actions[a].requested
    /\ ~EffectConflict(a)

\* A retry that finds every effect in place finalizes before looking at evidence.
ReconcileExecution(a) ==
    /\ Executable(a)
    /\ InRecovery(a)
    /\ EffectsComplete(a)
    /\ \E v \in LinkedActivities(a), t \in LinkedTasks(a) \cup {None} :
         /\ t = None <=> LinkedTasks(a) = {}
         /\ actions' = [actions EXCEPT ![a] = [@ EXCEPT !.status = "EXECUTED",
                                                        !.task = t, !.activity = v]]
    /\ job' = Job("observeExecuted", actions[a].opp, a)
    /\ UNCHANGED <<crm, evidence, caseLink, today>>

\* An approved action must not own effects yet; a retry may own some of them.
MayStart(a) ==
    /\ Executable(a)
    /\ IF InRecovery(a) THEN ~EffectsComplete(a) ELSE ~HasEffects(a)

ExecuteStale(a) ==
    /\ MayStart(a)
    /\ ~EvidenceIsCurrent(a)
    /\ SetStatus(a, "CANCELLED", Idle)
    /\ UNCHANGED <<crm, evidence, caseLink, today>>

\* Mutant: a retry does not look for the task it already created.
EffectTaskAlwaysNew(a, t) == IsNext(t, UsedTasks)

\* The slot of the task an execution works on: its own, else the first
\* equivalent open one, else a new one.
EffectTask(a, t) ==
    LET equivalent == {u \in TaskIds : IsEquivalentOpenTask(u, a)}
    IN  IF LinkedTasks(a) # {} THEN t \in LinkedTasks(a)
        ELSE IF equivalent # {} THEN t \in equivalent /\ \A u \in equivalent : t <= u
        ELSE IsNext(t, UsedTasks)

\* There is a slot for each effect still missing (a bound).
HasRoom(a) == /\ IsCommunication(a) \/ \E t \in TaskIds : EffectTask(a, t)
              /\ LinkedActivities(a) # {} \/ UsedActivities # ActivityIds

StartExecution(a) ==
    /\ MayStart(a)
    /\ EvidenceIsCurrent(a)
    /\ HasRoom(a)
    /\ actions' = [actions EXCEPT ![a] = [@ EXCEPT !.status = "EXECUTING",
                                                     !.requested = TRUE]]
    /\ job' = Job(IF IsCommunication(a) THEN "activity" ELSE "task", actions[a].opp, a)
    /\ UNCHANGED <<crm, evidence, caseLink, today>>

\* createTaskForRevenueAction and linkExistingTask.  A reused task keeps its title.
CreateTaskForRevenueAction ==
    LET a == job.action
    IN  /\ job.step = "task"
        /\ \E t \in TaskIds :
             /\ EffectTask(a, t)
             /\ tasks' =
                  IF tasks[t].link = a THEN tasks
                  ELSE [tasks EXCEPT ![t] =
                    [(IF tasks[t].status # "ABSENT" THEN tasks[t]
                      ELSE [NoTask EXCEPT !.status = "OPEN", !.opp = job.opp,
                                          !.source = "revenue_action",
                                          !.title = Proposal(a).title,
                                          !.terms = Proposal(a).terms])
                     EXCEPT !.link = a, !.type = actions[a].basis.type,
                            !.key = ProposedKey(a)]]
             /\ job' = [job EXCEPT !.step = "activity", !.task = t]
        /\ UNCHANGED <<opportunity, actions, activities, evidence, caseLink, today>>

\* createActivityForRevenueAction: at most one activity carries the action's id.
CreateActivityForRevenueAction ==
    LET a == job.action
    IN  /\ job.step = "activity"
        /\ IF LinkedActivities(a) # {}
           THEN UNCHANGED activities
           ELSE \E v \in ActivityIds :
                  /\ IsNext(v, UsedActivities)
                  /\ activities' = [activities EXCEPT ![v] =
                       [kind |-> IF IsCommunication(a) THEN "MANUALLY_CONFIRMED"
                                 ELSE "TASK_EXECUTED",
                        opp |-> job.opp, day |-> today, link |-> a,
                        task |-> job.task, key |-> NoKey]]
        /\ job' = [job EXCEPT !.step = IF actions[a].basis.type = "CREATE_TASK"
                                       THEN "nextAction" ELSE "finalize"]
        /\ UNCHANGED <<opportunity, actions, tasks, evidence, caseLink, today>>

\* Mutant: the title is read from a field the result does not have.
RecordedTitleUndefined == "undefined"

\* The title setOpportunityNextAction records: the one of the task worked on.
RecordedTitle == tasks[job.task].title

SetOpportunityNextAction ==
    /\ job.step = "nextAction"
    /\ opportunity' = [opportunity EXCEPT ![job.opp].nextAction = RecordedTitle]
    /\ job' = [job EXCEPT !.step = "finalize"]
    /\ UNCHANGED <<actions, tasks, activities, evidence, caseLink, today>>

FinalizeExecution ==
    LET a == job.action
    IN  /\ job.step = "finalize"
        /\ \E v \in LinkedActivities(a) :
             actions' = [actions EXCEPT ![a] = [@ EXCEPT !.status = "EXECUTED",
                                                      !.task = job.task, !.activity = v]]
        /\ job' = [job EXCEPT !.step = "refresh"]
        /\ UNCHANGED <<crm, evidence, caseLink, today>>

\* An effect throws inside the try block, which also covers the refresh of the
\* response that follows the final write.
EffectThrows ==
    /\ \/ "throw" \in Faults /\ job.step \in {"task", "activity", "nextAction", "finalize"}
       \/ "refreshThrow" \in Faults /\ job.step = "refresh"
    /\ job' = [job EXCEPT !.step = "failed"]
    /\ UNCHANGED <<store, caseLink, today>>

\* The failed record is built from the one that started the execution.
FailExecution ==
    LET a == job.action
    IN  /\ job.step = "failed"
        /\ actions' = [actions EXCEPT ![a] = [@ EXCEPT !.status = "FAILED",
                                                    !.task = None, !.activity = None]]
        /\ job' = Idle
        /\ UNCHANGED <<crm, evidence, caseLink, today>>

-----------------------------------------------------------------------------
(* observeLocalRevenueAction: the milestone is appended once, after the    *)
(* state change it reports, and only for a linked imported case.           *)

ReplayExecuted(a) ==
    /\ job = Idle
    /\ actions[a].status = "EXECUTED"
    /\ job' = Job("observeExecuted", actions[a].opp, a)
    /\ UNCHANGED <<store, caseLink, today>>

\* Mutant: the milestone is written before the final state change.
ObserveBeforeFinalize ==
    LET a == job.action
        event == IF job.step = "observeApproved" THEN "ACTION_APPROVED"
                 ELSE "ACTION_EXECUTED"
    IN  /\ job.step \in {"finalize", "refresh", "observeApproved", "observeExecuted"}
        /\ evidence' = IF a \in caseLink THEN evidence \cup {<<event, a>>} ELSE evidence
        /\ job' = IF job.step = "finalize" THEN job ELSE Idle
        /\ UNCHANGED <<crm, actions, caseLink, today>>

ObserveRevenueAction ==
    LET a == job.action
        event == IF job.step = "observeApproved" THEN "ACTION_APPROVED"
                 ELSE "ACTION_EXECUTED"
    IN  /\ job.step \in {"refresh", "observeApproved", "observeExecuted"}
        /\ evidence' = IF a \in caseLink THEN evidence \cup {<<event, a>>} ELSE evidence
        /\ job' = Idle
        /\ UNCHANGED <<crm, actions, caseLink, today>>

\* The process stops, or a write outside the try block throws: the files stay.
Abort ==
    /\ "crash" \in Faults
    /\ job # Idle
    /\ job' = Idle
    /\ UNCHANGED <<store, caseLink, today>>
-----------------------------------------------------------------------------
(* The CRM requests that share the files.  Each writes its main record and *)
(* then appends an activity: crmActivity is the write still to come.       *)

\* There is a slot for a task and for an activity (a bound).
CrmRoom == UsedTasks # TaskIds /\ UsedActivities # ActivityIds

CrmJob(o, s, t, k) == [Job(s, o, None) EXCEPT !.task = t, !.key = k]

CrmRequest(input) ==
    /\ input \in CrmInputs
    /\ job = Idle
    /\ CrmRoom
    /\ UNCHANGED <<actions, activities, evidence, caseLink, today>>

\* updateOpportunityStage: any stage may follow any other, closed ones included.
UpdateOpportunityStage(o, s) ==
    /\ CrmRequest("stage")
    /\ opportunity' = [opportunity EXCEPT ![o] = [@ EXCEPT !.stage = s,
                                                            !.nextAction = StageTitle[s]]]
    /\ job' = CrmJob(o, "crmActivity", None, NoKey)
    /\ UNCHANGED tasks

AddContact(o) ==
    /\ CrmRequest("contact")
    /\ opportunity' = [opportunity EXCEPT ![o].contact = TRUE]
    /\ job' = CrmJob(o, "crmActivity", None, <<"contact">>)
    /\ UNCHANGED tasks

SetValue(o) ==
    /\ CrmRequest("value")
    /\ opportunity' = [opportunity EXCEPT ![o].valued = TRUE]
    /\ job' = CrmJob(o, "crmActivity", None, <<"value">>)
    /\ UNCHANGED tasks

\* findEquivalentOpenTask: same opportunity and title key, not completed, and of
\* the same action type unless it carries none.
EquivalentTasks(o, type, key) ==
    {t \in UsedTasks : /\ tasks[t].opp = o
                       /\ tasks[t].status # "COMPLETED"
                       /\ tasks[t].type \in {type, "none"}
                       /\ TitleKey[tasks[t].title] = key}

IsFirst(t, S) == t \in S /\ \A u \in S : t <= u

\* createNextActionTask, and createFollowUp for the FOLLOW_UP type.
CreateNextActionTask(o, r) ==
    LET key == TitleKey[r.title]
        existing == EquivalentTasks(o, r.type, key)
    IN  /\ CrmRequest("task")
        /\ \E t \in TaskIds :
             /\ IF existing # {} THEN IsFirst(t, existing) ELSE IsNext(t, UsedTasks)
             /\ tasks' = IF existing # {} THEN tasks
                         ELSE [tasks EXCEPT ![t] =
                            [NoTask EXCEPT !.status = "OPEN", !.opp = o,
                                           !.source = "deal_intelligence",
                                           !.title = r.title, !.terms = r.terms,
                                           !.type = r.type, !.key = key]]
             /\ job' = CrmJob(o, IF r.type = "CREATE_TASK" THEN "crmNextAction"
                                 ELSE "crmActivity", t, <<"task", r.type, key>>)
        /\ UNCHANGED opportunity

\* The next action follows the task's title unless it already has its key.
RecordNextAction ==
    LET title == tasks[job.task].title
        current == opportunity[job.opp].nextAction
    IN  /\ job.step = "crmNextAction"
        /\ opportunity' = IF TitleKey[current] = TitleKey[title] THEN opportunity
                          ELSE [opportunity EXCEPT ![job.opp].nextAction = title]
        /\ job' = [job EXCEPT !.step = "crmActivity"]
        /\ UNCHANGED <<actions, tasks, activities, evidence, caseLink, today>>

\* POST /api/tasks: a task without metadata, unless one with that title is open.
PostTask(o, r) ==
    /\ CrmRequest("postTask")
    /\ \A t \in UsedTasks : \/ tasks[t].opp # o
                            \/ tasks[t].status = "COMPLETED"
                            \/ TitleKey[tasks[t].title] # TitleKey[r.title]
    /\ \E t \in TaskIds :
         /\ IsNext(t, UsedTasks)
         /\ tasks' = [tasks EXCEPT ![t] =
               [NoTask EXCEPT !.status = "OPEN", !.opp = o, !.source = "manual",
                              !.title = r.title, !.terms = r.terms]]
         /\ job' = CrmJob(o, "crmActivity", t, NoKey)
    /\ UNCHANGED opportunity

\* PATCH /api/tasks/:id edits any task, linked or not; its metadata stays.
PatchTask(t, status, title, terms) ==
    LET old == tasks[t]
    IN  /\ job = Idle
        /\ t \in UsedTasks
        /\ status # old.status => "patchStatus" \in CrmInputs /\ CrmRoom
        /\ title # old.title => "patchTitle" \in CrmInputs
        /\ terms # old.terms => "patchTerms" \in CrmInputs
        /\ tasks' = [tasks EXCEPT ![t] = [@ EXCEPT !.status = status, !.title = title,
                                                 !.terms = terms]]
        /\ job' = IF status # old.status THEN CrmJob(old.opp, "crmActivity", t, NoKey)
                  ELSE Idle
        /\ UNCHANGED <<opportunity, actions, activities, evidence, caseLink, today>>

\* createActivityOnce: an activity with the request's key is not repeated.
RecordActivity ==
    /\ job.step = "crmActivity"
    /\ IF job.key # NoKey
          /\ \E v \in UsedActivities : activities[v].opp = job.opp /\ activities[v].key = job.key
       THEN UNCHANGED activities
       ELSE \E v \in ActivityIds :
              /\ IsNext(v, UsedActivities)
              /\ activities' = [activities EXCEPT ![v] =
                   [kind |-> "CRM", opp |-> job.opp, day |-> today, link |-> None,
                    task |-> job.task, key |-> job.key]]
    /\ job' = Idle
    /\ UNCHANGED <<opportunity, actions, tasks, evidence, caseLink, today>>

\* A day passes between requests: a stale opportunity's recommendation drifts.
NextDay ==
    /\ "day" \in CrmInputs
    /\ job = Idle
    /\ today < LastDay
    /\ today' = today + 1
    /\ UNCHANGED <<store, caseLink, job>>

\* The leak-case service links a case of an imported opportunity to action a.
LinkCase(a) ==
    /\ "caseLink" \in CrmInputs
    /\ job = Idle
    /\ a \in UsedActions
    /\ caseLink' = caseLink \cup {a}
    /\ UNCHANGED <<store, today, job>>

-----------------------------------------------------------------------------
Lifecycle(a) ==
    \/ SupersedeStale(a)
    \/ PrepareRevenueAction(a)
    \/ ApproveRevenueAction(a)
    \/ RejectRevenueAction(a)
    \/ CancelRevenueAction(a)

Execution(a) ==
    \/ ReconcileExecution(a)
    \/ ExecuteStale(a)
    \/ StartExecution(a)
    \/ ReplayExecuted(a)

\* The writes that the running request goes on with.
Continue ==
    \/ InsertRevenueAction
    \/ CreateTaskForRevenueAction
    \/ CreateActivityForRevenueAction
    \/ SetOpportunityNextAction
    \/ FinalizeExecution
    \/ FailExecution
    \/ ObserveRevenueAction
    \/ RecordNextAction
    \/ RecordActivity

Crm ==
    \/ \E o \in Opportunities :
         \/ \E s \in Stages : UpdateOpportunityStage(o, s)
         \/ AddContact(o)
         \/ SetValue(o)
         \/ \E r \in TaskRequests : CreateNextActionTask(o, r) \/ PostTask(o, r)
    \/ \E t \in TaskIds, status \in TaskStatuses, title \in Titles, terms \in Terms :
         PatchTask(t, status, title, terms)
    \/ NextDay

Next ==
    \/ \E o \in Opportunities : MaterializeRevenueAction(o)
    \/ \E a \in ActionIds : Lifecycle(a) \/ Execution(a) \/ LinkCase(a)
    \/ Continue
    \/ EffectThrows
    \/ Abort
    \/ Crm

Spec == Init /\ [][Next]_vars

-----------------------------------------------------------------------------
(* Properties                                                              *)

TaskRecords == [status : TaskStatuses \cup {"ABSENT"}, opp : Opportunities \cup {None},
                source : {"none", "manual", "deal_intelligence", "revenue_action"},
                title : Titles \cup {NoTitle}, terms : Terms,
                link : ActionIds \cup {None}, type : ActionTypes \cup {"none"}, key : Keys]

ActivityRecords == [kind : {"ABSENT", "CRM", "MANUALLY_CONFIRMED", "TASK_EXECUTED"},
                    opp : Opportunities \cup {None}, day : 0 .. LastDay,
                    link : ActionIds \cup {None}, task : TaskIds \cup {None},
                    key : ActivityKeys]

ActionRecords == [status : ActiveStatuses \cup {"ABSENT", "EXECUTED", "REJECTED", "CANCELLED"},
                  opp : Opportunities \cup {None}, basis : Bases,
                  approved : BOOLEAN, requested : BOOLEAN,
                  task : TaskIds \cup {None}, activity : ActivityIds \cup {None}]

\* The shape of the stored collections and of the running request.
TypeOK ==
    /\ opportunity \in [Opportunities -> [stage : Stages, nextAction : Titles \cup {NoTitle},
                                          contact : BOOLEAN, valued : BOOLEAN]]
    /\ actions \in [ActionIds -> ActionRecords]
    /\ tasks \in [TaskIds -> TaskRecords]
    /\ activities \in [ActivityIds -> ActivityRecords]
    /\ evidence \subseteq {"ACTION_APPROVED", "ACTION_EXECUTED"} \X ActionIds
    /\ caseLink \subseteq ActionIds
    /\ today \in 0 .. LastDay
    /\ job \in [step : Steps, opp : Opportunities \cup {None}, action : ActionIds \cup {None},
                task : TaskIds \cup {None}, key : ActivityKeys]

\* One process never holds two active actions of an opportunity, although
\* superseding the old ones and inserting the new one are two file writes and
\* an execution may fail after it has written EXECUTED.
OneActiveAction ==
    \A a, b \in ActionIds :
        /\ actions[a].status \in ActiveStatuses
        /\ actions[b].status \in ActiveStatuses
        /\ actions[a].opp = actions[b].opp
        => a = b

\* However often an execution crashes, throws and is retried, an action owns at
\* most one task and one activity, and owns nothing before a human approved it.
EffectsOnceAndApproved ==
    /\ \A t, u \in TaskIds :
         tasks[t].link = tasks[u].link /\ tasks[t].link # None => t = u
    /\ \A v, w \in ActivityIds :
         activities[v].link = activities[w].link /\ activities[v].link # None => v = w
    /\ \A a \in ActionIds :
         HasEffects(a) => /\ actions[a].approved
                          /\ actions[a].status \in {"EXECUTING", "FAILED", "EXECUTED", "CANCELLED"}

\* An executed action has its whole effect on disk: the activity it names
\* carries its id and, for an internal task, points at the task it names.
ExecutedHasEffects ==
    \A a \in ActionIds : actions[a].status = "EXECUTED" =>
        LET v == actions[a].activity
            t == actions[a].task
        IN  /\ v # None /\ activities[v].link = a /\ activities[v].task = t
            /\ IF IsCommunication(a) THEN t = None
               ELSE t # None /\ tasks[t].link = a

\* Pilot evidence never runs ahead of the store: a reported approval was given,
\* and a reported execution is recorded as executed and stays so.
EvidenceIsTrue ==
    \A a \in ActionIds :
        /\ <<"ACTION_APPROVED", a>> \in evidence => actions[a].approved
        /\ <<"ACTION_EXECUTED", a>> \in evidence => actions[a].status = "EXECUTED"

\* An effect is only ever applied on the evidence a human approved: whenever a
\* write of an execution or of one of its retries is due, however long after the
\* approval, the opportunity still shows that evidence, its own effects aside.
EffectsOnApprovedEvidence ==
    job.step \in {"task", "activity", "nextAction"} =>
        /\ actions[job.action].approved
        /\ Basis(job.opp, job.action) = actions[job.action].basis

\* Executed, rejected and cancelled actions are history: no retry, replay,
\* failure or newer recommendation changes their status.
SettledIsFinal ==
    [][\A a \in ActionIds : actions[a].status \in {"EXECUTED", "REJECTED", "CANCELLED"}
          => actions'[a].status = actions[a].status]_vars

\* An action that has touched the CRM is given up only by its own retry, never
\* for a newer recommendation, and only when an effect it proposed is missing and
\* the opportunity no longer shows the approved evidence, the action's task and
\* activity set aside.  The next action it recorded is not set aside: when that
\* is not the proposed title, the code takes it for changed evidence
\* (CompleteEffectsAreReconciled).
EffectsKeepAction ==
    [][\A a \in ActionIds :
          HasEffects(a) /\ actions[a].status # "CANCELLED" /\ actions'[a].status = "CANCELLED"
          => /\ ~EffectsComplete(a) /\ job' = Idle
             /\ Basis(actions[a].opp, a) # actions[a].basis]_vars

\* An internal action whose task, activity and recorded next action are all in
\* place is reconciled by a retry and not superseded as stale: "retries reconcile
\* complete exact effects before current-intelligence staleness checks"
\* (REVENUE_ACTION_EXECUTION.md).  The code does not satisfy it: an execution
\* records the title of the task it worked on, and a retry looks for the title
\* proposed, which a reused or edited task need not have.
CompleteEffectsAreReconciled ==
    [][\A a \in ActionIds, t \in TaskIds :
          /\ t \in LinkedTasks(a) /\ TaskMatches(t, a)
          /\ LinkedActivities(a) # {}
          /\ opportunity[actions[a].opp].nextAction = tasks[t].title
          => ~(InRecovery(a) /\ actions'[a].status = "CANCELLED")]_vars

\* The lifecycle over the JSON files keeps the contract of the lifecycle.
Contract == INSTANCE RevenueActionContract WITH
    status <- [a \in ActionIds |-> actions[a].status],
    owner <- [a \in ActionIds |-> actions[a].opp],
    taskOf <- [a \in ActionIds |-> LinkedTasks(a)],
    activityOf <- [a \in ActionIds |-> LinkedActivities(a)]

ImplementsContract == Contract!Spec

-----------------------------------------------------------------------------
(* Liveness.  The operator retries an execution that was started, and the  *)
(* process does not stop or throw at the same write for ever.              *)

RetriedExecution(a) ==
    InRecovery(a) /\ (ReconcileExecution(a) \/ ExecuteStale(a) \/ StartExecution(a))

Fairness ==
    /\ \A a \in ActionIds : SF_vars(RetriedExecution(a))
    /\ SF_vars(CreateTaskForRevenueAction)
    /\ SF_vars(CreateActivityForRevenueAction)
    /\ SF_vars(SetOpportunityNextAction)
    /\ SF_vars(FinalizeExecution)
    /\ WF_vars(Continue)

FairSpec == Spec /\ Fairness

\* A started execution that is retried settles: no sequence of crashes, failures
\* and changed facts leaves it in recovery, blocking its opportunity, for ever.
RetriesSettle ==
    \A a \in ActionIds :
        InRecovery(a) ~> actions[a].status \in {"EXECUTED", "CANCELLED"}
=============================================================================
