------------------------ MODULE RevenueActionsProofs ------------------------
(***************************************************************************)
(* Proofs about RevenueActions, for every value of its constants: type     *)
(* correctness and the safety invariants, through one inductive invariant, *)
(* then the evidence an execution is applied on, the fate of actions that  *)
(* own effects, and the refinement of the contract.                        *)
(***************************************************************************)
EXTENDS RevenueActions, TLAPS

EffectSteps == {"task", "activity", "nextAction", "finalize"}
ExecSteps == EffectSteps \cup {"refresh", "failed"}
ObserveSteps == {"observeApproved", "observeExecuted"}

\* What the running request still has to do agrees with the action it is about.
JobInv ==
    /\ job.step \in ExecSteps \cup ObserveSteps =>
          job.action \in ActionIds /\ job.opp = actions[job.action].opp
    /\ job.step \in {"insert", "crmNextAction"} => job.opp \in Opportunities
    /\ job.step = "crmNextAction" => job.task \in TaskIds
    /\ job.step \in EffectSteps => actions[job.action].status = "EXECUTING"
    /\ job.step \in {"refresh", "observeExecuted"} => actions[job.action].status = "EXECUTED"
    /\ job.step = "failed" => actions[job.action].status \in {"EXECUTING", "EXECUTED"}
    /\ job.step = "observeApproved" => actions[job.action].status = "APPROVED"
    /\ job.step \in ExecSteps => actions[job.action].approved
    /\ job.step = "observeApproved" => actions[job.action].approved
    /\ job.step = "task" => ~IsCommunication(job.action)
    /\ job.step = "nextAction" => actions[job.action].basis.type = "CREATE_TASK"
    /\ job.step \in {"activity", "nextAction", "finalize"} =>
          IF IsCommunication(job.action) THEN job.task = None
          ELSE job.task \in TaskIds /\ tasks[job.task].link = job.action

\* A free slot carries nothing, and a used action has an opportunity.
SlotInv ==
    /\ \A t \in TaskIds : tasks[t].status = "ABSENT" => tasks[t].link = None
    /\ \A v \in ActivityIds : activities[v].kind = "ABSENT" => activities[v].link = None
    /\ \A a \in ActionIds : IF actions[a].status = "ABSENT" THEN ~actions[a].approved
                             ELSE actions[a].opp \in Opportunities

\* An activity that reports an execution points at the task of that execution.
LinkInv ==
    \A v \in ActivityIds :
        LET a == activities[v].link
        IN  a # None =>
              IF IsCommunication(a) THEN activities[v].task = None
              ELSE /\ activities[v].task \in TaskIds
                   /\ tasks[activities[v].task].link = a

\* What keeps superseding and inserting, and failing after EXECUTED, safe.
SoleInv ==
    /\ job.step = "insert" =>
          \A a \in ActiveActions(job.opp) : actions[a].basis = Basis(job.opp, None)
    /\ job.step \in {"refresh", "failed"} =>
          \A a \in ActiveActions(job.opp) : a = job.action
    /\ job.step = "refresh" => <<"ACTION_EXECUTED", job.action>> \notin evidence
    /\ job.step = "failed" => <<"ACTION_EXECUTED", job.action>> \notin evidence

IInv ==
    /\ TypeOK /\ JobInv /\ SlotInv /\ LinkInv /\ SoleInv
    /\ OneActiveAction /\ EffectsOnceAndApproved /\ ExecutedHasEffects /\ EvidenceIsTrue

-----------------------------------------------------------------------------
(* Types of the records the writes put together.                           *)

\* The basis of an opportunity is a basis, whatever activities are left out.
LEMMA BasisType ==
    ASSUME TypeOK, NEW o \in Opportunities, NEW w \in ActionIds \cup {None}
    PROVE  Basis(o, w) \in Bases
<1>1. LatestActivity(o, w) \in SUBSET ActivityIds
  BY DEF LatestActivity
<1>2. NextBestActionType(o, LatestActivity(o, w)) \in ActionTypes
  BY DEF NextBestActionType, ActionTypes
<1>3. \A v \in ActivityIds : today - activities[v].day \in Int
  BY TableAssumption DEF TypeOK, ActivityRecords
<1>4. {today - activities[v].day : v \in LatestActivity(o, w)} \in SUBSET Int
  BY <1>1, <1>3
<1>5. opportunity[o] \in [stage : Stages, nextAction : Titles \cup {NoTitle},
                          contact : BOOLEAN, valued : BOOLEAN]
  BY DEF TypeOK
<1> QED BY <1>1, <1>2, <1>4, <1>5 DEF Basis, Bases

\* An empty action slot is a record like any other.
LEMMA NoActionType == NoAction \in ActionRecords
<1>1. NoBasis \in Bases
  BY TitleAssumption DEF NoBasis, Bases, ActionTypes
<1> QED BY <1>1 DEF NoAction, ActionRecords

\* So is an empty task slot.
LEMMA NoTaskType == NoTask \in TaskRecords
BY TitleAssumption DEF NoTask, TaskRecords, Keys

\* So is an empty activity slot.
LEMMA NoActivityType == NoActivity \in ActivityRecords
BY TableAssumption DEF NoActivity, ActivityRecords, ActivityKeys, NoKey

\* A write that changes the status of an action keeps the collection well typed.
LEMMA StatusType ==
    ASSUME actions \in [ActionIds -> ActionRecords], NEW a \in ActionIds,
           NEW s \in ActiveStatuses \cup {"EXECUTED", "REJECTED", "CANCELLED"}
    PROVE  [actions EXCEPT ![a].status = s] \in [ActionIds -> ActionRecords]
BY DEF ActionRecords

\* Putting together a record of a new status, and its fields, keeps it a record.
LEMMA ActionFieldsType ==
    ASSUME NEW r \in ActionRecords
    PROVE  /\ [r EXCEPT !.status = "APPROVED", !.approved = TRUE] \in ActionRecords
           /\ [r EXCEPT !.status = "EXECUTING", !.requested = TRUE] \in ActionRecords
           /\ \A t \in TaskIds \cup {None}, v \in ActivityIds \cup {None} :
                /\ [r EXCEPT !.status = "EXECUTED", !.task = t, !.activity = v] \in ActionRecords
                /\ [r EXCEPT !.status = "FAILED", !.task = t, !.activity = v] \in ActionRecords
BY DEF ActionRecords, ActiveStatuses

\* Replacing one record of the collection keeps the collection well typed.
LEMMA ReplaceType ==
    ASSUME actions \in [ActionIds -> ActionRecords], NEW a \in ActionIds,
           NEW r \in ActionRecords
    PROVE  [actions EXCEPT ![a] = r] \in [ActionIds -> ActionRecords]
OBVIOUS

\* The title, key and terms a task gets from an internal action's proposal.
LEMMA ProposalType ==
    ASSUME TypeOK, NEW a \in ActionIds, ~IsCommunication(a)
    PROVE  /\ Proposal(a).title \in Titles \cup {NoTitle}
           /\ Proposal(a).terms \in Terms
           /\ ProposedKey(a) \in Keys
<1>1. actions[a].basis \in Bases
  BY DEF TypeOK, ActionRecords
<1>2. /\ actions[a].basis.type \in ActionTypes \ {"FOLLOW_UP"}
      /\ actions[a].basis.nextAction \in Titles \cup {NoTitle}
  BY <1>1 DEF Bases, IsCommunication
<1>3. Proposal(a).title \in Titles \cup {NoTitle}
  BY <1>2, TitleAssumption DEF Proposal, ActionTypes
<1>4. Proposal(a).terms \in Terms
  BY <1>2, TitleAssumption DEF Proposal
<1> QED BY <1>3, <1>4 DEF ProposedKey, Keys

-----------------------------------------------------------------------------
(* Type correctness.                                                       *)

\* The empty collections and the opportunities the facts describe are well typed.
LEMMA TypeInit == Init => TypeOK
<1> SUFFICES ASSUME Init PROVE TypeOK
  OBVIOUS
<1>1. opportunity \in [Opportunities -> [stage : Stages, nextAction : Titles \cup {NoTitle},
                                         contact : BOOLEAN, valued : BOOLEAN]]
  BY InputAssumption DEF Init
<1>2. actions \in [ActionIds -> ActionRecords]
  BY NoActionType DEF Init
<1>3. tasks \in [TaskIds -> TaskRecords]
  BY NoTaskType DEF Init
<1>4. activities \in [ActivityIds -> ActivityRecords]
  BY NoActivityType DEF Init
<1>5. today \in 0 .. LastDay
  BY TableAssumption DEF Init
<1>6. Idle \in [step : Steps, opp : Opportunities \cup {None}, action : ActionIds \cup {None},
                task : TaskIds \cup {None}, key : ActivityKeys]
  BY DEF Idle, Steps, ActivityKeys, NoKey
<1> QED BY <1>1, <1>2, <1>3, <1>4, <1>5, <1>6 DEF Init, TypeOK

Jobs == [step : Steps, opp : Opportunities \cup {None}, action : ActionIds \cup {None},
         task : TaskIds \cup {None}, key : ActivityKeys]

\* The requests that start a job are well typed.
LEMMA JobType ==
    ASSUME NEW s \in Steps, NEW o \in Opportunities \cup {None}, NEW a \in ActionIds \cup {None}
    PROVE  /\ Job(s, o, a) \in Jobs
           /\ Idle \in Jobs
           /\ \A t \in TaskIds \cup {None}, k \in ActivityKeys : CrmJob(o, s, t, k) \in Jobs
BY DEF Job, CrmJob, Idle, Jobs, Steps, ActivityKeys, NoKey

\* Requests that move an action along its lifecycle.
LEMMA TypeLifecycle ==
    ASSUME TypeOK, NEW a \in ActionIds, Lifecycle(a)
    PROVE  TypeOK'
<1> USE DEF ActiveStatuses
<1>1. CASE SupersedeStale(a)
  BY <1>1, StatusType, JobType DEF SupersedeStale, SetStatus, TypeOK, crm, Jobs, Steps
<1>2. CASE PrepareRevenueAction(a)
  BY <1>2, StatusType, JobType DEF PrepareRevenueAction, SetStatus, TypeOK, crm, Jobs, Steps
<1>3. CASE ApproveRevenueAction(a)
  <2>1. actions' \in [ActionIds -> ActionRecords]
    BY <1>3, ActionFieldsType, ReplaceType DEF ApproveRevenueAction, TypeOK
  <2>2. job' \in Jobs
    BY <1>3, JobType DEF ApproveRevenueAction, TypeOK, ActionRecords, Steps
  <2> QED BY <1>3, <2>1, <2>2 DEF ApproveRevenueAction, TypeOK, crm, Jobs
<1>4. CASE RejectRevenueAction(a)
  BY <1>4, StatusType, JobType DEF RejectRevenueAction, SetStatus, TypeOK, crm, Jobs, Steps
<1>5. CASE CancelRevenueAction(a)
  BY <1>5, StatusType, JobType DEF CancelRevenueAction, SetStatus, TypeOK, crm, Jobs, Steps
<1> QED BY <1>1, <1>2, <1>3, <1>4, <1>5 DEF Lifecycle

\* Requests that begin, reconcile, give up or replay an execution.
LEMMA TypeExecution ==
    ASSUME TypeOK, NEW a \in ActionIds, Execution(a)
    PROVE  TypeOK'
<1> USE DEF ActiveStatuses
<1>1. CASE ReconcileExecution(a)
  <2>1. actions' \in [ActionIds -> ActionRecords]
    <3>1. PICK v \in LinkedActivities(a), t \in LinkedTasks(a) \cup {None} :
            actions' = [actions EXCEPT ![a] = [actions[a] EXCEPT !.status = "EXECUTED",
                                                  !.task = t, !.activity = v]]
      BY <1>1 DEF ReconcileExecution
    <3>2. v \in ActivityIds /\ t \in TaskIds \cup {None}
      BY DEF LinkedTasks, LinkedActivities
    <3>3. actions[a] \in ActionRecords
      BY DEF TypeOK
    <3>4. [actions[a] EXCEPT !.status = "EXECUTED", !.task = t, !.activity = v] \in ActionRecords
      BY <3>2, <3>3, ActionFieldsType
    <3> QED BY <3>1, <3>4, ReplaceType DEF TypeOK
  <2>2. job' \in Jobs
    BY <1>1, JobType DEF ReconcileExecution, TypeOK, ActionRecords, Steps
  <2> QED BY <1>1, <2>1, <2>2 DEF ReconcileExecution, TypeOK, crm, Jobs
<1>2. CASE ExecuteStale(a)
  BY <1>2, StatusType, JobType DEF ExecuteStale, SetStatus, TypeOK, crm, Jobs, Steps
<1>3. CASE StartExecution(a)
  <2>1. actions' \in [ActionIds -> ActionRecords]
    BY <1>3, ActionFieldsType, ReplaceType DEF StartExecution, TypeOK
  <2>2. job' \in Jobs
    BY <1>3, JobType DEF StartExecution, TypeOK, ActionRecords, Steps
  <2> QED BY <1>3, <2>1, <2>2 DEF StartExecution, TypeOK, crm, Jobs
<1>4. CASE ReplayExecuted(a)
  <2>1. job' \in Jobs
    BY <1>4, JobType DEF ReplayExecuted, TypeOK, ActionRecords, Steps
  <2> QED BY <1>4, <2>1 DEF ReplayExecuted, TypeOK, store, Jobs
<1> QED BY <1>1, <1>2, <1>3, <1>4 DEF Execution

\* The writes that materialize a recommendation.
LEMMA TypeMaterialize ==
    ASSUME TypeOK, JobInv,
           (\E o \in Opportunities : MaterializeRevenueAction(o)) \/ InsertRevenueAction
    PROVE  TypeOK'
<1>1. ASSUME NEW o \in Opportunities, MaterializeRevenueAction(o) PROVE TypeOK'
  <2> DEFINE r(a) == IF a \in Incompatible(o) THEN [actions[a] EXCEPT !.status = "CANCELLED"]
                     ELSE actions[a]
  <2>1. \A a \in ActionIds : r(a) \in ActionRecords
    BY DEF TypeOK, ActionRecords
  <2>2. actions' \in [ActionIds -> ActionRecords]
    <3>1. actions' = [a \in ActionIds |-> r(a)]
      BY <1>1 DEF MaterializeRevenueAction
    <3> HIDE DEF r
    <3> QED BY <2>1, <3>1
  <2>3. job' \in Jobs
    BY <1>1, JobType DEF MaterializeRevenueAction, Steps
  <2> QED BY <1>1, <2>2, <2>3 DEF MaterializeRevenueAction, TypeOK, crm, Jobs
<1>2. CASE InsertRevenueAction
  <2>1. job.opp \in Opportunities
    BY <1>2 DEF InsertRevenueAction, JobInv
  <2>2. Basis(job.opp, None) \in Bases
    BY <2>1, BasisType
  <2>3. [NoAction EXCEPT !.status = "RECOMMENDED", !.opp = job.opp,
                         !.basis = Basis(job.opp, None)] \in ActionRecords
    BY <2>1, <2>2, NoActionType DEF ActionRecords, ActiveStatuses
  <2>4. actions' \in [ActionIds -> ActionRecords]
    BY <1>2, <2>3, ReplaceType DEF InsertRevenueAction, TypeOK
  <2> QED BY <1>2, <2>4, JobType DEF InsertRevenueAction, TypeOK, crm, Jobs, Steps
<1> QED BY <1>1, <1>2

\* Going on with a job: the next step is a step, and its task is a task.
LEMMA JobStepType ==
    ASSUME job \in Jobs, NEW s \in Steps, NEW t \in TaskIds
    PROVE  /\ [job EXCEPT !.step = s] \in Jobs
           /\ [job EXCEPT !.step = s, !.task = t] \in Jobs
BY DEF Jobs

\* The task an execution creates or links is a task record.
LEMMA EffectTaskType ==
    ASSUME TypeOK, NEW a \in ActionIds, ~IsCommunication(a), NEW o \in Opportunities \cup {None},
           NEW r \in TaskRecords
    PROVE  /\ [r EXCEPT !.link = a, !.type = actions[a].basis.type,
                        !.key = ProposedKey(a)] \in TaskRecords
           /\ [NoTask EXCEPT !.status = "OPEN", !.opp = o, !.source = "revenue_action",
                             !.title = Proposal(a).title,
                             !.terms = Proposal(a).terms] \in TaskRecords
<1>1. actions[a].basis.type \in ActionTypes
  BY DEF TypeOK, ActionRecords, Bases
<1>2. [r EXCEPT !.link = a, !.type = actions[a].basis.type, !.key = ProposedKey(a)]
        \in TaskRecords
  BY <1>1, ProposalType DEF TaskRecords
<1>3. Proposal(a).title \in Titles \cup {NoTitle} /\ Proposal(a).terms \in Terms
  BY ProposalType
<1>4. [NoTask EXCEPT !.status = "OPEN", !.opp = o, !.source = "revenue_action",
                     !.title = Proposal(a).title, !.terms = Proposal(a).terms] \in TaskRecords
  BY <1>3, NoTaskType DEF TaskRecords, TaskStatuses
<1> QED BY <1>2, <1>4

\* The writes of an execution.
LEMMA TypeEffects ==
    ASSUME TypeOK, JobInv,
           \/ CreateTaskForRevenueAction \/ CreateActivityForRevenueAction
           \/ SetOpportunityNextAction \/ FinalizeExecution \/ FailExecution
           \/ EffectThrows
    PROVE  TypeOK'
<1> DEFINE a == job.action
<1>0. job \in Jobs
  BY DEF TypeOK, Jobs
<1>1. CASE CreateTaskForRevenueAction
  <2>1. a \in ActionIds /\ ~IsCommunication(a) /\ job.opp \in Opportunities \cup {None}
    BY <1>1 DEF CreateTaskForRevenueAction, JobInv, ExecSteps, EffectSteps, TypeOK
  <2>2. PICK t \in TaskIds :
          /\ tasks' =
               IF tasks[t].link = a THEN tasks
               ELSE [tasks EXCEPT ![t] =
                 [(IF tasks[t].status # "ABSENT" THEN tasks[t]
                   ELSE [NoTask EXCEPT !.status = "OPEN", !.opp = job.opp,
                                       !.source = "revenue_action",
                                       !.title = Proposal(a).title,
                                       !.terms = Proposal(a).terms])
                  EXCEPT !.link = a, !.type = actions[a].basis.type, !.key = ProposedKey(a)]]
          /\ job' = [job EXCEPT !.step = "activity", !.task = t]
    BY <1>1 DEF CreateTaskForRevenueAction
  <2>3. tasks[t] \in TaskRecords
    BY DEF TypeOK
  <2> DEFINE base == IF tasks[t].status # "ABSENT" THEN tasks[t]
                     ELSE [NoTask EXCEPT !.status = "OPEN", !.opp = job.opp,
                                         !.source = "revenue_action",
                                         !.title = Proposal(a).title,
                                         !.terms = Proposal(a).terms]
  <2>4. base \in TaskRecords
    BY <2>1, <2>3, EffectTaskType
  <2>5. [base EXCEPT !.link = a, !.type = actions[a].basis.type, !.key = ProposedKey(a)]
          \in TaskRecords
    <3> HIDE DEF base
    <3> QED BY <2>1, <2>4, EffectTaskType
  <2>6. tasks' \in [TaskIds -> TaskRecords]
    BY <2>2, <2>5 DEF TypeOK
  <2>7. job' \in Jobs
    BY <1>0, <2>2, JobStepType DEF Steps
  <2> QED BY <1>1, <2>6, <2>7 DEF CreateTaskForRevenueAction, TypeOK, Jobs
<1>2. CASE CreateActivityForRevenueAction
  <2>1. \A v \in ActivityIds :
          [kind |-> IF IsCommunication(a) THEN "MANUALLY_CONFIRMED" ELSE "TASK_EXECUTED",
           opp |-> job.opp, day |-> today, link |-> a, task |-> job.task, key |-> NoKey]
             \in ActivityRecords
    BY <1>0 DEF ActivityRecords, TypeOK, Jobs, ActivityKeys, NoKey
  <2>2. activities' \in [ActivityIds -> ActivityRecords]
    BY <1>2, <2>1 DEF CreateActivityForRevenueAction, TypeOK
  <2>3. job' \in Jobs
    BY <1>0, <1>2 DEF CreateActivityForRevenueAction, Jobs, Steps
  <2> QED BY <1>2, <2>2, <2>3 DEF CreateActivityForRevenueAction, TypeOK, Jobs
<1>3. CASE SetOpportunityNextAction
  <2>1. job.action \in ActionIds /\ ~IsCommunication(job.action)
    BY <1>3 DEF SetOpportunityNextAction, JobInv, IsCommunication, ExecSteps, EffectSteps
  <2>2. RecordedTitle \in Titles \cup {NoTitle}
    BY <1>3, <2>1 DEF SetOpportunityNextAction, RecordedTitle, JobInv, TypeOK, TaskRecords
  <2>3. opportunity' \in [Opportunities -> [stage : Stages, nextAction : Titles \cup {NoTitle},
                                            contact : BOOLEAN, valued : BOOLEAN]]
    BY <1>3, <2>2, ZenonT(40) DEF SetOpportunityNextAction, TypeOK
  <2>4. job' \in Jobs
    BY <1>0, <1>3 DEF SetOpportunityNextAction, Jobs, Steps
  <2> QED BY <1>3, <2>3, <2>4 DEF SetOpportunityNextAction, TypeOK, Jobs
<1>4. CASE FinalizeExecution
  <2>1. a \in ActionIds /\ job.task \in TaskIds \cup {None}
    BY <1>0, <1>4 DEF FinalizeExecution, JobInv, ExecSteps, EffectSteps, Jobs
  <2>2. PICK v \in LinkedActivities(a) :
          actions' = [actions EXCEPT ![a] = [actions[a] EXCEPT !.status = "EXECUTED",
                                                !.task = job.task, !.activity = v]]
    BY <1>4 DEF FinalizeExecution
  <2>3. actions[a] \in ActionRecords /\ v \in ActivityIds
    BY <2>1 DEF TypeOK, LinkedActivities
  <2>4. [actions[a] EXCEPT !.status = "EXECUTED", !.task = job.task, !.activity = v]
          \in ActionRecords
    BY <2>1, <2>3, ActionFieldsType
  <2>5. actions' \in [ActionIds -> ActionRecords]
    BY <2>1, <2>2, <2>4, ReplaceType DEF TypeOK
  <2>6. job' \in Jobs
    BY <1>0, <1>4 DEF FinalizeExecution, Jobs, Steps
  <2> QED BY <1>4, <2>5, <2>6 DEF FinalizeExecution, TypeOK, Jobs, crm
<1>5. CASE FailExecution
  <2>1. a \in ActionIds
    BY <1>5 DEF FailExecution, JobInv, ExecSteps
  <2>2. actions[a] \in ActionRecords
    BY <2>1 DEF TypeOK
  <2>3. [actions[a] EXCEPT !.status = "FAILED", !.task = None, !.activity = None]
          \in ActionRecords
    BY <2>2, ActionFieldsType
  <2>4. actions' \in [ActionIds -> ActionRecords]
    BY <1>5, <2>1, <2>3, ReplaceType DEF FailExecution, TypeOK
  <2> QED BY <1>5, <2>4, JobType DEF FailExecution, TypeOK, Jobs, crm, Steps
<1>6. CASE EffectThrows
  <2>1. job' \in Jobs
    BY <1>0, <1>6 DEF EffectThrows, Jobs, Steps
  <2> QED BY <1>6, <2>1 DEF EffectThrows, TypeOK, Jobs, store
<1> QED BY <1>1, <1>2, <1>3, <1>4, <1>5, <1>6

\* The CRM requests and the writes they go on with.
LEMMA TypeCrm ==
    ASSUME TypeOK, JobInv, Crm \/ RecordNextAction \/ RecordActivity
    PROVE  TypeOK'
<1> DEFINE Opps == [stage : Stages, nextAction : Titles \cup {NoTitle},
                    contact : BOOLEAN, valued : BOOLEAN]
<1>0. job \in Jobs
  BY DEF TypeOK, Jobs
<1>1. ASSUME NEW o \in Opportunities, NEW s \in Stages, UpdateOpportunityStage(o, s)
      PROVE TypeOK'
  <2>1. StageTitle[s] \in Titles
    BY TitleAssumption
  <2>2. [opportunity[o] EXCEPT !.stage = s, !.nextAction = StageTitle[s]] \in Opps
    BY <2>1 DEF TypeOK
  <2>3. opportunity' \in [Opportunities -> Opps]
    BY <1>1, <2>2 DEF UpdateOpportunityStage, TypeOK
  <2>4. job' \in Jobs
    BY <1>1, JobType DEF UpdateOpportunityStage, Steps, ActivityKeys, NoKey
  <2> QED BY <1>1, <2>3, <2>4 DEF UpdateOpportunityStage, CrmRequest, TypeOK, Jobs
<1>2. ASSUME NEW o \in Opportunities, AddContact(o) PROVE TypeOK'
  <2>1. opportunity' \in [Opportunities -> Opps]
    BY <1>2 DEF AddContact, TypeOK
  <2>2. job' \in Jobs
    BY <1>2, JobType DEF AddContact, Steps, ActivityKeys
  <2> QED BY <1>2, <2>1, <2>2 DEF AddContact, CrmRequest, TypeOK, Jobs
<1>3. ASSUME NEW o \in Opportunities, SetValue(o) PROVE TypeOK'
  <2>1. opportunity' \in [Opportunities -> Opps]
    BY <1>3 DEF SetValue, TypeOK
  <2>2. job' \in Jobs
    BY <1>3, JobType DEF SetValue, Steps, ActivityKeys
  <2> QED BY <1>3, <2>1, <2>2 DEF SetValue, CrmRequest, TypeOK, Jobs
<1>4. ASSUME NEW o \in Opportunities, NEW r \in TaskRequests, CreateNextActionTask(o, r)
      PROVE TypeOK'
  <2>1. r.type \in ActionTypes /\ r.title \in Titles /\ r.terms \in Terms
    BY InputAssumption
  <2>2. TitleKey[r.title] \in Keys /\ <<"task", r.type, TitleKey[r.title]>> \in ActivityKeys
    BY <2>1 DEF Keys, ActivityKeys
  <2>3. [NoTask EXCEPT !.status = "OPEN", !.opp = o, !.source = "deal_intelligence",
                       !.title = r.title, !.terms = r.terms,
                       !.type = r.type, !.key = TitleKey[r.title]] \in TaskRecords
    BY <2>1, <2>2, NoTaskType DEF TaskRecords, TaskStatuses
  <2>4. tasks' \in [TaskIds -> TaskRecords]
    BY <1>4, <2>3 DEF CreateNextActionTask, TypeOK
  <2>5. job' \in Jobs
    BY <1>4, <2>2, JobType DEF CreateNextActionTask, Steps
  <2> QED BY <1>4, <2>4, <2>5 DEF CreateNextActionTask, CrmRequest, TypeOK, Jobs
<1>5. ASSUME NEW o \in Opportunities, NEW r \in TaskRequests, PostTask(o, r) PROVE TypeOK'
  <2>1. r.title \in Titles /\ r.terms \in Terms
    BY InputAssumption
  <2>2. [NoTask EXCEPT !.status = "OPEN", !.opp = o, !.source = "manual",
                       !.title = r.title, !.terms = r.terms] \in TaskRecords
    BY <2>1, NoTaskType DEF TaskRecords, TaskStatuses
  <2>3. tasks' \in [TaskIds -> TaskRecords]
    BY <1>5, <2>2 DEF PostTask, TypeOK
  <2>4. job' \in Jobs
    BY <1>5, JobType DEF PostTask, Steps, ActivityKeys, NoKey
  <2> QED BY <1>5, <2>3, <2>4 DEF PostTask, CrmRequest, TypeOK, Jobs
<1>6. ASSUME NEW t \in TaskIds, NEW status \in TaskStatuses, NEW title \in Titles,
             NEW terms \in Terms, PatchTask(t, status, title, terms)
      PROVE TypeOK'
  <2>1. tasks[t] \in TaskRecords
    BY DEF TypeOK
  <2>2. [tasks[t] EXCEPT !.status = status, !.title = title, !.terms = terms] \in TaskRecords
    BY <2>1 DEF TaskRecords
  <2>3. tasks' \in [TaskIds -> TaskRecords]
    BY <1>6, <2>2 DEF PatchTask, TypeOK
  <2>4. tasks[t].opp \in Opportunities \cup {None}
    BY <2>1 DEF TaskRecords
  <2>5. job' \in Jobs
    BY <1>6, <2>4, JobType DEF PatchTask, Steps, ActivityKeys, NoKey
  <2> QED BY <1>6, <2>3, <2>5 DEF PatchTask, TypeOK, Jobs
<1>7. CASE NextDay
  BY <1>7, TableAssumption DEF NextDay, TypeOK, store
<1>8. CASE RecordNextAction
  <2>1. job.opp \in Opportunities /\ job.task \in TaskIds
    BY <1>8 DEF RecordNextAction, JobInv
  <2>2. tasks[job.task].title \in Titles \cup {NoTitle}
    BY <2>1 DEF TypeOK, TaskRecords
  <2>3. opportunity' \in [Opportunities -> Opps]
    BY <1>8, <2>1, <2>2 DEF RecordNextAction, TypeOK
  <2>4. job' \in Jobs
    BY <1>0, <1>8 DEF RecordNextAction, Jobs, Steps
  <2> QED BY <1>8, <2>3, <2>4 DEF RecordNextAction, TypeOK, Jobs
<1>9. CASE RecordActivity
  <2>1. [kind |-> "CRM", opp |-> job.opp, day |-> today, link |-> None,
         task |-> job.task, key |-> job.key] \in ActivityRecords
    BY <1>0 DEF ActivityRecords, TypeOK, Jobs
  <2>2. activities' \in [ActivityIds -> ActivityRecords]
    BY <1>9, <2>1 DEF RecordActivity, TypeOK
  <2> QED BY <1>9, <2>2, JobType DEF RecordActivity, TypeOK, Jobs, Steps
<1> QED BY <1>1, <1>2, <1>3, <1>4, <1>5, <1>6, <1>7, <1>8, <1>9 DEF Crm

\* Every step keeps the types.
LEMMA TypeNext ==
    ASSUME TypeOK, JobInv, [Next]_vars
    PROVE  TypeOK'
<1>1. ASSUME NEW a \in ActionIds, LinkCase(a) PROVE TypeOK'
  BY <1>1 DEF LinkCase, TypeOK, store
<1>2. CASE ObserveRevenueAction
  <2>1. job.action \in ActionIds
    BY <1>2 DEF ObserveRevenueAction, JobInv, ExecSteps, ObserveSteps
  <2>2. PICK e \in {"ACTION_APPROVED", "ACTION_EXECUTED"} :
          evidence' \subseteq evidence \cup {<<e, job.action>>}
    BY <1>2 DEF ObserveRevenueAction
  <2>3. <<e, job.action>> \in {"ACTION_APPROVED", "ACTION_EXECUTED"} \X ActionIds
    BY <2>1
  <2>4. evidence' \subseteq {"ACTION_APPROVED", "ACTION_EXECUTED"} \X ActionIds
    BY <2>2, <2>3 DEF TypeOK
  <2> QED BY <1>2, <2>4, JobType DEF ObserveRevenueAction, TypeOK, Jobs, Steps, crm
<1>3. CASE Abort
  BY <1>3, JobType DEF Abort, TypeOK, Jobs, Steps, store
<1>4. CASE UNCHANGED vars
  BY <1>4 DEF vars, TypeOK
<1> QED
  BY <1>1, <1>2, <1>3, <1>4, TypeLifecycle, TypeExecution, TypeMaterialize, TypeEffects, TypeCrm
  DEF Next, Continue

-----------------------------------------------------------------------------
(* The safety invariants.  First, what a write to one collection leaves be.*)

\* A step that rewrites the action records keeps ids, bases, approvals and every
\* action that owns effects among those that may own them.
KeepsActions ==
    \A b \in ActionIds :
        /\ actions[b].status # "ABSENT" =>
              /\ actions'[b].status # "ABSENT"
              /\ actions'[b].opp = actions[b].opp
              /\ actions'[b].basis = actions[b].basis
              /\ actions[b].approved => actions'[b].approved
        /\ IF actions'[b].status = "ABSENT" THEN actions'[b] = actions[b]
           ELSE actions'[b].opp \in Opportunities
        /\ HasEffects(b) =>
              actions'[b].status \in {"EXECUTING", "FAILED", "EXECUTED", "CANCELLED"}

\* A write of the action records that keeps ids, bases and approvals disturbs
\* neither the links of the effects nor their approval.
LEMMA LinksKept ==
    ASSUME IInv, UNCHANGED <<tasks, activities>>, KeepsActions
    PROVE  SlotInv' /\ LinkInv' /\ EffectsOnceAndApproved'
<1>1. SlotInv'
  BY DEF IInv, SlotInv, KeepsActions
<1>2. \A b \in ActionIds : HasEffects(b) => actions[b].status # "ABSENT" /\ actions[b].approved
  BY DEF IInv, EffectsOnceAndApproved
<1>3. \A b \in ActionIds : HasEffects(b)' <=> HasEffects(b)
  BY DEF HasEffects, LinkedTasks, LinkedActivities
<1>4. EffectsOnceAndApproved'
  <2>1. \A b \in ActionIds : HasEffects(b)' =>
          /\ actions'[b].approved
          /\ actions'[b].status \in {"EXECUTING", "FAILED", "EXECUTED", "CANCELLED"}
    BY <1>2, <1>3 DEF KeepsActions
  <2> QED BY <2>1 DEF IInv, EffectsOnceAndApproved
<1>5. LinkInv'
  <2> SUFFICES ASSUME NEW v \in ActivityIds, activities[v].link # None
               PROVE  IF actions'[activities[v].link].basis.type = "FOLLOW_UP"
                      THEN activities[v].task = None
                      ELSE /\ activities[v].task \in TaskIds
                           /\ tasks[activities[v].task].link = activities[v].link
    BY DEF LinkInv, IsCommunication
  <2>1. activities[v].link \in ActionIds
    BY DEF IInv, TypeOK, ActivityRecords
  <2>2. HasEffects(activities[v].link)
    BY DEF HasEffects, LinkedActivities
  <2>3. actions'[activities[v].link].basis = actions[activities[v].link].basis
    BY <1>2, <2>1, <2>2 DEF KeepsActions
  <2> QED BY <2>3 DEF IInv, LinkInv, IsCommunication
<1> QED BY <1>1, <1>4, <1>5

\* Actions that stay executed keep naming their effects, and evidence stays true.
LEMMA ExecutedKept ==
    ASSUME IInv, UNCHANGED <<tasks, activities, evidence>>,
           \A b \in ActionIds : actions[b].approved => actions'[b].approved,
           \A b \in ActionIds : actions[b].status = "EXECUTED" \/ actions'[b].status = "EXECUTED"
                                  => actions'[b] = actions[b]
    PROVE  ExecutedHasEffects' /\ EvidenceIsTrue'
<1>1. ExecutedHasEffects'
  BY DEF IInv, ExecutedHasEffects, IsCommunication
<1>2. EvidenceIsTrue'
  BY DEF IInv, EvidenceIsTrue
<1> QED BY <1>1, <1>2

\* No step but an insertion makes an action active.
LEMMA OneActiveKept ==
    ASSUME IInv,
           \A b \in ActionIds : actions'[b].status \in ActiveStatuses =>
              actions[b].status \in ActiveStatuses /\ actions'[b].opp = actions[b].opp
    PROVE  OneActiveAction'
BY DEF IInv, OneActiveAction

\* An idle server has nothing left to do wrong.
LEMMA IdleJob ==
    ASSUME job' = Idle
    PROVE  JobInv' /\ SoleInv'
BY DEF Idle, JobInv, SoleInv, ExecSteps, EffectSteps, ObserveSteps

\* What a move of action a along its lifecycle does to the action records.
StatusMove(a, to) ==
    /\ \A b \in ActionIds : b # a => actions'[b] = actions[b]
    /\ actions'[a].opp = actions[a].opp
    /\ actions'[a].basis = actions[a].basis
    /\ actions[a].approved => actions'[a].approved
    /\ actions'[a].status = to

\* Recording a status is such a move.
LEMMA SetStatusMove ==
    ASSUME TypeOK, NEW a \in ActionIds, NEW to, NEW j, SetStatus(a, to, j)
    PROVE  StatusMove(a, to)
<1>1. actions[a] \in ActionRecords /\ actions \in [ActionIds -> ActionRecords]
  BY DEF TypeOK
<1> QED BY <1>1 DEF SetStatus, StatusMove, ActionRecords

\* A move between active statuses, or out of them, that owns nothing or is legal
\* for an owner of effects, keeps everything but what the job promises.
LEMMA MoveKept ==
    ASSUME IInv, NEW a \in ActionIds, NEW to, StatusMove(a, to),
           UNCHANGED <<tasks, activities, evidence>>,
           actions[a].status \in ActiveStatuses,
           to \in {"PREPARED", "APPROVED", "EXECUTING", "REJECTED", "CANCELLED"},
           HasEffects(a) => to \in {"EXECUTING", "CANCELLED"}
    PROVE  /\ SlotInv' /\ LinkInv' /\ EffectsOnceAndApproved'
           /\ ExecutedHasEffects' /\ EvidenceIsTrue' /\ OneActiveAction'
<1>1. \A b \in ActionIds : HasEffects(b) =>
          actions[b].status \in {"EXECUTING", "FAILED", "EXECUTED", "CANCELLED"}
  BY DEF IInv, EffectsOnceAndApproved
<1>2. KeepsActions
  BY <1>1 DEF KeepsActions, StatusMove, IInv, SlotInv, ActiveStatuses
<1>3. SlotInv' /\ LinkInv' /\ EffectsOnceAndApproved'
  BY <1>2, LinksKept
<1>4. ExecutedHasEffects' /\ EvidenceIsTrue'
  <2>1. \A b \in ActionIds : actions[b].approved => actions'[b].approved
    BY DEF StatusMove
  <2>2. \A b \in ActionIds : actions[b].status = "EXECUTED" \/ actions'[b].status = "EXECUTED"
                               => actions'[b] = actions[b]
    BY DEF StatusMove, ActiveStatuses
  <2> QED BY <2>1, <2>2, ExecutedKept
<1>5. OneActiveAction'
  <2>1. \A b \in ActionIds : actions'[b].status \in ActiveStatuses =>
           actions[b].status \in ActiveStatuses /\ actions'[b].opp = actions[b].opp
    BY DEF StatusMove
  <2> QED BY <2>1, OneActiveKept
<1> QED BY <1>3, <1>4, <1>5

\* Prepare, approve, reject, cancel and supersede.
LEMMA SafeLifecycle ==
    ASSUME IInv, NEW a \in ActionIds, Lifecycle(a)
    PROVE  IInv'
<1>0. TypeOK /\ TypeOK'
  BY TypeLifecycle DEF IInv
<1>1. HasEffects(a) => actions[a].status \in {"EXECUTING", "FAILED", "EXECUTED", "CANCELLED"}
  BY DEF IInv, EffectsOnceAndApproved
<1> USE DEF ActiveStatuses
<1>2. CASE SupersedeStale(a)
  <2>1. StatusMove(a, "CANCELLED")
    BY <1>0, <1>2, SetStatusMove DEF SupersedeStale
  <2> QED BY <1>0, <1>2, <2>1, MoveKept, IdleJob DEF SupersedeStale, SetStatus, IInv, crm
<1>3. CASE PrepareRevenueAction(a)
  <2>1. StatusMove(a, "PREPARED")
    BY <1>0, <1>3, SetStatusMove DEF PrepareRevenueAction
  <2> QED BY <1>0, <1>1, <1>3, <2>1, MoveKept, IdleJob
          DEF PrepareRevenueAction, SetStatus, IInv, crm
<1>4. CASE ApproveRevenueAction(a)
  <2>1. actions[a] \in ActionRecords /\ actions \in [ActionIds -> ActionRecords]
    BY <1>0 DEF TypeOK
  <2>2. StatusMove(a, "APPROVED") /\ actions'[a].approved
    BY <1>4, <2>1 DEF ApproveRevenueAction, StatusMove, ActionRecords
  <2>3. /\ SlotInv' /\ LinkInv' /\ EffectsOnceAndApproved'
        /\ ExecutedHasEffects' /\ EvidenceIsTrue' /\ OneActiveAction'
    BY <1>1, <1>4, <2>2, MoveKept DEF ApproveRevenueAction, IInv, crm
  <2>4. job' = [step |-> "observeApproved", opp |-> actions[a].opp, action |-> a,
                task |-> None, key |-> <<>>]
    BY <1>4 DEF ApproveRevenueAction, Job, Idle
  <2>5. JobInv' /\ SoleInv'
    BY <2>2, <2>4
    DEF JobInv, SoleInv, StatusMove, ExecSteps, EffectSteps, ObserveSteps
  <2> QED BY <1>0, <2>3, <2>5 DEF IInv
<1>5. CASE RejectRevenueAction(a)
  <2>1. StatusMove(a, "REJECTED")
    BY <1>0, <1>5, SetStatusMove DEF RejectRevenueAction
  <2> QED BY <1>0, <1>1, <1>5, <2>1, MoveKept, IdleJob
          DEF RejectRevenueAction, SetStatus, IInv, crm
<1>6. CASE CancelRevenueAction(a)
  <2>1. StatusMove(a, "CANCELLED")
    BY <1>0, <1>6, SetStatusMove DEF CancelRevenueAction
  <2> QED BY <1>0, <1>6, <2>1, MoveKept, IdleJob DEF CancelRevenueAction, SetStatus, IInv, crm
<1> QED BY <1>2, <1>3, <1>4, <1>5, <1>6 DEF Lifecycle

\* An action that ends executed names the effects that carry its id.
LEMMA FinishKept ==
    ASSUME IInv, NEW a \in ActionIds, NEW v \in LinkedActivities(a), NEW t,
           UNCHANGED <<tasks, activities, evidence>>,
           actions' = [actions EXCEPT ![a] = [actions[a] EXCEPT !.status = "EXECUTED",
                                                 !.task = t, !.activity = v]],
           actions[a].status \in {"EXECUTING", "FAILED"},
           IF IsCommunication(a) THEN t = None ELSE t \in LinkedTasks(a)
    PROVE  /\ SlotInv' /\ LinkInv' /\ EffectsOnceAndApproved'
           /\ ExecutedHasEffects' /\ EvidenceIsTrue' /\ OneActiveAction'
           /\ StatusMove(a, "EXECUTED")
<1>1. actions[a] \in ActionRecords /\ actions \in [ActionIds -> ActionRecords]
  BY DEF IInv, TypeOK
<1>2. /\ StatusMove(a, "EXECUTED")
      /\ actions'[a].task = t /\ actions'[a].activity = v
  BY <1>1 DEF StatusMove, ActionRecords
<1>3. \A b \in ActionIds : HasEffects(b) =>
          actions[b].status \in {"EXECUTING", "FAILED", "EXECUTED", "CANCELLED"}
  BY DEF IInv, EffectsOnceAndApproved
<1>4. SlotInv' /\ LinkInv' /\ EffectsOnceAndApproved'
  <2>1. KeepsActions
    BY <1>2, <1>3 DEF KeepsActions, StatusMove, IInv, SlotInv
  <2> QED BY <2>1, LinksKept
<1>5. v \in ActivityIds /\ activities[v].link = a /\ a # None
  BY TableAssumption DEF LinkedActivities, ActionIds, None
<1>6. activities[v].task = t
  <2>1. CASE IsCommunication(a)
    BY <1>5, <2>1 DEF IInv, LinkInv
  <2>2. CASE ~IsCommunication(a)
    BY <1>5, <2>2 DEF IInv, LinkInv, EffectsOnceAndApproved, LinkedTasks
  <2> QED BY <2>1, <2>2
<1>7. ExecutedHasEffects'
  <2>1. actions'[a].basis = actions[a].basis
    BY <1>2 DEF StatusMove
  <2>2. v # None
    BY <1>5, TableAssumption DEF ActivityIds, None
  <2>3. CASE IsCommunication(a)
    BY <1>2, <1>5, <1>6, <2>1, <2>2, <2>3
    DEF IInv, ExecutedHasEffects, StatusMove, IsCommunication
  <2>4. CASE ~IsCommunication(a)
    <3>1. t # None /\ tasks[t].link = a
      BY <2>4, TableAssumption DEF LinkedTasks, TaskIds, None
    <3> QED BY <1>2, <1>5, <1>6, <2>1, <2>2, <2>4, <3>1
            DEF IInv, ExecutedHasEffects, StatusMove, IsCommunication
  <2> QED BY <2>3, <2>4
<1>8. EvidenceIsTrue'
  BY <1>2 DEF IInv, EvidenceIsTrue, StatusMove
<1>9. OneActiveAction'
  BY <1>2, OneActiveKept DEF StatusMove, ActiveStatuses
<1> QED BY <1>2, <1>4, <1>7, <1>8, <1>9

\* Start, reconcile, give up and replay an execution.
LEMMA SafeExecution ==
    ASSUME IInv, NEW a \in ActionIds, Execution(a)
    PROVE  IInv'
<1>0. TypeOK /\ TypeOK'
  BY TypeExecution DEF IInv
<1>1. CASE ReconcileExecution(a)
  <2>1. PICK v \in LinkedActivities(a), t \in LinkedTasks(a) \cup {None} :
          /\ t = None <=> LinkedTasks(a) = {}
          /\ actions' = [actions EXCEPT ![a] = [actions[a] EXCEPT !.status = "EXECUTED",
                                                !.task = t, !.activity = v]]
    BY <1>1 DEF ReconcileExecution
  <2>2. IF IsCommunication(a) THEN t = None ELSE t \in LinkedTasks(a)
    BY <1>1, <2>1 DEF ReconcileExecution, Executable, EffectConflict, EffectsComplete
  <2>3. /\ SlotInv' /\ LinkInv' /\ EffectsOnceAndApproved'
        /\ ExecutedHasEffects' /\ EvidenceIsTrue' /\ OneActiveAction'
        /\ StatusMove(a, "EXECUTED")
    BY <1>1, <2>1, <2>2, FinishKept DEF ReconcileExecution, InRecovery, crm
  <2>4. job' = [step |-> "observeExecuted", opp |-> actions[a].opp, action |-> a,
                task |-> None, key |-> <<>>]
    BY <1>1 DEF ReconcileExecution, Job, Idle
  <2>5. JobInv' /\ SoleInv'
    BY <2>3, <2>4 DEF JobInv, SoleInv, StatusMove, ExecSteps, EffectSteps, ObserveSteps
  <2> QED BY <1>0, <2>3, <2>5 DEF IInv
<1>2. CASE ExecuteStale(a)
  <2>1. StatusMove(a, "CANCELLED")
    BY <1>0, <1>2, SetStatusMove DEF ExecuteStale
  <2>2. actions[a].status \in ActiveStatuses
    BY <1>2 DEF ExecuteStale, MayStart, Executable, InRecovery, ActiveStatuses
  <2> QED BY <1>0, <1>2, <2>1, <2>2, MoveKept, IdleJob DEF ExecuteStale, SetStatus, IInv, crm
<1>3. CASE StartExecution(a)
  <2>1. actions[a] \in ActionRecords /\ actions \in [ActionIds -> ActionRecords]
    BY <1>0 DEF TypeOK
  <2>2. /\ StatusMove(a, "EXECUTING") /\ actions'[a].approved
        /\ actions[a].status \in ActiveStatuses
    BY <1>3, <2>1 DEF StartExecution, MayStart, Executable, InRecovery, StatusMove,
                      ActionRecords, ActiveStatuses
  <2>3. /\ SlotInv' /\ LinkInv' /\ EffectsOnceAndApproved'
        /\ ExecutedHasEffects' /\ EvidenceIsTrue' /\ OneActiveAction'
    BY <1>3, <2>2, MoveKept DEF StartExecution, crm
  <2>4. job' = [step |-> IF IsCommunication(a) THEN "activity" ELSE "task",
                opp |-> actions[a].opp, action |-> a, task |-> None, key |-> <<>>]
    BY <1>3 DEF StartExecution, Job, Idle
  <2>5. JobInv' /\ SoleInv'
    <3>1. actions'[a].opp = actions[a].opp /\ actions'[a].status = "EXECUTING"
          /\ actions'[a].basis = actions[a].basis
      BY <2>2 DEF StatusMove
    <3>2. CASE IsCommunication(a)
      BY <2>2, <2>4, <3>1, <3>2
      DEF JobInv, SoleInv, ExecSteps, EffectSteps, ObserveSteps, IsCommunication
    <3>3. CASE ~IsCommunication(a)
      BY <2>2, <2>4, <3>1, <3>3
      DEF JobInv, SoleInv, ExecSteps, EffectSteps, ObserveSteps, IsCommunication
    <3> QED BY <3>2, <3>3
  <2> QED BY <1>0, <2>3, <2>5 DEF IInv
<1>4. CASE ReplayExecuted(a)
  <2>1. job' = [step |-> "observeExecuted", opp |-> actions[a].opp, action |-> a,
                task |-> None, key |-> <<>>]
    BY <1>4 DEF ReplayExecuted, Job, Idle
  <2>2. JobInv' /\ SoleInv'
    BY <1>4, <2>1
    DEF ReplayExecuted, store, JobInv, SoleInv, ExecSteps, EffectSteps, ObserveSteps
  <2>3. /\ SlotInv' /\ LinkInv' /\ EffectsOnceAndApproved'
        /\ ExecutedHasEffects' /\ EvidenceIsTrue' /\ OneActiveAction'
    BY <1>4 DEF ReplayExecuted, store, IInv, SlotInv, LinkInv, EffectsOnceAndApproved, HasEffects,
                LinkedTasks, LinkedActivities, ExecutedHasEffects, EvidenceIsTrue,
                OneActiveAction, IsCommunication
  <2> QED BY <1>0, <2>2, <2>3 DEF IInv
<1> QED BY <1>1, <1>2, <1>3, <1>4 DEF Execution

\* Superseding the old recommendations and inserting the new one.
LEMMA SafeMaterialize ==
    ASSUME IInv, (\E o \in Opportunities : MaterializeRevenueAction(o)) \/ InsertRevenueAction
    PROVE  IInv'
<1>0. TypeOK /\ TypeOK'
  BY TypeMaterialize DEF IInv
<1>a. actions \in [ActionIds -> ActionRecords]
  BY <1>0 DEF TypeOK
<1>b. \A b \in ActionIds : HasEffects(b) =>
          actions[b].status \in {"EXECUTING", "FAILED", "EXECUTED", "CANCELLED"}
  BY DEF IInv, EffectsOnceAndApproved
<1>1. ASSUME NEW o \in Opportunities, MaterializeRevenueAction(o) PROVE IInv'
  <2>1. \A b \in ActionIds :
          /\ b \in Incompatible(o) =>
                /\ actions'[b].status = "CANCELLED"
                /\ actions'[b].opp = actions[b].opp
                /\ actions'[b].basis = actions[b].basis
                /\ actions'[b].approved = actions[b].approved
          /\ b \notin Incompatible(o) => actions'[b] = actions[b]
    BY <1>1, <1>a DEF MaterializeRevenueAction, ActionRecords
  <2>2. \A b \in Incompatible(o) : actions[b].status \in ActiveStatuses
    BY DEF Incompatible, ActiveActions
  <2>3. KeepsActions
    BY <1>b, <2>1, <2>2 DEF KeepsActions, IInv, SlotInv, ActiveStatuses
  <2>4. ExecutedHasEffects' /\ EvidenceIsTrue'
    <3>1. \A b \in ActionIds : actions[b].approved => actions'[b].approved
      BY <2>1
    <3>2. \A b \in ActionIds : actions[b].status = "EXECUTED" \/ actions'[b].status = "EXECUTED"
                                 => actions'[b] = actions[b]
      BY <2>1, <2>2 DEF ActiveStatuses
    <3> QED BY <1>1, <3>1, <3>2, ExecutedKept DEF MaterializeRevenueAction, crm
  <2>5. OneActiveAction'
    BY <2>1, OneActiveKept DEF ActiveStatuses
  <2>6. job' = [step |-> "insert", opp |-> o, action |-> None, task |-> None, key |-> <<>>]
    BY <1>1 DEF MaterializeRevenueAction, Job, Idle
  <2>7. Basis(o, None)' = Basis(o, None)
    BY <1>1 DEF MaterializeRevenueAction, crm, Basis, LatestActivity, NextBestActionType, IsQuiet
  <2>8. \A b \in ActionIds :
          actions'[b].opp = o /\ actions'[b].status \in ActiveStatuses
             => actions'[b].basis = Basis(o, None)
    BY <2>1 DEF Incompatible, ActiveActions, ActiveStatuses
  <2>9. JobInv' /\ SoleInv'
    BY <2>6, <2>7, <2>8
    DEF JobInv, SoleInv, ExecSteps, EffectSteps, ObserveSteps, ActiveActions
  <2> QED BY <1>0, <1>1, <2>3, <2>4, <2>5, <2>9, LinksKept
          DEF MaterializeRevenueAction, crm, IInv
<1>2. CASE InsertRevenueAction
  <2>1. JobInv' /\ SoleInv'
    BY <1>2, IdleJob DEF InsertRevenueAction
  <2>2. CASE Duplicate(job.opp)
    <3>1. /\ SlotInv' /\ LinkInv' /\ EffectsOnceAndApproved'
          /\ ExecutedHasEffects' /\ EvidenceIsTrue' /\ OneActiveAction'
      BY <1>2, <2>2 DEF InsertRevenueAction, crm, IInv, SlotInv, LinkInv, EffectsOnceAndApproved,
                        HasEffects, LinkedTasks, LinkedActivities, ExecutedHasEffects,
                        EvidenceIsTrue, OneActiveAction, IsCommunication
    <3> QED BY <1>0, <2>1, <3>1 DEF IInv
  <2>3. CASE ~Duplicate(job.opp)
    <3>1. PICK a \in ActionIds :
            /\ IsNext(a, UsedActions)
            /\ actions' = [actions EXCEPT ![a] =
                 [NoAction EXCEPT !.status = "RECOMMENDED", !.opp = job.opp,
                                  !.basis = Basis(job.opp, None)]]
      BY <1>2, <2>3 DEF InsertRevenueAction
    <3>2. actions[a].status = "ABSENT"
      BY <3>1 DEF IsNext, UsedActions
    <3>3. /\ actions'[a].status = "RECOMMENDED"
          /\ actions'[a].opp = job.opp
          /\ \A b \in ActionIds : b # a => actions'[b] = actions[b]
      BY <1>a, <3>1 DEF NoAction
    <3>4. job.opp \in Opportunities
      BY <1>2 DEF InsertRevenueAction, IInv, JobInv
    <3>5. ~HasEffects(a) /\ ~actions[a].approved
      BY <1>b, <3>2 DEF IInv, SlotInv
    <3>6. KeepsActions
      BY <1>b, <3>2, <3>3, <3>4, <3>5 DEF KeepsActions, IInv, SlotInv
    <3>7. ExecutedHasEffects' /\ EvidenceIsTrue'
      <4>1. \A b \in ActionIds : actions[b].approved => actions'[b].approved
        BY <3>3, <3>5
      <4>2. \A b \in ActionIds : actions[b].status = "EXECUTED" \/ actions'[b].status = "EXECUTED"
                                   => actions'[b] = actions[b]
        BY <3>2, <3>3
      <4> QED BY <1>2, <4>1, <4>2, ExecutedKept DEF InsertRevenueAction, crm
    <3>8. \A b \in ActionIds :
            ~(actions[b].opp = job.opp /\ actions[b].status \in ActiveStatuses)
      BY <1>2, <2>3 DEF InsertRevenueAction, IInv, SoleInv, Duplicate, ActiveActions
    <3>9. OneActiveAction'
      BY <3>3, <3>8 DEF IInv, OneActiveAction
    <3> QED BY <1>0, <1>2, <2>1, <3>6, <3>7, <3>9, LinksKept
            DEF InsertRevenueAction, crm, IInv
  <2> QED BY <2>2, <2>3
<1> QED BY <1>1, <1>2

\* The task write: at most one task carries the action's id.
LEMMA SafeCreateTask ==
    ASSUME IInv, CreateTaskForRevenueAction
    PROVE  IInv'
<1> DEFINE a == job.action
<1>0. TypeOK /\ TypeOK'
  BY TypeEffects DEF IInv
<1>1. /\ a \in ActionIds /\ a # None /\ ~IsCommunication(a)
      /\ actions[a].status = "EXECUTING" /\ actions[a].approved /\ job.opp = actions[a].opp
  BY TableAssumption
  DEF CreateTaskForRevenueAction, IInv, JobInv, ExecSteps, EffectSteps, ActionIds, None
<1>2. PICK t \in TaskIds :
        /\ EffectTask(a, t)
        /\ tasks' =
             IF tasks[t].link = a THEN tasks
             ELSE [tasks EXCEPT ![t] =
               [(IF tasks[t].status # "ABSENT" THEN tasks[t]
                 ELSE [NoTask EXCEPT !.status = "OPEN", !.opp = job.opp,
                                     !.source = "revenue_action",
                                     !.title = Proposal(a).title,
                                     !.terms = Proposal(a).terms])
                EXCEPT !.link = a, !.type = actions[a].basis.type, !.key = ProposedKey(a)]]
        /\ job' = [job EXCEPT !.step = "activity", !.task = t]
  BY DEF CreateTaskForRevenueAction
<1>3. UNCHANGED <<opportunity, actions, activities, evidence, caseLink, today>>
  BY DEF CreateTaskForRevenueAction
<1>4. /\ tasks[t].link # a => LinkedTasks(a) = {} /\ tasks[t].link = None
      /\ \A u \in TaskIds : u # t => tasks'[u] = tasks[u]
      /\ tasks'[t].link = a
      /\ tasks'[t].status # "ABSENT"
  <2>1. CASE tasks[t].link = a
    BY <1>1, <1>2, <2>1 DEF IInv, SlotInv
  <2>2. CASE tasks[t].link # a
    <3>1. LinkedTasks(a) = {} /\ tasks[t].link = None
      BY <1>2, <2>2
      DEF EffectTask, LinkedTasks, IsEquivalentOpenTask, IsNext, UsedTasks, IInv, SlotInv
    <3>2. tasks \in [TaskIds -> TaskRecords] /\ tasks[t] \in TaskRecords
      BY <1>0 DEF TypeOK
    <3>3. \A u \in TaskIds : u # t => tasks'[u] = tasks[u]
      BY <1>2, <2>2, <3>2
    <3> DEFINE base == IF tasks[t].status # "ABSENT" THEN tasks[t]
                       ELSE [NoTask EXCEPT !.status = "OPEN", !.opp = job.opp,
                                           !.source = "revenue_action",
                                           !.title = Proposal(a).title,
                                           !.terms = Proposal(a).terms]
    <3>4. base \in TaskRecords /\ base.status # "ABSENT"
      <4>1. job.opp \in Opportunities \cup {None}
        BY <1>0 DEF TypeOK
      <4>2. CASE tasks[t].status # "ABSENT"
        BY <3>2, <4>2
      <4>3. CASE tasks[t].status = "ABSENT"
        BY <1>0, <1>1, <3>2, <4>1, <4>3, EffectTaskType DEF NoTask
      <4> QED BY <4>2, <4>3
    <3>5. tasks' = [tasks EXCEPT ![t] =
             [base EXCEPT !.link = a, !.type = actions[a].basis.type, !.key = ProposedKey(a)]]
      BY <1>2, <2>2
    <3>6. tasks'[t].link = a /\ tasks'[t].status = base.status
      <4> HIDE DEF base
      <4> QED BY <3>2, <3>4, <3>5 DEF TaskRecords
    <3> QED BY <2>2, <3>1, <3>3, <3>4, <3>6
  <2> QED BY <2>1, <2>2
<1>5. SlotInv'
  BY <1>3, <1>4 DEF IInv, SlotInv
<1>6. LinkInv'
  BY <1>3, <1>4 DEF IInv, LinkInv, IsCommunication
<1>7. EffectsOnceAndApproved'
  <2>1. \A u, w \in TaskIds : tasks'[u].link = tasks'[w].link /\ tasks'[u].link # None => u = w
    BY <1>4 DEF IInv, EffectsOnceAndApproved, LinkedTasks
  <2>2. \A b \in ActionIds : HasEffects(b)' => b = a \/ HasEffects(b)
    BY <1>3, <1>4 DEF HasEffects, LinkedTasks, LinkedActivities
  <2> QED BY <1>1, <1>3, <2>1, <2>2 DEF IInv, EffectsOnceAndApproved
<1>8. ExecutedHasEffects'
  <2> SUFFICES ASSUME NEW b \in ActionIds, actions[b].status = "EXECUTED"
               PROVE  /\ actions[b].activity # None
                      /\ activities[actions[b].activity].link = b
                      /\ activities[actions[b].activity].task = actions[b].task
                      /\ IF IsCommunication(b) THEN actions[b].task = None
                         ELSE actions[b].task # None /\ tasks'[actions[b].task].link = b
    BY <1>3 DEF ExecutedHasEffects, IsCommunication
  <2>1. actions[b].task \in TaskIds \cup {None} /\ b # None
    BY <1>0, TableAssumption DEF TypeOK, ActionRecords, ActionIds, None
  <2> QED BY <1>4, <2>1 DEF IInv, ExecutedHasEffects
<1>9. EvidenceIsTrue' /\ OneActiveAction'
  BY <1>3 DEF IInv, EvidenceIsTrue, OneActiveAction
<1>10. /\ job'.step = "activity" /\ job'.task = t
       /\ job'.action = a /\ job'.opp = job.opp
  BY <1>0, <1>2 DEF TypeOK
<1>11. JobInv' /\ SoleInv'
  BY <1>1, <1>3, <1>4, <1>10
  DEF JobInv, SoleInv, ExecSteps, EffectSteps, ObserveSteps, IsCommunication
<1> QED BY <1>0, <1>5, <1>6, <1>7, <1>8, <1>9, <1>11 DEF IInv

\* The activity write: at most one activity carries the action's id.
LEMMA SafeCreateActivity ==
    ASSUME IInv, CreateActivityForRevenueAction
    PROVE  IInv'
<1> DEFINE a == job.action
<1>0. TypeOK /\ TypeOK'
  BY TypeEffects DEF IInv
<1>1. /\ a \in ActionIds /\ a # None
      /\ actions[a].status = "EXECUTING" /\ actions[a].approved /\ job.opp = actions[a].opp
      /\ IF IsCommunication(a) THEN job.task = None
         ELSE job.task \in TaskIds /\ tasks[job.task].link = a
  BY TableAssumption
  DEF CreateActivityForRevenueAction, IInv, JobInv, ExecSteps, EffectSteps, ActionIds, None
<1>2. UNCHANGED <<opportunity, actions, tasks, evidence, caseLink, today>>
  BY DEF CreateActivityForRevenueAction
<1>3. \/ UNCHANGED activities
      \/ /\ LinkedActivities(a) = {}
         /\ \E v \in ActivityIds :
              /\ activities[v].link = None
              /\ \A w \in ActivityIds : w # v => activities'[w] = activities[w]
              /\ activities'[v].kind # "ABSENT"
              /\ activities'[v].link = a
              /\ activities'[v].task = job.task
  <2>1. CASE LinkedActivities(a) # {}
    BY <2>1 DEF CreateActivityForRevenueAction
  <2>2. CASE LinkedActivities(a) = {}
    <3>1. PICK v \in ActivityIds :
            /\ IsNext(v, UsedActivities)
            /\ activities' = [activities EXCEPT ![v] =
                 [kind |-> IF IsCommunication(a) THEN "MANUALLY_CONFIRMED" ELSE "TASK_EXECUTED",
                  opp |-> job.opp, day |-> today, link |-> a,
                  task |-> job.task, key |-> NoKey]]
      BY <2>2 DEF CreateActivityForRevenueAction
    <3>2. activities[v].link = None
      BY <3>1 DEF IsNext, UsedActivities, IInv, SlotInv
    <3>3. activities \in [ActivityIds -> ActivityRecords]
      BY <1>0 DEF TypeOK
    <3> QED BY <2>2, <3>1, <3>2, <3>3
  <2> QED BY <2>1, <2>2
<1>4. SlotInv' /\ LinkInv'
  BY <1>1, <1>2, <1>3 DEF IInv, SlotInv, LinkInv, IsCommunication
<1>5. EffectsOnceAndApproved'
  <2>1. \A v, w \in ActivityIds :
          activities'[v].link = activities'[w].link /\ activities'[v].link # None => v = w
    BY <1>1, <1>3 DEF IInv, EffectsOnceAndApproved, LinkedActivities
  <2>2. \A b \in ActionIds : HasEffects(b)' => b = a \/ HasEffects(b)
    BY <1>2, <1>3 DEF HasEffects, LinkedTasks, LinkedActivities
  <2> QED BY <1>1, <1>2, <2>1, <2>2 DEF IInv, EffectsOnceAndApproved
<1>6. ExecutedHasEffects'
  <2> SUFFICES ASSUME NEW b \in ActionIds, actions[b].status = "EXECUTED"
               PROVE  /\ actions[b].activity # None
                      /\ activities'[actions[b].activity].link = b
                      /\ activities'[actions[b].activity].task = actions[b].task
                      /\ IF IsCommunication(b) THEN actions[b].task = None
                         ELSE actions[b].task # None /\ tasks[actions[b].task].link = b
    BY <1>2 DEF ExecutedHasEffects, IsCommunication
  <2>1. actions[b].activity \in ActivityIds \cup {None} /\ b # None
    BY <1>0, TableAssumption DEF TypeOK, ActionRecords, ActionIds, None
  <2> QED BY <1>3, <2>1 DEF IInv, ExecutedHasEffects
<1>7. EvidenceIsTrue' /\ OneActiveAction'
  BY <1>2 DEF IInv, EvidenceIsTrue, OneActiveAction
<1>8. /\ job'.step = IF actions[a].basis.type = "CREATE_TASK" THEN "nextAction" ELSE "finalize"
      /\ job'.task = job.task /\ job'.action = a /\ job'.opp = job.opp
  BY <1>0 DEF TypeOK, CreateActivityForRevenueAction
<1>9. JobInv' /\ SoleInv'
  BY <1>1, <1>2, <1>8
  DEF JobInv, SoleInv, ExecSteps, EffectSteps, ObserveSteps, IsCommunication
<1> QED BY <1>0, <1>4, <1>5, <1>6, <1>7, <1>9 DEF IInv

\* The remaining writes of an execution.
LEMMA SafeFinish ==
    ASSUME IInv,
           SetOpportunityNextAction \/ FinalizeExecution \/ FailExecution \/ EffectThrows
    PROVE  IInv'
<1> DEFINE a == job.action
<1>0. TypeOK /\ TypeOK'
  BY TypeEffects DEF IInv
<1>a. actions \in [ActionIds -> ActionRecords]
  BY <1>0 DEF TypeOK
<1>1. CASE SetOpportunityNextAction
  <2>1. /\ job'.step = "finalize" /\ job'.task = job.task
        /\ job'.action = a /\ job'.opp = job.opp
    BY <1>0, <1>1 DEF TypeOK, SetOpportunityNextAction
  <2>2. JobInv' /\ SoleInv'
    BY <1>1, <2>1
    DEF SetOpportunityNextAction, IInv, JobInv, SoleInv, ExecSteps, EffectSteps, ObserveSteps,
        IsCommunication
  <2>3. /\ SlotInv' /\ LinkInv' /\ EffectsOnceAndApproved'
        /\ ExecutedHasEffects' /\ EvidenceIsTrue' /\ OneActiveAction'
    BY <1>1 DEF SetOpportunityNextAction, IInv, SlotInv, LinkInv, EffectsOnceAndApproved,
                HasEffects, LinkedTasks, LinkedActivities, ExecutedHasEffects, EvidenceIsTrue,
                OneActiveAction, IsCommunication
  <2> QED BY <1>0, <2>2, <2>3 DEF IInv
<1>2. CASE FinalizeExecution
  <2>1. /\ a \in ActionIds /\ actions[a].status = "EXECUTING" /\ actions[a].approved
        /\ job.opp = actions[a].opp
        /\ IF IsCommunication(a) THEN job.task = None ELSE job.task \in LinkedTasks(a)
    BY <1>2 DEF FinalizeExecution, IInv, JobInv, ExecSteps, EffectSteps, LinkedTasks
  <2>2. PICK v \in LinkedActivities(a) :
          actions' = [actions EXCEPT ![a] = [actions[a] EXCEPT !.status = "EXECUTED",
                                                !.task = job.task, !.activity = v]]
    BY <1>2 DEF FinalizeExecution
  <2>3. /\ SlotInv' /\ LinkInv' /\ EffectsOnceAndApproved'
        /\ ExecutedHasEffects' /\ EvidenceIsTrue' /\ OneActiveAction'
        /\ StatusMove(a, "EXECUTED")
    BY <1>2, <2>1, <2>2, FinishKept DEF FinalizeExecution, crm
  <2>4. /\ job'.step = "refresh" /\ job'.action = a /\ job'.opp = job.opp
    BY <1>0, <1>2 DEF TypeOK, FinalizeExecution
  <2>5. JobInv'
    BY <2>1, <2>3, <2>4 DEF JobInv, ExecSteps, EffectSteps, ObserveSteps, StatusMove
  <2>6. <<"ACTION_EXECUTED", a>> \notin evidence
    BY <2>1 DEF IInv, EvidenceIsTrue
  <2>7. \A b \in ActionIds :
          actions'[b].opp = job.opp /\ actions'[b].status \in ActiveStatuses => b = a
    BY <2>1, <2>3 DEF IInv, OneActiveAction, StatusMove, ActiveStatuses
  <2>8. SoleInv'
    <3>1. evidence' = evidence
      BY <1>2 DEF FinalizeExecution
    <3> QED BY <2>4, <2>6, <2>7, <3>1 DEF SoleInv, ActiveActions
  <2> QED BY <1>0, <2>3, <2>5, <2>8 DEF IInv
<1>3. CASE FailExecution
  <2>1. /\ a \in ActionIds /\ actions[a].status \in {"EXECUTING", "EXECUTED"}
        /\ actions[a].approved /\ job.opp = actions[a].opp
        /\ <<"ACTION_EXECUTED", a>> \notin evidence
        /\ \A b \in ActiveActions(job.opp) : b = a
    BY <1>3 DEF FailExecution, IInv, JobInv, SoleInv, ExecSteps, EffectSteps
  <2>2. StatusMove(a, "FAILED")
    BY <1>3, <1>a, <2>1 DEF FailExecution, StatusMove, ActionRecords
  <2>3. KeepsActions
    <3>1. \A b \in ActionIds : HasEffects(b) =>
            actions[b].status \in {"EXECUTING", "FAILED", "EXECUTED", "CANCELLED"}
      BY DEF IInv, EffectsOnceAndApproved
    <3> QED BY <2>1, <2>2, <3>1 DEF KeepsActions, StatusMove, IInv, SlotInv
  <2>4. ExecutedHasEffects'
    BY <1>3, <2>2 DEF FailExecution, crm, IInv, ExecutedHasEffects, StatusMove, IsCommunication
  <2>5. EvidenceIsTrue'
    BY <1>3, <2>1, <2>2 DEF FailExecution, IInv, EvidenceIsTrue, StatusMove
  <2>6. OneActiveAction'
    BY <2>1, <2>2 DEF IInv, OneActiveAction, StatusMove, ActiveActions
  <2>7. JobInv' /\ SoleInv'
    BY <1>3, IdleJob DEF FailExecution
  <2> QED BY <1>0, <1>3, <2>3, <2>4, <2>5, <2>6, <2>7, LinksKept DEF FailExecution, crm, IInv
<1>4. CASE EffectThrows
  <2>1. /\ job'.step = "failed" /\ job'.action = a /\ job'.opp = job.opp
        /\ job.step \in EffectSteps \cup {"refresh"}
    BY <1>0, <1>4 DEF TypeOK, EffectThrows, EffectSteps
  <2>2. UNCHANGED <<opportunity, actions, tasks, activities, evidence, caseLink, today>>
    BY <1>4 DEF EffectThrows, store
  <2>3. JobInv'
    BY <2>1, <2>2 DEF IInv, JobInv, ExecSteps, EffectSteps, ObserveSteps
  <2>4. SoleInv'
    <3>1. CASE job.step = "refresh"
      BY <2>1, <2>2, <3>1 DEF IInv, SoleInv, ActiveActions
    <3>2. CASE job.step \in EffectSteps
      <4>1. a \in ActionIds /\ actions[a].status = "EXECUTING" /\ job.opp = actions[a].opp
        BY <3>2 DEF IInv, JobInv, ExecSteps
      <4>2. <<"ACTION_EXECUTED", a>> \notin evidence
        BY <4>1 DEF IInv, EvidenceIsTrue
      <4>3. \A b \in ActiveActions(job.opp) : b = a
        BY <4>1 DEF IInv, OneActiveAction, ActiveActions, ActiveStatuses
      <4> QED BY <2>1, <2>2, <4>2, <4>3 DEF SoleInv, ActiveActions
    <3> QED BY <2>1, <3>1, <3>2
  <2>5. /\ SlotInv' /\ LinkInv' /\ EffectsOnceAndApproved'
        /\ ExecutedHasEffects' /\ EvidenceIsTrue' /\ OneActiveAction'
    BY <2>2 DEF IInv, SlotInv, LinkInv, EffectsOnceAndApproved,
                HasEffects, LinkedTasks, LinkedActivities, ExecutedHasEffects, EvidenceIsTrue,
                OneActiveAction, IsCommunication
  <2> QED BY <1>0, <2>3, <2>4, <2>5 DEF IInv
<1> QED BY <1>1, <1>2, <1>3, <1>4

\* The links of a task and of an activity, and whether a slot is used, are all
\* that the invariants know of the CRM collections.
LEMMA CrmKept ==
    ASSUME IInv, UNCHANGED <<actions, evidence>>,
           \A t \in TaskIds : /\ tasks'[t].link = tasks[t].link
                              /\ tasks'[t].status = "ABSENT" => tasks[t].status = "ABSENT",
           \A v \in ActivityIds :
              /\ activities'[v].link = activities[v].link
              /\ activities[v].link # None => activities'[v].task = activities[v].task
              /\ activities'[v].kind = "ABSENT" => activities[v].kind = "ABSENT"
    PROVE  /\ SlotInv' /\ LinkInv' /\ EffectsOnceAndApproved'
           /\ ExecutedHasEffects' /\ EvidenceIsTrue' /\ OneActiveAction'
<1>1. SlotInv' /\ EvidenceIsTrue' /\ OneActiveAction'
  BY DEF IInv, SlotInv, EvidenceIsTrue, OneActiveAction
<1>2. LinkInv'
  BY DEF IInv, LinkInv, IsCommunication
<1>3. \A b \in ActionIds : HasEffects(b)' <=> HasEffects(b)
  BY DEF HasEffects, LinkedTasks, LinkedActivities
<1>4. EffectsOnceAndApproved'
  BY <1>3 DEF IInv, EffectsOnceAndApproved
<1>5. ExecutedHasEffects'
  <2> SUFFICES ASSUME NEW b \in ActionIds, actions[b].status = "EXECUTED"
               PROVE  /\ actions[b].activity # None
                      /\ activities'[actions[b].activity].link = b
                      /\ activities'[actions[b].activity].task = actions[b].task
                      /\ IF IsCommunication(b) THEN actions[b].task = None
                         ELSE actions[b].task # None /\ tasks'[actions[b].task].link = b
    BY DEF ExecutedHasEffects, IsCommunication
  <2>1. /\ actions[b].activity \in ActivityIds \cup {None}
        /\ actions[b].task \in TaskIds \cup {None} /\ b # None
    BY TableAssumption DEF IInv, TypeOK, ActionRecords, ActionIds, None
  <2> QED BY <2>1 DEF IInv, ExecutedHasEffects
<1> QED BY <1>1, <1>2, <1>4, <1>5

\* The CRM requests touch no link, and the writes they go on with use a free slot.
LEMMA SafeCrm ==
    ASSUME IInv, Crm \/ RecordNextAction \/ RecordActivity
    PROVE  IInv'
<1>0. TypeOK /\ TypeOK'
  BY TypeCrm DEF IInv
<1>a. tasks \in [TaskIds -> TaskRecords] /\ activities \in [ActivityIds -> ActivityRecords]
  BY <1>0 DEF TypeOK
<1> DEFINE Kept == /\ SlotInv' /\ LinkInv' /\ EffectsOnceAndApproved'
                   /\ ExecutedHasEffects' /\ EvidenceIsTrue' /\ OneActiveAction'
<1>b. ASSUME NEW o \in Opportunities, NEW t \in TaskIds, NEW k,
             job' = CrmJob(o, "crmNextAction", t, k)
      PROVE  JobInv' /\ SoleInv'
  <2>1. job'.step = "crmNextAction" /\ job'.opp = o /\ job'.task = t
    BY <1>b DEF CrmJob, Job, Idle
  <2> QED BY <1>b, <2>1 DEF JobInv, SoleInv, ExecSteps, EffectSteps, ObserveSteps
<1>c. ASSUME NEW o, NEW t, NEW k, job' = CrmJob(o, "crmActivity", t, k)
      PROVE  JobInv' /\ SoleInv'
  <2>1. job'.step = "crmActivity"
    BY <1>c DEF CrmJob, Job, Idle
  <2> QED BY <2>1 DEF JobInv, SoleInv, ExecSteps, EffectSteps, ObserveSteps
<1>1. ASSUME NEW o \in Opportunities,
             \/ \E s \in Stages : UpdateOpportunityStage(o, s)
             \/ AddContact(o) \/ SetValue(o)
      PROVE  IInv'
  <2>1. UNCHANGED <<actions, evidence, tasks, activities>>
    BY <1>1 DEF UpdateOpportunityStage, AddContact, SetValue, CrmRequest
  <2>2. JobInv' /\ SoleInv'
    <3>1. PICK k : job' = CrmJob(o, "crmActivity", None, k)
      BY <1>1 DEF UpdateOpportunityStage, AddContact, SetValue
    <3> QED BY <1>c, <3>1
  <2> QED BY <1>0, <2>1, <2>2, CrmKept DEF IInv
<1>2. ASSUME NEW o \in Opportunities, NEW r \in TaskRequests, CreateNextActionTask(o, r)
      PROVE  IInv'
  <2>1. PICK t \in TaskIds :
          /\ tasks' # tasks => IsNext(t, UsedTasks)
          /\ tasks' # tasks => tasks' = [tasks EXCEPT ![t] =
               [NoTask EXCEPT !.status = "OPEN", !.opp = o, !.source = "deal_intelligence",
                              !.title = r.title, !.terms = r.terms,
                              !.type = r.type, !.key = TitleKey[r.title]]]
          /\ job' = CrmJob(o, IF r.type = "CREATE_TASK" THEN "crmNextAction" ELSE "crmActivity",
                           t, <<"task", r.type, TitleKey[r.title]>>)
    BY <1>2 DEF CreateNextActionTask
  <2>2. \A u \in TaskIds : /\ tasks'[u].link = tasks[u].link
                           /\ tasks'[u].status = "ABSENT" => tasks[u].status = "ABSENT"
    <3>1. CASE tasks' = tasks
      BY <3>1
    <3>2. CASE tasks' # tasks
      <4>1. tasks[t].link = None
        BY <2>1, <3>2 DEF IsNext, UsedTasks, IInv, SlotInv
      <4>2. \A u \in TaskIds : u # t => tasks'[u] = tasks[u]
        BY <1>a, <2>1, <3>2
      <4>3. tasks'[t].link = None /\ tasks'[t].status = "OPEN"
        BY <1>a, <2>1, <3>2 DEF NoTask
      <4> QED BY <4>1, <4>2, <4>3
    <3> QED BY <3>1, <3>2
  <2>3. UNCHANGED <<actions, evidence, activities>>
    BY <1>2 DEF CreateNextActionTask, CrmRequest
  <2>4. JobInv' /\ SoleInv'
    BY <1>b, <1>c, <2>1
  <2> QED BY <1>0, <2>2, <2>3, <2>4, CrmKept DEF IInv
<1>3. ASSUME NEW o \in Opportunities, NEW r \in TaskRequests, PostTask(o, r) PROVE IInv'
  <2>1. PICK t \in TaskIds :
          /\ IsNext(t, UsedTasks)
          /\ tasks' = [tasks EXCEPT ![t] =
               [NoTask EXCEPT !.status = "OPEN", !.opp = o, !.source = "manual",
                              !.title = r.title, !.terms = r.terms]]
          /\ job' = CrmJob(o, "crmActivity", t, NoKey)
    BY <1>3 DEF PostTask
  <2>2. \A u \in TaskIds : /\ tasks'[u].link = tasks[u].link
                           /\ tasks'[u].status = "ABSENT" => tasks[u].status = "ABSENT"
    <3>1. tasks[t].link = None
      BY <2>1 DEF IsNext, UsedTasks, IInv, SlotInv
    <3>2. \A u \in TaskIds : u # t => tasks'[u] = tasks[u]
      BY <1>a, <2>1
    <3>3. tasks'[t].link = None /\ tasks'[t].status = "OPEN"
      BY <1>a, <2>1 DEF NoTask
    <3> QED BY <3>1, <3>2, <3>3
  <2>3. UNCHANGED <<actions, evidence, activities>>
    BY <1>3 DEF PostTask, CrmRequest
  <2>4. JobInv' /\ SoleInv'
    BY <1>c, <2>1
  <2> QED BY <1>0, <2>2, <2>3, <2>4, CrmKept DEF IInv
<1>4. ASSUME NEW t \in TaskIds, NEW status \in TaskStatuses, NEW title \in Titles,
             NEW terms \in Terms, PatchTask(t, status, title, terms)
      PROVE IInv'
  <2>1. tasks' = [tasks EXCEPT ![t] = [tasks[t] EXCEPT !.status = status, !.title = title,
                                                      !.terms = terms]]
    BY <1>4 DEF PatchTask
  <2>2. \A u \in TaskIds : u # t => tasks'[u] = tasks[u]
    BY <1>a, <2>1
  <2>3. tasks'[t].link = tasks[t].link /\ tasks'[t].status = status /\ status # "ABSENT"
    BY <1>a, <2>1 DEF TaskRecords, TaskStatuses
  <2>4. UNCHANGED <<actions, evidence, activities>>
    BY <1>4 DEF PatchTask
  <2>5. JobInv' /\ SoleInv'
    <3>1. job' = Idle \/ job' = CrmJob(tasks[t].opp, "crmActivity", t, NoKey)
      BY <1>4 DEF PatchTask
    <3>2. CASE job' = Idle
      BY <3>2, IdleJob
    <3>3. CASE job' = CrmJob(tasks[t].opp, "crmActivity", t, NoKey)
      BY <1>c, <3>3
    <3> QED BY <3>1, <3>2, <3>3
  <2> QED BY <1>0, <2>2, <2>3, <2>4, <2>5, CrmKept DEF IInv
<1>5. CASE NextDay
  <2>1. UNCHANGED <<actions, evidence, tasks, activities>> /\ job' = Idle
    BY <1>5 DEF NextDay, store
  <2> QED BY <1>0, <2>1, CrmKept, IdleJob DEF IInv
<1>6. CASE RecordNextAction
  <2>1. UNCHANGED <<actions, evidence, tasks, activities>> /\ job'.step = "crmActivity"
    BY <1>0, <1>6 DEF RecordNextAction, TypeOK
  <2>2. JobInv' /\ SoleInv'
    BY <2>1 DEF JobInv, SoleInv, ExecSteps, EffectSteps, ObserveSteps
  <2> QED BY <1>0, <2>1, <2>2, CrmKept DEF IInv
<1>7. CASE RecordActivity
  <2>1. UNCHANGED <<actions, evidence, tasks>> /\ job' = Idle
    BY <1>7 DEF RecordActivity
  <2>2. \A v \in ActivityIds :
          /\ activities'[v].link = activities[v].link
          /\ activities[v].link # None => activities'[v].task = activities[v].task
          /\ activities'[v].kind = "ABSENT" => activities[v].kind = "ABSENT"
    <3>1. CASE UNCHANGED activities
      BY <3>1
    <3>2. ASSUME NEW v \in ActivityIds, IsNext(v, UsedActivities),
                 activities' = [activities EXCEPT ![v] =
                   [kind |-> "CRM", opp |-> job.opp, day |-> today, link |-> None,
                    task |-> job.task, key |-> job.key]]
          PROVE  \A w \in ActivityIds :
                   /\ activities'[w].link = activities[w].link
                   /\ activities[w].link # None => activities'[w].task = activities[w].task
                   /\ activities'[w].kind = "ABSENT" => activities[w].kind = "ABSENT"
      <4>1. activities[v].link = None
        BY <3>2 DEF IsNext, UsedActivities, IInv, SlotInv
      <4> QED BY <1>a, <3>2, <4>1
    <3> QED BY <1>7, <3>1, <3>2 DEF RecordActivity
  <2> QED BY <1>0, <2>1, <2>2, CrmKept, IdleJob DEF IInv
<1> QED BY <1>1, <1>2, <1>3, <1>4, <1>5, <1>6, <1>7 DEF Crm

-----------------------------------------------------------------------------
(* The inductive invariant and the theorems.                               *)

\* The inductive invariant holds of the empty collections.
LEMMA InitIInv == Init => IInv
<1> SUFFICES ASSUME Init PROVE IInv
  OBVIOUS
<1>1. /\ \A a \in ActionIds : actions[a].status = "ABSENT" /\ ~actions[a].approved
      /\ \A t \in TaskIds : tasks[t].link = None
      /\ \A v \in ActivityIds : activities[v].link = None
  BY DEF Init, NoAction, NoTask, NoActivity
<1>2. \A a \in ActionIds : ~HasEffects(a)
  BY <1>1, TableAssumption DEF HasEffects, LinkedTasks, LinkedActivities, ActionIds, None
<1>3. JobInv /\ SoleInv
  BY DEF Init, Idle, JobInv, SoleInv, ExecSteps, EffectSteps, ObserveSteps
<1>4. SlotInv /\ LinkInv /\ OneActiveAction /\ ExecutedHasEffects
  BY <1>1 DEF SlotInv, LinkInv, OneActiveAction, ExecutedHasEffects, ActiveStatuses
<1>5. EffectsOnceAndApproved
  BY <1>1, <1>2 DEF EffectsOnceAndApproved
<1>6. EvidenceIsTrue
  BY DEF Init, EvidenceIsTrue
<1> QED BY <1>3, <1>4, <1>5, <1>6, TypeInit DEF IInv

\* Every file write, fault, CRM request and stutter keeps the inductive invariant.
LEMMA NextIInv == IInv /\ [Next]_vars => IInv'
<1> SUFFICES ASSUME IInv, [Next]_vars PROVE IInv'
  OBVIOUS
<1>0. TypeOK'
  BY TypeNext DEF IInv
<1>1. ASSUME NEW a \in ActionIds, LinkCase(a) PROVE IInv'
  <2>1. UNCHANGED <<actions, evidence, tasks, activities>> /\ job' = Idle
    BY <1>1 DEF LinkCase, store
  <2> QED BY <1>0, <2>1, CrmKept, IdleJob DEF IInv
<1>2. CASE Abort
  <2>1. UNCHANGED <<actions, evidence, tasks, activities>> /\ job' = Idle
    BY <1>2 DEF Abort, store
  <2> QED BY <1>0, <2>1, CrmKept, IdleJob DEF IInv
<1>3. CASE ObserveRevenueAction
  <2>1. UNCHANGED <<actions, tasks, activities>> /\ job' = Idle
    BY <1>3 DEF ObserveRevenueAction, crm
  <2>2. /\ SlotInv' /\ LinkInv' /\ EffectsOnceAndApproved'
        /\ ExecutedHasEffects' /\ OneActiveAction'
    BY <2>1 DEF IInv, SlotInv, LinkInv, EffectsOnceAndApproved, HasEffects, LinkedTasks,
                LinkedActivities, ExecutedHasEffects, OneActiveAction, IsCommunication
  <2>3. CASE job.step = "observeApproved"
    <3>1. /\ evidence' \subseteq evidence \cup {<<"ACTION_APPROVED", job.action>>}
          /\ actions[job.action].approved
      BY <1>3, <2>3 DEF ObserveRevenueAction, IInv, JobInv
    <3>2. EvidenceIsTrue'
      BY <2>1, <3>1 DEF IInv, EvidenceIsTrue
    <3> QED BY <1>0, <2>1, <2>2, <3>2, IdleJob DEF IInv
  <2>4. CASE job.step \in {"refresh", "observeExecuted"}
    <3>1. /\ evidence' \subseteq evidence \cup {<<"ACTION_EXECUTED", job.action>>}
          /\ actions[job.action].status = "EXECUTED"
      BY <1>3, <2>4 DEF ObserveRevenueAction, IInv, JobInv
    <3>2. EvidenceIsTrue'
      BY <2>1, <3>1 DEF IInv, EvidenceIsTrue
    <3> QED BY <1>0, <2>1, <2>2, <3>2, IdleJob DEF IInv
  <2> QED BY <1>3, <2>3, <2>4 DEF ObserveRevenueAction
<1>4. CASE UNCHANGED vars
  BY <1>4 DEF vars, IInv, TypeOK, JobInv, SlotInv, LinkInv, SoleInv, OneActiveAction,
              EffectsOnceAndApproved, HasEffects, LinkedTasks, LinkedActivities,
              ExecutedHasEffects, EvidenceIsTrue, IsCommunication, ActiveActions,
              Basis, LatestActivity, NextBestActionType, IsQuiet
<1> QED
  BY <1>1, <1>2, <1>3, <1>4, SafeLifecycle, SafeExecution, SafeMaterialize, SafeCreateTask,
     SafeCreateActivity, SafeFinish, SafeCrm
  DEF Next, Continue

\* IInv holds in every reachable state.
THEOREM Invariance == Spec => []IInv
BY InitIInv, NextIInv, PTL DEF Spec

\* The collections and the running request keep their types.
THEOREM TypeCorrect == Spec => []TypeOK
<1>1. IInv => TypeOK
  BY DEF IInv
<1> QED BY <1>1, Invariance, PTL

\* An opportunity never has two active actions, whichever write is lost.
THEOREM OneActive == Spec => []OneActiveAction
<1>1. IInv => OneActiveAction
  BY DEF IInv
<1> QED BY <1>1, Invariance, PTL

\* No retry duplicates an effect, and no effect precedes the approval.
THEOREM EffectsOnce == Spec => []EffectsOnceAndApproved
<1>1. IInv => EffectsOnceAndApproved
  BY DEF IInv
<1> QED BY <1>1, Invariance, PTL

\* What an executed action names is on disk.
THEOREM ExecutedEffects == Spec => []ExecutedHasEffects
<1>1. IInv => ExecutedHasEffects
  BY DEF IInv
<1> QED BY <1>1, Invariance, PTL

\* Reported milestones are true of the actions they report.
THEOREM TrueEvidence == Spec => []EvidenceIsTrue
<1>1. IInv => EvidenceIsTrue
  BY DEF IInv
<1> QED BY <1>1, Invariance, PTL

-----------------------------------------------------------------------------
(* An execution is applied on the evidence that was approved.              *)

Due == {"task", "activity", "nextAction"}
DueOrFailed == Due \cup {"failed"}

\* The basis of an opportunity depends on the shown activities and their days only.
LEMMA SameBasis ==
    ASSUME NEW o, NEW a,
           opportunity' = opportunity, today' = today,
           LatestActivity(o, a)' = LatestActivity(o, a),
           \A v \in LatestActivity(o, a) : activities'[v].day = activities[v].day
    PROVE  Basis(o, a)' = Basis(o, a)
<1> DEFINE latest == LatestActivity(o, a)
<1>1. IsQuiet(latest)' <=> IsQuiet(latest)
  BY DEF IsQuiet
<1>2. NextBestActionType(o, latest)' = NextBestActionType(o, latest)
  BY <1>1 DEF NextBestActionType
<1>3. {today' - activities'[v].day : v \in latest'} = {today - activities[v].day : v \in latest}
  OBVIOUS
<1> QED BY <1>2, <1>3 DEF Basis

\* Leaving out the effects of an action that has none leaves out nothing.
LEMMA NoEffectsBasis ==
    ASSUME NEW o, NEW a \in ActionIds, ~HasEffects(a)
    PROVE  Basis(o, a) = Basis(o, None)
<1>1. LatestActivity(o, a) = LatestActivity(o, None)
  BY DEF LatestActivity, HasEffects, LinkedActivities
<1> QED BY <1>1 DEF Basis

\* The step of a job that starts, or of one that ends.
LEMMA FirstStep ==
    /\ Idle.step = "idle"
    /\ \A s, o, a : Job(s, o, a).step = s
    /\ \A s, o, t, k : CrmJob(o, s, t, k).step = s
BY DEF Idle, Job, CrmJob

\* The steps after which no write of an execution is due, and no failure to record.
LEMMA NothingDue ==
    ASSUME IInv, Next, ~CreateTaskForRevenueAction, ~CreateActivityForRevenueAction,
           \A a \in ActionIds : ~StartExecution(a), ~EffectThrows
    PROVE  job'.step \notin DueOrFailed
<1> USE FirstStep DEF DueOrFailed, Due
<1>1. ASSUME NEW a \in ActionIds, Lifecycle(a) PROVE job'.step \notin DueOrFailed
  <2>1. job' = Idle \/ job' = Job("observeApproved", actions[a].opp, a)
    BY <1>1 DEF Lifecycle, SupersedeStale, PrepareRevenueAction, ApproveRevenueAction,
                RejectRevenueAction, CancelRevenueAction, SetStatus
  <2> QED BY <2>1
<1>2. ASSUME NEW a \in ActionIds, Execution(a) PROVE job'.step \notin DueOrFailed
  <2>1. job' = Idle \/ job' = Job("observeExecuted", actions[a].opp, a)
    BY <1>2 DEF Execution, ReconcileExecution, ExecuteStale, ReplayExecuted, SetStatus
  <2> QED BY <2>1
<1>3. ASSUME NEW a \in ActionIds, LinkCase(a) PROVE job'.step \notin DueOrFailed
  BY <1>3 DEF LinkCase
<1>4. ASSUME NEW o \in Opportunities, MaterializeRevenueAction(o) PROVE job'.step \notin DueOrFailed
  BY <1>4 DEF MaterializeRevenueAction
<1>5. job \in Jobs
  BY DEF IInv, TypeOK, Jobs
<1>6. CASE Continue
  <2>1. \/ job' = Idle
        \/ \E s \in {"finalize", "refresh", "crmActivity"} : job' = [job EXCEPT !.step = s]
    BY <1>6 DEF Continue, InsertRevenueAction, SetOpportunityNextAction, FinalizeExecution,
                FailExecution, ObserveRevenueAction, RecordNextAction, RecordActivity
  <2> QED BY <1>5, <2>1 DEF Jobs
<1>7. CASE Abort
  BY <1>5, <1>7 DEF Abort
<1>8. CASE Crm
  <2>1. ASSUME NEW o, NEW s, UpdateOpportunityStage(o, s) PROVE job'.step \notin DueOrFailed
    BY <2>1 DEF UpdateOpportunityStage
  <2>2. ASSUME NEW o, AddContact(o) \/ SetValue(o) PROVE job'.step \notin DueOrFailed
    BY <2>2 DEF AddContact, SetValue
  <2>3. ASSUME NEW o, NEW r, CreateNextActionTask(o, r) PROVE job'.step \notin DueOrFailed
    <3>1. \E s \in {"crmNextAction", "crmActivity"} : \E t, k : job' = CrmJob(o, s, t, k)
      BY <2>3 DEF CreateNextActionTask
    <3> QED BY <3>1
  <2>4. ASSUME NEW o, NEW r, PostTask(o, r) PROVE job'.step \notin DueOrFailed
    BY <2>4 DEF PostTask
  <2>5. ASSUME NEW t, NEW status, NEW title, NEW terms, PatchTask(t, status, title, terms)
        PROVE  job'.step \notin DueOrFailed
    BY <2>5 DEF PatchTask
  <2>6. CASE NextDay
    BY <2>6 DEF NextDay
  <2> QED BY <1>8, <2>1, <2>2, <2>3, <2>4, <2>5, <2>6 DEF Crm
<1> QED BY <1>1, <1>2, <1>3, <1>4, <1>6, <1>7, <1>8 DEF Next

\* A free activity slot belongs to no opportunity, so filling it hides nothing.
FreeActivities == \A v \in ActivityIds : activities[v].kind = "ABSENT" => activities[v].opp = None

\* Only the two activity writes fill a slot, and they fill one.
LEMMA FreeActivitiesKept ==
    ASSUME IInv, FreeActivities, [Next]_vars
    PROVE  FreeActivities'
<1>a. activities \in [ActivityIds -> ActivityRecords]
  BY DEF IInv, TypeOK
<1>1. CASE CreateActivityForRevenueAction
  <2>1. CASE UNCHANGED activities
    BY <2>1 DEF FreeActivities
  <2>2. CASE \E v \in ActivityIds : \E r :
               r.kind # "ABSENT" /\ activities' = [activities EXCEPT ![v] = r]
    BY <1>a, <2>2 DEF FreeActivities
  <2> QED BY <1>1, <2>1, <2>2 DEF CreateActivityForRevenueAction
<1>2. CASE RecordActivity
  <2>1. CASE UNCHANGED activities
    BY <2>1 DEF FreeActivities
  <2>2. CASE \E v \in ActivityIds : \E r :
               r.kind # "ABSENT" /\ activities' = [activities EXCEPT ![v] = r]
    BY <1>a, <2>2 DEF FreeActivities
  <2> QED BY <1>2, <2>1, <2>2 DEF RecordActivity
<1>3. CASE UNCHANGED activities
  BY <1>3 DEF FreeActivities
<1>4. ASSUME NEW a \in ActionIds, Lifecycle(a) \/ Execution(a) \/ LinkCase(a)
      PROVE  UNCHANGED activities
  BY <1>4 DEF Lifecycle, Execution, LinkCase, SupersedeStale, PrepareRevenueAction,
              ApproveRevenueAction, RejectRevenueAction, CancelRevenueAction,
              ReconcileExecution, ExecuteStale, StartExecution, ReplayExecuted, crm, store
<1>5. ASSUME NEW o \in Opportunities, MaterializeRevenueAction(o) PROVE UNCHANGED activities
  BY <1>5 DEF MaterializeRevenueAction, crm
<1>6. CASE EffectThrows \/ Abort
  BY <1>3, <1>6 DEF EffectThrows, Abort, store
<1>7. CASE Crm
  BY <1>3, <1>7 DEF Crm, UpdateOpportunityStage, AddContact, SetValue, CreateNextActionTask,
                    PostTask, PatchTask, NextDay, CrmRequest, store
<1>8. CASE UNCHANGED vars
  BY <1>3, <1>8 DEF vars
<1>9. CASE Continue /\ ~CreateActivityForRevenueAction /\ ~RecordActivity
  BY <1>3, <1>9 DEF Continue, InsertRevenueAction, CreateTaskForRevenueAction,
                    SetOpportunityNextAction, FinalizeExecution, FailExecution,
                    ObserveRevenueAction, RecordNextAction, crm
<1> QED BY <1>1, <1>2, <1>3, <1>4, <1>5, <1>6, <1>7, <1>8, <1>9 DEF Next

\* Every step keeps the evidence of the execution that is due.
LEMMA EvidenceStep ==
    ASSUME IInv, FreeActivities, EffectsOnApprovedEvidence, [Next]_vars
    PROVE  EffectsOnApprovedEvidence'
<1> USE DEF DueOrFailed, Due
<1>0. actions \in [ActionIds -> ActionRecords]
  BY DEF IInv, TypeOK
<1>1. ASSUME NEW a \in ActionIds, StartExecution(a) PROVE EffectsOnApprovedEvidence'
  <2>1. actions[a] \in ActionRecords
    BY <1>0
  <2>2. /\ actions'[a].approved /\ actions'[a].basis = actions[a].basis
        /\ job'.opp = actions[a].opp /\ job'.action = a
    BY <1>0, <1>1, <2>1 DEF StartExecution, MayStart, Executable, Job, Idle, ActionRecords
  <2>3. Basis(actions[a].opp, a) = actions[a].basis
    BY <1>1, NoEffectsBasis DEF StartExecution, EvidenceIsCurrent
  <2>4. \A o, b : Basis(o, b)' = Basis(o, b)
    BY <1>1 DEF StartExecution, crm, Basis, LatestActivity, NextBestActionType, IsQuiet
  <2> QED BY <2>2, <2>3, <2>4 DEF EffectsOnApprovedEvidence
<1>2. CASE CreateTaskForRevenueAction
  <2>1. /\ job.step = "task" /\ job'.opp = job.opp /\ job'.action = job.action
        /\ UNCHANGED <<opportunity, actions, activities, today>>
    <3>1. job \in Jobs
      BY DEF IInv, TypeOK, Jobs
    <3> QED BY <1>2, <3>1 DEF CreateTaskForRevenueAction, Jobs
  <2>2. \A o, b : Basis(o, b)' = Basis(o, b)
    BY <2>1 DEF Basis, LatestActivity, NextBestActionType, IsQuiet
  <2> QED BY <2>1, <2>2 DEF EffectsOnApprovedEvidence
<1>3. CASE CreateActivityForRevenueAction
  <2> DEFINE a == job.action
  <2>1. /\ job.step = "activity" /\ job'.opp = job.opp /\ job'.action = a
        /\ UNCHANGED <<opportunity, actions, today>>
    <3>1. job \in Jobs
      BY DEF IInv, TypeOK, Jobs
    <3> QED BY <1>3, <3>1 DEF CreateActivityForRevenueAction, Jobs
  <2>2. a \in ActionIds
    BY <2>1 DEF IInv, JobInv, ExecSteps, EffectSteps
  <2>3. Basis(job.opp, a) = actions[a].basis /\ actions[a].approved
    BY <2>1 DEF EffectsOnApprovedEvidence
  <2>4. job.opp = actions[a].opp /\ job.opp # None
    BY <2>1, <2>2, <2>3, TitleAssumption DEF IInv, JobInv, SlotInv, ExecSteps, EffectSteps
  <2>5. \A v \in ActivityIds :
          \/ activities'[v] = activities[v]
          \/ activities[v].opp = None /\ activities'[v].link = a
    <3>1. CASE UNCHANGED activities
      BY <3>1
    <3>2. CASE ~UNCHANGED activities
      <4>1. PICK w, r :
              /\ w \in ActivityIds
              /\ IsNext(w, UsedActivities) /\ r.link = a
              /\ activities' = [activities EXCEPT ![w] = r]
        BY <1>3, <3>2 DEF CreateActivityForRevenueAction
      <4>2. activities[w].opp = None
        BY <4>1 DEF IsNext, UsedActivities, FreeActivities
      <4> QED BY <4>1, <4>2 DEF IInv, TypeOK
    <3> QED BY <3>1, <3>2
  <2>6. a # None
    BY <2>2, TableAssumption DEF ActionIds, None
  <2>7. \A v \in ActivityIds :
          /\ activities'[v].opp = job.opp /\ activities'[v].link # a
                <=> activities[v].opp = job.opp /\ activities[v].link # a
          /\ activities[v].opp = job.opp => activities'[v].day = activities[v].day
    BY <2>4, <2>5
  <2>8. PICK o, b : o = job.opp /\ b = a
    OBVIOUS
  <2>9. LatestActivity(o, b)' = LatestActivity(o, b)
    BY <2>6, <2>7, <2>8 DEF LatestActivity
  <2>10. \A v \in LatestActivity(o, b) : activities'[v].day = activities[v].day
    BY <2>7, <2>8 DEF LatestActivity
  <2>11. Basis(o, b)' = Basis(o, b)
    BY <2>1, <2>9, <2>10, SameBasis
  <2> QED BY <2>1, <2>3, <2>8, <2>11 DEF EffectsOnApprovedEvidence
<1>4. CASE UNCHANGED vars
  BY <1>4 DEF vars, EffectsOnApprovedEvidence, Basis, LatestActivity, NextBestActionType, IsQuiet
<1>5. CASE Next /\ job'.step \notin Due
  BY <1>5 DEF EffectsOnApprovedEvidence
<1>6. CASE EffectThrows
  <2>1. job'.step = "failed"
    BY <1>6 DEF EffectThrows, IInv, TypeOK
  <2> QED BY <2>1 DEF EffectsOnApprovedEvidence
<1> QED BY <1>1, <1>2, <1>3, <1>4, <1>5, <1>6, NothingDue

\* Whenever a write of an execution or of a retry is due, the opportunity shows
\* the evidence a human approved.
THEOREM ApprovedEvidence == Spec => []EffectsOnApprovedEvidence
<1>1. Init => FreeActivities /\ EffectsOnApprovedEvidence
  BY DEF Init, Idle, NoActivity, FreeActivities, EffectsOnApprovedEvidence
<1>2. IInv /\ FreeActivities /\ EffectsOnApprovedEvidence /\ [Next]_vars
      => FreeActivities' /\ EffectsOnApprovedEvidence'
  BY FreeActivitiesKept, EvidenceStep
<1> QED BY <1>1, <1>2, Invariance, PTL DEF Spec

-----------------------------------------------------------------------------
(* What becomes of an action that has touched the CRM.                     *)

\* The steps that may cancel an action.
LEMMA Cancels ==
    ASSUME IInv, [Next]_vars, NEW a \in ActionIds,
           actions[a].status # "CANCELLED", actions'[a].status = "CANCELLED"
    PROVE  \/ \E o \in Opportunities : MaterializeRevenueAction(o)
           \/ SupersedeStale(a) \/ CancelRevenueAction(a) \/ ExecuteStale(a)
<1>a. actions \in [ActionIds -> ActionRecords]
  BY DEF IInv, TypeOK
<1>b. ~UNCHANGED actions
  OBVIOUS
<1>1. ASSUME NEW b \in ActionIds, Lifecycle(b)
      PROVE  SupersedeStale(a) \/ CancelRevenueAction(a)
  <2>1. CASE b # a
    BY <1>1, <1>a, <2>1
    DEF Lifecycle, SupersedeStale, PrepareRevenueAction, ApproveRevenueAction,
        RejectRevenueAction, CancelRevenueAction, SetStatus
  <2>2. CASE b = a /\ (PrepareRevenueAction(a) \/ RejectRevenueAction(a))
    BY <1>a, <2>2 DEF PrepareRevenueAction, RejectRevenueAction, SetStatus, ActionRecords
  <2>3. CASE b = a /\ ApproveRevenueAction(a)
    BY <1>a, <2>3 DEF ApproveRevenueAction, ActionRecords
  <2> QED BY <1>1, <2>1, <2>2, <2>3 DEF Lifecycle
<1>2. ASSUME NEW b \in ActionIds, Execution(b) PROVE ExecuteStale(a)
  <2>1. CASE b # a
    BY <1>2, <1>a, <2>1
    DEF Execution, ReconcileExecution, ExecuteStale, StartExecution, ReplayExecuted, SetStatus,
        store
  <2>2. CASE b = a /\ ReconcileExecution(a)
    BY <1>a, <2>2 DEF ReconcileExecution, ActionRecords
  <2>3. CASE b = a /\ StartExecution(a)
    BY <1>a, <2>3 DEF StartExecution, ActionRecords
  <2>4. CASE ReplayExecuted(b)
    BY <1>b, <2>4 DEF ReplayExecuted, store
  <2> QED BY <1>2, <2>1, <2>2, <2>3, <2>4 DEF Execution
<1>3. CASE InsertRevenueAction
  BY <1>3, <1>a DEF InsertRevenueAction, NoAction
<1>4. CASE FinalizeExecution \/ FailExecution
  <2>1. job.action \in ActionIds
    BY <1>4 DEF FinalizeExecution, FailExecution, IInv, JobInv, ExecSteps, EffectSteps
  <2>2. actions[job.action] \in ActionRecords
    BY <1>a, <2>1
  <2>3. actions'[job.action].status \in {"EXECUTED", "FAILED"}
    <3>1. CASE FinalizeExecution
      BY <1>a, <2>1, <2>2, <3>1 DEF FinalizeExecution, ActionRecords
    <3>2. CASE FailExecution
      BY <1>a, <2>1, <2>2, <3>2 DEF FailExecution, ActionRecords
    <3> QED BY <1>4, <3>1, <3>2
  <2>4. \A b \in ActionIds : b # job.action => actions'[b] = actions[b]
    BY <1>4, <1>a DEF FinalizeExecution, FailExecution
  <2> QED BY <2>3, <2>4
<1>5. CASE Continue /\ ~InsertRevenueAction /\ ~FinalizeExecution /\ ~FailExecution
  BY <1>5, <1>b DEF Continue, CreateTaskForRevenueAction, CreateActivityForRevenueAction,
                    SetOpportunityNextAction, ObserveRevenueAction, RecordNextAction, RecordActivity
<1>6. ~(EffectThrows \/ Abort \/ UNCHANGED vars)
  BY <1>b DEF EffectThrows, Abort, vars, store
<1>7. ~Crm
  BY <1>b DEF Crm, UpdateOpportunityStage, AddContact, SetValue, CreateNextActionTask,
              PostTask, PatchTask, NextDay, CrmRequest, store
<1>8. \A b \in ActionIds : ~LinkCase(b)
  BY <1>b DEF LinkCase, store
<1> QED BY <1>1, <1>2, <1>3, <1>4, <1>5, <1>6, <1>7, <1>8 DEF Next

\* An action that owns effects is given up only by its own retry, and only when
\* an effect is missing and the opportunity shows other evidence than approved,
\* the action's task and activity set aside.
THEOREM KeepAction == Spec => EffectsKeepAction
<1>1. ASSUME IInv, [Next]_vars, NEW a \in ActionIds, HasEffects(a),
             actions[a].status # "CANCELLED", actions'[a].status = "CANCELLED"
      PROVE  /\ ~EffectsComplete(a) /\ job' = Idle
             /\ Basis(actions[a].opp, a) # actions[a].basis
  <2>1. actions[a].status \in {"EXECUTING", "FAILED", "EXECUTED"}
    BY <1>1 DEF IInv, EffectsOnceAndApproved
  <2>2. ASSUME NEW o \in Opportunities, MaterializeRevenueAction(o) PROVE FALSE
    <3>1. a \in Incompatible(o)
      BY <1>1, <2>2 DEF MaterializeRevenueAction, IInv, TypeOK
    <3>2. actions[a].status \in {"EXECUTING", "FAILED"}
      BY <2>1, <3>1 DEF Incompatible, ActiveActions, ActiveStatuses
    <3> QED BY <1>1, <2>2, <3>1, <3>2 DEF MaterializeRevenueAction, RecoveryRequired
  <2>3. ExecuteStale(a)
    BY <1>1, <2>1, <2>2, Cancels DEF SupersedeStale, CancelRevenueAction
  <2> QED BY <1>1, <2>3 DEF ExecuteStale, MayStart, EvidenceIsCurrent, SetStatus
<1>2. IInv /\ [Next]_vars =>
        [\A a \in ActionIds :
           HasEffects(a) /\ actions[a].status # "CANCELLED" /\ actions'[a].status = "CANCELLED"
           => /\ ~EffectsComplete(a) /\ job' = Idle
              /\ Basis(actions[a].opp, a) # actions[a].basis]_vars
  BY <1>1
<1> QED BY <1>2, Invariance, PTL DEF Spec, EffectsKeepAction

-----------------------------------------------------------------------------
(* The lifecycle over the JSON files implements the lifecycle contract, as  *)
(* long as the refresh of a response does not throw; and what the contract *)
(* says of settled actions then holds of the stored ones.                  *)

\* A failure is only recorded over an execution that is still running.
FailedInv == job.step = "failed" => actions[job.action].status = "EXECUTING"

\* Without a throwing refresh, no step schedules a failure over EXECUTED.
LEMMA FailedKept ==
    ASSUME "refreshThrow" \notin Faults, IInv, FailedInv, [Next]_vars
    PROVE  FailedInv'
<1>1. CASE EffectThrows
  <2>1. job'.action = job.action /\ actions' = actions
    BY <1>1 DEF EffectThrows, store, IInv, TypeOK
  <2>2. actions[job.action].status = "EXECUTING"
    BY <1>1 DEF EffectThrows, IInv, JobInv, EffectSteps
  <2> QED BY <2>1, <2>2 DEF FailedInv
<1>2. CASE CreateTaskForRevenueAction \/ CreateActivityForRevenueAction
  <2>1. job'.step # "failed"
    BY <1>2 DEF CreateTaskForRevenueAction, CreateActivityForRevenueAction, IInv, TypeOK
  <2> QED BY <2>1 DEF FailedInv
<1>3. ASSUME NEW a \in ActionIds, StartExecution(a) PROVE FailedInv'
  <2>1. job'.step # "failed"
    BY <1>3, FirstStep DEF StartExecution
  <2> QED BY <2>1 DEF FailedInv
<1>4. CASE UNCHANGED vars
  BY <1>4 DEF FailedInv, vars
<1>5. CASE Next /\ job'.step \notin DueOrFailed
  BY <1>5 DEF FailedInv, DueOrFailed
<1> QED BY <1>1, <1>2, <1>3, <1>4, <1>5, NothingDue

-----------------------------------------------------------------------------
(* Steps of the contract, from what a write does to the records.           *)

LinksSame ==
    /\ \A t \in TaskIds : tasks'[t].link = tasks[t].link
    /\ \A v \in ActivityIds : activities'[v].link = activities[v].link

\* Only action b may differ in its status and opportunity.
OthersSame(b) ==
    \A a \in ActionIds : a # b =>
        actions'[a].status = actions[a].status /\ actions'[a].opp = actions[a].opp

\* Writes that keep links, statuses and opportunities do not show in the contract.
LEMMA StutterRefines ==
    ASSUME LinksSame,
           \A a \in ActionIds :
              actions'[a].status = actions[a].status /\ actions'[a].opp = actions[a].opp
    PROVE  UNCHANGED Contract!vars
<1>1. \A a \in ActionIds : /\ LinkedTasks(a)' = LinkedTasks(a)
                           /\ LinkedActivities(a)' = LinkedActivities(a)
  BY DEF LinksSame, LinkedTasks, LinkedActivities
<1> QED BY <1>1 DEF Contract!vars

\* A change of one status, and of nothing else, is a move of the contract.
LEMMA MoveRefines ==
    ASSUME LinksSame, NEW a \in ActionIds, OthersSame(a),
           actions'[a].opp = actions[a].opp,
           NEW from, actions[a].status \in from,
           NEW to, actions'[a].status = to
    PROVE  Contract!Move(a, from, to)
<1>1. \A b \in ActionIds : /\ LinkedTasks(b)' = LinkedTasks(b)
                           /\ LinkedActivities(b)' = LinkedActivities(b)
  BY DEF LinksSame, LinkedTasks, LinkedActivities
<1> QED BY <1>1 DEF OthersSame, Contract!Move

\* A move of one status along the lifecycle is a step of the contract.
LEMMA StatusRefines ==
    ASSUME UNCHANGED <<tasks, activities>>, NEW a \in ActionIds, NEW to, StatusMove(a, to),
           \/ actions[a].status = "RECOMMENDED" /\ to = "PREPARED"
           \/ actions[a].status = "PREPARED" /\ to \in {"APPROVED", "REJECTED"}
           \/ actions[a].status \in ActiveStatuses /\ to = "CANCELLED"
           \/ actions[a].status \in {"APPROVED", "FAILED"} /\ to = "EXECUTING"
           \/ actions[a].status = "EXECUTING" /\ to = "FAILED"
           \/ /\ actions[a].status \in {"EXECUTING", "FAILED"} /\ to = "EXECUTED"
              /\ LinkedActivities(a) # {}
           \/ actions[a].status = to
    PROVE  [Contract!Next]_(Contract!vars)
<1>1. LinksSame /\ OthersSame(a)
  BY DEF LinksSame, OthersSame, StatusMove
<1>2. actions'[a].opp = actions[a].opp /\ actions'[a].status = to
  BY DEF StatusMove
<1>3. CASE actions[a].status = "RECOMMENDED" /\ to = "PREPARED"
  BY <1>1, <1>2, <1>3, MoveRefines DEF Contract!Next, Contract!Prepare
<1>4. CASE actions[a].status = "PREPARED" /\ to = "APPROVED"
  BY <1>1, <1>2, <1>4, MoveRefines DEF Contract!Next, Contract!Approve
<1>5. CASE actions[a].status = "PREPARED" /\ to = "REJECTED"
  BY <1>1, <1>2, <1>5, MoveRefines DEF Contract!Next, Contract!Reject
<1>6. CASE actions[a].status \in ActiveStatuses /\ to = "CANCELLED"
  BY <1>1, <1>2, <1>6, MoveRefines DEF Contract!Next, Contract!Cancel, Contract!Active, ActiveStatuses
<1>7. CASE actions[a].status \in {"APPROVED", "FAILED"} /\ to = "EXECUTING"
  BY <1>1, <1>2, <1>7, MoveRefines DEF Contract!Next, Contract!Start
<1>8. CASE actions[a].status = "EXECUTING" /\ to = "FAILED"
  BY <1>1, <1>2, <1>8, MoveRefines DEF Contract!Next, Contract!Fail
<1>9. CASE /\ actions[a].status \in {"EXECUTING", "FAILED"} /\ to = "EXECUTED"
           /\ LinkedActivities(a) # {}
  BY <1>1, <1>2, <1>9, MoveRefines DEF Contract!Next, Contract!Finish
<1>10. CASE actions[a].status = to
  BY <1>1, <1>2, <1>10, StutterRefines DEF OthersSame
<1> QED BY <1>3, <1>4, <1>5, <1>6, <1>7, <1>8, <1>9, <1>10

-----------------------------------------------------------------------------
(* The steps of the stored lifecycle.                                      *)

\* Prepare, approve, reject, cancel and supersede.
LEMMA LifecycleRefines ==
    ASSUME IInv, NEW a \in ActionIds, Lifecycle(a)
    PROVE  [Contract!Next]_(Contract!vars)
<1>0. TypeOK /\ UNCHANGED <<tasks, activities>>
  BY DEF IInv, Lifecycle, SupersedeStale, PrepareRevenueAction, ApproveRevenueAction,
         RejectRevenueAction, CancelRevenueAction, crm
<1>1. CASE SupersedeStale(a)
  BY <1>0, <1>1, SetStatusMove, StatusRefines DEF SupersedeStale, ActiveStatuses
<1>2. CASE PrepareRevenueAction(a)
  BY <1>0, <1>2, SetStatusMove, StatusRefines DEF PrepareRevenueAction
<1>3. CASE ApproveRevenueAction(a)
  <2>1. StatusMove(a, "APPROVED")
    BY <1>0, <1>3 DEF ApproveRevenueAction, StatusMove, TypeOK, ActionRecords
  <2> QED BY <1>0, <1>3, <2>1, StatusRefines DEF ApproveRevenueAction
<1>4. CASE RejectRevenueAction(a)
  BY <1>0, <1>4, SetStatusMove, StatusRefines DEF RejectRevenueAction
<1>5. CASE CancelRevenueAction(a)
  BY <1>0, <1>5, SetStatusMove, StatusRefines DEF CancelRevenueAction, ActiveStatuses
<1> QED BY <1>1, <1>2, <1>3, <1>4, <1>5 DEF Lifecycle

\* Begin, reconcile, give up and replay an execution.
LEMMA ExecutionRefines ==
    ASSUME IInv, NEW a \in ActionIds, Execution(a)
    PROVE  [Contract!Next]_(Contract!vars)
<1>0. TypeOK /\ UNCHANGED <<tasks, activities>>
  BY DEF IInv, Execution, ReconcileExecution, ExecuteStale, StartExecution, ReplayExecuted,
         crm, store
<1>a. actions[a] \in ActionRecords /\ actions \in [ActionIds -> ActionRecords]
  BY <1>0 DEF TypeOK
<1>1. CASE ReconcileExecution(a)
  <2>1. StatusMove(a, "EXECUTED") /\ LinkedActivities(a) # {}
    BY <1>1, <1>a DEF ReconcileExecution, StatusMove, ActionRecords, EffectsComplete
  <2> QED BY <1>0, <1>1, <2>1, StatusRefines DEF ReconcileExecution, InRecovery
<1>2. CASE ExecuteStale(a)
  <2>1. StatusMove(a, "CANCELLED")
    BY <1>0, <1>2, SetStatusMove DEF ExecuteStale
  <2>2. actions[a].status \in ActiveStatuses
    BY <1>2 DEF ExecuteStale, MayStart, Executable, InRecovery, ActiveStatuses
  <2> QED BY <1>0, <2>1, <2>2, StatusRefines
<1>3. CASE StartExecution(a)
  <2>1. StatusMove(a, "EXECUTING")
    BY <1>3, <1>a DEF StartExecution, StatusMove, ActionRecords
  <2>2. actions[a].status \in {"APPROVED", "FAILED", "EXECUTING"}
    BY <1>3 DEF StartExecution, MayStart, Executable, InRecovery
  <2> QED BY <1>0, <2>1, <2>2, StatusRefines
<1>4. CASE ReplayExecuted(a)
  BY <1>0, <1>4, StutterRefines DEF ReplayExecuted, store, LinksSame
<1> QED BY <1>1, <1>2, <1>3, <1>4 DEF Execution

\* Superseding is one step over the actions that have not touched the CRM.
LEMMA SupersedeRefines ==
    ASSUME IInv, NEW o \in Opportunities, MaterializeRevenueAction(o)
    PROVE  Contract!Next
<1>1. PICK S \in SUBSET ActionIds : S = Incompatible(o)
  BY DEF Incompatible, ActiveActions
<1>2. \A a \in S : actions[a].status \in ActiveStatuses /\ ~HasEffects(a)
  <2>1. \A a \in S : HasEffects(a) =>
          actions[a].status \in {"EXECUTING", "FAILED", "EXECUTED", "CANCELLED"}
    BY <1>1 DEF IInv, EffectsOnceAndApproved
  <2>2. \A a \in S : actions[a].status \in ActiveStatuses
    BY <1>1 DEF Incompatible, ActiveActions
  <2> QED BY <1>1, <2>1, <2>2 DEF MaterializeRevenueAction, RecoveryRequired, ActiveStatuses
<1>3. \A a \in S : LinkedTasks(a) = {} /\ LinkedActivities(a) = {}
  BY <1>2 DEF HasEffects
<1>4. \A a \in ActionIds :
        /\ actions'[a].status = IF a \in S THEN "CANCELLED" ELSE actions[a].status
        /\ actions'[a].opp = actions[a].opp
  <2>1. actions \in [ActionIds -> ActionRecords]
    BY DEF IInv, TypeOK
  <2> QED BY <1>1, <2>1 DEF MaterializeRevenueAction, ActionRecords
<1>5. UNCHANGED <<tasks, activities>>
  BY DEF MaterializeRevenueAction, crm
<1>6. \A a \in ActionIds : /\ LinkedTasks(a)' = LinkedTasks(a)
                           /\ LinkedActivities(a)' = LinkedActivities(a)
  BY <1>5 DEF LinkedTasks, LinkedActivities
<1>7. Contract!Supersede(S)
  <2>1. \A a \in S : a \in ActionIds
    BY <1>1
  <2> QED BY <1>2, <1>3, <1>4, <1>6, <2>1
          DEF Contract!Supersede, Contract!Active, ActiveStatuses
<1> QED BY <1>1, <1>7 DEF Contract!Next

\* Inserting a recommendation, unless an active action carries it.
LEMMA InsertRefines ==
    ASSUME IInv, InsertRevenueAction
    PROVE  [Contract!Next]_(Contract!vars)
<1>a. actions \in [ActionIds -> ActionRecords] /\ job.opp \in Opportunities
  BY DEF IInv, TypeOK, JobInv, InsertRevenueAction
<1>b. UNCHANGED <<tasks, activities>>
  BY DEF InsertRevenueAction, crm
<1>1. CASE Duplicate(job.opp)
  BY <1>1, <1>b, StutterRefines DEF InsertRevenueAction, LinksSame
<1>2. CASE ~Duplicate(job.opp)
  <2>1. PICK a \in ActionIds :
          /\ IsNext(a, UsedActions)
          /\ actions' = [actions EXCEPT ![a] =
               [NoAction EXCEPT !.status = "RECOMMENDED", !.opp = job.opp,
                                !.basis = Basis(job.opp, None)]]
    BY <1>2 DEF InsertRevenueAction
  <2>2. actions[a].status = "ABSENT"
    BY <2>1 DEF IsNext, UsedActions
  <2>3. /\ actions'[a].status = "RECOMMENDED" /\ actions'[a].opp = job.opp
        /\ \A b \in ActionIds : b # a => actions'[b] = actions[b]
    BY <1>a, <2>1 DEF NoAction
  <2>4. \A b \in ActionIds : actions[b].opp = job.opp => actions[b].status \notin ActiveStatuses
    BY <1>2 DEF InsertRevenueAction, IInv, SoleInv, Duplicate, ActiveActions
  <2>5. \A b \in ActionIds : /\ LinkedTasks(b)' = LinkedTasks(b)
                             /\ LinkedActivities(b)' = LinkedActivities(b)
    BY <1>b DEF LinkedTasks, LinkedActivities
  <2>6. PICK o \in Opportunities : o = job.opp
    BY <1>a
  <2>7. Contract!Recommend(a, o)
    BY <2>2, <2>3, <2>4, <2>5, <2>6
    DEF Contract!Recommend, Contract!Active, ActiveStatuses
  <2> QED BY <2>7 DEF Contract!Next
<1> QED BY <1>1, <1>2

\* The task write applies the task, or finds it applied.
LEMMA TaskRefines ==
    ASSUME IInv, CreateTaskForRevenueAction
    PROVE  [Contract!Next]_(Contract!vars)
<1>0. tasks \in [TaskIds -> TaskRecords] /\ UNCHANGED <<actions, activities>>
  BY DEF IInv, TypeOK, CreateTaskForRevenueAction
<1>1. PICK a \in ActionIds : a = job.action
  BY DEF CreateTaskForRevenueAction, IInv, JobInv, ExecSteps, EffectSteps
<1>2. actions[a].status = "EXECUTING" /\ ~IsCommunication(a) /\ a # None
  BY <1>1, TableAssumption
  DEF CreateTaskForRevenueAction, IInv, JobInv, EffectSteps, ActionIds, None
<1>3. CASE UNCHANGED tasks
  BY <1>0, <1>3, StutterRefines DEF LinksSame
<1>4. CASE ~UNCHANGED tasks
  <2>1. PICK t \in TaskIds :
          /\ EffectTask(a, t) /\ tasks[t].link # a
          /\ tasks' = [tasks EXCEPT ![t] =
               [(IF tasks[t].status # "ABSENT" THEN tasks[t]
                 ELSE [NoTask EXCEPT !.status = "OPEN", !.opp = job.opp,
                                     !.source = "revenue_action",
                                     !.title = Proposal(a).title,
                                     !.terms = Proposal(a).terms])
                EXCEPT !.link = a, !.type = actions[a].basis.type, !.key = ProposedKey(a)]]
    BY <1>1, <1>4 DEF CreateTaskForRevenueAction
  <2>2. LinkedTasks(a) = {}
    BY <2>1 DEF EffectTask, LinkedTasks
  <2>3. LinkedActivities(a) = {}
    <3> SUFFICES ASSUME NEW v \in ActivityIds, activities[v].link = a PROVE FALSE
      BY DEF LinkedActivities
    <3>1. activities[v].task \in TaskIds /\ tasks[activities[v].task].link = a
      BY <1>2 DEF IInv, LinkInv
    <3> QED BY <2>2, <3>1 DEF LinkedTasks
  <2>4. tasks[t].link = None
    BY <2>1, <2>2 DEF EffectTask, IsEquivalentOpenTask, IsNext, UsedTasks, IInv, SlotInv
  <2>5. /\ tasks'[t].link = a
        /\ \A u \in TaskIds : u # t => tasks'[u] = tasks[u]
    <3>1. CASE tasks[t].status # "ABSENT"
      BY <1>0, <2>1, <3>1 DEF TaskRecords
    <3>2. CASE tasks[t].status = "ABSENT"
      BY <1>0, <2>1, <3>2 DEF NoTask
    <3> QED BY <3>1, <3>2
  <2>6. \A b \in ActionIds : b # None
    BY TableAssumption DEF ActionIds, None
  <2>7. /\ LinkedTasks(a)' = {t}
        /\ \A b \in ActionIds : b # a => LinkedTasks(b)' = LinkedTasks(b)
        /\ \A b \in ActionIds : LinkedActivities(b)' = LinkedActivities(b)
    BY <1>0, <2>2, <2>4, <2>5, <2>6 DEF LinkedTasks, LinkedActivities
  <2>8. Contract!ApplyTask(a, t)
    BY <1>0, <1>2, <2>2, <2>3, <2>7 DEF Contract!ApplyTask
  <2> QED BY <2>8 DEF Contract!Next
<1> QED BY <1>3, <1>4

\* The activity write applies the activity, or finds it applied.
LEMMA ActivityRefines ==
    ASSUME IInv, CreateActivityForRevenueAction
    PROVE  [Contract!Next]_(Contract!vars)
<1>0. activities \in [ActivityIds -> ActivityRecords] /\ UNCHANGED <<actions, tasks>>
  BY DEF IInv, TypeOK, CreateActivityForRevenueAction
<1>1. PICK a \in ActionIds : a = job.action
  BY DEF CreateActivityForRevenueAction, IInv, JobInv, ExecSteps, EffectSteps
<1>2. actions[a].status = "EXECUTING"
  BY <1>1 DEF CreateActivityForRevenueAction, IInv, JobInv, EffectSteps
<1>3. CASE UNCHANGED activities
  BY <1>0, <1>3, StutterRefines DEF LinksSame
<1>4. CASE ~UNCHANGED activities
  <2>1. PICK v, r :
          /\ v \in ActivityIds
          /\ LinkedActivities(a) = {} /\ IsNext(v, UsedActivities) /\ r.link = a
          /\ activities' = [activities EXCEPT ![v] = r]
    BY <1>1, <1>4 DEF CreateActivityForRevenueAction
  <2>2. activities[v].link = None
    BY <2>1 DEF IsNext, UsedActivities, IInv, SlotInv
  <2>3. /\ activities'[v].link = a
        /\ \A u \in ActivityIds : u # v => activities'[u] = activities[u]
    BY <1>0, <2>1
  <2>4. \A b \in ActionIds : b # None
    BY TableAssumption DEF ActionIds, None
  <2>5. /\ LinkedActivities(a)' = {v}
        /\ \A b \in ActionIds : b # a => LinkedActivities(b)' = LinkedActivities(b)
        /\ \A b \in ActionIds : LinkedTasks(b)' = LinkedTasks(b)
    BY <1>0, <2>1, <2>2, <2>3, <2>4 DEF LinkedTasks, LinkedActivities
  <2>6. Contract!ApplyActivity(a, v)
    BY <1>0, <1>2, <2>1, <2>5 DEF Contract!ApplyActivity
  <2> QED BY <2>1, <2>6 DEF Contract!Next
<1> QED BY <1>3, <1>4

\* The final write of an execution, and the record of its failure.
LEMMA FinishRefines ==
    ASSUME IInv, FailedInv, FinalizeExecution \/ FailExecution
    PROVE  [Contract!Next]_(Contract!vars)
<1>0. actions \in [ActionIds -> ActionRecords] /\ UNCHANGED <<tasks, activities>>
  BY DEF IInv, TypeOK, FinalizeExecution, FailExecution, crm
<1>1. PICK a \in ActionIds : a = job.action
  BY DEF FinalizeExecution, FailExecution, IInv, JobInv, ExecSteps, EffectSteps
<1>2. actions[a].status = "EXECUTING" /\ actions[a] \in ActionRecords
  BY <1>0, <1>1
  DEF FinalizeExecution, FailExecution, FailedInv, IInv, JobInv, EffectSteps
<1>3. CASE FinalizeExecution
  <2>1. StatusMove(a, "EXECUTED") /\ LinkedActivities(a) # {}
    <3>1. PICK v \in LinkedActivities(a) :
            actions' = [actions EXCEPT ![a] = [actions[a] EXCEPT !.status = "EXECUTED",
                                                !.task = job.task, !.activity = v]]
      BY <1>1, <1>3 DEF FinalizeExecution
    <3> QED BY <1>0, <1>2, <3>1 DEF StatusMove, ActionRecords
  <2> QED BY <1>0, <1>2, <2>1, StatusRefines
<1>4. CASE FailExecution
  <2>1. StatusMove(a, "FAILED")
    BY <1>0, <1>1, <1>2, <1>4 DEF FailExecution, StatusMove, ActionRecords
  <2> QED BY <1>0, <1>2, <2>1, StatusRefines
<1> QED BY <1>3, <1>4

\* A new record in a free slot, linked to nothing, does not show in the contract.
LEMMA NewTaskRefines ==
    ASSUME IInv, UNCHANGED <<actions, activities>>, NEW t \in TaskIds, IsNext(t, UsedTasks),
           NEW r, r.link = None, tasks' = [tasks EXCEPT ![t] = r]
    PROVE  UNCHANGED Contract!vars
<1>1. tasks \in [TaskIds -> TaskRecords]
  BY DEF IInv, TypeOK
<1>2. tasks[t].link = None
  BY DEF IsNext, UsedTasks, IInv, SlotInv
<1> QED BY <1>1, <1>2, StutterRefines DEF LinksSame

\* The CRM requests, and the writes they go on with, do not show in the contract.
LEMMA CrmRefines ==
    ASSUME IInv, Crm \/ RecordNextAction \/ RecordActivity
    PROVE  UNCHANGED Contract!vars
<1>a. tasks \in [TaskIds -> TaskRecords] /\ activities \in [ActivityIds -> ActivityRecords]
  BY DEF IInv, TypeOK
<1>b. CASE UNCHANGED <<actions, tasks, activities>>
  BY <1>b, StutterRefines DEF LinksSame
<1>1. ASSUME NEW o, \/ \E s \in Stages : UpdateOpportunityStage(o, s)
                    \/ AddContact(o) \/ SetValue(o)
      PROVE  UNCHANGED <<actions, tasks, activities>>
  BY <1>1 DEF UpdateOpportunityStage, AddContact, SetValue, CrmRequest
<1>2. ASSUME NEW o, NEW r, CreateNextActionTask(o, r) PROVE UNCHANGED Contract!vars
  <2>1. UNCHANGED <<actions, activities>>
    BY <1>2 DEF CreateNextActionTask, CrmRequest
  <2>2. CASE UNCHANGED tasks
    BY <1>b, <2>1, <2>2
  <2>3. CASE ~UNCHANGED tasks
    <3>1. PICK t \in TaskIds :
            /\ IsNext(t, UsedTasks)
            /\ tasks' = [tasks EXCEPT ![t] =
                 [NoTask EXCEPT !.status = "OPEN", !.opp = o, !.source = "deal_intelligence",
                                !.title = r.title, !.terms = r.terms,
                                !.type = r.type, !.key = TitleKey[r.title]]]
      BY <1>2, <2>3 DEF CreateNextActionTask
    <3> DEFINE new == [NoTask EXCEPT !.status = "OPEN", !.opp = o, !.source = "deal_intelligence",
                                     !.title = r.title, !.terms = r.terms,
                                     !.type = r.type, !.key = TitleKey[r.title]]
    <3>2. new.link = None
      BY DEF NoTask
    <3> HIDE DEF new
    <3>3. tasks' = [tasks EXCEPT ![t] = new]
      BY <3>1 DEF new
    <3> QED BY <2>1, <3>1, <3>2, <3>3, NewTaskRefines
  <2> QED BY <2>2, <2>3
<1>3. ASSUME NEW o, NEW r, PostTask(o, r) PROVE UNCHANGED Contract!vars
  <2>1. UNCHANGED <<actions, activities>>
    BY <1>3 DEF PostTask, CrmRequest
  <2> DEFINE new == [NoTask EXCEPT !.status = "OPEN", !.opp = o, !.source = "manual",
                                   !.title = r.title, !.terms = r.terms]
  <2>2. PICK t \in TaskIds : IsNext(t, UsedTasks) /\ tasks' = [tasks EXCEPT ![t] = new]
    BY <1>3 DEF PostTask
  <2>3. new.link = None
    BY DEF NoTask
  <2> HIDE DEF new
  <2> QED BY <2>1, <2>2, <2>3, NewTaskRefines
<1>4. ASSUME NEW t \in TaskIds, NEW status, NEW title, NEW terms,
             PatchTask(t, status, title, terms)
      PROVE  UNCHANGED Contract!vars
  <2>1. /\ UNCHANGED <<actions, activities>>
        /\ tasks' = [tasks EXCEPT ![t] = [tasks[t] EXCEPT !.status = status, !.title = title,
                                                        !.terms = terms]]
    BY <1>4 DEF PatchTask
  <2>2. tasks'[t].link = tasks[t].link
    BY <1>a, <2>1 DEF TaskRecords
  <2>3. \A u \in TaskIds : u # t => tasks'[u] = tasks[u]
    BY <1>a, <2>1
  <2> QED BY <2>1, <2>2, <2>3, StutterRefines DEF LinksSame
<1>5. CASE NextDay \/ RecordNextAction
  BY <1>b, <1>5 DEF NextDay, RecordNextAction, store
<1>6. CASE RecordActivity
  <2>1. CASE UNCHANGED activities
    BY <1>b, <1>6, <2>1 DEF RecordActivity
  <2>2. CASE ~UNCHANGED activities
    <3>1. PICK v, r :
            /\ v \in ActivityIds
            /\ IsNext(v, UsedActivities) /\ r.link = None
            /\ activities' = [activities EXCEPT ![v] = r]
      BY <1>6, <2>2 DEF RecordActivity
    <3>2. activities[v].link = None
      BY <3>1 DEF IsNext, UsedActivities, IInv, SlotInv
    <3>3. UNCHANGED <<actions, tasks>>
      BY <1>6 DEF RecordActivity
    <3> QED BY <1>a, <3>1, <3>2, <3>3, StutterRefines DEF LinksSame
  <2> QED BY <2>1, <2>2
<1> QED BY <1>b, <1>1, <1>2, <1>3, <1>4, <1>5, <1>6 DEF Crm

-----------------------------------------------------------------------------
(* The theorems.                                                           *)

\* The empty collections are the initial state of the contract.
LEMMA InitRefines == Init => Contract!Init
<1> SUFFICES ASSUME Init PROVE Contract!Init
  OBVIOUS
<1>1. \A a \in ActionIds : a # None
  BY TableAssumption DEF ActionIds, None
<1>2. \A a \in ActionIds : LinkedTasks(a) = {} /\ LinkedActivities(a) = {}
  BY <1>1 DEF Init, NoTask, NoActivity, LinkedTasks, LinkedActivities
<1>3. \A a \in ActionIds : actions[a].status = "ABSENT" /\ actions[a].opp = None
  BY DEF Init, NoAction
<1> QED BY <1>2, <1>3 DEF Contract!Init

\* Every file write and fault is a step of the contract, or does not show in it.
LEMMA NextRefines ==
    ASSUME IInv, FailedInv, [Next]_vars
    PROVE  [Contract!Next]_(Contract!vars)
<1>1. CASE UNCHANGED <<actions, tasks, activities>>
  BY <1>1, StutterRefines DEF LinksSame
<1>2. CASE EffectThrows \/ Abort \/ UNCHANGED vars
  BY <1>1, <1>2 DEF EffectThrows, Abort, store, vars
<1>3. ASSUME NEW a \in ActionIds, LinkCase(a) PROVE UNCHANGED <<actions, tasks, activities>>
  BY <1>3 DEF LinkCase, store
<1>4. CASE SetOpportunityNextAction \/ ObserveRevenueAction
  BY <1>1, <1>4 DEF SetOpportunityNextAction, ObserveRevenueAction, crm
<1> QED
  BY <1>1, <1>2, <1>3, <1>4, LifecycleRefines, ExecutionRefines, SupersedeRefines,
     InsertRefines, TaskRefines, ActivityRefines, FinishRefines, CrmRefines
  DEF Next, Continue

\* The stored lifecycle implements the contract when no response refresh throws.
THEOREM Refinement ==
    ASSUME "refreshThrow" \notin Faults
    PROVE  Spec => ImplementsContract
<1>1. Init => FailedInv
  BY DEF Init, Idle, FailedInv
<1>2. IInv /\ FailedInv /\ [Next]_vars => FailedInv'
  BY FailedKept
<1>3. IInv /\ FailedInv /\ [Next]_vars => [Contract!Next]_(Contract!vars)
  BY NextRefines
<1> QED BY <1>1, <1>2, <1>3, InitRefines, Invariance, PTL
        DEF Spec, ImplementsContract, Contract!Spec

\* A step of the contract leaves settled actions settled.
LEMMA ContractSettled ==
    ASSUME [Contract!Next]_(Contract!vars), NEW a \in ActionIds,
           actions[a].status \in {"EXECUTED", "REJECTED", "CANCELLED"}
    PROVE  actions'[a].status = actions[a].status
<1>1. CASE UNCHANGED Contract!vars
  BY <1>1 DEF Contract!vars
<1>2. ASSUME NEW b \in ActionIds, NEW from, NEW to, Contract!Move(b, from, to),
             from \cap {"EXECUTED", "REJECTED", "CANCELLED"} = {}
      PROVE  actions'[a].status = actions[a].status
  BY <1>2 DEF Contract!Move
<1>3. ASSUME NEW b \in ActionIds,
             \/ \E o \in Opportunities : Contract!Recommend(b, o)
             \/ \E t \in TaskIds : Contract!ApplyTask(b, t)
             \/ \E v \in ActivityIds : Contract!ApplyActivity(b, v)
      PROVE  actions'[a].status = actions[a].status
  BY <1>3 DEF Contract!Recommend, Contract!ApplyTask, Contract!ApplyActivity
<1>4. ASSUME NEW S \in SUBSET ActionIds, Contract!Supersede(S)
      PROVE  actions'[a].status = actions[a].status
  BY <1>4 DEF Contract!Supersede, Contract!Active
<1> QED
  BY <1>1, <1>2, <1>3, <1>4
  DEF Contract!Next, Contract!Prepare, Contract!Approve, Contract!Reject, Contract!Cancel,
      Contract!Start, Contract!Fail, Contract!Finish, Contract!Active

\* Executed, rejected and cancelled actions are final when no response refresh throws.
THEOREM SettledFinal ==
    ASSUME "refreshThrow" \notin Faults
    PROVE  Spec => SettledIsFinal
<1>1. Init => FailedInv
  BY DEF Init, Idle, FailedInv
<1>2. IInv /\ FailedInv /\ [Next]_vars => FailedInv'
  BY FailedKept
<1>3. IInv /\ FailedInv /\ [Next]_vars =>
        [\A a \in ActionIds : actions[a].status \in {"EXECUTED", "REJECTED", "CANCELLED"}
            => actions'[a].status = actions[a].status]_vars
  BY NextRefines, ContractSettled
<1> QED BY <1>1, <1>2, <1>3, Invariance, PTL DEF Spec, SettledIsFinal
=============================================================================
