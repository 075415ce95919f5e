-------------------------- MODULE RevenueLeakCases --------------------------
(***************************************************************************)
(* Revenue leak cases over the local JSON store: detections reconciled     *)
(* into one history per opportunity, the human transitions of a case, the  *)
(* portfolio scan, and the handoff that materializes a RevenueAction and   *)
(* links it to the case that called for it.                                *)
(*                                                                         *)
(* As in RevenueActions, a request never interleaves with another, but it  *)
(* may stop between two file writes: an action is one write, `job' is what *)
(* the running request has still to do, and Abort is the loss of it.       *)
(*                                                                         *)
(* Abstractions.  A case series is its opportunity (one detector, one leak *)
(* type), a semantic key is a value of Keys, and a RevenueAction's type    *)
(* and basis fingerprint are one value of Bases.  What the stalled-        *)
(* opportunity detector and deal intelligence say of an opportunity is     *)
(* read from `facts', which the CRM and the passing days change at will.   *)
(* Only the order of the detection times of one series matters: `at'       *)
(* counts the distinct instants, and ClockSteps says how the server clock  *)
(* may move from one detection to the next.  The audit list of a case is   *)
(* its history of transitions, so its replay is not modelled.              *)
(***************************************************************************)
EXTENDS Integers, Sequences, FiniteSets

CONSTANTS
    Opportunities,   \* ids of the opportunities
    Imported,        \* those that a customer import created
    Keys,            \* semantic keys a detection may have
    Nothing,         \* there is nothing to detect, or to recommend
    Bases,           \* recommendations: action type and basis fingerprint
    TaskBases,       \* those of them whose action type is CREATE_TASK
    FactSet,         \* bound: the facts an opportunity may have
    Clients,         \* bound: opportunities clients send detections of
    ClockSteps,      \* bound: moves of the clock between two detections
    Crashes,         \* bound: whether requests are interrupted
    MaxCases, MaxActions

ActionIds == 1 .. MaxActions
None == 0

ASSUME BoundAssumption == MaxCases \in Nat /\ MaxActions \in Nat

ASSUME FactAssumption ==
    /\ Nothing \notin Keys \cup Bases /\ TaskBases \subseteq Bases /\ Bases # {}
    /\ FactSet \subseteq [leak : Keys \cup {Nothing}, basis : Bases \cup {Nothing}]

ASSUME InputAssumption ==
    /\ Imported \subseteq Opportunities /\ Clients \subseteq Opportunities
    /\ ClockSteps \subseteq {"later", "same", "earlier"} /\ Crashes \in BOOLEAN

VARIABLES
    facts,     \* per opportunity, its current detection and recommendation
    cases,     \* revenue_leak_cases.json, in file order
    actions,   \* revenue_actions.json
    events,    \* pilot_evidence_events.json: scan and link milestones
    job,       \* what the running request still has to do
    refused    \* the collection that the last request could not write: empty,
               \* or one that the validation found to be inconsistent

vars == <<facts, cases, actions, events, job, refused>>

ActiveStates == {"OPEN", "SNOOZED"}

CaseRecords ==
    [opp : Opportunities, key : Keys, at : Int,
     state : ActiveStates \cup {"DISMISSED", "SUPERSEDED"},
     pred : Nat, succ : Nat, action : ActionIds \cup {None}, fp : Bases]

ActionRecords ==
    [status : {"ABSENT", "OPEN", "RECOVERING", "DONE"},
     opp : Opportunities \cup {None}, basis : Bases]

ActiveStatuses == {"OPEN", "RECOVERING"}

SomeBasis == CHOOSE b \in Bases : TRUE

NoAction == [status |-> "ABSENT", opp |-> None, basis |-> SomeBasis]

\* The next write of the request is step s, for case i of opportunity o.
Job(s, o, i, a) == [step |-> s, opp |-> o, case |-> i, action |-> a,
                    todo |-> {}, draft |-> <<>>]

Idle == Job("idle", None, None, None)

-----------------------------------------------------------------------------
(* The collection of cases: its order, and what a write of it must satisfy *)

Series(cs, o) == {i \in DOMAIN cs : cs[i].opp = o}

Active(cs, o) == {i \in Series(cs, o) : cs[i].state \in ActiveStates}

\* Mutant: the series is sorted oldest first.
NewestOldestFirst(cs, o) ==
    {i \in Series(cs, o) : \A j \in Series(cs, o) : i <= j}

\* The head of the series sorted by detection time, latest first: the sort is
\* stable, so cases of one instant keep their file order.
Newest(cs, o) ==
    {i \in Series(cs, o) : \A j \in Series(cs, o) :
        cs[j].at < cs[i].at \/ (cs[j].at = cs[i].at /\ i <= j)}

\* The case a new detection follows: the active one, else the newest.
Predecessor(cs, o) == IF Active(cs, o) # {} THEN Active(cs, o) ELSE Newest(cs, o)

OneActivePerSeries(cs) ==
    \A i, j \in DOMAIN cs :
        /\ cs[i].state \in ActiveStates /\ cs[j].state \in ActiveStates
        /\ cs[i].opp = cs[j].opp
        => i = j

\* findRevenueActionReference and the fingerprint of the link.
LinksResolve(cs) ==
    \A i \in DOMAIN cs : cs[i].action # None =>
        LET a == actions[cs[i].action]
        IN  a.status # "ABSENT" /\ a.opp = cs[i].opp /\ a.basis = cs[i].fp

PredecessorsAgree(cs) ==
    \A i \in DOMAIN cs : cs[i].pred # None =>
        /\ cs[i].pred \in DOMAIN cs
        /\ LET p == cs[cs[i].pred]
           IN  /\ p.opp = cs[i].opp /\ p.at <= cs[i].at
               /\ p.state = "SUPERSEDED" => p.succ = i

SuccessorsAgree(cs) ==
    \A i \in DOMAIN cs : cs[i].succ # None =>
        /\ cs[i].succ \in DOMAIN cs
        /\ cs[cs[i].succ].opp = cs[i].opp /\ cs[cs[i].succ].pred = i

\* validateCaseCollection, which every read and every write passes through.
Valid(cs) ==
    /\ OneActivePerSeries(cs)
    /\ LinksResolve(cs)
    /\ PredecessorsAgree(cs)
    /\ SuccessorsAgree(cs)

\* writeCases: an invalid collection is refused and the file stays as it was.
WriteCases(cs) ==
    IF Valid(cs) THEN cases' = cs /\ refused' = <<>>
                 ELSE UNCHANGED cases /\ refused' = cs

-----------------------------------------------------------------------------
(* Reconciliation of one detection                                         *)

NewCase(o, k, t, p) ==
    [opp |-> o, key |-> k, at |-> t, state |-> "OPEN", pred |-> p, succ |-> None,
     action |-> None, fp |-> SomeBasis]

\* Mutant: the predecessor stays active when its evidence is replaced.
ReconcileRecordKeepingActive(cs, o, k, t) ==
    IF \E p \in Predecessor(cs, o) : cs[p].key = k THEN cs
    ELSE IF Predecessor(cs, o) = {} THEN Append(cs, NewCase(o, k, t, None))
    ELSE LET p == CHOOSE i \in Predecessor(cs, o) : TRUE
         IN  Append(cs, NewCase(o, k, t, p))

\* Mutant: a terminal case does not answer for its evidence.
ReconcileRecordReopening(cs, o, k, t) ==
    IF \E p \in Active(cs, o) : cs[p].key = k THEN cs
    ELSE IF Predecessor(cs, o) = {} THEN Append(cs, NewCase(o, k, t, None))
    ELSE LET p == CHOOSE i \in Predecessor(cs, o) : TRUE
             superseded == [cs EXCEPT ![p] = [@ EXCEPT !.state = "SUPERSEDED",
                                                       !.succ = Len(cs) + 1]]
         IN  Append(IF p \in Active(cs, o) THEN superseded ELSE cs,
                    NewCase(o, k, t, p))

\* reconcileRecord: a replay, of the active case or of the newest terminal one,
\* leaves the history alone; other evidence opens a case that follows it.
ReconcileRecord(cs, o, k, t) ==
    IF \E p \in Predecessor(cs, o) : cs[p].key = k THEN cs
    ELSE IF Predecessor(cs, o) = {} THEN Append(cs, NewCase(o, k, t, None))
    ELSE LET p == CHOOSE i \in Predecessor(cs, o) : TRUE
             superseded == [cs EXCEPT ![p] = [@ EXCEPT !.state = "SUPERSEDED",
                                                       !.succ = Len(cs) + 1]]
         IN  Append(IF p \in Active(cs, o) THEN superseded ELSE cs,
                    NewCase(o, k, t, p))

\* t may be the time of a detection of opportunity o, after those of cs.
DetectedAt(cs, o, t) ==
    IF Series(cs, o) = {} THEN t = 0
    ELSE \E i \in Newest(cs, o) :
            \/ "later" \in ClockSteps /\ t = cs[i].at + 1
            \/ "same" \in ClockSteps /\ t = cs[i].at
            \/ "earlier" \in ClockSteps /\ t = cs[i].at - 1

Instants(cs) == -1 .. (Len(cs) + 1)

-----------------------------------------------------------------------------
Init ==
    /\ facts \in [Opportunities -> FactSet]
    /\ cases = <<>>
    /\ actions = [a \in ActionIds |-> NoAction]
    /\ events = {}
    /\ job = Idle
    /\ refused = <<>>

\* A detection a client authored (reconcileRevenueLeakCase) ...
Reconcile(o, k) ==
    /\ job = Idle
    /\ \E t \in Instants(cases) :
         /\ DetectedAt(cases, o, t)
         /\ WriteCases(ReconcileRecord(cases, o, k, t))
    /\ Len(cases') <= MaxCases        \* bound
    /\ UNCHANGED <<facts, actions, events, job>>

\* ... or the detector's own (detectStalledOpportunity).
DetectStalledOpportunity(o) ==
    /\ facts[o].leak # Nothing
    /\ Reconcile(o, facts[o].leak)

-----------------------------------------------------------------------------
(* scanStalledOpportunities: every detection is reconciled in memory, in    *)
(* `draft', and the collection is replaced once.                           *)

Detected == {o \in Opportunities : facts[o].leak # Nothing}

\* Bound: the new cases of a scan find room.
ScanRoom ==
    Len(cases) + Cardinality({o \in Detected : ReconcileRecord(cases, o, facts[o].leak, 0) # cases})
        <= MaxCases

ScanStalledOpportunities ==
    /\ job = Idle
    /\ ScanRoom
    /\ job' = [Idle EXCEPT !.step = "scan", !.draft = cases, !.todo = Detected]
    /\ UNCHANGED <<facts, cases, actions, events, refused>>

ReconcileInBatch(o) ==
    /\ job.step = "scan"
    /\ o \in job.todo
    /\ \E t \in Instants(job.draft) :
         /\ DetectedAt(job.draft, o, t)
         /\ job' = [job EXCEPT !.todo = @ \ {o},
                     !.draft = ReconcileRecord(@, o, facts[o].leak, t)]
    /\ UNCHANGED <<facts, cases, actions, events, refused>>

\* Nothing is written when the batch only replayed.
WriteBatch ==
    /\ job.step = "scan"
    /\ job.todo = {}
    /\ IF Len(job.draft) = Len(cases)
       THEN cases' = cases /\ refused' = <<>>
       ELSE WriteCases(job.draft)
    /\ job' = IF refused' = <<>> THEN [Idle EXCEPT !.step = "scanEvent"] ELSE Idle
    /\ UNCHANGED <<facts, actions, events>>

\* PORTFOLIO_SCAN_COMPLETED is recorded once per tenant.
AppendScanEvent ==
    /\ job.step = "scanEvent"
    /\ events' = events \cup {<<"scan">>}
    /\ job' = Idle
    /\ UNCHANGED <<facts, cases, actions, refused>>

-----------------------------------------------------------------------------
(* The human transitions of a case                                         *)

\* Mutant: the state is written under another name.
SnoozeMisnamed(i) ==
    /\ job = Idle
    /\ cases[i].state = "OPEN"
    /\ WriteCases([cases EXCEPT ![i].state = "SNOOZE"])
    /\ UNCHANGED <<facts, actions, events, job>>

Snooze(i) ==
    /\ job = Idle
    /\ cases[i].state = "OPEN"
    /\ WriteCases([cases EXCEPT ![i].state = "SNOOZED"])
    /\ UNCHANGED <<facts, actions, events, job>>

Resume(i) ==
    /\ job = Idle
    /\ cases[i].state = "SNOOZED"
    /\ WriteCases([cases EXCEPT ![i].state = "OPEN"])
    /\ UNCHANGED <<facts, actions, events, job>>

\* Mutant: a superseded case can still be dismissed.
DismissAny(i) ==
    /\ job = Idle
    /\ cases[i].state # "DISMISSED"
    /\ WriteCases([cases EXCEPT ![i].state = "DISMISSED"])
    /\ UNCHANGED <<facts, actions, events, job>>

Dismiss(i) ==
    /\ job = Idle
    /\ cases[i].state \in ActiveStates
    /\ WriteCases([cases EXCEPT ![i].state = "DISMISSED"])
    /\ UNCHANGED <<facts, actions, events, job>>

-----------------------------------------------------------------------------
(* linkRevenueAction, alone and as the end of a handoff                    *)

\* The collection with action a linked to case i, unless a link is there.
Linked(i, a) ==
    IF cases[i].action # None THEN cases
    ELSE [cases EXCEPT ![i] = [@ EXCEPT !.action = a, !.fp = actions[a].basis]]

MayLink(i, a) ==
    /\ cases[i].state \in ActiveStates
    /\ cases[i].action \in {None, a}
    /\ actions[a].status # "ABSENT"
    /\ actions[a].opp = cases[i].opp

\* A client links an action of its choice: no evidence is compared.
LinkRevenueAction(i, a) ==
    /\ job = Idle
    /\ MayLink(i, a)
    /\ WriteCases(Linked(i, a))
    /\ UNCHANGED <<facts, actions, events, job>>

-----------------------------------------------------------------------------
(* The RevenueActions of an opportunity, as a handoff sees them            *)

ActiveActions(o) ==
    {a \in ActionIds : actions[a].opp = o /\ actions[a].status \in ActiveStatuses}

Incompatible(o) == {a \in ActiveActions(o) : actions[a].basis # facts[o].basis}

Reusable(o) == {a \in ActiveActions(o) : actions[a].basis = facts[o].basis}

\* An action that owns effects blocks until its own recovery has settled them.
RecoveryRequired(o) == \E a \in Incompatible(o) : actions[a].status = "RECOVERING"

UsedActions == {a \in ActionIds : actions[a].status # "ABSENT"}

\* Mutant: an action on other evidence is brought up to date instead.
StartMaterializeRefreshing(o, i) ==
    /\ facts[o].basis # Nothing
    /\ ~RecoveryRequired(o)
    /\ UsedActions # ActionIds
    /\ actions' = [a \in ActionIds |->
                     IF a \in Incompatible(o)
                     THEN [actions[a] EXCEPT !.basis = facts[o].basis]
                     ELSE actions[a]]
    /\ job' = Job("insert", o, i, None)
    /\ UNCHANGED <<facts, cases, events, refused>>

\* The first write of a materialization, for case i or (None) for a client.
StartMaterialize(o, i) ==
    /\ facts[o].basis # Nothing
    /\ ~RecoveryRequired(o)
    /\ UsedActions # ActionIds
    /\ actions' = [a \in ActionIds |->
                     IF a \in Incompatible(o)
                     THEN [actions[a] EXCEPT !.status = "DONE"]
                     ELSE actions[a]]
    /\ job' = Job("insert", o, i, None)
    /\ UNCHANGED <<facts, cases, events, refused>>

MaterializeRevenueAction(o) == job = Idle /\ StartMaterialize(o, None)

\* Mutant: an action that is there already is not reused.
InsertAlways(a) ==
    /\ job.step = "insert"
    /\ a \notin UsedActions /\ \A b \in 1 .. (a - 1) : b \in UsedActions
    /\ actions' = [actions EXCEPT ![a] = [status |-> "OPEN", opp |-> job.opp,
                                          basis |-> facts[job.opp].basis]]
    /\ job' = IF job.case = None THEN Idle ELSE Job("link", job.opp, job.case, a)
    /\ UNCHANGED <<facts, cases, events, refused>>

\* Mutant: the milestone is recorded before the link.
InsertUnlinked(a) ==
    /\ job.step = "insert"
    /\ IF Reusable(job.opp) # {}
       THEN a \in Reusable(job.opp) /\ UNCHANGED actions
       ELSE /\ a \notin UsedActions /\ \A b \in 1 .. (a - 1) : b \in UsedActions
            /\ actions' = [actions EXCEPT ![a] = [status |-> "OPEN", opp |-> job.opp,
                                                  basis |-> facts[job.opp].basis]]
    /\ job' = IF job.case = None THEN Idle ELSE Job("linkEvent", job.opp, job.case, a)
    /\ UNCHANGED <<facts, cases, events, refused>>

\* The second write: reuse the active action with this basis, or insert one.
InsertRevenueAction(a) ==
    /\ job.step = "insert"
    /\ IF Reusable(job.opp) # {}
       THEN a \in Reusable(job.opp) /\ UNCHANGED actions
       ELSE /\ a \notin UsedActions /\ \A b \in 1 .. (a - 1) : b \in UsedActions
            /\ actions' = [actions EXCEPT ![a] = [status |-> "OPEN", opp |-> job.opp,
                                                  basis |-> facts[job.opp].basis]]
    /\ job' = IF job.case = None THEN Idle ELSE Job("link", job.opp, job.case, a)
    /\ UNCHANGED <<facts, cases, events, refused>>

\* The action is worked on, and ends, outside the case (RevenueActions).
ActionProgress(a) ==
    /\ job = Idle
    /\ \/ /\ actions[a].status = "OPEN"
          /\ \E s \in {"RECOVERING", "DONE"} : actions' = [actions EXCEPT ![a].status = s]
       \/ /\ actions[a].status = "RECOVERING"
          /\ actions' = [actions EXCEPT ![a].status = "DONE"]
    /\ UNCHANGED <<facts, cases, events, job, refused>>

-----------------------------------------------------------------------------
(* createRevenueActionForCase, the handoff                                 *)

\* validateCurrentCase: the case is still what the detector finds, and the
\* recommendation is the one its leak calls for.
IsCurrentCase(i) ==
    LET o == cases[i].opp
    IN  facts[o].leak = cases[i].key /\ facts[o].basis \in TaskBases

Handoff(i) ==
    /\ job = Idle
    /\ cases[i].state \in ActiveStates
    /\ cases[i].action = None
    /\ IsCurrentCase(i)
    /\ StartMaterialize(cases[i].opp, i)

LinkHandoff ==
    /\ job.step = "link"
    /\ WriteCases(Linked(job.case, job.action))
    /\ job' = IF refused' = <<>> THEN [job EXCEPT !.step = "linkEvent"] ELSE Idle
    /\ UNCHANGED <<facts, actions, events>>

\* Mutant: a lost milestone is not recorded again by a replay.
HandoffReplaySilent(i) ==
    /\ job = Idle
    /\ cases[i].state \in ActiveStates
    /\ cases[i].action # None
    /\ actions[cases[i].action].basis \in TaskBases
    /\ UNCHANGED vars

\* A linked case is answered with its action, and its milestone is repaired.
HandoffReplay(i) ==
    /\ job = Idle
    /\ cases[i].state \in ActiveStates
    /\ cases[i].action # None
    /\ actions[cases[i].action].basis \in TaskBases
    /\ job' = Job("linkEvent", cases[i].opp, i, cases[i].action)
    /\ UNCHANGED <<facts, cases, actions, events, refused>>

\* observeLinkedAction: only for an imported opportunity.
ObserveLinkedAction ==
    /\ job.step = "linkEvent"
    /\ events' = IF job.opp \in Imported
                 THEN events \cup {<<"linked", job.case, job.action>>} ELSE events
    /\ job' = Idle
    /\ UNCHANGED <<facts, cases, actions, refused>>

-----------------------------------------------------------------------------
\* CRM requests and the passing days change what is true of an opportunity.
ChangeFacts(o) ==
    /\ job = Idle
    /\ \E f \in FactSet \ {facts[o]} : facts' = [facts EXCEPT ![o] = f]
    /\ UNCHANGED <<cases, actions, events, job, refused>>

\* The process stops, or a write throws: the rest of the request is lost.
Abort ==
    /\ Crashes
    /\ job # Idle
    /\ job' = Idle
    /\ UNCHANGED <<facts, cases, actions, events, refused>>

Next ==
    \/ \E o \in Opportunities : \/ DetectStalledOpportunity(o)
                                \/ ReconcileInBatch(o)
                                \/ MaterializeRevenueAction(o)
                                \/ ChangeFacts(o)
    \/ \E o \in Clients, k \in Keys : Reconcile(o, k)
    \/ \E i \in DOMAIN cases : \/ Snooze(i) \/ Resume(i) \/ Dismiss(i)
                               \/ Handoff(i) \/ HandoffReplay(i)
                               \/ \E a \in ActionIds : LinkRevenueAction(i, a)
    \/ \E a \in ActionIds : InsertRevenueAction(a) \/ ActionProgress(a)
    \/ ScanStalledOpportunities \/ WriteBatch \/ AppendScanEvent
    \/ LinkHandoff \/ ObserveLinkedAction \/ Abort

Spec == Init /\ [][Next]_vars

\* A request in progress goes on; an operator whose handoff or whose replay is
\* interrupted asks again, and is not interrupted at the same write for ever.
Fairness ==
    /\ WF_vars(\/ \E o \in Opportunities : ReconcileInBatch(o)
               \/ \E a \in ActionIds : InsertRevenueAction(a)
               \/ WriteBatch \/ AppendScanEvent)
    /\ SF_vars(job.case # None /\ \E a \in ActionIds : InsertRevenueAction(a))
    /\ SF_vars(LinkHandoff)
    /\ SF_vars(ObserveLinkedAction)
    /\ \A i \in 1 .. MaxCases : SF_vars(i \in DOMAIN cases /\ (Handoff(i) \/ HandoffReplay(i)))

FairSpec == Spec /\ Fairness

-----------------------------------------------------------------------------
(* Correctness                                                             *)

Jobs ==
    [step : {"idle", "scan", "scanEvent", "insert", "link", "linkEvent"},
     opp : Opportunities \cup {None}, case : DOMAIN cases \cup {None},
     action : ActionIds \cup {None}, todo : SUBSET Opportunities,
     draft : Seq(CaseRecords)]

\* The types of the collections and of the running request.
TypeOK ==
    /\ facts \in [Opportunities -> FactSet]
    /\ cases \in Seq(CaseRecords)
    /\ actions \in [ActionIds -> ActionRecords]
    /\ events \subseteq {<<"scan">>} \cup ({"linked"} \X Nat \X ActionIds)
    /\ job \in Jobs
    /\ refused \in Seq(CaseRecords)

\* What is on disk passes the validation that every read starts with, whatever
\* has become of the actions the cases link since: the file never locks the
\* server out (readCases, validateCaseCollection).
StoreReadable == Valid(cases)

\* The detections of opportunity o in cs have increasing times: no two share
\* an instant, which one reading of the clock, or a clock set back, can do.
InOrder(cs, o) ==
    \A i, j \in Series(cs, o) : i < j => cs[i].at < cs[j].at

\* The validation of a write refuses a request only over detections that share
\* an instant or go back in time: "materially changed evidence creates a new
\* OPEN case" otherwise (reconcileRecord against validateCaseCollection).
ChangedEvidenceAccepted ==
    refused # <<>> => \E o \in Opportunities : ~InOrder(refused, o)

\* The same without the exception, as docs/architecture/REVENUE_LEAK_CASE.md has
\* it.  The code does not satisfy it: of two cases of one instant the sort takes
\* the older for the newest, and a case that is to follow that one is refused.
EvidenceNeverRefused == refused = <<>>

\* As long as its detections are in order, the cases of an opportunity are one
\* line: only the last can be active, each follows an earlier one, none is
\* passed over, and a superseded case names the case that follows it
\* (reconcileRecord).
HistoryIsAChain ==
    \A i, j \in DOMAIN cases :
        (cases[i].opp = cases[j].opp /\ i < j /\ InOrder(cases, cases[i].opp)) =>
            /\ cases[i].state \notin ActiveStates
            /\ cases[i].state = "SUPERSEDED" =>
                  cases[i].succ <= j /\ cases[cases[i].succ].pred = i
            /\ cases[j].pred \in i .. (j - 1)

\* Evidence that the newest case of an opportunity was closed on opens no new
\* case: a dismissal is not undone by detecting the same thing again, as long
\* as the detections before it are in order.
NoSilentReopening ==
    [][\A i \in DOMAIN cases, j \in DOMAIN cases' \ DOMAIN cases :
         (/\ cases[i].opp = cases'[j].opp
          /\ InOrder(cases, cases[i].opp)
          /\ \A h \in Series(cases, cases[i].opp) : h <= i)
         => cases[i].key # cases'[j].key]_vars

\* No request loses what an earlier one recorded: cases are not removed, their
\* evidence and place in the history and their link stay, and a closed case
\* stays as it is.  (A scan replaces the whole file from its copy.)
HistoryIsKept ==
    [][\A i \in DOMAIN cases :
         /\ i \in DOMAIN cases'
         /\ cases'[i].opp = cases[i].opp /\ cases'[i].key = cases[i].key
         /\ cases'[i].at = cases[i].at /\ cases'[i].pred = cases[i].pred
         /\ cases[i].action # None => cases'[i].action = cases[i].action
         /\ cases[i].state \notin ActiveStates => cases'[i] = cases[i]]_vars

\* However handoffs are interrupted and repeated, an opportunity has one active
\* RevenueAction at most (materializeRevenueAction called by the handoff).
OneActiveAction ==
    \A o \in Opportunities : \A a, b \in ActiveActions(o) : a = b

\* A link milestone tells of a link that is there, of a case of an imported
\* opportunity (observeLinkedAction).
MilestonesAreTrue ==
    \A e \in events : e # <<"scan">> =>
        /\ e[2] \in DOMAIN cases
        /\ cases[e[2]].action = e[3]
        /\ cases[e[2]].opp \in Imported

\* A handoff of case i can go through, or already has.
HandoffReady(i) ==
    /\ i \in DOMAIN cases
    /\ cases[i].state \in ActiveStates
    /\ IF cases[i].action = None
       THEN /\ IsCurrentCase(i)
            /\ ~RecoveryRequired(cases[i].opp)
            /\ UsedActions # ActionIds
       ELSE actions[cases[i].action].basis \in TaskBases

HandoffDone(i) ==
    /\ cases[i].action # None
    /\ cases[i].opp \in Imported => <<"linked", i, cases[i].action>> \in events

\* "An explicit retry reuses the same active semantic RevenueAction and repairs
\* the link": a case whose handoff stays possible ends up linked, with its
\* milestone, wherever earlier attempts were interrupted.
HandoffRepaired ==
    \A i \in 1 .. MaxCases :
        <>[]HandoffReady(i) => <>(i \in DOMAIN cases /\ HandoffDone(i))
=============================================================================
