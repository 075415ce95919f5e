----------------------- MODULE RevenueLeakCasesProofs -----------------------
(***************************************************************************)
(* What RevenueLeakCases promises for every value of its constants.        *)
(*                                                                         *)
(* A step changes the file of cases in one of three ways: one case gets    *)
(* another state or a link, a detection is reconciled, or a scan puts its  *)
(* draft in place.  The first part states what each of these does to any   *)
(* collection (Keeps, Chain), the second carries that through the steps of *)
(* the specification.                                                      *)
(***************************************************************************)
EXTENDS RevenueLeakCases, TLAPS

\* Nothing recorded in cs is lost in ds: what HistoryIsKept says of one step.
Keeps(cs, ds) ==
    \A i \in DOMAIN cs :
        /\ i \in DOMAIN ds
        /\ ds[i].opp = cs[i].opp /\ ds[i].key = cs[i].key
        /\ ds[i].at = cs[i].at /\ ds[i].pred = cs[i].pred
        /\ cs[i].action # None => ds[i].action = cs[i].action
        /\ cs[i].state \notin ActiveStates => ds[i] = cs[i]

LEMMA SomeBasisFact == SomeBasis \in Bases
  BY FactAssumption DEF SomeBasis

LEMMA KeepsReflexive == ASSUME NEW cs PROVE Keeps(cs, cs)
  BY DEF Keeps

\* What two steps keep, both keep.
LEMMA KeepsTransitive ==
  ASSUME NEW cs, NEW ds, NEW es, Keeps(cs, ds), Keeps(ds, es)
  PROVE  Keeps(cs, es)
  BY DEF Keeps, ActiveStates

\* A human transition of an active case keeps the history.
LEMMA TransitionKeeps ==
  ASSUME NEW cs \in Seq(CaseRecords), NEW i \in DOMAIN cs,
         cs[i].state \in ActiveStates,
         NEW s \in ActiveStates \cup {"DISMISSED"}
  PROVE  /\ [cs EXCEPT ![i].state = s] \in Seq(CaseRecords)
         /\ Keeps(cs, [cs EXCEPT ![i].state = s])
<1> DEFINE ds == [cs EXCEPT ![i].state = s]
<1>1. cs[i] \in CaseRecords
  OBVIOUS
<1>2. ds[i] = [cs[i] EXCEPT !.state = s] /\ DOMAIN ds = DOMAIN cs
  OBVIOUS
<1>3. ds[i] \in CaseRecords
  BY <1>1, <1>2 DEF CaseRecords, ActiveStates
<1>4. ds \in Seq(CaseRecords)
  BY <1>3
<1>5. Keeps(cs, ds)
  BY <1>1, <1>2 DEF Keeps, CaseRecords
<1> QED
  BY <1>4, <1>5

\* Reconciling a detection keeps the history.
LEMMA ReconcileKeeps ==
  ASSUME NEW cs \in Seq(CaseRecords), NEW o \in Opportunities,
         NEW k \in Keys, NEW t \in Int
  PROVE  /\ ReconcileRecord(cs, o, k, t) \in Seq(CaseRecords)
         /\ Keeps(cs, ReconcileRecord(cs, o, k, t))
<1> DEFINE rs == ReconcileRecord(cs, o, k, t)
<1>1. ASSUME NEW p \in Nat PROVE NewCase(o, k, t, p) \in CaseRecords
  BY SomeBasisFact DEF NewCase, CaseRecords, ActiveStates, None
<1>2. ASSUME NEW ds \in Seq(CaseRecords), NEW c \in CaseRecords, Keeps(cs, ds)
      PROVE  Append(ds, c) \in Seq(CaseRecords) /\ Keeps(cs, Append(ds, c))
  BY <1>2 DEF Keeps
<1>3. CASE \E p \in Predecessor(cs, o) : cs[p].key = k
  BY <1>3, KeepsReflexive DEF ReconcileRecord
<1>4. CASE ~(\E p \in Predecessor(cs, o) : cs[p].key = k) /\ Predecessor(cs, o) = {}
  <2>1. rs = Append(cs, NewCase(o, k, t, None))
    BY <1>4 DEF ReconcileRecord
  <2> QED
    BY <2>1, <1>1, <1>2, KeepsReflexive DEF None
<1>5. CASE ~(\E p \in Predecessor(cs, o) : cs[p].key = k) /\ Predecessor(cs, o) # {}
  <2> DEFINE p == CHOOSE i \in Predecessor(cs, o) : TRUE
             sup == [cs EXCEPT ![p] = [@ EXCEPT !.state = "SUPERSEDED",
                                                !.succ = Len(cs) + 1]]
             ds == IF p \in Active(cs, o) THEN sup ELSE cs
  <2>1. p \in Predecessor(cs, o)
    BY <1>5
  <2>2. p \in DOMAIN cs /\ p \in Nat
    BY <2>1 DEF Predecessor, Active, Newest, Series
  <2>3. rs = Append(ds, NewCase(o, k, t, p))
    BY <1>5 DEF ReconcileRecord
  <2>4. ds \in Seq(CaseRecords) /\ Keeps(cs, ds)
    <3>1. CASE p \in Active(cs, o)
      <4> HIDE DEF p
      <4>1. cs[p] \in CaseRecords /\ cs[p].state \in ActiveStates
        BY <2>2, <3>1 DEF Active
      <4>2. sup[p] = [cs[p] EXCEPT !.state = "SUPERSEDED", !.succ = Len(cs) + 1]
        BY <2>2
      <4>3. sup[p] \in CaseRecords
        <5>1. Len(cs) + 1 \in Nat
          OBVIOUS
        <5> QED
          BY <4>1, <4>2, <5>1, ZenonT(40) DEF CaseRecords
      <4>4. sup \in Seq(CaseRecords) /\ DOMAIN sup = DOMAIN cs
        BY <2>2, <4>3
      <4>5. Keeps(cs, sup)
        BY <2>2, <4>1, <4>2, <4>4 DEF Keeps, CaseRecords
      <4> QED
        BY <3>1, <4>4, <4>5
    <3>2. CASE p \notin Active(cs, o)
      BY <3>2, KeepsReflexive
    <3> QED
      BY <3>1, <3>2
  <2> HIDE DEF p, ds
  <2> QED
    BY <1>1, <1>2, <2>2, <2>3, <2>4
<1> QED
  BY <1>3, <1>4, <1>5

\* Linking an action keeps the history.
LEMMA LinkKeeps ==
  ASSUME NEW i \in DOMAIN cases, NEW a \in ActionIds,
         cases \in Seq(CaseRecords), actions \in [ActionIds -> ActionRecords],
         cases[i].action = a \/ cases[i].action # None \/ cases[i].state \in ActiveStates
  PROVE  /\ Linked(i, a) \in Seq(CaseRecords)
         /\ Keeps(cases, Linked(i, a))
         /\ cases[i].action \in {None, a} => Linked(i, a)[i].action = a
<1>1. CASE cases[i].action # None
  BY <1>1, KeepsReflexive DEF Linked
<1>2. CASE cases[i].action = None
  <2> DEFINE ds == [cases EXCEPT ![i] = [@ EXCEPT !.action = a,
                                                  !.fp = actions[a].basis]]
  <2>1. cases[i] \in CaseRecords /\ a # None
    BY DEF ActionIds, None
  <2>2. actions[a].basis \in Bases
    BY DEF ActionRecords
  <2>3. ds[i] = [cases[i] EXCEPT !.action = a, !.fp = actions[a].basis]
    OBVIOUS
  <2>4. ds[i] \in CaseRecords
    BY <2>1, <2>2, <2>3 DEF CaseRecords
  <2>5. ds \in Seq(CaseRecords) /\ DOMAIN ds = DOMAIN cases
    BY <2>4
  <2>6. Keeps(cases, ds) /\ ds[i].action = a
    BY <1>2, <2>1, <2>3, <2>5 DEF Keeps, CaseRecords
  <2> QED
    BY <1>2, <2>5, <2>6 DEF Linked
<1> QED
  BY <1>1, <1>2

-----------------------------------------------------------------------------
(* The invariant the store rests on: types, what the running request knows *)
(* of the file it will write next, and the two properties themselves.      *)

JobInv ==
    /\ job.step = "scan" =>
          /\ Keeps(cases, job.draft)
          /\ \A o \in job.todo : facts[o].leak \in Keys
    /\ job.step = "insert" =>
          /\ job.opp \in Opportunities /\ facts[job.opp].basis \in Bases
          /\ job.case # None => cases[job.case].opp = job.opp
    /\ job.step \in {"link", "linkEvent"} =>
          /\ job.case # None /\ job.action # None
          /\ cases[job.case].opp = job.opp
    /\ job.step \in {"insert", "link"} /\ job.case # None =>
          /\ cases[job.case].action = None
          /\ cases[job.case].state \in ActiveStates
    /\ job.step = "linkEvent" => cases[job.case].action = job.action

StoreInv == TypeOK /\ JobInv /\ StoreReadable /\ MilestonesAreTrue

\* What every step leaves of the actions: one that a case may link stays as
\* the link describes it.
ActionsKept ==
    \A a \in ActionIds : actions[a].status # "ABSENT" =>
        /\ actions'[a].status # "ABSENT"
        /\ actions'[a].opp = actions[a].opp /\ actions'[a].basis = actions[a].basis

\* Steps that leave the cases alone keep the store readable.
LEMMA ReadableKept ==
  ASSUME TypeOK, StoreReadable, cases' = cases, ActionsKept
  PROVE  StoreReadable'
<1>0. cases \in Seq(CaseRecords)
  BY DEF TypeOK
<1>1. ASSUME NEW i \in DOMAIN cases, cases[i].action # None
      PROVE  cases[i].action \in ActionIds
  <2>1. cases[i] \in CaseRecords
    BY <1>0
  <2> QED
    BY <1>1, <2>1 DEF CaseRecords
<1>2. LinksResolve(cases)'
  BY <1>1 DEF StoreReadable, Valid, LinksResolve, ActionsKept
<1>3. /\ OneActivePerSeries(cases)' /\ PredecessorsAgree(cases)'
      /\ SuccessorsAgree(cases)'
  BY DEF StoreReadable, Valid, OneActivePerSeries, PredecessorsAgree, SuccessorsAgree
<1> QED
  BY <1>2, <1>3 DEF StoreReadable, Valid

\* A write of the cases, refused or not.
LEMMA WriteFacts ==
  ASSUME TypeOK, StoreReadable, NEW cs \in Seq(CaseRecords), Keeps(cases, cs),
         WriteCases(cs), actions' = actions
  PROVE  /\ cases' \in Seq(CaseRecords) /\ refused' \in Seq(CaseRecords)
         /\ Keeps(cases, cases') /\ StoreReadable'
         /\ refused' = <<>> => cases' = cs
<1>1. CASE Valid(cs)
  <2>1. cases' = cs /\ refused' = <<>>
    BY <1>1 DEF WriteCases
  <2>2. StoreReadable'
    BY <1>1, <2>1 DEF StoreReadable, Valid, OneActivePerSeries, LinksResolve,
       PredecessorsAgree, SuccessorsAgree
  <2> QED
    BY <2>1, <2>2
<1>2. CASE ~Valid(cs)
  <2>1. cases' = cases /\ refused' = cs
    BY <1>2 DEF WriteCases
  <2>2. ActionsKept
    BY DEF ActionsKept
  <2>3. cs # <<>>
    BY <1>2 DEF Valid, OneActivePerSeries, LinksResolve, PredecessorsAgree, SuccessorsAgree
  <2> QED
    BY <2>1, <2>2, <2>3, ReadableKept, KeepsReflexive DEF TypeOK
<1> QED
  BY <1>1, <1>2

\* Milestones stay true when the cases keep what they recorded.
LEMMA MilestonesKept ==
  ASSUME TypeOK, MilestonesAreTrue, events' = events, Keeps(cases, cases')
  PROVE  MilestonesAreTrue'
<1>1. SUFFICES ASSUME NEW e \in events, e # <<"scan">>
               PROVE  /\ e[2] \in DOMAIN cases'
                      /\ cases'[e[2]].action = e[3]
                      /\ cases'[e[2]].opp \in Imported
  BY DEF MilestonesAreTrue
<1>2. e \in {"linked"} \X Nat \X ActionIds
  BY <1>1 DEF TypeOK
<1>3. e[3] # None
  BY <1>2 DEF ActionIds, None
<1> QED
  BY <1>1, <1>3 DEF MilestonesAreTrue, Keeps

LEMMA IdleFacts ==
  ASSUME TypeOK
  PROVE  Idle \in Jobs /\ Idle' = Idle
  BY DEF Idle, Job, Jobs, TypeOK, None

LEMMA JobFacts ==
  ASSUME TypeOK, NEW s \in {"insert", "link", "linkEvent"},
         NEW o \in Opportunities, NEW i \in DOMAIN cases \cup {None},
         NEW a \in ActionIds \cup {None}
  PROVE  /\ Job(s, o, i, a) \in Jobs
         /\ Job(s, o, i, a).step = s /\ Job(s, o, i, a).opp = o
         /\ Job(s, o, i, a).case = i /\ Job(s, o, i, a).action = a
<1>1. <<>> \in Seq(CaseRecords)
  OBVIOUS
<1> QED
  BY <1>1 DEF Job, Jobs

-----------------------------------------------------------------------------
(* The steps                                                               *)

LEMMA StoreInit == ASSUME Init PROVE StoreInv
<1> USE DEF Init
<1>1. SomeBasis \in Bases
  BY SomeBasisFact
<1>2. cases \in Seq(CaseRecords) /\ DOMAIN cases = {}
  OBVIOUS
<1>3. NoAction \in ActionRecords
  BY <1>1 DEF NoAction, ActionRecords
<1>4. job \in Jobs
  BY DEF Idle, Job, Jobs
<1>5. facts \in [Opportunities -> FactSet] /\ actions \in [ActionIds -> ActionRecords]
  BY <1>3
<1>6. TypeOK
  BY <1>2, <1>4, <1>5 DEF TypeOK
<1>7. JobInv
  BY DEF JobInv, Idle, Job
<1>8. StoreReadable
  BY <1>2 DEF StoreReadable, Valid, OneActivePerSeries, LinksResolve,
     PredecessorsAgree, SuccessorsAgree
<1>9. MilestonesAreTrue
  BY DEF MilestonesAreTrue
<1> QED
  BY <1>6, <1>7, <1>8, <1>9 DEF StoreInv

\* A request that is one write of the cases.
LEMMA CaseWrite ==
  ASSUME StoreInv, job = Idle, NEW cs \in Seq(CaseRecords), Keeps(cases, cs),
         WriteCases(cs), UNCHANGED <<facts, actions, events, job>>
  PROVE  StoreInv' /\ Keeps(cases, cases')
<1> USE DEF StoreInv
<1>1. /\ cases' \in Seq(CaseRecords) /\ refused' \in Seq(CaseRecords)
      /\ Keeps(cases, cases') /\ StoreReadable'
  BY WriteFacts
<1>2. job' \in Jobs'
  <2>1. job' = [step |-> "idle", opp |-> None, case |-> None, action |-> None,
                todo |-> {}, draft |-> <<>>]
    BY DEF Idle, Job
  <2>2. <<>> \in Seq(CaseRecords)
    OBVIOUS
  <2> QED
    BY <2>1, <2>2 DEF Jobs
<1>3. TypeOK'
  BY <1>1, <1>2 DEF TypeOK
<1>4. JobInv'
  BY DEF JobInv, Idle, Job
<1>5. MilestonesAreTrue'
  BY <1>1, MilestonesKept
<1> QED
  BY <1>1, <1>3, <1>4, <1>5

\* A step that leaves the cases and the milestones alone.
LEMMA OtherStep ==
  ASSUME StoreInv, UNCHANGED <<cases, events, refused>>, ActionsKept,
         facts' \in [Opportunities -> FactSet],
         actions' \in [ActionIds -> ActionRecords], job' \in Jobs, JobInv'
  PROVE  StoreInv' /\ Keeps(cases, cases')
<1> USE DEF StoreInv
<1>1. StoreReadable'
  BY ReadableKept
<1>2. Keeps(cases, cases')
  BY KeepsReflexive
<1>3. MilestonesAreTrue'
  BY <1>2, MilestonesKept
<1>4. Jobs' = Jobs
  BY DEF Jobs
<1>5. TypeOK'
  BY <1>4 DEF TypeOK
<1> QED
  BY <1>1, <1>2, <1>3, <1>5

\* The detections a reconciliation is given are of the type it takes.
LEMMA InstantFacts ==
  ASSUME NEW cs \in Seq(CaseRecords), NEW t \in Instants(cs)
  PROVE  t \in Int
  BY DEF Instants

LEMMA ReconcileStep ==
  ASSUME StoreInv, NEW o \in Opportunities, NEW k \in Keys, Reconcile(o, k)
  PROVE  StoreInv' /\ Keeps(cases, cases')
<1>1. cases \in Seq(CaseRecords)
  BY DEF StoreInv, TypeOK
<1>2. PICK t \in Instants(cases) : WriteCases(ReconcileRecord(cases, o, k, t))
  BY DEF Reconcile
<1>3. t \in Int
  BY <1>1, <1>2, InstantFacts
<1>4. /\ ReconcileRecord(cases, o, k, t) \in Seq(CaseRecords)
      /\ Keeps(cases, ReconcileRecord(cases, o, k, t))
  BY <1>1, <1>3, ReconcileKeeps
<1>5. job = Idle /\ UNCHANGED <<facts, actions, events, job>>
  BY DEF Reconcile
<1> QED
  BY <1>2, <1>4, <1>5, CaseWrite

\* A snooze, a resumption or a dismissal.
LEMMA TransitionStep ==
  ASSUME StoreInv, NEW i \in DOMAIN cases, Snooze(i) \/ Resume(i) \/ Dismiss(i)
  PROVE  StoreInv' /\ Keeps(cases, cases')
<1>1. PICK s \in ActiveStates \cup {"DISMISSED"} :
        WriteCases([cases EXCEPT ![i].state = s])
  BY DEF Snooze, Resume, Dismiss, ActiveStates
<1>2. /\ job = Idle /\ cases[i].state \in ActiveStates
      /\ UNCHANGED <<facts, actions, events, job>>
  BY DEF Snooze, Resume, Dismiss, ActiveStates
<1>3. cases \in Seq(CaseRecords)
  BY DEF StoreInv, TypeOK
<1> DEFINE cs == [cases EXCEPT ![i].state = s]
<1>4. cs \in Seq(CaseRecords) /\ Keeps(cases, cs)
  BY <1>1, <1>2, <1>3, TransitionKeeps
<1>5. WriteCases(cs)
  BY <1>1
<1> HIDE DEF cs
<1> QED
  BY <1>2, <1>4, <1>5, CaseWrite

LEMMA LinkStep ==
  ASSUME StoreInv, NEW i \in DOMAIN cases, NEW a \in ActionIds, LinkRevenueAction(i, a)
  PROVE  StoreInv' /\ Keeps(cases, cases')
<1>1. cases \in Seq(CaseRecords) /\ actions \in [ActionIds -> ActionRecords]
  BY DEF StoreInv, TypeOK
<1>2. Linked(i, a) \in Seq(CaseRecords) /\ Keeps(cases, Linked(i, a))
  BY <1>1, LinkKeeps DEF LinkRevenueAction, MayLink
<1> QED
  BY <1>2, CaseWrite DEF LinkRevenueAction

\* The scan: its draft keeps the file it was read from.
LEMMA ScanStart ==
  ASSUME StoreInv, ScanStalledOpportunities
  PROVE  StoreInv' /\ Keeps(cases, cases')
<1> USE DEF StoreInv
<1>1. cases \in Seq(CaseRecords) /\ Detected \subseteq Opportunities
  BY DEF TypeOK, Detected
<1>0. \A o \in Detected : facts[o].leak \in Keys
  BY FactAssumption DEF TypeOK, Detected
<1>2. job' = [step |-> "scan", opp |-> None, case |-> None, action |-> None,
              todo |-> Detected, draft |-> cases]
  BY DEF ScanStalledOpportunities, Idle, Job
<1>3. job' \in Jobs
  BY <1>1, <1>2 DEF Jobs
<1>4. JobInv'
  BY <1>0, <1>2, KeepsReflexive DEF JobInv, ScanStalledOpportunities, Keeps
<1> QED
  BY <1>3, <1>4, OtherStep DEF ScanStalledOpportunities, ActionsKept, TypeOK

LEMMA BatchStep ==
  ASSUME StoreInv, NEW o \in Opportunities, ReconcileInBatch(o)
  PROVE  StoreInv' /\ Keeps(cases, cases')
<1> USE DEF StoreInv
<1>1. job.draft \in Seq(CaseRecords) /\ job \in Jobs /\ o \in job.todo
  BY DEF TypeOK, Jobs, ReconcileInBatch
<1>2. PICK t \in Instants(job.draft) :
        job' = [job EXCEPT !.todo = @ \ {o},
                           !.draft = ReconcileRecord(@, o, facts[o].leak, t)]
  BY DEF ReconcileInBatch
<1> DEFINE ds == ReconcileRecord(job.draft, o, facts[o].leak, t)
<1>3. facts[o].leak \in Keys
  BY DEF ReconcileInBatch, JobInv
<1>4. ds \in Seq(CaseRecords) /\ Keeps(job.draft, ds)
  BY <1>1, <1>2, <1>3, InstantFacts, ReconcileKeeps
<1> HIDE DEF ds
<1>5. /\ job' \in Jobs /\ job'.step = "scan"
      /\ job'.draft = ds /\ job'.todo = job.todo \ {o}
  BY <1>1, <1>2, <1>4 DEF Jobs, ReconcileInBatch, ds
<1>6. Keeps(cases, ds)
  BY <1>4, KeepsTransitive DEF JobInv, ReconcileInBatch
<1>7. JobInv'
  BY <1>5, <1>6 DEF JobInv, ReconcileInBatch, Keeps
<1> QED
  BY <1>5, <1>7, OtherStep DEF ReconcileInBatch, ActionsKept, TypeOK

\* A request that ends here, or leaves only the scan milestone to record.
LEMMA JobEnds ==
  ASSUME NEW s \in {"idle", "scanEvent"}, job' = Job(s, None, None, None)
  PROVE  job' \in Jobs /\ job' \in Jobs' /\ JobInv'
<1>1. <<>> \in Seq(CaseRecords)
  OBVIOUS
<1>2. job' \in Jobs /\ job' \in Jobs'
  BY <1>1 DEF Job, Jobs
<1>3. job'.step = s
  BY DEF Job
<1>4. JobInv'
  BY <1>3 DEF JobInv
<1> QED
  BY <1>2, <1>4

LEMMA WriteBatchStep ==
  ASSUME StoreInv, WriteBatch
  PROVE  StoreInv' /\ Keeps(cases, cases')
<1> USE DEF StoreInv
<1>1. job.draft \in Seq(CaseRecords) /\ Keeps(cases, job.draft)
  BY DEF TypeOK, Jobs, WriteBatch, JobInv
<1>2. /\ cases' \in Seq(CaseRecords) /\ refused' \in Seq(CaseRecords)
      /\ Keeps(cases, cases') /\ StoreReadable'
  <2>1. CASE Len(job.draft) = Len(cases)
    <3>1. cases' = cases /\ refused' = <<>> /\ ActionsKept
      BY <2>1 DEF WriteBatch, ActionsKept
    <3> QED
      BY <3>1, KeepsReflexive, ReadableKept DEF TypeOK
  <2>2. CASE Len(job.draft) # Len(cases)
    BY <1>1, <2>2, WriteFacts DEF WriteBatch
  <2> QED
    BY <2>1, <2>2
<1>3. PICK s \in {"idle", "scanEvent"} : job' = Job(s, None, None, None)
  <2>1. [Idle EXCEPT !.step = "scanEvent"] = Job("scanEvent", None, None, None)
    BY DEF Idle, Job
  <2> QED
    BY <2>1 DEF WriteBatch, Idle
<1>4. job' \in Jobs' /\ JobInv'
  BY <1>3, JobEnds
<1>5. TypeOK'
  BY <1>2, <1>4 DEF TypeOK, WriteBatch
<1>6. MilestonesAreTrue'
  BY <1>2, MilestonesKept DEF WriteBatch
<1> QED
  BY <1>2, <1>4, <1>5, <1>6

LEMMA ScanEventStep ==
  ASSUME StoreInv, AppendScanEvent
  PROVE  StoreInv' /\ Keeps(cases, cases')
<1> USE DEF StoreInv
<1>1. job' \in Jobs' /\ JobInv'
  BY JobEnds DEF AppendScanEvent, Idle
<1>2. Keeps(cases, cases') /\ StoreReadable'
  BY KeepsReflexive, ReadableKept DEF AppendScanEvent, ActionsKept
<1>3. TypeOK'
  BY <1>1 DEF TypeOK, AppendScanEvent
<1>4. MilestonesAreTrue'
  BY DEF MilestonesAreTrue, AppendScanEvent
<1> QED
  BY <1>1, <1>2, <1>3, <1>4

LEMMA AbortStep ==
  ASSUME StoreInv, Abort
  PROVE  StoreInv' /\ Keeps(cases, cases')
<1>1. job' \in Jobs /\ JobInv'
  BY JobEnds DEF Abort, Idle
<1> QED
  BY <1>1, OtherStep DEF Abort, ActionsKept, StoreInv, TypeOK

LEMMA FactsStep ==
  ASSUME StoreInv, NEW o \in Opportunities, ChangeFacts(o)
  PROVE  StoreInv' /\ Keeps(cases, cases')
<1>1. job' \in Jobs /\ JobInv'
  BY JobEnds DEF ChangeFacts, Idle
<1> QED
  BY <1>1, OtherStep DEF ChangeFacts, ActionsKept, StoreInv, TypeOK

\* The actions: what a step records of one never changes what it is.
LEMMA ProgressStep ==
  ASSUME StoreInv, NEW a \in ActionIds, ActionProgress(a)
  PROVE  StoreInv' /\ Keeps(cases, cases')
<1>1. job' \in Jobs /\ JobInv'
  BY JobEnds DEF ActionProgress, Idle
<1>2. PICK s \in {"RECOVERING", "DONE"} : actions' = [actions EXCEPT ![a].status = s]
  BY DEF ActionProgress
<1>3. actions \in [ActionIds -> ActionRecords]
  BY DEF StoreInv, TypeOK
<1>4. actions' \in [ActionIds -> ActionRecords] /\ ActionsKept
  BY <1>2, <1>3 DEF ActionRecords, ActionsKept
<1> QED
  BY <1>1, <1>4, OtherStep DEF ActionProgress, StoreInv, TypeOK

LEMMA MaterializeStep ==
  ASSUME StoreInv, NEW o \in Opportunities, NEW i \in DOMAIN cases \cup {None},
         StartMaterialize(o, i),
         i # None => /\ cases[i].opp = o /\ cases[i].action = None
                     /\ cases[i].state \in ActiveStates
  PROVE  StoreInv' /\ Keeps(cases, cases')
<1> USE DEF StoreInv
<1>1. actions \in [ActionIds -> ActionRecords] /\ facts \in [Opportunities -> FactSet]
  BY DEF TypeOK
<1>2. facts[o].basis \in Bases
  BY <1>1, FactAssumption DEF StartMaterialize
<1>3. /\ job' \in Jobs /\ job'.step = "insert" /\ job'.opp = o
      /\ job'.case = i /\ job'.action = None
  <2>1. job' = Job("insert", o, i, None)
    BY DEF StartMaterialize
  <2>2. None \in ActionIds \cup {None}
    OBVIOUS
  <2> QED
    BY <2>1, <2>2, JobFacts
<1>4. JobInv'
  BY <1>2, <1>3 DEF JobInv, StartMaterialize
<1>5. ASSUME NEW a \in ActionIds
      PROVE  /\ actions'[a] \in ActionRecords
             /\ actions[a].status # "ABSENT" => actions'[a].status # "ABSENT"
             /\ actions'[a].opp = actions[a].opp /\ actions'[a].basis = actions[a].basis
  <2>1. actions[a] \in ActionRecords
    BY <1>1
  <2>2. actions'[a] = actions[a] \/ actions'[a] = [actions[a] EXCEPT !.status = "DONE"]
    BY DEF StartMaterialize
  <2> QED
    BY <2>1, <2>2 DEF ActionRecords
<1>6. actions' \in [ActionIds -> ActionRecords] /\ ActionsKept
  <2>1. \A a \in ActionIds : actions'[a] \in ActionRecords
    BY <1>5
  <2>2. actions' \in [ActionIds -> ActionRecords]
    BY <2>1 DEF StartMaterialize
  <2> QED
    BY <1>5, <2>2 DEF ActionsKept
<1> QED
  BY <1>3, <1>4, <1>6, OtherStep DEF StartMaterialize, TypeOK

LEMMA InsertStep ==
  ASSUME StoreInv, NEW a \in ActionIds, InsertRevenueAction(a)
  PROVE  StoreInv' /\ Keeps(cases, cases')
<1> USE DEF StoreInv
<1>1. /\ actions \in [ActionIds -> ActionRecords] /\ job \in Jobs
      /\ job.opp \in Opportunities /\ facts[job.opp].basis \in Bases
      /\ job.case # None => cases[job.case].opp = job.opp
      /\ job.case # None => cases[job.case].action = None
      /\ job.case # None => cases[job.case].state \in ActiveStates
  BY DEF TypeOK, JobInv, InsertRevenueAction
<1>2. job.case \in DOMAIN cases \cup {None}
  BY <1>1 DEF Jobs
<1>3. actions' \in [ActionIds -> ActionRecords] /\ ActionsKept
  <2>1. CASE actions' = actions
    BY <1>1, <2>1 DEF ActionsKept
  <2>2. CASE /\ a \notin UsedActions
             /\ actions' = [actions EXCEPT ![a] =
                    [status |-> "OPEN", opp |-> job.opp, basis |-> facts[job.opp].basis]]
    BY <1>1, <2>2 DEF ActionRecords, ActionsKept, UsedActions
  <2> QED
    BY <2>1, <2>2 DEF InsertRevenueAction
<1>4. job' \in Jobs /\ JobInv'
  <2>1. CASE job.case = None
    <3>1. job' = Job("idle", None, None, None)
      BY <2>1 DEF InsertRevenueAction, Idle
    <3> QED
      BY <3>1, JobEnds
  <2>2. CASE job.case # None
    <3>1. job' = Job("link", job.opp, job.case, a) /\ cases' = cases
      BY <2>2 DEF InsertRevenueAction
    <3>2. /\ job' \in Jobs /\ job'.step = "link" /\ job'.opp = job.opp
          /\ job'.case = job.case /\ job'.action = a
      <4>1. PICK o \in Opportunities, i \in DOMAIN cases : o = job.opp /\ i = job.case
        BY <1>1, <1>2, <2>2
      <4>2. job' = Job("link", o, i, a)
        BY <3>1, <4>1
      <4>3. TypeOK
        OBVIOUS
      <4> QED
        BY <4>1, <4>2, <4>3, JobFacts
    <3>3. a # None
      BY DEF ActionIds, None
    <3>4. JobInv'
      BY <1>1, <2>2, <3>1, <3>2, <3>3 DEF JobInv
    <3> QED
      BY <3>2, <3>4
  <2> QED
    BY <2>1, <2>2
<1> QED
  BY <1>3, <1>4, OtherStep DEF InsertRevenueAction, TypeOK

LEMMA LinkHandoffStep ==
  ASSUME StoreInv, LinkHandoff
  PROVE  StoreInv' /\ Keeps(cases, cases')
<1> USE DEF StoreInv
<1> DEFINE i == job.case
           a == job.action
<1>1. /\ cases \in Seq(CaseRecords) /\ actions \in [ActionIds -> ActionRecords]
      /\ job \in Jobs
  BY DEF TypeOK
<1>2. /\ i \in DOMAIN cases /\ a \in ActionIds /\ a # None
      /\ cases[i].opp = job.opp /\ cases[i].action = None
      /\ cases[i].state \in ActiveStates
  BY <1>1 DEF Jobs, JobInv, LinkHandoff
<1>3. PICK cs \in Seq(CaseRecords) :
        cs = Linked(i, a) /\ Keeps(cases, cs) /\ cs[i].action = a
  <2>1. PICK h \in DOMAIN cases, b \in ActionIds : h = i /\ b = a
    BY <1>2
  <2>2. /\ Linked(h, b) \in Seq(CaseRecords) /\ Keeps(cases, Linked(h, b))
        /\ Linked(h, b)[h].action = b
    BY <1>1, <1>2, <2>1, LinkKeeps
  <2> QED
    BY <2>1, <2>2
<1>4. /\ cases' \in Seq(CaseRecords) /\ refused' \in Seq(CaseRecords)
      /\ Keeps(cases, cases') /\ StoreReadable'
      /\ refused' = <<>> => cases' = cs
  BY <1>3, WriteFacts DEF LinkHandoff
<1>5. job' \in Jobs' /\ JobInv'
  <2>1. CASE refused' # <<>>
    BY <2>1, JobEnds DEF LinkHandoff, Idle
  <2>2. CASE refused' = <<>>
    <3>1. job' = [job EXCEPT !.step = "linkEvent"]
      BY <2>2 DEF LinkHandoff
    <3>2. /\ job'.step = "linkEvent" /\ job'.case = i /\ job'.action = a
          /\ job'.opp = job.opp
      BY <1>1, <3>1 DEF Jobs
    <3>3. i \in DOMAIN cases' /\ cases'[i].opp = job.opp /\ cases'[i].action = a
      BY <1>2, <1>3, <1>4, <2>2 DEF Keeps
    <3>4. job' \in Jobs'
      BY <1>1, <3>1, <3>3 DEF Jobs
    <3>5. i # None
      BY <1>1, <1>2 DEF None
    <3>6. JobInv'
      BY <1>2, <3>2, <3>3, <3>5 DEF JobInv
    <3> QED
      BY <3>4, <3>6
  <2> QED
    BY <2>1, <2>2
<1>6. TypeOK'
  BY <1>4, <1>5 DEF TypeOK, LinkHandoff
<1>7. MilestonesAreTrue'
  BY <1>4, MilestonesKept DEF LinkHandoff
<1> QED
  BY <1>4, <1>5, <1>6, <1>7

LEMMA ReplayStep ==
  ASSUME StoreInv, NEW i \in DOMAIN cases, HandoffReplay(i)
  PROVE  StoreInv' /\ Keeps(cases, cases')
<1> USE DEF StoreInv
<1>0. cases \in Seq(CaseRecords)
  BY DEF TypeOK
<1>1. cases[i] \in CaseRecords /\ cases[i].opp \in Opportunities /\ i # None
  <2>1. cases[i] \in CaseRecords
    BY <1>0
  <2> QED
    BY <1>0, <2>1 DEF CaseRecords, None
<1>2. cases[i].action \in ActionIds /\ cases[i].action # None
  BY <1>1 DEF CaseRecords, HandoffReplay
<1> DEFINE o == cases[i].opp
           a == cases[i].action
<1>3. /\ job' \in Jobs /\ job'.step = "linkEvent" /\ job'.opp = o
      /\ job'.case = i /\ job'.action = a
  BY <1>1, <1>2, JobFacts DEF HandoffReplay
<1>4. JobInv'
  BY <1>1, <1>2, <1>3 DEF JobInv, HandoffReplay
<1> QED
  BY <1>3, <1>4, OtherStep DEF HandoffReplay, ActionsKept, TypeOK

LEMMA ObserveStep ==
  ASSUME StoreInv, ObserveLinkedAction
  PROVE  StoreInv' /\ Keeps(cases, cases')
<1> USE DEF StoreInv
<1>1. job' \in Jobs' /\ JobInv'
  BY JobEnds DEF ObserveLinkedAction, Idle
<1>2. Keeps(cases, cases') /\ StoreReadable'
  BY KeepsReflexive, ReadableKept DEF ObserveLinkedAction, ActionsKept
<1>3. /\ job.case \in DOMAIN cases /\ job.case \in Nat /\ job.action \in ActionIds
      /\ cases[job.case].opp = job.opp /\ cases[job.case].action = job.action
  BY DEF TypeOK, Jobs, JobInv, ObserveLinkedAction
<1>4. TypeOK'
  BY <1>1, <1>3 DEF TypeOK, ObserveLinkedAction
<1>5. MilestonesAreTrue'
  BY <1>3 DEF MilestonesAreTrue, ObserveLinkedAction
<1> QED
  BY <1>1, <1>2, <1>4, <1>5

LEMMA StoreStep ==
  ASSUME StoreInv, [Next]_vars
  PROVE  StoreInv' /\ Keeps(cases, cases')
<1>1. CASE UNCHANGED vars
  <2>1. job' \in Jobs /\ JobInv'
    BY <1>1 DEF vars, StoreInv, TypeOK, JobInv
  <2> QED
    BY <1>1, <2>1, OtherStep DEF vars, StoreInv, TypeOK, ActionsKept
<1>2. ASSUME NEW o \in Opportunities, DetectStalledOpportunity(o)
      PROVE  StoreInv' /\ Keeps(cases, cases')
  <2>1. facts[o].leak \in Keys
    BY <1>2, FactAssumption DEF DetectStalledOpportunity, StoreInv, TypeOK
  <2> QED
    BY <1>2, <2>1, ReconcileStep DEF DetectStalledOpportunity
<1>3. ASSUME NEW o \in Clients, NEW k \in Keys, Reconcile(o, k)
      PROVE  StoreInv' /\ Keeps(cases, cases')
  BY <1>3, ReconcileStep, InputAssumption
<1>4. ASSUME NEW i \in DOMAIN cases, Handoff(i)
      PROVE  StoreInv' /\ Keeps(cases, cases')
  <2>0. cases \in Seq(CaseRecords)
    BY DEF StoreInv, TypeOK
  <2>1. cases[i] \in CaseRecords
    BY <2>0
  <2>2. cases[i].opp \in Opportunities
    BY <2>1 DEF CaseRecords
  <2> QED
    BY <1>4, <2>2, MaterializeStep DEF Handoff
<1>5. ASSUME NEW o \in Opportunities, MaterializeRevenueAction(o)
      PROVE  StoreInv' /\ Keeps(cases, cases')
  BY <1>5, MaterializeStep DEF MaterializeRevenueAction
<1> QED
  BY <1>1, <1>2, <1>3, <1>4, <1>5, BatchStep, FactsStep, TransitionStep, LinkStep,
     ReplayStep, InsertStep, ProgressStep, ScanStart, WriteBatchStep, ScanEventStep,
     LinkHandoffStep, ObserveStep, AbortStep DEF Next

\* StoreInv is an invariant.
LEMMA StoreInvariant == Spec => []StoreInv
<1>1. Init => StoreInv
  BY StoreInit
<1>2. StoreInv /\ [Next]_vars => StoreInv'
  BY StoreStep
<1> QED
  BY <1>1, <1>2, PTL DEF Spec

\* The collections and the running request keep their types.
THEOREM LeakTypes == Spec => []TypeOK
<1>1. StoreInv => TypeOK
  BY DEF StoreInv
<1> QED
  BY <1>1, StoreInvariant, PTL

\* Whatever the clock does and wherever requests are interrupted, the file of
\* cases stays one that the server can read.
THEOREM AlwaysReadable == Spec => []StoreReadable
<1>1. StoreInv => StoreReadable
  BY DEF StoreInv
<1> QED
  BY <1>1, StoreInvariant, PTL

\* A link milestone is recorded only of a link that is there and stays.
THEOREM TrueMilestones == Spec => []MilestonesAreTrue
<1>1. StoreInv => MilestonesAreTrue
  BY DEF StoreInv
<1> QED
  BY <1>1, StoreInvariant, PTL

\* No request loses what an earlier one recorded of a case.
THEOREM KeptHistory == Spec => HistoryIsKept
<1>1. StoreInv /\ [Next]_vars => Keeps(cases, cases')
  BY StoreStep
<1> QED
  BY <1>1, StoreInvariant, PTL DEF Spec, HistoryIsKept, Keeps

-----------------------------------------------------------------------------
(* The history of a series whose detections are in order, whatever has     *)
(* happened to the series of other opportunities.                          *)

\* Case i follows the one before it in its series; only the last of a series
\* can be active; a case is superseded by the one that follows it.
InLine(cs, i) ==
    /\ cs[i].pred < i
    /\ cs[i].pred # None => cs[cs[i].pred].opp = cs[i].opp
    /\ \A j \in DOMAIN cs : cs[j].opp = cs[i].opp /\ j < i =>
          j <= cs[i].pred /\ cs[j].state \notin ActiveStates
    /\ cs[i].succ # None =>
          /\ cs[i].succ \in DOMAIN cs /\ i < cs[i].succ
          /\ cs[cs[i].succ].opp = cs[i].opp
          /\ cs[cs[i].succ].pred = i

Chain(cs) ==
    \A i \in DOMAIN cs :
        /\ cs[i].state = "SUPERSEDED" <=> cs[i].succ # None
        /\ InOrder(cs, cs[i].opp) => InLine(cs, i)

LEMMA CaseFacts ==
  ASSUME NEW cs \in Seq(CaseRecords), NEW i \in DOMAIN cs
  PROVE  /\ cs[i] \in CaseRecords /\ i \in Nat /\ i # None /\ DOMAIN cs = 1 .. Len(cs)
         /\ cs[i].pred \in Nat /\ cs[i].succ \in Nat /\ cs[i].at \in Int
         /\ cs[i].action \in ActionIds \cup {None}
<1>1. cs[i] \in CaseRecords /\ i \in Nat /\ i # None /\ DOMAIN cs = 1 .. Len(cs)
  BY DEF None
<1> QED
  BY <1>1 DEF CaseRecords

\* The validation of a write has nothing to say against chains in order.
LEMMA ChainIsValid ==
  ASSUME NEW cs \in Seq(CaseRecords), Chain(cs), LinksResolve(cs),
         \A o \in Opportunities : InOrder(cs, o)
  PROVE  Valid(cs)
<1>4. ASSUME NEW i \in DOMAIN cs
      PROVE  /\ InLine(cs, i)
             /\ cs[i].state = "SUPERSEDED" <=> cs[i].succ # None
             /\ \A j \in DOMAIN cs : cs[j].opp = cs[i].opp /\ j < i => cs[j].at < cs[i].at
  <2>1. cs[i].opp \in Opportunities
    BY CaseFacts DEF CaseRecords
  <2>2. InOrder(cs, cs[i].opp)
    BY <2>1
  <2> QED
    BY <2>2 DEF Chain, InOrder, Series
<1>1. OneActivePerSeries(cs)
  <2>1. SUFFICES ASSUME NEW i \in DOMAIN cs, NEW j \in DOMAIN cs, i < j,
                        cs[i].opp = cs[j].opp
                 PROVE  cs[i].state \notin ActiveStates
    BY CaseFacts DEF OneActivePerSeries
  <2> QED
    BY <1>4, <2>1 DEF InLine
<1>2. PredecessorsAgree(cs)
  <2>1. SUFFICES ASSUME NEW i \in DOMAIN cs, cs[i].pred # None
                 PROVE  /\ cs[i].pred \in DOMAIN cs
                        /\ cs[cs[i].pred].opp = cs[i].opp
                        /\ cs[cs[i].pred].at <= cs[i].at
                        /\ cs[cs[i].pred].state = "SUPERSEDED" => cs[cs[i].pred].succ = i
    BY DEF PredecessorsAgree
  <2>2. PICK p \in Nat : p = cs[i].pred
    BY CaseFacts
  <2>3. p \in DOMAIN cs /\ p < i /\ cs[p].opp = cs[i].opp
    BY <1>4, <2>1, <2>2, CaseFacts DEF InLine, None
  <2>4. cs[p].at <= cs[i].at
    BY <1>4, <2>3, CaseFacts
  <2>5. ASSUME cs[p].state = "SUPERSEDED" PROVE cs[p].succ = i
    <3>1. PICK q \in DOMAIN cs : /\ q = cs[p].succ /\ p < q
                                 /\ cs[q].opp = cs[p].opp /\ cs[q].pred = p
      BY <1>4, <2>3, <2>5 DEF InLine
    <3>2. ~(q < i)
      BY <1>4, <2>2, <2>3, <3>1, CaseFacts DEF InLine
    <3>3. ~(i < q)
      BY <1>4, <2>2, <2>3, <3>1, CaseFacts DEF InLine
    <3> QED
      BY <3>1, <3>2, <3>3, CaseFacts
  <2> QED
    BY <2>2, <2>3, <2>4, <2>5
<1>3. SuccessorsAgree(cs)
  BY <1>4 DEF SuccessorsAgree, InLine
<1> QED
  BY <1>1, <1>2, <1>3 DEF Valid

\* A chain stays one when a case is linked or closed or snoozed.
LEMMA ChainKept ==
  ASSUME NEW cs \in Seq(CaseRecords), NEW ds, Chain(cs), DOMAIN ds = DOMAIN cs,
         \A i \in DOMAIN cs :
            /\ ds[i].opp = cs[i].opp /\ ds[i].at = cs[i].at
            /\ ds[i].pred = cs[i].pred /\ ds[i].succ = cs[i].succ
            /\ ds[i].state = "SUPERSEDED" <=> cs[i].state = "SUPERSEDED"
            /\ ds[i].state \in ActiveStates => cs[i].state \in ActiveStates
  PROVE  Chain(ds)
<1>1. ASSUME NEW i \in DOMAIN cs PROVE ds[i].state = "SUPERSEDED" <=> ds[i].succ # None
  BY DEF Chain
<1>2. ASSUME NEW i \in DOMAIN cs, InOrder(ds, ds[i].opp) PROVE InLine(ds, i)
  <2>1. InOrder(cs, cs[i].opp)
    BY <1>2 DEF InOrder, Series
  <2>2. InLine(cs, i)
    BY <2>1 DEF Chain
  <2>3. /\ cs[i].pred \in Nat
        /\ cs[i].pred # None => cs[i].pred \in DOMAIN cs
    BY <2>2, CaseFacts DEF InLine, None
  <2>4. ds[i].pred < i /\ (ds[i].pred # None => ds[ds[i].pred].opp = ds[i].opp)
    BY <2>2, <2>3 DEF InLine
  <2>5. \A j \in DOMAIN ds : ds[j].opp = ds[i].opp /\ j < i =>
              j <= ds[i].pred /\ ds[j].state \notin ActiveStates
    BY <2>2 DEF InLine
  <2>6. ds[i].succ # None =>
            /\ ds[i].succ \in DOMAIN ds /\ i < ds[i].succ
            /\ ds[ds[i].succ].opp = ds[i].opp
            /\ ds[ds[i].succ].pred = i
    BY <2>2 DEF InLine
  <2> QED
    BY <2>4, <2>5, <2>6 DEF InLine
<1> QED
  BY <1>1, <1>2 DEF Chain

\* A chain stays one when series o alone changes and is out of order.
LEMMA ChainElsewhere ==
  ASSUME NEW cs \in Seq(CaseRecords), NEW rs, Chain(cs), NEW o, ~InOrder(rs, o),
         DOMAIN cs \subseteq DOMAIN rs,
         \A i \in DOMAIN rs : rs[i].state = "SUPERSEDED" <=> rs[i].succ # None,
         \A i \in DOMAIN rs \ DOMAIN cs : rs[i].opp = o,
         \A i \in DOMAIN cs : rs[i].opp = cs[i].opp /\ (cs[i].opp # o => rs[i] = cs[i])
  PROVE  Chain(rs)
<1>1. ASSUME NEW i \in DOMAIN rs, InOrder(rs, rs[i].opp) PROVE InLine(rs, i)
  <2>1. rs[i].opp # o /\ i \in DOMAIN cs /\ rs[i] = cs[i]
    BY <1>1
  <2>2. \A j \in DOMAIN cs : cs[j].opp = cs[i].opp => rs[j] = cs[j]
    BY <2>1
  <2>3. \A j \in DOMAIN rs : rs[j].opp = cs[i].opp => j \in DOMAIN cs /\ cs[j].opp = cs[i].opp
    BY <2>1
  <2>4. InOrder(cs, cs[i].opp)
    BY <1>1, <2>1, <2>2 DEF InOrder, Series
  <2>5. InLine(cs, i)
    BY <2>1, <2>4 DEF Chain
  <2>6. /\ cs[i].pred \in Nat
        /\ cs[i].pred # None => cs[i].pred \in DOMAIN cs
    BY <2>1, <2>5, CaseFacts DEF InLine, None
  <2>7. rs[i].pred < i /\ (rs[i].pred # None => rs[rs[i].pred].opp = rs[i].opp)
    BY <2>1, <2>2, <2>5, <2>6 DEF InLine
  <2>8. \A j \in DOMAIN rs : rs[j].opp = rs[i].opp /\ j < i =>
              j <= rs[i].pred /\ rs[j].state \notin ActiveStates
    BY <2>1, <2>2, <2>3, <2>5 DEF InLine
  <2>9. rs[i].succ # None =>
            /\ rs[i].succ \in DOMAIN rs /\ i < rs[i].succ
            /\ rs[rs[i].succ].opp = rs[i].opp
            /\ rs[rs[i].succ].pred = i
    BY <2>1, <2>2, <2>5 DEF InLine
  <2> QED
    BY <2>7, <2>8, <2>9 DEF InLine
<1> QED
  BY <1>1 DEF Chain

\* The case that the next detection of a chain in order follows is the last of
\* the series, whether active or not.
LEMMA LastCase ==
  ASSUME NEW cs \in Seq(CaseRecords), Chain(cs), NEW o \in Opportunities, NEW t \in Int,
         InOrder(cs, o), DetectedAt(cs, o, t), Series(cs, o) # {}
  PROVE  \E p \in Series(cs, o) :
            /\ Predecessor(cs, o) = {p}
            /\ \A j \in Series(cs, o) : j <= p
            /\ \A j \in Active(cs, o) : j = p
<1>1. PICK p \in Newest(cs, o) : TRUE
  BY DEF DetectedAt
<1>2. p \in DOMAIN cs /\ cs[p].opp = o /\ p \in Series(cs, o)
  BY <1>1 DEF Newest, Series
<1>3. ASSUME NEW j \in Series(cs, o) PROVE j <= p /\ cs[j].at <= cs[p].at
  <2>1. j \in DOMAIN cs /\ cs[j].opp = o
    BY DEF Series
  <2>2. cs[j].at < cs[p].at \/ (cs[j].at = cs[p].at /\ p <= j)
    BY <1>1 DEF Newest
  <2>3. p < j => cs[p].at < cs[j].at
    BY <1>2 DEF InOrder
  <2> QED
    BY <1>2, <2>1, <2>2, <2>3, CaseFacts
<1>4. ASSUME NEW j \in Active(cs, o) PROVE j = p
  <2>1. j \in Series(cs, o) /\ j \in DOMAIN cs /\ cs[j].opp = o
        /\ cs[j].state \in ActiveStates
    BY DEF Active, Series
  <2>2. ~(j < p)
    BY <1>2, <2>1 DEF Chain, InLine
  <2> QED
    BY <1>2, <1>3, <2>1, <2>2, CaseFacts
<1>5. Newest(cs, o) = {p}
  <2>1. ASSUME NEW q \in Newest(cs, o) PROVE q = p
    <3>1. q \in Series(cs, o) /\ q \in DOMAIN cs
      BY DEF Newest, Series
    <3>2. cs[p].at < cs[q].at \/ (cs[p].at = cs[q].at /\ q <= p)
      BY <1>2 DEF Newest
    <3>3. q < p => cs[q].at < cs[p].at
      BY <1>2, <3>1 DEF InOrder
    <3> QED
      BY <1>2, <1>3, <3>1, <3>2, <3>3, CaseFacts
  <2> QED
    BY <1>1, <2>1
<1>6. Predecessor(cs, o) = {p}
  BY <1>4, <1>5 DEF Predecessor
<1> QED
  BY <1>2, <1>3, <1>4, <1>6

\* rs is cs and one case more, which follows case p, the last of series o if
\* there is one, and supersedes it if it was active.
Grown(cs, rs, o, p, t) ==
    LET n == Len(cs) + 1
    IN  /\ p < n /\ (p # None => cs[p].opp = o)
        /\ \A j \in Series(cs, o) : j <= p
        /\ DOMAIN rs = 1 .. n
        /\ \A i \in DOMAIN cs :
             /\ rs[i].opp = cs[i].opp /\ rs[i].at = cs[i].at /\ rs[i].pred = cs[i].pred
             /\ rs[i].state \in ActiveStates =>
                   cs[i].state \in ActiveStates /\ cs[i].opp # o
             /\ rs[i].state = "SUPERSEDED" <=> rs[i].succ # None
             /\ \/ rs[i].succ = cs[i].succ
                \/ i = p /\ rs[i].succ = n
        /\ rs[n].opp = o /\ rs[n].at = t /\ rs[n].pred = p
        /\ rs[n].state = "OPEN" /\ rs[n].succ = None

\* A collection that grows in this way is still a chain.
LEMMA ChainGrows ==
  ASSUME NEW cs \in Seq(CaseRecords), Chain(cs), NEW o \in Opportunities,
         NEW p \in Nat, NEW t \in Int, NEW rs, Grown(cs, rs, o, p, t)
  PROVE  Chain(rs)
<1> DEFINE n == Len(cs) + 1
<1>1. DOMAIN cs = 1 .. Len(cs) /\ Len(cs) \in Nat /\ n \in Nat
  OBVIOUS
<1>5. /\ p < n /\ (p # None => cs[p].opp = o)
      /\ \A j \in Series(cs, o) : j <= p
      /\ DOMAIN rs = 1 .. n
      /\ \A i \in DOMAIN cs :
           /\ rs[i].opp = cs[i].opp /\ rs[i].at = cs[i].at /\ rs[i].pred = cs[i].pred
           /\ rs[i].state \in ActiveStates =>
                 cs[i].state \in ActiveStates /\ cs[i].opp # o
           /\ rs[i].state = "SUPERSEDED" <=> rs[i].succ # None
           /\ \/ rs[i].succ = cs[i].succ
              \/ i = p /\ rs[i].succ = n
      /\ rs[n].opp = o /\ rs[n].at = t /\ rs[n].pred = p
      /\ rs[n].state = "OPEN" /\ rs[n].succ = None
  BY DEF Grown
<1>2. \A i \in DOMAIN rs : rs[i].state = "SUPERSEDED" <=> rs[i].succ # None
  <2>1. ASSUME NEW i \in DOMAIN rs PROVE i \in DOMAIN cs \/ i = n
    BY <1>1, <1>5
  <2> QED
    BY <1>5, <2>1
<1>3. ASSUME NEW i \in DOMAIN cs, InOrder(rs, rs[i].opp) PROVE InLine(rs, i)
  <2>6. DOMAIN cs \subseteq DOMAIN rs
    BY <1>1, <1>5
  <2>7. InOrder(cs, cs[i].opp)
    BY <1>3, <1>5, <2>6 DEF InOrder, Series
  <2>8. InLine(cs, i)
    BY <2>7 DEF Chain
  <2>1. /\ cs[i].pred \in Nat /\ cs[i].pred < i
        /\ cs[i].pred # None => cs[i].pred \in DOMAIN cs /\ cs[cs[i].pred].opp = cs[i].opp
    BY <2>8, CaseFacts DEF InLine, None
  <2>2. rs[i].pred < i /\ (rs[i].pred # None => rs[rs[i].pred].opp = rs[i].opp)
    BY <1>5, <1>3, <2>1
  <2>3. ASSUME NEW j \in DOMAIN rs, rs[j].opp = rs[i].opp, j < i
        PROVE  j <= rs[i].pred /\ rs[j].state \notin ActiveStates
    <3>1. j \in DOMAIN cs
      BY <1>5, <1>1, <1>3, <2>3
    <3>2. cs[j].opp = cs[i].opp
      BY <1>5, <1>3, <2>3, <3>1
    <3>3. j <= cs[i].pred /\ cs[j].state \notin ActiveStates
      BY <2>3, <2>8, <3>1, <3>2 DEF InLine
    <3> QED
      BY <1>5, <1>3, <3>1, <3>3
  <2>5. ASSUME rs[i].succ # None
        PROVE  /\ rs[i].succ \in DOMAIN rs /\ i < rs[i].succ
               /\ rs[rs[i].succ].opp = rs[i].opp
               /\ rs[rs[i].succ].pred = i
    <3>1. CASE i = p /\ rs[i].succ = n
      <4>1. n \in DOMAIN rs /\ i < n /\ i # None
        BY <1>5, <1>1, <1>3 DEF None
      <4>2. rs[i].opp = o
        BY <1>5, <1>3, <3>1, <4>1
      <4> QED
        BY <1>5, <3>1, <4>1, <4>2
    <3>2. CASE rs[i].succ = cs[i].succ
      <4>1. PICK q \in DOMAIN cs : /\ q = cs[i].succ /\ i < q
                                   /\ cs[q].opp = cs[i].opp /\ cs[q].pred = i
        BY <2>5, <2>8, <3>2 DEF InLine
      <4>2. q \in DOMAIN rs
        BY <1>5, <1>1, <4>1
      <4> QED
        BY <1>5, <1>3, <3>2, <4>1, <4>2
    <3> QED
      BY <1>5, <1>3, <3>1, <3>2
  <2> QED
    BY <2>2, <2>3, <2>5 DEF InLine
<1>4. InLine(rs, n)
  <2>1. p # None => p \in DOMAIN cs
    BY <1>5, <1>1 DEF None
  <2>2. rs[n].pred < n /\ (rs[n].pred # None => rs[rs[n].pred].opp = rs[n].opp)
    BY <1>5, <2>1
  <2>3. ASSUME NEW j \in DOMAIN rs, rs[j].opp = rs[n].opp, j < n
        PROVE  j <= rs[n].pred /\ rs[j].state \notin ActiveStates
    <3>1. j \in DOMAIN cs /\ cs[j].opp = o
      BY <1>5, <1>1, <2>3
    <3>2. j \in Series(cs, o)
      BY <1>5, <3>1 DEF Series
    <3> QED
      BY <1>5, <3>1, <3>2
  <2> QED
    BY <1>5, <2>2, <2>3 DEF InLine
<1>6. ASSUME NEW i \in DOMAIN rs PROVE i \in DOMAIN cs \/ i = n
  BY <1>1, <1>5
<1> HIDE DEF n
<1> QED
  BY <1>2, <1>3, <1>4, <1>6 DEF Chain

\* A reconciliation that adds a case changes one other at most, of its series.
LEMMA ReconcileShape ==
  ASSUME NEW cs \in Seq(CaseRecords), Chain(cs), NEW o \in Opportunities,
         NEW k \in Keys, NEW t \in Int,
         ~(\E p \in Predecessor(cs, o) : cs[p].key = k)
  PROVE  \E ds \in Seq(CaseRecords), p \in Nat :
            /\ ReconcileRecord(cs, o, k, t) = Append(ds, NewCase(o, k, t, p))
            /\ Len(ds) = Len(cs)
            /\ \A i \in DOMAIN cs :
                 /\ ds[i].opp = cs[i].opp /\ ds[i].at = cs[i].at
                 /\ cs[i].opp # o => ds[i] = cs[i]
                 /\ ds[i].state = "SUPERSEDED" <=> ds[i].succ # None
<1>1. CASE Predecessor(cs, o) = {}
  <2>1. ReconcileRecord(cs, o, k, t) = Append(cs, NewCase(o, k, t, None)) /\ None \in Nat
    BY <1>1 DEF ReconcileRecord, None
  <2> QED
    BY <2>1 DEF Chain
<1>2. CASE Predecessor(cs, o) # {}
  <2>1. PICK p : p = CHOOSE i \in Predecessor(cs, o) : TRUE
    OBVIOUS
  <2>2. p \in Series(cs, o)
    BY <1>2, <2>1 DEF Predecessor, Active, Newest
  <2>3. p \in DOMAIN cs /\ p \in Nat /\ cs[p].opp = o /\ cs[p] \in CaseRecords
    BY <2>2, CaseFacts DEF Series
  <2>4. PICK r : r = [cs[p] EXCEPT !.state = "SUPERSEDED", !.succ = Len(cs) + 1]
    OBVIOUS
  <2>5. /\ r \in CaseRecords /\ r.opp = cs[p].opp /\ r.at = cs[p].at
        /\ r.state = "SUPERSEDED" /\ r.succ # None
    <3>1. Len(cs) + 1 \in Nat /\ Len(cs) + 1 # None
      BY DEF None
    <3> QED
      BY <2>3, <2>4, <3>1 DEF CaseRecords
  <2>6. PICK sup : sup = [cs EXCEPT ![p] = r]
    OBVIOUS
  <2>7. PICK ds : ds = IF p \in Active(cs, o) THEN sup ELSE cs
    OBVIOUS
  <2>8. ReconcileRecord(cs, o, k, t) = Append(ds, NewCase(o, k, t, p))
    BY <1>2, <2>1, <2>4, <2>6, <2>7 DEF ReconcileRecord
  <2>9. ds \in Seq(CaseRecords) /\ Len(ds) = Len(cs)
    BY <2>3, <2>5, <2>6, <2>7
  <2>10. ASSUME NEW i \in DOMAIN cs
         PROVE  /\ ds[i].opp = cs[i].opp /\ ds[i].at = cs[i].at
                /\ cs[i].opp # o => ds[i] = cs[i]
                /\ ds[i].state = "SUPERSEDED" <=> ds[i].succ # None
    <3>1. CASE i = p /\ p \in Active(cs, o)
      BY <2>3, <2>5, <2>6, <2>7, <3>1
    <3>2. CASE ~(i = p /\ p \in Active(cs, o))
      <4>1. ds[i] = cs[i]
        BY <2>6, <2>7, <3>2
      <4> QED
        BY <4>1 DEF Chain
    <3> QED
      BY <3>1, <3>2
  <2> QED
    BY <2>3, <2>8, <2>9, <2>10
<1> QED
  BY <1>1, <1>2

LEMMA ReconcileChain ==
  ASSUME NEW cs \in Seq(CaseRecords), Chain(cs), NEW o \in Opportunities,
         NEW k \in Keys, NEW t \in Int, DetectedAt(cs, o, t)
  PROVE  Chain(ReconcileRecord(cs, o, k, t))
<1> DEFINE rs == ReconcileRecord(cs, o, k, t)
           n == Len(cs) + 1
<1>0. n \in Nat /\ DOMAIN cs = 1 .. Len(cs)
  OBVIOUS
<1>1. CASE \E p \in Predecessor(cs, o) : cs[p].key = k
  BY <1>1 DEF ReconcileRecord
<1>2. CASE ~(\E p \in Predecessor(cs, o) : cs[p].key = k) /\ Series(cs, o) = {}
  <2>1. Predecessor(cs, o) = {}
    BY <1>2 DEF Predecessor, Active, Newest
  <2>2. rs = Append(cs, NewCase(o, k, t, None))
    BY <1>2, <2>1 DEF ReconcileRecord
  <2>3. DOMAIN rs = 1 .. n /\ rs[n] = NewCase(o, k, t, None)
    BY <2>2
  <2>4. ASSUME NEW i \in DOMAIN cs
        PROVE  /\ rs[i].opp = cs[i].opp /\ rs[i].at = cs[i].at /\ rs[i].pred = cs[i].pred
               /\ rs[i].state \in ActiveStates => cs[i].state \in ActiveStates /\ cs[i].opp # o
               /\ rs[i].state = "SUPERSEDED" <=> rs[i].succ # None
               /\ rs[i].succ = cs[i].succ
    <3>1. rs[i] = cs[i]
      BY <2>2
    <3>2. cs[i].opp # o
      BY <1>2 DEF Series
    <3> QED
      BY <3>1, <3>2 DEF Chain
  <2>5. /\ rs[n].opp = o /\ rs[n].at = t /\ rs[n].pred = None
        /\ rs[n].state = "OPEN" /\ rs[n].succ = None
    BY <2>3 DEF NewCase
  <2>6. None \in Nat /\ None < n
    BY DEF None
  <2>7. \A j \in Series(cs, o) : j <= None
    BY <1>2
  <2> HIDE DEF rs
  <2>8. Grown(cs, rs, o, None, t)
    BY <2>3, <2>4, <2>5, <2>6, <2>7 DEF Grown
  <2>9. Chain(rs)
    BY <2>6, <2>8, ChainGrows
  <2> QED
    BY <2>9 DEF rs
<1>3. CASE /\ ~(\E p \in Predecessor(cs, o) : cs[p].key = k)
           /\ Series(cs, o) # {} /\ InOrder(cs, o)
  <2>1. PICK p \in Series(cs, o) :
            /\ Predecessor(cs, o) = {p}
            /\ \A j \in Series(cs, o) : j <= p
            /\ \A j \in Active(cs, o) : j = p
    BY <1>3, LastCase
  <2>2. p \in DOMAIN cs /\ p \in Nat /\ cs[p].opp = o /\ cs[p] \in CaseRecords /\ p < n
    BY <2>1, CaseFacts DEF Series
  <2> DEFINE sup == [cs EXCEPT ![p] = [@ EXCEPT !.state = "SUPERSEDED",
                                                !.succ = Len(cs) + 1]]
             ds == IF p \in Active(cs, o) THEN sup ELSE cs
  <2>3. (CHOOSE i \in Predecessor(cs, o) : TRUE) = p
    BY <2>1
  <2>4. rs = Append(ds, NewCase(o, k, t, p))
    BY <1>3, <2>1, <2>3 DEF ReconcileRecord
  <2>5. DOMAIN ds = DOMAIN cs /\ Len(ds) = Len(cs) /\ ds \in Seq(CaseRecords)
    <3>1. sup[p] = [cs[p] EXCEPT !.state = "SUPERSEDED", !.succ = Len(cs) + 1]
      BY <2>2
    <3>2. sup[p] \in CaseRecords
      BY <1>0, <2>2, <3>1 DEF CaseRecords
    <3>3. sup \in Seq(CaseRecords) /\ DOMAIN sup = DOMAIN cs /\ Len(sup) = Len(cs)
      BY <2>2, <3>2
    <3> QED
      BY <3>3
  <2>6. ASSUME NEW i \in DOMAIN cs
        PROVE  /\ ds[i].opp = cs[i].opp /\ ds[i].at = cs[i].at /\ ds[i].pred = cs[i].pred
               /\ ds[i].state \in ActiveStates => cs[i].state \in ActiveStates /\ cs[i].opp # o
               /\ ds[i].state = "SUPERSEDED" <=> ds[i].succ # None
               /\ \/ ds[i].succ = cs[i].succ
                  \/ i = p /\ ds[i].succ = n
    <3>1. CASE i = p /\ p \in Active(cs, o)
      <4>1. ds[i] = [cs[p] EXCEPT !.state = "SUPERSEDED", !.succ = Len(cs) + 1]
        BY <2>2, <3>1
      <4>2. /\ ds[i].opp = cs[i].opp /\ ds[i].at = cs[i].at /\ ds[i].pred = cs[i].pred
            /\ ds[i].state = "SUPERSEDED" /\ ds[i].succ = n
        BY <2>2, <3>1, <4>1 DEF CaseRecords
      <4>3. n # None
        BY <1>0 DEF None
      <4> QED
        BY <3>1, <4>2, <4>3 DEF ActiveStates
    <3>2. CASE ~(i = p /\ p \in Active(cs, o))
      <4>1. ds[i] = cs[i]
        BY <3>2
      <4>2. cs[i].state \in ActiveStates => cs[i].opp # o
        BY <2>1, <3>2 DEF Active, Series
      <4> QED
        BY <4>1, <4>2 DEF Chain
    <3> QED
      BY <3>1, <3>2
  <2> HIDE DEF ds, sup
  <2>7. /\ DOMAIN rs = 1 .. n /\ rs[n] = NewCase(o, k, t, p)
        /\ \A i \in DOMAIN cs : rs[i] = ds[i]
    BY <2>4, <2>5
  <2>8. /\ rs[n].opp = o /\ rs[n].at = t /\ rs[n].pred = p
        /\ rs[n].state = "OPEN" /\ rs[n].succ = None
    BY <2>7 DEF NewCase
  <2>9. \A i \in DOMAIN cs :
            /\ rs[i].opp = cs[i].opp /\ rs[i].at = cs[i].at /\ rs[i].pred = cs[i].pred
            /\ rs[i].state \in ActiveStates => cs[i].state \in ActiveStates /\ cs[i].opp # o
            /\ rs[i].state = "SUPERSEDED" <=> rs[i].succ # None
            /\ \/ rs[i].succ = cs[i].succ
               \/ i = p /\ rs[i].succ = n
    BY <2>6, <2>7
  <2> HIDE DEF rs
  <2>10. Grown(cs, rs, o, p, t)
    BY <2>1, <2>2, <2>7, <2>8, <2>9 DEF Grown
  <2>11. Chain(rs)
    BY <2>2, <2>10, ChainGrows
  <2> QED
    BY <2>11 DEF rs
<1>4. CASE /\ ~(\E p \in Predecessor(cs, o) : cs[p].key = k)
           /\ Series(cs, o) # {} /\ ~InOrder(cs, o)
  <2>1. PICK ds \in Seq(CaseRecords), p \in Nat :
            /\ rs = Append(ds, NewCase(o, k, t, p))
            /\ Len(ds) = Len(cs)
            /\ \A i \in DOMAIN cs :
                 /\ ds[i].opp = cs[i].opp /\ ds[i].at = cs[i].at
                 /\ cs[i].opp # o => ds[i] = cs[i]
                 /\ ds[i].state = "SUPERSEDED" <=> ds[i].succ # None
    BY <1>4, ReconcileShape
  <2> HIDE DEF rs
  <2>2. /\ DOMAIN rs = 1 .. n /\ rs[n] = NewCase(o, k, t, p)
        /\ \A i \in DOMAIN cs : rs[i] = ds[i]
    BY <2>1
  <2>3. \A i \in DOMAIN rs : i \in DOMAIN cs \/ i = n
    BY <1>0, <2>2
  <2>4. DOMAIN cs \subseteq DOMAIN rs
    BY <1>0, <2>2
  <2>5. rs[n].opp = o /\ rs[n].state = "OPEN" /\ rs[n].succ = None
    BY <2>2 DEF NewCase
  <2> HIDE DEF n
  <2>6. ~InOrder(rs, o)
    BY <1>4, <2>1, <2>2, <2>4 DEF InOrder, Series
  <2>7. /\ \A i \in DOMAIN rs : rs[i].state = "SUPERSEDED" <=> rs[i].succ # None
        /\ \A i \in DOMAIN rs \ DOMAIN cs : rs[i].opp = o
        /\ \A i \in DOMAIN cs : rs[i].opp = cs[i].opp /\ (cs[i].opp # o => rs[i] = cs[i])
    BY <2>1, <2>2, <2>3, <2>5
  <2>8. Chain(rs)
    BY <2>4, <2>6, <2>7, ChainElsewhere
  <2> QED
    BY <2>8 DEF rs
<1> QED
  BY <1>1, <1>2, <1>3, <1>4

\* Reconciliation leaves the links as they are.
LEMMA ReconcileLinks ==
  ASSUME NEW cs \in Seq(CaseRecords), NEW o \in Opportunities, NEW k \in Keys,
         NEW t \in Int, LinksResolve(cs)
  PROVE  LinksResolve(ReconcileRecord(cs, o, k, t))
<1>1. ASSUME NEW p \in Nat, NEW ds \in Seq(CaseRecords), Len(ds) = Len(cs),
             \A i \in DOMAIN cs : /\ ds[i].action = cs[i].action
                                   /\ ds[i].opp = cs[i].opp /\ ds[i].fp = cs[i].fp
      PROVE  LinksResolve(Append(ds, NewCase(o, k, t, p)))
  <2> DEFINE rs == Append(ds, NewCase(o, k, t, p))
  <2>1. ASSUME NEW i \in DOMAIN rs, rs[i].action # None
        PROVE  i \in DOMAIN cs /\ rs[i] = ds[i]
    <3>1. i = Len(ds) + 1 => rs[i].action = None
      BY DEF NewCase
    <3> QED
      BY <1>1, <2>1, <3>1
  <2> HIDE DEF rs
  <2>2. LinksResolve(rs)
    BY <1>1, <2>1 DEF LinksResolve
  <2> QED
    BY <2>2 DEF rs
<1>2. None \in Nat
  BY DEF None
<1>3. ASSUME NEW p \in DOMAIN cs
      PROVE LET ds == [cs EXCEPT ![p] = [@ EXCEPT !.state = "SUPERSEDED",
                                                  !.succ = Len(cs) + 1]]
            IN  /\ ds \in Seq(CaseRecords) /\ Len(ds) = Len(cs)
                /\ \A i \in DOMAIN cs : /\ ds[i].action = cs[i].action
                                       /\ ds[i].opp = cs[i].opp /\ ds[i].fp = cs[i].fp
  <2> DEFINE ds == [cs EXCEPT ![p] = [@ EXCEPT !.state = "SUPERSEDED",
                                               !.succ = Len(cs) + 1]]
  <2>1. cs[p] \in CaseRecords /\ Len(cs) + 1 \in Nat
    OBVIOUS
  <2>2. ds[p] = [cs[p] EXCEPT !.state = "SUPERSEDED", !.succ = Len(cs) + 1]
    OBVIOUS
  <2>3. /\ ds[p] \in CaseRecords /\ ds[p].action = cs[p].action
        /\ ds[p].opp = cs[p].opp /\ ds[p].fp = cs[p].fp
    BY <2>1, <2>2 DEF CaseRecords
  <2>4. ds \in Seq(CaseRecords) /\ Len(ds) = Len(cs)
    BY <2>3
  <2> QED
    BY <2>3, <2>4
<1> DEFINE p == CHOOSE i \in Predecessor(cs, o) : TRUE
<1>4. Predecessor(cs, o) # {} => p \in DOMAIN cs /\ p \in Nat
  <2>1. Predecessor(cs, o) \subseteq DOMAIN cs
    BY DEF Predecessor, Active, Newest, Series
  <2> QED
    BY <2>1
<1> HIDE DEF p
<1> QED
  BY <1>1, <1>2, <1>3, <1>4 DEF ReconcileRecord, p
-----------------------------------------------------------------------------
(* The steps                                                               *)

\* The running request as well holds only what the validation will accept.
ChainInv ==
    /\ Chain(cases)
    /\ ChangedEvidenceAccepted
    /\ job.step = "scan" => Chain(job.draft) /\ LinksResolve(job.draft)
    /\ job.step = "link" =>
          /\ actions[job.action].status # "ABSENT"
          /\ actions[job.action].opp = job.opp

\* The write of a chain is accepted, unless a series is out of order.
LEMMA ChainWrite ==
  ASSUME ChainInv, NEW cs \in Seq(CaseRecords), Chain(cs), LinksResolve(cs), WriteCases(cs)
  PROVE  Chain(cases') /\ ChangedEvidenceAccepted'
<1>1. CASE cases' = cs /\ refused' = <<>>
  BY <1>1 DEF ChangedEvidenceAccepted
<1>2. CASE cases' = cases /\ refused' = cs /\ ~Valid(cs)
  <2>1. PICK o \in Opportunities : ~InOrder(cs, o)
    BY <1>2, ChainIsValid
  <2>2. ~InOrder(refused, o)'
    BY <1>2, <2>1 DEF InOrder, Series
  <2> QED
    BY <1>2, <2>2 DEF ChainInv, ChangedEvidenceAccepted
<1> QED
  BY <1>1, <1>2 DEF WriteCases

\* A write of the cases by a request that is, or is about to be, over.
LEMMA ChainWritten ==
  ASSUME ChainInv, NEW cs \in Seq(CaseRecords), Chain(cs), LinksResolve(cs), WriteCases(cs),
         job'.step \notin {"scan", "link"}
  PROVE  ChainInv'
  BY ChainWrite DEF ChainInv

LEMMA RefusedKept ==
  ASSUME ChainInv, UNCHANGED refused
  PROVE  ChangedEvidenceAccepted'
BY DEF ChainInv, ChangedEvidenceAccepted, InOrder, Series

\* A step that leaves the cases alone, and starts neither a scan nor a link.
LEMMA ChainLeft ==
  ASSUME ChainInv, UNCHANGED <<cases, refused>>, job'.step \notin {"scan", "link"}
  PROVE  ChainInv'
<1> QED
  BY RefusedKept DEF ChainInv

LEMMA ReconcileChainStep ==
  ASSUME StoreInv, ChainInv,
         NEW o \in Opportunities, NEW k \in Keys, Reconcile(o, k)
  PROVE  ChainInv'
<1>1. cases \in Seq(CaseRecords) /\ Chain(cases) /\ LinksResolve(cases)
  BY DEF StoreInv, TypeOK, ChainInv, StoreReadable, Valid
<1>2. PICK t \in Instants(cases) : /\ DetectedAt(cases, o, t)
                                   /\ WriteCases(ReconcileRecord(cases, o, k, t))
  BY DEF Reconcile
<1>3. t \in Int
  BY <1>1, <1>2, InstantFacts
<1> DEFINE cs == ReconcileRecord(cases, o, k, t)
<1>4. cs \in Seq(CaseRecords) /\ Chain(cs) /\ LinksResolve(cs)
  BY <1>1, <1>2, <1>3, ReconcileKeeps, ReconcileChain, ReconcileLinks
<1>5. WriteCases(cs)
  BY <1>2
<1>6. job'.step \notin {"scan", "link"}
  BY DEF Reconcile, Idle, Job
<1> HIDE DEF cs
<1> QED
  BY <1>4, <1>5, <1>6, ChainWritten

LEMMA TransitionChainStep ==
  ASSUME StoreInv, ChainInv, NEW i \in DOMAIN cases, Snooze(i) \/ Resume(i) \/ Dismiss(i)
  PROVE  ChainInv'
<1>1. cases \in Seq(CaseRecords) /\ Chain(cases) /\ LinksResolve(cases)
  BY DEF StoreInv, TypeOK, ChainInv, StoreReadable, Valid
<1>2. PICK s \in ActiveStates \cup {"DISMISSED"} :
        WriteCases([cases EXCEPT ![i].state = s])
  BY DEF Snooze, Resume, Dismiss, ActiveStates
<1>3. cases[i].state \in ActiveStates /\ job'.step \notin {"scan", "link"}
  BY DEF Snooze, Resume, Dismiss, ActiveStates, Idle, Job
<1> DEFINE cs == [cases EXCEPT ![i].state = s]
<1>4. cs \in Seq(CaseRecords) /\ DOMAIN cs = DOMAIN cases
  BY <1>1, <1>2, <1>3, TransitionKeeps
<1>5. ASSUME NEW h \in DOMAIN cases
      PROVE  /\ cs[h].opp = cases[h].opp /\ cs[h].at = cases[h].at
             /\ cs[h].pred = cases[h].pred /\ cs[h].succ = cases[h].succ
             /\ cs[h].action = cases[h].action /\ cs[h].fp = cases[h].fp
             /\ cs[h].state = "SUPERSEDED" <=> cases[h].state = "SUPERSEDED"
             /\ cs[h].state \in ActiveStates => cases[h].state \in ActiveStates
  <2>1. cases[h] \in CaseRecords
    BY <1>1
  <2>2. CASE h = i
    <3>1. cs[h] = [cases[h] EXCEPT !.state = s]
      BY <2>2
    <3> QED
      BY <1>2, <1>3, <2>1, <2>2, <3>1 DEF CaseRecords, ActiveStates
  <2>3. CASE h # i
    BY <2>3
  <2> QED
    BY <2>2, <2>3
<1>6. WriteCases(cs)
  BY <1>2
<1> HIDE DEF cs
<1>7. Chain(cs)
  BY <1>1, <1>4, <1>5, ChainKept
<1>8. LinksResolve(cs)
  BY <1>1, <1>4, <1>5 DEF LinksResolve
<1> QED
  BY <1>3, <1>4, <1>6, <1>7, <1>8, ChainWritten

\* A link to an action of the case's own opportunity is accepted.
LEMMA LinkedChain ==
  ASSUME StoreInv, ChainInv, NEW i \in DOMAIN cases, NEW a \in ActionIds,
         actions[a].status # "ABSENT", actions[a].opp = cases[i].opp,
         cases[i].action # None \/ cases[i].state \in ActiveStates
  PROVE  /\ Linked(i, a) \in Seq(CaseRecords)
         /\ Chain(Linked(i, a)) /\ LinksResolve(Linked(i, a))
<1>1. /\ cases \in Seq(CaseRecords) /\ actions \in [ActionIds -> ActionRecords]
      /\ Chain(cases) /\ LinksResolve(cases)
  BY DEF StoreInv, TypeOK, ChainInv, StoreReadable, Valid
<1> DEFINE cs == Linked(i, a)
<1>2. cs \in Seq(CaseRecords)
  BY <1>1, LinkKeeps
<1>3. CASE cases[i].action # None
  BY <1>1, <1>3 DEF Linked
<1>4. CASE cases[i].action = None
  <2>1. cs = [cases EXCEPT ![i] = [@ EXCEPT !.action = a, !.fp = actions[a].basis]]
    BY <1>4 DEF Linked
  <2>2. DOMAIN cs = DOMAIN cases
    BY <2>1
  <2>3. cases[i] \in CaseRecords
    BY <1>1
  <2>4. /\ cs[i].opp = cases[i].opp /\ cs[i].at = cases[i].at
        /\ cs[i].pred = cases[i].pred /\ cs[i].succ = cases[i].succ
        /\ cs[i].state = cases[i].state
        /\ cs[i].action = a /\ cs[i].fp = actions[a].basis
    <3>1. cs[i] = [cases[i] EXCEPT !.action = a, !.fp = actions[a].basis]
      BY <2>1
    <3> QED
      BY <2>3, <3>1 DEF CaseRecords
  <2>5. \A h \in DOMAIN cases : h # i => cs[h] = cases[h]
    BY <2>1
  <2> HIDE DEF cs
  <2>6. Chain(cs)
    <3>1. ASSUME NEW h \in DOMAIN cases
          PROVE  /\ cs[h].opp = cases[h].opp /\ cs[h].at = cases[h].at
                 /\ cs[h].pred = cases[h].pred /\ cs[h].succ = cases[h].succ
                 /\ cs[h].state = cases[h].state
      BY <2>4, <2>5
    <3> QED
      BY <1>1, <2>2, <3>1, ChainKept
  <2>7. LinksResolve(cs)
    BY <1>1, <2>2, <2>4, <2>5 DEF LinksResolve
  <2> QED
    BY <1>2, <2>6, <2>7 DEF cs
<1> QED
  BY <1>3, <1>4

LEMMA LinkChainStep ==
  ASSUME StoreInv, ChainInv, NEW i \in DOMAIN cases, NEW a \in ActionIds,
         LinkRevenueAction(i, a)
  PROVE  ChainInv'
<1>1. /\ Linked(i, a) \in Seq(CaseRecords)
      /\ Chain(Linked(i, a)) /\ LinksResolve(Linked(i, a))
  BY LinkedChain DEF LinkRevenueAction, MayLink
<1>2. WriteCases(Linked(i, a)) /\ job'.step \notin {"scan", "link"}
  BY DEF LinkRevenueAction, Idle, Job
<1> QED
  BY <1>1, <1>2, ChainWritten

LEMMA LinkHandoffChainStep ==
  ASSUME StoreInv, ChainInv, LinkHandoff
  PROVE  ChainInv'
<1>1. /\ job \in Jobs /\ job.step = "link" /\ job.case # None /\ job.action # None
      /\ cases[job.case].opp = job.opp /\ cases[job.case].state \in ActiveStates
      /\ actions[job.action].status # "ABSENT" /\ actions[job.action].opp = job.opp
  BY DEF LinkHandoff, StoreInv, TypeOK, JobInv, ChainInv
<1>2. PICK i \in DOMAIN cases, a \in ActionIds : i = job.case /\ a = job.action
  BY <1>1 DEF Jobs
<1>3. /\ Linked(i, a) \in Seq(CaseRecords)
      /\ Chain(Linked(i, a)) /\ LinksResolve(Linked(i, a))
  BY <1>1, <1>2, LinkedChain
<1>4. WriteCases(Linked(i, a))
  BY <1>2 DEF LinkHandoff
<1>5. job'.step \notin {"scan", "link"}
  <2>1. [job EXCEPT !.step = "linkEvent"].step = "linkEvent"
    BY <1>1 DEF Jobs
  <2> QED
    BY <2>1 DEF LinkHandoff, Idle, Job
<1> QED
  BY <1>3, <1>4, <1>5, ChainWritten

LEMMA ScanChainStart ==
  ASSUME StoreInv, ChainInv, ScanStalledOpportunities
  PROVE  ChainInv'
<1>1. /\ job'.step = "scan" /\ job'.draft = cases
      /\ UNCHANGED <<cases, actions, refused>>
  BY DEF ScanStalledOpportunities, Idle, Job
<1>2. Chain(cases) /\ LinksResolve(cases)
  BY DEF StoreInv, ChainInv, StoreReadable, Valid
<1>3. PICK cs : cs = cases
  OBVIOUS
<1>4. Chain(cs) /\ LinksResolve(cs)'
  BY <1>1, <1>2, <1>3 DEF LinksResolve
<1>5. cases' = cs /\ job'.draft = cs
  BY <1>1, <1>3
<1>6. Chain(cases') /\ Chain(job.draft)' /\ LinksResolve(job.draft)'
  BY <1>4, <1>5 DEF LinksResolve
<1> QED
  BY <1>1, <1>6, RefusedKept DEF ChainInv

LEMMA BatchChainStep ==
  ASSUME StoreInv, ChainInv,
         NEW o \in Opportunities, ReconcileInBatch(o)
  PROVE  ChainInv'
<1>1. /\ job.draft \in Seq(CaseRecords) /\ job \in Jobs /\ job.step = "scan"
      /\ Chain(job.draft) /\ LinksResolve(job.draft) /\ facts[o].leak \in Keys
      /\ UNCHANGED <<cases, actions, refused>>
  BY DEF StoreInv, TypeOK, Jobs, JobInv, ChainInv, ReconcileInBatch
<1>2. PICK t \in Instants(job.draft) :
        /\ DetectedAt(job.draft, o, t)
        /\ job' = [job EXCEPT !.todo = @ \ {o},
                     !.draft = ReconcileRecord(@, o, facts[o].leak, t)]
  BY DEF ReconcileInBatch
<1>3. t \in Int
  BY <1>1, <1>2, InstantFacts
<1>4. PICK cs : cs = ReconcileRecord(job.draft, o, facts[o].leak, t)
  OBVIOUS
<1>5. Chain(cs) /\ LinksResolve(cs)
  BY <1>1, <1>2, <1>3, <1>4, ReconcileChain, ReconcileLinks
<1>6. job'.step = "scan" /\ job'.draft = cs
  BY <1>1, <1>2, <1>4 DEF Jobs
<1>7. LinksResolve(cs)'
  BY <1>1, <1>5 DEF LinksResolve
<1>8. Chain(job.draft)' /\ LinksResolve(job.draft)'
  BY <1>5, <1>6, <1>7 DEF LinksResolve
<1> QED
  BY <1>1, <1>6, <1>8, RefusedKept DEF ChainInv

LEMMA WriteBatchChainStep ==
  ASSUME StoreInv, ChainInv, WriteBatch
  PROVE  ChainInv'
<1>1. /\ job.draft \in Seq(CaseRecords) /\ Chain(job.draft) /\ LinksResolve(job.draft)
  BY DEF StoreInv, TypeOK, Jobs, ChainInv, WriteBatch
<1>2. job'.step \notin {"scan", "link"}
  BY DEF WriteBatch, Idle, Job
<1>3. CASE Len(job.draft) = Len(cases)
  <2>1. cases' = cases /\ refused' = <<>>
    BY <1>3 DEF WriteBatch
  <2> QED
    BY <1>2, <2>1 DEF ChainInv, ChangedEvidenceAccepted
<1>4. CASE Len(job.draft) # Len(cases)
  BY <1>1, <1>2, <1>4, ChainWritten DEF WriteBatch
<1> QED
  BY <1>3, <1>4

LEMMA InsertChainStep ==
  ASSUME StoreInv, ChainInv, NEW a \in ActionIds, InsertRevenueAction(a)
  PROVE  ChainInv'
<1>1. UNCHANGED <<cases, refused>> /\ actions \in [ActionIds -> ActionRecords]
  BY DEF InsertRevenueAction, StoreInv, TypeOK
<1>2. CASE job.case = None
  BY <1>1, <1>2, ChainLeft DEF InsertRevenueAction, Idle, Job
<1>3. CASE job.case # None
  <2>1. job'.step = "link" /\ job'.action = a /\ job'.opp = job.opp
    BY <1>3 DEF InsertRevenueAction, Job
  <2>2. actions'[a].status # "ABSENT" /\ actions'[a].opp = job.opp
    <3>1. CASE a \in Reusable(job.opp) /\ UNCHANGED actions
      BY <3>1 DEF Reusable, ActiveActions, ActiveStatuses
    <3>2. CASE actions' = [actions EXCEPT ![a] =
                  [status |-> "OPEN", opp |-> job.opp, basis |-> facts[job.opp].basis]]
      BY <1>1, <3>2
    <3> QED
      BY <3>1, <3>2 DEF InsertRevenueAction
  <2> QED
    BY <1>1, <2>1, <2>2, RefusedKept DEF ChainInv
<1> QED
  BY <1>2, <1>3

LEMMA ChainStep ==
  ASSUME StoreInv, ChainInv, [Next]_vars
  PROVE  ChainInv'
<1>1. CASE UNCHANGED vars
  <2>1. /\ cases' = cases /\ refused' = refused /\ job' = job /\ actions' = actions
    BY <1>1 DEF vars
  <2>2. PICK cs : cs = job.draft
    OBVIOUS
  <2>3. job.step = "scan" => Chain(job.draft)' /\ LinksResolve(job.draft)'
    BY <2>1 DEF ChainInv, LinksResolve
  <2> QED
    BY <2>1, <2>3, RefusedKept DEF ChainInv
<1>2. ASSUME NEW o \in Opportunities, DetectStalledOpportunity(o) PROVE ChainInv'
  <2>1. facts[o].leak \in Keys
    BY <1>2, FactAssumption DEF DetectStalledOpportunity, StoreInv, TypeOK
  <2> QED
    BY <1>2, <2>1, ReconcileChainStep DEF DetectStalledOpportunity
<1>3. ASSUME NEW o \in Clients, NEW k \in Keys, Reconcile(o, k) PROVE ChainInv'
  BY <1>3, ReconcileChainStep, InputAssumption
<1>4. ASSUME NEW o, NEW i, StartMaterialize(o, i) PROVE ChainInv'
  BY <1>4, ChainLeft DEF StartMaterialize, Job
<1>5. ASSUME NEW i \in DOMAIN cases, Handoff(i) PROVE ChainInv'
  BY <1>4, <1>5 DEF Handoff
<1>6. ASSUME NEW o \in Opportunities, MaterializeRevenueAction(o) PROVE ChainInv'
  BY <1>4, <1>6 DEF MaterializeRevenueAction
<1>7. ASSUME NEW i \in DOMAIN cases, HandoffReplay(i) PROVE ChainInv'
  BY <1>7, ChainLeft DEF HandoffReplay, Job
<1>8. ASSUME \/ \E o \in Opportunities : ChangeFacts(o)
             \/ \E a \in ActionIds : ActionProgress(a)
             \/ AppendScanEvent \/ ObserveLinkedAction \/ Abort
      PROVE  ChainInv'
  BY <1>8, ChainLeft DEF ChangeFacts, ActionProgress, AppendScanEvent,
     ObserveLinkedAction, Abort, Idle, Job
<1> QED
  BY <1>1, <1>2, <1>3, <1>5, <1>6, <1>7, <1>8, BatchChainStep, TransitionChainStep,
     LinkChainStep, InsertChainStep, ScanChainStart, WriteBatchChainStep,
     LinkHandoffChainStep DEF Next

LEMMA ChainInit == ASSUME Init PROVE ChainInv
<1>1. cases = <<>> /\ refused = <<>> /\ job.step = "idle"
  BY DEF Init, Idle, Job
<1> QED
  BY <1>1 DEF ChainInv, Chain, ChangedEvidenceAccepted

LEMMA ChainInvariant == Spec => []ChainInv
<1>1. Init => ChainInv
  BY ChainInit
<1>2. StoreInv /\ ChainInv /\ [Next]_vars => ChainInv'
  BY ChainStep
<1> QED
  BY <1>1, <1>2, StoreInvariant, PTL DEF Spec

\* For any clock, the validation refuses a request only over detections that
\* share an instant or go back in time, whatever the order of detections,
\* transitions, links, scans and interruptions.
THEOREM EvidenceAccepted == Spec => []ChangedEvidenceAccepted
<1>1. ChainInv => ChangedEvidenceAccepted
  BY DEF ChainInv
<1> QED
  BY <1>1, ChainInvariant, PTL

\* For any clock, the cases of an opportunity whose detections are in order are
\* one history.
THEOREM OneHistory == Spec => []HistoryIsAChain
<1>1. ASSUME TypeOK, Chain(cases) PROVE HistoryIsAChain
  <2>0. cases \in Seq(CaseRecords)
    BY <1>1 DEF TypeOK
  <2>1. SUFFICES ASSUME NEW i \in DOMAIN cases, NEW j \in DOMAIN cases,
                        cases[i].opp = cases[j].opp, i < j,
                        InOrder(cases, cases[i].opp)
                 PROVE  /\ cases[i].state \notin ActiveStates
                        /\ cases[i].state = "SUPERSEDED" =>
                              cases[i].succ <= j /\ cases[cases[i].succ].pred = i
                        /\ cases[j].pred \in i .. (j - 1)
    BY DEF HistoryIsAChain
  <2>5. InLine(cases, i) /\ InLine(cases, j)
    BY <1>1, <2>1 DEF Chain
  <2>2. /\ cases[i].state \notin ActiveStates
        /\ i <= cases[j].pred /\ cases[j].pred < j
    BY <2>1, <2>5 DEF InLine
  <2>3. i \in Nat /\ j \in Nat /\ cases[j].pred \in Nat
    BY <2>0, CaseFacts
  <2>4. ASSUME cases[i].state = "SUPERSEDED"
        PROVE  cases[i].succ <= j /\ cases[cases[i].succ].pred = i
    <3>1. PICK q \in DOMAIN cases : /\ q = cases[i].succ /\ i < q
                                    /\ cases[q].opp = cases[i].opp /\ cases[q].pred = i
      BY <1>1, <2>4, <2>5 DEF Chain, InLine
    <3>4. InLine(cases, q)
      BY <1>1, <2>1, <3>1 DEF Chain
    <3>2. ~(j < q)
      BY <2>1, <2>3, <3>1, <3>4 DEF InLine
    <3>3. q \in Nat
      BY <2>0, CaseFacts
    <3> QED
      BY <2>3, <3>1, <3>2, <3>3
  <2> QED
    BY <2>2, <2>3, <2>4
<1>2. StoreInv /\ ChainInv => HistoryIsAChain
  BY <1>1 DEF StoreInv, ChainInv
<1> QED
  BY <1>2, StoreInvariant, ChainInvariant, PTL

-----------------------------------------------------------------------------
(* A closed case stays closed.                                             *)

\* What NoSilentReopening says of one step.
Silent(cs, ds) ==
    \A i \in DOMAIN cs, j \in DOMAIN ds \ DOMAIN cs :
        (/\ cs[i].opp = ds[j].opp /\ InOrder(cs, cs[i].opp)
         /\ \A h \in Series(cs, cs[i].opp) : h <= i)
        => cs[i].key # ds[j].key

\* A case that a reconciliation adds has other evidence than the last one of
\* its series.
LEMMA ReconcileSilent ==
  ASSUME NEW cs \in Seq(CaseRecords), Chain(cs), NEW o \in Opportunities, NEW k \in Keys,
         NEW t \in Int, DetectedAt(cs, o, t)
  PROVE  \A j \in DOMAIN ReconcileRecord(cs, o, k, t) \ DOMAIN cs :
            /\ ReconcileRecord(cs, o, k, t)[j].opp = o /\ ReconcileRecord(cs, o, k, t)[j].key = k
            /\ InOrder(cs, o) =>
                 \A i \in Series(cs, o) : (\A h \in Series(cs, o) : h <= i) => cs[i].key # k
<1> DEFINE rs == ReconcileRecord(cs, o, k, t)
<1>1. CASE \E p \in Predecessor(cs, o) : cs[p].key = k
  BY <1>1 DEF ReconcileRecord
<1>2. CASE ~(\E p \in Predecessor(cs, o) : cs[p].key = k)
  <2>1. ASSUME InOrder(cs, o)
        PROVE  \A i \in Series(cs, o) : (\A h \in Series(cs, o) : h <= i) => cs[i].key # k
    <3>1. CASE Series(cs, o) = {}
      BY <3>1
    <3>2. CASE Series(cs, o) # {}
      <4>1. PICK p \in Series(cs, o) :
                Predecessor(cs, o) = {p} /\ \A j \in Series(cs, o) : j <= p
        BY <2>1, <3>2, LastCase
      <4>2. \A i \in Series(cs, o) : i \in Nat
        BY CaseFacts DEF Series
      <4>3. ASSUME NEW i \in Series(cs, o), \A h \in Series(cs, o) : h <= i PROVE i = p
        <5>1. i <= p /\ p <= i /\ i \in Nat /\ p \in Nat
          BY <4>1, <4>2, <4>3
        <5> QED
          BY <5>1
      <4> QED
        BY <1>2, <4>1, <4>3
    <3> QED
      BY <3>1, <3>2
  <2>2. \E ds, p : rs = Append(ds, NewCase(o, k, t, p)) /\ ds \in Seq(CaseRecords) /\ Len(ds) = Len(cs)
    <3>1. CASE Predecessor(cs, o) = {}
      BY <1>2, <3>1 DEF ReconcileRecord
    <3>2. CASE Predecessor(cs, o) # {}
      <4> DEFINE p == CHOOSE i \in Predecessor(cs, o) : TRUE
                 sup == [cs EXCEPT ![p] = [@ EXCEPT !.state = "SUPERSEDED", !.succ = Len(cs) + 1]]
                 ds == IF p \in Active(cs, o) THEN sup ELSE cs
      <4>1. p \in DOMAIN cs
        BY <3>2 DEF Predecessor, Active, Newest, Series
      <4>2. sup \in Seq(CaseRecords) /\ Len(sup) = Len(cs)
        <5>1. cs[p] \in CaseRecords /\ Len(cs) + 1 \in Nat
          BY <4>1
        <5>2. [cs[p] EXCEPT !.state = "SUPERSEDED", !.succ = Len(cs) + 1] \in CaseRecords
          BY <5>1 DEF CaseRecords
        <5> HIDE DEF p
        <5> QED
          BY <4>1, <5>2
      <4>3. rs = Append(ds, NewCase(o, k, t, p))
        BY <1>2, <3>2 DEF ReconcileRecord
      <4> HIDE DEF p, sup
      <4> QED
        BY <4>2, <4>3
    <3> QED
      BY <3>1, <3>2
  <2>3. PICK ds, p : /\ ds \in Seq(CaseRecords) /\ Len(ds) = Len(cs)
                     /\ rs = Append(ds, NewCase(o, k, t, p))
    BY <2>2
  <2> HIDE DEF rs
  <2>4. ASSUME NEW j \in DOMAIN rs \ DOMAIN cs PROVE rs[j] = NewCase(o, k, t, p)
    BY <2>3, <2>4
  <2>5. NewCase(o, k, t, p).opp = o /\ NewCase(o, k, t, p).key = k
    BY DEF NewCase
  <2> QED
    BY <2>1, <2>4, <2>5 DEF rs
<1> QED
  BY <1>1, <1>2

\* What a scan's draft holds that the file does not is of opportunities the
\* scan is done with, and silent.
DraftInv ==
    job.step = "scan" =>
        /\ Silent(cases, job.draft)
        /\ \A j \in DOMAIN job.draft \ DOMAIN cases : job.draft[j].opp \notin job.todo

\* A draft that reconciles one more opportunity.
LEMMA DraftGrows ==
  ASSUME NEW cs \in Seq(CaseRecords), NEW ds \in Seq(CaseRecords), Keeps(cs, ds), Chain(ds),
         Silent(cs, ds), NEW todo, NEW o \in todo, o \in Opportunities,
         \A j \in DOMAIN ds \ DOMAIN cs : ds[j].opp \notin todo,
         NEW k \in Keys, NEW t \in Int, DetectedAt(ds, o, t)
  PROVE  LET rs == ReconcileRecord(ds, o, k, t) IN
         /\ Silent(cs, rs)
         /\ \A j \in DOMAIN rs \ DOMAIN cs : rs[j].opp \notin todo \ {o}
<1> DEFINE rs == ReconcileRecord(ds, o, k, t)
<1>1. /\ rs \in Seq(CaseRecords) /\ Keeps(ds, rs)
  BY ReconcileKeeps
<1>2. \A j \in DOMAIN rs \ DOMAIN ds :
        /\ rs[j].opp = o /\ rs[j].key = k
        /\ InOrder(ds, o) =>
             \A i \in Series(ds, o) : (\A h \in Series(ds, o) : h <= i) => ds[i].key # k
  BY ReconcileSilent
<1> HIDE DEF rs
<1>3. \A j \in DOMAIN ds : j \in DOMAIN rs /\ rs[j].opp = ds[j].opp /\ rs[j].key = ds[j].key
  BY <1>1 DEF Keeps
<1>4. Series(ds, o) = Series(cs, o)
  BY DEF Series, Keeps
<1>5. \A i \in Series(cs, o) : ds[i].key = cs[i].key
  BY DEF Series, Keeps
<1>8. InOrder(cs, o) => InOrder(ds, o)
  <2>1. \A i \in Series(cs, o) : ds[i].at = cs[i].at
    BY DEF Series, Keeps
  <2> QED
    BY <1>4, <2>1 DEF InOrder
<1>6. ASSUME NEW i \in DOMAIN cs, NEW j \in DOMAIN rs \ DOMAIN cs, cs[i].opp = rs[j].opp,
             InOrder(cs, cs[i].opp), \A h \in Series(cs, cs[i].opp) : h <= i
      PROVE  cs[i].key # rs[j].key
  <2>1. CASE j \in DOMAIN ds
    BY <1>3, <1>6, <2>1 DEF Silent
  <2>2. CASE j \notin DOMAIN ds
    <3>1. cs[i].opp = o /\ i \in Series(cs, o)
      BY <1>2, <1>6, <2>2 DEF Series
    <3> QED
      BY <1>2, <1>4, <1>5, <1>6, <1>8, <2>2, <3>1
  <2> QED
    BY <2>1, <2>2
<1>7. ASSUME NEW j \in DOMAIN rs \ DOMAIN cs PROVE rs[j].opp \notin todo \ {o}
  BY <1>2, <1>3, <1>7
<1> QED
  BY <1>6, <1>7 DEF Silent, rs

LEMMA DraftStep ==
  ASSUME StoreInv, ChainInv, DraftInv, [Next]_vars
  PROVE  DraftInv' /\ Silent(cases, cases')
<1>1. cases \in Seq(CaseRecords) /\ Chain(cases)
  BY DEF StoreInv, TypeOK, ChainInv
<1>2. ASSUME cases' = cases, job'.step # "scan" PROVE DraftInv' /\ Silent(cases, cases')
  BY <1>2 DEF DraftInv, Silent
<1>3. CASE UNCHANGED vars
  <2>1. cases' = cases /\ job' = job
    BY <1>3 DEF vars
  <2> QED
    BY <2>1 DEF DraftInv, Silent, InOrder, Series
<1>4. ASSUME NEW o \in Opportunities, NEW k \in Keys, Reconcile(o, k)
      PROVE  DraftInv' /\ Silent(cases, cases')
  <2>1. PICK t \in Instants(cases) : /\ DetectedAt(cases, o, t)
                                     /\ WriteCases(ReconcileRecord(cases, o, k, t))
    BY <1>4 DEF Reconcile
  <2>2. t \in Int
    BY <1>1, <2>1, InstantFacts
  <2> DEFINE rs == ReconcileRecord(cases, o, k, t)
  <2>3. \A j \in DOMAIN rs \ DOMAIN cases :
            /\ rs[j].opp = o /\ rs[j].key = k
            /\ InOrder(cases, o) =>
                 \A i \in Series(cases, o) :
                    (\A h \in Series(cases, o) : h <= i) => cases[i].key # k
    BY <1>1, <2>1, <2>2, ReconcileSilent
  <2> HIDE DEF rs
  <2>4. Silent(cases, rs)
    BY <2>3 DEF Silent, Series
  <2>5. cases' = rs \/ cases' = cases
    BY <2>1 DEF WriteCases, rs
  <2>6. job'.step # "scan"
    BY <1>4 DEF Reconcile, Idle, Job
  <2> QED
    BY <2>4, <2>5, <2>6 DEF DraftInv, Silent
<1>5. ASSUME ScanStalledOpportunities PROVE DraftInv' /\ Silent(cases, cases')
  <2>1. cases' = cases /\ job'.draft = cases
    BY <1>5 DEF ScanStalledOpportunities, Idle, Job
  <2> QED
    BY <2>1 DEF DraftInv, Silent
<1>6. ASSUME NEW o \in Opportunities, ReconcileInBatch(o)
      PROVE  DraftInv' /\ Silent(cases, cases')
  <2>1. /\ job.draft \in Seq(CaseRecords) /\ job \in Jobs /\ job.step = "scan" /\ o \in job.todo
        /\ Chain(job.draft) /\ Keeps(cases, job.draft) /\ facts[o].leak \in Keys
        /\ cases' = cases /\ Silent(cases, job.draft)
        /\ \A j \in DOMAIN job.draft \ DOMAIN cases : job.draft[j].opp \notin job.todo
    BY <1>6 DEF StoreInv, TypeOK, Jobs, JobInv, ChainInv, ReconcileInBatch, DraftInv
  <2>2. PICK t \in Instants(job.draft) :
          /\ DetectedAt(job.draft, o, t)
          /\ job' = [job EXCEPT !.todo = @ \ {o},
                       !.draft = ReconcileRecord(@, o, facts[o].leak, t)]
    BY <1>6 DEF ReconcileInBatch
  <2>3. t \in Int
    BY <2>1, <2>2, InstantFacts
  <2>4. /\ job'.draft = ReconcileRecord(job.draft, o, facts[o].leak, t)
        /\ job'.todo = job.todo \ {o}
    BY <2>1, <2>2 DEF Jobs
  <2>5. PICK ds \in Seq(CaseRecords) : ds = job.draft
    BY <2>1
  <2>10. PICK todo : todo = job.todo
    OBVIOUS
  <2>11. PICK k \in Keys : k = facts[o].leak
    BY <2>1
  <2>6. LET rs == ReconcileRecord(ds, o, k, t) IN
        /\ Silent(cases, rs)
        /\ \A j \in DOMAIN rs \ DOMAIN cases : rs[j].opp \notin todo \ {o}
    BY <1>1, <2>1, <2>2, <2>3, <2>5, <2>10, <2>11, DraftGrows
  <2>7. PICK rs : rs = ReconcileRecord(ds, o, k, t)
    OBVIOUS
  <2>8. /\ job'.draft = rs /\ Silent(cases, rs)
        /\ \A j \in DOMAIN rs \ DOMAIN cases : rs[j].opp \notin todo \ {o}
    BY <2>4, <2>5, <2>6, <2>7, <2>10, <2>11
  <2>9. Silent(cases, job.draft)'
    BY <2>1, <2>8 DEF Silent, InOrder, Series
  <2> QED
    BY <2>1, <2>4, <2>8, <2>9, <2>10 DEF DraftInv, Silent
<1>7. ASSUME WriteBatch PROVE DraftInv' /\ Silent(cases, cases')
  <2>1. job'.step # "scan"
    BY <1>7 DEF WriteBatch, Idle, Job
  <2>2. cases' = cases \/ cases' = job.draft
    BY <1>7 DEF WriteBatch, WriteCases
  <2>3. Silent(cases, job.draft)
    BY <1>7 DEF WriteBatch, DraftInv
  <2> QED
    BY <2>1, <2>2, <2>3 DEF DraftInv, Silent
<1>8. ASSUME NEW i \in DOMAIN cases, Snooze(i) \/ Resume(i) \/ Dismiss(i)
      PROVE  DraftInv' /\ Silent(cases, cases')
  <2>1. DOMAIN cases' = DOMAIN cases /\ job'.step # "scan"
    BY <1>8 DEF Snooze, Resume, Dismiss, WriteCases, Idle, Job
  <2> QED
    BY <2>1 DEF DraftInv, Silent
<1>9. ASSUME \/ LinkHandoff
             \/ \E i \in DOMAIN cases, a \in ActionIds : LinkRevenueAction(i, a)
      PROVE  DraftInv' /\ Silent(cases, cases')
  <2>1. DOMAIN cases' = DOMAIN cases
    <3>1. ASSUME NEW i, NEW a PROVE DOMAIN Linked(i, a) = DOMAIN cases
      BY <1>1 DEF Linked
    <3>2. \E i, a : WriteCases(Linked(i, a))
      BY <1>9 DEF LinkHandoff, LinkRevenueAction
    <3> QED
      BY <3>1, <3>2 DEF WriteCases
  <2>2. job'.step # "scan"
    <3>1. CASE LinkHandoff
      <4>1. job \in Jobs
        BY DEF StoreInv, TypeOK
      <4> QED
        BY <3>1, <4>1 DEF LinkHandoff, Idle, Job, Jobs
    <3> QED
      BY <1>9, <3>1 DEF LinkRevenueAction, Idle, Job
  <2> QED
    BY <2>1, <2>2 DEF DraftInv, Silent
<1>10. ASSUME NEW o, NEW i, StartMaterialize(o, i) PROVE DraftInv' /\ Silent(cases, cases')
  BY <1>2, <1>10 DEF StartMaterialize, Job
<1>11. ASSUME \/ \E o \in Opportunities : MaterializeRevenueAction(o) \/ ChangeFacts(o)
              \/ \E i \in DOMAIN cases : Handoff(i) \/ HandoffReplay(i)
              \/ \E a \in ActionIds : InsertRevenueAction(a) \/ ActionProgress(a)
              \/ AppendScanEvent \/ ObserveLinkedAction \/ Abort
       PROVE  DraftInv' /\ Silent(cases, cases')
  BY <1>2, <1>10, <1>11 DEF MaterializeRevenueAction, Handoff, HandoffReplay, ChangeFacts,
     InsertRevenueAction, ActionProgress, AppendScanEvent, ObserveLinkedAction, Abort, Idle, Job
<1>12. ASSUME NEW o \in Opportunities, DetectStalledOpportunity(o)
       PROVE  DraftInv' /\ Silent(cases, cases')
  <2>1. facts[o].leak \in Keys
    BY <1>12, FactAssumption DEF DetectStalledOpportunity, StoreInv, TypeOK
  <2> QED
    BY <1>4, <1>12, <2>1 DEF DetectStalledOpportunity
<1> QED
  BY <1>3, <1>4, <1>5, <1>6, <1>7, <1>8, <1>9, <1>11, <1>12, InputAssumption DEF Next

\* For any clock, the evidence that the newest case of an opportunity was closed
\* on opens no new one, in a scan's batch either, as long as the detections
\* before it are in order (reconcileRecord).
THEOREM ClosedStaysClosed == Spec => NoSilentReopening
<1>1. Init => DraftInv
  BY DEF Init, DraftInv, Idle, Job
<1>2. StoreInv /\ ChainInv /\ DraftInv /\ [Next]_vars => DraftInv' /\ Silent(cases, cases')
  BY DraftStep
<1>3. Spec => []DraftInv
  BY <1>1, <1>2, StoreInvariant, ChainInvariant, PTL DEF Spec
<1>4. Silent(cases, cases') =>
        [\A i \in DOMAIN cases, j \in DOMAIN cases' \ DOMAIN cases :
          (/\ cases[i].opp = cases'[j].opp
           /\ InOrder(cases, cases[i].opp)
           /\ \A h \in Series(cases, cases[i].opp) : h <= i)
          => cases[i].key # cases'[j].key]_vars
  BY DEF Silent
<1> QED
  BY <1>2, <1>3, <1>4, StoreInvariant, ChainInvariant, PTL DEF Spec, NoSilentReopening

-----------------------------------------------------------------------------
(* One active action, wherever handoffs are interrupted.                   *)

\* A materialization that is due to insert left no action on other evidence.
ActiveInv ==
    /\ OneActiveAction
    /\ job.step = "insert" => Incompatible(job.opp) = {}

LEMMA ActiveStep ==
  ASSUME StoreInv, ActiveInv, [Next]_vars
  PROVE  ActiveInv'
<1>1. actions \in [ActionIds -> ActionRecords]
  BY DEF StoreInv, TypeOK
<1>2. ASSUME \A a \in ActionIds : /\ actions'[a].opp = actions[a].opp
                                  /\ actions'[a].status \in ActiveStatuses
                                        => actions[a].status \in ActiveStatuses
      PROVE  OneActiveAction'
  BY <1>2 DEF ActiveInv, OneActiveAction, ActiveActions
<1>3. ASSUME actions' = actions, job'.step # "insert" PROVE ActiveInv'
  BY <1>2, <1>3 DEF ActiveInv
<1>4. CASE UNCHANGED vars
  BY <1>4 DEF vars, ActiveInv, OneActiveAction, ActiveActions, Incompatible
<1>5. ASSUME NEW o \in Opportunities, NEW i, StartMaterialize(o, i) PROVE ActiveInv'
  <2>1. \A a \in ActionIds :
            actions'[a] = IF a \in Incompatible(o) THEN [actions[a] EXCEPT !.status = "DONE"]
                          ELSE actions[a]
    BY <1>5 DEF StartMaterialize
  <2>2. \A a \in ActionIds : /\ actions'[a].opp = actions[a].opp
                             /\ actions'[a].basis = actions[a].basis
                             /\ actions'[a].status = IF a \in Incompatible(o) THEN "DONE"
                                                     ELSE actions[a].status
    <3>1. ASSUME NEW a \in ActionIds, NEW r \in ActionRecords
          PROVE  /\ [r EXCEPT !.status = "DONE"].opp = r.opp
                 /\ [r EXCEPT !.status = "DONE"].basis = r.basis
                 /\ [r EXCEPT !.status = "DONE"].status = "DONE"
      BY DEF ActionRecords
    <3> QED
      BY <1>1, <2>1, <3>1
  <2>3. OneActiveAction'
    BY <1>2, <2>2 DEF ActiveStatuses
  <2>4. facts' = facts /\ job'.opp = o
    BY <1>5 DEF StartMaterialize, Job
  <2>5. Incompatible(o)' = {}
    BY <2>2, <2>4 DEF Incompatible, ActiveActions, ActiveStatuses
  <2>6. Incompatible(job.opp)' = {}
    BY <2>4, <2>5 DEF Incompatible, ActiveActions
  <2> QED
    BY <2>3, <2>6 DEF ActiveInv
<1>6. ASSUME NEW a \in ActionIds, InsertRevenueAction(a) PROVE ActiveInv'
  <2>1. job'.step # "insert"
    BY <1>6 DEF InsertRevenueAction, Idle, Job
  <2>2. CASE actions' = actions
    BY <1>3, <2>1, <2>2
  <2>3. CASE /\ Reusable(job.opp) = {}
             /\ actions' = [actions EXCEPT ![a] =
                   [status |-> "OPEN", opp |-> job.opp, basis |-> facts[job.opp].basis]]
    <3>1. ActiveActions(job.opp) = {}
      BY <1>6, <2>3 DEF InsertRevenueAction, ActiveInv, Incompatible, Reusable
    <3>2. \A b \in ActionIds : b # a => actions'[b] = actions[b]
      BY <1>1, <2>3
    <3>3. actions'[a].opp = job.opp
      BY <1>1, <2>3
    <3>4. OneActiveAction'
      BY <3>1, <3>2, <3>3 DEF ActiveInv, OneActiveAction, ActiveActions
    <3> QED
      BY <2>1, <3>4 DEF ActiveInv
  <2> QED
    BY <1>6, <2>2, <2>3 DEF InsertRevenueAction
<1>7. ASSUME NEW a \in ActionIds, ActionProgress(a) PROVE ActiveInv'
  <2>1. job'.step # "insert"
    BY <1>7 DEF ActionProgress, Idle, Job
  <2>2. PICK s \in {"RECOVERING", "DONE"} :
            actions' = [actions EXCEPT ![a].status = s] /\ actions[a].status \in ActiveStatuses
    BY <1>7 DEF ActionProgress, ActiveStatuses
  <2>3. \A b \in ActionIds : b # a => actions'[b] = actions[b]
    BY <1>1, <2>2
  <2>4. actions'[a].opp = actions[a].opp
    <3>1. PICK r \in ActionRecords : r = actions[a]
      BY <1>1
    <3>2. actions'[a] = [r EXCEPT !.status = s]
      BY <1>1, <2>2, <3>1
    <3> QED
      BY <3>1, <3>2 DEF ActionRecords
  <2> QED
    BY <1>2, <2>1, <2>2, <2>3, <2>4 DEF ActiveInv
<1>8. ASSUME NEW i \in DOMAIN cases, Handoff(i) PROVE ActiveInv'
  <2>1. cases[i] \in CaseRecords
    BY DEF StoreInv, TypeOK
  <2>2. cases[i].opp \in Opportunities
    BY <2>1 DEF CaseRecords
  <2> QED
    BY <1>5, <1>8, <2>2 DEF Handoff
<1>9. ASSUME NEW o \in Opportunities, MaterializeRevenueAction(o) PROVE ActiveInv'
  BY <1>5, <1>9 DEF MaterializeRevenueAction
<1>10. ASSUME NEW o \in Opportunities, ReconcileInBatch(o) PROVE ActiveInv'
  <2>1. job' = [job EXCEPT !.todo = job'.todo, !.draft = job'.draft] /\ job \in Jobs
    BY <1>10 DEF ReconcileInBatch, StoreInv, TypeOK, Jobs
  <2>2. job'.step = "scan"
    BY <1>10, <2>1 DEF ReconcileInBatch, Jobs
  <2> QED
    BY <1>3, <1>10, <2>2 DEF ReconcileInBatch
<1>11. ASSUME LinkHandoff PROVE ActiveInv'
  <2>1. job \in Jobs
    BY DEF StoreInv, TypeOK
  <2>2. job'.step # "insert"
    BY <1>11, <2>1 DEF LinkHandoff, Jobs, Idle, Job
  <2> QED
    BY <1>3, <1>11, <2>2 DEF LinkHandoff
<1>12. ASSUME NEW o, NEW k, Reconcile(o, k) PROVE ActiveInv'
  BY <1>3, <1>12 DEF Reconcile, Idle, Job
<1>13. ASSUME NEW i \in DOMAIN cases,
              \/ Snooze(i) \/ Resume(i) \/ Dismiss(i) \/ HandoffReplay(i)
              \/ \E a \in ActionIds : LinkRevenueAction(i, a)
       PROVE  ActiveInv'
  BY <1>3, <1>13 DEF Snooze, Resume, Dismiss, HandoffReplay, LinkRevenueAction, Idle, Job
<1>14. ASSUME \/ \E o \in Opportunities : ChangeFacts(o)
              \/ ScanStalledOpportunities \/ WriteBatch \/ AppendScanEvent
              \/ ObserveLinkedAction \/ Abort
       PROVE  ActiveInv'
  <2>1. actions' = actions
    BY <1>14 DEF ChangeFacts, ScanStalledOpportunities, WriteBatch, AppendScanEvent,
       ObserveLinkedAction, Abort
  <2>2. job'.step # "insert"
    <3>1. CASE ScanStalledOpportunities
      BY <3>1 DEF ScanStalledOpportunities, Idle, Job
    <3>2. CASE WriteBatch
      BY <3>2 DEF WriteBatch, Idle, Job
    <3>3. CASE AppendScanEvent \/ ObserveLinkedAction \/ Abort
      BY <3>3 DEF AppendScanEvent, ObserveLinkedAction, Abort, Idle, Job
    <3>4. CASE \E o \in Opportunities : ChangeFacts(o)
      BY <3>4 DEF ChangeFacts, Idle, Job
    <3> QED
      BY <1>14, <3>1, <3>2, <3>3, <3>4
  <2> QED
    BY <1>3, <2>1, <2>2
<1> QED
  BY <1>4, <1>6, <1>7, <1>8, <1>9, <1>10, <1>11, <1>12, <1>13, <1>14
  DEF Next, DetectStalledOpportunity

\* For any clock and any interruption, an opportunity has one active
\* RevenueAction at most (materializeRevenueAction called by the handoff).
THEOREM OneAction == Spec => []OneActiveAction
<1>1. Init => ActiveInv
  BY DEF Init, ActiveInv, OneActiveAction, ActiveActions, ActiveStatuses, NoAction, Idle, Job
<1>2. StoreInv /\ ActiveInv /\ [Next]_vars => ActiveInv'
  BY ActiveStep
<1>3. ActiveInv => OneActiveAction
  BY DEF ActiveInv
<1> QED
  BY <1>1, <1>2, <1>3, StoreInvariant, PTL DEF Spec

=============================================================================
