------------------------- MODULE LeakCaseContracts -------------------------
(***************************************************************************)
(* What the browser accepts of the server's answers about leak cases: each *)
(* answer is validated on its own terms when it is received, and an answer *)
(* that fails is shown as an error in place of the data.                   *)
(*                                                                         *)
(* The browser has its own copy of the detector's rules.  Its checks of    *)
(* key sets, types and text lengths are left out, and so are the fields    *)
(* the answers of StalledOpportunities do not have.                        *)
(***************************************************************************)
EXTENDS StalledOpportunities

CONSTANT Limit    \* portfolio and queue limit, as the browser knows it

ASSUME LimitAssumption == Limit \in Nat

ActiveCases == {"OPEN", "SNOOZED"}

StalledSince(facts) == facts.base.time + StaleAfter

\* validateDetectorEvidence, for evidence evaluated at `at'.
EvidenceReadable(facts, reason, at) ==
    /\ facts.stage \in {"active", "closed"} /\ facts.base.time # NoTime
    /\ facts.observed \in facts.base.time .. at /\ at - facts.observed <= FreshFor
    /\ reason = "OPPORTUNITY_CLOSED" <=> facts.stage = "closed"
    /\ reason = "RECENT_MEANINGFUL_ACTIVITY" => at < StalledSince(facts)
    /\ reason = "NEXT_ACTION_PRESENT" => facts.present /\ at >= StalledSince(facts)
    /\ reason = "STALE_WITHOUT_NEXT_ACTION" => ~facts.present

\* The state of a case after each entry of its audit.
Replayed(audit) ==
    LET state[i \in DOMAIN audit] ==
          IF i > 1 /\ audit[i].to = "LINKED" THEN state[i - 1] ELSE audit[i].to
    IN  state

LegalEntry(from, to) ==
    CASE to = "SNOOZED" -> from = "OPEN"
      [] to = "OPEN" -> from = "SNOOZED"
      [] OTHER -> from \in ActiveCases

Chronological(audit) == \A i \in 2 .. Len(audit) : audit[i].at >= audit[i - 1].at

\* validateAudit
AuditReadable(r, at) ==
    LET state == Replayed(r.audit)
        last == Len(r.audit)
        links == {i \in DOMAIN r.audit : r.audit[i].to = "LINKED"}
    IN  /\ r.audit[1] = [to |-> "OPEN", at |-> r.detected]
        /\ Chronological(r.audit)
        /\ \A i \in 2 .. last : /\ r.audit[i].at \in r.detected .. at
                                /\ LegalEntry(state[i - 1], r.audit[i].to)
        /\ Cardinality(links) <= 1 /\ (links # {} <=> r.action # 0)
        /\ r.state = state[last] /\ r.updated = r.audit[last].at

\* validateCase
CaseReadable(r, o, at) ==
    /\ r.opp = o /\ r.detected <= at
    /\ StalledSince(r.facts) <= r.detected
    /\ EvidenceReadable(r.facts, "STALE_WITHOUT_NEXT_ACTION", r.detected)
    /\ AuditReadable(r, at)

\* unwrapRevenueLeakCaseListResponse
ListReadable(answer, at) ==
    \A id \in DOMAIN answer.cases : CaseReadable(answer.cases[id], answer.opp, at)

\* unwrapRevenueLeakCaseMutationResponse
MutationReadable(answer, at) == CaseReadable(answer.case, answer.case.opp, at)

\* unwrapStalledOpportunityDetectionResponse
DetectionReadable(answer, at) ==
    /\ OutcomeOf(answer.reason) = answer.outcome
    /\ answer.facts # {} <=> answer.outcome \in {"LEAK", "NO_LEAK"}
    /\ \A f \in answer.facts : EvidenceReadable(f, answer.reason, at)
    /\ answer.case # {} <=> answer.outcome = "LEAK"
    /\ \A r \in answer.case : /\ CaseReadable(r, answer.opp, at)
                              /\ answer.facts = {r.facts}

\* unwrapStalledOpportunityScanResponse
ScanReadable(answer, at) ==
    LET item == answer.results
        With(d) == {o \in DOMAIN item : item[o].disposition = d}
    IN  /\ answer.at <= at /\ answer.total = Cardinality(DOMAIN item)
        /\ \A o \in DOMAIN item :
             /\ OutcomeOf(item[o].reason) = item[o].outcome
             /\ item[o].outcome = "LEAK" <=> item[o].disposition # "READ_ONLY"
             /\ item[o].case # 0 <=> item[o].disposition # "READ_ONLY"
             /\ item[o].old # 0 <=> item[o].disposition = "SUPERSEDED"
             /\ item[o].old # 0 => item[o].old # item[o].case
        /\ answer.outcomes = CountBy(item, Outcomes, LAMBDA x : x.outcome)
        /\ answer.detected = answer.outcomes["LEAK"]
        /\ answer.created = Cardinality(With("CREATED"))
        /\ answer.replayed = Cardinality(With("REPLAYED"))
        /\ answer.superseded = Cardinality(With("SUPERSEDED"))
        /\ answer.detected = answer.created + answer.replayed + answer.superseded

\* unwrapStalledOpportunityEligibilityResponse
EligibilityReadable(answer, at) ==
    LET record == answer.records
        Having(key, k) == Cardinality({o \in DOMAIN record : record[o][key] = k})
        Missed(r) == Cardinality({o \in DOMAIN record :
                        record[o].class # "ELIGIBLE" /\ record[o].reason = r})
        assessable == answer.classes["ELIGIBLE"]
    IN  /\ answer.at <= at
        /\ answer.complete =>
             /\ answer.total <= Limit /\ answer.evaluated = answer.total
             /\ Cardinality(DOMAIN record) = answer.total
             /\ answer.classes["BLOCKED"] = 0
             /\ answer.readiness = IF answer.total = 0 THEN "EMPTY"
                                   ELSE IF assessable = answer.total THEN "READY"
                                   ELSE IF assessable = 0 THEN "NOT_READY"
                                   ELSE "PARTIAL"
             /\ \A o \in DOMAIN record :
                  /\ OutcomeOf(record[o].reason) = record[o].outcome
                  /\ ClassOf(record[o].outcome) = record[o].class
             /\ \A k \in Classes : answer.classes[k] = Having("class", k)
             /\ \A k \in Coverages : answer.values[k] = Having("value", k)
             /\ \A r \in Reasons : answer.reasons[r] = Missed(r)
        /\ ~answer.complete =>
             /\ answer.total > Limit /\ answer.evaluated = 0
             /\ answer.readiness = "BLOCKED" /\ DOMAIN record = {}
             /\ answer.classes["BLOCKED"] = answer.total
             /\ answer.values["NOT_ASSESSED"] = answer.total

\* compareQueueEntries, the browser's own order.
NotAfter(x, y) ==
    \/ UrgencyTier[x.urgency] < UrgencyTier[y.urgency]
    \/ /\ UrgencyTier[x.urgency] = UrgencyTier[y.urgency]
       /\ \/ ValueTier[x.kind] < ValueTier[y.kind]
          \/ /\ x.kind = y.kind
             /\ \/ x.kind = "POSITIVE" /\ x.amount > y.amount
                \/ /\ x.kind = "POSITIVE" => x.amount = y.amount
                   /\ x.age > y.age \/ (x.age = y.age /\ x.id <= y.id)

\* validateQueueUrgency
UrgencyReadable(e, at) ==
    e.urgency = IF e.state = "OPEN" THEN "OPEN_NO_OVERDUE_DEADLINE"
                ELSE IF e.wake <= at THEN "SNOOZE_WAKE_DUE"
                ELSE "SNOOZED_UNTIL_FUTURE"

\* validateQueueEntry
EntryReadable(e, at) ==
    /\ e.state \in ActiveCases /\ e.detected <= at /\ e.age = at - e.detected
    /\ StalledSince(e.facts) <= e.detected
    /\ EvidenceReadable(e.facts, "STALE_WITHOUT_NEXT_ACTION", e.detected)
    /\ e.kind = IF e.amount = Unknown THEN "UNKNOWN"
                ELSE IF e.amount = 0 THEN "ZERO" ELSE "POSITIVE"
    /\ UrgencyReadable(e, at)

\* unwrapRevenueLeakOperatingQueueResponse, queueValueSummary
QueueReadable(answer, at) ==
    LET entries == answer.entries
        worth == FoldFunction(LAMBDA e, sum :
                     IF e.kind = "POSITIVE" THEN e.amount + sum ELSE sum, 0, entries)
    IN  /\ answer.at <= at /\ answer.total <= Limit /\ Len(entries) = answer.total
        /\ \A i \in DOMAIN entries : EntryReadable(entries[i], answer.at)
        /\ \A i, j \in DOMAIN entries :
             i < j => entries[i].id # entries[j].id /\ NotAfter(entries[i], entries[j])
        /\ answer.worth = worth

\* unwrapRevenueLeakActionHandoffResponse, for the case that was asked for.
HandoffReadable(answer, at) ==
    /\ answer.created => ~answer.reconciled
    /\ answer.made.type = "CREATE_TASK" /\ answer.made.opp = answer.case.opp
    /\ answer.made.created <= at
    /\ CaseReadable(answer.case, answer.case.opp, at)
    /\ answer.case.action = answer.action
    /\ \E i \in DOMAIN answer.case.audit :
         /\ answer.case.audit[i].to = "LINKED"
         /\ answer.case.audit[i].at >= answer.made.created
=============================================================================
