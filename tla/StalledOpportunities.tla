------------------------ MODULE StalledOpportunities ------------------------
(***************************************************************************)
(* What the server says of stalled opportunities, as functions of the      *)
(* evidence: the versioned detector, the read-only eligibility report and  *)
(* the operating queue.                                                    *)
(*                                                                         *)
(* Abstractions.  A time is a number of ticks.  The stages are grouped by  *)
(* what the detector makes of them, a commercial value is its amount in    *)
(* the one currency, and an opportunity has at most one task and one       *)
(* activity: only the latest one counts.  Evidence of the wrong JSON type  *)
(* is left out, PostgreSQL columns cannot hold it; the version hash of the *)
(* evidence is the evidence itself, and no stalled case has a due date.    *)
(***************************************************************************)
EXTENDS Integers, Sequences, FiniteSets, FiniteSetsExt, SequencesExt

CONSTANTS
    StaleAfter,   \* STALE_AFTER_DAYS
    FreshFor      \* SOURCE_FRESHNESS_DAYS

ASSUME DetectorAssumption == StaleAfter \in Nat /\ FreshFor \in Nat

NoTime == -1
Unknown == -1     \* a commercial value without amount or currency

\* What the store holds of an opportunity, its activities and its tasks.
Evidence(Times) ==
    [stage : {"blank", "odd", "active", "closed"},
     next : {"none", "unknown", "set"}, value : {Unknown} \cup Nat,
     created : Times \cup {NoTime}, updated : Times, born : Times,
     act : Times \cup {NoTime},
     task : {"none", "active", "done"}, tasked : Times \cup {NoTime}]

-----------------------------------------------------------------------------
(* The detector                                                            *)

\* normalizeNextAction: a literal for an unknown value is no next action.
NextActionPresent(e) == e.next = "set" \/ e.task = "active"

\* latestActivityBaseline
Baseline(e) == IF e.act # NoTime THEN [kind |-> "ACTIVITY", time |-> e.act]
                                 ELSE [kind |-> "CREATED", time |-> e.created]

SourceTimes(e) == {e.created, e.updated, e.act, e.tasked} \ {NoTime}

ObservedAt(e) == Max(SourceTimes(e))

IsStale(e, at) == at >= Baseline(e).time + StaleAfter

\* Mutant: the source may be older than the freshness window.
SourceTooOldIgnored(e, at) == FALSE

SourceTooOld(e, at) == at - ObservedAt(e) > FreshFor

\* The detector asks these questions in this order; the first one answered
\* with yes is its reason.
Questions == <<"OPPORTUNITY_STAGE_MISSING", "OPPORTUNITY_STAGE_UNRECOGNIZED",
    "CANONICAL_TIMESTAMP_INVALID", "CANONICAL_TIMESTAMP_IN_FUTURE",
    "MEANINGFUL_ACTIVITY_BASELINE_MISSING", "CANONICAL_SOURCE_TOO_OLD",
    "OPPORTUNITY_CLOSED", "RECENT_MEANINGFUL_ACTIVITY", "NEXT_ACTION_PRESENT",
    "STALE_WITHOUT_NEXT_ACTION">>

Reasons == ToSet(Questions)

Answered(e, at) ==
    [OPPORTUNITY_STAGE_MISSING |-> e.stage = "blank",
     OPPORTUNITY_STAGE_UNRECOGNIZED |-> e.stage = "odd",
     CANONICAL_TIMESTAMP_INVALID |-> e.updated < e.created,
     CANONICAL_TIMESTAMP_IN_FUTURE |-> \E t \in SourceTimes(e) : t > at,
     MEANINGFUL_ACTIVITY_BASELINE_MISSING |-> Baseline(e).time = NoTime,
     CANONICAL_SOURCE_TOO_OLD |-> SourceTooOld(e, at),
     OPPORTUNITY_CLOSED |-> e.stage = "closed",
     RECENT_MEANINGFUL_ACTIVITY |-> ~IsStale(e, at),
     NEXT_ACTION_PRESENT |-> NextActionPresent(e),
     STALE_WITHOUT_NEXT_ACTION |-> TRUE]

Reason(e, at) ==
    Questions[Min({i \in DOMAIN Questions : Answered(e, at)[Questions[i]]})]

\* OUTCOME_REASON_CODES, by reason.
OutcomeOf(reason) ==
    CASE reason = "STALE_WITHOUT_NEXT_ACTION" -> "LEAK"
      [] reason \in {"OPPORTUNITY_CLOSED", "RECENT_MEANINGFUL_ACTIVITY",
                     "NEXT_ACTION_PRESENT"} -> "NO_LEAK"
      [] reason \in {"OPPORTUNITY_STAGE_MISSING",
                     "MEANINGFUL_ACTIVITY_BASELINE_MISSING"} -> "INSUFFICIENT"
      [] reason \in {"CANONICAL_TIMESTAMP_IN_FUTURE",
                     "CANONICAL_SOURCE_TOO_OLD"} -> "STALE_SOURCE"
      [] OTHER -> "DATA_HEALTH"

Outcomes == {"LEAK", "NO_LEAK", "INSUFFICIENT", "STALE_SOURCE", "DATA_HEALTH"}

IsLeak(e, at) == Reason(e, at) = "STALE_WITHOUT_NEXT_ACTION"

\* The versioned evidence of an evaluation.  A case is made from it, and with
\* it from its semantic key: two cases of a series have the same key if and
\* only if they have the same facts.
Facts(e) ==
    [stage |-> e.stage, base |-> Baseline(e),
     present |-> NextActionPresent(e), observed |-> ObservedAt(e),
     value |-> e.value]

\* evaluateStalledOpportunity: there are facts only where they can be trusted.
Evaluation(e, at) ==
    LET outcome == OutcomeOf(Reason(e, at))
    IN  [outcome |-> outcome, reason |-> Reason(e, at),
         facts |-> IF outcome \in {"LEAK", "NO_LEAK"} THEN {Facts(e)} ELSE {}]

-----------------------------------------------------------------------------
(* The eligibility report                                                  *)

ClassOf(outcome) ==
    CASE outcome \in {"LEAK", "NO_LEAK"} -> "ELIGIBLE"
      [] outcome = "INSUFFICIENT" -> "MISSING"
      [] outcome = "STALE_SOURCE" -> "STALE"
      [] outcome = "DATA_HEALTH" -> "SUPPRESSED"

Classes == {"ELIGIBLE", "MISSING", "STALE", "SUPPRESSED", "BLOCKED"}

ValueKind(v) == IF v = Unknown THEN "UNKNOWN"
                ELSE IF v = 0 THEN "ZERO" ELSE "POSITIVE"

Coverages == {"UNKNOWN", "ZERO", "POSITIVE", "NOT_ASSESSED"}

Readiness(total, assessable) ==
    CASE total = 0 -> "EMPTY"
      [] total > 0 /\ assessable = total -> "READY"
      [] total > 0 /\ assessable = 0 -> "NOT_READY"
      [] OTHER -> "PARTIAL"

CountBy(f, S, key(_)) == [k \in S |-> Cardinality({o \in DOMAIN f : key(f[o]) = k})]

\* buildStalledOpportunityEligibility, of the evidence of a whole portfolio.
Eligibility(evidence, at) ==
    LET record == [o \in DOMAIN evidence |->
                     [outcome |-> OutcomeOf(Reason(evidence[o], at)),
                      reason |-> Reason(evidence[o], at),
                      class |-> ClassOf(OutcomeOf(Reason(evidence[o], at))),
                      value |-> ValueKind(evidence[o].value)]]
        total == Cardinality(DOMAIN evidence)
        classes == CountBy(record, Classes, LAMBDA r : r.class)
        missed == [o \in {u \in DOMAIN record : record[u].class # "ELIGIBLE"}
                     |-> record[o]]
    IN  [op |-> "eligibility", at |-> at, complete |-> TRUE, total |-> total,
         readiness |-> Readiness(total, classes["ELIGIBLE"]),
         evaluated |-> total, records |-> record, classes |-> classes,
         reasons |-> CountBy(missed, Reasons, LAMBDA r : r.reason),
         values |-> CountBy(record, Coverages, LAMBDA r : r.value)]

\* buildBlockedStalledOpportunityEligibility
BlockedEligibility(total, at) ==
    [op |-> "eligibility", at |-> at, complete |-> FALSE, total |-> total,
     readiness |-> "BLOCKED", evaluated |-> 0, records |-> <<>>,
     classes |-> [k \in Classes |-> IF k = "BLOCKED" THEN total ELSE 0],
     reasons |-> [r \in Reasons |-> 0],
     values |-> [k \in Coverages |-> IF k = "NOT_ASSESSED" THEN total ELSE 0]]

-----------------------------------------------------------------------------
(* The operating queue                                                     *)

\* deriveUrgency, for cases without a due date.
Urgency(r, at) ==
    IF r.state = "OPEN" THEN "OPEN_NO_OVERDUE_DEADLINE"
    ELSE IF r.wake <= at THEN "SNOOZE_WAKE_DUE" ELSE "SNOOZED_UNTIL_FUTURE"

UrgencyTier == [SNOOZE_WAKE_DUE |-> 1, OPEN_NO_OVERDUE_DEADLINE |-> 2,
                SNOOZED_UNTIL_FUTURE |-> 3]

ValueTier == [POSITIVE |-> 0, ZERO |-> 1, UNKNOWN |-> 2]

\* buildEntry
Entry(id, r, at) ==
    [id |-> id, opp |-> r.opp, state |-> r.state, detected |-> r.detected,
     facts |-> r.facts, kind |-> ValueKind(r.facts.value),
     amount |-> r.facts.value, age |-> at - r.detected,
     urgency |-> Urgency(r, at), wake |-> r.wake, action |-> r.action]

\* Mutant: the age decides before the value.
PrecedesByAge(x, y) ==
    \/ UrgencyTier[x.urgency] < UrgencyTier[y.urgency]
    \/ UrgencyTier[x.urgency] = UrgencyTier[y.urgency] /\ x.age > y.age
    \/ UrgencyTier[x.urgency] = UrgencyTier[y.urgency] /\ x.age = y.age /\ x.id < y.id

\* compareEntries: urgency, value tier, amount, age, and the id at last.
Precedes(x, y) ==
    LET rank(z) == <<UrgencyTier[z.urgency], ValueTier[z.kind],
                     IF z.kind = "POSITIVE" THEN 0 - z.amount ELSE 0,
                     0 - z.age, z.id>>
    IN  \E i \in 1 .. 5 : /\ rank(x)[i] < rank(y)[i]
                          /\ \A j \in 1 .. (i - 1) : rank(x)[j] = rank(y)[j]

\* Array.prototype.sort: no two entries have the same id, so there is one order.
InOrder(entries) ==
    CHOOSE s \in [1 .. Cardinality(entries) -> entries] :
        \A i, j \in DOMAIN s : i < j => Precedes(s[i], s[j])

\* buildRevenueLeakOperatingQueue: every active case, in order, or none.
Queue(active, at) ==
    [op |-> "queue", at |-> at, total |-> Cardinality(DOMAIN active),
     entries |-> InOrder({Entry(id, active[id], at) : id \in DOMAIN active}),
     worth |-> MapThenSumSet(
                   LAMBDA id : Max({active[id].facts.value, 0}), DOMAIN active)]
=============================================================================
