----------------------- MODULE MCPostgresLeakCases -----------------------
(* Instances of PostgresLeakCases small enough for TLC.                    *)
EXTENDS PostgresLeakCases

CONSTANTS c1, c2

\* An imported opportunity of this value that nobody has touched since time 0.
Untouched(v) ==
    [stage |-> "active", next |-> "none", value |-> v, created |-> 0,
     updated |-> 0, born |-> 0, act |-> NoTime, task |-> "none", tasked |-> NoTime]

\* Evidence that says nothing, or too much.
Unusable ==
    {[Untouched(2) EXCEPT !.stage = "blank"], [Untouched(2) EXCEPT !.stage = "odd"],
     [Untouched(2) EXCEPT !.created = NoTime], [Untouched(2) EXCEPT !.created = 1],
     [Untouched(2) EXCEPT !.updated = 2]}

\* A next action that reads "unknown" is none for the detector only.
NextUnknown == [Untouched(Unknown) EXCEPT !.next = "unknown"]

Setting(e, until, r1, r2, events, new) ==
    [evidence |-> e, until |-> until, requests |-> c1 :> r1 @@ c2 :> r2,
     events |-> events, new |-> new]

One == 1 :> Untouched(2)
Two(e) == One @@ 2 :> e

\* Who does what, and until when:
MCSettings ==
    \* detections race each other, a person who works with the cases, and the
    \* CRM, also on their way to an action,
    {Setting(One, 3, {"detect"}, {"detect", "snooze", "resume"}, {"value"}, <<>>),
     Setting(One, 3, {"scan"}, {"handoff"}, {"history"}, <<>>),
     Setting(One, 2, {"scan"}, {"detect"}, {"history"}, <<>>),
     Setting(One, 2, {"detect", "handoff"}, {"list"}, {"history", "finish", "contact"}, <<>>),
     Setting(One, 2, {"detect", "link"}, {"handoff", "dismiss"}, {"materialize", "finish"}, <<>>),
     Setting(Two(Untouched(0)), 2, {"scan", "link"}, {"handoff"}, {"finish"}, <<>>)}
  \cup
    \* whole portfolios are scanned, reported and worked through, and grow past
    \* the limit,
    {Setting(Two(Untouched(v)), 3, {"scan"}, {"queue", "snooze"}, {}, <<>>) : v \in {Unknown, 0, 3}}
  \cup
    {Setting(1 :> NextUnknown, 3, {"scan", "handoff"}, {"detect"}, {"stage"}, <<>>),
     Setting(One, 2, {"scan"}, {"eligibility"}, {"task", "done"}, <<>>),
     Setting(One, 2, {"scan", "detect"}, {"eligibility", "queue"}, {}, 2 :> Untouched(0) @@ 3 :> Untouched(2))}
  \cup
    \* and some of the evidence is unusable.
    {Setting(Two(e), 3, {"scan"}, {"eligibility", "detect"}, {}, <<>>) : e \in Unusable}

\* The racing transitions alone.
MCTransitions == {Setting(One, 2, {"detect", "snooze"}, {"snooze", "resume"}, {}, <<>>)}

MCView == <<now, evidence, cases, actions, milestones, setting, tx>>
=============================================================================
