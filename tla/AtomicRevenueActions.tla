------------------------ MODULE AtomicRevenueActions ------------------------
(***************************************************************************)
(* What the RevenueAction lifecycle promises when a request is one         *)
(* transaction: every request takes effect at one moment or not at all.    *)
(* Between requests an action is never half executed, its effects appear   *)
(* all together with the status EXECUTED, and they stay as they are.       *)
(***************************************************************************)
CONSTANTS
    Opportunities, ActionIds, TaskIds, ActivityIds,
    None             \* the opportunity of no action

VARIABLES
    status,          \* of every action
    owner,           \* its opportunity
    effects          \* tasks and activities that carry its id

vars == <<status, owner, effects>>

NoEffects == [tasks |-> {}, activities |-> {}]

Active == {"RECOMMENDED", "PREPARED", "APPROVED", "FAILED"}

ActiveOf(o) == {a \in ActionIds : owner[a] = o /\ status[a] \in Active}

Init ==
    /\ status = [a \in ActionIds |-> "ABSENT"]
    /\ owner = [a \in ActionIds |-> None]
    /\ effects = [a \in ActionIds |-> NoEffects]

\* Actions of one opportunity are given up together.
Supersede(o, S) ==
    /\ S \subseteq ActiveOf(o)
    /\ status' = [a \in ActionIds |-> IF a \in S THEN "CANCELLED" ELSE status[a]]
    /\ UNCHANGED <<owner, effects>>

\* A new action is recommended, and replaces others of its opportunity.
Recommend(o, S, a) ==
    /\ status[a] = "ABSENT"
    /\ S \subseteq ActiveOf(o)
    /\ status' = [b \in ActionIds |->
                    IF b = a THEN "RECOMMENDED" ELSE IF b \in S THEN "CANCELLED"
                    ELSE status[b]]
    /\ owner' = [owner EXCEPT ![a] = o]
    /\ UNCHANGED effects

Move(a, from, to) ==
    /\ status[a] \in from
    /\ status' = [status EXCEPT ![a] = to]
    /\ UNCHANGED <<owner, effects>>

Prepare(a) == Move(a, {"RECOMMENDED"}, "PREPARED")
Approve(a) == Move(a, {"PREPARED"}, "APPROVED")
Reject(a) == Move(a, {"PREPARED"}, "REJECTED")
FailExecution(a) == Move(a, {"APPROVED", "FAILED"}, "FAILED")

\* The whole effect of an approved action, and the record of it, at once.
Execute(a, T, v) ==
    /\ status[a] \in {"APPROVED", "FAILED"}
    /\ effects[a] = NoEffects
    /\ \A t, u \in T : t = u
    /\ \A b \in ActionIds : v \notin effects[b].activities /\ T \cap effects[b].tasks = {}
    /\ status' = [status EXCEPT ![a] = "EXECUTED"]
    /\ effects' = [effects EXCEPT ![a] = [tasks |-> T, activities |-> {v}]]
    /\ UNCHANGED owner

Next ==
    \/ \E o \in Opportunities, S \in SUBSET ActionIds : Supersede(o, S)
    \/ \E o \in Opportunities, S \in SUBSET ActionIds, a \in ActionIds : Recommend(o, S, a)
    \/ \E a \in ActionIds : Prepare(a) \/ Approve(a) \/ Reject(a) \/ FailExecution(a)
    \/ \E a \in ActionIds, T \in SUBSET TaskIds, v \in ActivityIds : Execute(a, T, v)

Spec == Init /\ [][Next]_vars
=============================================================================
