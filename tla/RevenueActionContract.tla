----------------------- MODULE RevenueActionContract -----------------------
(***************************************************************************)
(* What the RevenueAction lifecycle promises, whatever store carries it:   *)
(* the transitions a status may make, at most one active action of an      *)
(* opportunity, and CRM effects that are applied at most once, only while  *)
(* an approved execution runs, the task before the activity that reports   *)
(* it.  How evidence is compared, how effects are found again after a      *)
(* crash and in how many writes a request is carried out is left open.     *)
(***************************************************************************)

CONSTANTS Opportunities, ActionIds, TaskIds, ActivityIds, None

VARIABLES
    status,     \* of every action; "ABSENT" before it is recommended
    owner,      \* the opportunity of every action
    taskOf,     \* the tasks that carry the id of an action
    activityOf  \* the activities that carry the id of an action

vars == <<status, owner, taskOf, activityOf>>

Active == {"RECOMMENDED", "PREPARED", "APPROVED", "EXECUTING", "FAILED"}

Init ==
    /\ status = [a \in ActionIds |-> "ABSENT"]
    /\ owner = [a \in ActionIds |-> None]
    /\ taskOf = [a \in ActionIds |-> {}]
    /\ activityOf = [a \in ActionIds |-> {}]

\* Action a moves from one of the statuses of `from' to status `to'.
Move(a, from, to) ==
    /\ status[a] \in from
    /\ status' = [status EXCEPT ![a] = to]
    /\ UNCHANGED <<owner, taskOf, activityOf>>

Recommend(a, o) ==
    /\ status[a] = "ABSENT"
    /\ \A b \in ActionIds : owner[b] = o => status[b] \notin Active
    /\ status' = [status EXCEPT ![a] = "RECOMMENDED"]
    /\ owner' = [owner EXCEPT ![a] = o]
    /\ UNCHANGED <<taskOf, activityOf>>

Prepare(a) == Move(a, {"RECOMMENDED"}, "PREPARED")
Approve(a) == Move(a, {"PREPARED"}, "APPROVED")
Reject(a) == Move(a, {"PREPARED"}, "REJECTED")

\* Cancelled by the user, or superseded because the evidence changed.
Cancel(a) == Move(a, Active, "CANCELLED")

\* A newer recommendation supersedes actions that have not touched the CRM.
Supersede(S) ==
    /\ \A a \in S : status[a] \in Active /\ taskOf[a] = {} /\ activityOf[a] = {}
    /\ status' = [a \in ActionIds |-> IF a \in S THEN "CANCELLED" ELSE status[a]]
    /\ UNCHANGED <<owner, taskOf, activityOf>>

Start(a) == Move(a, {"APPROVED", "FAILED"}, "EXECUTING")
Fail(a) == Move(a, {"EXECUTING"}, "FAILED")

ApplyTask(a, t) ==
    /\ status[a] = "EXECUTING"
    /\ taskOf[a] = {} /\ activityOf[a] = {}
    /\ taskOf' = [taskOf EXCEPT ![a] = {t}]
    /\ UNCHANGED <<status, owner, activityOf>>

ApplyActivity(a, v) ==
    /\ status[a] = "EXECUTING"
    /\ activityOf[a] = {}
    /\ activityOf' = [activityOf EXCEPT ![a] = {v}]
    /\ UNCHANGED <<status, owner, taskOf>>

\* Only a whole effect is executed: the activity is always part of it.
Finish(a) ==
    /\ activityOf[a] # {}
    /\ Move(a, {"EXECUTING", "FAILED"}, "EXECUTED")

Next ==
    \/ \E a \in ActionIds :
         \/ \E o \in Opportunities : Recommend(a, o)
         \/ Prepare(a) \/ Approve(a) \/ Reject(a) \/ Cancel(a)
         \/ Start(a) \/ Fail(a) \/ Finish(a)
         \/ \E t \in TaskIds : ApplyTask(a, t)
         \/ \E v \in ActivityIds : ApplyActivity(a, v)
    \/ \E S \in SUBSET ActionIds : Supersede(S)

Spec == Init /\ [][Next]_vars
=============================================================================
