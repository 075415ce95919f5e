-------------------------- MODULE MCRevenueActions --------------------------
(* Instances of RevenueActions small enough for TLC.                       *)
EXTENDS RevenueActions

\* "define" and "Define" are one title to every comparison that normalizes.
MCTitles == {"Define", "define", "Other"}
MCNoTitle == ""
MCTitleKey == [t \in {"Define", "define", "Other", ""} |->
                 IF t = "Define" THEN "define" ELSE t]
MCProposedTitle == [type \in {"CREATE_TASK", "RESEARCH", "QUALIFY"} |->
                      IF type = "CREATE_TASK" THEN "Define" ELSE "Other"]
MCStageTitle == [s \in {"PROPOSAL", "WON"} |-> "Other"]
MCTerms == {"HIGH", "MEDIUM"}
MCProposedTerms == [type \in ActionTypes |->
                      IF type \in {"CREATE_TASK", "RESEARCH"} THEN "HIGH" ELSE "MEDIUM"]

Fact(c, v, n) == [contact |-> c, valued |-> v, nextAction |-> n]

\* No next action recorded: the recommendation is CREATE_TASK.
NoPlan == {Fact(TRUE, TRUE, "")}
\* A plan and a contact, no activity yet: FOLLOW_UP, then QUALIFY or ADVANCE.
Planned == {Fact(TRUE, FALSE, "Other"), Fact(TRUE, TRUE, "Other")}
\* All of these: the recommendation may be any of the five.
AnyPlan == NoPlan \cup Planned

Ask(y, t, p) == [type |-> y, title |-> t, terms |-> p]

\* The task the recommendation proposes, asked for beside the action.
SameTask == {Ask("CREATE_TASK", "Define", "HIGH")}
\* The same, typed in another case.
RecasedTask == {Ask("CREATE_TASK", "define", "HIGH")}
FollowUpTask == {Ask("FOLLOW_UP", "Other", "MEDIUM")}
NoTasks == {}
=============================================================================
