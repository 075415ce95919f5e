---------------------- MODULE MCPostgresRevenueActions ----------------------
(* Instances of PostgresRevenueActions small enough for TLC.               *)
EXTENDS PostgresRevenueActions, TLC

CONSTANTS c1, c2

\* The operator takes an action through its life ...
Operator == {"materialize", "PREPARED", "APPROVED", "execute"}

\* ... while another operator does the same,
Colleague == {"materialize", "execute", "REJECTED", "CANCELLED"}

\* or CRM users change the opportunity, its prospect or its tasks.
CrmUsers == {{"stage", "value"}, {"qualify", "materialize"},
             {"post", "task", "patch"}}

MCRoles == {c1 :> Operator @@ c2 :> other : other \in {Colleague} \cup CrmUsers}

\* What has been answered changes nothing that follows.
MCView ==
    <<db, env, [c \in Clients |-> IF tx[c].step = "idle" THEN Idle ELSE tx[c]]>>
=============================================================================
