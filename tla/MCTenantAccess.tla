--------------------------- MODULE MCTenantAccess ---------------------------
(* An instance of TenantAccess small enough for TLC.                       *)
EXTENDS TenantAccess, TLC

CONSTANTS t1, t2, p1, p2, p3, x, y, i1, r1, r2, r3, r4

Open(t, p) == [NoInvite EXCEPT !.tenant = t, !.role = "MEMBER", !.status = "PENDING",
                               !.expected = x, !.by = p, !.token = "SENT"]

\* An empty database, or two tenants that have invited x: the first, which has
\* two owners, did so twice.
MCWorlds == {
    [owners |-> [t \in Tenants |-> {}], invite |-> [i \in Ids |-> NoInvite]],
    [owners |-> t1 :> {p1, p2} @@ t2 :> {p3},
     invite |-> i1 :> NoInvite @@ r1 :> Open(t1, p1) @@ r2 :> Open(t2, p3) @@ r3 :> Open(t1, p2) @@ r4 :> NoInvite]}

Ask(kind, p, i, role, who) ==
    [Idle EXCEPT !.kind = kind, !.by = p, !.invite = i, !.role = role, !.who = who]
MCAsks == {
    Ask("create", p1, r4, "MEMBER", None), Ask("record", p1, r4, "NONE", x),
    Ask("revoke", p1, r1, "NONE", None), Ask("offboard", p1, None, "NONE", None),
    Ask("consume", x, r1, "NONE", None), Ask("consume", x, r2, "NONE", None),
    Ask("consume", x, r3, "NONE", None), Ask("consume", y, i1, "NONE", None)}

Ordered(kind, t, a, w, i, role) ==
    [NoCommand EXCEPT !.kind = kind, !.tenant = t, !.actor = a, !.who = w,
                      !.invite = i, !.role = role]
MCOrders == {
    Ordered("bootstrap", t1, p1, p1, None, "NONE"), Ordered("bootstrap", t2, p3, p3, None, "NONE"),
    Ordered("revoke", t1, p1, p1, None, "NONE"), Ordered("revoke", t1, p2, p2, None, "NONE"),
    Ordered("revoke", t1, p2, p1, None, "NONE"), Ordered("revoke", t1, p2, x, None, "NONE"),
    Ordered("invite", t1, p1, y, i1, "MEMBER"), Ordered("invite", t1, p2, y, i1, "MEMBER"), Ordered("revokeInvite", t1, p2, None, r1, "NONE"),
    Ordered("revokeInvite", t1, p2, None, i1, "NONE")}

Symmetry == Permutations(Clients) \cup Permutations(Operators)
=============================================================================
