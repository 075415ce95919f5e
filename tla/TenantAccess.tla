---------------------------- MODULE TenantAccess ----------------------------
(***************************************************************************)
(* Who may enter a tenant: bootstrap of the first tenant, invitations,     *)
(* memberships, their revocation, and the end of all access when a tenant  *)
(* is offboarded.                                                          *)
(*                                                                         *)
(* Three kinds of actors write the tables at once.  Clients are requests   *)
(* to the server; they run READ COMMITTED transactions of several          *)
(* statements.  Operators run the identity command; its transactions are   *)
(* SERIALIZABLE and read from a snapshot taken before any lock.  The       *)
(* maintenance job offboards tenants.                                      *)
(*                                                                         *)
(* A statement waits for the locks it needs: an action is enabled once     *)
(* they are free.  A transaction that PostgreSQL ends (deadlock, lost      *)
(* connection, timeout) or whose process stops is the action Abandon or    *)
(* Stop.  From the moment it has the tenant's row FOR UPDATE until COMMIT, *)
(* an operator's or the maintenance job's transaction is one step: every   *)
(* other transaction that changes what it reads under that lock needs the  *)
(* row too.                                                                *)
(*                                                                         *)
(* Identities are the provider's pairs of issuer and subject; the token    *)
(* and the audit identifier of an invitation stand for its id; addresses   *)
(* and identities correspond.  An invitation that expires stops the first  *)
(* look at it and the repetition of its command, nothing else; since       *)
(* neither ever has to happen, the expiry adds no behaviour and is left    *)
(* out.                                                                    *)
(***************************************************************************)
EXTENDS Naturals, FiniteSets

CONSTANTS
    Tenants, People,
    OperationIds,   \* invitation ids that operators choose and may send again
    RandomIds,      \* invitation ids the server draws
    InvitedRoles,   \* roles the invitations of an instance offer
    Clients,        \* requests to the server that may run at once
    Operators,      \* identity commands that may run at once
    Worlds,         \* what may exist at the start: owners and open invitations
    Asks,           \* what the requests of an instance may ask for
    Orders,         \* what its commands may order
    MaxRequests,    \* bound on client requests
    MaxCommands,    \* bound on operator commands
    None            \* nobody, no tenant, no invitation

Ids == OperationIds \cup RandomIds
Roles == {"OWNER", "ADMIN", "MEMBER"}

VARIABLES
    tenant,         \* the tenant rows
    member,         \* membership rows by identity and tenant
    invite,         \* invitation rows by id
    offboarding,    \* the tenants' offboarding requests
    users,          \* identities that exist at the provider
    client, requests,
    op, commands

db == <<tenant, member, invite>>
vars == <<db, offboarding, users, client, requests, op, commands>>

NoMember == [role |-> "NONE", status |-> "NONE"]
Active(role) == [role |-> role, status |-> "ACTIVE"]

\* token: "LOST" until the URL with the token has left the process that drew it.
NoInvite == [tenant |-> None, role |-> "NONE", status |-> "NONE", expected |-> None,
             by |-> None, token |-> "NONE"]

Idle == [pc |-> "idle", kind |-> "none", by |-> None, tenant |-> None,
         invite |-> None, role |-> "NONE", who |-> None]

Snapshot == [tenant |-> tenant, member |-> member, invite |-> invite]
NoSnapshot == [tenant |-> [t \in Tenants |-> "NONE"],
               member |-> [p \in People |-> [t \in Tenants |-> NoMember]],
               invite |-> [i \in Ids |-> NoInvite]]
NoCommand == [pc |-> "idle", kind |-> "none", tenant |-> None, actor |-> None,
              who |-> None, invite |-> None, role |-> "NONE",
              snap |-> NoSnapshot, doomed |-> FALSE]

\* What an instance may start from and be asked.
MemberRow == {NoMember} \cup [role : Roles, status : {"ACTIVE", "REVOKED"}]
Invitation == [tenant : Tenants, role : InvitedRoles,
               status : {"PENDING", "CONSUMED", "REVOKED"},
               expected : People \cup {None}, by : People, token : {"LOST", "SENT"}]
Erased == [NoInvite EXCEPT !.status = "DELETED"]
InviteRow == {NoInvite, Erased} \cup Invitation

RequestState == [pc : {"idle", "authorized", "checked", "found", "identified", "shared",
                  "inserted", "locked", "admitted"},
            kind : {"none", "create", "record", "revoke", "offboard", "consume"},
            by : People \cup {None}, tenant : Tenants \cup {None},
            invite : Ids \cup {None}, role : Roles \cup {"NONE"}, who : People \cup {None}]
WellFormedAsk(q) ==
    /\ q.by \in People /\ q.kind # "none"
    /\ q.kind = "create" => q.invite \in RandomIds /\ q.role \in InvitedRoles
    /\ q.kind \in {"record", "revoke", "consume"} => q.invite \in Ids
    /\ q.kind = "record" => q.who \in People

TenantRow == {"NONE", "LIVE", "OFFBOARDED"}
Snapshots == [tenant : [Tenants -> TenantRow], member : [People -> [Tenants -> MemberRow]],
              invite : [Ids -> InviteRow]]
CommandState == [pc : {"idle", "preflight", "provision", "apply", "deliver"},
            kind : {"none", "bootstrap", "revoke", "invite", "revokeInvite"},
            tenant : Tenants \cup {None}, actor : People \cup {None}, who : People \cup {None},
            invite : Ids \cup {None}, role : Roles \cup {"NONE"},
            snap : Snapshots, doomed : BOOLEAN]
WellFormedOrder(q) ==
    /\ q.tenant \in Tenants /\ q.actor \in People /\ q.kind # "none"
    /\ q.kind # "revokeInvite" => q.who \in People
    /\ q.kind = "revokeInvite" => q.invite \in Ids
    /\ q.kind = "invite" => q.invite \in OperationIds /\ q.role \in InvitedRoles

\* Ids of operators and of the server do not meet; at the start an identity
\* owns one tenant at most.
ASSUME AccessAssumption ==
    /\ InvitedRoles \subseteq Roles \ {"OWNER"}
    /\ OperationIds \cap RandomIds = {}
    /\ None \notin Tenants \cup People \cup Ids
    /\ MaxRequests \in Nat /\ MaxCommands \in Nat
    /\ \A w \in Worlds :
        /\ w.owners \in [Tenants -> SUBSET People]
        /\ w.invite \in [Ids -> {NoInvite} \cup Invitation]
        /\ \A t, u \in Tenants : w.owners[t] \cap w.owners[u] # {} => t = u
    /\ \A ask \in Asks : ask \in RequestState /\ WellFormedAsk(ask)
    /\ \A q \in Orders : q \in CommandState /\ WellFormedOrder(q) /\ ~q.doomed

-----------------------------------------------------------------------------
(* Rows and locks.                                                         *)

OwnerOf(m, p, t) == m[p][t] = Active("OWNER")
Owners(m, t) == {p \in People : OwnerOf(m, p, t)}
TenantsOf(m, p) == {t \in Tenants : m[p][t].status # "NONE"}
Live(t) == tenant[t] = "LIVE"

\* Mutant: consumption does not serialize on the identity.
IdentityHeldByNobody(p) == FALSE

\* Mutant: the tenant's row is read without FOR SHARE.
SharedByNobody(t) == FALSE

\* The tenant's row is held FOR SHARE; the invitation's row FOR UPDATE; the
\* advisory lock of an identity.
Shared(t) == \E c \in Clients :
    client[c].pc \in {"shared", "inserted", "admitted"} /\ client[c].tenant = t
RowHeld(i) == \E c \in Clients :
    client[c].pc \in {"locked", "admitted"} /\ client[c].invite = i
IdentityHeld(p) == \E c \in Clients :
    /\ client[c].pc \in {"identified", "shared", "admitted"}
    /\ client[c].kind = "consume" /\ client[c].by = p

Goto(c, pc) == client' = [client EXCEPT ![c].pc = pc]
End(c) == client' = [client EXCEPT ![c] = Idle]

-----------------------------------------------------------------------------
(* Requests of the server.                                                 *)

Quiet == UNCHANGED <<users, op, commands>>

\* The server draws a new id for every invitation.
Fresh(i) ==
    i \in RandomIds /\ invite[i].status = "NONE" /\ \A c \in Clients : client[c].invite # i

\* The token of the request is verified and the caller's only ACTIVE
\* membership becomes the context, whose role must allow the action.  The
\* context is not read again.
Resolve(c, ask) ==
    /\ client[c].pc = "idle" /\ requests < MaxRequests
    /\ ask.kind # "consume" /\ (ask.kind = "create" => Fresh(ask.invite))
    /\ requests' = requests + 1
    /\ \E t \in Tenants :
        /\ {u \in Tenants : member[ask.by][u].status = "ACTIVE"} = {t}
        /\ OwnerOf(member, ask.by, t)
        /\ client' = [client EXCEPT ![c] = [ask EXCEPT !.pc = "authorized", !.tenant = t]]
    /\ UNCHANGED <<db, offboarding>> /\ Quiet

\* lock_current_tenant_access_writable and request_tenant_offboarding look at
\* the membership first, without a lock.
CheckOwner(c) ==
    /\ client[c].pc = "authorized" /\ client[c].kind \in {"create", "offboard"}
    /\ IF OwnerOf(member, client[c].by, client[c].tenant) THEN Goto(c, "checked") ELSE End(c)
    /\ UNCHANGED <<db, offboarding, requests>> /\ Quiet

\* The tenant's row FOR SHARE, unless the tenant is offboarded by then.
ShareTenant(c) ==
    /\ \/ client[c].kind = "create" /\ client[c].pc = "checked"
       \/ client[c].kind = "consume" /\ client[c].pc = "identified"
    /\ IF Live(client[c].tenant) THEN Goto(c, "shared") ELSE End(c)
    /\ UNCHANGED <<db, offboarding, requests>> /\ Quiet

\* Mutant: the trigger trusts the check made before the lock.
MayInvite(c) == TRUE

\* The insert trigger repeats the check, now under the lock.
TriggerAllows(c) ==
    OwnerOf(member, client[c].by, client[c].tenant) /\ Live(client[c].tenant)

InsertInvitation(c) ==
    /\ client[c].pc = "shared" /\ client[c].kind = "create"
    /\ IF TriggerAllows(c) THEN Goto(c, "inserted") ELSE End(c)
    /\ UNCHANGED <<db, offboarding, requests>> /\ Quiet

\* COMMIT; the response with the token may be lost.
CreateInvitation(c) ==
    /\ client[c].pc = "inserted"
    /\ \E token \in {"SENT", "LOST"} :
        invite' = [invite EXCEPT ![client[c].invite] =
            [tenant |-> client[c].tenant, role |-> client[c].role, status |-> "PENDING",
             expected |-> None, by |-> client[c].by, token |-> token]]
    /\ End(c)
    /\ UNCHANGED <<tenant, member, offboarding, requests>> /\ Quiet

RequestOffboarding(c) ==
    /\ client[c].pc = "checked" /\ client[c].kind = "offboard"
    /\ offboarding' = [offboarding EXCEPT ![client[c].tenant] =
                         IF @ = "NONE" THEN "PENDING" ELSE @]
    /\ End(c)
    /\ UNCHANGED <<db, requests>> /\ Quiet

\* The updates of recordProvisionedIdentity and revokeInvitation find their
\* row PENDING, once nobody else holds it, and keep it until COMMIT; for any
\* other row the answer is a replay or nothing.
Updatable(c) ==
    /\ invite[client[c].invite].tenant = client[c].tenant
    /\ invite[client[c].invite].status = "PENDING"
    /\ client[c].kind = "record" => invite[client[c].invite].expected = None

LockInvitation(c) ==
    /\ client[c].pc = "authorized" /\ client[c].kind \in {"record", "revoke"}
    /\ ~RowHeld(client[c].invite)
    /\ IF Updatable(c) THEN Goto(c, "locked") ELSE End(c)
    /\ UNCHANGED <<db, offboarding, requests>> /\ Quiet

UpdateInvitation(c) ==
    /\ client[c].pc = "locked"
    /\ invite' = [invite EXCEPT ![client[c].invite] =
                    IF client[c].kind = "record" THEN [@ EXCEPT !.expected = client[c].who]
                    ELSE [@ EXCEPT !.status = "REVOKED"]]
    /\ End(c)
    /\ UNCHANGED <<tenant, member, offboarding, requests>> /\ Quiet

-----------------------------------------------------------------------------
(* Consumption of an invitation by the invited identity.                   *)

Consumable(i, p) == invite[i].status = "PENDING" /\ invite[i].expected = p

\* The first look at the invitation, without a lock.
FindInvitation(c, ask) ==
    /\ client[c].pc = "idle" /\ requests < MaxRequests
    /\ ask.kind = "consume" /\ ask.by \in users /\ invite[ask.invite].token = "SENT"
    /\ requests' = requests + 1
    /\ Consumable(ask.invite, ask.by)
    /\ client' = [client EXCEPT ![c] = [ask EXCEPT !.pc = "found",
                                                   !.tenant = invite[ask.invite].tenant]]
    /\ UNCHANGED <<db, offboarding>> /\ Quiet

LockIdentity(c) ==
    /\ client[c].pc = "found"
    /\ ~IdentityHeld(client[c].by)
    /\ Goto(c, "identified")
    /\ UNCHANGED <<db, offboarding, requests>> /\ Quiet

\* Mutant: a revoked membership counts as none.
AdmissibleAgain(p, i) ==
    \/ {t \in TenantsOf(member, p) : member[p][t].status = "ACTIVE"} = {}
    \/ /\ TenantsOf(member, p) = {invite[i].tenant}
       /\ member[p][invite[i].tenant] = Active(invite[i].role)

\* What the identity already has must be exactly what the invitation offers.
Admissible(p, i) ==
    \/ TenantsOf(member, p) = {}
    \/ /\ TenantsOf(member, p) = {invite[i].tenant}
       /\ member[p][invite[i].tenant] = Active(invite[i].role)

\* Mutant: the first look at the invitation is enough.
AdmitOnFirstLook(c) ==
    /\ client[c].pc = "shared" /\ client[c].kind = "consume"
    /\ ~RowHeld(client[c].invite)
    /\ IF Admissible(client[c].by, client[c].invite) /\ invite[client[c].invite].tenant # None
       THEN Goto(c, "admitted") ELSE End(c)
    /\ UNCHANGED <<db, offboarding, requests>> /\ Quiet

\* The invitation is read again, FOR UPDATE, and the identity's memberships
\* without a lock.
Admit(c) ==
    /\ client[c].pc = "shared" /\ client[c].kind = "consume"
    /\ ~RowHeld(client[c].invite)
    /\ LET p == client[c].by  i == client[c].invite IN
       IF invite[i].tenant = client[c].tenant /\ Consumable(i, p) /\ Admissible(p, i)
       THEN Goto(c, "admitted") ELSE End(c)
    /\ UNCHANGED <<db, offboarding, requests>> /\ Quiet

\* COMMIT: membership and invitation change together.
Join(c) ==
    /\ client[c].pc = "admitted"
    /\ LET p == client[c].by  i == client[c].invite IN
        /\ member' = [member EXCEPT ![p][client[c].tenant] = Active(invite[i].role)]
        /\ invite' = [invite EXCEPT ![i].status = "CONSUMED"]
    /\ End(c)
    /\ UNCHANGED <<tenant, offboarding, requests>> /\ Quiet

\* The connection or the request ends before COMMIT.
Abandon(c) ==
    /\ client[c].pc # "idle"
    /\ End(c)
    /\ UNCHANGED <<db, offboarding, requests>> /\ Quiet

-----------------------------------------------------------------------------
(* The identity command.                                                   *)

Serve == UNCHANGED <<client, requests>>
Finish(o) == op' = [op EXCEPT ![o] = NoCommand]

\* Mutant: the isolation level is only REPEATABLE READ.
EntangledNever(q, r) == FALSE

\* Whether two concurrent transactions each read what the other writes, so
\* that PostgreSQL lets only the first of them commit: two bootstraps look
\* for any tenant; two revocations of active owners count the owners; two
\* invitations look for the identity's open invitation and for the id.
Entangled(q, r) ==
    \/ q.kind = "bootstrap" /\ r.kind = "bootstrap"
    \/ /\ q.kind = "revoke" /\ r.kind = "revoke" /\ q.tenant = r.tenant
       /\ \A x \in {q, r} : OwnerOf(x.snap.member, x.who, x.tenant)
    \/ q.kind = "invite" /\ r.kind = "invite" /\ (q.who = r.who \/ q.invite = r.invite)

\* The commit of o dooms the transactions entangled with it.
Settle(o, next) ==
    op' = [x \in Operators |->
        IF x = o THEN next
        ELSE IF op[x].pc = "apply" /\ Entangled(op[x], op[o])
        THEN [op[x] EXCEPT !.doomed = TRUE]
        ELSE op[x]]

\* The operator starts a command; its first transaction begins, and its
\* snapshot is taken by the query that checks the operator's role.
Command(o, q) ==
    /\ op[o].pc = "idle" /\ commands < MaxCommands
    /\ commands' = commands + 1
    /\ op' = [op EXCEPT ![o] = [q EXCEPT !.snap = Snapshot,
                !.pc = IF q.kind = "invite" THEN "preflight" ELSE "apply"]]
    /\ UNCHANGED <<db, offboarding, users>> /\ Serve

\* Mutant: rows are read from the snapshot without FOR UPDATE.
StaleNever(q) == FALSE

\* Rows read FOR UPDATE that another transaction has changed since the
\* snapshot: a serialization failure.
Stale(q) ==
    \/ \E t \in Tenants : /\ t = q.tenant \/ q.kind = "bootstrap"
                          /\ q.snap.tenant[t] # "NONE" /\ tenant[t] # q.snap.tenant[t]
    \/ \E p \in People, t \in Tenants :
        /\ p \in {q.actor, q.who} \/ q.kind = "bootstrap"
        /\ q.snap.member[p][t] # NoMember /\ member[p][t] # q.snap.member[p][t]
    \/ \E i \in Ids :
        /\ i = q.invite \/ (q.kind = "invite" /\ q.snap.invite[i].expected = q.who)
        /\ q.snap.invite[i].status # "NONE" /\ invite[i] # q.snap.invite[i]

\* The actor's only membership is OWNER of the tenant, which is not offboarded.
Authorized(q) ==
    /\ q.snap.tenant[q.tenant] = "LIVE"
    /\ TenantsOf(q.snap.member, q.actor) = {q.tenant}
    /\ OwnerOf(q.snap.member, q.actor, q.tenant)

BootstrapOutcome(q) ==
    LET existing == {t \in Tenants : q.snap.tenant[t] # "NONE"}
        rows == {r \in People \X Tenants : q.snap.member[r[1]][r[2]] # NoMember} IN
    IF existing = {} /\ rows = {} THEN "APPLIED"
    ELSE IF /\ existing = {q.tenant} /\ q.snap.tenant[q.tenant] = "LIVE"
            /\ rows = {<<q.who, q.tenant>>} /\ OwnerOf(q.snap.member, q.who, q.tenant)
    THEN "ALREADY_APPLIED"
    ELSE "DENIED"

\* Mutant: the target need not be a member of the tenant.
RevokeOutcomeOfAnyone(q) ==
    LET target == q.snap.member[q.who][q.tenant] IN
    IF ~Authorized(q) THEN "DENIED"
    ELSE IF target.status = "REVOKED" THEN "ALREADY_REVOKED"
    ELSE IF target.role = "OWNER" /\ Cardinality(Owners(q.snap.member, q.tenant)) <= 1
    THEN "DENIED"
    ELSE "REVOKED"

RevokeOutcome(q) ==
    LET target == q.snap.member[q.who][q.tenant] IN
    IF ~Authorized(q) \/ TenantsOf(q.snap.member, q.who) # {q.tenant} THEN "DENIED"
    ELSE IF target.status = "REVOKED" THEN "ALREADY_REVOKED"
    ELSE IF target.role = "OWNER" /\ Cardinality(Owners(q.snap.member, q.tenant)) <= 1
    THEN "DENIED"
    ELSE "REVOKED"

\* A second command with the same operation id and the same content finds
\* its own invitation; any other invitation in the way is refused.
InviteOutcome(q) ==
    LET InTheWay(i) == \/ i = q.invite /\ q.snap.invite[i].status # "NONE"
                       \/ q.snap.invite[i].status = "PENDING" /\ q.snap.invite[i].expected = q.who
        existing == {i \in Ids : InTheWay(i)} IN
    IF ~Authorized(q) \/ TenantsOf(q.snap.member, q.who) # {} THEN "DENIED"
    ELSE IF existing = {}
    THEN IF invite[q.invite].status = "NONE" THEN "CREATED" ELSE "DENIED"
    ELSE LET i == q.snap.invite[q.invite] IN
         IF /\ existing = {q.invite}
            /\ i.tenant = q.tenant /\ i.role = q.role /\ i.status = "PENDING"
            /\ i.expected = q.who /\ i.by = q.actor
         THEN "RECONCILED" ELSE "DENIED"

RevokeInviteOutcome(q) ==
    LET i == q.snap.invite[q.invite] IN
    IF ~Authorized(q) \/ i.tenant # q.tenant THEN "DENIED"
    ELSE IF i.status = "REVOKED" THEN "ALREADY_REVOKED"
    ELSE IF i.status = "PENDING" THEN "REVOKED"
    ELSE "DENIED"

Outcome(q) ==
    IF Stale(q) \/ q.doomed THEN "DENIED"
    ELSE CASE q.kind = "bootstrap" -> BootstrapOutcome(q)
           [] q.kind = "revoke" -> RevokeOutcome(q)
           [] q.kind = "invite" -> InviteOutcome(q)
           [] q.kind = "revokeInvite" -> RevokeInviteOutcome(q)

\* The locks the transaction waits for.
RowsFree(q) ==
    /\ \A t \in Tenants : t = q.tenant \/ q.kind = "bootstrap" => ~Shared(t)
    /\ \A i \in Ids : i = q.invite \/ q.snap.invite[i].expected = q.who => ~RowHeld(i)

\* The first transaction of an invitation only asks whether the actor may.
Preflight(o) ==
    /\ op[o].pc = "preflight" /\ RowsFree(op[o])
    /\ IF Authorized(op[o]) /\ ~Stale(op[o])
       THEN op' = [op EXCEPT ![o].pc = "provision", ![o].snap = NoSnapshot]
       ELSE Finish(o)
    /\ UNCHANGED <<db, offboarding, users, commands>> /\ Serve

\* The provider's user is found or created; then the second transaction begins.
Provision(o) ==
    /\ op[o].pc = "provision"
    /\ users' = users \cup {op[o].who}
    /\ op' = [op EXCEPT ![o].pc = "apply", ![o].snap = Snapshot]
    /\ UNCHANGED <<db, offboarding, commands>> /\ Serve

Bootstrap(o) ==
    /\ op[o].pc = "apply" /\ RowsFree(op[o]) /\ op[o].kind = "bootstrap"
    /\ IF Outcome(op[o]) = "APPLIED"
       THEN /\ tenant' = [tenant EXCEPT ![op[o].tenant] = "LIVE"]
            /\ member' = [member EXCEPT ![op[o].who][op[o].tenant] = Active("OWNER")]
            /\ Settle(o, NoCommand)
       ELSE UNCHANGED <<tenant, member>> /\ Finish(o)
    /\ UNCHANGED <<invite, offboarding, users, commands>> /\ Serve

RevokeMembership(o) ==
    /\ op[o].pc = "apply" /\ RowsFree(op[o]) /\ op[o].kind = "revoke"
    /\ IF Outcome(op[o]) = "REVOKED"
       THEN /\ member' = [member EXCEPT ![op[o].who][op[o].tenant].status = "REVOKED"]
            /\ Settle(o, NoCommand)
       ELSE UNCHANGED member /\ Finish(o)
    /\ UNCHANGED <<tenant, invite, offboarding, users, commands>> /\ Serve

\* The token exists only in this process until its file is written.
Invite(o) ==
    /\ op[o].pc = "apply" /\ RowsFree(op[o]) /\ op[o].kind = "invite"
    /\ IF Outcome(op[o]) = "CREATED"
       THEN /\ invite' = [invite EXCEPT ![op[o].invite] =
                 [tenant |-> op[o].tenant, role |-> op[o].role, status |-> "PENDING",
                  expected |-> op[o].who, by |-> op[o].actor, token |-> "LOST"]]
            /\ Settle(o, [NoCommand EXCEPT !.pc = "deliver", !.invite = op[o].invite])
       ELSE UNCHANGED invite /\ Finish(o)
    /\ UNCHANGED <<tenant, member, offboarding, users, commands>> /\ Serve

RevokeInvitation(o) ==
    /\ op[o].pc = "apply" /\ RowsFree(op[o]) /\ op[o].kind = "revokeInvite"
    /\ IF Outcome(op[o]) = "REVOKED"
       THEN invite' = [invite EXCEPT ![op[o].invite].status = "REVOKED"] /\ Settle(o, NoCommand)
       ELSE UNCHANGED invite /\ Finish(o)
    /\ UNCHANGED <<tenant, member, offboarding, users, commands>> /\ Serve

Deliver(o) ==
    /\ op[o].pc = "deliver"
    /\ invite' = [invite EXCEPT ![op[o].invite].token =
                    IF invite[op[o].invite] = NoInvite THEN @ ELSE "SENT"]
    /\ Finish(o)
    /\ UNCHANGED <<tenant, member, offboarding, users, commands>> /\ Serve

\* The command stops, or its transaction is aborted.
Stop(o) ==
    /\ op[o].pc # "idle"
    /\ Finish(o)
    /\ UNCHANGED <<db, offboarding, users, commands>> /\ Serve
-----------------------------------------------------------------------------
(* The maintenance job.                                                    *)

\* A random id is never drawn again; an operator may send an id again.
Deleted(i) == IF i \in RandomIds THEN Erased ELSE NoInvite

Offboard(t) ==
    /\ offboarding[t] \in {"PENDING", "FAILED"}
    /\ ~Shared(t) /\ \A i \in Ids : invite[i].tenant = t => ~RowHeld(i)
    /\ tenant' = [tenant EXCEPT ![t] = "OFFBOARDED"]
    /\ member' = [p \in People |-> [member[p] EXCEPT ![t] = NoMember]]
    /\ invite' = [i \in Ids |-> IF invite[i].tenant = t THEN Deleted(i) ELSE invite[i]]
    /\ offboarding' = [offboarding EXCEPT ![t] = "OFFBOARDED_ACCESS_REVOKED"]
    /\ UNCHANGED <<users, client, requests, op, commands>>

\* Something in the savepoint fails: only the failure is recorded.
OffboardFails(t) ==
    /\ offboarding[t] = "PENDING"
    /\ offboarding' = [offboarding EXCEPT ![t] = "FAILED"]
    /\ UNCHANGED <<db, users, client, requests, op, commands>>

-----------------------------------------------------------------------------
Init ==
    \E w \in Worlds :
        /\ tenant = [t \in Tenants |-> IF w.owners[t] = {} THEN "NONE" ELSE "LIVE"]
        /\ member = [p \in People |-> [t \in Tenants |->
                        IF p \in w.owners[t] THEN Active("OWNER") ELSE NoMember]]
        /\ invite = w.invite
        /\ users = {p \in People : \/ \E t \in Tenants : p \in w.owners[t]
                               \/ \E i \in Ids : p = w.invite[i].expected}
        /\ offboarding = [t \in Tenants |-> "NONE"]
        /\ client = [c \in Clients |-> Idle] /\ requests = 0
        /\ op = [o \in Operators |-> NoCommand] /\ commands = 0

ClientStep(c) ==
    \/ \E ask \in Asks : Resolve(c, ask) \/ FindInvitation(c, ask)
    \/ CheckOwner(c) \/ RequestOffboarding(c)
    \/ ShareTenant(c) \/ InsertInvitation(c) \/ CreateInvitation(c)
    \/ LockInvitation(c) \/ UpdateInvitation(c)
    \/ LockIdentity(c) \/ Admit(c) \/ Join(c)
    \/ Abandon(c)

OperatorStep(o) ==
    \/ \E q \in Orders : Command(o, q)
    \/ Preflight(o) \/ Provision(o)
    \/ Bootstrap(o) \/ RevokeMembership(o) \/ Invite(o) \/ RevokeInvitation(o)
    \/ Deliver(o) \/ Stop(o)

Next ==
    \/ \E c \in Clients : ClientStep(c)
    \/ \E o \in Operators : OperatorStep(o)
    \/ \E t \in Tenants : Offboard(t) \/ OffboardFails(t)

Spec == Init /\ [][Next]_vars

-----------------------------------------------------------------------------
(* Properties.                                                             *)

\* The rows, requests and commands keep their shape; an invitation that exists
\* names its tenant, its creator and a role an invitation may offer.
TypeOK ==
    /\ tenant \in [Tenants -> TenantRow]
    /\ member \in [People -> [Tenants -> MemberRow]]
    /\ invite \in [Ids -> InviteRow]
    /\ offboarding \in [Tenants -> {"NONE", "PENDING", "FAILED", "OFFBOARDED_ACCESS_REVOKED"}]
    /\ users \subseteq People
    /\ client \in [Clients -> RequestState]
    /\ op \in [Operators -> CommandState]

\* Every identity belongs to one tenant at most, whatever invitations it holds
\* and consumes at the same time: findActiveMembershipsByIdentity would lock
\* out an identity with two (consume_assisted_invitation).
OneMembershipPerIdentity == \A p \in People : Cardinality(TenantsOf(member, p)) <= 1

\* A tenant that is not offboarded keeps an ACTIVE owner, also when its owners
\* revoke themselves or each other at the same time (revokeMembership).
TenantKeepsAnOwner == \A t \in Tenants : Live(t) => Owners(member, t) # {}

\* Once a tenant is offboarded nobody is its member and no invitation leads
\* into it, whatever was under way (process_pending_tenant_offboarding).
AccessEndsWithTenant ==
    \A t \in Tenants : tenant[t] = "OFFBOARDED" =>
        /\ \A p \in People : member[p][t] = NoMember
        /\ \A i \in Ids : invite[i].tenant # t

\* An invitation appears only while its creator owns its tenant: neither the
\* request's context nor the operator's preflight, which may be out of date,
\* is enough (the insert trigger, createProvisionedInvitation).
InvitationsAreAuthorized ==
    [][\A i \in Ids : invite[i].status # "PENDING" /\ invite'[i].status = "PENDING"
         => Live(invite'[i].tenant) /\ OwnerOf(member, invite'[i].by, invite'[i].tenant)]_vars

\* Memberships only come from bootstrapping an empty database, or from an
\* invitation to that identity, consumed in the same step and never again; a
\* revoked one never comes back before its tenant ends.
MembershipsAreInvited ==
    [][\A p \in People, t \in Tenants :
        member[p][t].status # "ACTIVE" /\ member'[p][t].status = "ACTIVE" =>
            /\ member[p][t].status = "NONE"
            /\ \/ \A u \in Tenants : tenant[u] = "NONE"
               \/ \E i \in Ids : /\ Consumable(i, p) /\ invite[i].tenant = t
                                 /\ invite'[i].status = "CONSUMED"
                                 /\ member'[p][t].role = invite[i].role]_vars

\* What the identity command answers without writing is true when it is said:
\* "already revoked" of a membership or an invitation that has no effect any
\* more, "reconciled" of an invitation that is still open for that identity.
AnswersAreCurrent ==
    [][\A o \in Operators :
        LET q == op[o] IN
        /\ RevokeMembership(o) /\ Outcome(q) = "ALREADY_REVOKED"
            => member[q.who][q.tenant].status = "REVOKED"
        /\ RevokeInvitation(o) /\ Outcome(q) = "ALREADY_REVOKED"
            => invite[q.invite].status = "REVOKED"
        /\ Invite(o) /\ Outcome(q) = "RECONCILED"
            => invite[q.invite].status = "PENDING" /\ invite[q.invite].expected = q.who]_vars
=============================================================================
