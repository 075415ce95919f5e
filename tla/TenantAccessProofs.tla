------------------------- MODULE TenantAccessProofs -------------------------
(***************************************************************************)
(* What holds of TenantAccess for any tenants, identities, invitations and *)
(* number of concurrent requests and commands: its types, its invariants   *)
(* and its action properties.                                              *)
(*                                                                         *)
(* None of the invariants is inductive.  IInv joins them with what a     *)
(* request knows under the locks it holds (RequestInv) and with what a     *)
(* command's snapshot still says of the rows as long as no commit doomed   *)
(* it (CommandInv).                                                        *)
(***************************************************************************)
EXTENDS TenantAccess, FiniteSetTheorems, TLAPS

\* What a request that is under way is about, by its phase.
Phase(q) == q.pc # "idle" =>
    /\ q.tenant \in Tenants /\ WellFormedAsk(q)
    /\ q.pc = "authorized" => q.kind # "consume"
    /\ q.pc = "checked" => q.kind \in {"create", "offboard"}
    /\ q.pc = "shared" => q.kind \in {"create", "consume"}
    /\ q.pc = "inserted" => q.kind = "create"
    /\ q.pc = "locked" => q.kind \in {"record", "revoke"}
    /\ q.pc \in {"found", "identified", "admitted"} => q.kind = "consume"

SharesTenant(q) == q.pc \in {"shared", "inserted", "admitted"}
HoldsIdentity(q) == q.kind = "consume" /\ q.pc \in {"identified", "shared", "admitted"}
HoldsRow(q) == q.pc \in {"locked", "admitted"}
Draws(q) == q.kind = "create" /\ q.pc # "idle"

\* What a request knows of the rows thanks to its locks; the id it drew is in
\* no row before its COMMIT.
Knows(q) ==
    /\ Phase(q)
    /\ SharesTenant(q) => Live(q.tenant)
    /\ q.pc # "idle" /\ q.kind = "offboard" => tenant[q.tenant] # "NONE"
    /\ Draws(q) => invite[q.invite].status = "NONE"
    /\ q.pc = "inserted" => OwnerOf(member, q.by, q.tenant)
    /\ HoldsRow(q) => invite[q.invite].tenant = q.tenant /\ invite[q.invite].status = "PENDING"
    /\ q.pc = "admitted" => invite[q.invite].expected = q.by /\ Admissible(q.by, q.invite)

\* Two requests exclude each other from identities, rows and drawn ids.
Apart(q, r) ==
    /\ ~(HoldsIdentity(q) /\ HoldsIdentity(r) /\ q.by = r.by)
    /\ ~(HoldsRow(q) /\ HoldsRow(r) /\ q.invite = r.invite)
    /\ ~(Draws(q) /\ Draws(r) /\ q.invite = r.invite)

\* Only a tenant that was there was asked to be offboarded.
Requested ==
    /\ offboarding \in [Tenants -> {"NONE", "PENDING", "FAILED", "OFFBOARDED_ACCESS_REVOKED"}]
    /\ \A t \in Tenants : offboarding[t] # "NONE" => tenant[t] # "NONE"

RequestInv ==
    /\ Requested
    /\ \A c \in Clients : Knows(client[c])
    /\ \A c, d \in Clients : c # d => Apart(client[c], client[d])

\* What a command is about, and what its snapshot says of the rows as long as
\* no commit doomed it: an empty database a bootstrap saw is empty; the owners
\* a revocation of an owner counted are owners, unless the tenant has ended.
Remembers(q) ==
    /\ q.pc \in {"preflight", "provision", "apply"} => WellFormedOrder(q)
    /\ q.pc \in {"preflight", "provision"} => q.kind = "invite"
    /\ q.pc = "deliver" => q.invite \in OperationIds
    /\ q.pc = "apply" => \A t \in Tenants : q.snap.tenant[t] # "NONE" => tenant[t] # "NONE"
    /\ /\ q.pc = "apply" /\ q.kind = "bootstrap" /\ ~q.doomed
       /\ \A t \in Tenants : q.snap.tenant[t] = "NONE"
       => \A t \in Tenants : tenant[t] = "NONE"
    /\ /\ q.pc = "apply" /\ q.kind = "revoke" /\ ~q.doomed
       /\ OwnerOf(q.snap.member, q.who, q.tenant)
       /\ q.snap.tenant[q.tenant] # "NONE" /\ Live(q.tenant)
       => Owners(q.snap.member, q.tenant) \subseteq Owners(member, q.tenant)

CommandInv == \A o \in Operators : Remembers(op[o])

\* Members and invitations are of tenants that are there; an operator's
\* invitation is never left erased; an identity has one row at most.
RowsInv ==
    /\ \A p \in People, t \in Tenants : member[p][t] # NoMember => Live(t)
    /\ \A i \in Ids : invite[i].tenant \in Tenants => tenant[invite[i].tenant] # "OFFBOARDED"
    /\ \A i \in OperationIds : invite[i].status # "DELETED"
    /\ \A p \in People, t, u \in Tenants :
        member[p][t].status # "NONE" /\ member[p][u].status # "NONE" => t = u

IInv ==
    /\ TypeOK /\ RowsInv /\ TenantKeepsAnOwner
    /\ RequestInv /\ CommandInv

-----------------------------------------------------------------------------
(* Rows.                                                                   *)

LEMMA MemberFacts ==
  /\ NoMember \in MemberRow
  /\ \A r \in Roles : /\ Active(r) \in MemberRow /\ Active(r) # NoMember
                      /\ Active(r).role = r /\ Active(r).status = "ACTIVE"
  /\ \A m \in MemberRow :
        /\ m.status \in {"NONE", "ACTIVE", "REVOKED"}
        /\ m.status = "NONE" <=> m = NoMember
        /\ m = Active("OWNER") <=> m.role = "OWNER" /\ m.status = "ACTIVE"
<1>1. ASSUME NEW m \in MemberRow
      PROVE  /\ m.status \in {"NONE", "ACTIVE", "REVOKED"}
             /\ m.status = "NONE" <=> m = NoMember
             /\ m = Active("OWNER") <=> m.role = "OWNER" /\ m.status = "ACTIVE"
  BY <1>1 DEF MemberRow, NoMember, Active, Roles
<1> QED
  BY <1>1 DEF MemberRow, NoMember, Active, Roles

LEMMA RevokedMember ==
  ASSUME NEW m \in MemberRow, m # NoMember
  PROVE  LET r == [m EXCEPT !.status = "REVOKED"]
         IN  r \in MemberRow /\ r.status = "REVOKED" /\ r # NoMember /\ r # Active("OWNER")
<1>1. m \in [role : Roles, status : {"ACTIVE", "REVOKED"}]
  BY DEF MemberRow
<1> QED
  BY <1>1 DEF MemberRow, NoMember, Active

LEMMA InviteFacts ==
  /\ NoInvite \in InviteRow /\ NoInvite.tenant = None /\ NoInvite.status = "NONE"
  /\ \A i \in Ids : Deleted(i) \in InviteRow /\ Deleted(i).tenant = None
                    /\ Deleted(i).status \in {"NONE", "DELETED"}
  /\ \A v \in InviteRow :
        /\ v \in Invitation \/ (v.status \in {"NONE", "DELETED"} /\ v.tenant = None)
        /\ v.status \in {"NONE", "DELETED"} <=> v \notin Invitation
        /\ v.tenant \in Tenants <=> v \in Invitation
        /\ v.status = "NONE" <=> v = NoInvite
<1>1. /\ Erased.tenant = None /\ Erased.status = "DELETED"
      /\ NoInvite.tenant = None /\ NoInvite.status = "NONE"
  BY DEF NoInvite, Erased
<1>2. ASSUME NEW v \in Invitation
      PROVE v.tenant \in Tenants /\ v.status \in {"PENDING", "CONSUMED", "REVOKED"}
  BY DEF Invitation
<1>3. None \notin Tenants
  BY AccessAssumption
<1>4. ASSUME NEW v \in InviteRow
      PROVE  /\ v \in Invitation \/ (v.status \in {"NONE", "DELETED"} /\ v.tenant = None)
             /\ v.status \in {"NONE", "DELETED"} <=> v \notin Invitation
             /\ v.tenant \in Tenants <=> v \in Invitation
             /\ v.status = "NONE" <=> v = NoInvite
  <2>1. v = NoInvite \/ v = Erased \/ v \in Invitation
    BY DEF InviteRow
  <2>2. CASE v = NoInvite
    <3>1. v.tenant = None /\ v.status = "NONE"
      BY <2>2, <1>1
    <3>2. v \notin Invitation
      BY <3>1, <1>2, <1>3
    <3> QED
      BY <3>1, <3>2, <2>2, <1>3
  <2>3. CASE v = Erased
    <3>1. v.tenant = None /\ v.status = "DELETED"
      BY <2>3, <1>1
    <3>2. v \notin Invitation
      BY <3>1, <1>2, <1>3
    <3> QED
      BY <3>1, <3>2, <1>1, <1>3
  <2>4. CASE v \in Invitation
    <3>1. v.tenant \in Tenants /\ v.status \in {"PENDING", "CONSUMED", "REVOKED"}
      BY <2>4, <1>2
    <3> QED
      BY <3>1, <2>4, <1>1
  <2> QED
    BY <2>1, <2>2, <2>3, <2>4
<1>5. \A i \in Ids : Deleted(i) = Erased \/ Deleted(i) = NoInvite
  BY DEF Deleted
<1>6. NoInvite \in InviteRow /\ Erased \in InviteRow
  BY DEF InviteRow
<1> QED
  BY <1>1, <1>4, <1>5, <1>6

LEMMA ChangedInvitation ==
  ASSUME NEW v \in Invitation
  PROVE  /\ v.role \in InvitedRoles
         /\ \A s \in {"PENDING", "CONSUMED", "REVOKED"} :
              LET w == [v EXCEPT !.status = s]
              IN  w \in Invitation /\ w.tenant = v.tenant /\ w.status = s /\ w.expected = v.expected
         /\ \A p \in People :
              LET w == [v EXCEPT !.expected = p]
              IN  w \in Invitation /\ w.tenant = v.tenant /\ w.status = v.status
         /\ LET w == [v EXCEPT !.token = "SENT"]
            IN  w \in Invitation /\ w.tenant = v.tenant /\ w.status = v.status
                /\ w.expected = v.expected /\ w.role = v.role
  BY DEF Invitation

LEMMA IdleFacts ==
  /\ Idle \in RequestState /\ Knows(Idle) /\ Idle.pc = "idle"
  /\ \A r : Apart(Idle, r) /\ Apart(r, Idle)
  BY DEF Idle, RequestState, Knows, Apart, Phase, SharesTenant, HoldsIdentity, HoldsRow, Draws

LEMMA NoCommandFacts ==
  /\ NoSnapshot \in Snapshots
  /\ NoCommand \in CommandState /\ Remembers(NoCommand) /\ NoCommand.pc = "idle"
<1>1. NoSnapshot \in Snapshots
  BY MemberFacts, InviteFacts DEF NoSnapshot, Snapshots, TenantRow
<1> QED
  BY <1>1 DEF NoCommand, CommandState, Remembers

-----------------------------------------------------------------------------
(* Steps that leave the rows alone.                                        *)

LEMMA KnowsFrame ==
  ASSUME NEW q, Knows(q), UNCHANGED <<tenant, member, invite>>
  PROVE  Knows(q)'
  BY DEF Knows, Live, OwnerOf, Admissible, TenantsOf

LEMMA RemembersFrame ==
  ASSUME NEW q, Remembers(q), UNCHANGED <<tenant, member>>
  PROVE  Remembers(q)'
  BY DEF Remembers, Live, Owners, OwnerOf

LEMMA CommandsFrame ==
  ASSUME CommandInv, UNCHANGED <<tenant, member, op>>
  PROVE  CommandInv'
<1>1. ASSUME NEW o \in Operators PROVE Remembers(op[o])'
  <2>1. PICK q : q = op[o] /\ q = op'[o]
    OBVIOUS
  <2>2. Remembers(q)'
    BY <2>1, RemembersFrame DEF CommandInv
  <2> QED
    BY <2>1, <2>2 DEF Remembers, WellFormedOrder, Live, Owners, OwnerOf
<1> QED
  BY <1>1 DEF CommandInv

LEMMA RowsFrame ==
  ASSUME RowsInv, TenantKeepsAnOwner, UNCHANGED <<tenant, member, invite>>
  PROVE  RowsInv' /\ TenantKeepsAnOwner'
  BY DEF RowsInv, TenantKeepsAnOwner, Live, Owners, OwnerOf

\* One request moves on to q, which is sound next to the others.
LEMMA ClientMoves ==
  ASSUME IInv, NEW c \in Clients, NEW q \in RequestState, Knows(q),
         \A d \in Clients : d # c => Apart(q, client[d]),
         client' = [client EXCEPT ![c] = q],
         UNCHANGED <<tenant, member, invite, users, op>>,
         Requested'
  PROVE  IInv'
<1>1. TypeOK'
  BY DEF IInv, TypeOK, Requested
<1>2. RowsInv' /\ TenantKeepsAnOwner'
  BY RowsFrame DEF IInv
<1>3. \A d \in Clients : client'[d] = IF d = c THEN q ELSE client[d]
  BY DEF IInv, TypeOK
<1>4. RequestInv'
  <2>1. ASSUME NEW d \in Clients PROVE Knows(client[d])'
    <3>1. PICK r : r = client'[d]
      OBVIOUS
    <3>2. Knows(r)
      BY <1>3, <3>1 DEF IInv, RequestInv
    <3>3. Knows(r)'
      BY <3>2, KnowsFrame
    <3> QED
      BY <3>1, <3>3 DEF Knows, Phase, WellFormedAsk, SharesTenant, HoldsRow, Draws,
                        Live, OwnerOf, Admissible, TenantsOf
  <2>2. ASSUME NEW d \in Clients, NEW e \in Clients, d # e
        PROVE  Apart(client[d], client[e])'
    BY <1>3, <2>2 DEF IInv, RequestInv, Apart, HoldsIdentity, HoldsRow, Draws
  <2> QED
    BY <2>1, <2>2 DEF RequestInv
<1>5. CommandInv'
  BY CommandsFrame DEF IInv
<1> QED
  BY <1>1, <1>2, <1>4, <1>5 DEF IInv

\* A request that ends.
LEMMA ClientEnds ==
  ASSUME IInv, NEW c \in Clients, End(c), UNCHANGED <<tenant, member, invite, users, op>>,
         Requested'
  PROVE  IInv'
  BY ClientMoves, IdleFacts DEF End

LEMMA AtPhase ==
  ASSUME NEW q \in RequestState, NEW pc
  PROVE  LET r == [q EXCEPT !.pc = pc]
         IN  /\ r.pc = pc /\ r.kind = q.kind /\ r.by = q.by /\ r.tenant = q.tenant
             /\ r.invite = q.invite /\ r.role = q.role /\ r.who = q.who
  BY DEF RequestState

LEMMA ResolveStep ==
  ASSUME IInv, NEW c \in Clients, NEW ask \in Asks, Resolve(c, ask)
  PROVE  IInv'
<1>1. PICK t \in Tenants :
        /\ OwnerOf(member, ask.by, t)
        /\ client' = [client EXCEPT ![c] = [ask EXCEPT !.pc = "authorized", !.tenant = t]]
  BY DEF Resolve
<1> DEFINE q == [ask EXCEPT !.pc = "authorized", !.tenant = t]
<1>2. ask \in RequestState /\ WellFormedAsk(ask)
  BY AccessAssumption
<1>3. /\ q \in RequestState /\ q.pc = "authorized" /\ q.tenant = t
      /\ q.kind = ask.kind /\ q.invite = ask.invite /\ q.by = ask.by
      /\ q.role = ask.role /\ q.who = ask.who
  BY <1>2 DEF RequestState
<1>4. client' = [client EXCEPT ![c] = q]
  BY <1>1
<1> HIDE DEF q
<1>8. tenant[t] # "NONE"
  BY <1>1, <1>2, MemberFacts DEF WellFormedAsk, OwnerOf, Roles, IInv, RowsInv, Live
<1>5. Knows(q)
  BY <1>2, <1>3, <1>8 DEF Resolve, Knows, Phase, SharesTenant, HoldsRow, Draws, WellFormedAsk, Fresh
<1>6. \A d \in Clients : d # c => Apart(q, client[d])
  BY <1>3 DEF Resolve, Fresh, Apart, HoldsIdentity, HoldsRow, Draws
<1>7. /\ UNCHANGED <<tenant, member, invite, users, op>>
      /\ Requested'
  BY DEF Resolve, IInv, TypeOK, RequestInv, Requested, db, Quiet
<1> QED
  BY <1>3, <1>4, <1>5, <1>6, <1>7, ClientMoves

LEMMA FindInvitationStep ==
  ASSUME IInv, NEW c \in Clients, NEW ask \in Asks, FindInvitation(c, ask)
  PROVE  IInv'
<1> DEFINE t == invite[ask.invite].tenant
           q == [ask EXCEPT !.pc = "found", !.tenant = t]
<1>1. ask \in RequestState /\ WellFormedAsk(ask) /\ ask.kind = "consume" /\ ask.invite \in Ids
  BY AccessAssumption DEF FindInvitation, WellFormedAsk
<1>2. t \in Tenants
  <2>1. invite[ask.invite] \in InviteRow /\ invite[ask.invite].status = "PENDING"
    BY <1>1 DEF IInv, TypeOK, FindInvitation, Consumable
  <2> QED
    BY <2>1, InviteFacts
<1>3. client' = [client EXCEPT ![c] = q]
  BY DEF FindInvitation
<1> HIDE DEF t
<1>4. /\ q \in RequestState /\ q.pc = "found" /\ q.tenant = t
      /\ q.kind = ask.kind /\ q.invite = ask.invite /\ q.by = ask.by
      /\ q.role = ask.role /\ q.who = ask.who
  BY <1>1, <1>2 DEF RequestState
<1> HIDE DEF q
<1>5. Knows(q) /\ \A d \in Clients : d # c => Apart(q, client[d])
  BY <1>1, <1>2, <1>4
  DEF Knows, Phase, SharesTenant, HoldsRow, Draws, WellFormedAsk, Apart, HoldsIdentity
<1>7. /\ UNCHANGED <<tenant, member, invite, users, op>>
      /\ Requested'
  BY DEF FindInvitation, IInv, TypeOK, RequestInv, Requested, db, Quiet
<1>8. \E r \in RequestState : /\ Knows(r) /\ client' = [client EXCEPT ![c] = r]
                              /\ \A d \in Clients : d # c => Apart(r, client[d])
  BY <1>3, <1>4, <1>5
<1> QED
  BY <1>7, <1>8, ClientMoves

\* The phases a request reaches without changing a row.
LEMMA PhaseStep ==
  ASSUME IInv, NEW c \in Clients,
         \/ CheckOwner(c) \/ ShareTenant(c) \/ InsertInvitation(c)
         \/ LockInvitation(c) \/ LockIdentity(c) \/ Admit(c)
  PROVE  IInv'
<1> DEFINE r(pc) == [client[c] EXCEPT !.pc = pc]
<1>1. client[c] \in RequestState /\ Knows(client[c])
  BY DEF IInv, TypeOK, RequestInv
<1>2. \A d \in Clients : d # c => Apart(client[c], client[d])
  BY DEF IInv, RequestInv
<1>3. ASSUME NEW pc
      PROVE  /\ r(pc).pc = pc /\ r(pc).kind = client[c].kind /\ r(pc).by = client[c].by
             /\ r(pc).tenant = client[c].tenant /\ r(pc).invite = client[c].invite
             /\ r(pc).role = client[c].role /\ r(pc).who = client[c].who
  <2>1. PICK q \in RequestState : q = client[c]
    BY <1>1
  <2> QED
    BY <2>1, AtPhase
<1>4. /\ UNCHANGED <<tenant, member, invite, offboarding, users, op>>
      /\ Requested'
  BY DEF CheckOwner, ShareTenant, InsertInvitation, LockInvitation, LockIdentity, Admit,
         IInv, TypeOK, RequestInv, Requested, db, Quiet
<1>5. ASSUME NEW pc \in {"checked", "identified", "shared", "inserted", "locked", "admitted"},
             Goto(c, pc), Knows(r(pc)), \A d \in Clients : d # c => Apart(r(pc), client[d])
      PROVE  IInv'
  <2>1. r(pc) \in RequestState /\ client' = [client EXCEPT ![c] = r(pc)]
    BY <1>1, <1>5 DEF RequestState, Goto
  <2> HIDE DEF r
  <2>2. \A q \in RequestState : /\ Knows(q) /\ client' = [client EXCEPT ![c] = q]
                                /\ \A d \in Clients : d # c => Apart(q, client[d])
                                => IInv'
    BY <1>4, ClientMoves
  <2> QED
    BY <1>5, <2>1, <2>2
<1>6. ASSUME End(c) PROVE IInv'
  BY <1>4, <1>6, ClientEnds
<1> HIDE DEF r
<1>7. CASE CheckOwner(c)
  <2>1. CASE Goto(c, "checked")
    BY <1>1, <1>2, <1>3, <1>5, <1>7, <2>1
    DEF CheckOwner, Knows, Phase, SharesTenant, HoldsRow, Draws, WellFormedAsk, Apart, HoldsIdentity
  <2> QED
    BY <1>6, <1>7, <2>1 DEF CheckOwner
<1>8. CASE ShareTenant(c)
  <2>1. CASE Goto(c, "shared") /\ Live(client[c].tenant)
    BY <1>1, <1>2, <1>3, <1>5, <1>8, <2>1
    DEF ShareTenant, Knows, Phase, SharesTenant, HoldsRow, Draws, WellFormedAsk, Apart, HoldsIdentity
  <2> QED
    BY <1>6, <1>8, <2>1 DEF ShareTenant
<1>9. CASE InsertInvitation(c)
  <2>1. CASE Goto(c, "inserted") /\ TriggerAllows(c)
    BY <1>1, <1>2, <1>3, <1>5, <1>9, <2>1
    DEF InsertInvitation, TriggerAllows, Knows, Phase, SharesTenant, HoldsRow, Draws,
        WellFormedAsk, Apart, HoldsIdentity
  <2> QED
    BY <1>6, <1>9, <2>1 DEF InsertInvitation
<1>10. CASE LockInvitation(c)
  <2>1. CASE Goto(c, "locked") /\ Updatable(c)
    BY <1>1, <1>2, <1>3, <1>5, <1>10, <2>1
    DEF LockInvitation, Updatable, RowHeld, Knows, Phase, SharesTenant, HoldsRow, Draws,
        WellFormedAsk, Apart, HoldsIdentity
  <2> QED
    BY <1>6, <1>10, <2>1 DEF LockInvitation
<1>11. CASE LockIdentity(c)
  BY <1>1, <1>2, <1>3, <1>5, <1>11
  DEF LockIdentity, IdentityHeld, Knows, Phase, SharesTenant, HoldsRow, Draws,
      WellFormedAsk, Apart, HoldsIdentity
<1>12. CASE Admit(c)
  <2>1. CASE /\ Goto(c, "admitted")
             /\ invite[client[c].invite].tenant = client[c].tenant
             /\ Consumable(client[c].invite, client[c].by)
             /\ Admissible(client[c].by, client[c].invite)
    BY <1>1, <1>2, <1>3, <1>5, <1>12, <2>1
    DEF Admit, Consumable, RowHeld, Knows, Phase, SharesTenant, HoldsRow, Draws,
        WellFormedAsk, Apart, HoldsIdentity
  <2> QED
    BY <1>6, <1>12, <2>1 DEF Admit
<1> QED
  BY <1>7, <1>8, <1>9, <1>10, <1>11, <1>12

LEMMA RequestOffboardingStep ==
  ASSUME IInv, NEW c \in Clients, RequestOffboarding(c) \/ Abandon(c)
  PROVE  IInv'
<1>1. client[c] \in RequestState /\ Knows(client[c])
  BY DEF IInv, TypeOK, RequestInv
<1>2. /\ UNCHANGED <<tenant, member, invite, users, op>> /\ End(c)
      /\ Requested'
  BY <1>1 DEF RequestOffboarding, Abandon, IInv, RequestInv, Requested, db, Quiet, Knows, Phase
<1> QED
  BY <1>2, ClientEnds

-----------------------------------------------------------------------------
(* Steps of a request that change a row: it holds the row, or drew its id. *)

\* What the others know stays true.
LEMMA OthersKnow ==
  ASSUME IInv, NEW c \in Clients, NEW d \in Clients, d # c, NEW v,
         Draws(client[c]) \/ HoldsRow(client[c]),
         client[c].invite \in Ids, client[d].by \in People, client[d].tenant \in Tenants,
         invite' = [invite EXCEPT ![client[c].invite] = v],
         UNCHANGED tenant,
         \A p \in People, t \in Tenants : OwnerOf(member, p, t) => OwnerOf(member, p, t)',
         HoldsIdentity(client[d]) => member'[client[d].by] = member[client[d].by],
         client'[d] = client[d]
  PROVE  Knows(client[d])'
<1>1. Knows(client[c]) /\ Knows(client[d]) /\ Apart(client[d], client[c])
  BY DEF IInv, RequestInv
<1>2. Draws(client[d]) \/ HoldsRow(client[d]) =>
        client[d].invite # client[c].invite
  BY <1>1 DEF Knows, Apart, Draws, HoldsRow
<1>3. invite \in [Ids -> InviteRow]
  BY DEF IInv, TypeOK
<1>4. Draws(client[d]) \/ HoldsRow(client[d]) => client[d].invite \in Ids
  BY <1>1 DEF Knows, Phase, WellFormedAsk, Draws, HoldsRow, Ids
<1>5. Draws(client[d]) \/ HoldsRow(client[d]) => invite'[client[d].invite] = invite[client[d].invite]
  BY <1>2, <1>3, <1>4
<1>6. client[d].pc = "admitted" => HoldsRow(client[d]) /\ HoldsIdentity(client[d])
  BY <1>1 DEF Knows, Phase, HoldsRow, HoldsIdentity
<1> QED
  BY <1>1, <1>5, <1>6
  DEF Knows, Phase, WellFormedAsk, SharesTenant, Draws, HoldsRow, Live, OwnerOf,
      Admissible, TenantsOf

LEMMA RequestsAfterward ==
  ASSUME IInv, NEW c \in Clients, End(c), UNCHANGED <<tenant, offboarding>>,
         \A d \in Clients : d # c => (client'[d] = client[d] => Knows(client[d])')
  PROVE  RequestInv'
<1>1. \A d \in Clients : client'[d] = IF d = c THEN Idle ELSE client[d]
  BY DEF IInv, TypeOK, End
<1>2. ASSUME NEW d \in Clients PROVE Knows(client[d])'
  <2>1. CASE d = c
    BY <1>1, <2>1, IdleFacts DEF Knows, Phase, SharesTenant, Draws, HoldsRow, Idle
  <2> QED
    BY <1>1, <2>1
<1>3. ASSUME NEW d \in Clients, NEW e \in Clients, d # e PROVE Apart(client[d], client[e])'
  BY <1>1, <1>3 DEF IInv, RequestInv, Apart, HoldsIdentity, HoldsRow, Draws, Idle
<1> QED
  BY <1>2, <1>3 DEF IInv, RequestInv, Requested

LEMMA CreateInvitationStep ==
  ASSUME IInv, NEW c \in Clients, CreateInvitation(c)
  PROVE  IInv'
<1>1. /\ client[c] \in RequestState /\ Knows(client[c])
      /\ client[c].pc = "inserted" /\ client[c].kind = "create"
      /\ client[c].invite \in Ids /\ client[c].tenant \in Tenants /\ client[c].by \in People
      /\ client[c].role \in InvitedRoles /\ Live(client[c].tenant)
  BY DEF CreateInvitation, IInv, TypeOK, RequestInv, Knows, Phase, WellFormedAsk, Ids, SharesTenant
<1>2. PICK token \in {"SENT", "LOST"} :
        invite' = [invite EXCEPT ![client[c].invite] =
            [tenant |-> client[c].tenant, role |-> client[c].role, status |-> "PENDING",
             expected |-> None, by |-> client[c].by, token |-> token]]
  BY DEF CreateInvitation
<1> DEFINE v == [tenant |-> client[c].tenant, role |-> client[c].role, status |-> "PENDING",
                 expected |-> None, by |-> client[c].by, token |-> token]
<1>3. v \in Invitation /\ v.tenant = client[c].tenant
  BY <1>1 DEF Invitation
<1>4. invite' = [invite EXCEPT ![client[c].invite] = v]
  BY <1>2
<1> HIDE DEF v
<1>5. UNCHANGED <<tenant, member, offboarding, users, op>> /\ End(c)
  BY DEF CreateInvitation, Quiet
<1>6. TypeOK'
  BY <1>3, <1>4, <1>5, IdleFacts DEF IInv, TypeOK, End, InviteRow
<1>7. RowsInv' /\ TenantKeepsAnOwner'
  <2>1. v.status # "DELETED"
    BY <1>3 DEF Invitation
  <2> QED
    BY <1>1, <1>3, <1>4, <1>5, <2>1
    DEF IInv, TypeOK, RowsInv, TenantKeepsAnOwner, Live, Owners, OwnerOf, Ids
<1>8. RequestInv'
  <2>1. ASSUME NEW d \in Clients, d # c, client'[d] = client[d] PROVE Knows(client[d])'
    <3>1. CASE client[d].pc = "idle"
      BY <2>1, <3>1 DEF Knows, Phase, SharesTenant, Draws, HoldsRow
    <3>2. CASE client[d].pc # "idle"
      <4>1. client[d].by \in People /\ client[d].tenant \in Tenants
        BY <3>2 DEF IInv, RequestInv, Knows, Phase, WellFormedAsk
      <4> QED
        BY <1>1, <1>4, <1>5, <2>1, <4>1, OthersKnow DEF Draws, OwnerOf
    <3> QED
      BY <3>1, <3>2
  <2> QED
    BY <1>5, <2>1, RequestsAfterward
<1> QED
  BY <1>5, <1>6, <1>7, <1>8, CommandsFrame DEF IInv

LEMMA UpdateInvitationStep ==
  ASSUME IInv, NEW c \in Clients, UpdateInvitation(c)
  PROVE  IInv'
<1> DEFINE i == client[c].invite
           v == IF client[c].kind = "record" THEN [invite[i] EXCEPT !.expected = client[c].who]
                ELSE [invite[i] EXCEPT !.status = "REVOKED"]
<1>1. /\ client[c] \in RequestState /\ Knows(client[c]) /\ HoldsRow(client[c])
      /\ client[c].kind \in {"record", "revoke"} /\ i \in Ids
      /\ client[c].kind = "record" => client[c].who \in People
      /\ invite[i].status = "PENDING" /\ invite[i] \in InviteRow
  BY DEF UpdateInvitation, IInv, TypeOK, RequestInv, Knows, Phase, WellFormedAsk, Ids, HoldsRow
<1>2. invite[i] \in Invitation
  BY <1>1, InviteFacts
<1>3. v \in Invitation /\ v.tenant = invite[i].tenant
  <2>1. PICK w \in Invitation : w = invite[i]
    BY <1>2
  <2> QED
    BY <1>1, <2>1, ChangedInvitation, ZenonT(40)
<1>4. invite' = [invite EXCEPT ![i] = v]
  BY DEF UpdateInvitation
<1> HIDE DEF v
<1>5. UNCHANGED <<tenant, member, offboarding, users, op>> /\ End(c)
  BY DEF UpdateInvitation, Quiet
<1>6. TypeOK'
  BY <1>3, <1>4, <1>5, IdleFacts DEF IInv, TypeOK, End, InviteRow
<1>7. RowsInv' /\ TenantKeepsAnOwner'
  <2>1. v.status # "DELETED"
    BY <1>3 DEF Invitation
  <2> QED
    BY <1>1, <1>3, <1>4, <1>5, <2>1
    DEF IInv, TypeOK, RowsInv, TenantKeepsAnOwner, Live, Owners, OwnerOf, Ids
<1>8. RequestInv'
  <2>1. ASSUME NEW d \in Clients, d # c, client'[d] = client[d] PROVE Knows(client[d])'
    <3>1. CASE client[d].pc = "idle"
      BY <2>1, <3>1 DEF Knows, Phase, SharesTenant, Draws, HoldsRow
    <3>2. CASE client[d].pc # "idle"
      <4>1. client[d].by \in People /\ client[d].tenant \in Tenants
        BY <3>2 DEF IInv, RequestInv, Knows, Phase, WellFormedAsk
      <4> QED
        BY <1>1, <1>4, <1>5, <2>1, <4>1, OthersKnow DEF OwnerOf
    <3> QED
      BY <3>1, <3>2
  <2> QED
    BY <1>5, <2>1, RequestsAfterward
<1> QED
  BY <1>5, <1>6, <1>7, <1>8, CommandsFrame DEF IInv

\* What a command remembers survives a step that ends no ownership and makes
\* no tenant.
LEMMA OwnersStay ==
  ASSUME CommandInv, UNCHANGED <<tenant, op>>,
         \A p \in People, t \in Tenants : OwnerOf(member, p, t) => OwnerOf(member, p, t)'
  PROVE  CommandInv'
<1>1. ASSUME NEW o \in Operators PROVE Remembers(op[o])'
  BY DEF CommandInv, Remembers, WellFormedOrder, Live, Owners, OwnerOf
<1> QED
  BY <1>1 DEF CommandInv

\* The identity that joins had no row, or exactly the membership it gets,
\* which is not an ownership.
LEMMA JoinStep ==
  ASSUME IInv, NEW c \in Clients, Join(c)
  PROVE  IInv'
<1> DEFINE i == client[c].invite
           p == client[c].by
           t == client[c].tenant
           v == [invite[i] EXCEPT !.status = "CONSUMED"]
           r == Active(invite[i].role)
<1>1. /\ client[c] \in RequestState /\ Knows(client[c]) /\ HoldsRow(client[c])
      /\ HoldsIdentity(client[c]) /\ client[c].pc = "admitted"
      /\ i \in Ids /\ p \in People /\ t \in Tenants /\ Live(t)
      /\ invite[i].status = "PENDING" /\ invite[i].tenant = t /\ invite[i] \in InviteRow
      /\ Admissible(p, i)
  BY DEF Join, IInv, TypeOK, RequestInv, Knows, Phase, WellFormedAsk, Ids, HoldsRow,
         HoldsIdentity, SharesTenant
<1>2. invite[i] \in Invitation
  BY <1>1, InviteFacts
<1>3. v \in Invitation /\ v.tenant = invite[i].tenant /\ invite[i].role \in Roles \ {"OWNER"}
  <2>1. PICK w \in Invitation : w = invite[i]
    BY <1>2
  <2> QED
    BY <2>1, ChangedInvitation, AccessAssumption
<1>4. r \in MemberRow /\ r # NoMember /\ r # Active("OWNER")
  BY <1>3, MemberFacts DEF Roles
<1>5. /\ invite' = [invite EXCEPT ![i] = v]
      /\ member' = [member EXCEPT ![p][t] = r]
      /\ UNCHANGED <<tenant, offboarding, users, op>> /\ End(c)
  BY DEF Join, Quiet
<1>6. \A u \in Tenants : u # t => member[p][u].status = "NONE"
  BY <1>1 DEF Admissible, TenantsOf
<1>7. member[p][t] # Active("OWNER")
  <2>1. member[p][t].status = "NONE" \/ member[p][t] = r
    BY <1>1 DEF Admissible, TenantsOf
  <2> QED
    BY <1>4, <2>1, MemberFacts DEF Active
<1> HIDE DEF v, r
<1>8. /\ member' \in [People -> [Tenants -> MemberRow]]
      /\ \A q \in People, u \in Tenants :
            member'[q][u] = IF q = p /\ u = t THEN r ELSE member[q][u]
      /\ \A q \in People : q # p => member'[q] = member[q]
  BY <1>1, <1>4, <1>5 DEF IInv, TypeOK
<1>9. \A q \in People, u \in Tenants : OwnerOf(member, q, u) => OwnerOf(member, q, u)'
  BY <1>7, <1>8 DEF OwnerOf
<1>10. TypeOK'
  BY <1>3, <1>5, <1>8, IdleFacts DEF IInv, TypeOK, End, InviteRow
<1>11. RowsInv' /\ TenantKeepsAnOwner'
  <2>1. \A i1 \in Ids : invite'[i1].tenant = invite[i1].tenant
    BY <1>3, <1>5 DEF IInv, TypeOK
  <2>2. RowsInv'
    <3>1. \A q \in People, u \in Tenants : (member[q][u] # NoMember)' => Live(u)'
      BY <1>1, <1>5, <1>8 DEF IInv, RowsInv, Live
    <3>2. \A j \in Ids : (invite[j].tenant \in Tenants)' => (tenant[invite[j].tenant] # "OFFBOARDED")'
      BY <2>1, <1>5 DEF IInv, RowsInv
    <3>3. ASSUME NEW q \in People, NEW u \in Tenants, NEW w \in Tenants,
                 member'[q][u].status # "NONE", member'[q][w].status # "NONE"
          PROVE  u = w
      BY <1>6, <1>8, <3>3 DEF IInv, RowsInv
    <3>4. \A j \in OperationIds : (invite[j].status # "DELETED")'
      BY <1>3, <1>5 DEF IInv, TypeOK, RowsInv, Invitation, Ids
    <3> QED
      BY <3>1, <3>2, <3>3, <3>4 DEF RowsInv
  <2>3. TenantKeepsAnOwner'
    BY <1>5, <1>9 DEF IInv, TenantKeepsAnOwner, Live, Owners
  <2> QED
    BY <2>2, <2>3
<1>12. RequestInv'
  <2>1. ASSUME NEW d \in Clients, d # c, client'[d] = client[d] PROVE Knows(client[d])'
    <3>1. CASE client[d].pc = "idle"
      BY <2>1, <3>1 DEF Knows, Phase, SharesTenant, Draws, HoldsRow
    <3>2. CASE client[d].pc # "idle"
      <4>1. client[d].by \in People /\ client[d].tenant \in Tenants
        BY <3>2 DEF IInv, RequestInv, Knows, Phase, WellFormedAsk
      <4>2. HoldsIdentity(client[d]) => client[d].by # p
        BY <1>1, <2>1 DEF IInv, RequestInv, Apart
      <4> QED
        BY <1>1, <1>5, <1>8, <1>9, <2>1, <4>1, <4>2, OthersKnow
    <3> QED
      BY <3>1, <3>2
  <2> QED
    BY <1>5, <2>1, RequestsAfterward
<1>13. CommandInv'
  BY <1>5, <1>9, OwnersStay DEF IInv
<1> QED
  BY <1>10, <1>11, <1>12, <1>13 DEF IInv

LEMMA ClientSteps ==
  ASSUME IInv, NEW c \in Clients, ClientStep(c)
  PROVE  IInv'
  BY ResolveStep, FindInvitationStep, PhaseStep, RequestOffboardingStep, CreateInvitationStep,
     UpdateInvitationStep, JoinStep
  DEF ClientStep

-----------------------------------------------------------------------------
(* The requests next to a step of an operator or of the maintenance job.   *)

\* Locks of the requests keep what they know true.
LEMMA RequestsKeep ==
  ASSUME IInv, UNCHANGED client, Requested',
         \A t \in Tenants : tenant[t] # "NONE" => tenant'[t] # "NONE",
         \A t \in Tenants : Shared(t) =>
            tenant'[t] = tenant[t] /\ \A p \in People : member'[p][t] = member[p][t],
         \A s \in Tenants : Shared(s) => \A p \in People, t \in Tenants :
            member[p][t].status = "NONE" => member'[p][t].status = "NONE",
         \A i \in Ids : RowHeld(i) =>
            /\ invite'[i].tenant = invite[i].tenant /\ invite'[i].status = invite[i].status
            /\ invite'[i].expected = invite[i].expected /\ invite'[i].role = invite[i].role,
         \A i \in RandomIds : invite[i].status = "NONE" => invite'[i].status = "NONE"
  PROVE  RequestInv'
<1>1. ASSUME NEW d \in Clients PROVE Knows(client[d])'
  <2>1. Knows(client[d]) /\ client[d] \in RequestState /\ client'[d] = client[d]
    BY DEF IInv, TypeOK, RequestInv
  <2>2. CASE client[d].pc = "idle"
    BY <2>1, <2>2 DEF Knows, Phase, SharesTenant, Draws, HoldsRow
  <2>3. CASE client[d].pc # "idle"
    <3>1. client[d].by \in People /\ client[d].tenant \in Tenants
      BY <2>1, <2>3 DEF Knows, Phase, WellFormedAsk
    <3>2. SharesTenant(client[d]) =>
            /\ Shared(client[d].tenant) /\ Live(client[d].tenant)'
            /\ \A p \in People : member'[p][client[d].tenant] = member[p][client[d].tenant]
      BY <2>1, <3>1 DEF Knows, SharesTenant, Shared, Live
    <3>3. HoldsRow(client[d]) =>
            /\ client[d].invite \in Ids
            /\ invite'[client[d].invite].tenant = invite[client[d].invite].tenant
            /\ invite'[client[d].invite].status = invite[client[d].invite].status
            /\ invite'[client[d].invite].expected = invite[client[d].invite].expected
            /\ invite'[client[d].invite].role = invite[client[d].invite].role
      <4>1. HoldsRow(client[d]) => client[d].invite \in Ids /\ RowHeld(client[d].invite)
        BY <2>1 DEF Knows, Phase, WellFormedAsk, HoldsRow, RowHeld
      <4> QED
        BY <4>1
    <3>4. Draws(client[d]) => invite'[client[d].invite].status = "NONE"
      BY <2>1 DEF Knows, Phase, WellFormedAsk, Draws
    <3>5. client[d].pc = "inserted" => OwnerOf(member, client[d].by, client[d].tenant)'
      BY <2>1, <3>1, <3>2 DEF Knows, SharesTenant, OwnerOf
    <3>6. client[d].pc = "admitted" => Admissible(client[d].by, client[d].invite)'
      <4>1. SUFFICES ASSUME client[d].pc = "admitted"
                     PROVE  Admissible(client[d].by, client[d].invite)'
        OBVIOUS
      <4>2. /\ Shared(client[d].tenant) /\ invite[client[d].invite].tenant = client[d].tenant
            /\ Admissible(client[d].by, client[d].invite)
            /\ HoldsRow(client[d]) /\ SharesTenant(client[d])
        BY <2>1, <3>2, <4>1 DEF Knows, SharesTenant, HoldsRow
      <4>3. \A t \in Tenants : t # client[d].tenant =>
                member[client[d].by][t].status = "NONE" /\ member'[client[d].by][t].status = "NONE"
        BY <3>1, <4>2 DEF Admissible, TenantsOf
      <4>4. member'[client[d].by][client[d].tenant] = member[client[d].by][client[d].tenant]
        BY <3>1, <3>2, <4>2
      <4>5. TenantsOf(member, client[d].by)' = TenantsOf(member, client[d].by)
        BY <2>1, <3>1, <4>3, <4>4 DEF TenantsOf
      <4> QED
        BY <2>1, <3>3, <4>2, <4>4, <4>5 DEF Admissible
    <3> QED
      BY <2>1, <3>1, <3>2, <3>3, <3>4, <3>5, <3>6
      DEF Knows, Phase, WellFormedAsk, SharesTenant, Draws, HoldsRow
  <2> QED
    BY <2>2, <2>3
<1> QED
  BY <1>1 DEF IInv, RequestInv, Apart, HoldsIdentity, HoldsRow, Draws

LEMMA RequestedStays ==
  ASSUME IInv, UNCHANGED offboarding,
         \A t \in Tenants : tenant[t] # "NONE" => tenant'[t] # "NONE"
  PROVE  Requested'
  BY DEF IInv, RequestInv, Requested

\* A command goes on, or ends, without changing a row.
LEMMA CommandMoves ==
  ASSUME IInv, NEW o \in Operators, NEW q \in CommandState, Remembers(q),
         op' = [op EXCEPT ![o] = q], users' \subseteq People,
         UNCHANGED <<tenant, member, invite, offboarding, client>>
  PROVE  IInv'
<1>1. TypeOK'
  BY DEF IInv, TypeOK
<1>2. RowsInv' /\ TenantKeepsAnOwner'
  BY RowsFrame DEF IInv
<1>3. RequestInv'
  BY RequestsKeep, RequestedStays
<1>4. CommandInv'
  <2>1. ASSUME NEW x \in Operators PROVE Remembers(op[x])'
    <3>1. PICK r : r = op'[x] /\ Remembers(r)
      BY DEF IInv, TypeOK, CommandInv
    <3>2. Remembers(r)'
      BY <3>1, RemembersFrame
    <3> QED
      BY <3>1, <3>2 DEF Remembers, WellFormedOrder, Live, Owners, OwnerOf
  <2> QED
    BY <2>1 DEF CommandInv
<1> QED
  BY <1>1, <1>2, <1>3, <1>4 DEF IInv

LEMMA CommandEnds ==
  ASSUME IInv, NEW o \in Operators, Finish(o), users' = users,
         UNCHANGED <<tenant, member, invite, offboarding, client>>
  PROVE  IInv'
<1>1. users' \subseteq People
  BY DEF IInv, TypeOK
<1> QED
  BY <1>1, NoCommandFacts, CommandMoves DEF Finish

LEMMA CommandStep ==
  ASSUME IInv, NEW o \in Operators, NEW q \in Orders, Command(o, q)
  PROVE  IInv'
<1> DEFINE r == [q EXCEPT !.snap = Snapshot,
                          !.pc = IF q.kind = "invite" THEN "preflight" ELSE "apply"]
<1>1. q \in CommandState /\ WellFormedOrder(q) /\ ~q.doomed
  BY AccessAssumption
<1>2. Snapshot \in Snapshots
  BY DEF IInv, TypeOK, Snapshot, Snapshots
<1>3. /\ r \in CommandState /\ r.snap = Snapshot /\ r.pc \in {"preflight", "apply"}
      /\ r.pc = "preflight" => q.kind = "invite"
      /\ r.kind = q.kind /\ r.tenant = q.tenant /\ r.actor = q.actor /\ r.who = q.who
      /\ r.invite = q.invite /\ r.role = q.role /\ r.doomed = q.doomed
  BY <1>1, <1>2 DEF CommandState
<1>4. op' = [op EXCEPT ![o] = r]
  BY DEF Command
<1> HIDE DEF r
<1>5. Remembers(r)
  BY <1>1, <1>3 DEF Remembers, WellFormedOrder, Snapshot, Owners, OwnerOf
<1>6. users' \subseteq People /\ UNCHANGED <<tenant, member, invite, offboarding, client>>
  BY DEF Command, IInv, TypeOK, Serve, db
<1>7. \A x \in CommandState : Remembers(x) /\ op' = [op EXCEPT ![o] = x] => IInv'
  BY <1>6, CommandMoves
<1> QED
  BY <1>3, <1>4, <1>5, <1>7

LEMMA PreflightStep ==
  ASSUME IInv, NEW o \in Operators, Preflight(o)
  PROVE  IInv'
<1> DEFINE r == [op[o] EXCEPT !.pc = "provision", !.snap = NoSnapshot]
<1>1. op[o] \in CommandState /\ Remembers(op[o]) /\ op[o].pc = "preflight"
  BY DEF IInv, TypeOK, CommandInv, Preflight
<1>2. /\ r \in CommandState /\ r.pc = "provision"
      /\ r.kind = op[o].kind /\ r.tenant = op[o].tenant /\ r.actor = op[o].actor
      /\ r.who = op[o].who /\ r.invite = op[o].invite /\ r.role = op[o].role
  BY <1>1, NoCommandFacts DEF CommandState
<1>3. op' = [op EXCEPT ![o] = r] \/ Finish(o)
  BY DEF Preflight
<1> HIDE DEF r
<1>4. Remembers(r)
  BY <1>1, <1>2 DEF Remembers, WellFormedOrder
<1>5. /\ users' \subseteq People /\ users' = users
      /\ UNCHANGED <<tenant, member, invite, offboarding, client>>
  BY DEF Preflight, IInv, TypeOK, Serve, db
<1>6. \A x \in CommandState : Remembers(x) /\ op' = [op EXCEPT ![o] = x] => IInv'
  BY <1>5, CommandMoves
<1> QED
  BY <1>2, <1>3, <1>4, <1>5, <1>6, CommandEnds

LEMMA ProvisionStep ==
  ASSUME IInv, NEW o \in Operators, Provision(o)
  PROVE  IInv'
<1> DEFINE r == [op[o] EXCEPT !.pc = "apply", !.snap = Snapshot]
<1>1. op[o] \in CommandState /\ Remembers(op[o]) /\ op[o].pc = "provision"
  BY DEF IInv, TypeOK, CommandInv, Provision
<1>2. Snapshot \in Snapshots
  BY DEF IInv, TypeOK, Snapshot, Snapshots
<1>3. /\ r \in CommandState /\ r.pc = "apply" /\ r.snap = Snapshot
      /\ r.kind = op[o].kind /\ r.tenant = op[o].tenant /\ r.actor = op[o].actor
      /\ r.who = op[o].who /\ r.invite = op[o].invite /\ r.role = op[o].role
  BY <1>1, <1>2 DEF CommandState
<1>4. op' = [op EXCEPT ![o] = r]
  BY DEF Provision
<1> HIDE DEF r
<1>5. WellFormedOrder(op[o])
  BY <1>1 DEF Remembers
<1>6. Remembers(r)
  BY <1>3, <1>5 DEF Remembers, WellFormedOrder, Snapshot, Owners, OwnerOf
<1>7. users' \subseteq People /\ UNCHANGED <<tenant, member, invite, offboarding, client>>
  BY <1>1, <1>5 DEF Provision, IInv, TypeOK, Serve, db, WellFormedOrder, Remembers
<1>8. \A x \in CommandState : Remembers(x) /\ op' = [op EXCEPT ![o] = x] => IInv'
  BY <1>7, CommandMoves
<1> QED
  BY <1>3, <1>4, <1>6, <1>8

\* A commit changes o's command and dooms the entangled ones.
LEMMA AfterSettle ==
  ASSUME op \in [Operators -> CommandState], CommandInv, NEW o \in Operators,
         NEW next \in CommandState, Settle(o, next),
         next.pc \in {"idle", "deliver"}, next.pc = "deliver" => next.invite \in OperationIds,
         \A t \in Tenants : tenant[t] # "NONE" => tenant'[t] # "NONE",
         \A q \in CommandState :
            q.pc = "apply" /\ ~q.doomed /\ ~Entangled(q, op[o]) /\ Remembers(q) => Remembers(q)'
  PROVE  CommandInv' /\ op' \in [Operators -> CommandState]
<1>1. ASSUME NEW x \in Operators
      PROVE  op'[x] \in CommandState /\ Remembers(op[x])'
  <2>1. PICK q \in CommandState : q = op[x] /\ Remembers(q)
    BY DEF CommandInv
  <2> DEFINE r == [q EXCEPT !.doomed = TRUE]
  <2>2. /\ r \in CommandState /\ r.doomed /\ r.pc = q.pc /\ r.kind = q.kind /\ r.tenant = q.tenant
        /\ r.actor = q.actor /\ r.who = q.who /\ r.invite = q.invite /\ r.role = q.role
        /\ r.snap = q.snap
    BY <2>1 DEF CommandState
  <2>3. op'[x] = IF x = o THEN next
                 ELSE IF q.pc = "apply" /\ Entangled(q, op[o]) THEN r ELSE q
    BY <2>1 DEF Settle
  <2> HIDE DEF r
  <2>4. CASE x = o
    BY <2>3, <2>4 DEF Remembers
  <2>5. CASE x # o /\ q.pc = "apply" /\ Entangled(q, op[o])
    BY <2>1, <2>2, <2>3, <2>5 DEF Remembers, WellFormedOrder
  <2>6. CASE x # o /\ ~(q.pc = "apply" /\ Entangled(q, op[o]))
    <3>1. op'[x] = q
      BY <2>3, <2>6
    <3>2. CASE q.pc # "apply"
      BY <2>1, <3>1, <3>2 DEF Remembers, WellFormedOrder
    <3>3. CASE q.pc = "apply" /\ q.doomed
      BY <2>1, <3>1, <3>3 DEF Remembers, WellFormedOrder
    <3>4. CASE q.pc = "apply" /\ ~q.doomed
      <4>1. Remembers(q)'
        BY <2>1, <2>6, <3>4
      <4> QED
        BY <3>1, <4>1, <2>1 DEF Remembers, WellFormedOrder, Live, Owners, OwnerOf
    <3> QED
      BY <3>2, <3>3, <3>4
  <2> QED
    BY <2>4, <2>5, <2>6
<1>2. op' \in [Operators -> CommandState]
  BY <1>1 DEF Settle
<1> QED
  BY <1>1, <1>2 DEF CommandInv

-----------------------------------------------------------------------------
(* Commits of the operators.                                               *)

\* What a committing command may rely on: nothing it read has changed.
LEMMA NotStale ==
  ASSUME NEW q \in CommandState, ~Stale(q), WellFormedOrder(q)
  PROVE  /\ q.snap.tenant[q.tenant] # "NONE" => tenant[q.tenant] = q.snap.tenant[q.tenant]
         /\ \A t \in Tenants :
              /\ q.snap.member[q.actor][t] # NoMember
                    => member[q.actor][t] = q.snap.member[q.actor][t]
              /\ q.who \in People /\ q.snap.member[q.who][t] # NoMember
                    => member[q.who][t] = q.snap.member[q.who][t]
         /\ q.invite \in Ids /\ q.snap.invite[q.invite].status # "NONE"
                => invite[q.invite] = q.snap.invite[q.invite]
  BY DEF Stale, WellFormedOrder

LEMMA Applying ==
  ASSUME IInv, NEW o \in Operators, op[o].pc = "apply"
  PROVE  op[o] \in CommandState /\ Remembers(op[o]) /\ WellFormedOrder(op[o])
  BY DEF IInv, TypeOK, CommandInv, Remembers

\* Nothing is there before the first tenant.
LEMMA BootstrapStep ==
  ASSUME IInv, NEW o \in Operators, Bootstrap(o)
  PROVE  IInv'
<1>1. op[o] \in CommandState /\ Remembers(op[o]) /\ WellFormedOrder(op[o])
  BY Applying DEF Bootstrap
<1>2. op[o].tenant \in Tenants /\ op[o].who \in People
  BY <1>1 DEF WellFormedOrder, Bootstrap
<1>3. CASE Outcome(op[o]) # "APPLIED"
  BY <1>3, CommandEnds DEF Bootstrap, Serve
<1>4. CASE Outcome(op[o]) = "APPLIED"
  <2>1. /\ tenant' = [tenant EXCEPT ![op[o].tenant] = "LIVE"]
        /\ member' = [member EXCEPT ![op[o].who][op[o].tenant] = Active("OWNER")]
        /\ Settle(o, NoCommand) /\ UNCHANGED <<invite, offboarding, users, client>>
        /\ op[o].kind = "bootstrap" /\ RowsFree(op[o]) /\ op[o].pc = "apply"
    BY <1>4 DEF Bootstrap, Serve
  <2>2. ~op[o].doomed /\ BootstrapOutcome(op[o]) = "APPLIED"
    BY <1>4, <2>1 DEF Outcome
  <2>3. \A t \in Tenants : op[o].snap.tenant[t] = "NONE"
    BY <2>2 DEF BootstrapOutcome
  <2>4. \A t \in Tenants : tenant[t] = "NONE"
    BY <1>1, <2>1, <2>2, <2>3 DEF Remembers
  <2>5. \A p \in People, t \in Tenants : member[p][t] = NoMember
    BY <2>4 DEF IInv, RowsInv, Live
  <2>6. \A t \in Tenants : ~Shared(t)
    BY <2>1 DEF RowsFree
  <2>7. Active("OWNER") \in MemberRow /\ Active("OWNER") # NoMember
    BY MemberFacts DEF Roles
  <2>8. /\ member' \in [People -> [Tenants -> MemberRow]]
        /\ \A p \in People, t \in Tenants :
             member'[p][t] = IF p = op[o].who /\ t = op[o].tenant THEN Active("OWNER") ELSE NoMember
    BY <1>2, <2>1, <2>5, <2>7 DEF IInv, TypeOK
  <2>9. /\ tenant' \in [Tenants -> TenantRow]
        /\ \A t \in Tenants : tenant'[t] = IF t = op[o].tenant THEN "LIVE" ELSE "NONE"
    BY <1>2, <2>1, <2>4 DEF IInv, TypeOK, TenantRow
  <2>10. CommandInv' /\ op' \in [Operators -> CommandState]
    <3>1. ASSUME NEW q \in CommandState, q.pc = "apply", ~q.doomed, ~Entangled(q, op[o]),
                 Remembers(q)
          PROVE  Remembers(q)'
      <4>1. q.kind # "bootstrap"
        BY <2>1, <3>1 DEF Entangled
      <4>2. \A t \in Tenants : q.snap.tenant[t] = "NONE"
        BY <2>4, <3>1 DEF Remembers
      <4>3. q.tenant \in Tenants
        BY <3>1 DEF Remembers, WellFormedOrder
      <4> QED
        BY <3>1, <4>1, <4>2, <4>3 DEF Remembers
    <3>2. \A t \in Tenants : tenant[t] # "NONE" => tenant'[t] # "NONE"
      BY <2>4
    <3> QED
      BY <2>1, <3>1, <3>2, AfterSettle, NoCommandFacts DEF IInv, TypeOK
  <2>11. TypeOK'
    BY <2>1, <2>8, <2>9, <2>10 DEF IInv, TypeOK
  <2>12. RowsInv'
    <3>1. \A p \in People, t \in Tenants : (member[p][t] # NoMember)' => Live(t)'
      BY <2>8, <2>9 DEF Live
    <3>2. \A i \in Ids : (invite[i].tenant \in Tenants)' => (tenant[invite[i].tenant] # "OFFBOARDED")'
      BY <2>1, <2>9
    <3>3. \A p \in People, t, u \in Tenants :
            member'[p][t].status # "NONE" /\ member'[p][u].status # "NONE" => t = u
      BY <2>8 DEF NoMember
    <3>4. \A j \in OperationIds : (invite[j].status # "DELETED")'
      BY <2>1 DEF IInv, RowsInv
    <3> QED
      BY <3>1, <3>2, <3>3, <3>4 DEF RowsInv
  <2>13. TenantKeepsAnOwner'
    BY <1>2, <2>8, <2>9 DEF TenantKeepsAnOwner, Live, Owners, OwnerOf
  <2>14. RequestInv'
    BY <2>1, <2>4, <2>6, RequestsKeep, RequestedStays
  <2> QED
    BY <2>10, <2>11, <2>12, <2>13, <2>14 DEF IInv
<1> QED
  BY <1>3, <1>4

\* What a revocation that takes effect has in its hands: the current row of
\* its target, whose tenant is live and, if it is an owner, has another one.
LEMMA RevocationFacts ==
  ASSUME IInv, NEW o \in Operators, op[o].pc = "apply", op[o].kind = "revoke",
         Outcome(op[o]) = "REVOKED"
  PROVE  /\ op[o].tenant \in Tenants /\ op[o].who \in People
         /\ ~op[o].doomed /\ Live(op[o].tenant)
         /\ op[o].snap.tenant[op[o].tenant] = "LIVE"
         /\ member[op[o].who][op[o].tenant] # NoMember
         /\ member[op[o].who][op[o].tenant] = op[o].snap.member[op[o].who][op[o].tenant]
         /\ member[op[o].who][op[o].tenant].role = "OWNER" =>
              \E p \in People : p # op[o].who /\ OwnerOf(member, p, op[o].tenant)
<1>1. PICK q \in CommandState : q = op[o]
  BY DEF IInv, TypeOK
<1>2. Remembers(q) /\ WellFormedOrder(q) /\ q.kind = "revoke" /\ q.pc = "apply"
  BY <1>1, Applying
<1>3. ~Stale(q) /\ ~q.doomed /\ RevokeOutcome(q) = "REVOKED"
  BY <1>1, <1>2 DEF Outcome
<1>4. /\ Authorized(q) /\ TenantsOf(q.snap.member, q.who) = {q.tenant}
      /\ q.snap.member[q.who][q.tenant].role = "OWNER"
            => ~(Cardinality(Owners(q.snap.member, q.tenant)) <= 1)
  BY <1>3 DEF RevokeOutcome
<1>5. q.tenant \in Tenants /\ q.who \in People /\ q.snap.tenant[q.tenant] = "LIVE"
  BY <1>2, <1>4 DEF WellFormedOrder, Authorized
<1>6. Live(q.tenant)
  BY <1>2, <1>3, <1>5, NotStale DEF Live
<1>7. q.snap.member[q.who][q.tenant] \in MemberRow
  BY <1>5 DEF CommandState, Snapshots
<1>8. q.snap.member[q.who][q.tenant] # NoMember
  BY <1>4, <1>5, <1>7, MemberFacts DEF TenantsOf
<1>9. member[q.who][q.tenant] = q.snap.member[q.who][q.tenant]
  BY <1>2, <1>3, <1>5, <1>8, NotStale
<1>10. ASSUME member[q.who][q.tenant].role = "OWNER"
       PROVE  \E p \in People : p # q.who /\ OwnerOf(member, p, q.tenant)
  <2>1. ~(Cardinality(Owners(q.snap.member, q.tenant)) <= 1)
    BY <1>4, <1>9, <1>10
  <2>2. \E p \in Owners(q.snap.member, q.tenant) : p # q.who
    <3>1. SUFFICES ASSUME \A p \in Owners(q.snap.member, q.tenant) : p = q.who PROVE FALSE
      OBVIOUS
    <3>2. Owners(q.snap.member, q.tenant) = {} \/ Owners(q.snap.member, q.tenant) = {q.who}
      BY <3>1
    <3>3. Cardinality(Owners(q.snap.member, q.tenant)) \in {0, 1}
      BY <3>2, FS_EmptySet, FS_Singleton
    <3> QED
      BY <2>1, <3>3
  <2>3. OwnerOf(q.snap.member, q.who, q.tenant)
    <3>1. q.snap.member[q.who][q.tenant].status = "ACTIVE"
      BY <1>3, <1>7, <1>8, MemberFacts DEF RevokeOutcome
    <3> QED
      BY <1>7, <1>9, <1>10, <3>1, MemberFacts DEF OwnerOf
  <2>4. Owners(q.snap.member, q.tenant) \subseteq Owners(member, q.tenant)
    BY <1>2, <1>3, <1>5, <1>6, <2>3 DEF Remembers
  <2> QED
    BY <2>2, <2>4 DEF Owners
<1> QED
  BY <1>1, <1>3, <1>5, <1>6, <1>8, <1>9, <1>10

LEMMA RevokeMembershipStep ==
  ASSUME IInv, NEW o \in Operators, RevokeMembership(o)
  PROVE  IInv'
<1>1. CASE Outcome(op[o]) # "REVOKED"
  BY <1>1, CommandEnds DEF RevokeMembership, Serve
<1>2. CASE Outcome(op[o]) = "REVOKED"
  <2> DEFINE p == op[o].who
             t == op[o].tenant
             r == [member[p][t] EXCEPT !.status = "REVOKED"]
  <2>1. /\ member' = [member EXCEPT ![p][t] = r]
        /\ Settle(o, NoCommand) /\ UNCHANGED <<tenant, invite, offboarding, users, client>>
        /\ op[o].kind = "revoke" /\ RowsFree(op[o]) /\ op[o].pc = "apply"
    BY <1>2 DEF RevokeMembership, Serve
  <2>2. /\ t \in Tenants /\ p \in People /\ ~op[o].doomed /\ Live(t)
        /\ member[p][t] # NoMember /\ member[p][t] = op[o].snap.member[p][t]
        /\ member[p][t].role = "OWNER" => \E q \in People : q # p /\ OwnerOf(member, q, t)
    BY <1>2, <2>1, RevocationFacts
  <2>3. r \in MemberRow /\ r.status = "REVOKED" /\ r # NoMember /\ r # Active("OWNER")
    <3>1. PICK m \in MemberRow : m = member[p][t]
      BY <2>2 DEF IInv, TypeOK
    <3> QED
      BY <2>2, <3>1, RevokedMember
  <2>4. member[p][t].role # "OWNER" => ~OwnerOf(member, p, t)
    BY DEF OwnerOf, Active
  <2> HIDE DEF r
  <2>5. /\ member' \in [People -> [Tenants -> MemberRow]]
        /\ \A q \in People, u \in Tenants :
             member'[q][u] = IF q = p /\ u = t THEN r ELSE member[q][u]
    BY <2>1, <2>2, <2>3 DEF IInv, TypeOK
  <2>6. ~Shared(t)
    BY <2>1, <2>2 DEF RowsFree
  <2>7. \A q \in People, u \in Tenants :
            OwnerOf(member, q, u)' <=> OwnerOf(member, q, u) /\ ~(q = p /\ u = t)
    BY <2>3, <2>5 DEF OwnerOf
  <2>8. CommandInv' /\ op' \in [Operators -> CommandState]
    <3>1. ASSUME NEW q \in CommandState, q.pc = "apply", ~q.doomed, ~Entangled(q, op[o]),
                 Remembers(q)
          PROVE  Remembers(q)'
      <4>1. q.tenant \in Tenants
        BY <3>1 DEF Remembers, WellFormedOrder
      <4>2. CASE q.kind = "revoke" /\ q.tenant = t
                 /\ OwnerOf(q.snap.member, q.who, q.tenant)
        <5>1. ~OwnerOf(op[o].snap.member, p, t)
          BY <2>1, <3>1, <4>2 DEF Entangled
        <5>2. ~OwnerOf(member, p, t)
          BY <2>2, <5>1 DEF OwnerOf
        <5>3. Owners(member, q.tenant)' = Owners(member, q.tenant)
          BY <2>7, <4>1, <4>2, <5>2 DEF Owners
        <5> QED
          BY <2>1, <3>1, <5>3 DEF Remembers, Live
      <4>3. CASE q.kind = "revoke" /\ q.tenant # t
        <5>1. Owners(member, q.tenant)' = Owners(member, q.tenant)
          BY <2>7, <4>1, <4>3 DEF Owners
        <5> QED
          BY <2>1, <3>1, <5>1 DEF Remembers, Live
      <4>4. CASE q.kind # "revoke" \/ ~OwnerOf(q.snap.member, q.who, q.tenant)
        BY <2>1, <3>1, <4>4 DEF Remembers
      <4> QED
        BY <4>2, <4>3, <4>4
    <3> QED
      BY <2>1, <3>1, AfterSettle, NoCommandFacts DEF IInv, TypeOK
  <2>9. TypeOK'
    BY <2>1, <2>5, <2>8 DEF IInv, TypeOK
  <2>10. \A q \in People, u \in Tenants :
            (member[q][u].status # "NONE")' <=> member[q][u].status # "NONE"
    BY <2>2, <2>3, <2>5, MemberFacts DEF IInv, TypeOK
  <2>11. RowsInv'
    <3>1. \A q \in People, u \in Tenants : (member[q][u] # NoMember)' => Live(u)'
      BY <2>1, <2>2, <2>5 DEF IInv, RowsInv, Live
    <3> QED
      BY <2>1, <2>10, <3>1 DEF IInv, RowsInv
  <2>12. TenantKeepsAnOwner'
    <3>1. ASSUME NEW u \in Tenants, Live(u)' PROVE Owners(member, u)' # {}
      <4>1. \E q \in People : OwnerOf(member, q, u)
        BY <2>1, <3>1 DEF IInv, TenantKeepsAnOwner, Live, Owners
      <4>2. \E q \in People : OwnerOf(member, q, u) /\ ~(q = p /\ u = t)
        BY <2>2, <2>4, <4>1
      <4> QED
        BY <2>7, <4>2 DEF Owners
    <3> QED
      BY <3>1 DEF TenantKeepsAnOwner
  <2>13. RequestInv'
    BY <2>1, <2>5, <2>6, <2>10, RequestsKeep, RequestedStays
  <2> QED
    BY <2>8, <2>9, <2>11, <2>12, <2>13 DEF IInv
<1> QED
  BY <1>1, <1>2

\* A command that only writes an invitation.
LEMMA InvitationWritten ==
  ASSUME IInv, NEW i \in Ids, NEW v \in InviteRow, invite' = [invite EXCEPT ![i] = v],
         CommandInv', op' \in [Operators -> CommandState], v.status # "DELETED",
         v.tenant \in Tenants => tenant[v.tenant] # "OFFBOARDED",
         RowHeld(i) => /\ v.tenant = invite[i].tenant /\ v.status = invite[i].status
                       /\ v.expected = invite[i].expected /\ v.role = invite[i].role,
         i \in RandomIds /\ invite[i].status = "NONE" => v.status = "NONE",
         UNCHANGED <<tenant, member, offboarding, users, client>>
  PROVE  IInv'
<1>1. \A j \in Ids : invite'[j] = IF j = i THEN v ELSE invite[j]
  BY DEF IInv, TypeOK
<1>3. TypeOK'
  BY DEF IInv, TypeOK
<1>4. RowsInv' /\ TenantKeepsAnOwner'
  BY <1>1 DEF IInv, RowsInv, TenantKeepsAnOwner, Live, Owners, OwnerOf, Ids
<1>5. RequestInv'
  <2>1. RandomIds \subseteq Ids
    BY DEF Ids
  <2> QED
    BY <1>1, <2>1, RequestsKeep, RequestedStays
<1> QED
  BY <1>3, <1>4, <1>5 DEF IInv

LEMMA CommandsSettle ==
  ASSUME IInv, NEW o \in Operators, NEW next \in CommandState, Settle(o, next),
         next.pc \in {"idle", "deliver"}, next.pc = "deliver" => next.invite \in OperationIds,
         UNCHANGED <<tenant, member>>
  PROVE  CommandInv' /\ op' \in [Operators -> CommandState]
<1>1. \A q : Remembers(q) => Remembers(q)'
  BY RemembersFrame
<1> QED
  BY <1>1, AfterSettle DEF IInv, TypeOK

LEMMA InviteStep ==
  ASSUME IInv, NEW o \in Operators, Invite(o)
  PROVE  IInv'
<1>1. CASE Outcome(op[o]) # "CREATED"
  BY <1>1, CommandEnds DEF Invite, Serve
<1>2. CASE Outcome(op[o]) = "CREATED"
  <2> DEFINE i == op[o].invite
             next == [NoCommand EXCEPT !.pc = "deliver", !.invite = i]
             v == [tenant |-> op[o].tenant, role |-> op[o].role, status |-> "PENDING",
                   expected |-> op[o].who, by |-> op[o].actor, token |-> "LOST"]
  <2>1. /\ op[o] \in CommandState /\ WellFormedOrder(op[o]) /\ op[o].kind = "invite"
        /\ RowsFree(op[o]) /\ op[o].pc = "apply"
    BY Applying DEF Invite
  <2>2. ~Stale(op[o]) /\ InviteOutcome(op[o]) = "CREATED"
    BY <1>2, <2>1 DEF Outcome
  <2>3. Authorized(op[o]) /\ invite[i].status = "NONE"
    BY <2>2 DEF InviteOutcome
  <2>4. i \in OperationIds /\ i \in Ids /\ i \notin RandomIds
    BY <2>1, AccessAssumption DEF WellFormedOrder, Ids
  <2>5. Live(op[o].tenant)
    BY <2>1, <2>2, <2>3, NotStale DEF Authorized, Live
  <2>6. v \in InviteRow /\ v.tenant = op[o].tenant /\ v.status # "DELETED"
    BY <2>1 DEF WellFormedOrder, InviteRow, Invitation
  <2>7. next \in CommandState /\ next.pc = "deliver" /\ next.invite = i
    BY <2>4, NoCommandFacts DEF CommandState, NoCommand
  <2>8. ~RowHeld(i)
    BY <2>1, <2>4 DEF RowsFree
  <2>9. /\ invite' = [invite EXCEPT ![i] = v] /\ Settle(o, next)
        /\ UNCHANGED <<tenant, member, offboarding, users, client>>
    BY <1>2 DEF Invite, Serve
  <2> HIDE DEF v, next
  <2>10. tenant[v.tenant] # "OFFBOARDED"
    BY <2>5, <2>6 DEF Live
  <2>11. CommandInv' /\ op' \in [Operators -> CommandState]
    BY <2>4, <2>7, <2>9, CommandsSettle
  <2>12. \A w \in InviteRow : /\ w.tenant = op[o].tenant /\ w.status # "DELETED"
                               /\ invite' = [invite EXCEPT ![i] = w]
                               => IInv'
    BY <2>4, <2>5, <2>8, <2>9, <2>11, InvitationWritten DEF Live
  <2> QED
    BY <2>6, <2>9, <2>12
<1> QED
  BY <1>1, <1>2

LEMMA RevokeInvitationStep ==
  ASSUME IInv, NEW o \in Operators, RevokeInvitation(o)
  PROVE  IInv'
<1>1. CASE Outcome(op[o]) # "REVOKED"
  BY <1>1, CommandEnds DEF RevokeInvitation, Serve
<1>2. CASE Outcome(op[o]) = "REVOKED"
  <2> DEFINE i == op[o].invite
             v == [invite[i] EXCEPT !.status = "REVOKED"]
  <2>1. /\ op[o] \in CommandState /\ WellFormedOrder(op[o]) /\ op[o].kind = "revokeInvite"
        /\ RowsFree(op[o]) /\ op[o].pc = "apply" /\ i \in Ids
    BY Applying DEF RevokeInvitation, WellFormedOrder
  <2>2. ~Stale(op[o]) /\ RevokeInviteOutcome(op[o]) = "REVOKED"
    BY <1>2, <2>1 DEF Outcome
  <2>3. op[o].snap.invite[i].status = "PENDING"
    BY <2>2 DEF RevokeInviteOutcome
  <2>4. invite[i].status = "PENDING"
    BY <2>1, <2>2, <2>3, NotStale
  <2>5. invite[i] \in Invitation
    BY <2>1, <2>4, InviteFacts DEF IInv, TypeOK
  <2>6. v \in Invitation /\ v.tenant = invite[i].tenant /\ v.status = "REVOKED"
    <3>1. PICK w \in Invitation : w = invite[i]
      BY <2>5
    <3> QED
      BY <3>1, ChangedInvitation
  <2>7. ~RowHeld(i)
    BY <2>1 DEF RowsFree
  <2>8. /\ invite' = [invite EXCEPT ![i] = v] /\ Settle(o, NoCommand)
        /\ UNCHANGED <<tenant, member, offboarding, users, client>>
    BY <1>2 DEF RevokeInvitation, Serve
  <2> HIDE DEF v
  <2>9. \A w \in InviteRow : /\ w.tenant = invite[i].tenant /\ w.status # "DELETED"
                              /\ invite' = [invite EXCEPT ![i] = w]
                              => IInv'
    <3>1. invite[i].tenant \in Tenants => tenant[invite[i].tenant] # "OFFBOARDED"
      BY <2>1 DEF IInv, RowsInv
    <3>2. CommandInv' /\ op' \in [Operators -> CommandState]
      BY <2>8, NoCommandFacts, CommandsSettle
    <3> QED
      BY <2>1, <2>4, <2>7, <2>8, <3>1, <3>2, InvitationWritten
  <2> QED
    BY <2>6, <2>8, <2>9 DEF InviteRow
<1> QED
  BY <1>1, <1>2

\* The file with the token: the row itself does not change.
LEMMA DeliverStep ==
  ASSUME IInv, NEW o \in Operators, Deliver(o)
  PROVE  IInv'
<1> DEFINE i == op[o].invite
           v == [invite[i] EXCEPT !.token = IF invite[i] = NoInvite THEN @ ELSE "SENT"]
<1>1. op[o] \in CommandState /\ i \in OperationIds /\ i \in Ids /\ op[o].pc = "deliver"
  BY DEF IInv, TypeOK, CommandInv, Remembers, Deliver, Ids
<1>2. invite[i] \in InviteRow
  BY <1>1 DEF IInv, TypeOK
<1>3. /\ UNCHANGED <<tenant, member, offboarding, users, client>>
      /\ invite' = [invite EXCEPT ![i] = v] /\ op' = [op EXCEPT ![o] = NoCommand]
  BY DEF Deliver, Serve, Finish
<1>4. CASE invite[i] = NoInvite
  <2>1. v = invite[i]
    BY <1>4 DEF NoInvite
  <2>2. invite' = invite
    BY <1>1, <1>3, <2>1 DEF IInv, TypeOK
  <2> QED
    BY <1>3, <2>2, CommandEnds DEF Finish
<1>5. CASE invite[i] # NoInvite
  <2>1. invite[i] \in Invitation
    <3>1. invite[i].status # "DELETED"
      BY <1>1 DEF IInv, RowsInv
    <3> QED
      BY <1>2, <1>5, <3>1, InviteFacts
  <2>2. /\ v \in Invitation /\ v.tenant = invite[i].tenant /\ v.status = invite[i].status
        /\ v.expected = invite[i].expected /\ v.role = invite[i].role
    <3>1. PICK w \in Invitation : w = invite[i]
      BY <2>1
    <3>2. v = [w EXCEPT !.token = "SENT"]
      BY <1>5, <3>1
    <3>3. w = invite[i] /\ w \in Invitation
      BY <3>1
    <3> HIDE DEF v, i
    <3>4. LET x == [w EXCEPT !.token = "SENT"]
          IN  /\ x \in Invitation /\ x.tenant = w.tenant /\ x.status = w.status
              /\ x.expected = w.expected /\ x.role = w.role
      BY <3>3, ChangedInvitation
    <3> QED
      BY <3>2, <3>3, <3>4
  <2> HIDE DEF v
  <2>3. CommandInv' /\ op' \in [Operators -> CommandState]
    <3>1. ASSUME NEW x \in Operators PROVE Remembers(op[x])'
      <4>1. PICK r : r = op'[x] /\ Remembers(r)
        BY <1>3, NoCommandFacts DEF IInv, TypeOK, CommandInv
      <4>2. Remembers(r)'
        BY <1>3, <4>1, RemembersFrame
      <4> QED
        BY <4>1, <4>2 DEF Remembers, WellFormedOrder, Live, Owners, OwnerOf
    <3> QED
      BY <1>3, <3>1, NoCommandFacts DEF CommandInv, IInv, TypeOK
  <2>4. v.status # "DELETED" /\ (v.tenant \in Tenants => tenant[v.tenant] # "OFFBOARDED")
    BY <1>1, <2>1, <2>2 DEF IInv, RowsInv, Invitation
  <2>5. v \in InviteRow
    BY <2>2 DEF InviteRow
  <2> QED
    BY <1>1, <1>3, <2>2, <2>3, <2>4, <2>5, InvitationWritten
<1> QED
  BY <1>4, <1>5

LEMMA OperatorSteps ==
  ASSUME IInv, NEW o \in Operators, OperatorStep(o)
  PROVE  IInv'
<1>1. CASE Stop(o)
  BY <1>1, CommandEnds DEF Stop, Serve, db
<1> QED
  BY <1>1, CommandStep, PreflightStep, ProvisionStep, BootstrapStep, RevokeMembershipStep,
     InviteStep, RevokeInvitationStep, DeliverStep
  DEF OperatorStep

-----------------------------------------------------------------------------
(* The maintenance job.                                                    *)

LEMMA OffboardStep ==
  ASSUME IInv, NEW t \in Tenants, Offboard(t)
  PROVE  IInv'
<1>1. /\ tenant[t] # "NONE" /\ ~Shared(t)
      /\ \A i \in Ids : invite[i].tenant = t => ~RowHeld(i)
      /\ UNCHANGED <<users, client, op>>
  BY DEF Offboard, IInv, RequestInv, Requested
<1>2. /\ tenant' \in [Tenants -> TenantRow]
      /\ \A u \in Tenants : tenant'[u] = IF u = t THEN "OFFBOARDED" ELSE tenant[u]
  BY DEF Offboard, IInv, TypeOK, TenantRow
<1>3. /\ member' \in [People -> [Tenants -> MemberRow]]
      /\ \A p \in People, u \in Tenants : member'[p][u] = IF u = t THEN NoMember ELSE member[p][u]
  BY MemberFacts DEF Offboard, IInv, TypeOK
<1>4. /\ invite' \in [Ids -> InviteRow]
      /\ \A i \in Ids : invite'[i] = IF invite[i].tenant = t THEN Deleted(i) ELSE invite[i]
  BY InviteFacts DEF Offboard, IInv, TypeOK
<1>5. /\ offboarding' \in [Tenants -> {"NONE", "PENDING", "FAILED", "OFFBOARDED_ACCESS_REVOKED"}]
      /\ \A u \in Tenants : u # t => offboarding'[u] = offboarding[u]
  BY DEF Offboard, IInv, TypeOK
<1>6. Requested'
  BY <1>1, <1>2, <1>5 DEF IInv, RequestInv, Requested
<1>7. TypeOK'
  BY <1>1, <1>2, <1>3, <1>4, <1>5 DEF IInv, TypeOK
<1>8. RowsInv'
  <2>1. \A p \in People, u \in Tenants : (member[p][u] # NoMember)' => Live(u)'
    BY <1>2, <1>3 DEF IInv, RowsInv, Live
  <2>2. \A i \in Ids : (invite[i].tenant \in Tenants)' => (tenant[invite[i].tenant] # "OFFBOARDED")'
    BY <1>2, <1>4, InviteFacts, AccessAssumption DEF IInv, RowsInv
  <2>3. \A i \in OperationIds : (invite[i].status # "DELETED")'
    BY <1>4, InviteFacts, AccessAssumption DEF IInv, RowsInv, Deleted, Ids
  <2>4. \A p \in People, u, w \in Tenants :
            member'[p][u].status # "NONE" /\ member'[p][w].status # "NONE" => u = w
    BY <1>3, MemberFacts DEF IInv, RowsInv
  <2> QED
    BY <2>1, <2>2, <2>3, <2>4 DEF RowsInv
<1>9. TenantKeepsAnOwner'
  <2>1. ASSUME NEW u \in Tenants, Live(u)' PROVE Owners(member, u)' # {}
    <3>1. u # t /\ Live(u)
      BY <1>2, <2>1 DEF Live
    <3> QED
      BY <1>3, <3>1 DEF IInv, TenantKeepsAnOwner, Owners, OwnerOf
  <2> QED
    BY <2>1 DEF TenantKeepsAnOwner
<1>10. RequestInv'
  <2>1. \A i \in RandomIds : invite[i].status = "NONE" => invite'[i].status = "NONE"
    BY <1>4, InviteFacts, AccessAssumption DEF IInv, TypeOK, Ids
  <2> QED
    BY <1>1, <1>2, <1>3, <1>4, <1>6, <2>1, MemberFacts, RequestsKeep
<1>11. CommandInv'
  <2>1. ASSUME NEW o \in Operators PROVE Remembers(op[o])'
    <3>1. PICK q \in CommandState : q = op[o] /\ q = op'[o] /\ Remembers(q)
      BY <1>1 DEF IInv, TypeOK, CommandInv
    <3>2. \A u \in Tenants : tenant[u] # "NONE" => tenant'[u] # "NONE"
      BY <1>2
    <3>3. CASE q.pc = "apply" /\ q.kind = "revoke"
      <4>1. q.tenant \in Tenants
        BY <3>1, <3>3 DEF Remembers, WellFormedOrder
      <4>2. Live(q.tenant)' => Live(q.tenant) /\ Owners(member, q.tenant)' = Owners(member, q.tenant)
        BY <1>2, <1>3, <4>1 DEF Live, Owners, OwnerOf
      <4> QED
        BY <3>1, <3>2, <3>3, <4>2 DEF Remembers, WellFormedOrder
    <3>4. CASE ~(q.pc = "apply" /\ q.kind = "revoke")
      <4>1. (\A u \in Tenants : tenant[u] = "NONE") => FALSE
        BY <1>1
      <4> QED
        BY <3>1, <3>2, <3>4, <4>1 DEF Remembers, WellFormedOrder
    <3> QED
      BY <3>3, <3>4
  <2> QED
    BY <2>1 DEF CommandInv
<1> QED
  BY <1>7, <1>8, <1>9, <1>10, <1>11 DEF IInv

LEMMA OffboardFailsStep ==
  ASSUME IInv, NEW t \in Tenants, OffboardFails(t)
  PROVE  IInv'
<1>1. UNCHANGED <<tenant, member, invite, users, client, op>>
  BY DEF OffboardFails, db
<1>2. Requested'
  BY <1>1 DEF OffboardFails, IInv, RequestInv, Requested
<1>3. TypeOK'
  BY <1>1, <1>2 DEF IInv, TypeOK, Requested
<1>4. RequestInv'
  BY <1>1, <1>2, RequestsKeep
<1> QED
  BY <1>1, <1>3, <1>4, RowsFrame, CommandsFrame DEF IInv

-----------------------------------------------------------------------------
(* The invariant and what follows from it.                                 *)

LEMMA Initially == Init => IInv
<1> SUFFICES ASSUME Init PROVE IInv
  OBVIOUS
<1>1. PICK w \in Worlds :
        /\ tenant = [t \in Tenants |-> IF w.owners[t] = {} THEN "NONE" ELSE "LIVE"]
        /\ member = [p \in People |-> [t \in Tenants |->
                        IF p \in w.owners[t] THEN Active("OWNER") ELSE NoMember]]
        /\ invite = w.invite
  BY DEF Init
<1>2. /\ w.owners \in [Tenants -> SUBSET People]
      /\ w.invite \in [Ids -> {NoInvite} \cup Invitation]
      /\ \A t, u \in Tenants : w.owners[t] \cap w.owners[u] # {} => t = u
  BY AccessAssumption
<1>3. /\ offboarding = [t \in Tenants |-> "NONE"] /\ users \subseteq People
      /\ client = [c \in Clients |-> Idle] /\ op = [o \in Operators |-> NoCommand]
  BY DEF Init
<1>4. Active("OWNER") \in MemberRow /\ Active("OWNER") # NoMember /\ NoMember \in MemberRow
  BY MemberFacts DEF Roles
<1>5. TypeOK
  <2>1. tenant \in [Tenants -> TenantRow] /\ member \in [People -> [Tenants -> MemberRow]]
    BY <1>1, <1>4 DEF TenantRow
  <2>2. invite \in [Ids -> InviteRow]
    BY <1>1, <1>2 DEF InviteRow
  <2> QED
    BY <1>3, <2>1, <2>2, IdleFacts, NoCommandFacts DEF TypeOK
<1>6. RowsInv
  <2>1. \A p \in People, t \in Tenants : member[p][t] # NoMember => Live(t)
    BY <1>1 DEF Live
  <2>2. \A t \in Tenants : tenant[t] # "OFFBOARDED"
    BY <1>1
  <2>3. \A i \in OperationIds : invite[i].status # "DELETED"
    BY <1>1, <1>2 DEF Ids, NoInvite, Invitation
  <2>4. \A p \in People, t, u \in Tenants :
            member[p][t].status # "NONE" /\ member[p][u].status # "NONE" => t = u
    <3>1. \A p \in People, t \in Tenants : member[p][t].status # "NONE" => p \in w.owners[t]
      BY <1>1 DEF NoMember
    <3> QED
      BY <1>2, <3>1
  <2> QED
    BY <2>1, <2>2, <2>3, <2>4 DEF RowsInv
<1>7. TenantKeepsAnOwner
  BY <1>1, <1>2 DEF TenantKeepsAnOwner, Live, Owners, OwnerOf
<1>8. RequestInv
  BY <1>3, IdleFacts DEF RequestInv, Requested
<1>9. CommandInv
  BY <1>3, NoCommandFacts DEF CommandInv
<1> QED
  BY <1>5, <1>6, <1>7, <1>8, <1>9 DEF IInv

LEMMA Inductive == IInv /\ [Next]_vars => IInv'
<1> SUFFICES ASSUME IInv, [Next]_vars PROVE IInv'
  OBVIOUS
<1>1. CASE UNCHANGED vars
  <2>1. Requested' /\ UNCHANGED <<tenant, member, invite, client, op>>
    BY <1>1 DEF vars, db, IInv, RequestInv, Requested
  <2>2. TypeOK'
    BY <1>1 DEF IInv, TypeOK, vars, db
  <2> QED
    BY <2>1, <2>2, RequestsKeep, RowsFrame, CommandsFrame DEF IInv
<1>2. CASE Next
  BY <1>2, ClientSteps, OperatorSteps, OffboardStep, OffboardFailsStep DEF Next
<1> QED
  BY <1>1, <1>2

\* IInv holds of every reachable state.
THEOREM Invariance == Spec => []IInv
  BY Initially, Inductive, PTL DEF Spec

\* The rows, requests and commands keep their shape (TenantAccess.TypeOK).
THEOREM TypeCorrect == Spec => []TypeOK
<1>1. IInv => TypeOK
  BY DEF IInv
<1> QED
  BY <1>1, Invariance, PTL

\* An identity belongs to one tenant at most, however many invitations it
\* consumes at once (consume_assisted_invitation, bootstrap).
THEOREM OneMembership == Spec => []OneMembershipPerIdentity
<1>1. ASSUME IInv PROVE OneMembershipPerIdentity
  <2>1. ASSUME NEW p \in People PROVE Cardinality(TenantsOf(member, p)) <= 1
    <3>1. TenantsOf(member, p) = {} \/ \E t \in Tenants : TenantsOf(member, p) = {t}
      BY <1>1 DEF IInv, RowsInv, TenantsOf
    <3>2. Cardinality(TenantsOf(member, p)) \in {0, 1}
      BY <3>1, FS_EmptySet, FS_Singleton
    <3> QED
      BY <3>2
  <2> QED
    BY <2>1 DEF OneMembershipPerIdentity
<1> QED
  BY <1>1, Invariance, PTL

\* A tenant that is not offboarded keeps an ACTIVE owner, also when its owners
\* revoke themselves or each other at the same time (revokeMembership).
THEOREM KeepsAnOwner == Spec => []TenantKeepsAnOwner
<1>1. IInv => TenantKeepsAnOwner
  BY DEF IInv
<1> QED
  BY <1>1, Invariance, PTL

\* Nobody is a member of an offboarded tenant and no invitation leads into it
\* (process_pending_tenant_offboarding).
THEOREM AccessEnds == Spec => []AccessEndsWithTenant
<1>1. IInv => AccessEndsWithTenant
  BY DEF IInv, RowsInv, AccessEndsWithTenant, Live
<1> QED
  BY <1>1, Invariance, PTL

-----------------------------------------------------------------------------
(* What a step may never do.                                               *)

\* What the identity command answers without writing is true when it is said
\* (revokeMembership, revokeProvisionedInvitation, createProvisionedInvitation).
THEOREM CurrentAnswers == Spec => AnswersAreCurrent
<1>1. ASSUME IInv, NEW o \in Operators
      PROVE  LET q == op[o] IN
             /\ RevokeMembership(o) /\ Outcome(q) = "ALREADY_REVOKED"
                  => member[q.who][q.tenant].status = "REVOKED"
             /\ RevokeInvitation(o) /\ Outcome(q) = "ALREADY_REVOKED"
                  => invite[q.invite].status = "REVOKED"
             /\ Invite(o) /\ Outcome(q) = "RECONCILED"
                  => invite[q.invite].status = "PENDING" /\ invite[q.invite].expected = q.who
  <2>1. PICK q \in CommandState : q = op[o]
    BY <1>1 DEF IInv, TypeOK
  <2>2. q.pc = "apply" => WellFormedOrder(q)
    BY <1>1, <2>1, Applying
  <2>3. ASSUME RevokeMembership(o), Outcome(q) = "ALREADY_REVOKED"
        PROVE  member[q.who][q.tenant].status = "REVOKED"
    <3>1. WellFormedOrder(q) /\ ~Stale(q) /\ q.snap.member[q.who][q.tenant].status = "REVOKED"
      BY <2>1, <2>2, <2>3 DEF RevokeMembership, Outcome, RevokeOutcome
    <3>2. q.who \in People /\ q.tenant \in Tenants
      BY <2>1, <2>3, <3>1 DEF RevokeMembership, WellFormedOrder
    <3>3. q.snap.member[q.who][q.tenant] # NoMember
      BY <3>1 DEF NoMember
    <3> QED
      BY <3>1, <3>2, <3>3, NotStale
  <2>4. ASSUME RevokeInvitation(o), Outcome(q) = "ALREADY_REVOKED"
        PROVE  invite[q.invite].status = "REVOKED"
    <3>1. WellFormedOrder(q) /\ ~Stale(q) /\ q.snap.invite[q.invite].status = "REVOKED"
      BY <2>1, <2>2, <2>4 DEF RevokeInvitation, Outcome, RevokeInviteOutcome
    <3>2. q.invite \in Ids
      BY <2>1, <2>4, <3>1 DEF RevokeInvitation, WellFormedOrder
    <3> QED
      BY <3>1, <3>2, NotStale
  <2>5. ASSUME Invite(o), Outcome(q) = "RECONCILED"
        PROVE  invite[q.invite].status = "PENDING" /\ invite[q.invite].expected = q.who
    <3>1. /\ WellFormedOrder(q) /\ ~Stale(q) /\ q.snap.invite[q.invite].status = "PENDING"
          /\ q.snap.invite[q.invite].expected = q.who
      BY <2>1, <2>2, <2>5 DEF Invite, Outcome, InviteOutcome
    <3>2. q.invite \in Ids
      BY <2>1, <2>5, <3>1 DEF Invite, WellFormedOrder, Ids
    <3> QED
      BY <3>1, <3>2, NotStale
  <2> QED
    BY <2>1, <2>3, <2>4, <2>5
<1>2. IInv /\ [Next]_vars =>
        [\A o \in Operators :
            LET q == op[o] IN
            /\ RevokeMembership(o) /\ Outcome(q) = "ALREADY_REVOKED"
                => member[q.who][q.tenant].status = "REVOKED"
            /\ RevokeInvitation(o) /\ Outcome(q) = "ALREADY_REVOKED"
                => invite[q.invite].status = "REVOKED"
            /\ Invite(o) /\ Outcome(q) = "RECONCILED"
                => invite[q.invite].status = "PENDING" /\ invite[q.invite].expected = q.who]_vars
  BY <1>1
<1> QED
  BY <1>2, Invariance, PTL DEF Spec, AnswersAreCurrent

\* Memberships come only from the bootstrap of an empty database or from an
\* invitation to that identity consumed in the same step; a revoked one never
\* comes back (consume_assisted_invitation, bootstrap).
THEOREM Invited == Spec => MembershipsAreInvited
<1> DEFINE Comes(p, t) ==
        member[p][t].status # "ACTIVE" /\ member'[p][t].status = "ACTIVE" =>
            /\ member[p][t].status = "NONE"
            /\ \/ \A u \in Tenants : tenant[u] = "NONE"
               \/ \E i \in Ids : /\ Consumable(i, p) /\ invite[i].tenant = t
                                 /\ invite'[i].status = "CONSUMED"
                                 /\ member'[p][t].role = invite[i].role
<1>1. ASSUME IInv, [Next]_vars, NEW p \in People, NEW t \in Tenants PROVE Comes(p, t)
  <2>1. CASE member' = member
    BY <2>1
  <2>2. ASSUME NEW c \in Clients, Join(c) PROVE Comes(p, t)
    <3>1. /\ Knows(client[c]) /\ client[c].pc = "admitted" /\ client[c].invite \in Ids
          /\ client[c].by \in People /\ client[c].tenant \in Tenants
      BY <1>1, <2>2 DEF Join, IInv, RequestInv, Knows, Phase, WellFormedAsk
    <3>2. /\ invite[client[c].invite].tenant = client[c].tenant
          /\ Consumable(client[c].invite, client[c].by)
          /\ Admissible(client[c].by, client[c].invite)
      BY <3>1 DEF Knows, Consumable, HoldsRow
    <3>3. /\ member' = [member EXCEPT ![client[c].by][client[c].tenant] =
                            Active(invite[client[c].invite].role)]
          /\ invite' = [invite EXCEPT ![client[c].invite].status = "CONSUMED"]
      BY <2>2 DEF Join
    <3>4. member'[p][t] = IF p = client[c].by /\ t = client[c].tenant
                          THEN Active(invite[client[c].invite].role) ELSE member[p][t]
      BY <1>1, <3>1, <3>3 DEF IInv, TypeOK
    <3>5. CASE p = client[c].by /\ t = client[c].tenant
      <4>1. member[p][t].status = "NONE" \/ member[p][t] = Active(invite[client[c].invite].role)
        BY <3>2, <3>5 DEF Admissible, TenantsOf
      <4>2. invite'[client[c].invite].status = "CONSUMED"
        <5>1. invite[client[c].invite] \in Invitation
          BY <1>1, <3>1, <3>2, InviteFacts DEF IInv, TypeOK, Consumable
        <5>2. PICK w \in Invitation : w = invite[client[c].invite]
          BY <5>1
        <5>3. invite'[client[c].invite] = [w EXCEPT !.status = "CONSUMED"]
          BY <1>1, <3>1, <3>3, <5>2 DEF IInv, TypeOK
        <5> QED
          BY <5>3, <5>2, ChangedInvitation
      <4>3. Active(invite[client[c].invite].role).status = "ACTIVE"
            /\ Active(invite[client[c].invite].role).role = invite[client[c].invite].role
        BY DEF Active
      <4> QED
        BY <3>1, <3>2, <3>4, <3>5, <4>1, <4>2, <4>3
    <3> QED
      BY <3>4, <3>5
  <2>3. ASSUME NEW o \in Operators, Bootstrap(o) PROVE Comes(p, t)
    <3>1. CASE Outcome(op[o]) # "APPLIED"
      BY <2>3, <3>1 DEF Bootstrap
    <3>2. CASE Outcome(op[o]) = "APPLIED"
      <4>1. Remembers(op[o]) /\ op[o].kind = "bootstrap" /\ op[o].pc = "apply"
        BY <1>1, <2>3, Applying DEF Bootstrap
      <4>2. ~op[o].doomed /\ \A u \in Tenants : op[o].snap.tenant[u] = "NONE"
        BY <3>2, <4>1 DEF Outcome, BootstrapOutcome
      <4>3. \A u \in Tenants : tenant[u] = "NONE"
        BY <4>1, <4>2 DEF Remembers
      <4>4. member[p][t] = NoMember
        BY <1>1, <4>3 DEF IInv, RowsInv, Live
      <4> QED
        BY <4>3, <4>4 DEF NoMember
    <3> QED
      BY <3>1, <3>2
  <2>4. ASSUME NEW o \in Operators, RevokeMembership(o) PROVE Comes(p, t)
    <3>1. CASE Outcome(op[o]) # "REVOKED"
      BY <2>4, <3>1 DEF RevokeMembership
    <3>2. CASE Outcome(op[o]) = "REVOKED"
      <4> DEFINE r == [member[op[o].who][op[o].tenant] EXCEPT !.status = "REVOKED"]
      <4>1. /\ member' = [member EXCEPT ![op[o].who][op[o].tenant] = r]
            /\ op[o].pc = "apply" /\ op[o].kind = "revoke"
        BY <2>4, <3>2 DEF RevokeMembership
      <4>2. /\ op[o].tenant \in Tenants /\ op[o].who \in People
            /\ member[op[o].who][op[o].tenant] # NoMember
        BY <1>1, <3>2, <4>1, RevocationFacts
      <4>3. r.status = "REVOKED"
        <5>1. PICK m \in MemberRow : m = member[op[o].who][op[o].tenant]
          BY <1>1, <4>2 DEF IInv, TypeOK
        <5> QED
          BY <4>2, <5>1, RevokedMember
      <4> HIDE DEF r
      <4>4. member'[p][t] = IF p = op[o].who /\ t = op[o].tenant THEN r ELSE member[p][t]
        BY <1>1, <4>1, <4>2 DEF IInv, TypeOK
      <4> QED
        BY <4>3, <4>4
    <3> QED
      BY <3>1, <3>2
  <2>5. ASSUME NEW u \in Tenants, Offboard(u) PROVE Comes(p, t)
    <3>1. member'[p][t] = IF t = u THEN NoMember ELSE member[p][t]
      BY <1>1, <2>5 DEF Offboard, IInv, TypeOK
    <3> QED
      BY <3>1 DEF NoMember
  <2> HIDE DEF Comes
  <2>6. CASE UNCHANGED vars
    BY <2>1, <2>6 DEF vars, db
  <2>7. ASSUME NEW c \in Clients, ClientStep(c) PROVE Comes(p, t)
    BY <2>1, <2>2, <2>7
    DEF ClientStep, Resolve, FindInvitation, CheckOwner, RequestOffboarding, ShareTenant,
        InsertInvitation, CreateInvitation, LockInvitation, UpdateInvitation, LockIdentity,
        Admit, Abandon, db
  <2>8. ASSUME NEW o \in Operators, OperatorStep(o) PROVE Comes(p, t)
    BY <2>1, <2>3, <2>4, <2>8
    DEF OperatorStep, Command, Preflight, Provision, Invite, RevokeInvitation, Deliver, Stop, db
  <2> QED
    BY <1>1, <2>1, <2>5, <2>6, <2>7, <2>8 DEF Next, OffboardFails, db
<1>2. IInv /\ [Next]_vars => [\A p \in People, t \in Tenants : Comes(p, t)]_vars
  BY <1>1
<1> QED
  BY <1>2, Invariance, PTL DEF Spec, MembershipsAreInvited

=============================================================================
