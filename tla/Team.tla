-------------------------------- MODULE Team --------------------------------
(***************************************************************************)
(* The members of one company: services/platform-admin/memberships.ts and  *)
(* provisionCompanyUser for the platform's administrators, the invitations *)
(* of routes/misc.ts, and their acceptance in routes/auth.ts and           *)
(* services/auth/gateway-signin.ts.                                        *)
(*                                                                         *)
(* Every statement is a step, also inside a transaction: PostgreSQL runs   *)
(* them at READ COMMITTED, so a count may be old when the update that      *)
(* relies on it commits.                                                   *)
(***************************************************************************)
EXTENDS Naturals, FiniteSets

CONSTANTS
    People,       \* accounts, one e-mail each
    NoPerson,     \* what an idle request is about
    Actions,      \* requests that may be in flight together
    Invites,      \* invitations that may be created
    NoInvite,     \* the request is not about an invitation
    MaxUsers,     \* limits.maxUsers of the plan
    MaxRequests   \* bound on the requests made

ASSUME NobodyApart == NoPerson \notin People /\ NoInvite \notin Invites
ASSUME TeamBounds == MaxUsers \in Nat /\ MaxRequests \in Nat

VARIABLES
    membership,   \* the Membership row of each person
    removals,     \* rows removed so far
    requests,     \* requests made so far
    invite,       \* the UserInvite rows
    action        \* what each request has read and where it stands

teamVars == <<membership, removals, requests, invite, action>>

Roles == {"ADMIN", "AGENT"}
Rows == [id : 1..MaxRequests + 1, role : Roles, suspended : BOOLEAN, isActive : BOOLEAN]
NoRow == [id |-> 0, role |-> "AGENT", suspended |-> FALSE, isActive |-> FALSE]

IdleAction == [at |-> "idle", who |-> NoPerson, role |-> "AGENT", row |-> NoRow,
               others |-> {}, of |-> NoInvite]

Places == {"idle", "role", "suspend", "activate", "remove", "write-role", "write-suspend",
           "write-remove", "add", "rejoin", "create", "member", "revoke", "invite",
           "withdraw", "accept", "upsert", "mark"}

\* Type invariant.
TeamTypeOK ==
    /\ membership \in [People -> Rows \union {NoRow}]
    /\ removals \in Nat /\ requests \in 0..MaxRequests
    /\ invite \in [Invites -> [status : {"none", "pending", "accepted", "revoked"},
                               who : People \union {NoPerson}, role : Roles]]
    /\ action \in [Actions -> [at : Places, who : People \union {NoPerson}, role : Roles,
                               row : Rows \union {NoRow}, others : SUBSET People,
                               of : Invites \union {NoInvite}]]

\* One administrator and anybody else.
TeamInit ==
    /\ \E boss \in People, rest \in [People -> Roles \union {"none"}] :
          membership = [p \in People |->
              IF p # boss /\ rest[p] = "none" THEN NoRow
              ELSE [id |-> 1, role |-> IF p = boss THEN "ADMIN" ELSE rest[p],
                    suspended |-> FALSE, isActive |-> TRUE]]
    /\ removals = 0 /\ requests = 0
    /\ invite = [i \in Invites |-> [status |-> "none", who |-> NoPerson, role |-> "AGENT"]]
    /\ action = [a \in Actions |-> IdleAction]

-----------------------------------------------------------------------------
Member(p) == membership[p] # NoRow

\* The rows the guard counts: role ADMIN, status ACTIVE, isActive.
Admins == {p \in People : /\ membership[p].role = "ADMIN"
                          /\ ~membership[p].suspended /\ membership[p].isActive}

NewRow(role) == [id |-> removals + 1, role |-> role, suspended |-> FALSE, isActive |-> TRUE]

Begin(a, request) ==
    /\ action[a].at = "idle" /\ requests < MaxRequests
    /\ requests' = requests + 1
    /\ action' = [action EXCEPT ![a] = request]

Proceed(a, request) == action' = [action EXCEPT ![a] = request] /\ UNCHANGED requests
Step(a, place) == Proceed(a, [action[a] EXCEPT !.at = place])
Answer(a) == Proceed(a, IdleAction)

-----------------------------------------------------------------------------
\* updateTenantMemberRole, toggleTenantMemberStatus and removeTenantMember: the row is
\* read, with its id.  A PATCH with a role and a status is two of these in turn.
ReadMember(a, p) ==
    /\ Member(p)
    /\ \E what \in {"role", "suspend", "activate", "remove"}, role \in Roles :
          Begin(a, [IdleAction EXCEPT !.at = what, !.who = p, !.role = role,
                                      !.row = membership[p]])
    /\ UNCHANGED <<membership, removals, invite>>

\* When the change could cost the company its last administrator.
MustCount(a) ==
    LET row == action[a].row IN
    /\ row.role = "ADMIN"
    /\ \/ action[a].at = "role" /\ action[a].role # "ADMIN"
       \/ action[a].at = "suspend"
       \/ action[a].at = "remove" /\ ~row.suspended /\ row.isActive

Write(a) == CASE action[a].at = "role" -> "write-role"
              [] action[a].at = "remove" -> "write-remove"
              [] OTHER -> "write-suspend"

\* (Mutant) the count includes the member whose row is about to change.
CountAdminsWithSelf(a) ==
    /\ action[a].at \in {"role", "suspend", "remove"}
    /\ LET others == Admins \ {action[a].who} IN
          IF MustCount(a) /\ Admins = {}
          THEN Answer(a)
          ELSE Proceed(a, [action[a] EXCEPT !.at = Write(a), !.others = others])
    /\ UNCHANGED <<membership, removals, invite>>

\* The other active administrators are counted: with none, LAST_TENANT_ADMIN_PROTECTED.
CountAdmins(a) ==
    /\ action[a].at \in {"role", "suspend", "remove"}
    /\ LET others == Admins \ {action[a].who} IN
          IF MustCount(a) /\ others = {}
          THEN Answer(a)
          ELSE Proceed(a, [action[a] EXCEPT !.at = Write(a), !.others = others])
    /\ UNCHANGED <<membership, removals, invite>>

\* The update by id and the commit; a row removed since is an error.
SameRow(a) == membership[action[a].who].id = action[a].row.id

Update(a, row) ==
    /\ IF SameRow(a) THEN membership' = [membership EXCEPT ![action[a].who] = row]
                     ELSE UNCHANGED membership
    /\ Answer(a)

WriteRole(a) ==
    /\ action[a].at = "write-role"
    /\ Update(a, [membership[action[a].who] EXCEPT !.role = action[a].role])
    /\ UNCHANGED <<removals, invite>>

WriteSuspended(a) ==
    /\ action[a].at = "write-suspend"
    /\ Update(a, [membership[action[a].who] EXCEPT !.suspended = TRUE, !.isActive = FALSE])
    /\ UNCHANGED <<removals, invite>>

WriteActive(a) ==
    /\ action[a].at = "activate"
    /\ Update(a, [membership[action[a].who] EXCEPT !.suspended = FALSE, !.isActive = TRUE])
    /\ UNCHANGED <<removals, invite>>

WriteRemoved(a) ==
    /\ action[a].at = "write-remove"
    /\ Update(a, NoRow)
    /\ removals' = IF SameRow(a) THEN removals + 1 ELSE removals
    /\ UNCHANGED invite

-----------------------------------------------------------------------------
\* addTenantMember by user id, and (without the reactivation) provisionCompanyUser by
\* e-mail: an active member is a conflict.
ReadNewcomer(a, p) ==
    /\ \E role \in Roles :
          IF ~Member(p)
          THEN Begin(a, [IdleAction EXCEPT !.at = "create", !.who = p, !.role = role])
          ELSE /\ membership[p].suspended \/ ~membership[p].isActive
               /\ \E kept \in {role, membership[p].role} :   \* body.role || existing.role
                     Begin(a, [IdleAction EXCEPT !.at = "rejoin", !.who = p, !.role = kept,
                                                 !.row = membership[p]])
    /\ UNCHANGED <<membership, removals, invite>>

Rejoin(a) ==
    /\ action[a].at = "rejoin"
    /\ Update(a, [membership[action[a].who] EXCEPT !.suspended = FALSE, !.isActive = TRUE,
                                                   !.role = action[a].role])
    /\ UNCHANGED <<removals, invite>>

\* The unique index refuses a second row.
CreateMember(a) ==
    LET p == action[a].who IN
    /\ action[a].at = "create"
    /\ membership' = IF Member(p) THEN membership
                     ELSE [membership EXCEPT ![p] = NewRow(action[a].role)]
    /\ Answer(a)
    /\ UNCHANGED <<removals, invite>>

-----------------------------------------------------------------------------
\* POST /team/invite: the seats of the plan, then whether the person is an active
\* member, then the earlier invitations are revoked, then the new one is created.
CountSeats(a, p) ==
    /\ Cardinality({m \in People : membership[m].isActive}) < MaxUsers
    /\ \E i \in Invites, role \in Roles :
          /\ invite[i].status = "none" /\ \A b \in Actions : action[b].of # i
          /\ Begin(a, [IdleAction EXCEPT !.at = "member", !.who = p, !.role = role, !.of = i])
    /\ UNCHANGED <<membership, removals, invite>>

CheckInvited(a) ==
    /\ action[a].at = "member"
    /\ IF membership[action[a].who].isActive THEN Answer(a) ELSE Step(a, "revoke")
    /\ UNCHANGED <<membership, removals, invite>>

RevokeEarlier(a) ==
    /\ action[a].at = "revoke"
    /\ invite' = [i \in Invites |->
          IF invite[i].status = "pending" /\ invite[i].who = action[a].who
          THEN [invite[i] EXCEPT !.status = "revoked"] ELSE invite[i]]
    /\ Step(a, "invite")
    /\ UNCHANGED <<membership, removals>>

CreateInvite(a) ==
    /\ action[a].at = "invite"
    /\ invite' = [invite EXCEPT ![action[a].of] =
          [status |-> "pending", who |-> action[a].who, role |-> action[a].role]]
    /\ Answer(a)
    /\ UNCHANGED <<membership, removals>>

\* POST /team/invites/:id/revoke, read and update.
ReadInvite(a, i, what) ==
    /\ invite[i].status = "pending"
    /\ Begin(a, [IdleAction EXCEPT !.at = what, !.who = invite[i].who,
                                   !.role = invite[i].role, !.of = i])
    /\ UNCHANGED <<membership, removals, invite>>

Withdraw(a) ==
    /\ action[a].at = "withdraw"
    /\ invite' = [invite EXCEPT ![action[a].of].status = "revoked"]
    /\ Answer(a)
    /\ UNCHANGED <<membership, removals>>

\* Accepting: the row is written whatever the person is in the company by now.
Accepted(a) ==
    LET p == action[a].who IN
    [membership EXCEPT ![p] = IF Member(p)
        THEN [membership[p] EXCEPT !.role = action[a].role, !.isActive = TRUE]
        ELSE NewRow(action[a].role)]

\* POST /auth/accept-invite: one transaction.
AcceptInvite(a) ==
    /\ action[a].at = "accept"
    /\ membership' = Accepted(a)
    /\ invite' = [invite EXCEPT ![action[a].of].status = "accepted"]
    /\ Answer(a)
    /\ UNCHANGED removals

\* gatewayAcceptInvite: two statements.
GatewayUpsert(a) ==
    /\ action[a].at = "upsert"
    /\ membership' = Accepted(a)
    /\ Step(a, "mark")
    /\ UNCHANGED <<removals, invite>>

GatewayMark(a) ==
    /\ action[a].at = "mark"
    /\ invite' = [invite EXCEPT ![action[a].of].status = "accepted"]
    /\ Answer(a)
    /\ UNCHANGED <<membership, removals>>

-----------------------------------------------------------------------------
TeamStep(a) ==
    \/ CountAdmins(a) \/ WriteRole(a) \/ WriteSuspended(a) \/ WriteActive(a) \/ WriteRemoved(a)
    \/ Rejoin(a) \/ CreateMember(a)
    \/ CheckInvited(a) \/ RevokeEarlier(a) \/ CreateInvite(a)
    \/ Withdraw(a) \/ AcceptInvite(a) \/ GatewayUpsert(a) \/ GatewayMark(a)

TeamNext ==
    \/ \E a \in Actions, p \in People :
          ReadMember(a, p) \/ ReadNewcomer(a, p) \/ CountSeats(a, p)
    \/ \E a \in Actions, i \in Invites, what \in {"withdraw", "accept", "upsert"} :
          ReadInvite(a, i, what)
    \/ \E a \in Actions : TeamStep(a)

TeamSpec == TeamInit /\ [][TeamNext]_teamVars

-----------------------------------------------------------------------------
\* Nobody wrote what the request relies on since it read it.
Undisturbed(a) ==
    /\ membership[action[a].who] = action[a].row
    /\ Admins \ {action[a].who} = action[a].others

\* A change of role, a suspension or a removal does not leave the company without an
\* active administrator, whatever mixture of requests, reactivations and invitations
\* came before, unless the rows it relies on changed under it (memberships.ts:177,
\* 237 and 299).
LastAdminGuarded ==
    [][\A a \in Actions :
          /\ action[a].at \in {"write-role", "write-suspend", "write-remove"}
          /\ action'[a] # action[a]
          /\ Undisturbed(a) /\ Admins # {}
          => Admins' # {}]_teamVars

\* memberships.ts:297: "Protecao concorrente: nao permitir remover o ultimo ADMIN ativo
\* do tenant".
LastAdminKept == Admins # {}
=============================================================================
