-------------------------------- MODULE Members --------------------------------
(***************************************************************************)
(* Workspaces, their members and invitations: the handlers of              *)
(* routers/workspaces.py, the platform administration's quotas, and the    *)
(* row-level policies PostgreSQL applies to each of their statements       *)
(* (migrations 0005, 0008, 0010, 0011).                                    *)
(*                                                                         *)
(* A handler is a transaction.  It reads the actor's role without a lock   *)
(* (authorised), asks for the workspace row (asked), and goes on when it   *)
(* has it (locked) with what it then reads of the workspace (view); other  *)
(* transactions run in between.  The policy on a locking read is evaluated *)
(* when the statement starts, not when it gets the row.                    *)
(* Viewers and operators have the same rights here and are one role.  Of   *)
(* the workspaces that are not in Workspaces only the owners are kept.     *)
(***************************************************************************)
EXTENDS Integers, FiniteSets

CONSTANTS
  Requests,        \* handlers that may be under way together
  Null,
  Users, Workspaces,
  PlatformAdmins,  \* users to whom the ownership quota does not apply
  OwnerQuota,      \* settings.workspace_quota_per_user
  MemberQuotas     \* values Workspace.member_quota is set to

ASSUME MembersAssumption ==
  /\ Null \notin Requests \cup Users \cup Workspaces
  /\ IsFiniteSet(Users) /\ IsFiniteSet(Workspaces) /\ PlatformAdmins \subseteq Users
  /\ OwnerQuota \in Nat \ {0}
  /\ MemberQuotas \subseteq Nat \ {0} /\ MemberQuotas # {}

Roles == {"viewer", "admin", "owner"}
Managers == {"admin", "owner"}
Invitable == {"viewer", "admin"}

\* An invitation row: none, open for a role, or expired or accepted.
Invitations == {"none", "over"} \cup Invitable

VARIABLES
  member,                     \* memberships: the role of a user in a workspace
  invitation,                 \* workspace_invitations, by workspace and address
  quota,                      \* Workspace.member_quota
  elsewhere,                  \* how many of the other workspaces a user owns
  workspaceLock, invitationLock, userLock,
  request                     \* the handlers

rows == <<member, invitation, quota, elsewhere>>
locks == <<workspaceLock, invitationLock, userLock>>
vars == <<rows, locks, request>>

NoView == [role |-> [u \in Users |-> "none"], pending |-> {}]
Idle == [op |-> "none", at |-> "authorised", by |-> Null, in |-> Null, whom |-> Null,
         as |-> "none", view |-> NoView]

Init ==
  /\ member = [w \in Workspaces |-> [u \in Users |-> "none"]]
  /\ invitation = [w \in Workspaces |-> [u \in Users |-> "none"]]
  /\ quota \in [Workspaces -> MemberQuotas] /\ elsewhere = [u \in Users |-> 0]
  /\ workspaceLock = [w \in Workspaces |-> Null]
  /\ invitationLock = [w \in Workspaces |-> [u \in Users |-> Null]]
  /\ userLock = [u \in Users |-> Null]
  /\ request = [r \in Requests |-> Idle]

-----------------------------------------------------------------------------
(* Reading. *)

Members(w) == {u \in Users : member[w][u] # "none"}
Owners(roles) == {u \in Users : roles[u] = "owner"}

\* Not accepted and not expired.
Pending(w) == {u \in Users : invitation[w][u] \in Invitable}

Seats(w) == Cardinality(Members(w)) + Cardinality(Pending(w))

\* app_owned_workspace_count
Owned(u) == Cardinality({w \in Workspaces : member[w][u] = "owner"}) + elsewhere[u]

MayOwnMore(u) == u \in PlatformAdmins \/ Owned(u) < OwnerQuota

\* What the statements after _lock_workspace read; pending only matters to an invite.
View(r) ==
  LET w == request[r].in IN
  [role |-> member[w], pending |-> IF request[r].op = "invite" THEN Pending(w) ELSE {}]

In(r) == request[r].in
By(r) == request[r].by

\* Who the row-level policies take the actor to be, from the view of this statement.
ActsAs(r) == request[r].view.role[By(r)]

-----------------------------------------------------------------------------
(* Locks. *)

InvitationIsFree(r, w, u) == invitationLock[w][u] \in {Null, r}

\* Mutation: the workspace is read without FOR UPDATE.
WorkspaceIsReadable(w) == TRUE

WorkspaceIsFree(w) == workspaceLock[w] = Null

\* Mutation: the account is read without FOR UPDATE.
UserIsReadable(u) == TRUE

UserIsFree(u) == userLock[u] = Null

\* The transaction ends, its locks are released.
Release(r) ==
  /\ request' = [request EXCEPT ![r] = Idle]
  /\ workspaceLock' = [w \in Workspaces |-> IF workspaceLock[w] = r THEN Null ELSE workspaceLock[w]]
  /\ invitationLock' = [w \in Workspaces |-> [u \in Users |->
                          IF invitationLock[w][u] = r THEN Null ELSE invitationLock[w][u]]]
  /\ userLock' = [u \in Users |-> IF userLock[u] = r THEN Null ELSE userLock[u]]

-----------------------------------------------------------------------------
(* A request arrives and is authorised. *)

\* require_workspace_role(ADMIN): update_member_role and remove_member; invite_member
\* and revoke_invitation for an address.
Authorise(r, w, u, op, whom) ==
  /\ request[r] = Idle
  /\ member[w][u] \in Managers
  /\ op \in {"manage", "invite", "revoke"} /\ (op = "manage" <=> whom = Null)
  /\ op = "revoke" => invitation[w][whom] # "none"
  /\ request' = [request EXCEPT ![r] =
                   [Idle EXCEPT !.op = op, !.by = u, !.in = w, !.whom = whom,
                                !.as = IF op = "manage" THEN member[w][u] ELSE "none"]]
  /\ UNCHANGED <<rows, locks>>

\* The mail's link is followed with the account it was sent to; accept_invitation
\* locks the invitation.  Whether it has run out is only asked here.
FollowInvitation(r, w, u) ==
  /\ request[r] = Idle
  /\ u \in Pending(w) /\ InvitationIsFree(r, w, u)
  /\ invitationLock' = [invitationLock EXCEPT ![w][u] = r]
  /\ request' = [request EXCEPT ![r] = [Idle EXCEPT !.op = "accept", !.by = u, !.in = w,
                                          !.whom = u, !.as = invitation[w][u]]]
  /\ UNCHANGED <<rows, workspaceLock, userLock>>

\* The first statement of invite_member: an existing invitation is locked.  Then,
\* as in the other handlers, the workspace is asked for, which the policies
\* allow to its managers and to whom it has invited.
AskForWorkspace(r) ==
  LET w == In(r)
      u == request[r].whom IN
  /\ request[r].op \in {"manage", "invite", "accept"} /\ request[r].at = "authorised"
  /\ request[r].op # "accept" => member[w][By(r)] \in Managers
  /\ IF request[r].op = "invite" /\ invitation[w][u] # "none"
     THEN /\ InvitationIsFree(r, w, u)
          /\ invitationLock' = [invitationLock EXCEPT ![w][u] = r]
     ELSE UNCHANGED invitationLock
  /\ request' = [request EXCEPT ![r].at = "asked"]
  /\ UNCHANGED <<rows, workspaceLock, userLock>>

\* An invite that found no row before looks again now, and has to wait for the
\* row if somebody else has it.
LockWorkspace(r) ==
  LET w == In(r)
      u == request[r].whom
      late == /\ request[r].op = "invite" /\ invitation[w][u] # "none"
              /\ invitationLock[w][u] # r IN
  /\ request[r].at = "asked" /\ WorkspaceIsFree(w)
  /\ workspaceLock' = [workspaceLock EXCEPT ![w] = r]
  /\ request' = [request EXCEPT ![r].at = IF late THEN "late" ELSE "locked",
                                ![r].view = IF late THEN NoView ELSE View(r)]
  /\ UNCHANGED <<rows, invitationLock, userLock>>

LockLateInvitation(r) ==
  /\ request[r].at = "late" /\ InvitationIsFree(r, In(r), request[r].whom)
  /\ invitationLock' = [invitationLock EXCEPT ![In(r)][request[r].whom] = r]
  /\ request' = [request EXCEPT ![r].at = "locked", ![r].view = View(r)]
  /\ UNCHANGED <<rows, workspaceLock, userLock>>

Locked(r, op) == request[r].op = op /\ request[r].at = "locked"

-----------------------------------------------------------------------------
(* Managing members. *)

\* Mutation: no policy on memberships, the role read at the start decides.
NoPolicy(r, role) == TRUE

\* app_membership_existing_manage_allowed, evaluated under the workspace lock.
Manageable(r, role) ==
  CASE ActsAs(r) = "owner" -> role # "owner" \/ Cardinality(Owners(request[r].view.role)) > 1
    [] ActsAs(r) = "admin" -> role # "owner"
    [] OTHER -> FALSE

\* The handlers' own rule, with the role read at the start.
RoleAllows(r, role) == request[r].as = "owner" \/ role # "owner"

\* app_membership_new_role_allowed
NewRoleAllowed(r, role) == ActsAs(r) = "owner" \/ (ActsAs(r) = "admin" /\ role # "owner")

\* What a manager may do to a member at all: the membership is found and unlocked
\* by the policies, the handler agrees, and an owner is not the last one.
MayManage(r, u) ==
  LET roles == request[r].view.role IN
  /\ Locked(r, "manage") /\ roles[u] # "none"
  /\ Manageable(r, roles[u]) /\ RoleAllows(r, roles[u])

\* update_member_role; whoever becomes an owner has been locked before.
ChangeRole(r, u, role) ==
  LET roles == request[r].view.role IN
  /\ MayManage(r, u) /\ RoleAllows(r, role)
  /\ NewRoleAllowed(r, role)
  /\ request[r].whom = IF role = "owner" /\ roles[u] # "owner" THEN u ELSE Null
  /\ role # "owner" /\ roles[u] = "owner" => Cardinality(Owners(roles)) # 1
  /\ member' = [member EXCEPT ![In(r)][u] = role]
  /\ Release(r)
  /\ UNCHANGED <<invitation, quota, elsewhere>>

\* Mutation: the account is locked while the workspace is still waited for.
LockNewOwnerEarly(r, u) ==
  /\ request[r].op = "manage" /\ request[r].at = "asked" /\ request[r].whom = Null
  /\ UserIsFree(u) /\ MayOwnMore(u)
  /\ userLock' = [userLock EXCEPT ![u] = r]
  /\ request' = [request EXCEPT ![r].whom = u]
  /\ UNCHANGED <<rows, workspaceLock, invitationLock>>

\* update_member_role, a new owner: the account is locked, then its workspaces are
\* counted.
LockNewOwner(r, u) ==
  /\ MayManage(r, u) /\ RoleAllows(r, "owner")
  /\ request[r].whom = Null /\ request[r].view.role[u] # "owner"
  /\ UserIsFree(u) /\ MayOwnMore(u)
  /\ userLock' = [userLock EXCEPT ![u] = r]
  /\ request' = [request EXCEPT ![r].whom = u]
  /\ UNCHANGED <<rows, workspaceLock, invitationLock>>

\* remove_member
Remove(r, u) ==
  LET roles == request[r].view.role IN
  /\ MayManage(r, u) /\ request[r].whom = Null
  /\ roles[u] = "owner" => Cardinality(Owners(roles)) > 1
  /\ member' = [member EXCEPT ![In(r)][u] = "none"]
  /\ Release(r)
  /\ UNCHANGED <<invitation, quota, elsewhere>>

-----------------------------------------------------------------------------
(* Invitations. *)

\* Mutation: open invitations do not count.
SlotsWithoutPending(r) == Cardinality({u \in Users : request[r].view.role[u] # "none"}) + 1

\* occupied + pending, and one more unless this invitation holds its slot already
SlotsNeeded(r) ==
  LET view == request[r].view IN
  Cardinality({u \in Users : view.role[u] # "none"})
    + Cardinality(view.pending \cup {request[r].whom})

\* invite_member, a new row or one that is used again.  The tenant policy asks for
\* a membership of whatever role.
Invite(r, role) ==
  /\ Locked(r, "invite")
  /\ request[r].view.role[request[r].whom] = "none"
  /\ SlotsNeeded(r) <= quota[In(r)]
  /\ member[In(r)][By(r)] # "none"
  /\ role \in Invitable
  /\ invitation' = [invitation EXCEPT ![In(r)][request[r].whom] = role]
  /\ Release(r)
  /\ UNCHANGED <<member, quota, elsewhere>>

\* Mutation: the row is marked as accepted before its role is taken from it.
JoinsAsMarked(r) == "over"

JoinsAs(r) == request[r].as

\* accept_invitation
Accept(r) ==
  /\ Locked(r, "accept")
  /\ request[r].view.role[By(r)] = "none"
  /\ Cardinality({u \in Users : request[r].view.role[u] # "none"}) < quota[In(r)]
  /\ member' = [member EXCEPT ![In(r)][By(r)] = JoinsAs(r)]
  /\ invitation' = [invitation EXCEPT ![In(r)][By(r)] = "over"]
  /\ Release(r)
  /\ UNCHANGED <<quota, elsewhere>>

\* revoke_invitation deletes the row it found, or what has become of it.
Revoke(r) ==
  /\ request[r].op = "revoke" /\ InvitationIsFree(r, In(r), request[r].whom)
  /\ member[In(r)][By(r)] # "none"
  /\ invitation' = [invitation EXCEPT ![In(r)][request[r].whom] = "none"]
  /\ Release(r)
  /\ UNCHANGED <<member, quota, elsewhere>>

-----------------------------------------------------------------------------
(* Workspaces. *)

\* create_workspace, first part: the account is locked, its workspaces counted.
LockCreator(r, u) ==
  /\ request[r] = Idle
  /\ UserIsFree(u) /\ MayOwnMore(u)
  /\ userLock' = [userLock EXCEPT ![u] = r]
  /\ request' = [request EXCEPT ![r] = [Idle EXCEPT !.op = "create", !.by = u]]
  /\ UNCHANGED <<rows, workspaceLock, invitationLock>>

\* A user is to own one of the other workspaces: a new one, or by a change of role
\* there, which locks and counts in the same way.
OwnElsewhere(r) ==
  /\ request[r].op = "create"
  /\ elsewhere' = [elsewhere EXCEPT ![By(r)] = @ + 1]
  /\ Release(r)
  /\ UNCHANGED <<member, invitation, quota>>

\* One of the other workspaces changes its owner or loses one of them.
LoseElsewhere(u) ==
  /\ elsewhere[u] > 0
  /\ elsewhere' = [elsewhere EXCEPT ![u] = @ - 1]
  /\ UNCHANGED <<member, invitation, quota, locks, request>>

\* app_membership_insert_allowed, for an owner
Unclaimed(w) == Members(w) = {}

\* create_workspace, second part: the new workspace takes its owner.
Create(r, w) ==
  /\ request[r].op = "create" /\ Unclaimed(w)
  /\ member' = [member EXCEPT ![w][By(r)] = "owner"]
  /\ Release(r)
  /\ UNCHANGED <<invitation, quota, elsewhere>>

\* update_workspace_quotas, by the platform administration; it may go below what
\* is occupied.
SetQuota(w, q) ==
  /\ WorkspaceIsFree(w) /\ quota[w] # q
  /\ quota' = [quota EXCEPT ![w] = q]
  /\ UNCHANGED <<member, invitation, elsewhere, locks, request>>

\* A problem is raised: no right any more, a limit, an address that was mailed a
\* moment ago, or a deadlock of which this is the victim.
Refused(r) ==
  /\ request[r] # Idle
  /\ Release(r)
  /\ UNCHANGED rows

\* expires_at passes, whoever has the row locked.
Expire(w, u) ==
  /\ u \in Pending(w)
  /\ invitation' = [invitation EXCEPT ![w][u] = "over"]
  /\ UNCHANGED <<member, quota, elsewhere, locks, request>>

-----------------------------------------------------------------------------
(* Who waits for whom. *)

NeedsInvitation(r, w, u) ==
  /\ w = In(r) /\ u = request[r].whom
  /\ \/ request[r].op = "invite" /\ request[r].at = "authorised"
     \/ request[r].at = "late"
     \/ request[r].op = "revoke"

WaitsFor(r, q) ==
  \/ \E w \in Workspaces : request[r].at = "asked" /\ w = In(r) /\ workspaceLock[w] = q
  \/ \E w \in Workspaces, u \in Users : NeedsInvitation(r, w, u) /\ invitationLock[w][u] = q
  \/ Locked(r, "manage") /\ \E u \in Users : request[r].whom = Null /\ userLock[u] = q

Deadlocked(r, q) == r # q /\ WaitsFor(r, q) /\ WaitsFor(q, r)

-----------------------------------------------------------------------------
Manage(r) ==
  \E u \in Users : Remove(r, u) \/ LockNewOwner(r, u) \/ \E role \in Roles : ChangeRole(r, u, role)

Next ==
  \/ \E r \in Requests, w \in Workspaces, u \in Users, whom \in Users \cup {Null},
        op \in {"manage", "invite", "revoke"} : Authorise(r, w, u, op, whom)
  \/ \E r \in Requests, w \in Workspaces, u \in Users : FollowInvitation(r, w, u)
  \/ \E r \in Requests : AskForWorkspace(r) \/ LockWorkspace(r) \/ LockLateInvitation(r)
  \/ \E r \in Requests : Manage(r) \/ Accept(r) \/ Revoke(r) \/ OwnElsewhere(r) \/ Refused(r)
  \/ \E r \in Requests, role \in Invitable : Invite(r, role)
  \/ \E r \in Requests, u \in Users : LockCreator(r, u)
  \/ \E r \in Requests, w \in Workspaces : Create(r, w)
  \/ \E w \in Workspaces, q \in MemberQuotas : SetQuota(w, q)
  \/ \E w \in Workspaces, u \in Users : Expire(w, u)
  \/ \E u \in Users : LoseElsewhere(u)

Spec == Init /\ [][Next]_vars

-----------------------------------------------------------------------------
(* Properties. *)

\* Rows, locks and handlers have values of their types.
TypeOK ==
  /\ member \in [Workspaces -> [Users -> Roles \cup {"none"}]]
  /\ invitation \in [Workspaces -> [Users -> Invitations]]
  /\ quota \in [Workspaces -> MemberQuotas] /\ elsewhere \in [Users -> Nat]
  /\ workspaceLock \in [Workspaces -> Requests \cup {Null}]
  /\ invitationLock \in [Workspaces -> [Users -> Requests \cup {Null}]]
  /\ userLock \in [Users -> Requests \cup {Null}]
  /\ request \in [Requests ->
       [op : {"none", "manage", "invite", "revoke", "accept", "create"},
        at : {"authorised", "asked", "late", "locked"},
        by : Users \cup {Null}, in : Workspaces \cup {Null}, whom : Users \cup {Null},
        as : Roles \cup {"none"},
        view : [role : [Users -> Roles \cup {"none"}], pending : SUBSET Users]]]

\* However many owners step down, demote or remove each other at once, a workspace
\* keeps one: without one nobody could ever manage it again (update_member_role,
\* remove_member).
AlwaysAnOwner == \A w \in Workspaces : Members(w) # {} => Owners(member[w]) # {}

\* An account owns no more workspaces than its quota, although workspaces are created
\* and ownerships handed to it in several workspaces at once (create_workspace,
\* update_member_role); platform administrators are exempt.
OwnershipQuota == \A u \in Users \ PlatformAdmins : Owned(u) <= OwnerQuota

\* Two handlers only wait for each other if one of them is an invite that found its
\* row on the second look: everywhere else invitations come before workspaces and
\* those before accounts.
OnlyLateRowsDeadlock ==
  \A r, q \in Requests : Deadlocked(r, q) => "late" \in {request[r].at, request[q].at}

\* Nobody joins a full workspace, and nobody is invited to a seat that is taken or
\* promised to another invitation (invite_member, accept_invitation).
SeatsAreLimited ==
  [][\A w \in Workspaces :
       /\ ~(Members(w)' \subseteq Members(w)) => Cardinality(Members(w)') <= quota[w]
       /\ ~(Pending(w)' \subseteq Pending(w)) => Seats(w)' <= quota[w]]_vars

\* Who manages r's workspace at this moment, and may touch this role.
Entitled(r, role) ==
  /\ request[r].op = "manage"
  /\ member[In(r)][By(r)] \in Managers
  /\ role = "owner" => member[In(r)][By(r)] = "owner"

\* A role is only changed, and a member only removed, for somebody who manages the
\* workspace at that very moment, and owners only by owners: a role that was taken
\* away while the request waited does not count any more.
OnlyManagersManage ==
  [][\A w \in Workspaces, u \in Users :
       member[w][u] # "none" /\ member'[w][u] # member[w][u] =>
         \E r \in Requests : /\ In(r) = w /\ Entitled(r, member[w][u])
                             /\ Entitled(r, member'[w][u])]_vars

=============================================================================
