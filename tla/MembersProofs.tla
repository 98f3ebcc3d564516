----------------------------- MODULE MembersProofs -----------------------------
(* Proofs about Members, for every value of its constants. *)
EXTENDS Members, FiniteSetTheorems, TLAPS

-----------------------------------------------------------------------------
(* Invariants. *)

\* What a handler knows of itself.
Shape(r) ==
  /\ request[r].op # "none" => By(r) \in Users
  /\ request[r].op \in {"manage", "invite", "revoke", "accept"} => In(r) \in Workspaces
  /\ request[r].op \in {"invite", "revoke", "accept"} => request[r].whom \in Users
  /\ request[r].op = "accept" => request[r].whom = By(r) /\ request[r].as \in Invitable
  /\ request[r].at # "authorised" => request[r].op \in {"manage", "invite", "accept"}
  /\ request[r].at = "late" => request[r].op = "invite"

TypeInv == TypeOK /\ \A r \in Requests : Shape(r)

\* Who holds a lock has taken it on its way; who is past a lock holds it.
Holds(r) ==
  /\ \A w \in Workspaces : workspaceLock[w] = r <=> request[r].at \in {"late", "locked"} /\ In(r) = w
  /\ \A w \in Workspaces, u \in Users : invitationLock[w][u] = r =>
       /\ In(r) = w /\ request[r].whom = u /\ request[r].op \in {"invite", "accept"}
       /\ request[r].op = "invite" => request[r].at # "authorised"
  /\ \A u \in Users : userLock[u] = r <=>
       \/ request[r].op = "create" /\ By(r) = u
       \/ request[r].op = "manage" /\ request[r].whom = u
  /\ request[r].op = "manage" /\ request[r].whom # Null => request[r].at = "locked"

HoldInv == \A r \in Requests : Holds(r)

\* A workspace with members has an owner; handlers and invitations are of such
\* workspaces; and what a handler has read under the workspace's lock is still true,
\* but for invitations that have run out or were revoked.
HasOwner(w) == \E v \in Users : member[w][v] = "owner"

Claimed ==
  \A w \in Workspaces, u \in Users :
    member[w][u] # "none" \/ invitation[w][u] # "none" => HasOwner(w)

AboutClaimed(r) ==
  request[r].op \in {"manage", "invite", "revoke", "accept"} => HasOwner(In(r))

SeesTruth(r) ==
  request[r].at = "locked" =>
    /\ request[r].view.role = member[In(r)]
    /\ request[r].op = "invite" => Pending(In(r)) \subseteq request[r].view.pending

OwnerInv == Claimed /\ \A r \in Requests : AboutClaimed(r) /\ SeesTruth(r)

\* An account that somebody has locked to make it an owner may own one more.
QuotaInv == OwnershipQuota /\ \A u \in Users : userLock[u] \in Requests => MayOwnMore(u)

-----------------------------------------------------------------------------
(* Steps. *)

\* The transactions that end, and the statements of those that go on.
Ending(r) ==
  \/ \E u \in Users : Remove(r, u) \/ \E role \in Roles : ChangeRole(r, u, role)
  \/ Accept(r) \/ Revoke(r) \/ OwnElsewhere(r) \/ Refused(r)
  \/ \E role \in Invitable : Invite(r, role)
  \/ \E w \in Workspaces : Create(r, w)

Arriving(r) ==
  \/ \E w \in Workspaces, u \in Users, whom \in Users \cup {Null},
        op \in {"manage", "invite", "revoke"} : Authorise(r, w, u, op, whom)
  \/ \E w \in Workspaces, u \in Users : FollowInvitation(r, w, u)
  \/ \E u \in Users : LockCreator(r, u)

Waiting(r) ==
  \/ AskForWorkspace(r) \/ LockWorkspace(r) \/ LockLateInvitation(r)
  \/ \E u \in Users : LockNewOwner(r, u)

HandlerStep(r) == Ending(r) \/ Arriving(r) \/ Waiting(r)

\* What no handler of these does.
Outside ==
  \/ \E w \in Workspaces, q \in MemberQuotas : SetQuota(w, q)
  \/ \E w \in Workspaces, u \in Users : Expire(w, u)
  \/ \E u \in Users : LoseElsewhere(u)

LEMMA NextSteps ==
  [Next]_vars => (\E r \in Requests : HandlerStep(r)) \/ Outside \/ UNCHANGED vars
<1>1. Next => (\E r \in Requests : HandlerStep(r)) \/ Outside
  BY DEF Next, HandlerStep, Ending, Arriving, Waiting, Outside, Manage
<1> QED
  BY <1>1

LEMMA OutsideKeepsHandlers == Outside => UNCHANGED <<request, member, locks>>
  BY DEF Outside, SetQuota, Expire, LoseElsewhere, locks

LEMMA EndingReleases == ASSUME NEW r, Ending(r) PROVE Release(r)
  BY DEF Ending, Remove, ChangeRole, Accept, Revoke, OwnElsewhere, Refused, Invite, Create

LEMMA OthersKeepRows ==
  ASSUME NEW r, Arriving(r) \/ Waiting(r)
  PROVE  UNCHANGED rows
  BY DEF Arriving, Waiting, Authorise, FollowInvitation, LockCreator, AskForWorkspace,
     LockWorkspace, LockLateInvitation, LockNewOwner

-----------------------------------------------------------------------------
(* Types *)

Views == [role : [Users -> Roles \cup {"none"}], pending : SUBSET Users]
Records ==
  [op : {"none", "manage", "invite", "revoke", "accept", "create"},
   at : {"authorised", "asked", "late", "locked"},
   by : Users \cup {Null}, in : Workspaces \cup {Null}, whom : Users \cup {Null},
   as : Roles \cup {"none"}, view : Views]

MemberTyped == member \in [Workspaces -> [Users -> Roles \cup {"none"}]]
InvitationTyped == invitation \in [Workspaces -> [Users -> Invitations]]
NumbersTyped == quota \in [Workspaces -> MemberQuotas] /\ elsewhere \in [Users -> Nat]
LocksTyped ==
  /\ workspaceLock \in [Workspaces -> Requests \cup {Null}]
  /\ invitationLock \in [Workspaces -> [Users -> Requests \cup {Null}]]
  /\ userLock \in [Users -> Requests \cup {Null}]
RequestTyped == request \in [Requests -> Records]

LEMMA TypeParts ==
  TypeOK <=> MemberTyped /\ InvitationTyped /\ NumbersTyped /\ LocksTyped /\ RequestTyped
  BY DEF TypeOK, MemberTyped, InvitationTyped, NumbersTyped, LocksTyped, RequestTyped, Records, Views

LEMMA TypePartsPrimed ==
  TypeOK' <=> MemberTyped' /\ InvitationTyped' /\ NumbersTyped' /\ LocksTyped' /\ RequestTyped'
  BY DEF TypeOK, MemberTyped, InvitationTyped, NumbersTyped, LocksTyped, RequestTyped, Records, Views

LEMMA IdleType ==
  /\ NoView \in Views /\ Idle \in Records
  /\ Idle.op = "none" /\ Idle.at = "authorised" /\ Idle.in = Null /\ Idle.whom = Null
<1>1. NoView \in Views
  BY DEF NoView, Views
<1> QED
  BY <1>1 DEF Idle, Records

\* Null is nobody.
LEMMA NullIsNobody == Null \notin Requests /\ Null \notin Users /\ Null \notin Workspaces
  BY MembersAssumption

LEMMA ReleaseEffect ==
  ASSUME LocksTyped, RequestTyped, NEW r \in Requests, Release(r)
  PROVE  /\ LocksTyped' /\ RequestTyped' /\ request'[r] = Idle
         /\ \A q \in Requests : q # r => request'[q] = request[q]
         /\ \A w \in Workspaces : workspaceLock'[w] = IF workspaceLock[w] = r THEN Null ELSE workspaceLock[w]
         /\ \A w \in Workspaces, u \in Users :
              invitationLock'[w][u] = IF invitationLock[w][u] = r THEN Null ELSE invitationLock[w][u]
         /\ \A u \in Users : userLock'[u] = IF userLock[u] = r THEN Null ELSE userLock[u]
<1>1. RequestTyped' /\ request'[r] = Idle /\ \A q \in Requests : q # r => request'[q] = request[q]
  BY IdleType DEF Release, RequestTyped
<1>2. LocksTyped'
  BY DEF Release, LocksTyped
<1>3. /\ \A w \in Workspaces : workspaceLock'[w] = IF workspaceLock[w] = r THEN Null ELSE workspaceLock[w]
      /\ \A w \in Workspaces, u \in Users :
           invitationLock'[w][u] = IF invitationLock[w][u] = r THEN Null ELSE invitationLock[w][u]
      /\ \A u \in Users : userLock'[u] = IF userLock[u] = r THEN Null ELSE userLock[u]
  BY DEF Release
<1> QED
  BY <1>1, <1>2, <1>3

\* The statements that go on: what becomes of the handler and its locks.
LEMMA AuthoriseEffect ==
  ASSUME TypeOK, NEW r \in Requests, NEW w \in Workspaces, NEW u \in Users,
         NEW whom \in Users \cup {Null}, NEW op \in {"manage", "invite", "revoke"},
         Authorise(r, w, u, op, whom)
  PROVE  /\ request'[r] \in Records /\ request' = [request EXCEPT ![r] = request'[r]]
         /\ request'[r].op = op /\ request'[r].at = "authorised" /\ By(r)' = u /\ In(r)' = w
         /\ request'[r].whom = whom
<1>1. member[w][u] \in Roles \cup {"none"} /\ request \in [Requests -> Records]
  BY TypeParts DEF MemberTyped, RequestTyped
<1> DEFINE x == [Idle EXCEPT !.op = op, !.by = u, !.in = w, !.whom = whom,
                             !.as = IF op = "manage" THEN member[w][u] ELSE "none"]
<1>2. x \in Records /\ x.op = op /\ x.at = "authorised" /\ x.by = u /\ x.in = w /\ x.whom = whom
  BY <1>1, IdleType DEF Records
<1>3. request' = [request EXCEPT ![r] = x]
  BY DEF Authorise
<1> QED
  BY <1>1, <1>2, <1>3 DEF By, In

LEMMA FollowInvitationEffect ==
  ASSUME TypeOK, NEW r \in Requests, NEW w \in Workspaces, NEW u \in Users,
         FollowInvitation(r, w, u)
  PROVE  /\ request'[r] \in Records /\ request' = [request EXCEPT ![r] = request'[r]]
         /\ request'[r].op = "accept" /\ request'[r].at = "authorised" /\ By(r)' = u /\ In(r)' = w
         /\ request'[r].whom = u /\ request'[r].as = invitation[w][u]
         /\ invitation[w][u] \in Invitable
<1>1. invitation[w][u] \in Invitable /\ request \in [Requests -> Records]
  BY TypeParts DEF RequestTyped, FollowInvitation, Pending
<1> DEFINE x == [Idle EXCEPT !.op = "accept", !.by = u, !.in = w, !.whom = u, !.as = invitation[w][u]]
<1>2. /\ x \in Records /\ x.op = "accept" /\ x.at = "authorised" /\ x.by = u /\ x.in = w
      /\ x.whom = u /\ x.as = invitation[w][u]
  BY <1>1, IdleType DEF Records, Invitable, Roles
<1>3. request' = [request EXCEPT ![r] = x]
  BY DEF FollowInvitation
<1> QED
  BY <1>1, <1>2, <1>3 DEF By, In

LEMMA LockCreatorEffect ==
  ASSUME TypeOK, NEW r \in Requests, NEW u \in Users, LockCreator(r, u)
  PROVE  /\ request'[r] \in Records /\ request' = [request EXCEPT ![r] = request'[r]]
         /\ request'[r].op = "create" /\ request'[r].at = "authorised" /\ By(r)' = u
         /\ In(r)' = Null /\ request'[r].whom = Null
<1>1. request \in [Requests -> Records]
  BY TypeParts DEF RequestTyped
<1> DEFINE x == [Idle EXCEPT !.op = "create", !.by = u]
<1>2. /\ x \in Records /\ x.op = "create" /\ x.at = "authorised" /\ x.by = u /\ x.in = Null
      /\ x.whom = Null
  BY IdleType DEF Records
<1>3. request' = [request EXCEPT ![r] = x]
  BY DEF LockCreator
<1> QED
  BY <1>1, <1>2, <1>3 DEF By, In

\* A waiting handler keeps what it is about.
Goes(r, at) ==
  /\ request'[r] \in Records /\ request' = [request EXCEPT ![r] = request'[r]]
  /\ request'[r].at = at
  /\ request'[r].op = request[r].op /\ By(r)' = By(r) /\ In(r)' = In(r)
  /\ request'[r].as = request[r].as

LEMMA AskForWorkspaceEffect ==
  ASSUME TypeOK, NEW r \in Requests, AskForWorkspace(r)
  PROVE  Goes(r, "asked") /\ request'[r].whom = request[r].whom
<1>1. request \in [Requests -> Records] /\ request[r] \in Records
  BY TypeParts DEF RequestTyped
<1>2. request' = [request EXCEPT ![r] = [request[r] EXCEPT !.at = "asked"]]
  BY <1>1 DEF AskForWorkspace
<1> QED
  BY <1>1, <1>2 DEF Goes, Records, By, In

LEMMA ViewType ==
  ASSUME TypeOK, NEW r \in Requests, In(r) \in Workspaces
  PROVE  View(r) \in Views /\ View(r).role = member[In(r)]
         /\ (request[r].op = "invite" => View(r).pending = Pending(In(r)))
<1>1. member[In(r)] \in [Users -> Roles \cup {"none"}]
  BY TypeParts DEF MemberTyped
<1>2. Pending(In(r)) \subseteq Users
  BY DEF Pending
<1> QED
  BY <1>1, <1>2 DEF View, Views, In

LEMMA LockWorkspaceEffect ==
  ASSUME TypeInv, NEW r \in Requests, LockWorkspace(r)
  PROVE  /\ In(r) \in Workspaces /\ request'[r].whom = request[r].whom
         /\ \/ /\ Goes(r, "late") /\ request[r].op = "invite"
            \/ /\ Goes(r, "locked") /\ request'[r].view = View(r)
               /\ request[r].op = "invite" /\ invitation[In(r)][request[r].whom] # "none" =>
                    invitationLock[In(r)][request[r].whom] = r
<1>1. request \in [Requests -> Records] /\ request[r] \in Records
  BY TypeParts DEF TypeInv, RequestTyped
<1>2. In(r) \in Workspaces /\ request[r].at = "asked"
  BY DEF LockWorkspace, TypeInv, Shape
<1>3. View(r) \in Views /\ NoView \in Views
  BY <1>2, ViewType, IdleType DEF TypeInv
<1> DEFINE late == /\ request[r].op = "invite" /\ invitation[In(r)][request[r].whom] # "none"
                   /\ invitationLock[In(r)][request[r].whom] # r
<1>4. CASE late
  <2>1. request' = [request EXCEPT ![r] = [request[r] EXCEPT !.at = "late", !.view = NoView]]
    BY <1>1, <1>4 DEF LockWorkspace
  <2> QED
    BY <1>1, <1>2, <1>3, <1>4, <2>1 DEF Goes, Records, By, In
<1>5. CASE ~late
  <2>1. request' = [request EXCEPT ![r] = [request[r] EXCEPT !.at = "locked", !.view = View(r)]]
    BY <1>1, <1>5 DEF LockWorkspace
  <2> QED
    BY <1>1, <1>2, <1>3, <1>5, <2>1 DEF Goes, Records, By, In
<1> QED
  BY <1>4, <1>5

LEMMA LockLateInvitationEffect ==
  ASSUME TypeInv, NEW r \in Requests, LockLateInvitation(r)
  PROVE  /\ In(r) \in Workspaces /\ request[r].op = "invite"
         /\ Goes(r, "locked") /\ request'[r].view = View(r) /\ request'[r].whom = request[r].whom
<1>1. request \in [Requests -> Records] /\ request[r] \in Records
  BY TypeParts DEF TypeInv, RequestTyped
<1>2. In(r) \in Workspaces /\ request[r].op = "invite"
  BY DEF LockLateInvitation, TypeInv, Shape
<1>3. View(r) \in Views
  BY <1>2, ViewType DEF TypeInv
<1>4. request' = [request EXCEPT ![r] = [request[r] EXCEPT !.at = "locked", !.view = View(r)]]
  BY <1>1 DEF LockLateInvitation
<1> QED
  BY <1>1, <1>2, <1>3, <1>4 DEF Goes, Records, By, In

LEMMA LockNewOwnerEffect ==
  ASSUME TypeOK, NEW r \in Requests, NEW u \in Users, LockNewOwner(r, u)
  PROVE  /\ Goes(r, "locked") /\ request'[r].view = request[r].view /\ request'[r].whom = u
         /\ request[r].op = "manage" /\ request[r].at = "locked"
<1>1. request \in [Requests -> Records] /\ request[r] \in Records
  BY TypeParts DEF RequestTyped
<1>2. request[r].op = "manage" /\ request[r].at = "locked"
  BY DEF LockNewOwner, MayManage, Locked
<1>3. request' = [request EXCEPT ![r] = [request[r] EXCEPT !.whom = u]]
  BY <1>1 DEF LockNewOwner
<1> QED
  BY <1>1, <1>2, <1>3 DEF Goes, Records, By, In

\* What a handler that goes on may become, as one record that replaces its own.
LEMMA GoesOn ==
  ASSUME TypeInv, NEW r \in Requests, Arriving(r) \/ Waiting(r)
  PROVE  /\ request'[r] \in Records /\ request' = [request EXCEPT ![r] = request'[r]]
         /\ Shape(r)'
<1> USE DEF TypeInv
<1>1. CASE Arriving(r)
  <2>1. ASSUME NEW w \in Workspaces, NEW u \in Users, NEW whom \in Users \cup {Null},
               NEW op \in {"manage", "invite", "revoke"}, Authorise(r, w, u, op, whom)
        PROVE  /\ request'[r] \in Records /\ request' = [request EXCEPT ![r] = request'[r]]
               /\ Shape(r)'
    <3>1. op \in {"invite", "revoke"} => whom \in Users
      BY <2>1, NullIsNobody DEF Authorise
    <3> QED
      BY <2>1, <3>1, AuthoriseEffect DEF Shape
  <2>2. ASSUME NEW w \in Workspaces, NEW u \in Users, FollowInvitation(r, w, u)
        PROVE  /\ request'[r] \in Records /\ request' = [request EXCEPT ![r] = request'[r]]
               /\ Shape(r)'
    BY <2>2, FollowInvitationEffect DEF Shape
  <2>3. ASSUME NEW u \in Users, LockCreator(r, u)
        PROVE  /\ request'[r] \in Records /\ request' = [request EXCEPT ![r] = request'[r]]
               /\ Shape(r)'
    BY <2>3, LockCreatorEffect DEF Shape
  <2> QED
    BY <1>1, <2>1, <2>2, <2>3 DEF Arriving
<1>2. CASE AskForWorkspace(r)
  BY <1>2, AskForWorkspaceEffect DEF Goes, Shape, AskForWorkspace
<1>3. CASE LockWorkspace(r)
  <2>1. request[r].at = "asked" /\ Shape(r)
    BY <1>3 DEF LockWorkspace
  <2>2. /\ request'[r].whom = request[r].whom
        /\ (Goes(r, "late") /\ request[r].op = "invite") \/ Goes(r, "locked")
    BY <1>3, LockWorkspaceEffect
  <2> QED
    BY <2>1, <2>2 DEF Goes, Shape
<1>4. CASE LockLateInvitation(r)
  BY <1>4, LockLateInvitationEffect DEF Goes, Shape, LockLateInvitation
<1>5. ASSUME NEW u \in Users, LockNewOwner(r, u)
      PROVE  /\ request'[r] \in Records /\ request' = [request EXCEPT ![r] = request'[r]]
             /\ Shape(r)'
  BY <1>5, LockNewOwnerEffect DEF Goes, Shape
<1> QED
  BY <1>1, <1>2, <1>3, <1>4, <1>5 DEF Waiting

\* Nobody's record changes but that of the handler that takes the step.
LEMMA OthersStay ==
  ASSUME TypeInv, NEW r \in Requests, HandlerStep(r), NEW q \in Requests, q # r
  PROVE  request'[q] = request[q]
<1>1. LocksTyped /\ RequestTyped
  BY TypeParts DEF TypeInv
<1>2. CASE Ending(r)
  BY <1>1, <1>2, EndingReleases, ReleaseEffect
<1>3. CASE Arriving(r) \/ Waiting(r)
  BY <1>1, <1>3, GoesOn DEF RequestTyped
<1> QED
  BY <1>2, <1>3 DEF HandlerStep

\* Locks are taken when they are free, and given back by their holder.
LEMMA LocksOfOthersStay ==
  ASSUME TypeInv, NEW r \in Requests, HandlerStep(r)
  PROVE  /\ LocksTyped'
         /\ \A q \in Requests : q # r =>
              /\ \A w \in Workspaces : workspaceLock'[w] = q <=> workspaceLock[w] = q
              /\ \A w \in Workspaces, u \in Users : invitationLock'[w][u] = q <=> invitationLock[w][u] = q
              /\ \A u \in Users : userLock'[u] = q <=> userLock[u] = q
<1>1. LocksTyped /\ RequestTyped
  BY TypeParts DEF TypeInv
<1> USE NullIsNobody
<1>2. CASE Ending(r)
  BY <1>1, <1>2, EndingReleases, ReleaseEffect
<1>3. CASE UNCHANGED locks
  BY <1>1, <1>3 DEF locks, LocksTyped
<1>4. ASSUME NEW w \in Workspaces, NEW u \in Users, InvitationIsFree(r, w, u),
             invitationLock' = [invitationLock EXCEPT ![w][u] = r], UNCHANGED <<workspaceLock, userLock>>
      PROVE  /\ LocksTyped'
             /\ \A q \in Requests : q # r =>
                  /\ \A x \in Workspaces : workspaceLock'[x] = q <=> workspaceLock[x] = q
                  /\ \A x \in Workspaces, y \in Users : invitationLock'[x][y] = q <=> invitationLock[x][y] = q
                  /\ \A y \in Users : userLock'[y] = q <=> userLock[y] = q
  <2>1. LocksTyped'
    BY <1>1, <1>4 DEF LocksTyped
  <2> QED
    BY <1>1, <1>4, <2>1 DEF LocksTyped, InvitationIsFree
<1>5. ASSUME NEW u \in Users, UserIsFree(u), userLock' = [userLock EXCEPT ![u] = r],
             UNCHANGED <<workspaceLock, invitationLock>>
      PROVE  /\ LocksTyped'
             /\ \A q \in Requests : q # r =>
                  /\ \A x \in Workspaces : workspaceLock'[x] = q <=> workspaceLock[x] = q
                  /\ \A x \in Workspaces, y \in Users : invitationLock'[x][y] = q <=> invitationLock[x][y] = q
                  /\ \A y \in Users : userLock'[y] = q <=> userLock[y] = q
  BY <1>1, <1>5 DEF LocksTyped, UserIsFree
<1>6. CASE LockWorkspace(r)
  <2>1. /\ In(r) \in Workspaces /\ WorkspaceIsFree(In(r))
        /\ workspaceLock' = [workspaceLock EXCEPT ![In(r)] = r]
        /\ UNCHANGED <<invitationLock, userLock>>
    BY <1>6, LockWorkspaceEffect DEF LockWorkspace
  <2> QED
    BY <1>1, <2>1 DEF LocksTyped, WorkspaceIsFree
<1>7. CASE AskForWorkspace(r)
  <2>1. In(r) \in Workspaces /\ (request[r].op = "invite" => request[r].whom \in Users)
    BY <1>7 DEF AskForWorkspace, TypeInv, Shape
  <2> QED
    BY <1>3, <1>4, <1>7, <2>1 DEF AskForWorkspace, locks
<1>8. CASE LockLateInvitation(r)
  <2>1. In(r) \in Workspaces /\ request[r].whom \in Users
    BY <1>8 DEF LockLateInvitation, TypeInv, Shape
  <2> QED
    BY <1>4, <1>8, <2>1 DEF LockLateInvitation
<1> QED
  BY <1>2, <1>3, <1>4, <1>5, <1>6, <1>7, <1>8
  DEF HandlerStep, Arriving, Waiting, Authorise, FollowInvitation, LockCreator, LockNewOwner

LEMMA RequestStep ==
  ASSUME TypeInv, NEW r \in Requests, HandlerStep(r)
  PROVE  RequestTyped' /\ \A q \in Requests : Shape(q)'
<1>1. LocksTyped /\ RequestTyped
  BY TypeParts DEF TypeInv
<1>2. RequestTyped' /\ Shape(r)'
  <2>1. CASE Ending(r)
    BY <1>1, <2>1, EndingReleases, ReleaseEffect, IdleType DEF Shape
  <2>2. CASE Arriving(r) \/ Waiting(r)
    BY <1>1, <2>2, GoesOn DEF RequestTyped
  <2> QED
    BY <2>1, <2>2 DEF HandlerStep
<1>3. ASSUME NEW q \in Requests, q # r PROVE Shape(q)'
  BY <1>3, OthersStay DEF TypeInv, Shape, By, In
<1> QED
  BY <1>2, <1>3

\* The rows keep their types.
LEMMA RowsStep ==
  ASSUME TypeInv, NEW r \in Requests, HandlerStep(r)
  PROVE  MemberTyped' /\ InvitationTyped' /\ NumbersTyped'
<1>1. MemberTyped /\ InvitationTyped /\ NumbersTyped
  BY TypeParts DEF TypeInv
<1> USE DEF TypeInv, MemberTyped, InvitationTyped, NumbersTyped
<1>2. CASE UNCHANGED rows
  BY <1>1, <1>2 DEF rows
<1>3. ASSUME NEW u \in Users, NEW role \in Roles, ChangeRole(r, u, role)
      PROVE  MemberTyped' /\ InvitationTyped' /\ NumbersTyped'
  BY <1>1, <1>3 DEF ChangeRole
<1>4. ASSUME NEW u \in Users, Remove(r, u)
      PROVE  MemberTyped' /\ InvitationTyped' /\ NumbersTyped'
  BY <1>1, <1>4 DEF Remove
<1>5. CASE Accept(r)
  <2>1. In(r) \in Workspaces /\ By(r) \in Users /\ JoinsAs(r) \in Roles
    BY <1>5 DEF Accept, Locked, Shape, JoinsAs, Invitable, Roles
  <2> QED
    BY <1>1, <1>5, <2>1 DEF Accept, Invitations
<1>6. ASSUME NEW role \in Invitable, Invite(r, role)
      PROVE  MemberTyped' /\ InvitationTyped' /\ NumbersTyped'
  BY <1>1, <1>6 DEF Invite, Invitations
<1>7. CASE Revoke(r)
  BY <1>1, <1>7 DEF Revoke, Invitations
<1>8. ASSUME NEW w \in Workspaces, Create(r, w)
      PROVE  MemberTyped' /\ InvitationTyped' /\ NumbersTyped'
  BY <1>1, <1>8 DEF Create, Roles
<1>9. CASE OwnElsewhere(r)
  <2>1. By(r) \in Users
    BY <1>9 DEF OwnElsewhere, Shape
  <2> QED
    BY <1>1, <1>9, <2>1 DEF OwnElsewhere
<1> QED
  BY <1>2, <1>3, <1>4, <1>5, <1>6, <1>7, <1>8, <1>9, OthersKeepRows DEF HandlerStep, Ending, Refused

LEMMA TypeStep == TypeInv /\ [Next]_vars => TypeInv'
<1> SUFFICES ASSUME TypeInv, [Next]_vars PROVE TypeInv'
  OBVIOUS
<1>1. MemberTyped /\ InvitationTyped /\ NumbersTyped /\ LocksTyped /\ RequestTyped
  BY TypeParts DEF TypeInv
<1>2. ASSUME NEW r \in Requests, HandlerStep(r) PROVE TypeInv'
  BY <1>2, RowsStep, LocksOfOthersStay, RequestStep, TypePartsPrimed DEF TypeInv
<1>3. ASSUME UNCHANGED <<request, member, locks>>, InvitationTyped', NumbersTyped' PROVE TypeInv'
  BY <1>1, <1>3, TypePartsPrimed DEF TypeInv, Shape, By, In, locks, MemberTyped, LocksTyped, RequestTyped
<1>4. CASE UNCHANGED vars
  BY <1>1, <1>3, <1>4 DEF vars, rows, locks, InvitationTyped, NumbersTyped
<1>5. CASE Outside
  <2>1. ASSUME NEW w \in Workspaces, NEW q \in MemberQuotas, SetQuota(w, q)
        PROVE  InvitationTyped' /\ NumbersTyped'
    BY <1>1, <2>1 DEF SetQuota, InvitationTyped, NumbersTyped
  <2>2. ASSUME NEW w \in Workspaces, NEW u \in Users, Expire(w, u)
        PROVE  InvitationTyped' /\ NumbersTyped'
    BY <1>1, <2>2 DEF Expire, InvitationTyped, NumbersTyped, Invitations
  <2>3. ASSUME NEW u \in Users, LoseElsewhere(u)
        PROVE  InvitationTyped' /\ NumbersTyped'
    BY <1>1, <2>3 DEF LoseElsewhere, InvitationTyped, NumbersTyped
  <2> QED
    BY <1>3, <1>5, <2>1, <2>2, <2>3, OutsideKeepsHandlers DEF Outside
<1> QED
  BY <1>2, <1>4, <1>5, NextSteps

LEMMA TypeInit == Init => TypeInv
<1> SUFFICES ASSUME Init PROVE TypeInv
  OBVIOUS
<1>1. RequestTyped /\ \A r \in Requests : request[r] = Idle
  BY IdleType DEF Init, RequestTyped
<1>2. LocksTyped /\ MemberTyped /\ InvitationTyped /\ NumbersTyped
  BY DEF Init, LocksTyped, MemberTyped, InvitationTyped, NumbersTyped, Invitations
<1> QED
  BY <1>1, <1>2, TypeParts, IdleType DEF TypeInv, Shape

LEMMA TypeInvAlways == Spec => []TypeInv
  BY TypeInit, TypeStep, PTL DEF Spec

\* Every variable of Members keeps its type, for any number of users, workspaces and handlers.
THEOREM TypeCorrect == Spec => []TypeOK
<1>1. TypeInv => TypeOK
  BY DEF TypeInv
<1> QED
  BY <1>1, TypeInvAlways, PTL

-----------------------------------------------------------------------------
(* Locks *)

LEMMA HoldStep == TypeInv /\ HoldInv /\ [Next]_vars => HoldInv'
<1> SUFFICES ASSUME TypeInv, HoldInv, [Next]_vars PROVE HoldInv'
  OBVIOUS
<1> USE NullIsNobody
<1>1. CASE UNCHANGED <<request, locks>>
  BY <1>1 DEF HoldInv, Holds, locks, In, By
<1>2. ASSUME NEW r \in Requests, HandlerStep(r) PROVE HoldInv'
  <2>1. LocksTyped /\ RequestTyped /\ LocksTyped' /\ Holds(r) /\ Shape(r)
    BY <1>2, TypeParts, LocksOfOthersStay DEF TypeInv, HoldInv
  <2>2. ASSUME NEW q \in Requests, q # r PROVE Holds(q)'
    <3>1. request'[q] = request[q] /\ Holds(q)
      BY <1>2, <2>2, OthersStay DEF HoldInv
    <3>2. /\ \A w \in Workspaces : workspaceLock'[w] = q <=> workspaceLock[w] = q
          /\ \A w \in Workspaces, u \in Users : invitationLock'[w][u] = q <=> invitationLock[w][u] = q
          /\ \A u \in Users : userLock'[u] = q <=> userLock[u] = q
      BY <1>2, <2>2, LocksOfOthersStay
    <3> QED
      BY <3>1, <3>2 DEF Holds, In, By
  <2>3. Holds(r)'
    <3>1. CASE Ending(r)
      <4>1. /\ request'[r] = Idle
            /\ \A w \in Workspaces : workspaceLock'[w] # r
            /\ \A w \in Workspaces, u \in Users : invitationLock'[w][u] # r
            /\ \A u \in Users : userLock'[u] # r
        BY <2>1, <3>1, EndingReleases, ReleaseEffect
      <4> QED
        BY <4>1, IdleType DEF Holds
    <3>2. ASSUME request[r] = Idle
          PROVE  /\ \A w \in Workspaces : workspaceLock[w] # r
                 /\ \A w \in Workspaces, u \in Users : invitationLock[w][u] # r
                 /\ \A u \in Users : userLock[u] # r
      BY <2>1, <3>2, IdleType DEF Holds
    <3>3. ASSUME NEW w \in Workspaces, NEW u \in Users, NEW whom \in Users \cup {Null},
                 NEW op \in {"manage", "invite", "revoke"}, Authorise(r, w, u, op, whom)
          PROVE  Holds(r)'
      <4>1. /\ request'[r].op = op /\ request'[r].at = "authorised" /\ In(r)' = w
            /\ request'[r].whom = whom
        BY <3>3, AuthoriseEffect DEF TypeInv
      <4>2. request[r] = Idle /\ UNCHANGED locks /\ (op = "manage" => whom = Null)
        BY <3>3 DEF Authorise
      <4> QED
        BY <3>2, <4>1, <4>2 DEF Holds, locks
    <3>4. ASSUME NEW w \in Workspaces, NEW u \in Users, FollowInvitation(r, w, u)
          PROVE  Holds(r)'
      <4>1. /\ request'[r].op = "accept" /\ request'[r].at = "authorised" /\ In(r)' = w
            /\ request'[r].whom = u
        BY <3>4, FollowInvitationEffect DEF TypeInv
      <4>2. /\ request[r] = Idle /\ UNCHANGED <<workspaceLock, userLock>>
            /\ invitationLock' = [invitationLock EXCEPT ![w][u] = r]
        BY <3>4 DEF FollowInvitation
      <4>3. \A x \in Workspaces, y \in Users : invitationLock'[x][y] = r => x = w /\ y = u
        BY <2>1, <3>2, <4>2 DEF LocksTyped
      <4> QED
        BY <3>2, <4>1, <4>2, <4>3 DEF Holds
    <3>5. ASSUME NEW u \in Users, LockCreator(r, u) PROVE Holds(r)'
      <4>1. /\ request'[r].op = "create" /\ request'[r].at = "authorised" /\ By(r)' = u
        BY <3>5, LockCreatorEffect DEF TypeInv
      <4>2. /\ request[r] = Idle /\ UNCHANGED <<workspaceLock, invitationLock>>
            /\ userLock' = [userLock EXCEPT ![u] = r]
        BY <3>5 DEF LockCreator
      <4>3. \A y \in Users : userLock'[y] = r <=> y = u
        BY <2>1, <3>2, <4>2 DEF LocksTyped
      <4> QED
        BY <3>2, <4>1, <4>2, <4>3 DEF Holds
    <3>6. CASE AskForWorkspace(r)
      <4>1. Goes(r, "asked") /\ request'[r].whom = request[r].whom
        BY <3>6, AskForWorkspaceEffect DEF TypeInv
      <4>2. /\ request[r].at = "authorised" /\ UNCHANGED <<workspaceLock, userLock>>
            /\ request[r].op \in {"manage", "invite", "accept"}
        BY <3>6 DEF AskForWorkspace
      <4>3. \A x \in Workspaces, y \in Users : invitationLock'[x][y] = r =>
              /\ x = In(r) /\ y = request[r].whom /\ request[r].op \in {"invite", "accept"}
        <5>1. CASE UNCHANGED invitationLock
          BY <2>1, <5>1 DEF Holds
        <5>2. CASE /\ request[r].op = "invite"
                   /\ invitationLock' = [invitationLock EXCEPT ![In(r)][request[r].whom] = r]
          <6>1. In(r) \in Workspaces /\ request[r].whom \in Users
            BY <2>1, <5>2 DEF Shape
          <6> QED
            BY <2>1, <5>2, <6>1 DEF Holds, LocksTyped
        <5> QED
          BY <3>6, <5>1, <5>2 DEF AskForWorkspace
      <4> QED
        BY <2>1, <4>1, <4>2, <4>3 DEF Holds, Goes
    <3>7. CASE LockWorkspace(r)
      <4>1. /\ In(r) \in Workspaces /\ request'[r].whom = request[r].whom
            /\ Goes(r, "late") \/ Goes(r, "locked")
        BY <3>7, LockWorkspaceEffect
      <4>2. /\ request[r].at = "asked" /\ UNCHANGED <<invitationLock, userLock>>
            /\ workspaceLock' = [workspaceLock EXCEPT ![In(r)] = r]
        BY <3>7 DEF LockWorkspace
      <4>3. \A x \in Workspaces : workspaceLock'[x] = r <=> x = In(r)
        BY <2>1, <4>1, <4>2 DEF LocksTyped, Holds
      <4> QED
        BY <2>1, <4>1, <4>2, <4>3 DEF Holds, Goes
    <3>8. CASE LockLateInvitation(r)
      <4>1. /\ In(r) \in Workspaces /\ request[r].op = "invite"
            /\ Goes(r, "locked") /\ request'[r].whom = request[r].whom /\ request[r].whom \in Users
        BY <2>1, <3>8, LockLateInvitationEffect DEF Shape
      <4>2. /\ request[r].at = "late" /\ UNCHANGED <<workspaceLock, userLock>>
            /\ invitationLock' = [invitationLock EXCEPT ![In(r)][request[r].whom] = r]
        BY <3>8 DEF LockLateInvitation
      <4>3. \A x \in Workspaces, y \in Users : invitationLock'[x][y] = r =>
              x = In(r) /\ y = request[r].whom
        BY <2>1, <4>1, <4>2 DEF LocksTyped, Holds
      <4> QED
        BY <2>1, <4>1, <4>2, <4>3 DEF Holds, Goes
    <3>9. ASSUME NEW u \in Users, LockNewOwner(r, u) PROVE Holds(r)'
      <4>1. /\ Goes(r, "locked") /\ request'[r].whom = u
            /\ request[r].op = "manage" /\ request[r].at = "locked"
        BY <3>9, LockNewOwnerEffect DEF TypeInv
      <4>2. /\ request[r].whom = Null /\ UNCHANGED <<workspaceLock, invitationLock>>
            /\ userLock' = [userLock EXCEPT ![u] = r]
        BY <3>9 DEF LockNewOwner
      <4>3. \A y \in Users : userLock'[y] = r <=> y = u
        BY <2>1, <4>1, <4>2 DEF LocksTyped, Holds
      <4> QED
        BY <2>1, <4>1, <4>2, <4>3 DEF Holds, Goes
    <3> QED
      BY <1>2, <3>1, <3>3, <3>4, <3>5, <3>6, <3>7, <3>8, <3>9 DEF HandlerStep, Arriving, Waiting
  <2> QED
    BY <2>2, <2>3 DEF HoldInv
<1> QED
  BY <1>1, <1>2, NextSteps, OutsideKeepsHandlers DEF vars

LEMMA HoldInit == Init => HoldInv
<1> SUFFICES ASSUME Init PROVE HoldInv
  OBVIOUS
<1>1. \A r \in Requests : request[r] = Idle
  BY DEF Init
<1>2. /\ \A w \in Workspaces : workspaceLock[w] = Null
      /\ \A w \in Workspaces, u \in Users : invitationLock[w][u] = Null
      /\ \A u \in Users : userLock[u] = Null
  BY DEF Init
<1> QED
  BY <1>1, <1>2, IdleType, NullIsNobody DEF HoldInv, Holds

LEMMA HoldInvAlways == Spec => []HoldInv
  BY HoldInit, HoldStep, TypeInvAlways, PTL DEF Spec

\* Two handlers only wait for each other if one of them is an invite that found its row on
\* the second look: invitations come before workspaces and those before accounts.
THEOREM OnlyLateRowsDeadlockAlways == Spec => []OnlyLateRowsDeadlock
<1>1. TypeInv /\ HoldInv => OnlyLateRowsDeadlock
  <2> SUFFICES ASSUME TypeInv, HoldInv, NEW r \in Requests, NEW q \in Requests, r # q,
                      WaitsFor(r, q), WaitsFor(q, r),
                      request[r].at # "late", request[q].at # "late"
               PROVE  FALSE
    BY DEF OnlyLateRowsDeadlock, Deadlocked
  <2>1. Shape(r) /\ Shape(q) /\ Holds(r) /\ Holds(q)
    BY DEF TypeInv, HoldInv
  \* What somebody else waits for, and what the one that has it may still wait for.
  <2>2. ASSUME NEW x \in Requests, NEW y \in Requests, Holds(y), Shape(y), request[y].at # "late",
               request[x].at # "late", WaitsFor(x, y)
        PROVE  \/ request[x].at = "asked" /\ request[y].at = "locked"
               \/ /\ request[x].at = "authorised" /\ request[x].op \in {"invite", "revoke"}
                  /\ request[y].op = "accept" \/ request[y].at \in {"asked", "locked"}
               \/ /\ Locked(x, "manage") /\ request[x].whom = Null
                  /\ request[y].op = "create" \/ (request[y].op = "manage" /\ request[y].whom # Null)
    <3>1. ASSUME NEW w \in Workspaces, request[x].at = "asked", workspaceLock[w] = y
          PROVE  request[y].at = "locked"
      BY <2>2, <3>1 DEF Holds
    <3>2. ASSUME NEW w \in Workspaces, NEW u \in Users, NeedsInvitation(x, w, u),
                 invitationLock[w][u] = y
          PROVE  request[y].op = "accept" \/ request[y].at \in {"asked", "locked"}
      <4>1. request[y].op = "accept" \/ request[y].at # "authorised"
        BY <2>2, <3>2 DEF Holds
      <4>2. request[y].at \in {"authorised", "asked", "late", "locked"}
        BY TypeParts DEF TypeInv, RequestTyped, Records
      <4> QED
        BY <2>2, <4>1, <4>2
    <3>3. ASSUME NEW u \in Users, request[x].whom = Null, userLock[u] = y
          PROVE  request[y].op = "create" \/ (request[y].op = "manage" /\ request[y].whom # Null)
      BY <2>2, <3>3, NullIsNobody DEF Holds
    <3>4. ASSUME NEW w \in Workspaces, NEW u \in Users, NeedsInvitation(x, w, u)
          PROVE  request[x].at = "authorised" /\ request[x].op \in {"invite", "revoke"}
      <4>1. Shape(x)
        BY DEF TypeInv
      <4> QED
        BY <2>2, <3>4, <4>1 DEF NeedsInvitation, Shape
    <3> QED
      BY <2>2, <3>1, <3>2, <3>3, <3>4 DEF WaitsFor
  <2>3. /\ request[r].op \in {"create", "revoke"} => request[r].at = "authorised"
        /\ request[q].op \in {"create", "revoke"} => request[q].at = "authorised"
    BY <2>1 DEF Shape
  <2>4. /\ request[r].op = "manage" /\ request[r].whom # Null => request[r].at = "locked"
        /\ request[q].op = "manage" /\ request[q].whom # Null => request[q].at = "locked"
    BY <2>1 DEF Holds
  <2>5. \/ request[r].at = "asked" /\ request[q].at = "locked"
        \/ /\ request[r].at = "authorised" /\ request[r].op \in {"invite", "revoke"}
           /\ request[q].op = "accept" \/ request[q].at \in {"asked", "locked"}
        \/ /\ Locked(r, "manage") /\ request[r].whom = Null
           /\ request[q].op = "create" \/ (request[q].op = "manage" /\ request[q].whom # Null)
    BY <2>1, <2>2
  <2>6. \/ request[q].at = "asked" /\ request[r].at = "locked"
        \/ /\ request[q].at = "authorised" /\ request[q].op \in {"invite", "revoke"}
           /\ request[r].op = "accept" \/ request[r].at \in {"asked", "locked"}
        \/ /\ Locked(q, "manage") /\ request[q].whom = Null
           /\ request[r].op = "create" \/ (request[r].op = "manage" /\ request[r].whom # Null)
    BY <2>1, <2>2
  <2> QED
    BY <2>3, <2>4, <2>5, <2>6 DEF Locked
<1> QED
  BY <1>1, TypeInvAlways, HoldInvAlways, PTL

-----------------------------------------------------------------------------
(* Owners *)

\* Two owners are two people.
LEMMA AnotherOwner ==
  ASSUME NEW roles, NEW u \in Users, roles[u] = "owner", Cardinality(Owners(roles)) > 1
  PROVE  \E v \in Users \ {u} : roles[v] = "owner"
<1>1. SUFFICES ASSUME \A v \in Users \ {u} : roles[v] # "owner" PROVE FALSE
  OBVIOUS
<1>2. Owners(roles) = {u}
  BY <1>1 DEF Owners
<1>3. Cardinality({u}) = 1
  BY FS_Singleton
<1> QED
  BY <1>2, <1>3

\* Every change of a membership, and who makes it.
LEMMA MemberChanges ==
  ASSUME TypeInv, HoldInv, OwnerInv, NEW r \in Requests, HandlerStep(r)
  PROVE  \/ UNCHANGED member
         \/ /\ Locked(r, "manage") \/ Locked(r, "accept")
            /\ In(r) \in Workspaces /\ SeesTruth(r) /\ workspaceLock[In(r)] = r
            /\ \E u \in Users, role \in Roles \cup {"none"} :
                 /\ member' = [member EXCEPT ![In(r)][u] = role]
                 /\ member[In(r)][u] = "owner" /\ role # "owner" =>
                      \E v \in Users \ {u} : member[In(r)][v] = "owner"
         \/ /\ request[r].op = "create" /\ By(r) \in Users
            /\ \E w \in Workspaces : /\ \A u \in Users : member[w][u] = "none"
                                     /\ member' = [member EXCEPT ![w][By(r)] = "owner"]
<1>1. /\ Shape(r) /\ Holds(r) /\ SeesTruth(r)
  BY DEF TypeInv, HoldInv, OwnerInv
<1>2. ASSUME request[r].at = "locked"
      PROVE  /\ In(r) \in Workspaces /\ workspaceLock[In(r)] = r
             /\ request[r].view.role = member[In(r)]
  BY <1>1, <1>2 DEF Shape, Holds, SeesTruth
<1>3. ASSUME NEW u \in Users, MayManage(r, u) PROVE Locked(r, "manage") /\ request[r].at = "locked"
  BY <1>3 DEF MayManage, Locked
<1>4. ASSUME NEW u \in Users, NEW role \in Roles, ChangeRole(r, u, role),
             member[In(r)][u] = "owner", role # "owner"
      PROVE  \E v \in Users \ {u} : member[In(r)][v] = "owner"
  <2>1. MayManage(r, u) /\ Manageable(r, request[r].view.role[u])
    BY <1>4 DEF ChangeRole, MayManage
  <2>2. request[r].view.role = member[In(r)]
    BY <1>2, <1>3, <2>1
  <2>3. Cardinality(Owners(request[r].view.role)) > 1
    BY <1>4, <2>1, <2>2 DEF Manageable
  <2> QED
    BY <1>4, <2>2, <2>3, AnotherOwner
<1>5. ASSUME NEW u \in Users, Remove(r, u), member[In(r)][u] = "owner"
      PROVE  \E v \in Users \ {u} : member[In(r)][v] = "owner"
  <2>1. MayManage(r, u)
    BY <1>5 DEF Remove
  <2>2. request[r].view.role = member[In(r)]
    BY <1>2, <1>3, <2>1
  <2>3. Cardinality(Owners(request[r].view.role)) > 1
    BY <1>5, <2>2 DEF Remove
  <2> QED
    BY <1>5, <2>2, <2>3, AnotherOwner
<1>6. ASSUME NEW u \in Users, NEW role \in Roles, ChangeRole(r, u, role)
      PROVE  /\ Locked(r, "manage") /\ request[r].at = "locked"
             /\ member' = [member EXCEPT ![In(r)][u] = role]
  BY <1>3, <1>6 DEF ChangeRole
<1>7. ASSUME NEW u \in Users, Remove(r, u)
      PROVE  /\ Locked(r, "manage") /\ request[r].at = "locked"
             /\ member' = [member EXCEPT ![In(r)][u] = "none"]
  BY <1>3, <1>7 DEF Remove
<1>8. ASSUME Accept(r)
      PROVE  /\ Locked(r, "accept") /\ request[r].at = "locked" /\ By(r) \in Users
             /\ member' = [member EXCEPT ![In(r)][By(r)] = request[r].as]
             /\ request[r].as \in Roles /\ member[In(r)][By(r)] = "none"
  <2>1. Locked(r, "accept") /\ request[r].at = "locked" /\ request[r].op = "accept"
    BY <1>8 DEF Accept, Locked
  <2>2. By(r) \in Users /\ request[r].as \in Roles
    BY <1>1, <2>1 DEF Shape, Invitable, Roles
  <2> QED
    BY <1>2, <1>8, <2>1, <2>2 DEF Accept, JoinsAs
<1>9. ASSUME NEW w \in Workspaces, Create(r, w)
      PROVE  /\ request[r].op = "create" /\ By(r) \in Users /\ \A u \in Users : member[w][u] = "none"
             /\ member' = [member EXCEPT ![w][By(r)] = "owner"]
  BY <1>1, <1>9 DEF Create, Unclaimed, Members, Shape
<1>10. CASE \E u \in Users, role \in Roles : ChangeRole(r, u, role)
  BY <1>1, <1>2, <1>4, <1>6, <1>10
<1>11. CASE \E u \in Users : Remove(r, u)
  BY <1>1, <1>2, <1>5, <1>7, <1>11
<1>12. CASE Accept(r)
  <2>1. member[In(r)][By(r)] # "owner"
    BY <1>8, <1>12
  <2> QED
    BY <1>1, <1>2, <1>8, <1>12, <2>1
<1>13. CASE \E w \in Workspaces : Create(r, w)
  BY <1>9, <1>13
<1>14. CASE Arriving(r) \/ Waiting(r)
  BY <1>14, OthersKeepRows DEF rows
<1> QED
  BY <1>10, <1>11, <1>12, <1>13, <1>14
  DEF HandlerStep, Ending, Revoke, OwnElsewhere, Refused, Invite, rows

\* A workspace that has an owner keeps one.
LEMMA OwnersStay ==
  ASSUME TypeInv, HoldInv, OwnerInv, [Next]_vars, NEW w \in Workspaces, HasOwner(w)
  PROVE  HasOwner(w)'
<1>1. member \in [Workspaces -> [Users -> Roles \cup {"none"}]]
  BY TypeParts DEF TypeInv, MemberTyped
<1>2. CASE UNCHANGED member
  BY <1>2 DEF HasOwner
<1>3. ASSUME NEW r \in Requests, HandlerStep(r) PROVE HasOwner(w)'
  <2>1. ASSUME NEW u \in Users, NEW role \in Roles \cup {"none"}, In(r) \in Workspaces,
               member' = [member EXCEPT ![In(r)][u] = role],
               member[In(r)][u] = "owner" /\ role # "owner" =>
                 \E v \in Users \ {u} : member[In(r)][v] = "owner"
        PROVE  HasOwner(w)'
    <3>1. CASE w # In(r)
      BY <1>1, <2>1, <3>1 DEF HasOwner
    <3>2. CASE w = In(r) /\ role = "owner"
      BY <1>1, <2>1, <3>2 DEF HasOwner
    <3>3. CASE w = In(r) /\ role # "owner"
      <4>1. PICK v \in Users \ {u} : member[w][v] = "owner"
        BY <2>1, <3>3 DEF HasOwner
      <4> QED
        BY <1>1, <2>1, <3>3, <4>1 DEF HasOwner
    <3> QED
      BY <3>1, <3>2, <3>3
  <2>2. ASSUME NEW x \in Workspaces, By(r) \in Users, \A u \in Users : member[x][u] = "none",
               member' = [member EXCEPT ![x][By(r)] = "owner"]
        PROVE  HasOwner(w)'
    BY <1>1, <2>2 DEF HasOwner
  <2> QED
    BY <1>2, <1>3, <2>1, <2>2, MemberChanges
<1> QED
  BY <1>2, <1>3, NextSteps, OutsideKeepsHandlers DEF vars, rows

\* What somebody else sees under the lock of its workspace does not change.
LEMMA OthersSeeTruth ==
  ASSUME TypeInv, HoldInv, OwnerInv, NEW r \in Requests, HandlerStep(r),
         NEW q \in Requests, q # r, request[q].at = "locked"
  PROVE  member'[In(q)] = member[In(q)] /\ Pending(In(q))' \subseteq Pending(In(q))
<1>1. /\ member \in [Workspaces -> [Users -> Roles \cup {"none"}]]
      /\ invitation \in [Workspaces -> [Users -> Invitations]]
  BY TypeParts DEF TypeInv, MemberTyped, InvitationTyped
<1>2. /\ In(q) \in Workspaces /\ workspaceLock[In(q)] = q /\ HasOwner(In(q))
  BY DEF TypeInv, Shape, HoldInv, Holds, OwnerInv, AboutClaimed
<1>3. member'[In(q)] = member[In(q)]
  <2>1. ASSUME NEW u \in Users, NEW role \in Roles \cup {"none"}, workspaceLock[In(r)] = r,
               member' = [member EXCEPT ![In(r)][u] = role]
        PROVE  member'[In(q)] = member[In(q)]
    BY <1>1, <1>2, <2>1
  <2>2. ASSUME NEW w \in Workspaces, NEW u \in Users, \A v \in Users : member[w][v] = "none",
               member' = [member EXCEPT ![w][u] = "owner"]
        PROVE  member'[In(q)] = member[In(q)]
    BY <1>1, <1>2, <2>2 DEF HasOwner
  <2>3. \/ UNCHANGED member
        \/ /\ workspaceLock[In(r)] = r
           /\ \E u \in Users, role \in Roles \cup {"none"} : member' = [member EXCEPT ![In(r)][u] = role]
        \/ \E w \in Workspaces, u \in Users :
             /\ \A v \in Users : member[w][v] = "none"
             /\ member' = [member EXCEPT ![w][u] = "owner"]
    BY MemberChanges
  <2> QED
    BY <2>1, <2>2, <2>3
<1>4. Pending(In(q))' \subseteq Pending(In(q))
  <2>1. CASE UNCHANGED invitation
    BY <2>1, OthersStay DEF Pending, In
  <2>2. ASSUME NEW role \in Invitable, Invite(r, role) PROVE invitation'[In(q)] = invitation[In(q)]
    <3>1. workspaceLock[In(r)] = r
      BY <2>2 DEF Invite, Locked, HoldInv, Holds, TypeInv, Shape
    <3> QED
      BY <1>1, <1>2, <2>2, <3>1 DEF Invite
  <2>3. ASSUME NEW u \in Users, NEW x \in {"none", "over"}, In(r) \in Workspaces,
               invitation' = [invitation EXCEPT ![In(r)][u] = x]
        PROVE  \A v \in Users : invitation'[In(q)][v] \in Invitable => invitation[In(q)][v] \in Invitable
    BY <1>1, <1>2, <2>3 DEF Invitable
  <2>4. CASE Accept(r)
    <3>1. In(r) \in Workspaces /\ By(r) \in Users
      BY <2>4 DEF Accept, Locked, TypeInv, Shape
    <3> QED
      BY <2>3, <2>4, <3>1, OthersStay DEF Accept, Pending, In
  <2>5. CASE Revoke(r)
    <3>1. In(r) \in Workspaces /\ request[r].whom \in Users
      BY <2>5 DEF Revoke, TypeInv, Shape
    <3> QED
      BY <2>3, <2>5, <3>1, OthersStay DEF Revoke, Pending, In
  <2> QED
    BY <2>1, <2>2, <2>4, <2>5, OthersStay, OthersKeepRows
    DEF HandlerStep, Ending, ChangeRole, Remove, OwnElsewhere, Refused, Create, rows, Pending, In
<1> QED
  BY <1>3, <1>4

LEMMA OwnerStep == TypeInv /\ HoldInv /\ OwnerInv /\ [Next]_vars => OwnerInv'
<1> SUFFICES ASSUME TypeInv, HoldInv, OwnerInv, [Next]_vars PROVE OwnerInv'
  OBVIOUS
<1>1. /\ member \in [Workspaces -> [Users -> Roles \cup {"none"}]]
      /\ invitation \in [Workspaces -> [Users -> Invitations]]
  BY TypeParts DEF TypeInv, MemberTyped, InvitationTyped
<1>2. \A w \in Workspaces : HasOwner(w) => HasOwner(w)'
  BY OwnersStay
<1>3. ASSUME NEW r \in Requests, HandlerStep(r) PROVE OwnerInv'
  <2>1. Shape(r) /\ Holds(r) /\ AboutClaimed(r) /\ SeesTruth(r)
    BY DEF TypeInv, HoldInv, OwnerInv
  <2>2. Claimed'
    <3> SUFFICES ASSUME NEW w \in Workspaces, NEW u \in Users,
                        member'[w][u] # "none" \/ invitation'[w][u] # "none",
                        ~HasOwner(w)
                 PROVE  HasOwner(w)'
      BY <1>2 DEF Claimed
    <3>1. member[w][u] = "none" /\ invitation[w][u] = "none"
      BY DEF OwnerInv, Claimed
    <3>2. CASE member'[w][u] # "none"
      <4>1. ASSUME Locked(r, "manage") \/ Locked(r, "accept") PROVE HasOwner(In(r))
        BY <2>1, <4>1 DEF AboutClaimed, Locked
      <4>2. ASSUME NEW v \in Users, NEW role \in Roles \cup {"none"},
                   Locked(r, "manage") \/ Locked(r, "accept"), In(r) \in Workspaces,
                   member' = [member EXCEPT ![In(r)][v] = role]
            PROVE  FALSE
        BY <1>1, <3>1, <3>2, <4>1, <4>2
      <4>3. ASSUME NEW x \in Workspaces, By(r) \in Users, member' = [member EXCEPT ![x][By(r)] = "owner"]
            PROVE  HasOwner(w)'
        BY <1>1, <3>1, <3>2, <4>3 DEF HasOwner
      <4> QED
        BY <1>3, <3>1, <3>2, <4>2, <4>3, MemberChanges
    <3>3. CASE invitation'[w][u] # "none"
      <4>1. ASSUME NEW role \in Invitable, Invite(r, role) PROVE FALSE
        <5>1. request[r].op = "invite" /\ HasOwner(In(r)) /\ In(r) # w
          BY <2>1, <4>1 DEF Invite, Locked, AboutClaimed
        <5> QED
          BY <1>1, <3>1, <3>3, <4>1, <5>1 DEF Invite
      <4>2. CASE Accept(r)
        <5>1. HasOwner(In(r)) /\ In(r) # w
          BY <2>1, <4>2 DEF Accept, Locked, AboutClaimed
        <5> QED
          BY <1>1, <3>1, <3>3, <4>2, <5>1 DEF Accept
      <4>3. CASE Revoke(r)
        <5>1. HasOwner(In(r)) /\ In(r) # w
          BY <2>1, <4>3 DEF Revoke, AboutClaimed
        <5> QED
          BY <1>1, <3>1, <3>3, <4>3, <5>1 DEF Revoke
      <4> QED
        BY <1>3, <3>1, <3>3, <4>1, <4>2, <4>3, OthersKeepRows
        DEF HandlerStep, Ending, ChangeRole, Remove, OwnElsewhere, Refused, Create, rows
    <3> QED
      BY <3>2, <3>3
  <2>3. ASSUME NEW q \in Requests, q # r PROVE AboutClaimed(q)' /\ SeesTruth(q)'
    <3>1. request'[q] = request[q] /\ AboutClaimed(q) /\ SeesTruth(q) /\ Shape(q)
      BY <1>3, <2>3, OthersStay DEF OwnerInv, TypeInv
    <3>2. AboutClaimed(q)'
      <4>1. request[q].op \in {"manage", "invite", "revoke", "accept"} => In(q) \in Workspaces
        BY <3>1 DEF Shape
      <4>2. In(q)' = In(q)
        BY <3>1 DEF In
      <4> QED
        BY <1>2, <3>1, <4>1, <4>2 DEF AboutClaimed, HasOwner
    <3>3. SeesTruth(q)'
      <4>1. CASE request[q].at = "locked"
        <5>1. member'[In(q)] = member[In(q)] /\ Pending(In(q))' \subseteq Pending(In(q))
          BY <1>3, <2>3, <4>1, OthersSeeTruth
        <5>2. In(q)' = In(q)
          BY <3>1 DEF In
        <5> QED
          BY <3>1, <4>1, <5>1, <5>2 DEF SeesTruth, Pending
      <4>2. CASE request[q].at # "locked"
        BY <3>1, <4>2 DEF SeesTruth
      <4> QED
        BY <4>1, <4>2
    <3> QED
      BY <3>2, <3>3
  <2>4. AboutClaimed(r)' /\ SeesTruth(r)'
    <3>1. CASE Ending(r)
      <4>1. request'[r] = Idle
        BY <3>1, EndingReleases, ReleaseEffect, TypeParts DEF TypeInv
      <4> QED
        BY <4>1, IdleType DEF AboutClaimed, SeesTruth
    <3>2. ASSUME NEW w \in Workspaces, NEW u \in Users, NEW whom \in Users \cup {Null},
                 NEW op \in {"manage", "invite", "revoke"}, Authorise(r, w, u, op, whom)
          PROVE  AboutClaimed(r)' /\ SeesTruth(r)'
      <4>1. request'[r].at = "authorised" /\ In(r)' = w
        BY <3>2, AuthoriseEffect DEF TypeInv
      <4>2. member[w][u] # "none"
        BY <3>2 DEF Authorise, Managers
      <4>3. HasOwner(w)'
        BY <1>2, <4>2 DEF OwnerInv, Claimed
      <4> QED
        BY <4>1, <4>3 DEF AboutClaimed, SeesTruth, HasOwner
    <3>3. ASSUME NEW w \in Workspaces, NEW u \in Users, FollowInvitation(r, w, u)
          PROVE  AboutClaimed(r)' /\ SeesTruth(r)'
      <4>1. request'[r].at = "authorised" /\ In(r)' = w /\ invitation[w][u] \in Invitable
        BY <3>3, FollowInvitationEffect DEF TypeInv
      <4>2. invitation[w][u] # "none"
        BY <4>1 DEF Invitable
      <4>3. HasOwner(w)'
        BY <1>2, <4>2 DEF OwnerInv, Claimed
      <4> QED
        BY <4>1, <4>3 DEF AboutClaimed, SeesTruth, HasOwner
    <3>4. ASSUME NEW u \in Users, LockCreator(r, u) PROVE AboutClaimed(r)' /\ SeesTruth(r)'
      BY <3>4, LockCreatorEffect DEF AboutClaimed, SeesTruth, TypeInv
    <3>5. ASSUME NEW at, Goes(r, at), UNCHANGED rows PROVE AboutClaimed(r)'
      BY <2>1, <3>5 DEF Goes, AboutClaimed, HasOwner, rows
    <3>6. CASE AskForWorkspace(r)
      <4>1. Goes(r, "asked") /\ UNCHANGED rows
        BY <3>6, AskForWorkspaceEffect DEF TypeInv, AskForWorkspace
      <4> QED
        BY <3>5, <4>1 DEF SeesTruth, Goes
    <3>7. ASSUME In(r) \in Workspaces, Goes(r, "locked"), request'[r].view = View(r), UNCHANGED rows
          PROVE  AboutClaimed(r)' /\ SeesTruth(r)'
      <4>1. /\ View(r).role = member[In(r)]
            /\ request[r].op = "invite" => View(r).pending = Pending(In(r))
        BY <3>7, ViewType DEF TypeInv
      <4> QED
        BY <3>5, <3>7, <4>1 DEF SeesTruth, Goes, Pending, rows
    <3>8. CASE LockWorkspace(r)
      <4>1. In(r) \in Workspaces /\ UNCHANGED rows
        BY <3>8, LockWorkspaceEffect DEF LockWorkspace
      <4>2. Goes(r, "late") \/ (Goes(r, "locked") /\ request'[r].view = View(r))
        BY <3>8, LockWorkspaceEffect
      <4> QED
        BY <3>5, <3>7, <4>1, <4>2 DEF SeesTruth, Goes
    <3>9. CASE LockLateInvitation(r)
      BY <3>7, <3>9, LockLateInvitationEffect DEF LockLateInvitation
    <3>10. ASSUME NEW u \in Users, LockNewOwner(r, u) PROVE AboutClaimed(r)' /\ SeesTruth(r)'
      <4>1. /\ Goes(r, "locked") /\ request'[r].view = request[r].view /\ request[r].op = "manage"
            /\ request[r].at = "locked" /\ UNCHANGED rows
        BY <3>10, LockNewOwnerEffect DEF TypeInv, LockNewOwner
      <4> QED
        BY <2>1, <3>5, <4>1 DEF SeesTruth, Goes, rows
    <3> QED
      BY <1>3, <3>1, <3>2, <3>3, <3>4, <3>6, <3>8, <3>9, <3>10 DEF HandlerStep, Arriving, Waiting
  <2> QED
    BY <2>2, <2>3, <2>4 DEF OwnerInv
<1>4. ASSUME UNCHANGED <<request, member>>,
             \A w \in Workspaces, u \in Users :
               /\ invitation'[w][u] # "none" => invitation[w][u] # "none"
               /\ invitation'[w][u] \in Invitable => invitation[w][u] \in Invitable
      PROVE  OwnerInv'
  <2>1. \A w \in Workspaces : Pending(w)' \subseteq Pending(w)
    BY <1>4 DEF Pending
  <2>2. \A r \in Requests : request[r].at = "locked" => In(r) \in Workspaces
    BY DEF TypeInv, Shape
  <2> QED
    BY <1>4, <2>1, <2>2 DEF OwnerInv, Claimed, AboutClaimed, SeesTruth, HasOwner, In, Pending
<1>5. CASE UNCHANGED <<request, member, invitation>>
  BY <1>4, <1>5
<1>6. ASSUME NEW w \in Workspaces, NEW u \in Users, Expire(w, u) PROVE OwnerInv'
  <2>1. invitation[w][u] \in Invitable /\ invitation' = [invitation EXCEPT ![w][u] = "over"]
        /\ UNCHANGED <<request, member>>
    BY <1>6 DEF Expire, Pending
  <2> QED
    BY <1>1, <1>4, <2>1 DEF Invitable
<1> QED
  BY <1>3, <1>5, <1>6, NextSteps DEF Outside, SetQuota, LoseElsewhere, vars, rows

LEMMA OwnerInit == Init => OwnerInv
<1> SUFFICES ASSUME Init PROVE OwnerInv
  OBVIOUS
<1>1. /\ \A r \in Requests : request[r] = Idle
      /\ \A w \in Workspaces, u \in Users : member[w][u] = "none" /\ invitation[w][u] = "none"
  BY DEF Init
<1> QED
  BY <1>1, IdleType DEF OwnerInv, Claimed, AboutClaimed, SeesTruth

LEMMA OwnerInvAlways == Spec => []OwnerInv
  BY OwnerInit, OwnerStep, TypeInvAlways, HoldInvAlways, PTL DEF Spec

\* However many owners step down, demote or remove each other at once, in however many
\* workspaces, each keeps one.
THEOREM AlwaysAnOwnerAlways == Spec => []AlwaysAnOwner
<1>1. OwnerInv => AlwaysAnOwner
  BY DEF OwnerInv, Claimed, AlwaysAnOwner, Members, Owners, HasOwner
<1> QED
  BY <1>1, OwnerInvAlways, PTL

\* A role is only changed, and a member only removed, for somebody who manages the
\* workspace at that very moment.
THEOREM OnlyManagersManageAlways == Spec => OnlyManagersManage
<1> DEFINE Change(w, u) ==
             member[w][u] # "none" /\ member'[w][u] # member[w][u] =>
               \E r \in Requests : /\ In(r) = w /\ Entitled(r, member[w][u])
                                   /\ Entitled(r, member'[w][u])
           A == \A w \in Workspaces, u \in Users : Change(w, u)
<1>1. TypeInv /\ HoldInv /\ OwnerInv /\ [Next]_vars => A
  <2> SUFFICES ASSUME TypeInv, HoldInv, OwnerInv, [Next]_vars,
                      NEW w \in Workspaces, NEW u \in Users,
                      member[w][u] # "none", member'[w][u] # member[w][u]
               PROVE  \E r \in Requests : /\ In(r) = w /\ Entitled(r, member[w][u])
                                          /\ Entitled(r, member'[w][u])
    OBVIOUS
  <2>1. member \in [Workspaces -> [Users -> Roles \cup {"none"}]]
    BY TypeParts DEF TypeInv, MemberTyped
  <2>2. PICK r \in Requests : HandlerStep(r)
    BY NextSteps, OutsideKeepsHandlers DEF vars, rows
  <2>3. Shape(r) /\ SeesTruth(r)
    BY DEF TypeInv, OwnerInv
  <2>4. ASSUME MayManage(r, u), In(r) = w
        PROVE  Entitled(r, member[w][u]) /\ request[r].view.role = member[w] /\ request[r].op = "manage"
    <3>1. /\ request[r].op = "manage" /\ request[r].at = "locked"
          /\ Manageable(r, request[r].view.role[u])
      BY <2>4 DEF MayManage, Locked
    <3>2. request[r].view.role = member[w]
      BY <2>3, <2>4, <3>1 DEF SeesTruth
    <3> QED
      BY <2>4, <3>1, <3>2 DEF Manageable, ActsAs, Entitled, Managers
  <2>5. ASSUME NEW v \in Users, NEW role \in Roles, ChangeRole(r, v, role)
        PROVE  /\ In(r) = w /\ Entitled(r, member[w][u]) /\ Entitled(r, member'[w][u])
    <3>1. In(r) \in Workspaces
      BY <2>3, <2>5 DEF ChangeRole, MayManage, Locked, Shape
    <3>2. In(r) = w /\ v = u /\ member'[w][u] = role
      BY <2>1, <2>5, <3>1 DEF ChangeRole
    <3>3. MayManage(r, u) /\ NewRoleAllowed(r, role)
      BY <2>5, <3>2 DEF ChangeRole
    <3> QED
      BY <2>4, <3>2, <3>3 DEF NewRoleAllowed, ActsAs, Entitled
  <2>6. ASSUME NEW v \in Users, Remove(r, v)
        PROVE  /\ In(r) = w /\ Entitled(r, member[w][u]) /\ Entitled(r, member'[w][u])
    <3>1. In(r) \in Workspaces
      BY <2>3, <2>6 DEF Remove, MayManage, Locked, Shape
    <3>2. In(r) = w /\ v = u /\ member'[w][u] = "none"
      BY <2>1, <2>6, <3>1 DEF Remove
    <3>3. MayManage(r, u)
      BY <2>6, <3>2 DEF Remove
    <3> QED
      BY <2>4, <3>2, <3>3 DEF Entitled
  <2>7. CASE Accept(r)
    <3>1. In(r) \in Workspaces /\ request[r].at = "locked" /\ By(r) \in Users
      BY <2>3, <2>7 DEF Accept, Locked, Shape
    <3>2. member[In(r)][By(r)] = "none"
      BY <2>3, <2>7, <3>1 DEF Accept, SeesTruth
    <3> QED
      BY <2>1, <2>7, <3>1, <3>2 DEF Accept
  <2>8. ASSUME NEW x \in Workspaces, Create(r, x) PROVE FALSE
    BY <2>1, <2>8 DEF Create, Unclaimed, Members
  <2> QED
    BY <2>2, <2>5, <2>6, <2>7, <2>8, OthersKeepRows
    DEF HandlerStep, Ending, Revoke, OwnElsewhere, Refused, Invite, rows
<1>2. A => A \/ UNCHANGED vars
  OBVIOUS
<1> QED
  BY <1>1, TypeInvAlways, HoldInvAlways, OwnerInvAlways, PTL DEF Spec, OnlyManagersManage

-----------------------------------------------------------------------------
(* Quotas *)

LEMMA Counting ==
  ASSUME NEW U, IsFiniteSet(U), NEW S \in SUBSET U, NEW T \in SUBSET U
  PROVE  /\ Cardinality(S) \in Nat /\ Cardinality(T) \in Nat
         /\ T \subseteq S => Cardinality(T) <= Cardinality(S)
         /\ \A x : T \subseteq S \cup {x} => Cardinality(T) <= Cardinality(S) + 1
<1>1. IsFiniteSet(S) /\ IsFiniteSet(T)
  BY FS_Subset
<1>2. Cardinality(S) \in Nat /\ Cardinality(T) \in Nat
  BY <1>1, FS_CardinalityType
<1>3. T \subseteq S => Cardinality(T) <= Cardinality(S)
  BY <1>1, FS_Subset
<1>4. ASSUME NEW x, T \subseteq S \cup {x} PROVE Cardinality(T) <= Cardinality(S) + 1
  <2>1. /\ IsFiniteSet(S \cup {x})
        /\ Cardinality(S \cup {x}) = IF x \in S THEN Cardinality(S) ELSE Cardinality(S) + 1
    BY <1>1, FS_AddElement
  <2>2. Cardinality(T) <= Cardinality(S \cup {x})
    BY <1>4, <2>1, FS_Subset
  <2>3. Cardinality(S \cup {x}) <= Cardinality(S) + 1
    BY <1>2, <2>1
  <2>4. Cardinality(S \cup {x}) \in Nat
    BY <1>2, <2>1
  <2> QED
    BY <1>2, <2>2, <2>3, <2>4
<1> QED
  BY <1>2, <1>3, <1>4

OwnedOf(u) == {w \in Workspaces : member[w][u] = "owner"}

\* Nobody comes to own one more but by the handler that has locked its account, which then ends.
LEMMA OwnedChange ==
  ASSUME TypeInv, HoldInv, OwnerInv, NEW r \in Requests, HandlerStep(r), NEW u \in Users
  PROVE  /\ Owned(u) \in Nat /\ Owned(u)' \in Nat
         /\ \/ Owned(u)' <= Owned(u)
            \/ Owned(u)' <= Owned(u) + 1 /\ userLock[u] = r /\ Ending(r)
<1>1. /\ member \in [Workspaces -> [Users -> Roles \cup {"none"}]] /\ elsewhere \in [Users -> Nat]
      /\ Shape(r) /\ Holds(r) /\ SeesTruth(r)
  BY TypeParts DEF TypeInv, MemberTyped, NumbersTyped, HoldInv, OwnerInv
<1>2. elsewhere'[u] \in Nat
  BY RowsStep DEF NumbersTyped
<1>3. /\ Cardinality(OwnedOf(u)) \in Nat /\ Cardinality(OwnedOf(u)') \in Nat
      /\ OwnedOf(u)' \subseteq OwnedOf(u) => Cardinality(OwnedOf(u)') <= Cardinality(OwnedOf(u))
      /\ \A w : OwnedOf(u)' \subseteq OwnedOf(u) \cup {w} =>
           Cardinality(OwnedOf(u)') <= Cardinality(OwnedOf(u)) + 1
  <2>1. OwnedOf(u) \in SUBSET Workspaces /\ OwnedOf(u)' \in SUBSET Workspaces
    BY DEF OwnedOf
  <2>2. IsFiniteSet(Workspaces)
    BY MembersAssumption
  <2> QED
    BY <2>1, <2>2, Counting
<1>4. /\ Owned(u) = Cardinality(OwnedOf(u)) + elsewhere[u]
      /\ Owned(u)' = Cardinality(OwnedOf(u)') + elsewhere'[u]
  BY DEF Owned, OwnedOf
<1>5. Owned(u) \in Nat /\ Owned(u)' \in Nat
  BY <1>1, <1>2, <1>3, <1>4
<1>6. ASSUME OwnedOf(u)' \subseteq OwnedOf(u), elsewhere'[u] = elsewhere[u]
      PROVE  Owned(u)' <= Owned(u)
  BY <1>1, <1>3, <1>4, <1>6
<1>7. ASSUME NEW w, OwnedOf(u)' \subseteq OwnedOf(u) \cup {w}, elsewhere'[u] = elsewhere[u]
      PROVE  Owned(u)' <= Owned(u) + 1
  <2>1. Cardinality(OwnedOf(u)') <= Cardinality(OwnedOf(u)) + 1
    BY <1>3, <1>7
  <2> QED
    BY <1>1, <1>3, <1>4, <1>7, <2>1
<1> DEFINE Result == \/ Owned(u)' <= Owned(u)
                     \/ Owned(u)' <= Owned(u) + 1 /\ userLock[u] = r /\ Ending(r)
<1>8. ASSUME UNCHANGED <<member, elsewhere>> PROVE Result
  BY <1>6, <1>8 DEF OwnedOf
<1>9. ASSUME NEW w \in Workspaces, NEW v \in Users, NEW role, role # "owner" \/ member[w][v] = "owner",
             member' = [member EXCEPT ![w][v] = role], elsewhere' = elsewhere
      PROVE  Owned(u)' <= Owned(u)
  <2>1. OwnedOf(u)' \subseteq OwnedOf(u)
    BY <1>1, <1>9 DEF OwnedOf
  <2> QED
    BY <1>6, <1>9, <2>1
<1>10. ASSUME NEW w \in Workspaces, NEW v \in Users, userLock[v] = r, Ending(r),
              member' = [member EXCEPT ![w][v] = "owner"], elsewhere' = elsewhere
       PROVE  Result
  <2>1. CASE u = v
    <3>1. OwnedOf(u)' \subseteq OwnedOf(u) \cup {w}
      BY <1>1, <1>10 DEF OwnedOf
    <3> QED
      BY <1>7, <1>10, <2>1, <3>1
  <2>2. CASE u # v
    <3>1. OwnedOf(u)' \subseteq OwnedOf(u)
      BY <1>1, <1>10, <2>2 DEF OwnedOf
    <3> QED
      BY <1>6, <1>10, <3>1
  <2> QED
    BY <2>1, <2>2
<1>11. ASSUME NEW v \in Users, NEW role \in Roles, ChangeRole(r, v, role) PROVE Result
  <2>1. In(r) \in Workspaces /\ request[r].view.role = member[In(r)] /\ request[r].op = "manage"
    BY <1>1, <1>11 DEF ChangeRole, MayManage, Locked, Shape, SeesTruth
  <2>2. /\ member' = [member EXCEPT ![In(r)][v] = role] /\ elsewhere' = elsewhere /\ Ending(r)
    BY <1>11 DEF ChangeRole, Ending
  <2>3. CASE role = "owner" /\ member[In(r)][v] # "owner"
    <3>1. userLock[v] = r
      BY <1>1, <1>11, <2>1, <2>3 DEF ChangeRole, Holds
    <3> QED
      BY <1>10, <2>1, <2>2, <2>3, <3>1
  <2>4. CASE role # "owner" \/ member[In(r)][v] = "owner"
    BY <1>9, <2>1, <2>2, <2>4
  <2> QED
    BY <2>3, <2>4
<1>12. ASSUME NEW v \in Users, Remove(r, v) PROVE Result
  <2>1. In(r) \in Workspaces
    BY <1>1, <1>12 DEF Remove, MayManage, Locked, Shape
  <2>2. member' = [member EXCEPT ![In(r)][v] = "none"] /\ elsewhere' = elsewhere
    BY <1>12 DEF Remove
  <2> QED
    BY <1>9, <2>1, <2>2
<1>13. ASSUME Accept(r) PROVE Result
  <2>1. In(r) \in Workspaces /\ By(r) \in Users /\ JoinsAs(r) # "owner"
    BY <1>1, <1>13 DEF Accept, Locked, Shape, JoinsAs, Invitable
  <2>2. member' = [member EXCEPT ![In(r)][By(r)] = JoinsAs(r)] /\ elsewhere' = elsewhere
    BY <1>13 DEF Accept
  <2> QED
    BY <1>9, <2>1, <2>2
<1>14. ASSUME NEW w \in Workspaces, Create(r, w) PROVE Result
  <2>1. By(r) \in Users /\ userLock[By(r)] = r
    BY <1>1, <1>14 DEF Create, Shape, Holds
  <2>2. member' = [member EXCEPT ![w][By(r)] = "owner"] /\ elsewhere' = elsewhere /\ Ending(r)
    BY <1>14 DEF Create, Ending
  <2> QED
    BY <1>10, <2>1, <2>2
<1>15. ASSUME OwnElsewhere(r) PROVE Result
  <2>1. By(r) \in Users /\ userLock[By(r)] = r
    BY <1>1, <1>15 DEF OwnElsewhere, Shape, Holds
  <2>2. elsewhere' = [elsewhere EXCEPT ![By(r)] = @ + 1] /\ OwnedOf(u)' = OwnedOf(u) /\ Ending(r)
    BY <1>15 DEF OwnElsewhere, Ending, OwnedOf
  <2>3. CASE u = By(r)
    <3>1. elsewhere'[u] = elsewhere[u] + 1
      BY <1>1, <2>2, <2>3
    <3>2. Owned(u)' <= Owned(u) + 1
      BY <1>1, <1>3, <1>4, <2>2, <3>1
    <3> QED
      BY <2>1, <2>2, <2>3, <3>2
  <2>4. CASE u # By(r)
    BY <1>1, <1>6, <2>2, <2>4
  <2> QED
    BY <2>3, <2>4
<1>16. Result
  BY <1>8, <1>11, <1>12, <1>13, <1>14, <1>15, OthersKeepRows
  DEF HandlerStep, Ending, Revoke, Refused, Invite, rows
<1> QED
  BY <1>5, <1>16

LEMMA QuotaStep == TypeInv /\ HoldInv /\ OwnerInv /\ QuotaInv /\ [Next]_vars => QuotaInv'
<1> SUFFICES ASSUME TypeInv, HoldInv, OwnerInv, QuotaInv, [Next]_vars PROVE QuotaInv'
  OBVIOUS
<1>1. /\ OwnerQuota \in Nat /\ userLock \in [Users -> Requests \cup {Null}]
      /\ member \in [Workspaces -> [Users -> Roles \cup {"none"}]] /\ elsewhere \in [Users -> Nat]
  BY TypeParts, MembersAssumption DEF TypeInv, LocksTyped, MemberTyped, NumbersTyped
<1>2. ASSUME NEW u \in Users
      PROVE  (u \in PlatformAdmins \/ Owned(u) <= OwnerQuota)
             /\ (userLock[u] \in Requests => MayOwnMore(u))
  BY <1>2 DEF QuotaInv, OwnershipQuota
<1>3. SUFFICES ASSUME NEW u \in Users
               PROVE  (u \in PlatformAdmins \/ Owned(u)' <= OwnerQuota)
                      /\ (userLock'[u] \in Requests => MayOwnMore(u)')
  BY <1>3 DEF QuotaInv, OwnershipQuota
<1>4. ASSUME Owned(u) \in Nat, Owned(u)' \in Nat, Owned(u)' <= Owned(u)
      PROVE  /\ u \in PlatformAdmins \/ Owned(u)' <= OwnerQuota
             /\ MayOwnMore(u) => MayOwnMore(u)'
  BY <1>1, <1>2, <1>4 DEF MayOwnMore
<1>5. ASSUME NEW r \in Requests, HandlerStep(r)
      PROVE  (u \in PlatformAdmins \/ Owned(u)' <= OwnerQuota)
             /\ (userLock'[u] \in Requests => MayOwnMore(u)')
  <2>1. /\ Owned(u) \in Nat /\ Owned(u)' \in Nat
        /\ \/ Owned(u)' <= Owned(u)
           \/ Owned(u)' <= Owned(u) + 1 /\ userLock[u] = r /\ Ending(r)
    BY <1>5, OwnedChange
  <2>2. CASE Owned(u)' <= Owned(u)
    <3>1. userLock'[u] \in Requests => userLock[u] = userLock'[u] \/ MayOwnMore(u)
      <4>1. CASE Ending(r)
        <5>1. userLock'[u] = IF userLock[u] = r THEN Null ELSE userLock[u]
          BY <4>1, EndingReleases, ReleaseEffect, TypeParts DEF TypeInv
        <5> QED
          BY <5>1, NullIsNobody
      <4>2. ASSUME NEW v \in Users, userLock' = [userLock EXCEPT ![v] = r], MayOwnMore(v)
            PROVE  userLock[u] = userLock'[u] \/ MayOwnMore(u)
        BY <1>1, <4>2
      <4> QED
        BY <1>5, <4>1, <4>2
        DEF HandlerStep, Arriving, Waiting, Authorise, FollowInvitation, LockCreator,
            AskForWorkspace, LockWorkspace, LockLateInvitation, LockNewOwner, locks
    <3> QED
      BY <1>2, <1>4, <2>1, <2>2, <3>1
  <2>3. CASE Owned(u)' <= Owned(u) + 1 /\ userLock[u] = r /\ Ending(r)
    <3>1. userLock'[u] = Null
      BY <2>3, EndingReleases, ReleaseEffect, TypeParts DEF TypeInv
    <3>2. u \in PlatformAdmins \/ Owned(u) < OwnerQuota
      BY <1>2, <2>3 DEF MayOwnMore
    <3> QED
      BY <1>1, <2>1, <2>3, <3>1, <3>2, NullIsNobody
  <2> QED
    BY <2>1, <2>2, <2>3
<1>6. CASE UNCHANGED <<member, elsewhere, userLock>>
  BY <1>2, <1>6 DEF Owned, MayOwnMore
<1>7. ASSUME NEW v \in Users, LoseElsewhere(v)
      PROVE  (u \in PlatformAdmins \/ Owned(u)' <= OwnerQuota)
             /\ (userLock'[u] \in Requests => MayOwnMore(u)')
  <2>1. /\ elsewhere'[u] \in Nat /\ elsewhere'[u] <= elsewhere[u]
        /\ UNCHANGED <<member, userLock>>
    BY <1>1, <1>7 DEF LoseElsewhere, locks
  <2>2. Cardinality(OwnedOf(u)) \in Nat
    <3>1. OwnedOf(u) \in SUBSET Workspaces
      BY DEF OwnedOf
    <3> QED
      BY <3>1, Counting, MembersAssumption
  <2>3. /\ Owned(u) = Cardinality(OwnedOf(u)) + elsewhere[u]
        /\ Owned(u)' = Cardinality(OwnedOf(u)) + elsewhere'[u]
    BY <2>1 DEF Owned, OwnedOf
  <2>4. Owned(u) \in Nat /\ Owned(u)' \in Nat /\ Owned(u)' <= Owned(u)
    BY <1>1, <2>1, <2>2, <2>3
  <2> QED
    BY <1>2, <1>4, <2>1, <2>4
<1> QED
  BY <1>5, <1>6, <1>7, NextSteps DEF Outside, SetQuota, Expire, vars, rows, locks

LEMMA QuotaInit == Init => QuotaInv
<1> SUFFICES ASSUME Init PROVE QuotaInv
  OBVIOUS
<1>1. ASSUME NEW u \in Users PROVE userLock[u] = Null /\ Owned(u) = 0
  <2>1. userLock[u] = Null /\ elsewhere[u] = 0
    BY <1>1 DEF Init
  <2>2. OwnedOf(u) = {}
    BY <1>1 DEF Init, OwnedOf
  <2>3. Cardinality(OwnedOf(u)) = 0
    BY <2>2, FS_EmptySet
  <2>4. Owned(u) = Cardinality(OwnedOf(u)) + elsewhere[u]
    BY DEF Owned, OwnedOf
  <2> QED
    BY <2>1, <2>3, <2>4
<1> QED
  BY <1>1, NullIsNobody, MembersAssumption DEF QuotaInv, OwnershipQuota

\* However many workspaces are created and ownerships handed over at once, nobody but the
\* platform administrators comes to own more than the quota allows.
THEOREM OwnershipQuotaAlways == Spec => []OwnershipQuota
<1>1. QuotaInv => OwnershipQuota
  BY DEF QuotaInv
<1> QED
  BY <1>1, QuotaInit, QuotaStep, TypeInvAlways, HoldInvAlways, OwnerInvAlways, PTL DEF Spec

\* A member joins, and an invitation is opened, only where a seat is left.
THEOREM SeatsAreLimitedAlways == Spec => SeatsAreLimited
<1> DEFINE A == \A w \in Workspaces :
                  /\ ~(Members(w)' \subseteq Members(w)) => Cardinality(Members(w)') <= quota[w]
                  /\ ~(Pending(w)' \subseteq Pending(w)) => Seats(w)' <= quota[w]
<1>1. TypeInv /\ HoldInv /\ OwnerInv /\ [Next]_vars => A
  <2> SUFFICES ASSUME TypeInv, HoldInv, OwnerInv, [Next]_vars, NEW w \in Workspaces
               PROVE  /\ ~(Members(w)' \subseteq Members(w)) => Cardinality(Members(w)') <= quota[w]
                      /\ ~(Pending(w)' \subseteq Pending(w)) => Seats(w)' <= quota[w]
    OBVIOUS
  <2>1. /\ member \in [Workspaces -> [Users -> Roles \cup {"none"}]]
        /\ invitation \in [Workspaces -> [Users -> Invitations]]
        /\ quota[w] \in Nat \ {0} /\ IsFiniteSet(Users)
    BY TypeParts, MembersAssumption DEF TypeInv, MemberTyped, InvitationTyped, NumbersTyped
  <2>2. ASSUME ~(Members(w)' \subseteq Members(w)) PROVE Cardinality(Members(w)') <= quota[w]
    <3>1. PICK r \in Requests : HandlerStep(r)
      BY <2>2, NextSteps, OutsideKeepsHandlers DEF vars, rows, Members
    <3>2. Shape(r) /\ SeesTruth(r)
      BY DEF TypeInv, OwnerInv
    <3>3. ASSUME NEW v \in Users, NEW role \in Roles, ChangeRole(r, v, role) PROVE FALSE
      <4>1. In(r) \in Workspaces /\ member[In(r)][v] # "none"
        BY <3>2, <3>3 DEF ChangeRole, MayManage, Locked, Shape, SeesTruth
      <4> QED
        BY <2>1, <2>2, <3>3, <4>1 DEF ChangeRole, Members
    <3>4. ASSUME NEW v \in Users, Remove(r, v) PROVE FALSE
      <4>1. In(r) \in Workspaces
        BY <3>2, <3>4 DEF Remove, MayManage, Locked, Shape
      <4> QED
        BY <2>1, <2>2, <3>4, <4>1 DEF Remove, Members
    <3>5. CASE Accept(r)
      <4>1. In(r) \in Workspaces /\ By(r) \in Users /\ request[r].view.role = member[In(r)]
        BY <3>2, <3>5 DEF Accept, Locked, Shape, SeesTruth
      <4>2. In(r) = w /\ Members(w)' \subseteq Members(w) \cup {By(r)}
        BY <2>1, <2>2, <3>5, <4>1 DEF Accept, Members
      <4>3. Cardinality(Members(w)) < quota[w]
        BY <3>5, <4>1, <4>2 DEF Accept, Members
      <4>4. Members(w) \in SUBSET Users /\ Members(w)' \in SUBSET Users
        BY DEF Members
      <4>5. /\ Cardinality(Members(w)) \in Nat /\ Cardinality(Members(w)') \in Nat
            /\ Cardinality(Members(w)') <= Cardinality(Members(w)) + 1
        BY <2>1, <4>2, <4>4, Counting
      <4> QED
        BY <2>1, <4>3, <4>5
    <3>6. ASSUME NEW x \in Workspaces, Create(r, x) PROVE Cardinality(Members(w)') <= quota[w]
      <4>1. By(r) \in Users /\ \A v \in Users : member[x][v] = "none"
        BY <3>2, <3>6 DEF Create, Unclaimed, Members, Shape
      <4>2. x = w /\ Members(w)' = {By(r)}
        BY <2>1, <2>2, <3>6, <4>1 DEF Create, Members
      <4>3. Cardinality(Members(w)') = 1
        BY <4>2, FS_Singleton
      <4> QED
        BY <2>1, <4>3
    <3>7. member' # member
      BY <2>2 DEF Members
    <3> QED
      BY <3>1, <3>3, <3>4, <3>5, <3>6, <3>7, OthersKeepRows
      DEF HandlerStep, Ending, Revoke, OwnElsewhere, Refused, Invite, rows
  <2>3. ASSUME ~(Pending(w)' \subseteq Pending(w)) PROVE Seats(w)' <= quota[w]
    <3>1. invitation' # invitation
      BY <2>3 DEF Pending
    <3>2. ASSUME NEW x \in Workspaces, NEW v \in Users, NEW to \in {"none", "over"},
                 invitation' = [invitation EXCEPT ![x][v] = to]
          PROVE  FALSE
      BY <2>1, <2>3, <3>2 DEF Pending, Invitable
    <3>3. ~Outside
      BY <3>1, <3>2 DEF Outside, SetQuota, Expire, LoseElsewhere
    <3>4. PICK r \in Requests : HandlerStep(r)
      BY <3>1, <3>3, NextSteps DEF vars, rows
    <3>5. Shape(r) /\ SeesTruth(r) /\ request[r].view \in Views
      BY TypeParts DEF TypeInv, OwnerInv, RequestTyped, Records
    <3>6. ~Accept(r)
      BY <3>2, <3>5 DEF Accept, Locked, Shape
    <3>7. ~Revoke(r)
      BY <3>2, <3>5 DEF Revoke, Shape
    <3>8. PICK role \in Invitable : Invite(r, role)
      BY <3>1, <3>4, <3>6, <3>7, OthersKeepRows
      DEF HandlerStep, Ending, ChangeRole, Remove, OwnElsewhere, Refused, Create, rows
    <3>9. /\ In(r) \in Workspaces /\ request[r].whom \in Users /\ request[r].view.role = member[In(r)]
          /\ Pending(In(r)) \subseteq request[r].view.pending /\ request[r].view.pending \subseteq Users
          /\ UNCHANGED member
      BY <3>5, <3>8 DEF Invite, Locked, Shape, SeesTruth, Views
    <3>10. In(r) = w /\ Pending(w)' \subseteq request[r].view.pending \cup {request[r].whom}
      BY <2>1, <2>3, <3>8, <3>9 DEF Invite, Pending
    <3> DEFINE Wanted == request[r].view.pending \cup {request[r].whom}
    <3>11. Pending(w)' \in SUBSET Users /\ Wanted \in SUBSET Users
      BY <3>9 DEF Pending
    <3>12. /\ Cardinality(Pending(w)') \in Nat /\ Cardinality(Wanted) \in Nat
           /\ Cardinality(Pending(w)') <= Cardinality(Wanted)
      BY <2>1, <3>10, <3>11, Counting
    <3>13. Members(w) \in SUBSET Users /\ Cardinality(Members(w)) \in Nat
      BY <2>1, Counting DEF Members
    <3>14. Seats(w)' = Cardinality(Members(w)) + Cardinality(Pending(w)')
      BY <3>9 DEF Seats, Members
    <3>15. Cardinality(Members(w)) + Cardinality(Wanted) <= quota[w]
      BY <3>8, <3>9, <3>10 DEF Invite, SlotsNeeded, Members
    <3> QED
      BY <2>1, <3>12, <3>13, <3>14, <3>15
  <2> QED
    BY <2>2, <2>3
<1> QED
  BY <1>1, TypeInvAlways, HoldInvAlways, OwnerInvAlways, PTL DEF Spec, SeatsAreLimited

=============================================================================
