---------------------------- MODULE Membership ----------------------------
(***************************************************************************)
(* One shared account: its members and their roles, invitations, seats,     *)
(* teams, and what of the account's databases a request may see             *)
(* (internal/account/store.go, account/team.go, auth/context.go,            *)
(* auth/rbac.go, handlers/account.go, handlers/teams.go).                   *)
(*                                                                         *)
(* A request reads the membership of its user once, on arrival, and decides *)
(* by that copy; each later step is one statement or one transaction whose  *)
(* rows are locked.  Every user also owns an account of his own, the oldest *)
(* of his accounts, on which nothing here depends.                          *)
(***************************************************************************)
EXTENDS Naturals, FiniteSets, RoleMatrix

CONSTANTS
    Roles,         \* the roles in use, of those roleMatrix knows
    Users,
    Founder,       \* the user whose account it is at first
    Visits,        \* requests that can run at the same time
    Invites, Teams, Databases,
    Seats,         \* the plan's seat limit
    None,
    MaxVisits      \* bound: requests that arrive

ASSUME MembershipAssumption ==
    /\ Founder \in Users /\ IsFiniteSet(Users)
    /\ IsFiniteSet(Visits) /\ Visits # {} /\ IsFiniteSet(Invites)
    /\ Seats \in Nat \ {0} /\ MaxVisits \in Nat
    /\ None \notin Users \cup Teams \cup Roles

ASSUME RolesAssumption == {"owner", "admin"} \subseteq Roles /\ Roles \subseteq DOMAIN roleMatrix

InviteRoles == Roles \ {"owner"}

VARIABLES
    role,          \* memberships: the role of each user, or None
    current,       \* current_account_id of each user's session
    invite,
    team,          \* "new", "live" or "deleted"
    edges,         \* team_memberships
    teamOf,        \* database_targets.team_id, or None
    visit,         \* where each request is, and what it has read
    joined,        \* history: how often each user became a member by invitation
    orphaned,      \* history: an ownership went to a user who had just been removed
    granted,       \* history: the edges AddTeamMember ever made
    uncounted,     \* history: requests that passed full seats because a list failed
    visits

memberVars == <<role, current, invite, team, edges, teamOf, visit, joined, orphaned,
                granted, uncounted, visits>>

Members == {u \in Users : role[u] # None}
Owners == {u \in Users : role[u] = "owner"}
\* ListPendingInvitations: not accepted, whether or not expired.
Pending == {i \in Invites : invite[i].state \in {"pending", "expired"}}
Counted == {p \in Visits : visit[p].at = "counted"}

NoScope == [all |-> FALSE, teams |-> {}]
Idle == [at |-> "idle", by |-> None, role |-> None, to |-> None, scope |-> NoScope]

MembersInit ==
    /\ role = [u \in Users |-> IF u = Founder THEN "owner" ELSE None]
    /\ current = [u \in Users |-> IF u = Founder THEN "shared" ELSE "own"]
    /\ invite = [i \in Invites |-> [state |-> "none", to |-> None, role |-> None]]
    /\ team = [t \in Teams |-> "new"] /\ edges = {} /\ teamOf = [d \in Databases |-> None]
    /\ visit = [p \in Visits |-> Idle]
    /\ joined = [u \in Users |-> 0] /\ orphaned = FALSE /\ granted = {}
    /\ uncounted = 0 /\ visits = 0

-----------------------------------------------------------------------------
(* A request *)

Arrive(p) == visit[p].at = "idle" /\ visits < MaxVisits /\ visits' = visits + 1
Step(p, at) == visit' = [visit EXCEPT ![p].at = at]
Done(p) == visit' = [visit EXCEPT ![p] = Idle]

tables == <<role, current, invite, team, edges, teamOf, joined, orphaned, granted, uncounted>>

\* LoadCurrentAccount: a user who has lost the account his session points to is put
\* back on his own; a member goes in with the role he has now.
LoadCurrentAccount(p, u) ==
    /\ Arrive(p) /\ current[u] = "shared"
    /\ IF role[u] = None
       THEN current' = [current EXCEPT ![u] = "own"] /\ UNCHANGED visit
       ELSE /\ visit' = [visit EXCEPT ![p] = [Idle EXCEPT !.at = "inside", !.by = u,
                                                          !.role = role[u]]]
            /\ UNCHANGED current
    /\ UNCHANGED <<role, invite, team, edges, teamOf, joined, orphaned, granted, uncounted>>

\* accountSwitch reads the membership first, and writes the session afterwards.
accountSwitch(p, u) ==
    /\ Arrive(p) /\ current[u] = "own" /\ role[u] # None
    /\ visit' = [visit EXCEPT ![p] = [Idle EXCEPT !.at = "enter", !.by = u]]
    /\ UNCHANGED tables

SetCurrentAccount(p) ==
    /\ visit[p].at = "enter" /\ Done(p)
    /\ current' = [current EXCEPT ![visit[p].by] = "shared"]
    /\ UNCHANGED <<role, invite, team, edges, teamOf, joined, orphaned, granted, uncounted, visits>>

\* A refusal, an error, a rolled back transaction, a client that is gone.
Give(p) ==
    /\ visit[p].at # "idle" /\ Done(p)
    /\ UNCHANGED <<tables, visits>>

\* RequireAction, by the role read on arrival.
RequireAction(p, a) == visit[p].at = "inside" /\ Allowed(visit[p].role, a)

-----------------------------------------------------------------------------
(* Invitations *)

\* enforceLimit for seats: members and pending invitations against the plan.
SeatFree == Cardinality(Members) + Cardinality(Pending) < Seats

\* A list that fails is taken for an empty one, and the seats for free.
InviteCount(p) ==
    /\ RequireAction(p, "member.write") /\ Step(p, "counted")
    /\ uncounted' = uncounted + (IF SeatFree THEN 0 ELSE 1)
    /\ UNCHANGED <<role, current, invite, team, edges, teamOf, joined, orphaned, granted, visits>>

\* Rows are interchangeable: a new one is any that is free.
NewInvite == CHOOSE i \in Invites : invite[i].state = "none"

CreateInvitation(u, r) ==
    /\ \E i \in Invites : invite[i].state = "none"
    /\ invite' = [invite EXCEPT ![NewInvite] = [state |-> "pending", to |-> u, role |-> r]]

inviteCreate(p, u, r) ==
    /\ visit[p].at = "counted" /\ CreateInvitation(u, r) /\ Done(p)
    /\ UNCHANGED <<role, current, team, edges, teamOf, joined, orphaned, granted, uncounted,
                   visits>>

\* The invitation row, read under its lock, is neither accepted nor expired.
Open(i) == invite[i].state = "pending"

\* A membership the user already has is kept as it is (ON CONFLICT DO NOTHING).
AcceptInvitation(u, i) ==
    /\ Open(i) /\ invite[i].to = u
    /\ invite' = [invite EXCEPT ![i].state = "accepted"]
    /\ role' = [role EXCEPT ![u] = IF @ = None THEN invite[i].role ELSE @]
    /\ joined' = [joined EXCEPT ![u] = IF role[u] = None THEN @ + 1 ELSE @]

\* Then the session is switched to the account joined.
invitationAccept(p, u, i) ==
    /\ Arrive(p) /\ AcceptInvitation(u, i)
    /\ visit' = [visit EXCEPT ![p] = [Idle EXCEPT !.at = "enter", !.by = u]]
    /\ UNCHANGED <<current, team, edges, teamOf, orphaned, granted, uncounted>>

\* Seven days pass: the link is dead, and still holds its seat.
ExpireInvitation(i) ==
    /\ invite[i].state = "pending" /\ invite' = [invite EXCEPT ![i].state = "expired"]
    /\ UNCHANGED <<role, current, team, edges, teamOf, visit, joined, orphaned, granted,
                   uncounted, visits>>

-----------------------------------------------------------------------------
(* Roles *)

\* Mutant: the last owner is not protected.
LastOwner_Never(u) == FALSE
\* lockMembers: the owner count and the target's role under one lock.
LastOwner(u) == role[u] = "owner" /\ Cardinality(Owners) <= 1

UpdateMemberRole(u, r) ==
    /\ role[u] # None /\ (r # "owner" => ~LastOwner(u))
    /\ role' = [role EXCEPT ![u] = r]

memberUpdate(p, u, r) ==
    /\ RequireAction(p, "member.write") /\ UpdateMemberRole(u, r) /\ Done(p)
    /\ UNCHANGED <<current, invite, team, edges, teamOf, joined, orphaned, granted, uncounted,
                   visits>>

RemoveMember(u) ==
    /\ role[u] # None /\ ~LastOwner(u)
    /\ role' = [role EXCEPT ![u] = None]

memberRemove(p, u) ==
    /\ RequireAction(p, "member.write") /\ RemoveMember(u) /\ Done(p)
    /\ UNCHANGED <<current, invite, team, edges, teamOf, joined, orphaned, granted, uncounted,
                   visits>>

\* Only an owner, as read on arrival; then TransferOwnership: two reads without a lock,
\* and the two updates.
memberTransferOwnership(p, u) ==
    /\ RequireAction(p, "member.write") /\ visit[p].role = "owner" /\ u # visit[p].by
    /\ role[visit[p].by] = "owner"
    /\ visit' = [visit EXCEPT ![p].at = "from", ![p].to = u]
    /\ UNCHANGED <<tables, visits>>

TransferTo(p) ==
    /\ visit[p].at = "from" /\ role[visit[p].to] # None /\ Step(p, "to")
    /\ UNCHANGED <<tables, visits>>

\* An UPDATE of a row that is gone changes nothing and is no error.
TransferOwnership(p) ==
    /\ visit[p].at = "to" /\ Done(p)
    /\ role' = [u \in Users |-> IF role[u] = None THEN None
                                ELSE IF u = visit[p].to THEN "owner"
                                ELSE IF u = visit[p].by THEN "admin" ELSE role[u]]
    /\ orphaned' = (orphaned \/ role[visit[p].to] = None)
    /\ UNCHANGED <<current, invite, team, edges, teamOf, joined, granted, uncounted, visits>>

-----------------------------------------------------------------------------
(* Teams *)

CreateTeam(t) == team[t] = "new" /\ team' = [team EXCEPT ![t] = "live"]

teamCreate(p, t) ==
    /\ RequireAction(p, "team.write") /\ CreateTeam(t) /\ Done(p)
    /\ UNCHANGED <<role, current, invite, edges, teamOf, joined, orphaned, granted, uncounted,
                   visits>>

\* ON DELETE SET NULL: the team's databases fall back to account-wide.
Unassigned(t) == [d \in Databases |-> IF teamOf[d] = t THEN None ELSE teamOf[d]]

DeleteTeam(t) ==
    /\ team[t] = "live" /\ team' = [team EXCEPT ![t] = "deleted"]
    /\ edges' = {e \in edges : e[1] # t} /\ teamOf' = Unassigned(t)

teamDelete(p, t) ==
    /\ RequireAction(p, "team.write") /\ DeleteTeam(t) /\ Done(p)
    /\ UNCHANGED <<role, current, invite, joined, orphaned, granted, uncounted, visits>>

\* The team and the membership must both be of the account.
AddTeamMember(t, u) ==
    /\ team[t] = "live" /\ role[u] # None
    /\ edges' = edges \cup {<<t, u>>} /\ granted' = granted \cup {<<t, u>>}

teamMemberAdd(p, t, u) ==
    /\ RequireAction(p, "team.write") /\ AddTeamMember(t, u) /\ Done(p)
    /\ UNCHANGED <<role, current, invite, team, teamOf, joined, orphaned, uncounted, visits>>

RemoveTeamMember(t, u) == edges' = edges \ {<<t, u>>}

teamMemberRemove(p, t, u) ==
    /\ RequireAction(p, "team.write") /\ RemoveTeamMember(t, u) /\ Done(p)
    /\ UNCHANGED <<role, current, invite, team, teamOf, joined, orphaned, granted, uncounted,
                   visits>>

SetTargetTeam(d, t) ==
    /\ t # None => team[t] = "live"
    /\ teamOf' = [teamOf EXCEPT ![d] = t]

teamDatabaseAssign(p, d, t) ==
    /\ RequireAction(p, "team.write") /\ SetTargetTeam(d, t) /\ Done(p)
    /\ UNCHANGED <<role, current, invite, team, edges, joined, orphaned, granted, uncounted,
                   visits>>

TeamIDsForUser(u) == {t \in Teams : <<t, u>> \in edges}

\* "any inability ... collapses to the narrowest scope".
LookupFailed == NoScope

\* databaseScope: by the role read on arrival, then by the teams of the moment.
databaseScope(p) ==
    /\ visit[p].at = "inside"
    /\ \E s \in IF Allowed(visit[p].role, "team.write") THEN {[all |-> TRUE, teams |-> {}]}
                ELSE {[all |-> FALSE, teams |-> TeamIDsForUser(visit[p].by)],
                      LookupFailed} :
          visit' = [visit EXCEPT ![p].at = "scoped", ![p].scope = s]
    /\ UNCHANGED <<tables, visits>>

\* The databases a listing returns under a scope.
Visible(s) == {d \in Databases : s.all \/ teamOf[d] = None \/ teamOf[d] \in s.teams}

-----------------------------------------------------------------------------
MembersNext ==
    \/ \E p \in Visits :
         \/ \E u \in Users :
              \/ LoadCurrentAccount(p, u) \/ accountSwitch(p, u)
              \/ \E i \in Invites : invitationAccept(p, u, i)
              \/ \E r \in InviteRoles : inviteCreate(p, u, r)
              \/ \E r \in Roles : memberUpdate(p, u, r)
              \/ memberRemove(p, u) \/ memberTransferOwnership(p, u)
              \/ \E t \in Teams : teamMemberAdd(p, t, u) \/ teamMemberRemove(p, t, u)
         \/ SetCurrentAccount(p) \/ Give(p) \/ InviteCount(p)
         \/ TransferTo(p) \/ TransferOwnership(p) \/ databaseScope(p)
         \/ \E t \in Teams : teamCreate(p, t) \/ teamDelete(p, t)
         \/ \E d \in Databases, t \in Teams \cup {None} : teamDatabaseAssign(p, d, t)
    \/ \E i \in Invites : ExpireInvitation(i)

MembersSpec == MembersInit /\ [][MembersNext]_memberVars

-----------------------------------------------------------------------------
(* What the tables hold, and what their readers rely on.                     *)

VisitType ==
    [at : {"idle", "enter", "inside", "counted", "from", "to", "scoped"},
     by : Users \cup {None}, role : Roles \cup {None}, to : Users \cup {None},
     scope : [all : BOOLEAN, teams : SUBSET Teams]]

\* Every column of the tables of accounts and teams, and every copy a request keeps of
\* one, holds a value the schema allows.
MembersTypeOK ==
    /\ role \in [Users -> Roles \cup {None}] /\ current \in [Users -> {"own", "shared"}]
    /\ invite \in [Invites -> [state : {"none", "pending", "accepted", "expired"},
                               to : Users \cup {None}, role : InviteRoles \cup {None}]]
    /\ team \in [Teams -> {"new", "live", "deleted"}]
    /\ edges \in SUBSET (Teams \X Users) /\ granted \in SUBSET (Teams \X Users)
    /\ teamOf \in [Databases -> Teams \cup {None}]
    /\ visit \in [Visits -> VisitType]
    /\ joined \in [Users -> Nat] /\ orphaned \in BOOLEAN /\ {uncounted, visits} \subseteq Nat

\* The account keeps an owner through every order of role changes, removals and
\* transfers (lockMembers), unless the member to whom an ownership was being transferred
\* was removed after TransferOwnership had read that he exists.
OwnerUnlessOrphaned == Owners # {} \/ orphaned

\* Members and unaccepted invitations exceed the seats by no more than the other
\* requests that counted at the same time as the last that was let through (inviteCreate
\* counts, and inserts later), and those one of whose two lists failed and was counted as
\* empty (account.go drops both errors).
SeatOvershoot ==
    Cardinality(Members) + Cardinality(Pending) + Cardinality(Counted)
        < Seats + Cardinality(Visits) + uncounted

\* A member who was removed comes back only by an invitation of its own: nobody joins
\* more often than invitations sent to him were accepted (AcceptInvitation).
EachJoinInvited ==
    \A u \in Users :
        joined[u] <= Cardinality({i \in Invites : invite[i].to = u
                                                  /\ invite[i].state = "accepted"})

\* What a listing shows to a user who was not a manager when his request arrived is
\* unassigned, or of a team some manager once put him on, also when the lookup of his
\* teams fails and when he left and came back (databaseScope).
ScopeGranted ==
    \A p \in Visits :
        visit[p].at = "scoped" /\ ~Allowed(visit[p].role, "team.write")
            => \A d \in Visible(visit[p].scope) :
                    teamOf[d] = None \/ <<teamOf[d], visit[p].by>> \in granted

\* Deleting a team hides nothing: a database is assigned to a living team or to none, and
\* living teams alone have members (the foreign keys of DeleteTeam).
NoDeadTeam ==
    /\ \A d \in Databases : teamOf[d] # None => team[teamOf[d]] = "live"
    /\ \A e \in edges : team[e[1]] = "live"

\* However requests on one account race (account/store.go, team.go): it keeps an owner, seats are
\* exceeded only by requests that counted at once or whose count failed, nobody joins uninvited or
\* sees the databases of a team he was never put on, and no database is left with a deleted team.
MembersSafe ==
    /\ MembersTypeOK /\ OwnerUnlessOrphaned /\ SeatOvershoot /\ EachJoinInvited
    /\ ScopeGranted /\ NoDeadTeam

=============================================================================
