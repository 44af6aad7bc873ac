------------------------------ MODULE Membership ------------------------------
(***************************************************************************)
(* app/services/membership.py, app/security/permissions.py and             *)
(* app/services/notifications.py: the members of a project, what their     *)
(* roles allow, and everybody's inbox.  The handlers are coroutines that   *)
(* never await: each runs as one step.                                     *)
(***************************************************************************)
EXTENDS Integers, FiniteSets, Sequences

CONSTANTS
    Users,          \* user_account rows
    ActiveUsers,    \* those with is_active = 1; nothing in the program changes it
    NoRole,         \* not a member
    FirstAdmin      \* who founds the project

ASSUME MembershipAssumption == FirstAdmin \in ActiveUsers /\ ActiveUsers \subseteq Users /\ IsFiniteSet(Users)

VARIABLES
    role,           \* [Users -> a role or NoRole]: project_member
    inbox           \* [Users -> Seq of notifications], in order of insertion

\* ROLE_HIERARCHY.
Rank == [admin |-> 4, pm |-> 3, member |-> 2, guest |-> 1]

Roles == DOMAIN Rank

HasMinRole(r, required) == r # NoRole /\ Rank[r] >= Rank[required]

\* get_current_user and require_project_role: an active account, and at least
\* this role in the project.
May(u, required) == u \in ActiveUsers /\ HasMinRole(role[u], required)

Members == {u \in Users : role[u] # NoRole}

NotificationKinds == {"comment_reply", "mention", "risk_assigned", "report_approved",
                      "report_rejected", "task_assigned", "project_invite", "doc_changed"}

Notification(kind, from) == [kind |-> kind, from |-> from, read |-> FALSE]

\* create_notification for each of some users, with what makes one.
Notify(box, recipients, kind, from) ==
    [u \in Users |-> IF u \in recipients THEN Append(box[u], Notification(kind, from)) ELSE box[u]]

Unread(u) == {i \in DOMAIN inbox[u] : ~inbox[u][i].read}
-----------------------------------------------------------------------------
\* add_member: a project without members takes its first admin from any
\* account that asks; afterwards only an admin adds, and nobody twice.
AddMember(by, u, r) ==
    /\ by \in ActiveUsers /\ u \in ActiveUsers /\ role[u] = NoRole
    /\ IF Members = {} THEN r = "admin" ELSE May(by, "admin")
    /\ role' = [role EXCEPT ![u] = r]
    /\ UNCHANGED inbox

\* update_member_role; the last admin may be demoted.
ChangeRole(by, u, r) ==
    /\ May(by, "admin") /\ u \in Members /\ role[u] # r
    /\ role' = [role EXCEPT ![u] = r]
    /\ UNCHANGED inbox

\* Mutant: a project manager may remove members, or leave.
RemoveMemberAsPm(by, u) ==
    /\ May(by, "pm") /\ u \in Members
    /\ role' = [role EXCEPT ![u] = NoRole]
    /\ UNCHANGED inbox

\* remove_member; also oneself, also the last admin.
RemoveMember(by, u) ==
    /\ May(by, "admin") /\ u \in Members
    /\ role' = [role EXCEPT ![u] = NoRole]
    /\ UNCHANGED inbox

\* mark_read: only the recipient's own notification changes.
MarkRead(u, i) ==
    /\ u \in ActiveUsers /\ i \in Unread(u)
    /\ inbox' = [inbox EXCEPT ![u][i].read = TRUE]
    /\ UNCHANGED role

\* mark_all_read.
MarkAllRead(u) ==
    /\ u \in ActiveUsers /\ Unread(u) # {}
    /\ inbox' = [inbox EXCEPT ![u] = [i \in DOMAIN @ |-> [@[i] EXCEPT !.read = TRUE]]]
    /\ UNCHANGED role

MembershipInit ==
    /\ role = [u \in Users |-> IF u = FirstAdmin THEN "admin" ELSE NoRole]
    /\ inbox = [u \in Users |-> <<>>]

RoleStep ==
    \E by, u \in Users : \/ RemoveMember(by, u)
                         \/ \E r \in Roles : AddMember(by, u, r) \/ ChangeRole(by, u, r)

ReadStep == \E u \in Users : MarkAllRead(u) \/ \E i \in DOMAIN inbox[u] : MarkRead(u, i)

MembershipSpec == MembershipInit /\ [][RoleStep \/ ReadStep]_<<role, inbox>>
-----------------------------------------------------------------------------
MembershipTypeOK ==
    /\ role \in [Users -> Roles \cup {NoRole}]
    /\ \A u \in Users : \A i \in DOMAIN inbox[u] : inbox[u][i].kind \in NotificationKinds

Admins == {u \in Users : role[u] = "admin"}

\* A project whose last admin was demoted or left while others stayed can never
\* change its members again: no handler lets anybody else, and the way in for
\* a first member is only open when nobody is left (api/members.py:45-57).
AdminlessFrozen == [][Members # {} /\ Admins = {} => role' = role]_role
=============================================================================
