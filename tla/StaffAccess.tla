----------------------------- MODULE StaffAccess -----------------------------
(***************************************************************************)
(* Users, their roles, and who may administer them: AdminUsersService      *)
(* (apps/api, users) behind SessionAuthGuard and PermissionsGuard.         *)
(*                                                                         *)
(* A request carries the permissions its sender had when the guards let it *)
(* in, however long it takes; only what gives roles looks at them again.   *)
(* What takes rights away (deactivate, removeRole) runs under a lock on    *)
(* one Permission row; what gives them (activate, assignRole, createUser)  *)
(* does not wait for it.                                                   *)
(* Roles and their permissions come from the seed: no code edits them.     *)
(* Names TaskBoard has too begin with Staff here: StaffProofs extends both. *)
(***************************************************************************)
EXTENDS FiniteSets

CONSTANTS
  Users, Roles, Permissions,
  Grants,      \* the permissions of each role
  Gate,        \* users.manage_roles
  Manage,      \* users.manage
  Requests,    \* slots for requests under way
  Founder      \* the user and the role the seed begins with

ASSUME RolesGrantPermissions == Grants \in [Roles -> SUBSET Permissions]
ASSUME FounderManages ==
  Founder.user \in Users /\ Founder.role \in Roles /\ Gate \in Grants[Founder.role]

VARIABLES
  status,    \* User.status, or NONE
  roles,     \* UserRole
  request,   \* the requests under way
  lock       \* the requests that hold the lock on the gate's Permission row

staffVars == <<status, roles, request, lock>>

PermissionsOf(u) == UNION {Grants[r] : r \in roles[u]}
HoldsGate(u) == Gate \in PermissionsOf(u)
RoleManager(u) == status[u] = "ACTIVE" /\ HoldsGate(u)

Ops == {"create", "activate", "assign", "deactivate", "remove"}
Locked == {"deactivate", "remove"}      \* the operations under the lock
Granting == {"create", "assign"}        \* the ones that give out a role
Phases == {"idle", "begun", "locked", "counting", "writing"}
RequestRecords == [at : Phases, op : Ops, target : Users, role : Roles, carries : SUBSET Permissions]

Idle == [at |-> "idle", op |-> "activate", target |-> Founder.user, role |-> Founder.role, carries |-> {}]

Required(op) == IF op \in {"assign", "remove"} THEN Gate ELSE Manage
NotSelf == {"deactivate", "assign", "remove"}   \* isSelfTarget

\* Bug: the role to give is not compared with the sender's permissions.
GrantsAnything(wanted, carries) == TRUE
PermissionsAreSubsetOfActor(wanted, carries) == wanted \subseteq carries

(* The guards, and the checks made before anything is written. *)
Begin(q, actor, op, target, role) ==
  /\ request[q].at = "idle" /\ status[actor] = "ACTIVE"
  /\ Required(op) \in PermissionsOf(actor)
  /\ op \in NotSelf => actor # target
  /\ op \in {"activate", "deactivate"} => role = Idle.role   \* no role in these
  /\ op \in Granting => PermissionsAreSubsetOfActor(Grants[role], PermissionsOf(actor))
  /\ request' = [request EXCEPT ![q] = [at |-> "begun", op |-> op, target |-> target, role |-> role,
                                        carries |-> IF op \in Granting THEN PermissionsOf(actor) ELSE {}]]
  /\ UNCHANGED <<status, roles, lock>>

Handling(q, op, at) == request[q].op = op /\ request[q].at = at
At(q, at) == request' = [request EXCEPT ![q].at = at]
Answer(q) == request' = [request EXCEPT ![q] = Idle]

(***************************************************************************)
(* What gives rights                                                       *)
(***************************************************************************)
Exists(u) == status[u] # "NONE"

(* createUser takes any number of roles; one stands for them here, further *)
(* ones are what assignRole gives right after.                             *)
CreateUser(q) ==
  /\ Handling(q, "create", "begun")
  /\ LET u == request[q].target IN
     IF Exists(u)   \* EmailAlreadyExists
     THEN UNCHANGED <<status, roles>>
     ELSE /\ status' = [status EXCEPT ![u] = "ACTIVE"]
          /\ roles' = [roles EXCEPT ![u] = {request[q].role}]
  /\ Answer(q) /\ UNCHANGED lock

Activate(q) ==
  /\ Handling(q, "activate", "begun")
  /\ LET u == request[q].target IN
     status' = IF status[u] = "DISABLED" THEN [status EXCEPT ![u] = "ACTIVE"] ELSE status
  /\ Answer(q) /\ UNCHANGED <<roles, lock>>

AssignRole(q) ==
  /\ Handling(q, "assign", "begun")
  /\ LET u == request[q].target IN
     roles' = IF Exists(u) THEN [roles EXCEPT ![u] = @ \cup {request[q].role}] ELSE roles
  /\ Answer(q) /\ UNCHANGED <<status, lock>>

(* A customer registers, or createUser is sent without roles. *)
Register(u) ==
  /\ ~Exists(u)
  /\ status' = [status EXCEPT ![u] = "ACTIVE"]
  /\ UNCHANGED <<roles, request, lock>>

(***************************************************************************)
(* What takes rights, one transaction: lock, read the target, count the    *)
(* other role managers if there is need to, write                          *)
(***************************************************************************)
\* Bug: the row is read without FOR UPDATE.
Unlocked == TRUE
LockIsFree == lock = {}

LockRoleManagementGate(q) ==
  /\ request[q].op \in Locked /\ request[q].at = "begun" /\ LockIsFree
  /\ lock' = lock \cup {q}
  /\ At(q, "locked")
  /\ UNCHANGED <<status, roles>>

HoldsGateWithout(u, role) == \E r \in roles[u] \ {role} : Gate \in Grants[r]

Protects(q) ==
  LET u == request[q].target  role == request[q].role IN
  status[u] = "ACTIVE" /\ IF request[q].op = "deactivate" THEN HoldsGate(u)
                          ELSE Gate \in Grants[role] /\ ~HoldsGateWithout(u, role)

Rollback(q) == Answer(q) /\ lock' = lock \ {q} /\ UNCHANGED <<status, roles>>

ReadTarget(q) ==
  /\ request[q].op \in Locked /\ request[q].at = "locked"
  /\ IF Exists(request[q].target)
     THEN /\ At(q, IF Protects(q) THEN "counting" ELSE "writing")
          /\ UNCHANGED <<status, roles, lock>>
     ELSE Rollback(q)

(* LastRoleManagerProtected *)
CountOtherActiveRoleManagers(q) ==
  /\ request[q].op \in Locked /\ request[q].at = "counting"
  /\ IF \E m \in Users \ {request[q].target} : RoleManager(m)
     THEN At(q, "writing") /\ UNCHANGED <<status, roles, lock>>
     ELSE Rollback(q)

Commit(q) == Answer(q) /\ lock' = lock \ {q}

Deactivate(q) ==
  /\ Handling(q, "deactivate", "writing")
  /\ LET u == request[q].target IN
     status' = IF status[u] = "ACTIVE" THEN [status EXCEPT ![u] = "DISABLED"] ELSE status
  /\ Commit(q) /\ UNCHANGED roles

RemoveRole(q) ==
  /\ Handling(q, "remove", "writing")
  /\ roles' = [roles EXCEPT ![request[q].target] = @ \ {request[q].role}]
  /\ Commit(q) /\ UNCHANGED status

(* The request dies; the database rolls back what it held. *)
Dies(q) ==
  /\ request[q].at # "idle"
  /\ Answer(q)
  /\ lock' = lock \ {q}
  /\ UNCHANGED <<status, roles>>

-----------------------------------------------------------------------------
StaffInit ==
  /\ status = [u \in Users |-> IF u = Founder.user THEN "ACTIVE" ELSE "NONE"]
  /\ roles = [u \in Users |-> IF u = Founder.user THEN {Founder.role} ELSE {}]
  /\ request = [q \in Requests |-> Idle]
  /\ lock = {}

Work(q) == \/ CreateUser(q) \/ Activate(q) \/ AssignRole(q) \/ LockRoleManagementGate(q)
           \/ ReadTarget(q) \/ CountOtherActiveRoleManagers(q) \/ Deactivate(q) \/ RemoveRole(q)
Start(q) == \E actor, target \in Users, op \in Ops, role \in Roles : Begin(q, actor, op, target, role)
StaffNext == \/ \E q \in Requests : Start(q) \/ Work(q) \/ Dies(q)
             \/ \E u \in Users : Register(u)

StaffSpec == StaffInit /\ [][StaffNext]_staffVars
-----------------------------------------------------------------------------
StaffTypeOK ==
  /\ status \in [Users -> {"NONE", "ACTIVE", "DISABLED"}]
  /\ roles \in [Users -> SUBSET Roles]
  /\ request \in [Requests -> RequestRecords]
  /\ lock \subseteq Requests

(* However deactivations and removals overlap with one another and with    *)
(* what gives rights, there is always an active user who can manage roles  *)
(* ("jointly leaving zero", admin-users.service.ts lines 513-523).         *)
AlwaysARoleManager == \E u \in Users : RoleManager(u)

(* Administration hands rights on and never makes them: a permission that  *)
(* no user holds and no request under way carries, nobody ever gets again. *)
(* It is the senders' permissions of a while ago that this compares with.  *)
Known == {p \in Permissions : \/ \E u \in Users : p \in PermissionsOf(u)
                              \/ \E q \in Requests : request[q].at # "idle" /\ p \in request[q].carries}
NoNewPermission == [][Known' \subseteq Known]_staffVars
=============================================================================
