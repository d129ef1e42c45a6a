---------------------------- MODULE MCStaffAccess ----------------------------
(* Instances of StaffAccess for TLC. *)
EXTENDS StaffAccess, TLC
CONSTANTS u1, owner, lead, clerk
MCGrants == (owner :> {"users.manage_roles", "users.manage"}) @@ (lead :> {"users.manage_roles"})
            @@ (clerk :> {"users.manage"})
Alike == Permutations(Requests)
MCFounder == [user |-> u1, role |-> owner]
=============================================================================
