CONSTANTS
  u1 = u1
  owner = owner
  lead = lead
  clerk = clerk
  Users = {u1, u2}
  Roles = {owner, lead, clerk}
  Permissions = {"users.manage_roles", "users.manage"}
  Grants <- MCGrants
  Gate = "users.manage_roles"
  Manage = "users.manage"
  Requests = {q1, q2}
  Founder <- MCFounder
SPECIFICATION StaffSpec
SYMMETRY Alike
INVARIANTS AlwaysARoleManager
PROPERTIES NoNewPermission
