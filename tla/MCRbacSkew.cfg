SPECIFICATION Spec
CONSTANTS
  Admins = {a1, a2}
  Readers = {}
  Users = {u0, u1}
  Roles = {super, r1}
  Menus = {m1}
  FirstUser = u0
  SuperRole = super
  SeedMenus = {m1}
  Contents = {c0}
  Seed = c0
  None = none
SYMMETRY Symmetry
INVARIANTS
  RolesOfUsersExist
