SPECIFICATION AccountSpec
CONSTANTS
  Admins = {a1, a2}
  Readers = {d1}
  Users = {u0, u1}
  Roles = {super, r1}
  Menus = {m1}
  FirstUser = u0
  SuperRole = super
  SeedMenus = {}
  Contents = {c0, c1}
  Seed = c0
  None = none
  Calls = {a1, a2}
  Jtis = {j1, j2, j3}
  NoToken = none
SYMMETRY Symmetry
INVARIANTS
  SerialLinksIntact
  
  CacheFollowsTables
  OneLivePerSession
  LogoutEndsSession
  HeldTokensRedeemable
PROPERTIES
  KeepsContract
