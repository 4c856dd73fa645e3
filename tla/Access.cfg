SPECIFICATION MCSpec
CONSTANTS
  Calls = {c1, c2}
  Keys <- MCKeys
  Triple <- MCTriple
  Roles <- MCRoles
  KeySets <- MCKeySets
  OrgRoles <- MCOrgRoles
  OrgPermissions <- MCOrgPermissions
  SystemPermissions <- MCSystemPermissions
  SystemRoles <- SYSTEM_ROLES
  GlobalRoles <- GLOBAL_ROLES
  OrganizationGrants <- ORGANIZATION_ROLE_PERMISSIONS
  DefaultGrants <- ROLE_PERMISSIONS
  Organizations = {"o1", "o2"}
  Chains <- MCChains
  Sources <- MCSources
  Requests = {r1, r2}
  Passwords = {"old", "new"}
  MaxAttempts = 2
  Horizon = 1
  MaxStarted = 3
  MaxRestarts = 1
SYMMETRY Interchangeable
INVARIANTS
  AnswersHeld
  LastWriterStands
  GuardsDecideRightly
  PasswordsHonoured
  LockoutIsEarned
PROPERTIES
  SystemRoleStays
CHECK_DEADLOCK FALSE
