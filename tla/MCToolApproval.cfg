CONSTANTS
  owner = owner
  other = other
  boss = boss
  r1 = r1
  r2 = r2
  d1 = d1
  d2 = d2
  Requests = {r1, r2}
  Deciders = {d1, d2}
  Users = {owner, other, boss}
  Admins = {boss}
  OwnerOf <- MCOwnerOf
  NoUser = NoUser
  NoJob = NoJob
  MayFail = TRUE

SYMMETRY Interchangeable

SPECIFICATION Spec

INVARIANTS
  TypeOK
  RunsOnlyApproved
  OutcomeMatchesDecision

PROPERTIES
  DecisionsAreFinal
  GateSpec

CHECK_DEADLOCK FALSE
