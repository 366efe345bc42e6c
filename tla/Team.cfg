CONSTANTS
  owner = owner
  r1 = r1
  d1 = d1
  coder = coder
  tester = tester
  writer = writer
  allround = allround
  uc = uc
  ut = ut
  ud = ud
  ur = ur
  ux = ux
  tc = tc
  tt = tt
  td = td
  tr = tr
  tx = tx
  Requests = {r1}
  Deciders = {d1}
  Users = {owner}
  Admins = {}
  MayFail = TRUE
  Runs = {uc, ut, ud, ur, ux}
  Tasks = {tc, tt, td, tr, tx}
  Finalizes = {uc, ut, ud, ur, ux}
  Delegated = {}
  Direct = {}
  MaxSteps = 1
  Agents = {coder, tester, writer, allround}
  NoUser = NoUser
  NoJob = NoJob
  NoTask = NoTask
  NoRun = NoRun
  NoRequest = NoRequest
  NoLoop = NoLoop
  OwnerOf <- MCOwnerOf
  RunOwner <- MCRunOwner
  TaskOf <- MCTaskOf
  DirectTask <- MCDirectTask
  Roles <- MCRoles
  Rosters <- MCRosters
  Responses <- MCResponses
  RunFor <- MCRunFor

SPECIFICATION FairTeamSpec

INVARIANTS
  TeamTypeOK
  OneStageAtATime
  CompletedMeansDone

PROPERTIES
  StartsOnlyAfterSuccess
  TeamEnds

CHECK_DEADLOCK FALSE
