CONSTANTS
  owner = owner
  boss = boss
  r1 = r1
  r2 = r2
  r3 = r3
  r4 = r4
  d1 = d1
  d2 = d2
  u1 = u1
  t1 = t1
  h1 = h1
  Requests = {r1, r2}
  Deciders = {d1}
  Users = {owner}
  Admins = {}
  MayFail = FALSE
  Runs = {u1}
  Tasks = {t1}
  Finalizes = {}
  Delegated = {t1}
  Respondents = {}
  Direct = {r2}
  MaxSteps = 3
  NoUser = NoUser
  NoJob = NoJob
  NoTask = NoTask
  NoRun = NoRun
  NoRequest = NoRequest
  NoLoop = NoLoop
  OwnerOf <- MCOwnerOf
  RunOwner <- MCRunOwner
  TaskOf <- MCTaskOf
  DirectTask <- MCDirectTask
  RespondsTo <- MCRespondsTo

SPECIFICATION FairDSpec

INVARIANTS
  RunAnswersOnce

PROPERTIES
  QueuedIsAnswered
  RunsSettle

CHECK_DEADLOCK FALSE
