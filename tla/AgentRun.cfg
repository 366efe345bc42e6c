CONSTANTS
  owner = owner
  boss = boss
  r1 = r1
  r2 = r2
  r3 = r3
  r4 = r4
  d1 = d1
  d2 = d2
  u1 = u1
  u2 = u2
  t1 = t1
  t2 = t2
  Requests = {r1, r2, r3, r4}
  Deciders = {d1}
  Users = {owner}
  Admins = {}
  MayFail = TRUE
  Runs = {u1, u2}
  Tasks = {t1, t2}
  Finalizes = {u1}
  Delegated = {t2}
  Direct = {}
  MaxSteps = 3
  NoUser = NoUser
  NoJob = NoJob
  NoTask = NoTask
  NoRun = NoRun
  NoRequest = NoRequest
  NoLoop = NoLoop
  OwnerOf <- MCOwnerOf
  RunOwner <- MCRunOwner
  TaskOf <- MCTaskOf
  DirectTask <- MCDirectTask

SYMMETRY Interchangeable

SPECIFICATION MCARSpec

INVARIANTS
  OneLoopPerRun
  CompletedTaskHasCompletedRun
  ToolBudget

PROPERTIES
  KeepsToolApproval
  ResumedWithOutcome

CHECK_DEADLOCK FALSE
