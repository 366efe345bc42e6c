CONSTANTS
  i1 = i1
  i2 = i2
  ann = ann
  bob = bob
  q1 = q1
  p1 = p1
  p2 = p2
  a1 = a1
  b1 = b1
  k1 = k1
  k2 = k2
  k3 = k3
  r1 = r1
  n1 = n1
  c1 = c1
  c2 = c2
  acme = acme
  globex = globex
  m1 = m1
  w1 = w1
  w2 = w2
  read = read
  write = write
  d1 = d1
  d2 = d2
  Nobody = Nobody
  NoConversation = NoConversation
  NoAgent = NoAgent
  NoOne = NoOne
  NoPassword = NoPassword
  NoDevice = NoDevice
  NoSession = NoSession
  Instances = {i1, i2}
  Viewers = {ann, bob}
  Requests = {q1}
  Pages = {p1, p2}
  EventsPerRequest = 2
  PageSize = 4
  MaxDrops = 3
  RedisThere = TRUE
  AtInstance <- MCAtInstance
  ViewerOf <- MCViewerOf
  Employees = {ann, bob}
  Agents = {a1, b1}
  Turns = {k1, k2, k3, r1}
  Results = {r1}
  Learnable = {k2}
  Notes = {n1}
  NoteScopes = {"TEAM", "COMPANY"}
  Conversations = {c1, c2}
  MayFail = TRUE
  User = ann
  Sent = {k1}
  HistoryLimit = 2
  CompanyOf <- MCCompanyOf
  EmployeeOf <- MCEmployeeOf
  CallerOf <- MCCallerOf
  Companies = {acme, globex}
  Mails = {m1}
  Passwords = {w1, w2}
  Hires = {1, 2}
  TTL = 0
  MaxTime = 1
  Devices = {d1, d2}
  OwnAgents = {a1}
  PermissionSets <- MCPermissionSets
  MaxClicks = 3
  OpsMayFail = TRUE

SPECIFICATION MCSpec

INVARIANTS
  FeedTypeOK
  ListsOwnEvents
  DuplicatesNeedDrops
  OrderKept
  PromptIsOwn
  AnswersFollowQuestions
  NamedAfterFirst
  LearnedFromAnswers
  PageShowsActive
  AddressesKeptApart
  LastClickHolds
  PageListsRows

PROPERTIES
  EventsReachPages
  SendEnds

CHECK_DEADLOCK FALSE
