SPECIFICATION FairSpec
CONSTANTS
  c1 = c1
  c2 = c2
  u1 = u1
  u2 = u2
  t1 = t1
  w1 = w1
  w2 = w2
  w3 = w3
  s1 = s1
  s2 = s2
  m1 = m1
  m2 = m2
  Conversations = {c1}
  Users = {u1}
  UserOf <- UserEach
  Tasks = {t1}
  TaskConv <- TaskOfC1
  Workers = {w1, w3}
  Services = {s1, s2}
  OwnerOf <- TwoInstances
  ClientIDs = {m1, m2}
  Nil = Nil
  MaxRuns = 2
  MaxFence = 2
  MaxDeltas = 0
  LeaseTTL = 2
  MaxQueuedPerUser = 2
  MaxQueuedPerWorkspace = 2
  MaxRunningPerUser = 1
  MaxRunningPerWorkspace = 1
PROPERTIES
  QueuedRunsAreTaken
  ClaimsEnd
CHECK_DEADLOCK FALSE
