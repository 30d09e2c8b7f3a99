CONSTANTS
  s1 = s1
  s2 = s2
  m1 = m1
  m2 = m2
  m3 = m3
  Session = {s1, s2}
  Message = {m1, m2, m3}
  SenderOf <- TwoSessions
  Address = {1, 2, 3}
  Threads = 1
  Task = Task
SPECIFICATION FairSpec
INVARIANT NothingLost
INVARIANT NoDanglingUpdate
INVARIANT NoFault
PROPERTY SubscribedIsFreed
