CONSTANTS
  s1 = s1
  s2 = s2
  m1 = m1
  m2 = m2
  m3 = m3
  Session = {s1}
  Message = {m1, m2}
  SenderOf <- OneSession
  Address = {1, 2}
  Threads = 2
  Task = Task
SPECIFICATION Spec
CHECK_DEADLOCK FALSE
INVARIANT NothingLost
