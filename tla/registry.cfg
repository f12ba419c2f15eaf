CONSTANTS
  MaxConns = 2
  Topics = {t1}
  SubIds = {s1, s2}
  Logins = {u1}
  Passcodes = {p1, p2}
  MaxLists = 3
  SockBuf = 8
  None = None
  NotANumber = NotANumber
  t1 = t1
  t2 = t2
  s1 = s1
  s2 = s2
  u1 = u1
  p1 = p1
  p2 = p2
  Script <- TopicScript
  Budget <- TopicBudget
SPECIFICATION Spec
INVARIANTS IndInv NoDuplicateSubscriber NoNullHeader MembersOnly PerSenderOrder UniqueMessageIds
