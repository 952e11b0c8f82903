\* Each part on a small instance; only main ends the program.
SPECIFICATION Spec
CONSTANTS
  NoBlock = NoBlock
  Sizes <- MCSizes
  PageSize = 4
  Overhead = 1
  BUFFER = 5
  FIRST = 3
  MaxSize = 20
  Requests = {0, 1, 4, 5, 9, 16, 18}
  m1 = m1
  o1 = o1
  f1 = f1
  f2 = f2
  Main = m1
  Others = {o1}
  Files = {f1, f2}
  MaxReports = 3
  MaxOpens = 2
  MaxPending = 1
  Letters = {"x", "X"}
  MaxDepth = 3
  MaxText = 3
  MaxPattern = 4
  Unnamed = Unnamed
  NoCfg = NoCfg
  s1 = s1
  i1 = i1
  i2 = i2
  v1 = v1
  v2 = v2
  Sections = {Unnamed, s1}
  Items = {i1, i2}
  Values = {v1, v2}
  MaxLines = 3
  PerSecond = 3
  MaxNow = 12
  MaxCount = 3
  n1 = n1
  n2 = n2
  n3 = n3
  Names = {n1, n2, n3}
  Matching = {n1, n2}
  NoName = NoName
  c1 = c1
  c2 = c2
  a1 = a1
  k1 = k1
  k2 = k2
  Clients = {c1, c2}
  Addresses = {a1}
  TimerIds = {k1, k2}
  NoTimer = NoTimer
  NoAlarm = NoAlarm
  t1 = t1
  t2 = t2
  g1 = g1
  Owners = {t1, t2}
  Groups = {g1}
  l1 = l1
  l2 = l2
  l3 = l3
  Labels = {l1, l2, l3}
  MaxData = 2
  d1 = d1
  Data = {d1}
  NoData = NoData
  NoLabel = NoLabel
  p1 = p1
  p2 = p2
  p3 = p3
  Points = {p1, p2, p3}
  e1 = e1
  e2 = e2
  Contexts = {e1, e2}
  NoContext = NoContext
  NoOwner = NoOwner
  Workers = {t1, t2}
  Width = 2
  NoOp = NoOp
  Capacity <- MCCapacity
  Keys = {0, 1}
  NoNode = NoNode
  PerSec = 3
  PerMilli = 2
  MaxTime = 8
  MaxPosts = 2
  Timeouts <- MCTimeouts
INVARIANTS
  MemorySound
  TextSound
  ListingsSound
  NumbersSound
  WinAlarmsSound
  ThreadDataSound
PROPERTY
  WorkDone
CHECK_DEADLOCK FALSE
