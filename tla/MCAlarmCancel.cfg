\* The same program, for the promise of the cancel test.
SPECIFICATION Spec
CONSTANTS
  u1 = u1
  u2 = u2
  t1 = t1
  a1 = a1
  a2 = a2
  h1 = h1
  h2 = h2
  f = f
  g = g
  b = b
  None = None
  Null = Null
  Users = {u1}
  Addresses = {a1, a2}
  Plans <- MCPlans
  MaxDelay = 2
  MaxCalls = 2
  Threads = {t1}
  Callbacks = {f, g}
  Batons = {b}
  Cells = {h1, h2}
  MaxRegistered = 2
  Signals = {"SIGTERM"}
  MAX_SIGNAL_STACK = 3
  Burst = 1
  LoadsOnce = TRUE
PROPERTY
  CancelIsFinal
CHECK_DEADLOCK FALSE
