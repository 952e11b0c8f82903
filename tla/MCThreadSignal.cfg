\* The thread is joined once.
SPECIFICATION FairSpec
CONSTANTS
  c1 = c1
  c2 = c2
  c3 = c3
  SIGINT = SIGINT
  SIGTERM = SIGTERM
  Clients <- MCClients
  Self = Self
  Signals <- MCSignals
  MAX_SIGNAL_STACK = 4
  JoinOnce = TRUE
INVARIANTS
  PostsAgree
  SignalFound
  CleanReuse
PROPERTIES
  CatchReturns
  JoinReturns
