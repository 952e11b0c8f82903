\* Two threads run agents, one lists and changes them.
SPECIFICATION AgentSpec
CONSTANTS
  c1 = c1
  r1 = r1
  r2 = r2
  a = a
  b = b
  Nil = Nil
  Runners = {r1, r2}
  Clients = {c1}
  Names = {a, b}
  MayRun <- MCMayRun
  FAST = 1
  MEDIUM = 2
  SLOW = 3
  CRAWL = 5
  STOPTIME = 1
  KILLTIME = 2
  CRAWLTIME = 3
  MaxWait = 1
INVARIANTS
  ListSound
  Reported
PROPERTY
  AgentReturns
