---- MODULE MCAgents ----
EXTENDS Agents, TLC
CONSTANTS r1, r2, a, b
MCMayRun == (r1 :> {a}) @@ (r2 :> {a, b})
====
