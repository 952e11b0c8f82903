----------------------------- MODULE MCService -----------------------------
EXTENDS Service
CONSTANTS u1, u2, t1, a1, a2, h1, h2, f, g, b

MCPlans == {<<1, 0>>, <<0, 2>>, <<2, 2>>}
=============================================================================
