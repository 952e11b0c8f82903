--------------------------- MODULE MCThreadSignal ---------------------------
(***************************************************************************)
(* ThreadSignal with three clients and two signals.                        *)
(***************************************************************************)
EXTENDS ThreadSignal

CONSTANTS c1, c2, c3, SIGINT

MCClients == {c1, c2, c3}
MCSignals == {SIGINT, SIGTERM}

=============================================================================
