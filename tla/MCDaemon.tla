------------------------------ MODULE MCDaemon ------------------------------
(* Values of the constants of Daemon for TLC.                              *)
EXTENDS Daemon

CONSTANTS s1, s2, stop, x1, x2

OneStart == {s1}
TwoStarts == {s1, s2}
ForcedStart == {s2}
OneStop == {stop}
OneRun == {x1}
TwoRuns == {x1, x2}
None == {}

=============================================================================
