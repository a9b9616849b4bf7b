---------------------------- MODULE MCCommandRun ----------------------------
(* Values of the constants of CommandRun for TLC.                          *)
EXTENDS CommandRun

(* Success, a code of one digit and one of three.                          *)
SomeCodes == {0, 2, 130}

=============================================================================
