-------------------------- MODULE MCExecLifecycle --------------------------
(* Values of the constants of ExecLifecycle for TLC.                       *)
EXTENDS ExecLifecycle, TLC

CONSTANTS e1, e2, qPlain, qAll

OneExec == {e1}
TwoExecs == {e1, e2}
PlainPurge == {qPlain}
AllPurge == {qAll}
BothPurges == {qPlain, qAll}
NoPurge == {}

(* Everything runs on one machine, the case in which the host label does   *)
(* not keep invocations apart.                                             *)
SameHost == [i \in {e1, e2, qPlain, qAll} |-> "ci"]

(* Two invocations on one host with the same options are interchangeable.  *)
SwapExecs == Permutations({e1, e2})

NoUserLabels == [e \in {e1, e2} |-> << >>]

=============================================================================
