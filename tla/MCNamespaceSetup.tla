-------------------------- MODULE MCNamespaceSetup --------------------------
(* Values of the constants of NamespaceSetup for TLC.                      *)
EXTENDS NamespaceSetup

CONSTANTS s1, s2, q1, q2, old

TwoSetups == {s1, s2}
TwoPurges == {q1, q2}
AllPurge == {q2}
OldPods == {old}

=============================================================================
