---------------------------- MODULE ExecContract ----------------------------
(***************************************************************************)
(* What "helm in-pod exec" promises about its command: it runs at most     *)
(* once, and status 0 is told to the caller at most once and only if the   *)
(* whole command has ended by itself with exit code 0.  Failure may be     *)
(* told at any time: the host gives up, or does not find out.              *)
(***************************************************************************)

VARIABLES run,   \* the command in the pod
          told   \* what the caller was told

contractVars == <<run, told>>

Ends == {"zero", "nonzero", "killed"}

Init == run = "none" /\ told = "nothing"

Start == run = "none" /\ run' = "running" /\ UNCHANGED told

End == run = "running" /\ run' \in Ends /\ UNCHANGED told

TellSuccess == run = "zero" /\ told = "nothing" /\ told' = "success" /\ UNCHANGED run

TellFailure == told = "nothing" /\ told' = "failure" /\ UNCHANGED run

Next == Start \/ End \/ TellSuccess \/ TellFailure

Spec == Init /\ [][Next]_contractVars

=============================================================================
