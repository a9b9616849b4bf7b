----------------------------- MODULE MCSession ------------------------------
(* The invocations that TLC looks at: each group varies what one part of   *)
(* the code depends on, and leaves the rest as in Plain.                   *)
EXTENDS Session

MCName == STRING
Abs(p) == <<"/">> \o p
NoFlags == [old |-> Unset, request |-> Unset, limit |-> Unset]

MCHost ==
    (Abs(<<"src", "f">>) :> "f") @@ (Abs(<<"src", "d", "x">>) :> "x")
      @@ (Abs(<<"src", "d", "y">>) :> "y") @@ (Abs(<<"out", "old">>) :> "old")
      @@ (<<"notes">> :> "notes")
      @@ (<<"c", "x">> :> "x") @@ (<<"c", "s", "c", "y">> :> "y")

MCPod == (Abs(<<"to", "d", "stale">>) :> "stale") @@ (Abs(<<"keep">>) :> "keep")

MCResults ==
    (Abs(<<"tmp", "rep">>) :> "rep") @@ (Abs(<<"tmp", "logs", "a">>) :> "a")
      @@ (Abs(<<"tmp", "logs", "sub", "b">>) :> "b")

Plain ==
    [kind |-> "exec", files |-> << >>, clean |-> {}, copyRepo |-> FALSE,
     update |-> << >>, updateAll |-> FALSE, copyFrom |-> << >>,
     helm |-> "yes", home |-> TRUE, repoFile |-> "yes", repos |-> {},
     inPod |-> MCPod, onHost |-> MCHost,
     flags |-> [r \in Resources |-> NoFlags],
     substEnv |-> << >>, env |-> << >>, volumes |-> << >>, tolerations |-> << >>]

(* A file and a directory; a source that is not there; entries of which    *)
(* one replaces another or is malformed.                                   *)
F == Abs(<<"src", "f">>)
TwoCopies == <<<<F, Abs(<<"to", "f">>)>>, <<Abs(<<"src", "d">>), Abs(<<"to", "d">>)>>>>
NoSource == <<<<Abs(<<"none">>), Abs(<<"to", "f">>)>>>>
OneSource == <<<<F, Abs(<<"to", "f">>)>>, Malformed, <<F, Abs(<<"to", "g">>)>>>>

Copying ==
    {[Plain EXCEPT !.kind = k, !.files = c, !.home = h] :
        k \in {"exec", "start", "run"}, c \in {TwoCopies, NoSource}, h \in BOOLEAN}
    \cup {[Plain EXCEPT !.kind = "run", !.files = c, !.clean = {Abs(<<"to", "d">>)}] :
            c \in {<< >>, <<Malformed>>, TwoCopies}}
    \cup {[Plain EXCEPT !.kind = k, !.files = OneSource] : k \in {"exec", "start", "run"}}

(* Directories whose path is not clean, or whose name recurs.              *)
OddCopies ==
    {[Plain EXCEPT !.kind = k, !.files = <<c>>] : k \in {"exec", "run"},
        c \in {<<<<".", "c">>, Abs(<<"to", "c">>)>>, <<<<"c">>, Abs(<<"to", "c">>)>>}}

(* Into a directory that exists, under the same name, under another name;  *)
(* a path that is not in the pod; a file in the way; over a file of the    *)
(* host, beside one with the name that the pod has for it; two targets for *)
(* one path; the current directory.                                        *)
Rep == Abs(<<"tmp", "rep">>)
Logs == Abs(<<"tmp", "logs">>)
Mappings ==
    {<<<<Rep, Abs(<<"out">>)>>, <<Logs, Abs(<<"new", "logs">>)>>>>,
     <<<<Rep, Abs(<<"new", "name">>)>>, <<Abs(<<"none">>), Abs(<<"new", "none">>)>>>>,
     <<<<Rep, Abs(<<"new", "rep">>)>>, <<Logs, Abs(<<"out">>)>>>>,
     <<<<Logs, Abs(<<"out", "old">>)>>>>,
     <<<<Rep, Abs(<<"src", "f">>)>>, <<Abs(<<"keep">>), Abs(<<"new", "keep">>)>>>>,
     <<<<Rep, Abs(<<"out", "old", "rep">>)>>, <<Abs(<<"keep">>), Abs(<<"out", "keep">>)>>>>,
     <<<<Rep, Abs(<<"out">>)>>, <<Rep, Abs(<<"new", "rep">>)>>>>}
InCurrentDirectory == {<<<<Rep, <<".", "rep">>>>>>, <<<<Rep, Here>>>>}

CopyingBack ==
    {[Plain EXCEPT !.kind = k, !.copyFrom = b] :
        k \in {"exec", "run"},
        b \in Mappings \cup InCurrentDirectory \cup {<<<<Rep, Abs(<<"out">>)>>, Malformed>>}}

(* Repositories r1 and r2, or none in the file, or no file, or one that    *)
(* cannot be looked at; "bad" is the name of none.                         *)
Syncing ==
    {g \in {[Plain EXCEPT !.kind = k, !.copyRepo = c, !.helm = h, !.repoFile = r[1],
                          !.repos = r[2], !.update = u, !.updateAll = a] :
               k \in {"exec", "start", "run"}, c, a \in BOOLEAN,
               h \in {"yes", "not found", "other text"},
               r \in {<<"none", {}>>, <<"denied", {}>>, <<"yes", {}>>, <<"yes", {"r1", "r2"}>>},
               u \in {<< >>, <<"r1">>, <<"r1", "r2">>, <<"bad", "r1">>}} :
        g.updateAll => g.kind = "run"}

(* Every combination of three flags, and one that does not parse.          *)
Amounts == {Unset, 0, 500, 2000}
Sizing ==
    {[Plain EXCEPT !.kind = k, !.flags[r] = [old |-> o, request |-> q, limit |-> l]] :
        k \in {"exec", "start"}, r \in Resources, o, q, l \in Amounts}
    \cup {[Plain EXCEPT !.flags["cpu"].limit = Invalid]}

User == {<< >>, <<<<"TIMEOUT", "user">>>>, <<<<"WAIT_COPY_DONE", "user">>>>}
Specifying ==
    {[Plain EXCEPT !.kind = k, !.env = e, !.substEnv = s,
                   !.copyFrom = b] :
        k \in {"exec", "start"}, e, s \in User, b \in {<< >>, <<<<Rep, Abs(<<"out">>)>>>>}}
    \cup {[Plain EXCEPT !.volumes = <<v>>] :
            v \in {<<"pvc", "claim", "/data", "ro">>, <<"pvc", "claim">>, <<"nfs", "claim", "/data">>}}
    \cup {[Plain EXCEPT !.tolerations = s] :
            s \in {<<<<"", "", "Exists">>>>, <<<<"", "", "Exists">>, <<"", "", "Exists">>>>,
                   <<<<"key", "", "In">>>>}}

MCGivens == Copying \cup CopyingBack \cup Syncing \cup Sizing \cup Specifying \cup OddCopies

HereGivens == {[Plain EXCEPT !.copyFrom = b] : b \in InCurrentDirectory}

=============================================================================
