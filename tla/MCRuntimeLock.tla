--------------------------- MODULE MCRuntimeLock ---------------------------
(* Instances of RuntimeLock for TLC: which process hosts which caller, and  *)
(* which process numbers are reused.                                        *)
EXTENDS RuntimeLock, TLC

\* Two callers share process 1; process 4 is an unrelated program.
HostShared == 1 :> 1 @@ 2 :> 1 @@ 3 :> 2 @@ 4 :> 3

\* Process 3 and the unrelated program 4 get the number of process 1.
PidReused == 1 :> 1 @@ 2 :> 2 @@ 3 :> 1 @@ 4 :> 1
=============================================================================
