------------------------- MODULE MCInferenceLedger -------------------------
(* Instances of InferenceLedger for TLC: a task with two attempts, another   *)
(* task of its job, and a task of another agent.                             *)
EXTENDS InferenceLedger, TLC

TaskOf == 1 :> "t1" @@ 2 :> "t1" @@ 3 :> "t2" @@ 4 :> "t3"
AgentOf == 1 :> "x" @@ 2 :> "x" @@ 3 :> "x" @@ 4 :> "y"
JobOf == 1 :> "j" @@ 2 :> "j" @@ 3 :> "j" @@ 4 :> "k"

AttemptLimits == "session" :> 3 @@ "agent" :> 3 @@ "job" :> 2
Ceilings == "session" :> 4 @@ "agent" :> 4 @@ "job" :> 3
Reservations == "session" :> 2 @@ "agent" :> 1 @@ "job" :> 1

CallSymmetry == Permutations(Calls)
=============================================================================
