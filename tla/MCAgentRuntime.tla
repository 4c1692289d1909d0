--------------------------- MODULE MCAgentRuntime ---------------------------
(* Instances of AgentRuntime for TLC. *)
EXTENDS AgentRuntime, TLC

CONSTANTS send, infer, note

KindOf == [t \in Tasks |-> IF t = send THEN "send" ELSE IF t = infer THEN "infer" ELSE "local"]

OneRetry == [t \in Tasks |-> IF t = infer THEN 2 ELSE 1]

=============================================================================
