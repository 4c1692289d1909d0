----------------------------- MODULE Delegation -----------------------------
(***************************************************************************)
(* What a peer session promises about delegated work, whatever dies or     *)
(* fails and however often it is reopened: a task is proposed to its peer  *)
(* once, and only after all work it depends on is done and was handed      *)
(* back; it is computed once, and only after it was proposed; its result   *)
(* is handed back once.                                                    *)
(***************************************************************************)
EXTENDS Naturals

CONSTANTS
    Nodes,    \* tasks
    Parent,   \* the task that delegates each, None for a root
    Needs,    \* the tasks that each depends on
    None

VARIABLES
    proposed,   \* how often each task was proposed to its peer
    computed,   \* how often it was computed
    answered    \* how often its result was handed back

vars == <<proposed, computed, answered>>

Init ==
    /\ proposed = [n \in Nodes |-> 0]
    /\ computed = [n \in Nodes |-> 0]
    /\ answered = [n \in Nodes |-> 0]

Propose(n) ==
    /\ Parent[n] # None /\ proposed[n] = 0
    /\ \A m \in Needs[n] : computed[m] = 1 /\ (Parent[m] # None => answered[m] = 1)
    /\ proposed' = [proposed EXCEPT ![n] = 1]
    /\ UNCHANGED <<computed, answered>>

Compute(n) ==
    /\ computed[n] = 0
    /\ Parent[n] # None => proposed[n] = 1
    /\ computed' = [computed EXCEPT ![n] = 1]
    /\ UNCHANGED <<proposed, answered>>

Answer(n) ==
    /\ Parent[n] # None
    /\ computed[n] = 1 /\ answered[n] = 0
    /\ answered' = [answered EXCEPT ![n] = 1]
    /\ UNCHANGED <<proposed, computed>>

Next == \E n \in Nodes : Propose(n) \/ Compute(n) \/ Answer(n)

Spec == Init /\ [][Next]_vars

=============================================================================
