----------------------------- MODULE OneExchange -----------------------------
(***************************************************************************)
(* What a one-shot exchange with an external peer promises of each job: at *)
(* most one request reaches the peer's room, only under a grant, and the   *)
(* answer is looked for at most once, after the request was accepted.      *)
(***************************************************************************)
EXTENDS Naturals

CONSTANT Jobs

VARIABLES
    permitted,  \* jobs whose exact request the operator has granted
    accepted,   \* requests of each job that reached the peer's room
    observed    \* reads of the mailbox made for each job

vars == <<permitted, accepted, observed>>

Init ==
    /\ permitted = {}
    /\ accepted = [j \in Jobs |-> 0]
    /\ observed = [j \in Jobs |-> 0]

Permit(j) ==
    /\ permitted' = permitted \cup {j}
    /\ UNCHANGED <<accepted, observed>>

Accept(j) ==
    /\ j \in permitted
    /\ accepted[j] = 0
    /\ accepted' = [accepted EXCEPT ![j] = 1]
    /\ UNCHANGED <<permitted, observed>>

Observe(j) ==
    /\ accepted[j] = 1
    /\ observed[j] = 0
    /\ observed' = [observed EXCEPT ![j] = 1]
    /\ UNCHANGED <<permitted, accepted>>

Next == \E j \in Jobs : Permit(j) \/ Accept(j) \/ Observe(j)

Spec == Init /\ [][Next]_vars

=============================================================================
