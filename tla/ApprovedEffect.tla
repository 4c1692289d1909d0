--------------------------- MODULE ApprovedEffect ---------------------------
(***************************************************************************)
(* What the approval boundary promises of one outbound action: its effect  *)
(* happens at most once, it is exactly what the operator granted, and a    *)
(* settled verdict about it is true from then on.                          *)
(***************************************************************************)
CONSTANTS
    Actions,
    Effects,
    Carriers    \* what may carry an effect out: the messages of calls

VARIABLES
    granted,    \* the effects granted for each action: none or one
    verdict,    \* what the approval record says of each action
    delivered   \* the deliveries each action has had: carrier and effect

vars == <<granted, verdict, delivered>>

Init ==
    /\ granted = [a \in Actions |-> {}]
    /\ verdict = [a \in Actions |-> "open"]
    /\ delivered = [a \in Actions |-> {}]

Grant(a) ==
    /\ verdict[a] = "open"
    /\ granted[a] = {}
    /\ \E e \in Effects : granted' = [granted EXCEPT ![a] = {e}]
    /\ UNCHANGED <<verdict, delivered>>

\* The grant is spent before anything leaves the process.
Begin(a) ==
    /\ verdict[a] = "open"
    /\ granted[a] # {}
    /\ verdict' = [verdict EXCEPT ![a] = "executing"]
    /\ UNCHANGED <<granted, delivered>>

\* The effect may come late, but not after it was reported as failed.
Deliver(a) ==
    /\ verdict[a] \in {"executing", "ambiguous"}
    /\ delivered[a] = {}
    /\ \E k \in Carriers, e \in granted[a] :
          delivered' = [delivered EXCEPT ![a] = {<<k, e>>}]
    /\ UNCHANGED <<granted, verdict>>

Settle(a) ==
    /\ verdict[a] = "executing"
    /\ \E v \in {"confirmed", "ambiguous", "failed"} :
          /\ v = "confirmed" => delivered[a] # {}
          /\ v = "failed" => delivered[a] = {}
          /\ verdict' = [verdict EXCEPT ![a] = v]
    /\ UNCHANGED <<granted, delivered>>

Next == \E a \in Actions : Grant(a) \/ Begin(a) \/ Deliver(a) \/ Settle(a)

Spec == Init /\ [][Next]_vars

=============================================================================
