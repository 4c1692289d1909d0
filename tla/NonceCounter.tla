---------------------------- MODULE NonceCounter ----------------------------
(***************************************************************************)
(* What NonceStore promises its callers: a reservation is one atomic step  *)
(* that raises the durable counter and hands out exactly its new value.    *)
(***************************************************************************)
EXTENDS Integers

CONSTANT Procs   \* reservations

VARIABLES
    stored,   \* the durable counter, -1 when there is none
    result    \* the nonce of each reservation, -1 before it has one

Init ==
    /\ stored = -1
    /\ result = [p \in Procs |-> -1]

Reserve(p) ==
    /\ result[p] = -1
    /\ stored' \in Int
    /\ stored' > stored
    /\ result' = [result EXCEPT ![p] = stored']

Next == \E p \in Procs : Reserve(p)

Spec == Init /\ [][Next]_<<stored, result>>

=============================================================================
