---------------------------- MODULE MCSignedSend ----------------------------
(* Instances of SignedSend for TLC: the action identifier of each call. *)
EXTENDS SignedSend, TLC

CONSTANTS c1, c2, c3, a1

\* All calls compete for one action; calls to the contact are interchangeable.
SharedAction == [c \in Calls |-> a1]

ContactCalls == Permutations({c1, c2})

=============================================================================
