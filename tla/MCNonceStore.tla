---------------------------- MODULE MCNonceStore ----------------------------
(* Instances of NonceStore for TLC: calls are interchangeable. *)
EXTENDS NonceStore, TLC

CallSymmetry == Permutations(Procs)

=============================================================================
