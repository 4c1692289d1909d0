----------------------------- MODULE NonceStore -----------------------------
(***************************************************************************)
(* NonceStore.reserve: under withFileLock, read nonces.json, take the      *)
(* larger of previous + 1 and the wall clock, write the file atomically    *)
(* (temporary file, fsync, rename) and return the nonce.  One DID and one  *)
(* room: the other keys of the file are carried along unchanged.           *)
(***************************************************************************)
EXTENDS FileLock, Integers

CONSTANTS
    MaxClock,   \* Date.now() is anything in 0 .. MaxClock, and may go back
    MaxNonce    \* largest value of 19 digits, normalizeNonce's limit

ASSUME NonceAssumption == MaxClock \in Nat /\ MaxNonce \in Nat

VARIABLES
    stored,   \* the value in nonces.json, Unset when there is none
    next,     \* each call's computed nonce, Unset before it is computed
    result    \* each call's reserved nonce, Unset before it is durable

nonceVars == <<stored, next, result>>
vars == <<lockVars, nonceVars>>

Unset == -1   \* reserve reads a missing key as -1n

NonceTypeOK ==
    /\ stored \in -1 .. MaxNonce
    /\ next \in [Procs -> -1 .. MaxNonce]
    /\ result \in [Procs -> -1 .. MaxNonce]

TypeOK == LockTypeOK /\ NonceTypeOK

Init ==
    /\ LockInit
    /\ stored = Unset
    /\ next = [p \in Procs |-> Unset]
    /\ result = [p \in Procs |-> Unset]

-----------------------------------------------------------------------------

\* Trusting the clock alone reuses a nonce after the clock steps back.
MutNextNonce(previous, clock) == clock

NextNonce(previous, clock) ==
    IF previous + 1 > clock THEN previous + 1 ELSE clock

\* Read the file and the clock, and compute the candidate.
Compute(p) ==
    /\ pc[p] = "locked"
    /\ \E clock \in 0 .. MaxClock :
          LET candidate == NextNonce(stored, clock)
          IN  IF candidate <= MaxNonce
              THEN /\ next' = [next EXCEPT ![p] = candidate]
                   /\ Goto(p, "computed")
              ELSE \* normalizeNonce throws: the counter never wraps
                   /\ Goto(p, "abort")
                   /\ UNCHANGED next
    /\ UNCHANGED <<lock, stale, waits, faults, raced, stored, result>>

\* The rename has happened: the nonce is durable and will be returned.
Persist(p) ==
    /\ stored' = next[p]
    /\ result' = [result EXCEPT ![p] = next[p]]

Write(p) ==
    /\ pc[p] = "computed"
    /\ Persist(p)
    /\ Goto(p, "release")
    /\ UNCHANGED <<lock, stale, waits, faults, raced, next>>

\* Reading or writing the state file throws: the file keeps its old content.
OperationThrows(p) ==
    /\ pc[p] \in {"locked", "computed"}
    /\ Goto(p, "abort")
    /\ UNCHANGED <<lock, stale, waits, faults, raced, nonceVars>>

CallStep(p) ==
    \/ LockStep(p) /\ UNCHANGED nonceVars
    \/ Compute(p)
    \/ Write(p)

Next ==
    \/ \E p \in Procs : CallStep(p) \/ OperationThrows(p)
    \/ LockEnvironment /\ UNCHANGED nonceVars

\* Every live process keeps executing; faults and ageing are not forced.
Fairness == \A p \in Procs : WF_vars(CallStep(p))

Spec == Init /\ [][Next]_vars
FairSpec == Spec /\ Fairness

-----------------------------------------------------------------------------

\* Two reservations never return the same nonce (replay protection of the
\* service would refuse the second signed message) unless a live lock was unlinked.
NoncesUniqueUnlessRaced ==
    ~raced => \A p, q \in Procs :
        result[p] # Unset /\ result[p] = result[q] => p = q

\* A nonce is on disk before the caller can sign with it: whatever happens
\* afterwards, the stored counter is at least every nonce ever returned.
DurableBeforeUse ==
    ~raced => \A p \in Procs : result[p] <= stored

\* The read-modify-write over several files behaves as one atomic reservation:
\* the durable counter rises, whatever the clock does, and its new value is handed
\* out once.
Promise == INSTANCE NonceCounter

ReservesAtomically == Promise!Spec

\* The same of every step up to a race that unlinks a live lock.
AtomicUnlessRaced == [][~raced => Promise!Next]_<<stored, result>>

\* A call of reserve ends: with a nonce, an error, or the death of its process,
\* whoever dies in the lock and however often the clock goes back.  The one call
\* that need not end finds a stale lock file that it can never remove: it tries
\* for ever, because the deadline is only tested when the file is fresh.
CallsReturn ==
    \A p \in Procs :
        \/ pc[p] = "open" ~> pc[p] \in Ended
        \/ []<><<StealFails(p)>>_vars

=============================================================================
