------------------------------ MODULE FileLock ------------------------------
(***************************************************************************)
(* withFileLock of fs-safe.ts: the lock file that local processes create   *)
(* with open(path, "wx") around every read-modify-write of a state file.   *)
(*                                                                         *)
(* The lock is only a path.  Whoever unlinks it removes whatever file is   *)
(* there now, and a waiter that found a file older than STALE_LOCK_MS      *)
(* unlinks it in a later step than the stat that judged it stale.          *)
(*                                                                         *)
(* A member of Procs is one call of withFileLock in one process; a         *)
(* restarted process is another member.  NonceStore supplies what happens  *)
(* between Created and Release.                                            *)
(***************************************************************************)
EXTENDS Naturals, FiniteSets

CONSTANTS
    Procs,          \* calls of withFileLock on one target path
    Nobody,         \* "no lock file"
    MaxWaits,       \* polls that fit in LOCK_TIMEOUT_MS
    MaxFaults,      \* bound on crashes and on failed writes of the lock file
    SlowHolders     \* may a live holder outlast STALE_LOCK_MS?

ASSUME FileLockAssumption ==
    /\ Nobody \notin Procs
    /\ MaxWaits \in Nat
    /\ MaxFaults \in Nat
    /\ SlowHolders \in BOOLEAN

VARIABLES
    lock,    \* the call whose open("wx") created the lock file now at the path
    stale,   \* Date.now() - mtime > STALE_LOCK_MS for that file
    pc,      \* where each call is
    waits,   \* polls each call has made
    faults,  \* crashes and failed lock writes so far
    raced    \* history: an unlink removed the file of another call's live section

lockVars == <<lock, stale, pc, waits, faults, raced>>

Section == {"locked", "computed", "release", "abort"}
Ended == {"done", "failed", "dead"}
Locations == {"idle", "open", "exists", "steal"} \cup Section \cup Ended

InSection(p) == pc[p] \in Section

LockTypeOK ==
    /\ lock \in Procs \cup {Nobody}
    /\ stale \in BOOLEAN
    /\ pc \in [Procs -> Locations]
    /\ waits \in [Procs -> 0 .. MaxWaits]
    /\ faults \in 0 .. MaxFaults
    /\ raced \in BOOLEAN

LockInit ==
    /\ lock = Nobody
    /\ stale = FALSE
    /\ pc = [p \in Procs |-> "idle"]
    /\ waits = [p \in Procs |-> 0]
    /\ faults = 0
    /\ raced = FALSE

Goto(p, l) == pc' = [pc EXCEPT ![p] = l]

-----------------------------------------------------------------------------

Enter(p) ==
    /\ pc[p] = "idle"
    /\ Goto(p, "open")
    /\ UNCHANGED <<lock, stale, waits, faults, raced>>

\* open(lockPath, "wx") succeeds exactly when no file is at the path.
Creatable == lock = Nobody

\* The file is created, written and synced: the call owns the section.
Created(p) ==
    /\ pc[p] = "open"
    /\ Creatable
    /\ lock' = p
    /\ stale' = FALSE
    /\ Goto(p, "locked")
    /\ UNCHANGED <<waits, faults, raced>>

\* The file is created but writing or syncing it throws: the error is not
\* EEXIST, so the call throws and the file stays behind.
CreatedNotWritten(p) ==
    /\ pc[p] = "open"
    /\ Creatable
    /\ faults < MaxFaults
    /\ lock' = p
    /\ stale' = FALSE
    /\ faults' = faults + 1
    /\ Goto(p, "failed")
    /\ UNCHANGED <<waits, raced>>

Exists(p) ==
    /\ pc[p] = "open"
    /\ lock # Nobody
    /\ Goto(p, "exists")
    /\ UNCHANGED <<lock, stale, waits, faults, raced>>

\* lockIsStale: a missing file is not stale.
JudgedStale == lock # Nobody /\ stale

FoundStale(p) ==
    /\ pc[p] = "exists"
    /\ JudgedStale
    /\ Goto(p, "steal")
    /\ UNCHANGED <<lock, stale, waits, faults, raced>>

\* A poll that forgets the deadline.
MutPollAgain(p) ==
    /\ Goto(p, "open")
    /\ UNCHANGED waits

PollAgain(p) ==
    /\ waits[p] < MaxWaits
    /\ waits' = [waits EXCEPT ![p] = @ + 1]
    /\ Goto(p, "open")

TimeOut(p) ==
    /\ waits[p] = MaxWaits
    /\ Goto(p, "failed")
    /\ UNCHANGED waits

FoundFresh(p) ==
    /\ pc[p] = "exists"
    /\ ~JudgedStale
    /\ PollAgain(p) \/ TimeOut(p)
    /\ UNCHANGED <<lock, stale, faults, raced>>

\* unlink(lockPath): removes the file now at the path, whoever created it.
Unlink(p) ==
    /\ lock' = Nobody
    /\ stale' = FALSE
    /\ raced' = (raced \/ (lock \in Procs \ {p} /\ InSection(lock)))

\* unlink throws, which both callers of it swallow: the file stays.
UnlinkFails == UNCHANGED <<lock, stale, raced>>

Steal(p) ==
    /\ pc[p] = "steal"
    /\ Unlink(p)
    /\ Goto(p, "open")
    /\ UNCHANGED <<waits, faults>>

\* The loop starts again without a look at the deadline, which comes after this
\* branch, and without a delay.
StealFails(p) ==
    /\ pc[p] = "steal"
    /\ UnlinkFails
    /\ Goto(p, "open")
    /\ UNCHANGED <<waits, faults>>

\* The finally block runs after a result and after an error alike.
Release(p) ==
    /\ pc[p] \in {"release", "abort"}
    /\ Unlink(p) \/ UnlinkFails
    /\ Goto(p, IF pc[p] = "release" THEN "done" ELSE "failed")
    /\ UNCHANGED <<waits, faults>>

\* The operating system ends a process: its lock file stays.
Crash(p) ==
    /\ pc[p] \notin Ended \cup {"idle"}
    /\ faults < MaxFaults
    /\ faults' = faults + 1
    /\ Goto(p, "dead")
    /\ UNCHANGED <<lock, stale, waits, raced>>

\* A live holder's file ages only when holders may be slow.
MayAge == SlowHolders \/ ~InSection(lock)

\* STALE_LOCK_MS pass since the file was written.
Age ==
    /\ lock # Nobody
    /\ ~stale
    /\ MayAge
    /\ stale' = TRUE
    /\ UNCHANGED <<lock, pc, waits, faults, raced>>

LockStep(p) ==
    \/ Enter(p) \/ Created(p) \/ Exists(p) \/ FoundStale(p) \/ FoundFresh(p)
    \/ Steal(p) \/ StealFails(p) \/ Release(p)

LockEnvironment ==
    \/ Age
    \/ \E p \in Procs : Crash(p) \/ CreatedNotWritten(p)

-----------------------------------------------------------------------------

\* README.md: "cooperating local processes serialize nonce/contact/mailbox
\* updates with lock files": no two calls are inside their sections at once.
MutualExclusion ==
    \A p, q \in Procs : InSection(p) /\ InSection(q) => p = q

\* The same, as long as no unlink has removed a live holder's file.
SerializedUnlessRaced == ~raced => MutualExclusion

=============================================================================
