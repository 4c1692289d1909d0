---------------------------- MODULE RuntimeLock ----------------------------
(***************************************************************************)
(* AgentRuntimeLock of agent/runtime-lock.ts: the lock record (pid, token) *)
(* behind a runtime, a session, a mailbox owner and every approval record. *)
(*                                                                         *)
(* A caller is one acquire call with the lock it may return.  It runs in   *)
(* the process Host[c]; several callers may share a process.  Pid numbers  *)
(* processes, and the operating system may give a dead process's number to *)
(* a later one.  A process that hosts no caller is any other program.      *)
(***************************************************************************)
EXTENDS Naturals, FiniteSets

CONSTANTS
    Callers,     \* acquire calls on one path
    Procs,       \* processes of the machine
    Host,        \* the process each caller runs in
    Pid,         \* the number each process gets when it is spawned
    Absent,      \* "no file"
    Torn,        \* a record that readLock cannot parse
    MaxFaults    \* bound on failed file operations

ASSUME RuntimeLockAssumption ==
    /\ Host \in [Callers -> Procs]
    /\ DOMAIN Pid = Procs
    /\ Absent \notin Callers
    /\ Torn \notin Callers \cup {Absent}
    /\ MaxFaults \in Nat

VARIABLES
    phase,    \* life of each process
    guard,    \* the caller whose open("wx") made the guard file, or Absent
    file,     \* the lock file: the caller whose record it holds, Torn or Absent
    pc,       \* where each caller is
    verdict,  \* what acquire will return or throw once the guard is gone
    faults    \* failed file operations so far

vars == <<phase, guard, file, pc, verdict, faults>>

Guarded == {"inspect", "unlink", "create", "write", "unguard"}
Holding == {"held", "release", "remove"}
Ended == {"active", "invalid", "error", "timeout", "done", "dead"}

TypeOK ==
    /\ phase \in [Procs -> {"unborn", "alive", "dead"}]
    /\ guard \in Callers \cup {Absent}
    /\ file \in Callers \cup {Torn, Absent}
    /\ pc \in [Callers -> {"idle", "guard"} \cup Guarded \cup Holding \cup Ended]
    /\ verdict \in [Callers -> {"none", "held", "active", "invalid", "error"}]
    /\ faults \in 0 .. MaxFaults

Init ==
    /\ phase = [p \in Procs |-> "unborn"]
    /\ guard = Absent
    /\ file = Absent
    /\ pc = [c \in Callers |-> "idle"]
    /\ verdict = [c \in Callers |-> "none"]
    /\ faults = 0

Goto(c, l) == pc' = [pc EXCEPT ![c] = l]

\* The finally block of acquire comes next, then the verdict.
Conclude(c, v) ==
    /\ verdict' = [verdict EXCEPT ![c] = v]
    /\ Goto(c, "unguard")

\* A file operation throws.
Fault ==
    /\ faults < MaxFaults
    /\ faults' = faults + 1

-----------------------------------------------------------------------------
(* The operating system. *)

Spawn(p) ==
    /\ phase[p] = "unborn"
    /\ \A q \in Procs : phase[q] = "alive" => Pid[q] # Pid[p]
    /\ phase' = [phase EXCEPT ![p] = "alive"]
    /\ UNCHANGED <<guard, file, pc, verdict, faults>>

\* A process ends between two steps of its callers; its files stay.
Die(p) ==
    /\ phase[p] = "alive"
    /\ phase' = [phase EXCEPT ![p] = "dead"]
    /\ pc' = [c \in Callers |->
                IF Host[c] = p /\ pc[c] \notin Ended THEN "dead" ELSE pc[c]]
    /\ UNCHANGED <<guard, file, verdict, faults>>

-----------------------------------------------------------------------------
(* acquire *)

Call(c) ==
    /\ pc[c] = "idle"
    /\ phase[Host[c]] = "alive"
    /\ Goto(c, "guard")
    /\ UNCHANGED <<phase, guard, file, verdict, faults>>

\* A guard opened without the exclusive flag.
MutTakeGuard(c) ==
    /\ pc[c] = "guard"
    /\ guard' = c
    /\ Goto(c, "inspect")
    /\ UNCHANGED <<phase, file, verdict, faults>>

TakeGuard(c) ==
    /\ pc[c] = "guard"
    /\ guard = Absent
    /\ guard' = c
    /\ Goto(c, "inspect")
    /\ UNCHANGED <<phase, file, verdict, faults>>

\* Polling with no deadline.
MutPollGuard(c) ==
    /\ pc[c] = "guard"
    /\ guard # Absent
    /\ UNCHANGED vars

\* Five seconds of polling: the deadline is looked at only after EEXIST.
GuardTimeout(c) ==
    /\ pc[c] = "guard"
    /\ guard # Absent
    /\ Goto(c, "timeout")
    /\ UNCHANGED <<phase, guard, file, verdict, faults>>

\* kill(pid, 0) answers for whatever process has the number now.
ProcessIsAlive(number) == \E p \in Procs : phase[p] = "alive" /\ Pid[p] = number

Inspect(c) ==
    /\ pc[c] = "inspect"
    /\ \/ /\ file = Absent
          /\ Goto(c, "create")
          /\ UNCHANGED verdict
       \/ /\ file = Torn
          /\ Conclude(c, "invalid")
       \/ /\ file \in Callers
          /\ IF ProcessIsAlive(Pid[Host[file]])
             THEN Conclude(c, "active")
             ELSE Goto(c, "unlink") /\ UNCHANGED verdict
    /\ UNCHANGED <<phase, guard, file, faults>>

UnlinkDead(c) ==
    /\ pc[c] = "unlink"
    /\ file' = Absent
    /\ Goto(c, "create")
    /\ UNCHANGED <<phase, guard, verdict, faults>>

Create(c) ==
    /\ pc[c] = "create"
    /\ IF file = Absent
       THEN file' = Torn /\ Goto(c, "write") /\ UNCHANGED verdict
       ELSE Conclude(c, "error") /\ UNCHANGED file
    /\ UNCHANGED <<phase, guard, faults>>

WriteRecord(c) ==
    /\ pc[c] = "write"
    /\ file' = c
    /\ Conclude(c, "held")
    /\ UNCHANGED <<phase, guard, faults>>

\* Reading the record, unlinking a dead one or creating the new one throws.
AcquireFails(c) ==
    /\ pc[c] \in {"inspect", "unlink", "create"}
    /\ Fault
    /\ Conclude(c, "error")
    /\ UNCHANGED <<phase, guard, file>>

\* writeFile throws, and no readable record is at the path; or sync or close throws
\* after it, and acquire throws with its complete record at the path.
WriteFails(c) ==
    /\ pc[c] = "write"
    /\ Fault
    /\ file' \in {Torn, c}
    /\ Conclude(c, "error")
    /\ UNCHANGED <<phase, guard>>

Unguard(c) ==
    /\ pc[c] = "unguard"
    /\ guard' = Absent
    /\ Goto(c, verdict[c])
    /\ UNCHANGED <<phase, file, verdict, faults>>

\* The unlink of the guard throws, which acquire swallows: the guard stays.
GuardStays(c) ==
    /\ pc[c] = "unguard"
    /\ Fault
    /\ Goto(c, verdict[c])
    /\ UNCHANGED <<phase, guard, file, verdict>>

-----------------------------------------------------------------------------
(* release: no guard is taken *)

BeginRelease(c) ==
    /\ pc[c] = "held"
    /\ Goto(c, "release")
    /\ UNCHANGED <<phase, guard, file, verdict, faults>>

\* The record is compared with the caller's own token before it is removed.
CompareToken(c) ==
    /\ pc[c] = "release"
    /\ Goto(c, IF file = c THEN "remove" ELSE IF file = Torn THEN "error" ELSE "done")
    /\ UNCHANGED <<phase, guard, file, verdict, faults>>

\* A release that leaves the file to the next acquire.
MutRemove(c) ==
    /\ pc[c] = "remove"
    /\ Goto(c, "done")
    /\ UNCHANGED <<phase, guard, file, verdict, faults>>

Remove(c) ==
    /\ pc[c] = "remove"
    /\ file' = Absent
    /\ Goto(c, "done")
    /\ UNCHANGED <<phase, guard, verdict, faults>>

\* Reading the record or unlinking it throws.  `released` is already true, so that a
\* second release returns at once and the record of a live process stays.
ReleaseFails(c) ==
    /\ pc[c] \in {"release", "remove"}
    /\ Fault
    /\ Goto(c, "error")
    /\ UNCHANGED <<phase, guard, file, verdict>>

FileError(c) == AcquireFails(c) \/ WriteFails(c) \/ GuardStays(c) \/ ReleaseFails(c)

AcquireStep(c) ==
    \/ TakeGuard(c) \/ GuardTimeout(c) \/ Inspect(c) \/ UnlinkDead(c)
    \/ Create(c) \/ WriteRecord(c) \/ Unguard(c)

ReleaseStep(c) == CompareToken(c) \/ Remove(c)

Next ==
    \/ \E p \in Procs : Spawn(p) \/ Die(p)
    \/ \E c \in Callers :
          Call(c) \/ AcquireStep(c) \/ BeginRelease(c) \/ ReleaseStep(c) \/ FileError(c)

\* A live process keeps executing the calls it has begun.  Nobody is obliged
\* to start a call, to release a lock, to spawn or to die, and no file operation
\* is obliged to fail.
Fairness == \A c \in Callers : WF_vars(AcquireStep(c)) /\ WF_vars(ReleaseStep(c))

Spec == Init /\ [][Next]_vars
FairSpec == Spec /\ Fairness

-----------------------------------------------------------------------------

\* At most one caller of live processes has the lock, whatever dies when and
\* whichever process numbers are reused.
Exclusive ==
    \A c, d \in Callers : pc[c] \in Holding /\ pc[d] \in Holding => c = d

\* Nobody but its holder removes or replaces the record of a live holder: the
\* token comparison of an unguarded release never meets somebody else's record.
RecordSurvives ==
    \A c \in Callers : pc[c] \in Holding => file = c

Refused(c) == pc[c] # "unguard" /\ pc'[c] = "unguard" /\ verdict'[c] \in {"active", "invalid"}

HeldNow == file \in Callers /\ pc[file] \in Holding

\* The number in the record is that of another process, which runs.
NumberReused ==
    /\ file \in Callers
    /\ \E p \in Procs \ {Host[file]} : phase[p] = "alive" /\ Pid[p] = Pid[Host[file]]

\* The caller of the record threw at a failed file operation and its process lives on.
LeftBehind == file \in Callers /\ pc[file] = "error"

\* What a refusal means: a caller holds the lock, its number is in use again, the
\* record was never completed, or a caller of a live process gave it up when a file
\* operation of its acquire or release threw.  (AGENT-ARCHITECTURE.md calls the lock
\* "recoverable after a dead process"; a reused process number is the exception.)  A
\* release that returns leaves nothing behind that would refuse the next acquire.
RefusedForAReason ==
    [][\A c \in Callers :
          Refused(c) => HeldNow \/ NumberReused \/ file = Torn \/ LeftBehind]_vars

\* A lock taken by a process that has died is taken over or found missing: every
\* acquire call returns, throws or dies.
AcquireReturns ==
    \A c \in Callers : pc[c] = "guard" ~> pc[c] \in {"held"} \cup Ended

=============================================================================
