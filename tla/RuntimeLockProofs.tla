-------------------------- MODULE RuntimeLockProofs --------------------------
(***************************************************************************)
(* Proofs about RuntimeLock for every set of callers and processes, every  *)
(* reuse of process numbers and every point of death.                      *)
(*                                                                         *)
(* The guard serializes acquires, and a record is removed inside one only  *)
(* when no live process has its number.  A live holder's process has its   *)
(* number, so the inductive invariant keeps its record at the path until   *)
(* the holder itself removes it.  A record whose process lives is in turn  *)
(* its holder's, or that of a caller that threw at a failed file operation *)
(* and left it; so an inspection, which has the guard, refuses only for a  *)
(* caller that has the lock, for such a record, or for a number that is in *)
(* use again.                                                              *)
(***************************************************************************)
EXTENDS RuntimeLock, TLAPS

\* The guard file belongs to the one caller inside the guarded part.
GuardOwned == \A c \in Callers : pc[c] \in Guarded => guard = c

\* A caller that has something to run is in a live process.
LiveHosts ==
    \A c \in Callers : pc[c] \notin Ended \cup {"idle"} => phase[Host[c]] = "alive"

\* A caller about to conclude with the lock has already written its record.
OwnsRecord(c) ==
    pc[c] \in Holding \/ (pc[c] = "unguard" /\ verdict[c] = "held")

OwnersRecorded == \A c \in Callers : OwnsRecord(c) => file = c

\* What a guarded caller has seen is still so: nobody owns the record that it
\* unlinks, and nothing but its own torn file is at the path that it fills.
ViewStable ==
    \A c \in Callers :
        /\ pc[c] = "unlink" => \A d \in Callers : ~OwnsRecord(d)
        /\ pc[c] = "create" => file = Absent
        /\ pc[c] = "write" => file = Torn

\* acquire leaves its try block with something to return or to throw.
Concluded == \A c \in Callers : pc[c] = "unguard" => verdict[c] # "none"

TypeInv == TypeOK /\ Concluded

IInv == TypeInv /\ GuardOwned /\ LiveHosts /\ OwnersRecorded /\ ViewStable

USE DEF Guarded, Holding, Ended

LEMMA TypeStep == TypeInv /\ [Next]_vars => TypeInv'
  <1> SUFFICES ASSUME TypeInv, [Next]_vars PROVE TypeInv'
    OBVIOUS
  <1> USE RuntimeLockAssumption DEF TypeInv, TypeOK, Concluded, Goto, Conclude
  <1>1. ASSUME NEW p \in Procs, Spawn(p) \/ Die(p) PROVE TypeInv'
    BY <1>1 DEF Spawn, Die
  <1>2. ASSUME NEW c \in Callers, Call(c) \/ BeginRelease(c) PROVE TypeInv'
    BY <1>2 DEF Call, BeginRelease
  <1>3. ASSUME NEW c \in Callers, AcquireStep(c) PROVE TypeInv'
    <2>1. CASE TakeGuard(c) \/ GuardTimeout(c)
      BY <2>1 DEF TakeGuard, GuardTimeout
    <2>2. CASE Inspect(c)
      BY <2>2 DEF Inspect
    <2>3. CASE UnlinkDead(c) \/ Create(c) \/ WriteRecord(c)
      BY <2>3 DEF UnlinkDead, Create, WriteRecord
    <2>4. CASE Unguard(c)
      BY <2>4 DEF Unguard
    <2> QED BY <1>3, <2>1, <2>2, <2>3, <2>4 DEF AcquireStep
  <1>4. ASSUME NEW c \in Callers, ReleaseStep(c) PROVE TypeInv'
    BY <1>4 DEF ReleaseStep, CompareToken, Remove
  <1>5. ASSUME NEW c \in Callers, FileError(c) PROVE TypeInv'
    <2>1. faults' \in 0 .. MaxFaults
      BY <1>5 DEF FileError, AcquireFails, WriteFails, GuardStays, ReleaseFails, Fault
    <2> QED
      BY <1>5, <2>1 DEF FileError, AcquireFails, WriteFails, GuardStays, ReleaseFails
  <1>6. CASE UNCHANGED vars
    BY <1>6 DEF vars
  <1> QED BY <1>1, <1>2, <1>3, <1>4, <1>5, <1>6 DEF Next

LEMMA TypeInit == Init => TypeInv
  BY RuntimeLockAssumption DEF Init, TypeInv, TypeOK, Concluded

\* The variables stay within their types, and acquire concludes its try block.
THEOREM TypeCorrect == Spec => []TypeOK
  <1>1. TypeInv => TypeOK
    BY DEF TypeInv
  <1> QED BY <1>1, TypeInit, TypeStep, PTL DEF Spec

-----------------------------------------------------------------------------

\* A dead process's callers neither own a record nor look at one any more.
LEMMA ProcessStepKeeps ==
    ASSUME IInv, TypeInv', NEW p \in Procs, Spawn(p) \/ Die(p)
    PROVE  IInv'
  <1> USE RuntimeLockAssumption DEF IInv, TypeInv, TypeOK
  <1>1. CASE Spawn(p)
    BY <1>1 DEF Spawn, GuardOwned, LiveHosts, OwnersRecorded, OwnsRecord, ViewStable
  <1>2. CASE Die(p)
    <2>1. \A c \in Callers :
             \/ pc'[c] = pc[c] /\ (Host[c] # p \/ pc[c] \in Ended)
             \/ pc'[c] = "dead"
      BY <1>2 DEF Die
    <2>2. UNCHANGED <<guard, file, verdict>> /\ phase' = [phase EXCEPT ![p] = "dead"]
      BY <1>2 DEF Die
    <2>3. GuardOwned' /\ OwnersRecorded'
      BY <2>1, <2>2 DEF GuardOwned, OwnersRecorded, OwnsRecord
    <2>4. LiveHosts'
      BY <2>1, <2>2 DEF LiveHosts
    <2>5. ViewStable'
      BY <2>1, <2>2 DEF ViewStable, OwnsRecord
    <2> QED BY <2>3, <2>4, <2>5
  <1> QED BY <1>1, <1>2

\* The record of a caller that owns one names a number that answers kill(pid, 0).
LEMMA OwnerAnswers ==
    ASSUME IInv, NEW d \in Callers, OwnsRecord(d)
    PROVE  file = d /\ ProcessIsAlive(Pid[Host[file]])
  <1>1. file = d
    BY DEF IInv, OwnersRecorded
  <1>2. phase[Host[d]] = "alive" /\ Host[d] \in Procs
    BY RuntimeLockAssumption DEF IInv, LiveHosts, OwnsRecord
  <1> QED BY <1>1, <1>2 DEF ProcessIsAlive

LEMMA AcquireStepKeeps ==
    ASSUME IInv, TypeInv', NEW c \in Callers,
           Call(c) \/ AcquireStep(c) \/ AcquireFails(c) \/ WriteFails(c) \/ GuardStays(c)
    PROVE  IInv'
  <1> USE RuntimeLockAssumption DEF IInv, TypeInv, TypeOK, Goto, Conclude
  <1>1. CASE Call(c) \/ GuardTimeout(c)
    BY <1>1 DEF Call, GuardTimeout, GuardOwned, LiveHosts, OwnersRecorded, OwnsRecord, ViewStable
  <1>2. CASE TakeGuard(c)
    BY <1>2 DEF TakeGuard, GuardOwned, LiveHosts, OwnersRecorded, OwnsRecord, ViewStable
  <1>3. CASE Inspect(c)
    <2>1. ASSUME pc'[c] = "unlink" PROVE \A d \in Callers : ~OwnsRecord(d)
      BY <1>3, <2>1, OwnerAnswers DEF Inspect
    <2>2. ASSUME pc'[c] = "create" PROVE file = Absent
      BY <1>3, <2>2 DEF Inspect
    <2>3. UNCHANGED <<phase, guard, file>> /\ pc'[c] \in {"unlink", "create", "unguard"}
      BY <1>3 DEF Inspect
    <2>4. \A d \in Callers : OwnsRecord(d)' <=> OwnsRecord(d)
      BY <1>3 DEF Inspect, OwnsRecord
    <2> QED
      BY <1>3, <2>1, <2>2, <2>3, <2>4
         DEF Inspect, GuardOwned, LiveHosts, OwnersRecorded, ViewStable
  <1>4. CASE UnlinkDead(c)
    BY <1>4 DEF UnlinkDead, GuardOwned, LiveHosts, OwnersRecorded, OwnsRecord, ViewStable
  <1>5. CASE Create(c) \/ WriteRecord(c) \/ WriteFails(c)
    <2>1. \A d \in Callers \ {c} : pc[d] \notin Guarded
      BY <1>5 DEF GuardOwned, Create, WriteRecord, WriteFails
    <2>2. \A d \in Callers : ~OwnsRecord(d)
      BY <1>5 DEF OwnersRecorded, ViewStable, Create, WriteRecord, WriteFails, OwnsRecord
    <2> QED
      BY <1>5, <2>1, <2>2 DEF Create, WriteRecord, WriteFails, GuardOwned, LiveHosts,
                              OwnersRecorded, OwnsRecord, ViewStable
  <1>6. CASE Unguard(c) \/ GuardStays(c)
    <2>1. \A d \in Callers \ {c} : pc[d] \notin Guarded
      BY <1>6 DEF GuardOwned, Unguard, GuardStays
    <2> QED
      BY <1>6, <2>1 DEF Unguard, GuardStays, GuardOwned, LiveHosts, OwnersRecorded,
                        OwnsRecord, ViewStable
  <1>7. CASE AcquireFails(c)
    BY <1>7 DEF AcquireFails, GuardOwned, LiveHosts, OwnersRecorded, OwnsRecord, ViewStable
  <1> QED BY <1>1, <1>2, <1>3, <1>4, <1>5, <1>6, <1>7 DEF AcquireStep

\* A release runs beside an acquire: while its record is at the path no acquire
\* is past the inspection.
LEMMA ReleaseStepKeeps ==
    ASSUME IInv, TypeInv', NEW c \in Callers,
           BeginRelease(c) \/ ReleaseStep(c) \/ ReleaseFails(c)
    PROVE  IInv'
  <1> USE RuntimeLockAssumption DEF IInv, TypeInv, TypeOK, Goto
  <1>1. CASE BeginRelease(c) \/ CompareToken(c) \/ ReleaseFails(c)
    BY <1>1 DEF BeginRelease, CompareToken, ReleaseFails, GuardOwned, LiveHosts, OwnersRecorded,
                OwnsRecord, ViewStable
  <1>2. CASE Remove(c)
    <2>1. file = c /\ OwnsRecord(c)
      BY <1>2 DEF Remove, OwnersRecorded, OwnsRecord
    <2>2. \A d \in Callers : pc[d] \notin {"unlink", "create", "write"}
      BY <2>1 DEF ViewStable
    <2>3. \A d \in Callers \ {c} : ~OwnsRecord(d)
      BY <2>1 DEF OwnersRecorded
    <2> QED
      BY <1>2, <2>2, <2>3 DEF Remove, GuardOwned, LiveHosts, OwnersRecorded, OwnsRecord, ViewStable
  <1> QED BY <1>1, <1>2 DEF ReleaseStep

LEMMA InductiveStep == IInv /\ [Next]_vars => IInv'
  <1> SUFFICES ASSUME IInv, [Next]_vars PROVE IInv'
    OBVIOUS
  <1>1. TypeInv'
    BY TypeStep DEF IInv
  <1>2. CASE UNCHANGED vars
    BY <1>1, <1>2
       DEF vars, IInv, GuardOwned, LiveHosts, OwnersRecorded, OwnsRecord, ViewStable
  <1>3. CASE Next
    BY <1>1, <1>3, ProcessStepKeeps, AcquireStepKeeps, ReleaseStepKeeps DEF Next, FileError
  <1> QED BY <1>2, <1>3

LEMMA InductiveInit == Init => IInv
  BY TypeInit
     DEF Init, IInv, GuardOwned, LiveHosts, OwnersRecorded, OwnsRecord, ViewStable

LEMMA Invariance == Spec => []IInv
  BY InductiveInit, InductiveStep, PTL DEF Spec

\* At most one caller of live processes has the lock (agent/runtime-lock.ts),
\* however process numbers are reused and wherever processes die.
THEOREM MutuallyExclusive == Spec => []Exclusive
  <1>1. IInv => Exclusive
    BY DEF IInv, OwnersRecorded, OwnsRecord, Exclusive
  <1> QED BY <1>1, Invariance, PTL

\* The unguarded comparison and unlink of a release always meet its own record.
THEOREM HolderKeepsRecord == Spec => []RecordSurvives
  <1>1. IInv => RecordSurvives
    BY DEF IInv, OwnersRecorded, OwnsRecord, RecordSurvives
  <1> QED BY <1>1, Invariance, PTL

-----------------------------------------------------------------------------

\* A record at the path was written by a process that has lived, and as long as that
\* process lives its caller has the lock, is about to return with it, or has thrown.
HasThrown(d) == pc[d] = "error" \/ (pc[d] = "unguard" /\ verdict[d] = "error")

LiveRecordsOwned ==
    \A d \in Callers :
        file = d => /\ phase[Host[d]] \in {"alive", "dead"}
                    /\ phase[Host[d]] = "alive" => OwnsRecord(d) \/ HasThrown(d)

LEMMA LiveRecordsInit == Init => LiveRecordsOwned
  BY RuntimeLockAssumption DEF Init, LiveRecordsOwned

\* A caller stops owning its record only by removing it, by throwing, or with its
\* process.
LEMMA LiveRecordsStep == IInv /\ LiveRecordsOwned /\ [Next]_vars => LiveRecordsOwned'
  <1> SUFFICES ASSUME IInv, LiveRecordsOwned, [Next]_vars PROVE LiveRecordsOwned'
    OBVIOUS
  <1> USE RuntimeLockAssumption
      DEF IInv, TypeInv, TypeOK, OwnersRecorded, LiveRecordsOwned, OwnsRecord, HasThrown,
          Goto, Conclude
  <1>1. ASSUME NEW p \in Procs, Spawn(p) PROVE LiveRecordsOwned'
    BY <1>1 DEF Spawn
  <1>2. ASSUME NEW p \in Procs, Die(p) PROVE LiveRecordsOwned'
    <2>1. \A c \in Callers : Host[c] # p => pc'[c] = pc[c] /\ phase'[Host[c]] = phase[Host[c]]
      BY <1>2 DEF Die
    <2>2. \A c \in Callers : Host[c] = p => phase'[Host[c]] = "dead"
      BY <1>2 DEF Die
    <2>3. UNCHANGED <<file, verdict>>
      BY <1>2 DEF Die
    <2> QED BY <2>1, <2>2, <2>3
  <1>3. ASSUME NEW c \in Callers, Call(c) \/ BeginRelease(c) \/ TakeGuard(c) \/ GuardTimeout(c)
        PROVE  LiveRecordsOwned'
    BY <1>3 DEF Call, BeginRelease, TakeGuard, GuardTimeout
  <1>4. ASSUME NEW c \in Callers, Inspect(c) PROVE LiveRecordsOwned'
    BY <1>4 DEF Inspect
  <1>5. ASSUME NEW c \in Callers, UnlinkDead(c) \/ Create(c) PROVE LiveRecordsOwned'
    BY <1>5 DEF UnlinkDead, Create
  <1>6. ASSUME NEW c \in Callers, WriteRecord(c) PROVE LiveRecordsOwned'
    BY <1>6 DEF WriteRecord, LiveHosts
  <1>7. ASSUME NEW c \in Callers, FileError(c) PROVE LiveRecordsOwned'
    BY <1>7 DEF FileError, AcquireFails, WriteFails, GuardStays, ReleaseFails, LiveHosts
  <1>8. ASSUME NEW c \in Callers, Unguard(c) PROVE LiveRecordsOwned'
    BY <1>8 DEF Unguard
  <1>9. ASSUME NEW c \in Callers, CompareToken(c) \/ Remove(c) PROVE LiveRecordsOwned'
    BY <1>9 DEF CompareToken, Remove
  <1>10. CASE UNCHANGED vars
    BY <1>10 DEF vars
  <1> QED
    BY <1>1, <1>2, <1>3, <1>4, <1>5, <1>6, <1>7, <1>8, <1>9, <1>10 DEF Next, AcquireStep, ReleaseStep

\* Only an inspection refuses, and it holds the guard: the caller whose record it
\* reads has concluded, so a living one has the lock.
LEMMA RefusalIsInspection ==
    ASSUME IInv, LiveRecordsOwned, NEW c \in Callers, Next, Refused(c)
    PROVE  HeldNow \/ NumberReused \/ file = Torn \/ LeftBehind
  <1> USE RuntimeLockAssumption DEF IInv, TypeInv, TypeOK, Goto, Conclude
  <1>1. Inspect(c)
    <2>1. ASSUME NEW p \in Procs, Spawn(p) \/ Die(p) PROVE FALSE
      BY <2>1 DEF Spawn, Die, Refused
    <2>2. ASSUME NEW d \in Callers,
                 Call(d) \/ AcquireStep(d) \/ BeginRelease(d) \/ ReleaseStep(d) \/ FileError(d)
          PROVE  Inspect(c)
      <3>1. CASE d # c
        BY <2>2, <3>1 DEF Refused, Call, AcquireStep, BeginRelease, ReleaseStep, FileError, TakeGuard,
                          GuardTimeout, Inspect, UnlinkDead, Create, WriteRecord, Unguard, CompareToken, Remove,
                          AcquireFails, WriteFails, GuardStays, ReleaseFails
      <3>2. CASE d = c
        <4>1. pc'[c] = "unguard" /\ verdict'[c] \in {"active", "invalid"} /\ pc[c] # "unguard"
          BY DEF Refused
        <4>2. ~(Call(c) \/ FileError(c) \/ BeginRelease(c) \/ ReleaseStep(c))
          BY <4>1 DEF Call, FileError, AcquireFails, WriteFails, GuardStays, ReleaseFails,
                      BeginRelease, ReleaseStep, CompareToken, Remove
        <4>3. ~(TakeGuard(c) \/ GuardTimeout(c) \/ UnlinkDead(c) \/ Create(c) \/ WriteRecord(c) \/ Unguard(c))
          BY <4>1 DEF TakeGuard, GuardTimeout, UnlinkDead, Create, WriteRecord, Unguard
        <4> QED BY <2>2, <3>2, <4>2, <4>3 DEF AcquireStep
      <3> QED BY <3>1, <3>2
    <2> QED BY <2>1, <2>2 DEF Next
  <1>2. file # Absent
    BY <1>1 DEF Inspect, Refused
  <1>3. CASE file \in Callers
    <2>1. PICK p \in Procs : phase[p] = "alive" /\ Pid[p] = Pid[Host[file]]
      BY <1>1, <1>3 DEF Inspect, Refused, ProcessIsAlive
    <2>2. CASE p = Host[file]
      <3>1. OwnsRecord(file) \/ HasThrown(file)
        BY <1>3, <2>1, <2>2 DEF LiveRecordsOwned
      <3>2. pc[file] # "unguard"
        BY <1>1, <1>3 DEF Inspect, GuardOwned
      <3> QED BY <1>3, <3>1, <3>2 DEF OwnsRecord, HasThrown, HeldNow, LeftBehind
    <2> QED BY <1>3, <2>1, <2>2 DEF NumberReused
  <1> QED BY <1>2, <1>3

\* An acquire is refused because a caller has the lock, because a dead holder's
\* process number is in use again, because the record was never completed, or because
\* a file operation of a caller threw and left its record; a release that returns
\* leaves nothing behind that would refuse a later one.
THEOREM RefusalsHaveReasons == Spec => RefusedForAReason
  <1>1. IInv /\ LiveRecordsOwned /\ [Next]_vars
            => [\A c \in Callers :
                   Refused(c) => HeldNow \/ NumberReused \/ file = Torn \/ LeftBehind]_vars
    BY RefusalIsInspection
  <1>2. Spec => []LiveRecordsOwned
    BY LiveRecordsInit, LiveRecordsStep, Invariance, PTL DEF Spec
  <1> QED BY <1>1, <1>2, Invariance, PTL DEF Spec, RefusedForAReason

=============================================================================
