---------------------------- MODULE OutboundWork ----------------------------
(***************************************************************************)
(* OutboundExternalWorkCoordinator (swarm/outbound-external-work.ts): one  *)
(* request to an external peer, one bounded read for its answer, one local *)
(* review of it.                                                           *)
(*                                                                         *)
(* A worker is a process that runs one operation after the other.  Every   *)
(* operation holds the file lock of its job; a lock whose holder waits for *)
(* a passphrase, the service or an inference for 30 seconds is taken for   *)
(* stale by withFileLock (see FileLock).  An operation works on a copy of  *)
(* the record and writes the whole copy.  A review runs Dave's task in a    *)
(* runtime of his, under his runtime lock (see RuntimeLock, AgentRuntime). *)
(*                                                                         *)
(* Sequence numbers are indices into the requester's room.  A retained     *)
(* checkpoint names the cursor it was read at and the window lo+1 .. last. *)
(* The approval store's operations are single steps (see SignedSend).      *)
(***************************************************************************)
EXTENDS Naturals, Sequences

CONSTANTS
    Jobs,         \* prepared requests of one requester
    Workers,      \* processes that run operations
    None,         \* no file, no holder, no copy
    Orphan,       \* the lock file of a process that has died
    SlowHolders,  \* may a holder outlast the age at which its lock is taken?
    MaxMessages,  \* bound on the messages in the room
    MaxFaults     \* bound on deaths and failing local steps

ASSUME OutboundWorkAssumption ==
    /\ None \notin Workers /\ Orphan \notin Workers /\ "junk" \notin Jobs
    /\ SlowHolders \in BOOLEAN
    /\ MaxMessages \in Nat /\ MaxFaults \in Nat

VARIABLES
    record,     \* jobs/<id>.json
    approval,   \* status of the approval of each job's request
    checkpoint, \* intake/<id>-read-1.json
    review,     \* Dave's workload.review task of each job
    dave,       \* the worker that has Dave's runtime lock
    inferred,   \* history: calls of Dave's inference for each job
    cursor,     \* the requester's inbox cursor
    lock,       \* the file lock of each job's record
    pc,         \* where each worker is
    at,         \* the job a worker is working on
    copy,       \* the record as the worker holds it
    wire,       \* the signed POST of each job
    room,       \* messages in the requester's mailbox: a job's answer or "junk"
    dropped,    \* how many of the oldest messages the service has dropped
    late,       \* jobs whose response deadline has passed
    faults,     \* deaths and failed steps so far
    arrived,    \* history: requests accepted by the service for each job
    gets,       \* history: reads made for each job
    elsewhere,  \* history: how far other readers have taken the mailbox
    raced       \* history: a live holder's lock was taken

daves == <<review, dave, inferred>>
files == <<record, approval, checkpoint, daves, cursor>>
local == <<pc, at, copy>>
world == <<wire, room, dropped, late>>
history == <<arrived, gets, elsewhere, raced>>
vars == <<files, lock, local, world, faults, history>>

States == {"PREPARED", "AUTHORIZED", "SENDING", "SENT", "AWAITING_RESPONSE",
           "RESPONSE_RECEIVED", "REVIEW_PENDING", "SUCCESS", "REJECTED_RESULT",
           "REVISION_REQUIRED", "NO_RESPONSE", "INVALID_RESPONSE",
           "DELIVERY_REJECTED", "AMBIGUOUS_DELIVERY"}
Terminal == {"SUCCESS", "REJECTED_RESULT", "REVISION_REQUIRED", "NO_RESPONSE",
             "INVALID_RESPONSE", "DELIVERY_REJECTED", "AMBIGUOUS_DELIVERY"}
Outcomes == {"VOUCH", "REJECT", "REVISION_REQUIRED"}

\* link is the sequence number of the linked response, 0 without one.
Records == [state : States, posts : 0 .. 1, receipt : BOOLEAN, since : Nat, reads : 0 .. 1,
            link : Nat, verified : BOOLEAN, acked : BOOLEAN, outcome : Outcomes \cup {None}]

Checkpoints == [cursor : Nat, lo : Nat, last : Nat]

ASSUME FilesAssumption == None \notin Records \cup Checkpoints

Locations == {"idle", "create", "authorize", "unlock", "dispatch", "await", "confirm", "sent",
              "awaiting", "conclude", "observe", "read", "process", "link", "ack", "reack",
              "acked", "timeout", "review", "start", "dave", "claimed", "infer", "verdict"}

\* What a worker is doing, or has done in its section, may take longer than
\* STALE_LOCK_MS: a passphrase, a POST, a GET or an inference.
Overdue == {"unlock", "dispatch", "await", "confirm", "sent", "awaiting", "conclude",
            "read", "process", "link", "ack", "acked",
            "start", "dave", "claimed", "infer", "verdict"}

\* validateStored: what record() refuses to return.
Readable(r) ==
    /\ r.state \in {"PREPARED", "AUTHORIZED"} <=> r.posts = 0
    /\ r.state \notin {"PREPARED", "AUTHORIZED", "SENDING", "DELIVERY_REJECTED",
                       "AMBIGUOUS_DELIVERY"} => r.receipt
    /\ r.state \in {"RESPONSE_RECEIVED", "REVIEW_PENDING", "SUCCESS", "REJECTED_RESULT",
                    "REVISION_REQUIRED"} => r.verified
    /\ r.state = "INVALID_RESPONSE" => r.link > 0 /\ ~r.verified
    /\ r.state = "SUCCESS" => r.outcome = "VOUCH"
    /\ r.state = "REJECTED_RESULT" => r.outcome = "REJECT"
    /\ r.state = "REVISION_REQUIRED" => r.outcome = "REVISION_REQUIRED"

TypeOK ==
    /\ record \in [Jobs -> Records \cup {None}]
    /\ approval \in [Jobs -> {"none", "requested", "approved", "executing", "confirmed",
                              "ambiguous", "failed"}]
    /\ checkpoint \in [Jobs -> Checkpoints \cup {None}]
    /\ review \in [Jobs -> Outcomes \cup {"none", "pending", "running", "intended", "failed"}]
    /\ dave \in Workers \cup {None}
    /\ inferred \in [Jobs -> Nat]
    /\ cursor \in Nat
    /\ lock \in [Jobs -> Workers \cup {None, Orphan}]
    /\ pc \in [Workers -> Locations]
    /\ at \in [Workers -> Jobs \cup {None}]
    /\ copy \in [Workers -> Records \cup {None}]
    /\ wire \in [Jobs -> {"none", "request", "posted", "refused", "lost"}]
    /\ room \in Seq(Jobs \cup {"junk"})
    /\ dropped \in Nat
    /\ late \subseteq Jobs
    /\ faults \in 0 .. MaxFaults
    /\ arrived \in [Jobs -> Nat]
    /\ gets \in [Jobs -> Nat]
    /\ elsewhere \in Nat
    /\ raced \in BOOLEAN

Init ==
    /\ record = [j \in Jobs |-> None]
    /\ approval = [j \in Jobs |-> "none"]
    /\ checkpoint = [j \in Jobs |-> None]
    /\ review = [j \in Jobs |-> "none"]
    /\ dave = None
    /\ inferred = [j \in Jobs |-> 0]
    /\ cursor = 0
    /\ lock = [j \in Jobs |-> None]
    /\ pc = [w \in Workers |-> "idle"]
    /\ at = [w \in Workers |-> None]
    /\ copy = [w \in Workers |-> None]
    /\ wire = [j \in Jobs |-> "none"]
    /\ room = <<>>
    /\ dropped = 0
    /\ late = {}
    /\ faults = 0
    /\ arrived = [j \in Jobs |-> 0]
    /\ gets = [j \in Jobs |-> 0]
    /\ elsewhere = 0
    /\ raced = FALSE

-----------------------------------------------------------------------------
(* Sections of a job's record *)

\* The lock file is absent, left by a dead process, or older than 30 seconds.
Available(j) ==
    \/ lock[j] \in {None, Orphan}
    \/ SlowHolders /\ lock[j] \in Workers /\ pc[lock[j]] \in Overdue

\* The operation takes the lock, reads the record r and goes on to l with it.
Enter(w, j, r, l) ==
    /\ pc[w] = "idle"
    /\ Available(j)
    /\ Readable(record[j])
    /\ lock' = [lock EXCEPT ![j] = w]
    /\ raced' = (raced \/ lock[j] \in Workers)
    /\ pc' = [pc EXCEPT ![w] = l]
    /\ at' = [at EXCEPT ![w] = j]
    /\ copy' = [copy EXCEPT ![w] = r]

\* The end of a section unlinks whatever is at the lock's path.
Leave(w) ==
    /\ lock' = [lock EXCEPT ![at[w]] = None]
    /\ pc' = [pc EXCEPT ![w] = "idle"]
    /\ at' = [at EXCEPT ![w] = None]
    /\ copy' = [copy EXCEPT ![w] = None]

\* The next step of the operation, with r as its copy.
Proceed(w, r, l) ==
    /\ pc' = [pc EXCEPT ![w] = l]
    /\ copy' = [copy EXCEPT ![w] = r]
    /\ UNCHANGED <<at, lock>>

Write(w, r) == record' = [record EXCEPT ![at[w]] = r]

Fault == faults < MaxFaults /\ faults' = faults + 1

-----------------------------------------------------------------------------
(* prepare and authorize *)

New(s) == [state |-> "PREPARED", posts |-> 0, receipt |-> FALSE, since |-> s, reads |-> 0,
           link |-> 0, verified |-> FALSE, acked |-> FALSE, outcome |-> None]

\* The cursor is read before the lock is taken.
Prepare(w, j) ==
    /\ pc[w] = "idle"
    /\ pc' = [pc EXCEPT ![w] = "create"]
    /\ at' = [at EXCEPT ![w] = j]
    /\ copy' = [copy EXCEPT ![w] = New(cursor)]
    /\ UNCHANGED <<files, lock, world, faults, history>>

\* An existing record of the same request stays; its approval is proposed if it
\* is missing.  A failure after the write leaves the approval to authorize.
Create(w) ==
    LET j == at[w] IN
    /\ pc[w] = "create"
    /\ lock[j] \in {None, Orphan}
    /\ record' = [record EXCEPT ![j] = IF @ = None THEN copy[w] ELSE @]
    /\ \/ /\ approval' = [approval EXCEPT ![j] = IF @ = "none" THEN "requested" ELSE @]
          /\ UNCHANGED faults
       \/ Fault /\ UNCHANGED approval
    /\ Leave(w)
    /\ UNCHANGED <<checkpoint, daves, cursor, world, history>>

\* The operator names the exact hash; a request of hers that is already granted
\* is taken again after a death.
Authorize(w, j) ==
    /\ Enter(w, j, [record[j] EXCEPT !.state = "AUTHORIZED"], "authorize")
    /\ record[j].state \in {"PREPARED", "AUTHORIZED"}
    /\ j \notin late
    /\ approval[j] \in {"none", "requested", "approved"}
    /\ approval' = [approval EXCEPT ![j] = "approved"]
    /\ UNCHANGED <<record, checkpoint, daves, cursor, world, faults, arrived, gets, elsewhere>>

WriteAuthorized(w) ==
    /\ pc[w] = "authorize"
    /\ Write(w, copy[w])
    /\ Leave(w)
    /\ UNCHANGED <<approval, checkpoint, daves, cursor, world, faults, history>>

-----------------------------------------------------------------------------
(* send *)

Send(w, j) ==
    /\ Enter(w, j, record[j], "unlock")
    /\ record[j].state = "AUTHORIZED"
    /\ record[j].posts = 0
    /\ j \notin late
    /\ approval[j] = "approved"
    /\ UNCHANGED <<files, world, faults, arrived, gets, elsewhere>>

\* sendTo throws before its signing boundary (a wrong passphrase, say): nothing
\* has been attached to the error, and nothing is written.
SendRefused(w) ==
    /\ pc[w] = "unlock"
    /\ Fault
    /\ Leave(w)
    /\ UNCHANGED <<files, world, history>>

\* GuardedApprovals.consume
Unchanged(w) == record[at[w]] = copy[w]

Consume(w) ==
    LET j == at[w] IN
    /\ pc[w] = "unlock"
    /\ \/ /\ Unchanged(w)
          /\ approval[j] = "approved"
          /\ approval' = [approval EXCEPT ![j] = "executing"]
          /\ Proceed(w, copy[w], "dispatch")
          /\ UNCHANGED faults
       \/ \* the guard, the approval or its lock: dispatch never began
          /\ \/ (~Unchanged(w) \/ approval[j] # "approved") /\ UNCHANGED faults
             \/ Fault
          /\ Proceed(w, [copy[w] EXCEPT !.state = "DELIVERY_REJECTED"], "conclude")
          /\ UNCHANGED approval
    /\ UNCHANGED <<record, checkpoint, daves, cursor, world, history>>

\* The reservation of the nonce or the signature throws.
ReserveThrows(w) ==
    /\ pc[w] = "dispatch"
    /\ Fault
    /\ approval' = [approval EXCEPT ![at[w]] = "failed"]
    /\ Proceed(w, [copy[w] EXCEPT !.state = "DELIVERY_REJECTED"], "conclude")
    /\ UNCHANGED <<record, checkpoint, daves, cursor, world, history>>

\* A second look at record and approval, then the intent, then the POST.
Dispatch(w) ==
    LET j == at[w]
        sending == [copy[w] EXCEPT !.state = "SENDING", !.posts = 1] IN
    /\ pc[w] = "dispatch"
    /\ \/ /\ Unchanged(w)
          /\ approval[j] = "executing"
          /\ Write(w, sending)
          /\ wire' = [wire EXCEPT ![j] = "request"]
          /\ Proceed(w, sending, "await")
          /\ UNCHANGED <<approval, faults>>
       \/ \* dispatchBegan is set already, whatever throws
          /\ \/ ~Unchanged(w) /\ UNCHANGED faults
             \/ Fault
          /\ approval' = [approval EXCEPT ![j] = "ambiguous"]
          /\ \E n \in 0 .. 1 :
                Proceed(w, [copy[w] EXCEPT !.state = "AMBIGUOUS_DELIVERY", !.posts = n], "conclude")
          /\ UNCHANGED <<record, wire>>
    /\ UNCHANGED <<checkpoint, daves, cursor, room, dropped, late, history>>

\* A complete receipt is written; a complete 4xx spends the approval.
Answered(w) ==
    LET j == at[w] IN
    /\ pc[w] = "await"
    /\ \/ /\ wire[j] = "posted"
          /\ Write(w, [copy[w] EXCEPT !.receipt = TRUE])
          /\ Proceed(w, [copy[w] EXCEPT !.receipt = TRUE], "confirm")
          /\ UNCHANGED approval
       \/ /\ wire[j] = "refused"
          /\ approval' = [approval EXCEPT ![j] = "failed"]
          /\ Proceed(w, [copy[w] EXCEPT !.state = "DELIVERY_REJECTED"], "conclude")
          /\ UNCHANGED record
    /\ UNCHANGED <<checkpoint, daves, cursor, world, faults, history>>

\* A timeout taken for a refusal.
MutGivesUp(w) ==
    /\ approval' = [approval EXCEPT ![at[w]] = "failed"]
    /\ Proceed(w, [copy[w] EXCEPT !.state = "DELIVERY_REJECTED"], "conclude")

\* What the bridge and the catch block make of an error behind the dispatch.
GivesUp(w) ==
    /\ approval' = [approval EXCEPT ![at[w]] = "ambiguous"]
    /\ Proceed(w, [copy[w] EXCEPT !.state = "AMBIGUOUS_DELIVERY"], "conclude")

\* Only the timer, an unreadable answer or a receipt of something else; the
\* service may still accept the request.
TimedOut(w) ==
    /\ pc[w] = "await"
    /\ GivesUp(w)
    /\ UNCHANGED <<record, checkpoint, daves, cursor, world, faults, history>>

Confirm(w) ==
    /\ pc[w] = "confirm"
    /\ \/ /\ approval' = [approval EXCEPT ![at[w]] = "confirmed"]
          /\ Proceed(w, copy[w], "sent")
          /\ UNCHANGED faults
       \/ Fault /\ GivesUp(w)
    /\ UNCHANGED <<record, checkpoint, daves, cursor, world, history>>

\* SENT, then AWAITING_RESPONSE; a write that fails is caught like any error.
WriteSent(w) ==
    LET l == IF pc[w] = "sent" THEN "SENT" ELSE "AWAITING_RESPONSE"
        r == [copy[w] EXCEPT !.state = l] IN
    /\ pc[w] \in {"sent", "awaiting"}
    /\ \/ /\ Write(w, r)
          /\ IF l = "SENT" THEN Proceed(w, r, "awaiting") ELSE Leave(w)
          /\ UNCHANGED faults
       \/ /\ Fault
          /\ Proceed(w, [r EXCEPT !.state = "AMBIGUOUS_DELIVERY"], "conclude")
          /\ UNCHANGED record
    /\ UNCHANGED <<approval, checkpoint, daves, cursor, world, history>>

\* The write at the end of the catch block.
Conclude(w) ==
    /\ pc[w] = "conclude"
    /\ Write(w, copy[w])
    /\ Leave(w)
    /\ UNCHANGED <<approval, checkpoint, daves, cursor, world, faults, history>>

-----------------------------------------------------------------------------
(* receive and timeout *)

Linked(r) == r.link > 0

\* A linked response is acknowledged first; else the read is due, also from a
\* SENT record whose approval is confirmed.
Receive(w, j) ==
    /\ \/ /\ Linked(record[j]) /\ ~record[j].acked
          /\ Enter(w, j, record[j], "reack")
          /\ UNCHANGED record
       \/ /\ ~Linked(record[j]) \/ record[j].acked
          /\ \/ record[j].state = "AWAITING_RESPONSE"
             \/ record[j].state = "SENT" /\ approval[j] = "confirmed"
          /\ LET r == [record[j] EXCEPT !.state = "AWAITING_RESPONSE"] IN
                Enter(w, j, r, "observe") /\ record' = [record EXCEPT ![j] = r]
    /\ UNCHANGED <<approval, checkpoint, daves, cursor, world, faults, arrived, gets, elsewhere>>

\* A budget that is not spent before the read.
MutSpendRead(w) == Proceed(w, copy[w], "read") /\ UNCHANGED record

\* The read is on record before it is made.
SpendRead(w) ==
    LET r == [copy[w] EXCEPT !.reads = 1] IN
    Write(w, r) /\ Proceed(w, r, "read")

Observe(w) ==
    LET j == at[w] IN
    /\ pc[w] = "observe"
    /\ IF j \in late \/ cursor # copy[w].since
       THEN Leave(w) /\ UNCHANGED record
       ELSE \/ /\ checkpoint[j] # None
               /\ Proceed(w, copy[w], "process")
               /\ UNCHANGED record
            \/ checkpoint[j] = None /\ copy[w].reads = 0 /\ SpendRead(w)
            \/ checkpoint[j] = None /\ copy[w].reads = 1 /\ Leave(w) /\ UNCHANGED record
    /\ UNCHANGED <<approval, checkpoint, daves, cursor, world, faults, history>>

Later(a, b) == IF a < b THEN b ELSE a

\* What the service answers a read from s: what it still has behind s; of an
\* empty answer the last sequence number may be its own newest.
Windows(s) ==
    LET lo == Later(s, dropped)
        hi == Later(lo, Len(room)) IN
    {[cursor |-> cursor, lo |-> lo, last |-> hi]}
        \cup (IF lo = hi THEN {[cursor |-> cursor, lo |-> s, last |-> s]} ELSE {})

\* One GET, under ownership of the mailbox; the answer is retained before it is
\* looked at, in a file that is only ever created.
Read(w) ==
    LET j == at[w] IN
    /\ pc[w] = "read"
    /\ \/ /\ gets' = [gets EXCEPT ![j] = @ + 1]
          /\ checkpoint[j] = None
          /\ \E cp \in Windows(copy[w].since) : checkpoint' = [checkpoint EXCEPT ![j] = cp]
          /\ Proceed(w, copy[w], "process")
          /\ UNCHANGED record
       \/ \* no ownership, no answer, or no file: readFailure
          /\ gets' \in {gets, [gets EXCEPT ![j] = @ + 1]}
          /\ Write(w, copy[w])
          /\ Leave(w)
          /\ UNCHANGED checkpoint
    /\ UNCHANGED <<approval, daves, cursor, world, faults, arrived, elsewhere, raced>>

\* Not exactly the messages behind since, or more than one of them.
Unsafe(r, cp) == cp.lo # r.since \/ cp.last > cp.lo + 1

\* validateResult: the exact signed answer of the target to this request.
Valid(j, seq) == room[seq] = j

\* The acknowledgement comes first.
MutSaveLink(w, r, l) == Proceed(w, r, l) /\ UNCHANGED record

\* The linkage is durable before the cursor moves.
SaveLink(w, r, l) == Write(w, r) /\ Proceed(w, r, l)

Process(w) ==
    LET j == at[w]
        cp == checkpoint[j]
        refused == [copy[w] EXCEPT !.state = "INVALID_RESPONSE"] IN
    /\ pc[w] = "process"
    /\ \/ /\ cp.cursor # copy[w].since    \* validateCheckpoint throws
          /\ Leave(w)
          /\ UNCHANGED record
       \/ /\ cp.cursor = copy[w].since /\ cp.lo = cp.last
          /\ Write(w, IF Unsafe(copy[w], cp) THEN refused ELSE copy[w])
          /\ Leave(w)
       \/ /\ cp.cursor = copy[w].since /\ cp.lo < cp.last
          /\ IF ~Unsafe(copy[w], cp) /\ Valid(j, cp.last)
             THEN SaveLink(w, [copy[w] EXCEPT !.state = "RESPONSE_RECEIVED", !.link = cp.last,
                                              !.verified = TRUE], "link")
             ELSE SaveLink(w, [refused EXCEPT !.link = cp.last], "ack")
    /\ UNCHANGED <<approval, checkpoint, daves, cursor, world, faults, history>>

Link(w) ==
    LET r == [copy[w] EXCEPT !.state = "REVIEW_PENDING"] IN
    /\ pc[w] = "link"
    /\ SaveLink(w, r, "ack")
    /\ UNCHANGED <<approval, checkpoint, daves, cursor, world, faults, history>>

\* acknowledge insists on the cursor of the read; a repeated one also accepts a
\* cursor that has passed the response.
Acknowledge(w) ==
    /\ pc[w] \in {"ack", "reack"}
    /\ \/ /\ cursor = copy[w].since
          /\ cursor' = Later(cursor, copy[w].link)
          /\ Proceed(w, [copy[w] EXCEPT !.acked = TRUE], "acked")
       \/ /\ pc[w] = "reack"
          /\ cursor # copy[w].since /\ cursor >= copy[w].link
          /\ Proceed(w, [copy[w] EXCEPT !.acked = TRUE], "acked")
          /\ UNCHANGED cursor
       \/ /\ cursor # copy[w].since
          /\ pc[w] = "ack" \/ cursor < copy[w].link
          /\ Leave(w)
          /\ UNCHANGED cursor
    /\ UNCHANGED <<record, approval, checkpoint, daves, world, faults, history>>

WriteAcked(w) ==
    /\ pc[w] = "acked"
    /\ Write(w, copy[w])
    /\ Leave(w)
    /\ UNCHANGED <<approval, checkpoint, daves, cursor, world, faults, history>>

\* A timeout that forgets what may still be answered.
MutOverdueJob(j) == j \in late /\ record[j].state \notin {"PREPARED", "AUTHORIZED", "SENDING"}

OverdueJob(j) ==
    j \in late /\ record[j].state = "AWAITING_RESPONSE" /\ record[j].reads = 1

Timeout(w, j) ==
    /\ OverdueJob(j)
    /\ Enter(w, j, [record[j] EXCEPT !.state = "NO_RESPONSE"], "timeout")
    /\ UNCHANGED <<files, world, faults, arrived, gets, elsewhere>>

WriteTimeout(w) ==
    /\ pc[w] = "timeout"
    /\ Write(w, copy[w])
    /\ Leave(w)
    /\ UNCHANGED <<approval, checkpoint, daves, cursor, world, faults, history>>

-----------------------------------------------------------------------------
(* review *)

\* The response is verified again.
Review(w, j) ==
    /\ record[j].state = "REVIEW_PENDING" /\ record[j].verified
    /\ Valid(j, checkpoint[j].last)
    /\ Enter(w, j, record[j], "review")
    /\ UNCHANGED <<files, world, faults, arrived, gets, elsewhere>>

\* The task's name is on record before it runs; completed evidence is used again.
StartReview(w) ==
    /\ pc[w] = "review"
    /\ Write(w, copy[w])
    /\ Proceed(w, copy[w], IF review[at[w]] \in Outcomes THEN "verdict" ELSE "start")
    /\ UNCHANGED <<approval, checkpoint, daves, cursor, world, faults, history>>

Set(j, t) == [review EXCEPT ![j] = t]

\* A recovery that takes every interrupted task for one that had no effect.
MutRecovered ==
    [j \in Jobs |-> IF review[j] \in {"running", "intended"} THEN "pending" ELSE review[j]]

\* recoverInterruptedTasks: due again before the intent, at its end (ambiguous) behind it.
Recovered ==
    [j \in Jobs |-> IF review[j] = "running" THEN "pending"
                    ELSE IF review[j] = "intended" THEN "failed" ELSE review[j]]

\* The runtime is closed, whatever happened, and the operation throws.
CloseDave(w) == dave' = None /\ Leave(w)

\* AgentRuntime.start.  Another runtime of Dave's may have his lock, here or elsewhere,
\* the passphrase may be wrong, a file may fail: a later review starts again.
StartDave(w) ==
    /\ pc[w] = "start"
    /\ \/ /\ dave = None
          /\ dave' = w
          /\ review' = Recovered
          /\ Proceed(w, copy[w], "dave")
       \/ /\ review' \in {review} \cup {r \in {Recovered} : dave = None}
          /\ Leave(w)
          /\ UNCHANGED dave
    /\ UNCHANGED <<record, approval, checkpoint, inferred, cursor, world, faults, history>>

\* The task is queued unless it exists, and claimed if it is pending: one that was
\* interrupted before its intent runs again, one at its end does not.
ClaimReview(w) ==
    LET j == at[w]
        task == IF review[j] = "none" THEN "pending" ELSE review[j] IN
    /\ pc[w] = "dave"
    /\ \/ /\ task = "pending"
          /\ review' = Set(j, "running")
          /\ Proceed(w, copy[w], "claimed")
          /\ UNCHANGED <<dave, faults>>
       \/ task # "pending" /\ CloseDave(w) /\ UNCHANGED <<review, faults>>
       \/ Fault /\ CloseDave(w) /\ review' \in {review, Set(j, task)}
    /\ UNCHANGED <<record, approval, checkpoint, inferred, cursor, world, history>>

\* The intent, then the inference.  What throws before it fails the task, or leaves it
\* running when that cannot be written either.
InferReview(w) ==
    LET j == at[w] IN
    /\ pc[w] = "claimed"
    /\ \/ /\ review' = Set(j, "intended")
          /\ inferred' = [inferred EXCEPT ![j] = @ + 1]
          /\ Proceed(w, copy[w], "infer")
          /\ UNCHANGED <<dave, faults>>
       \/ /\ \/ review' = Set(j, "failed") /\ UNCHANGED faults
             \/ Fault /\ UNCHANGED review
          /\ CloseDave(w)
          /\ UNCHANGED inferred
    /\ UNCHANGED <<record, approval, checkpoint, cursor, world, history>>

\* The one attempt succeeds, or fails or is ambiguous, or its end cannot be written.
FinishReview(w) ==
    LET j == at[w] IN
    /\ pc[w] = "infer"
    /\ \/ /\ \E o \in Outcomes : review' = Set(j, o)
          /\ dave' = None
          /\ Proceed(w, copy[w], "verdict")
          /\ UNCHANGED faults
       \/ /\ \/ review' = Set(j, "failed") /\ UNCHANGED faults
             \/ Fault /\ UNCHANGED review
          /\ CloseDave(w)
    /\ UNCHANGED <<record, approval, checkpoint, inferred, cursor, world, history>>

Verdict(o) ==
    CASE o = "VOUCH" -> "SUCCESS"
      [] o = "REJECT" -> "REJECTED_RESULT"
      [] OTHER -> "REVISION_REQUIRED"

WriteVerdict(w) ==
    LET o == review[at[w]] IN
    /\ pc[w] = "verdict"
    /\ Write(w, [copy[w] EXCEPT !.outcome = o, !.state = Verdict(o)])
    /\ Leave(w)
    /\ UNCHANGED <<approval, checkpoint, daves, cursor, world, faults, history>>

-----------------------------------------------------------------------------
(* Failures and the environment *)

\* A local step outside send throws: the operation ends with nothing written.
StepThrows(w) ==
    /\ pc[w] \in {"authorize", "conclude", "observe", "process", "link", "ack", "reack", "acked",
                  "timeout", "review", "verdict"}
    /\ Fault
    /\ Leave(w)
    /\ UNCHANGED <<files, world, history>>

\* The process dies; its lock file stays, and the next one takes its place.
Die(w) ==
    /\ pc[w] # "idle"
    /\ Fault
    /\ pc' = [pc EXCEPT ![w] = "idle"]
    /\ at' = [at EXCEPT ![w] = None]
    /\ copy' = [copy EXCEPT ![w] = None]
    /\ lock' = [j \in Jobs |-> IF lock[j] = w THEN Orphan ELSE lock[j]]
    /\ dave' = IF dave = w THEN None ELSE dave
    /\ UNCHANGED <<record, approval, checkpoint, review, inferred, cursor, world, history>>

\* Another process runs Dave: it recovers his tasks, and may run a pending review.
DaveElsewhere ==
    /\ dave = None
    /\ \/ review' = Recovered /\ UNCHANGED inferred
       \/ \E j \in Jobs :
             /\ Recovered[j] = "pending"
             /\ \/ /\ \E t \in {"running", "failed"} : review' = [Recovered EXCEPT ![j] = t]
                   /\ UNCHANGED inferred
                \/ /\ \E t \in Outcomes \cup {"intended", "failed"} :
                         review' = [Recovered EXCEPT ![j] = t]
                   /\ inferred' = [inferred EXCEPT ![j] = @ + 1]
    /\ UNCHANGED <<record, approval, checkpoint, dave, cursor, lock, local, world, faults, history>>

Accept(j) ==
    /\ wire[j] = "request"
    /\ arrived' = [arrived EXCEPT ![j] = @ + 1]
    /\ \E answer \in {"posted", "lost"} : wire' = [wire EXCEPT ![j] = answer]
    /\ UNCHANGED <<files, lock, local, room, dropped, late, faults, gets, elsewhere, raced>>

Refuse(j) ==
    /\ wire[j] = "request"
    /\ \E answer \in {"refused", "lost"} : wire' = [wire EXCEPT ![j] = answer]
    /\ UNCHANGED <<files, lock, local, room, dropped, late, faults, history>>

\* The peer answers a request it has; anything else may come at any time.
PeerPosts ==
    /\ Len(room) < MaxMessages
    /\ \E m \in {j \in Jobs : arrived[j] > 0} \cup {"junk"} : room' = Append(room, m)
    /\ UNCHANGED <<files, lock, local, wire, dropped, late, faults, history>>

Drop ==
    /\ dropped < Len(room)
    /\ dropped' = dropped + 1
    /\ UNCHANGED <<files, lock, local, wire, room, late, faults, history>>

DeadlinePasses(j) ==
    /\ record[j] # None
    /\ late' = late \cup {j}
    /\ UNCHANGED <<files, lock, local, wire, room, dropped, faults, history>>

\* inbox:read of the same mailbox.
ReadElsewhere ==
    /\ cursor < Len(room)
    /\ cursor' = Len(room)
    /\ elsewhere' = Len(room)
    /\ UNCHANGED <<record, approval, checkpoint, daves, lock, local, world, faults,
                   arrived, gets, raced>>

Operation(w, j) ==
    \/ Prepare(w, j)
    \/ /\ record[j] # None
       /\ \/ Authorize(w, j) \/ Send(w, j) \/ Receive(w, j)
          \/ Timeout(w, j) \/ Review(w, j)

Step(w) ==
    \/ Create(w) \/ WriteAuthorized(w)
    \/ SendRefused(w) \/ Consume(w) \/ ReserveThrows(w) \/ Dispatch(w) \/ Answered(w)
    \/ TimedOut(w) \/ Confirm(w) \/ WriteSent(w) \/ Conclude(w)
    \/ Observe(w) \/ Read(w) \/ Process(w) \/ Link(w) \/ Acknowledge(w) \/ WriteAcked(w)
    \/ WriteTimeout(w)
    \/ StartReview(w) \/ StartDave(w) \/ ClaimReview(w) \/ InferReview(w) \/ FinishReview(w)
    \/ WriteVerdict(w)
    \/ StepThrows(w) \/ Die(w)

Next ==
    \/ \E w \in Workers : Step(w) \/ \E j \in Jobs : Operation(w, j)
    \/ \E j \in Jobs : Accept(j) \/ Refuse(j) \/ DeadlinePasses(j)
    \/ PeerPosts \/ Drop \/ ReadElsewhere \/ DaveElsewhere

Spec == Init /\ [][Next]_vars

-----------------------------------------------------------------------------

\* No request reaches the peer twice, also when locks of live holders are taken.
\* As long as none was, what is on record about a job is true of the service, now
\* and later: a refused delivery never arrives, and a job that waits for or has an
\* answer had its request accepted.
VerdictsAreTrue ==
    \A j \in Jobs :
        /\ arrived[j] <= 1
        /\ record[j] # None /\ ~raced =>
              /\ record[j].state = "DELIVERY_REJECTED" => arrived[j] = 0 /\ wire[j] # "request"
              /\ record[j].state \in {"PREPARED", "AUTHORIZED"} => arrived[j] = 0
              /\ record[j].receipt => arrived[j] = 1

\* A message the cursor has passed was read by somebody else or is covered by
\* the durable linkage of some job, so no answer is lost between the room and
\* the records, whatever dies where.
NothingSkipped ==
    ~raced =>
        \A i \in 1 .. cursor :
            \/ i <= elsewhere
            \/ \E j \in Jobs : record[j] # None /\ (i <= record[j].since \/ i <= record[j].link)

\* A job that has a response, or a verdict on one, has the retained answer of
\* its own peer, alone in its window; success and rejection are what Dave's review
\* said, who is asked at most once about a job, however often reviews are interrupted,
\* refused or started again.
ResponseIsBacked ==
    /\ TypeOK
    /\ \A j \in Jobs : record[j] # None =>
        /\ record[j].verified =>
              /\ gets[j] > 0 /\ arrived[j] = 1
              /\ checkpoint[j] = [cursor |-> record[j].since, lo |-> record[j].since,
                                    last |-> record[j].since + 1]
              /\ room[record[j].since + 1] = j
        /\ record[j].state = "SUCCESS" => review[j] = "VOUCH"
        /\ record[j].state = "REJECTED_RESULT" => review[j] = "REJECT"
        /\ inferred[j] <= 1

\* No late answer, repeated operation or restart reopens a terminal job, unless
\* the lock of a live holder was taken.
TerminalStays ==
    [][ \A j \in Jobs :
            record[j] # None /\ record[j].state \in Terminal /\ ~raced'
                => record'[j].state = record[j].state ]_vars

\* Every step is one of OneExchange or none of its business (one request, one
\* read behind it) whatever dies or fails, until the lock of a live holder is
\* taken: the slow holder's last write can then undo the record of the read.
Exchange == INSTANCE OneExchange WITH
    permitted <- {j \in Jobs : approval[j] \notin {"none", "requested"}},
    accepted <- arrived, observed <- gets

ImplementsOneExchange == Exchange!Init /\ [][Exchange!Next \/ raced']_(Exchange!vars)

\* "SENDING -> DELIVERY_REJECTED": every record that is written can be read again,
\* as validateStored has it.
StoredIsReadable == \A j \in Jobs : record[j] # None => Readable(record[j])

=============================================================================
