---------------------------- MODULE AgentRuntime ----------------------------
(***************************************************************************)
(* AgentRuntime (agent/runtime.ts) over AgentStateStore                    *)
(* (agent/state-store.ts): the task queue of one agent, its checkpoints,   *)
(* and what a restart makes of them.                                       *)
(*                                                                         *)
(* One process at a time has the runtime lock (see RuntimeLock).  It runs  *)
(* one task at a time and may die between any two steps; every update of   *)
(* state.json is one step (see FileLock) or throws with no effect.  The    *)
(* approval record of a send and its delivery are ApprovedEffect's, which  *)
(* SignedSend implements.  Timestamps, sessions and the status line of the *)
(* runtime, which no code reads back, are left out.                        *)
(***************************************************************************)
EXTENDS Naturals, Sequences

CONSTANTS
    Tasks,
    Kind,         \* "send", "infer" (inference and workloads) or "local"
    MaxAttempts,  \* each task's own retry bound
    NoTask,
    MaxFaults,    \* bound on updates, appends and memory writes that throw
    MaxStops      \* bound on deaths and on requested stops

Kinds == {"send", "infer", "local"}

ASSUME AgentRuntimeAssumption ==
    /\ Kind \in [Tasks -> Kinds]
    /\ MaxAttempts \in [Tasks -> Nat \ {0}]
    /\ NoTask \notin Tasks
    /\ MaxFaults \in Nat
    /\ MaxStops \in Nat

VARIABLES
    status,     \* state.json: status of each task
    possible,   \* state.json: externalEffect of its last checkpoint is not "none"
    attempts,   \* state.json: claims of each task
    queue,      \* state.json: tasks in the order of their creation
    active,     \* state.json: runtime.activeTaskId
    record,     \* approval record of each send
    stored,     \* memory.json: the result of each task has been put
    pc,         \* the runtime: where runOnce is, "down" when no process has the lock
    cur,        \* the runtime: the task runOnce has claimed
    sent,       \* has the request of each send left the process?
    effects,    \* messages accepted, or inferences spent, for each task
    faults, stops

stateVars == <<status, possible, attempts, queue, active>>
processVars == <<pc, cur>>
boundVars == <<faults, stops>>
vars == <<stateVars, record, stored, processVars, sent, effects, boundVars>>

Settled == {"succeeded", "failed", "ambiguous"}
Statuses == {"absent", "pending", "running", "awaiting"} \cup Settled
Records == {"none", "requested", "approved", "executing", "confirmed", "ambiguous", "failed"}

\* Where the runtime is while a claimed task is running.
Working == {"execute", "call", "sending", "sent", "store", "confirm", "finish",
            "wait", "retry", "ambiguous", "fail"}
Locations == {"down", "recover", "idle", "closing"} \cup Working

TypeOK ==
    /\ status \in [Tasks -> Statuses]
    /\ possible \in [Tasks -> BOOLEAN]
    /\ attempts \in [Tasks -> Nat]
    /\ queue \in Seq(Tasks)
    /\ active \in Tasks \cup {NoTask}
    /\ record \in [Tasks -> Records]
    /\ \A t \in Tasks : record[t] # "none" => Kind[t] = "send"
    /\ stored \in [Tasks -> BOOLEAN]
    /\ pc \in Locations
    /\ cur \in Tasks \cup {NoTask}
    /\ sent \in [Tasks -> BOOLEAN]
    /\ effects \in [Tasks -> Nat]
    /\ faults \in 0 .. MaxFaults
    /\ stops \in 0 .. MaxStops

Init ==
    /\ status = [t \in Tasks |-> "absent"]
    /\ possible = [t \in Tasks |-> FALSE]
    /\ attempts = [t \in Tasks |-> 0]
    /\ queue = <<>>
    /\ active = NoTask
    /\ record = [t \in Tasks |-> "none"]
    /\ stored = [t \in Tasks |-> FALSE]
    /\ pc = "down"
    /\ cur = NoTask
    /\ sent = [t \in Tasks |-> FALSE]
    /\ effects = [t \in Tasks |-> 0]
    /\ faults = 0
    /\ stops = 0

-----------------------------------------------------------------------------
(* The operator and other callers in the same process *)

\* enqueueTask: a repeated idempotency key changes nothing.
Enqueue(t) ==
    /\ status[t] = "absent"
    /\ status' = [status EXCEPT ![t] = "pending"]
    /\ queue' = Append(queue, t)
    /\ UNCHANGED <<possible, attempts, active, record, stored, processVars, sent,
                   effects, boundVars>>

\* requestOutboundApproval on behalf of the operator.
RequestApproval(t) ==
    /\ Kind[t] = "send"
    /\ status[t] # "absent"
    /\ record[t] = "none"
    /\ record' = [record EXCEPT ![t] = "requested"]
    /\ UNCHANGED <<stateVars, stored, processVars, sent, effects, boundVars>>

\* The grant of approveOutboundTask, or the command line's action:approve.
Grant(t) ==
    /\ record[t] = "requested"
    /\ record' = [record EXCEPT ![t] = "approved"]
    /\ UNCHANGED <<stateVars, stored, processVars, sent, effects, boundVars>>

\* A resume that does not look at the task's status.
MutResume(t) ==
    /\ pc # "down"
    /\ record[t] \notin {"none", "requested"}
    /\ status' = [status EXCEPT ![t] = "pending"]
    /\ UNCHANGED <<possible, attempts, queue, active, record, stored, processVars,
                   sent, effects, boundVars>>

\* resumeAfterApproval, the last step of approveOutboundTask: by then the runtime
\* may have claimed the task, which makes it throw.
Resume(t) ==
    /\ pc # "down"
    /\ record[t] \notin {"none", "requested"}
    /\ status[t] \in {"pending", "awaiting"}
    /\ status' = [status EXCEPT ![t] = "pending"]
    /\ UNCHANGED <<possible, attempts, queue, active, record, stored, processVars,
                   sent, effects, boundVars>>

-----------------------------------------------------------------------------
(* Start, stop and death of the process *)

Start ==
    /\ pc = "down"
    /\ pc' = "recover"
    /\ UNCHANGED <<stateVars, record, stored, cur, sent, effects, boundVars>>

\* A recovery that takes every interrupted task back into the queue.
MutRecovered(t) == IF status[t] = "running" THEN "pending" ELSE status[t]

\* A start that leaves interrupted tasks as it finds them.
MutNotRecovered(t) == status[t]

\* What recoverInterruptedTasks makes of a task.
Recovered(t) ==
    IF status[t] # "running" THEN status[t]
    ELSE IF possible[t] THEN "ambiguous" ELSE "pending"

Recover ==
    /\ pc = "recover"
    /\ status' = [t \in Tasks |-> Recovered(t)]
    /\ active' = NoTask
    /\ pc' = "idle"
    /\ UNCHANGED <<possible, attempts, queue, record, stored, cur, sent, effects, boundVars>>

\* A failed start releases the lock.
RecoverThrows ==
    /\ pc = "recover"
    /\ faults < MaxFaults
    /\ faults' = faults + 1
    /\ pc' = "down"
    /\ UNCHANGED <<stateVars, record, stored, cur, sent, effects, stops>>

\* requestStop is looked at between two runs.
Stop ==
    /\ pc = "idle"
    /\ stops < MaxStops
    /\ stops' = stops + 1
    /\ pc' = "closing"
    /\ UNCHANGED <<stateVars, record, stored, cur, sent, effects, faults>>

\* close: endSession clears the active task; the lock is released even if it throws.
Close ==
    /\ pc = "closing"
    /\ pc' = "down"
    /\ cur' = NoTask
    /\ \/ active' = NoTask /\ UNCHANGED faults
       \/ faults < MaxFaults /\ faults' = faults + 1 /\ UNCHANGED active
    /\ UNCHANGED <<status, possible, attempts, queue, record, stored, sent, effects, stops>>

Die ==
    /\ pc # "down"
    /\ stops < MaxStops
    /\ stops' = stops + 1
    /\ pc' = "down"
    /\ cur' = NoTask
    /\ UNCHANGED <<stateVars, record, stored, sent, effects, faults>>

-----------------------------------------------------------------------------
(* runOnce: the claim *)

Claim(t) ==
    /\ pc = "idle"
    /\ status[t] = "pending"
    /\ status' = [status EXCEPT ![t] = "running"]
    /\ attempts' = [attempts EXCEPT ![t] = @ + 1]
    /\ possible' = [possible EXCEPT ![t] = FALSE]
    /\ active' = t
    /\ cur' = t
    /\ pc' = "execute"
    /\ UNCHANGED <<queue, record, stored, sent, effects, boundVars>>

\* claimNextTask without an argument.
ClaimNext ==
    \E i \in DOMAIN queue :
        /\ \A j \in 1 .. i - 1 : status[queue[j]] # "pending"
        /\ Claim(queue[i])

-----------------------------------------------------------------------------
(* Updates of the claimed task *)

\* checkpointTask with a possible or confirmed effect.
Checkpoint(l) ==
    /\ possible' = [possible EXCEPT ![cur] = TRUE]
    /\ pc' = l
    /\ UNCHANGED <<status, attempts, queue, active, cur>>

\* The task leaves the running state, and the runtime goes to l.
Leave(s, effect, l) ==
    /\ status' = [status EXCEPT ![cur] = s]
    /\ possible' = [possible EXCEPT ![cur] = effect]
    /\ active' = NoTask
    /\ cur' = NoTask
    /\ pc' = l
    /\ UNCHANGED <<attempts, queue>>

FinishTask(l) ==
    \/ pc = "finish" /\ Leave("succeeded", TRUE, l)
    \/ pc = "ambiguous" /\ Leave("ambiguous", TRUE, l)
    \/ pc = "fail" /\ Leave("failed", FALSE, l)

WaitForApproval(l) == pc = "wait" /\ Leave("awaiting", FALSE, l)

RetryTask(l) == pc = "retry" /\ Leave("pending", FALSE, l)

\* An update or another local step throws; nothing was written.
Throws(l) ==
    /\ faults < MaxFaults
    /\ faults' = faults + 1
    /\ pc' = l
    /\ UNCHANGED <<stateVars, cur>>

-----------------------------------------------------------------------------
(* executeTask *)

\* memory.put or inbound.message; put is idempotent.
ExecuteLocal ==
    /\ pc = "execute" /\ Kind[cur] = "local"
    /\ stored' = [stored EXCEPT ![cur] = TRUE]
    /\ pc' = "finish"
    /\ UNCHANGED <<stateVars, record, cur, sent, effects, boundVars>>

\* A call of the provider with no intent on disk.
MutIntendInference ==
    /\ pc = "execute" /\ Kind[cur] = "infer"
    /\ pc' = "call"
    /\ UNCHANGED <<stateVars, record, stored, cur, sent, effects, boundVars>>

\* Invalid input fails the task; otherwise the intent is checkpointed first.
IntendInference ==
    /\ pc = "execute" /\ Kind[cur] = "infer"
    /\ \/ Checkpoint("call")
       \/ pc' = "fail" /\ UNCHANGED <<stateVars, cur>>
    /\ UNCHANGED <<record, stored, sent, effects, boundVars>>

\* requireOutboundApproval proposes, and then looks at the record it got.
CheckApproval ==
    /\ pc = "execute" /\ Kind[cur] = "send"
    /\ record' = [record EXCEPT ![cur] = IF @ = "none" THEN "requested" ELSE @]
    /\ \/ /\ record[cur] \in {"none", "requested"}
          /\ pc' = "wait"
          /\ UNCHANGED <<stateVars, cur>>
       \/ /\ record[cur] = "approved"
          /\ Checkpoint("call")
       \/ /\ record[cur] \notin {"none", "requested", "approved"}
          /\ pc' = "fail"
          /\ UNCHANGED <<stateVars, cur>>
    /\ UNCHANGED <<stored, sent, effects, boundVars>>

\* The provider answers.  Only an answer that says so is without effect, and only
\* one that says it is safe is asked again, within the task's bound.
MayRetry == attempts[cur] < MaxAttempts[cur]

Infer ==
    /\ pc = "call" /\ Kind[cur] = "infer"
    /\ \/ \* a result, which executeWorkload may still find invalid
          /\ pc' \in {"store", "fail", "ambiguous"}
          /\ effects' = [effects EXCEPT ![cur] = @ + 1]
       \/ \* an unknown outcome, or a failure
          /\ pc' \in {"ambiguous", "fail"}
          /\ UNCHANGED effects
       \/ /\ MayRetry
          /\ pc' = "retry"
          /\ UNCHANGED effects
    /\ UNCHANGED <<stateVars, record, stored, cur, sent, boundVars>>

\* consume in sendSigned: spent, but the call may throw all the same.
ConsumeApproval ==
    /\ pc = "call" /\ Kind[cur] = "send"
    /\ \/ /\ record[cur] = "approved"
          /\ record' = [record EXCEPT ![cur] = "executing"]
          /\ pc' \in {"sending", "fail"}
       \/ pc' = "fail" /\ UNCHANGED record
    /\ UNCHANGED <<stateVars, stored, cur, sent, effects, boundVars>>

Dispatch ==
    /\ pc = "sending"
    /\ sent' = [sent EXCEPT ![cur] = TRUE]
    /\ pc' = "sent"
    /\ UNCHANGED <<stateVars, record, stored, cur, effects, boundVars>>

\* The service accepts a message that is on its way, also after the runtime has
\* given up on it or died.
Deliver(t) ==
    /\ sent[t]
    /\ effects[t] = 0
    /\ record[t] \in {"executing", "ambiguous"}
    /\ effects' = [effects EXCEPT ![t] = 1]
    /\ UNCHANGED <<stateVars, record, stored, processVars, sent, boundVars>>

\* The verdict of sendSigned, which may not reach the approval record.
Verdict(v) == record' \in {record, [record EXCEPT ![cur] = v]}

\* Nothing left the process: the reservation or the signature threw.
SendFails ==
    /\ pc = "sending"
    /\ Verdict("failed")
    /\ pc' = "fail"
    /\ UNCHANGED <<stateVars, stored, cur, sent, effects, boundVars>>

\* A local error of the runtime's own taken for a refusal by the service.
MutSendReturns ==
    /\ pc = "sent"
    /\ \/ /\ effects[cur] = 1
          /\ record' = [record EXCEPT ![cur] = "confirmed"]
          /\ pc' = "confirm"
          /\ UNCHANGED sent
       \/ /\ pc' = "fail"
          /\ record' = [record EXCEPT ![cur] = "failed"]
          /\ UNCHANGED sent
    /\ UNCHANGED <<stateVars, stored, cur, effects, boundVars>>

SendReturns ==
    /\ pc = "sent"
    /\ \/ /\ effects[cur] = 1    \* accepted, and so recorded
          /\ record' = [record EXCEPT ![cur] = "confirmed"]
          /\ pc' = "confirm"
          /\ UNCHANGED sent
       \/ /\ effects[cur] = 0    \* refused: the request will not come again
          /\ Verdict("failed")
          /\ sent' = [sent EXCEPT ![cur] = FALSE]
          /\ pc' = "fail"
       \/ /\ \/ Verdict("ambiguous")
             \/ effects[cur] = 1 /\ Verdict("confirmed")
          /\ pc' = "ambiguous"
          /\ UNCHANGED sent
    /\ UNCHANGED <<stateVars, stored, cur, effects, boundVars>>

\* A result referred to before it is in memory.
MutStoreResult ==
    /\ pc = "store"
    /\ pc' = "confirm"
    /\ UNCHANGED <<stateVars, record, stored, cur, sent, effects, boundVars>>

StoreResult ==
    /\ pc = "store"
    /\ stored' = [stored EXCEPT ![cur] = TRUE]
    /\ pc' = "confirm"
    /\ UNCHANGED <<stateVars, record, cur, sent, effects, boundVars>>

ConfirmEffect ==
    /\ pc = "confirm"
    /\ Checkpoint("finish")
    /\ UNCHANGED <<record, stored, sent, effects, boundVars>>

\* The last update of a task's run, and its journal entry.
Conclude ==
    /\ FinishTask("idle") \/ WaitForApproval("idle") \/ RetryTask("idle")
    /\ UNCHANGED <<record, stored, sent, effects, boundVars>>

\* The journal append throws.  So does the finishTask of the catch block, as the
\* task is no longer running: runOnce ends with an error and the runtime closes.
ConcludeUnjournaled ==
    /\ FinishTask("closing") \/ WaitForApproval("closing") \/ RetryTask("closing")
    /\ faults < MaxFaults
    /\ faults' = faults + 1
    /\ UNCHANGED <<record, stored, sent, effects, stops>>

\* A local step throws.  The catch block of runOnce takes every error for a
\* failure, and an error of its own update ends the run.
StepThrows ==
    /\ \/ /\ pc \in {"execute", "store", "confirm", "finish", "retry", "ambiguous"}
          /\ Throws("fail")
       \/ /\ pc \in {"fail", "wait"}
          /\ Throws("closing")
       \/ /\ pc = "call" /\ Kind[cur] = "send"    \* the journal of the intent
          /\ Throws("fail")
    /\ UNCHANGED <<record, stored, sent, effects, stops>>

RuntimeStep ==
    \/ Recover \/ Close \/ ClaimNext
    \/ ExecuteLocal \/ IntendInference \/ CheckApproval \/ Infer
    \/ ConsumeApproval \/ Dispatch \/ SendFails \/ SendReturns
    \/ StoreResult \/ ConfirmEffect \/ Conclude

Next ==
    \/ \E t \in Tasks :
          \/ Enqueue(t) \/ RequestApproval(t) \/ Grant(t) \/ Resume(t)
          \/ Claim(t)    \* runOnce(expectedTaskId)
          \/ Deliver(t)
    \/ Start \/ Stop \/ Die
    \/ RuntimeStep \/ RecoverThrows \/ ConcludeUnjournaled \/ StepThrows

\* run() keeps calling runOnce, and the operator restarts a runtime that is down.
Fairness == WF_vars(RuntimeStep) /\ WF_vars(Start)

Spec == Init /\ [][Next]_vars
FairSpec == Spec /\ Fairness

-----------------------------------------------------------------------------

\* No task's message is sent, and no task's inference spent, a second time,
\* whatever dies and restarts in between.
AtMostOneEffect == \A t \in Tasks : effects[t] <= 1

\* A task that the runtime may execute again has left nothing that could have
\* happened, or could still happen, outside.
ReplayableIsUntouched ==
    \A t \in Tasks :
        status[t] \in {"pending", "awaiting"} => effects[t] = 0 /\ ~sent[t]

\* While the runtime is free to claim, no task is left behind as running.
NoTaskLeftRunning ==
    pc = "idle" => active = NoTask /\ \A t \in Tasks : status[t] # "running"

\* A success is backed by its evidence: the effect happened once, its approval
\* record says so, and a result that is referred to is in memory.
SuccessIsBacked ==
    \A t \in Tasks :
        status[t] = "succeeded" =>
            /\ Kind[t] = "send" => effects[t] = 1 /\ record[t] = "confirmed"
            /\ Kind[t] = "infer" => effects[t] = 1 /\ stored[t]
            /\ Kind[t] = "local" => stored[t]

\* THREAT-MODEL.md: "Possible post-intent effects become `ambiguous`": a send
\* that the state calls failed has not reached, and will not reach, the service.
FailedSendHadNoEffect ==
    \A t \in Tasks : Kind[t] = "send" /\ status[t] = "failed" => effects[t] = 0

\* It holds, across deaths and restarts, as long as no local step has thrown.
FailedSendUnlessFault == faults = 0 => FailedSendHadNoEffect

\* A settled task is never taken up again, by recovery, by resume or by retry.
SettledStays ==
    [][\A t \in Tasks : status[t] \in Settled => status'[t] = status[t]]_vars

\* Tasks do not starve behind retries, waiting sends or restarts.
QueueDrains ==
    \A t \in Tasks : status[t] = "pending" ~> status[t] \in Settled \cup {"awaiting"}

=============================================================================
