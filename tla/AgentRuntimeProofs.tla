------------------------- MODULE AgentRuntimeProofs -------------------------
(***************************************************************************)
(* Proofs about AgentRuntime for every set of tasks, every retry bound and *)
(* any number of deaths, stops and failing steps.                          *)
(*                                                                         *)
(* The argument is that of an intent log: the checkpoint of the running    *)
(* task says "possible" before anything can leave the process, and it says *)
(* "none" again only when the task has settled or has had no effect.  So a *)
(* task that recovery, resume or retry returns to the queue is untouched.  *)
(***************************************************************************)
EXTENDS AgentRuntime, TLAPS

\* The claimed task is the one that the state calls running.
CurrentRuns == pc \in Working => cur \in Tasks /\ status[cur] = "running"

\* No other task is, once recovery has run.
OneRuns ==
    \A t \in Tasks :
        status[t] = "running" =>
            pc \in {"down", "recover", "closing"} \/ (pc \in Working /\ t = cur)

ActiveIsCleared == pc = "idle" => active = NoTask

SendsOnly == pc \in {"sending", "sent", "wait"} => Kind[cur] = "send"

\* The intent is on disk wherever an effect can still begin.
IntentLogged ==
    /\ pc = "execute" => ~possible[cur]
    /\ pc \in {"call", "sending", "sent"} => possible[cur]

Untouched(t) == effects[t] = 0 /\ ~sent[t]

\* Nothing has left before the call, nor after an answer that allows a retry.
CurrentUntouched == pc \in {"execute", "wait", "call", "sending", "retry"} => Untouched(cur)

\* Without a logged intent an unsettled task is untouched.
Replayable(t) ==
    \/ status[t] \in {"absent", "pending", "awaiting"}
    \/ status[t] = "running" /\ ~possible[t]

UnloggedUntouched == \A t \in Tasks : Replayable(t) => Untouched(t)

IInv ==
    /\ TypeOK /\ CurrentRuns /\ OneRuns /\ ActiveIsCleared /\ SendsOnly
    /\ IntentLogged /\ CurrentUntouched /\ UnloggedUntouched /\ AtMostOneEffect

-----------------------------------------------------------------------------

\* The initial state satisfies the inductive invariant.
LEMMA Initial == Init => IInv
BY AgentRuntimeAssumption DEF Init, IInv, TypeOK, CurrentRuns, OneRuns, ActiveIsCleared, SendsOnly, IntentLogged,
    CurrentUntouched, UnloggedUntouched, Replayable, Untouched, AtMostOneEffect, Statuses, Records, Working, Locations, Settled

\* Every step preserves it: one case per action.
LEMMA Inductive == IInv /\ [Next]_vars => IInv'
<1> SUFFICES ASSUME IInv, [Next]_vars PROVE IInv'
  OBVIOUS
<1> USE AgentRuntimeAssumption DEF IInv, TypeOK, CurrentRuns, OneRuns, ActiveIsCleared, SendsOnly, IntentLogged,
    CurrentUntouched, UnloggedUntouched, Replayable, Untouched, AtMostOneEffect,
    vars, stateVars, processVars, boundVars, Kinds, Settled, Statuses, Records,
    Working, Locations
<1>1. ASSUME NEW t \in Tasks, Enqueue(t) PROVE IInv'
  BY <1>1 DEF Enqueue
<1>2. ASSUME NEW t \in Tasks, RequestApproval(t) PROVE IInv'
  BY <1>2 DEF RequestApproval
<1>3. ASSUME NEW t \in Tasks, Grant(t) PROVE IInv'
  BY <1>3 DEF Grant
<1>4. ASSUME NEW t \in Tasks, Resume(t) PROVE IInv'
  BY <1>4 DEF Resume
<1>5. ASSUME NEW t \in Tasks, Claim(t) PROVE IInv'
  BY <1>5 DEF Claim
<1>6. ASSUME NEW t \in Tasks, Deliver(t) PROVE IInv'
  BY <1>6 DEF Deliver
<1>7. CASE Start
  BY <1>7 DEF Start
<1>8. CASE Stop
  BY <1>8 DEF Stop
<1>9. CASE Die
  BY <1>9 DEF Die
<1>10. CASE Recover
  BY <1>10 DEF Recover, Recovered
<1>11. CASE Close
  BY <1>11 DEF Close
<1>12. CASE ClaimNext
  BY <1>12 DEF ClaimNext, Claim
<1>13. CASE ExecuteLocal
  BY <1>13 DEF ExecuteLocal
<1>14. CASE IntendInference
  BY <1>14 DEF IntendInference, Checkpoint
<1>15. CASE CheckApproval
  BY <1>15 DEF CheckApproval, Checkpoint
<1>16. CASE Infer
  <2>1. cur \in Tasks /\ effects[cur] = 0 /\ effects \in [Tasks -> Nat]
    BY <1>16 DEF Infer
  <2>2. \/ effects' = effects
        \/ effects' = [effects EXCEPT ![cur] = 1]
    BY <1>16, <2>1, 0 + 1 = 1 DEF Infer
  <2>3. /\ effects' \in [Tasks -> Nat]
        /\ \A t \in Tasks : effects'[t] <= 1
        /\ \A t \in Tasks \ {cur} : effects'[t] = effects[t]
    <3>1. CASE effects' = effects
      BY <2>1, <3>1
    <3>2. CASE effects' = [effects EXCEPT ![cur] = 1]
      BY <2>1, <3>2
    <3> QED
      BY <2>2, <3>1, <3>2
  <2>4. status[cur] = "running" /\ possible[cur]
    BY <1>16 DEF Infer
  <2>5. pc' = "retry" => effects' = effects
    BY <1>16 DEF Infer
  <2>6. pc' \in {"store", "fail", "ambiguous", "retry"}
    BY <1>16 DEF Infer
  <2>7. UNCHANGED <<stateVars, record, stored, cur, sent, boundVars>>
    BY <1>16 DEF Infer
  <2>8. pc = "call"
    BY <1>16 DEF Infer
  <2> QED
    BY <2>1, <2>2, <2>3, <2>4, <2>5, <2>6, <2>7, <2>8
<1>17. CASE ConsumeApproval
  BY <1>17 DEF ConsumeApproval
<1>18. CASE Dispatch
  BY <1>18 DEF Dispatch
<1>19. CASE SendFails
  BY <1>19 DEF SendFails, Verdict
<1>20. CASE SendReturns
  BY <1>20 DEF SendReturns, Verdict
<1>21. CASE StoreResult
  BY <1>21 DEF StoreResult
<1>22. CASE ConfirmEffect
  BY <1>22 DEF ConfirmEffect, Checkpoint
<1>23. CASE Conclude
  <2>1. UNCHANGED <<record, stored, sent, effects, boundVars>>
    BY <1>23 DEF Conclude
  <2>2. CASE pc = "finish" /\ Leave("succeeded", TRUE, "idle")
    BY <2>1, <2>2 DEF Leave
  <2>3. CASE pc = "ambiguous" /\ Leave("ambiguous", TRUE, "idle")
    BY <2>1, <2>3 DEF Leave
  <2>4. CASE pc = "fail" /\ Leave("failed", FALSE, "idle")
    BY <2>1, <2>4 DEF Leave
  <2>5. CASE WaitForApproval("idle")
    BY <2>1, <2>5 DEF WaitForApproval, Leave
  <2>6. CASE RetryTask("idle")
    BY <2>1, <2>6 DEF RetryTask, Leave
  <2> QED
    BY <1>23, <2>2, <2>3, <2>4, <2>5, <2>6 DEF Conclude, FinishTask
<1>24. CASE RecoverThrows
  BY <1>24 DEF RecoverThrows
<1>25. CASE ConcludeUnjournaled
  <2>1. /\ faults' \in 0 .. MaxFaults
        /\ UNCHANGED <<record, stored, sent, effects, stops>>
    BY <1>25 DEF ConcludeUnjournaled
  <2>2. CASE pc = "finish" /\ Leave("succeeded", TRUE, "closing")
    BY <2>1, <2>2 DEF Leave
  <2>3. CASE pc = "ambiguous" /\ Leave("ambiguous", TRUE, "closing")
    BY <2>1, <2>3 DEF Leave
  <2>4. CASE pc = "fail" /\ Leave("failed", FALSE, "closing")
    BY <2>1, <2>4 DEF Leave
  <2>5. CASE WaitForApproval("closing")
    BY <2>1, <2>5 DEF WaitForApproval, Leave
  <2>6. CASE RetryTask("closing")
    BY <2>1, <2>6 DEF RetryTask, Leave
  <2> QED
    BY <1>25, <2>2, <2>3, <2>4, <2>5, <2>6 DEF ConcludeUnjournaled, FinishTask
<1>26. CASE StepThrows
  BY <1>26 DEF StepThrows, Throws
<1>27. CASE UNCHANGED vars
  BY <1>27
<1> QED
  BY <1>1, <1>2, <1>3, <1>4, <1>5, <1>6, <1>7, <1>8, <1>9, <1>10, <1>11, <1>12, <1>13, <1>14, <1>15, <1>16, <1>17, <1>18, <1>19, <1>20, <1>21, <1>22, <1>23, <1>24, <1>25, <1>26, <1>27 DEF Next, RuntimeStep

\* The inductive invariant holds in every reachable state.
LEMMA Invariance == Spec => []IInv
BY Initial, Inductive, PTL DEF Spec

\* state.json, the runtime's program counter and the bounds keep their types, and
\* only sends have approval records.
THEOREM TypeCorrect == Spec => []TypeOK
<1>1. IInv => TypeOK
  BY DEF IInv
<1> QED
  BY <1>1, Invariance, PTL

\* No task is sent or inferred a second time, however often the process dies and
\* whatever recovery, resume and retry do in between.
THEOREM OneEffect == Spec => []AtMostOneEffect
<1>1. IInv => AtMostOneEffect
  BY DEF IInv
<1> QED
  BY <1>1, Invariance, PTL

\* What the runtime may execute again has left nothing behind outside.
THEOREM ReplayIsSafe == Spec => []ReplayableIsUntouched
<1>1. IInv => ReplayableIsUntouched
  BY DEF IInv, UnloggedUntouched, Replayable, Untouched, ReplayableIsUntouched
<1> QED
  BY <1>1, Invariance, PTL

\* A runtime that is free to claim has settled or requeued every earlier task.
THEOREM NothingLeftRunning == Spec => []NoTaskLeftRunning
<1>1. IInv => NoTaskLeftRunning
  BY DEF IInv, OneRuns, ActiveIsCleared, NoTaskLeftRunning, Working
<1> QED
  BY <1>1, Invariance, PTL

\* A settled task keeps its outcome: only a running or an unsettled task's status
\* is ever written.
THEOREM OutcomesAreFinal == Spec => SettledStays
<1>1. IInv /\ [Next]_vars => [\A t \in Tasks : status[t] \in Settled => status'[t] = status[t]]_vars
  <2> SUFFICES ASSUME IInv, Next, NEW t \in Tasks, status[t] \in Settled
               PROVE  status'[t] = status[t]
    OBVIOUS
  <2> USE DEF IInv, TypeOK, CurrentRuns, Settled, Statuses, Working, stateVars, processVars
  <2>1. CASE UNCHANGED status
    BY <2>1
  <2>2. ASSUME NEW u \in Tasks, Enqueue(u) \/ Resume(u) \/ Claim(u)
        PROVE  status'[t] = status[t]
    BY <2>2 DEF Enqueue, Resume, Claim
  <2>3. CASE Recover
    BY <2>3 DEF Recover, Recovered
  <2>4. CASE ClaimNext
    BY <2>4 DEF ClaimNext, Claim
  <2>5. ASSUME NEW l, FinishTask(l) \/ WaitForApproval(l) \/ RetryTask(l)
        PROVE  status'[t] = status[t]
    BY <2>5 DEF FinishTask, WaitForApproval, RetryTask, Leave
  <2>6. Next => \/ UNCHANGED status
                \/ \E u \in Tasks : Enqueue(u) \/ Resume(u) \/ Claim(u)
                \/ Recover \/ ClaimNext \/ Conclude \/ ConcludeUnjournaled
    BY DEF Next, RuntimeStep, RequestApproval, Grant, Deliver, Start, Stop, Die, Close,
           ExecuteLocal, IntendInference, CheckApproval, Infer, ConsumeApproval, Dispatch,
           SendFails, SendReturns, StoreResult, ConfirmEffect, RecoverThrows, StepThrows,
           Checkpoint, Throws
  <2> QED
    BY <2>1, <2>2, <2>3, <2>4, <2>5, <2>6 DEF Conclude, ConcludeUnjournaled
<1> QED
  BY <1>1, Invariance, PTL DEF Spec, SettledStays

-----------------------------------------------------------------------------
(* What a settled status says of the world outside.                        *)

\* What is known of a task when its effect is confirmed, and what is missing
\* before that: the result of an inference in memory.
Confirmed(t) ==
    /\ Kind[t] = "send" => effects[t] = 1 /\ record[t] = "confirmed"
    /\ Kind[t] = "infer" => effects[t] = 1 /\ stored[t]

CurrentBacked ==
    /\ pc = "store" => Kind[cur] = "infer" /\ effects[cur] = 1
    /\ pc = "confirm" => Kind[cur] # "local" /\ Confirmed(cur)
    /\ pc = "finish" => Confirmed(cur) /\ (Kind[cur] = "local" => stored[cur])

\* As long as no local step has thrown, a send is given up only when nothing of
\* it is under way.
GivenUpUntouched ==
    faults = 0 =>
        /\ pc = "fail" /\ Kind[cur] = "send" => Untouched(cur)
        /\ \A t \in Tasks : Kind[t] = "send" /\ status[t] = "failed" => Untouched(t)

EInv == CurrentBacked /\ SuccessIsBacked /\ GivenUpUntouched

LEMMA EvidenceInitial == Init => EInv
BY DEF Init, EInv, CurrentBacked, SuccessIsBacked, GivenUpUntouched

\* The evidence of one task survives what happens to another, and what the
\* service does.
LEMMA EvidenceKept == IInv /\ EInv /\ [Next]_vars => EInv'
<1> SUFFICES ASSUME IInv, EInv, [Next]_vars PROVE EInv'
  OBVIOUS
<1> USE AgentRuntimeAssumption
    DEF IInv, TypeOK, CurrentRuns, CurrentUntouched, UnloggedUntouched, Replayable, Untouched, SendsOnly,
        EInv, CurrentBacked, Confirmed, SuccessIsBacked, GivenUpUntouched,
        stateVars, processVars, boundVars, Kinds, Settled, Statuses, Records, Working, Locations
<1>1. ASSUME NEW t \in Tasks, Enqueue(t) \/ RequestApproval(t) \/ Grant(t) \/ Resume(t) PROVE EInv'
  BY <1>1 DEF Enqueue, RequestApproval, Grant, Resume
<1>2. ASSUME NEW t \in Tasks, Claim(t) PROVE EInv'
  BY <1>2 DEF Claim
<1>3. ASSUME NEW t \in Tasks, Deliver(t) PROVE EInv'
  BY <1>3 DEF Deliver
<1>4. CASE Start \/ Stop \/ Die \/ Close \/ RecoverThrows
  BY <1>4 DEF Start, Stop, Die, Close, RecoverThrows
<1>5. CASE Recover
  BY <1>5 DEF Recover, Recovered
<1>6. CASE ClaimNext
  BY <1>6 DEF ClaimNext, Claim
<1>7. CASE ExecuteLocal
  BY <1>7 DEF ExecuteLocal
<1>8. CASE IntendInference
  BY <1>8 DEF IntendInference, Checkpoint
<1>9. CASE CheckApproval
  BY <1>9 DEF CheckApproval, Checkpoint
<1>10. CASE Infer
  BY <1>10, 0 + 1 = 1 DEF Infer
<1>11. CASE ConsumeApproval
  BY <1>11 DEF ConsumeApproval
<1>12. CASE Dispatch
  BY <1>12 DEF Dispatch
<1>13. CASE SendFails
  BY <1>13 DEF SendFails, Verdict
<1>14. CASE SendReturns
  <2>1. pc = "sent" /\ cur \in Tasks /\ Kind[cur] = "send" /\ status[cur] = "running"
        /\ UNCHANGED <<stateVars, stored, cur, effects, boundVars>>
    BY <1>14 DEF SendReturns
  <2>2. \A t \in Tasks \ {cur} : record'[t] = record[t] /\ (sent'[t] => sent[t])
    BY <1>14, <2>1 DEF SendReturns, Verdict
  <2>3. SuccessIsBacked'
    BY <2>1, <2>2
  <2>4. /\ pc' \in {"confirm", "fail", "ambiguous"}
        /\ pc' = "confirm" => effects[cur] = 1 /\ record'[cur] = "confirmed"
    BY <1>14, <2>1 DEF SendReturns
  <2>5. CurrentBacked'
    BY <2>1, <2>4
  <2>6. pc' = "fail" => effects[cur] = 0 /\ ~sent'[cur]
    BY <1>14, <2>1 DEF SendReturns
  <2>7. GivenUpUntouched'
    BY <2>1, <2>2, <2>6
  <2> QED
    BY <2>3, <2>5, <2>7
<1>15. CASE StoreResult
  BY <1>15 DEF StoreResult
<1>16. CASE ConfirmEffect
  BY <1>16 DEF ConfirmEffect, Checkpoint
<1>17. CASE Conclude
  BY <1>17 DEF Conclude, FinishTask, WaitForApproval, RetryTask, Leave
<1>18. CASE ConcludeUnjournaled
  BY <1>18 DEF ConcludeUnjournaled, FinishTask, WaitForApproval, RetryTask, Leave
<1>19. CASE StepThrows
  BY <1>19 DEF StepThrows, Throws
<1>20. CASE UNCHANGED vars
  BY <1>20 DEF vars
<1> QED
  BY <1>1, <1>2, <1>3, <1>4, <1>5, <1>6, <1>7, <1>8, <1>9, <1>10, <1>11, <1>12, <1>13, <1>14, <1>15,
     <1>16, <1>17, <1>18, <1>19, <1>20 DEF Next, RuntimeStep

LEMMA EvidenceInvariance == Spec => []EInv
<1>1. Init => EInv
  BY EvidenceInitial
<1>2. IInv /\ EInv /\ [Next]_vars => EInv'
  BY EvidenceKept
<1> QED
  BY <1>1, <1>2, Invariance, PTL DEF Spec

\* A task that succeeded has its evidence: a send was accepted once and its
\* approval record says confirmed, an inference was spent once and its result is
\* in memory.
THEOREM SuccessBacked == Spec => []SuccessIsBacked
<1>1. EInv => SuccessIsBacked
  BY DEF EInv
<1> QED
  BY <1>1, EvidenceInvariance, PTL

\* As long as no local step of the runtime has thrown, a send that the state
\* calls failed has had no effect, through any deaths, stops and restarts.
THEOREM FailedSends == Spec => []FailedSendUnlessFault
<1>1. EInv => FailedSendUnlessFault
  BY DEF EInv, GivenUpUntouched, Untouched, FailedSendUnlessFault, FailedSendHadNoEffect
<1> QED
  BY <1>1, EvidenceInvariance, PTL

=============================================================================
