-------------------------- MODULE SignedSendProofs --------------------------
(***************************************************************************)
(* Proofs about SignedSend for every set of calls, actions, rooms and      *)
(* texts, and every number of repeats.                                     *)
(*                                                                         *)
(* The argument: a consumed approval is held by at most one call; only a   *)
(* call that holds one can have a request on the wire; and its record is   *)
(* executing for as long as the call can still change what it will say.    *)
(***************************************************************************)
EXTENDS SignedSend, TLAPS

USE DEF Spent

\* The record's effect is fixed when it is proposed, and is what was granted.
RecordsMatch ==
    \A a \in Actions :
        /\ status[a] # "none" => effect[a] \in Effects
        /\ status[a] \in {"none", "requested"} => granted[a] = {}
        /\ status[a] \in {"approved"} \cup Spent => granted[a] = {effect[a]}

\* A call has an effect from its beginning, the record's own when it consumes.
PlansMatch ==
    \A c \in Calls :
        /\ pc[c] # "idle" => plan[c] \in Effects
        /\ pc[c] = "consume" =>
              status[ActionOf[c]] # "none" /\ plan[c] = effect[ActionOf[c]]

Before == {"idle", "prepare", "contact", "propose", "consume"}
Sending == {"reserve", "await", "confirm", "failed"}

\* Who holds a consumed approval, and what its record says meanwhile.
HoldersMatch ==
    \A c \in Calls :
        /\ pc[c] \in Before => ~approval[c]
        /\ pc[c] \in Sending => approval[c] /\ status[ActionOf[c]] = "executing"
        /\ pc[c] = "ambiguous" =>
              approval[c] /\ status[ActionOf[c]] \in {"executing", "confirmed"}
        /\ approval[c] => /\ status[ActionOf[c]] \in Spent
                          /\ plan[c] \in granted[ActionOf[c]]

OneHolder ==
    \A c, d \in Calls :
        approval[c] /\ approval[d] /\ ActionOf[c] = ActionOf[d] => c = d

\* What the exchange of a call says about its message.
WiresMatch ==
    \A c \in Calls :
        /\ ~approval[c] \/ pc[c] = "reserve" => wire[c] = "none"
        /\ wire[c] \in {"none", "request", "busy", "refusal"} => c \notin accepted
        /\ wire[c] = "posted" => c \in accepted
        /\ pc[c] = "confirm" => c \in accepted
        /\ pc[c] = "failed" => wire[c] \in {"none", "busy", "refusal"}

\* A settled record stays true whatever the exchanges still do.
SettledMatch ==
    /\ \A c \in Calls :
          approval[c] /\ status[ActionOf[c]] = "failed" =>
              wire[c] \in {"none", "busy", "refusal"}
    /\ \A a \in Actions : status[a] = "confirmed" => MessagesOf(a) # {}

ReportsMatch ==
    \A c \in Calls :
        /\ report[c] # "none" => pc[c] = "ended"
        /\ report[c] = "sent" => c \in accepted
        /\ report[c] = "refused" => ~approval[c]
        /\ report[c] = "rejected" => wire[c] \in {"none", "busy", "refusal"}

IInv ==
    /\ TypeOK
    /\ RecordsMatch
    /\ PlansMatch
    /\ HoldersMatch
    /\ OneHolder
    /\ WiresMatch
    /\ SettledMatch
    /\ ReportsMatch

-----------------------------------------------------------------------------

LEMMA TypeInit == Init => TypeOK
  BY SignedSendAssumption DEF Init, TypeOK, Rooms, Locations, Reports, Exchanges

LEMMA TypeStep == TypeOK /\ RecordsMatch /\ PlansMatch /\ [Next]_vars => TypeOK'
  <1> SUFFICES ASSUME TypeOK, RecordsMatch, PlansMatch, [Next]_vars PROVE TypeOK'
    OBVIOUS
  <1> USE SignedSendAssumption
      DEF TypeOK, Locations, Reports, Exchanges, Goto, Return, storeVars, callVars,
          serviceVars, Proposed
  <1>0. \A c \in Calls : Destination(c) \in Rooms
    BY DEF Destination, Rooms
  <1>1. ASSUME Rebind PROVE TypeOK'
    BY <1>1 DEF Rebind
  <1>2. ASSUME NEW a \in Actions, Prepare(a) \/ Grant(a) PROVE TypeOK'
    <2>1. CASE Prepare(a)
      BY <2>1 DEF Prepare
    <2>2. CASE Grant(a)
      <3>1. granted' \in [Actions -> SUBSET Effects]
        BY <2>2 DEF Grant, RecordsMatch
      <3> QED BY <2>2, <3>1 DEF Grant
    <2> QED BY <1>2, <2>1, <2>2
  <1>3. ASSUME NEW c \in Calls, Begin(c) PROVE TypeOK'
    BY <1>0, <1>3 DEF Begin, Effects
  <1>4. ASSUME NEW c \in Calls, CallStep(c) PROVE TypeOK'
    <2>1. CASE PrepareSend(c)
      BY <2>1 DEF PrepareSend
    <2>2. CASE ReadContact(c)
      BY <1>0, <2>2 DEF ReadContact, Effects, PlansMatch
    <2>3. CASE ProposeAgain(c)
      BY <2>3 DEF ProposeAgain
    <2>4. CASE Consume(c)
      <3>1. status' \in [Actions -> {"none", "requested", "approved"} \cup Spent]
        BY <2>4 DEF Consume, MarkExecuting
      <3>2. pc' \in [Calls -> Locations] /\ report' \in [Calls -> Reports]
        BY <2>4 DEF Consume
      <3>3. approval' \in [Calls -> BOOLEAN]
        BY <2>4 DEF Consume
      <3> QED BY <2>4, <3>1, <3>2, <3>3 DEF Consume
    <2>5. CASE ReserveAndDispatch(c) \/ ReserveThrows(c)
      <3>1. Room(c) \in Rooms /\ NextNonce(Room(c)) \in Nat
        BY <2>5 DEF ReserveAndDispatch, ReserveThrows, Room, NextNonce, PlansMatch, Effects
      <3>2. CASE ReserveAndDispatch(c)
        BY <3>1, <3>2 DEF ReserveAndDispatch
      <3>3. CASE ReserveThrows(c)
        BY <3>1, <3>3 DEF ReserveThrows
      <3> QED BY <2>5, <3>2, <3>3
    <2>6. CASE RepeatAfterBusy(c)
      BY <2>6 DEF RepeatAfterBusy
    <2>7. CASE Answered(c) \/ TimedOut(c)
      BY <2>7 DEF Answered, TimedOut, Judge
    <2>8. CASE Confirm(c) \/ FinishCaught(c)
      BY <2>8 DEF Confirm, FinishCaught, Finish
    <2> QED
      BY <1>4, <2>1, <2>2, <2>3, <2>4, <2>5, <2>6, <2>7, <2>8 DEF CallStep
  <1>5. ASSUME NEW c \in Calls, Die(c) PROVE TypeOK'
    BY <1>5 DEF Die
  <1>6. ASSUME NEW c \in Calls, Accept(c) \/ Refuse(c) PROVE TypeOK'
    BY <1>6 DEF Accept, Refuse, Room, PlansMatch, Effects
  <1>7. CASE UNCHANGED vars
    BY <1>7 DEF vars
  <1> QED BY <1>1, <1>2, <1>3, <1>4, <1>5, <1>6, <1>7 DEF Next

-----------------------------------------------------------------------------

\* Steps of the operator, of other tools and of the contact book change no call.
LEMMA OperatorStepKeeps ==
    ASSUME IInv, TypeOK',
           Rebind \/ \E a \in Actions : Prepare(a) \/ Grant(a)
    PROVE  IInv'
  <1> USE SignedSendAssumption
      DEF IInv, TypeOK, callVars, serviceVars, RecordsMatch, PlansMatch, HoldersMatch,
          OneHolder, WiresMatch, SettledMatch, ReportsMatch, MessagesOf
  <1>1. CASE Rebind
    BY <1>1 DEF Rebind
  <1>2. ASSUME NEW a \in Actions, Prepare(a) PROVE IInv'
    BY <1>2 DEF Prepare, Proposed
  <1>3. ASSUME NEW a \in Actions, Grant(a) PROVE IInv'
    BY <1>3 DEF Grant
  <1> QED BY <1>1, <1>2, <1>3

\* Up to the consumption of the approval a call only fills in its own record.
LEMMA EarlyStepKeeps ==
    ASSUME IInv, TypeOK', NEW c \in Calls,
           Begin(c) \/ PrepareSend(c) \/ ReadContact(c) \/ ProposeAgain(c)
    PROVE  IInv'
  <1> USE SignedSendAssumption
      DEF IInv, TypeOK, storeVars, serviceVars, Goto, Return, Before, Sending
  <1>1. ~approval[c] /\ UNCHANGED <<approval, accepted, wire, granted>>
    BY DEF Begin, PrepareSend, ReadContact, ProposeAgain, HoldersMatch
  <1>2. pc'[c] \in {"prepare", "contact", "propose", "consume", "ended"}
    BY DEF Begin, PrepareSend, ReadContact, ProposeAgain
  <1>3. \A d \in Calls \ {c} :
          pc'[d] = pc[d] /\ plan'[d] = plan[d] /\ report'[d] = report[d]
    BY DEF Begin, PrepareSend, ReadContact, ProposeAgain
  <1>4. \A a \in Actions :
          \/ status'[a] = status[a] /\ effect'[a] = effect[a]
          \/ status[a] = "none" /\ status'[a] = "requested" /\ effect'[a] \in Effects
    BY DEF Begin, PrepareSend, ReadContact, ProposeAgain, Proposed, PlansMatch
  <1>5. report'[c] # "none" => pc'[c] = "ended" /\ report'[c] = "refused"
    BY DEF Begin, PrepareSend, ReadContact, ProposeAgain, ReportsMatch
  <1>6. RecordsMatch'
    BY <1>1, <1>4 DEF RecordsMatch
  <1>7. PlansMatch'
    <2>1. plan'[c] \in Effects
      BY DEF Begin, PrepareSend, ReadContact, ProposeAgain, PlansMatch, Destination, Effects, Rooms
    <2>2. pc'[c] = "consume" =>
             status'[ActionOf[c]] # "none" /\ plan'[c] = effect'[ActionOf[c]]
      BY DEF Begin, PrepareSend, ReadContact, ProposeAgain, Proposed, Matches
    <2> QED BY <1>2, <1>3, <1>4, <2>1, <2>2 DEF PlansMatch
  <1>8. HoldersMatch' /\ OneHolder'
    BY <1>1, <1>2, <1>3, <1>4 DEF HoldersMatch, OneHolder
  <1>9. WiresMatch' /\ SettledMatch'
    BY <1>1, <1>2, <1>3, <1>4 DEF WiresMatch, SettledMatch, MessagesOf
  <1>10. ReportsMatch'
    BY <1>1, <1>2, <1>3, <1>5 DEF ReportsMatch
  <1> QED BY <1>6, <1>7, <1>8, <1>9, <1>10

\* Exactly one call can turn an approved record into an executing one.
LEMMA ConsumeKeeps ==
    ASSUME IInv, TypeOK', NEW c \in Calls, Consume(c)
    PROVE  IInv'
  <1> USE SignedSendAssumption
      DEF IInv, TypeOK, serviceVars, Goto, Return, Before, Sending
  <1> DEFINE a == ActionOf[c]
  <1>1. /\ ~approval[c] /\ plan[c] \in Effects /\ plan[c] = effect[a]
        /\ UNCHANGED <<effect, plan, wire, accepted, granted>>
    BY DEF Consume, HoldersMatch, PlansMatch
  <1>2. CASE UNCHANGED <<status, approval>>
    BY <1>1, <1>2 DEF Consume, RecordsMatch, PlansMatch, HoldersMatch, OneHolder,
                      WiresMatch, SettledMatch, ReportsMatch, MessagesOf
  <1>3. CASE status[a] = "approved" /\ MarkExecuting(a)
    <2>1. \A d \in Calls : approval[d] => ActionOf[d] # a
      BY <1>3 DEF HoldersMatch
    <2>2. granted[a] = {plan[c]}
      BY <1>1, <1>3 DEF RecordsMatch
    <2>3. status' = [status EXCEPT ![a] = "executing"]
      BY <1>3 DEF MarkExecuting
    <2>4. RecordsMatch' /\ PlansMatch'
      BY <1>1, <1>3, <2>3 DEF Consume, RecordsMatch, PlansMatch
    <2>5. HoldersMatch' /\ OneHolder'
      BY <1>1, <1>3, <2>1, <2>2, <2>3 DEF Consume, HoldersMatch, OneHolder
    <2>6. WiresMatch' /\ SettledMatch' /\ ReportsMatch'
      BY <1>1, <1>3, <2>1, <2>3 DEF Consume, WiresMatch, SettledMatch, ReportsMatch, MessagesOf
    <2> QED BY <2>4, <2>5, <2>6
  <1> QED BY <1>2, <1>3 DEF Consume

\* Between the consumption and the verdict the record stays executing.
LEMMA ExchangeStepKeeps ==
    ASSUME IInv, TypeOK', NEW c \in Calls,
           \/ ReserveAndDispatch(c) \/ ReserveThrows(c)
           \/ RepeatAfterBusy(c) \/ Answered(c) \/ TimedOut(c)
    PROVE  IInv'
  <1> USE SignedSendAssumption
      DEF IInv, TypeOK, storeVars, serviceVars, Goto, Before, Sending
  <1>1. /\ approval[c] /\ status[ActionOf[c]] = "executing" /\ pc[c] \in {"reserve", "await"}
        /\ UNCHANGED <<status, effect, plan, approval, report, accepted, granted>>
    BY DEF ReserveAndDispatch, ReserveThrows, RepeatAfterBusy, Answered, TimedOut, HoldersMatch
  <1>2. \A d \in Calls \ {c} : pc'[d] = pc[d] /\ wire'[d] = wire[d]
    BY DEF ReserveAndDispatch, ReserveThrows, RepeatAfterBusy, Answered, TimedOut
  <1>3. RecordsMatch' /\ OneHolder'
    BY <1>1 DEF RecordsMatch, OneHolder
  <1>4. pc'[c] \in {"await", "confirm", "ambiguous", "failed"}
    BY DEF ReserveAndDispatch, ReserveThrows, RepeatAfterBusy, Answered, TimedOut, Judge
  <1>5. PlansMatch' /\ HoldersMatch'
    BY <1>1, <1>2, <1>4 DEF PlansMatch, HoldersMatch
  <1>6. WiresMatch'
    BY <1>1, <1>2
       DEF WiresMatch, ReserveAndDispatch, ReserveThrows, RepeatAfterBusy, Answered, TimedOut,
           Judge, Rejected
  <1>7. SettledMatch' /\ ReportsMatch'
    BY <1>1, <1>2, <1>4 DEF SettledMatch, ReportsMatch, MessagesOf
  <1> QED BY <1>3, <1>5, <1>6, <1>7

\* The verdict is written by the one holder, after its exchange has told it.
LEMMA FinishStepKeeps ==
    ASSUME IInv, TypeOK', NEW c \in Calls, Confirm(c) \/ FinishCaught(c)
    PROVE  IInv'
  <1> USE SignedSendAssumption
      DEF IInv, TypeOK, serviceVars, Goto, Return, Finish, Before, Sending
  <1> DEFINE a == ActionOf[c]
  <1>1. /\ approval[c] /\ status[a] \in {"executing", "confirmed"}
        /\ UNCHANGED <<effect, plan, approval, wire, accepted, granted>>
    BY DEF Confirm, FinishCaught, HoldersMatch
  <1>2. \A d \in Calls \ {c} : pc'[d] = pc[d] /\ report'[d] = report[d]
    BY DEF Confirm, FinishCaught
  <1>3. \A d \in Calls : approval[d] /\ d # c => ActionOf[d] # a
    BY <1>1 DEF OneHolder
  <1>4. \A b \in Actions : b # a => status'[b] = status[b]
    BY DEF Confirm, FinishCaught
  <1>5. /\ status'[a] \in Spent
        /\ status'[a] = "failed" => wire[c] \in {"none", "busy", "refusal"}
        /\ status'[a] = "confirmed" => c \in accepted \/ status[a] = "confirmed"
        /\ pc'[c] = "ambiguous" => status'[a] \in {"executing", "confirmed"}
    BY <1>1 DEF Confirm, FinishCaught, WiresMatch
  <1>6. pc'[c] \in {"ended", "ambiguous"} /\ pc[c] \in {"confirm", "failed", "ambiguous"}
    BY DEF Confirm, FinishCaught
  <1>7. RecordsMatch' /\ PlansMatch'
    BY <1>1, <1>2, <1>4, <1>5, <1>6 DEF RecordsMatch, PlansMatch
  <1>8. HoldersMatch' /\ OneHolder'
    BY <1>1, <1>2, <1>3, <1>4, <1>5, <1>6 DEF HoldersMatch, OneHolder
  <1>9. WiresMatch'
    BY <1>1, <1>2, <1>6 DEF WiresMatch
  <1>10. SettledMatch'
    BY <1>1, <1>3, <1>4, <1>5 DEF SettledMatch, MessagesOf
  <1>11. ReportsMatch'
    BY <1>1, <1>2 DEF ReportsMatch, WiresMatch, Confirm, FinishCaught
  <1> QED BY <1>7, <1>8, <1>9, <1>10, <1>11

\* Death freezes a call; its record and its exchange stay as they are.
LEMMA DeathKeeps ==
    ASSUME IInv, TypeOK', NEW c \in Calls, Die(c)
    PROVE  IInv'
  <1> USE DEF IInv, TypeOK, storeVars, serviceVars, Goto, Before, Sending
  <1>1. pc' = [pc EXCEPT ![c] = "dead"] /\ pc[c] \notin {"idle", "ended", "dead"}
    BY DEF Die
  <1>2. UNCHANGED <<status, effect, plan, approval, report, wire, accepted, granted>>
    BY DEF Die
  <1> QED
    BY <1>1, <1>2 DEF RecordsMatch, PlansMatch, HoldersMatch, OneHolder, WiresMatch,
                      SettledMatch, ReportsMatch, MessagesOf

\* The service answers only requests, and a request has an unsettled record.
LEMMA ServiceStepKeeps ==
    ASSUME IInv, TypeOK', NEW c \in Calls, Accept(c) \/ Refuse(c)
    PROVE  IInv'
  <1> USE DEF IInv, TypeOK, storeVars, callVars
  <1>1. /\ wire[c] = "request" /\ c \notin accepted /\ approval[c]
        /\ pc[c] \notin {"reserve", "confirm", "failed"}
        /\ UNCHANGED <<status, effect, pc, plan, approval, report, granted>>
    BY DEF Accept, Refuse, WiresMatch
  <1>2. \A d \in Calls \ {c} :
          wire'[d] = wire[d] /\ (d \in accepted' <=> d \in accepted)
    BY DEF Accept, Refuse
  <1>3. /\ wire'[c] \in {"busy", "refusal"} => c \notin accepted'
        /\ wire'[c] = "posted" => c \in accepted'
        /\ wire'[c] \notin {"none", "request"}
    BY <1>1 DEF Accept, Refuse
  <1>4. RecordsMatch' /\ PlansMatch' /\ HoldersMatch' /\ OneHolder'
    BY <1>1 DEF RecordsMatch, PlansMatch, HoldersMatch, OneHolder
  <1>5. WiresMatch'
    BY <1>1, <1>2, <1>3 DEF WiresMatch
  <1>6. SettledMatch'
    <2>1. accepted \subseteq accepted'
      BY DEF Accept, Refuse
    <2> QED BY <1>1, <1>2, <2>1 DEF SettledMatch, MessagesOf
  <1>7. ReportsMatch'
    BY <1>1, <1>2 DEF ReportsMatch, Accept, Refuse
  <1> QED BY <1>4, <1>5, <1>6, <1>7

LEMMA InductiveStep == IInv /\ [Next]_vars => IInv'
  <1> SUFFICES ASSUME IInv, [Next]_vars PROVE IInv'
    OBVIOUS
  <1>1. TypeOK'
    BY TypeStep DEF IInv
  <1>2. CASE UNCHANGED vars
    BY <1>1, <1>2
       DEF vars, storeVars, callVars, serviceVars, IInv, RecordsMatch, PlansMatch,
           HoldersMatch, OneHolder, WiresMatch, SettledMatch, ReportsMatch, MessagesOf
  <1>3. CASE Next
    BY <1>1, <1>3, OperatorStepKeeps, EarlyStepKeeps, ConsumeKeeps, ExchangeStepKeeps,
       FinishStepKeeps, DeathKeeps, ServiceStepKeeps
       DEF Next, CallStep
  <1> QED BY <1>2, <1>3

LEMMA InductiveInit == Init => IInv
  BY TypeInit
     DEF Init, IInv, RecordsMatch, PlansMatch, HoldersMatch, OneHolder, WiresMatch,
         SettledMatch, ReportsMatch, MessagesOf, Before, Sending

LEMMA Invariance == Spec => []IInv
  BY InductiveInit, InductiveStep, PTL DEF Spec

-----------------------------------------------------------------------------

\* The variables of the send boundary stay within their types.
THEOREM TypeCorrect == Spec => []TypeOK
  <1>1. IInv => TypeOK
    BY DEF IInv
  <1> QED BY <1>1, Invariance, PTL

\* A message at the service belongs to a call that holds its approval.
LEMMA AcceptedHoldApproval ==
    ASSUME IInv, NEW c \in Calls, c \in accepted
    PROVE  approval[c] /\ wire[c] \notin {"none", "request", "busy", "refusal"}
  BY DEF IInv, WiresMatch

\* One approval lets at most one message out (bridge.ts sendSigned over
\* approvals.ts consume), over any number of concurrent and restarted calls.
THEOREM AtMostOnce == Spec => []AtMostOncePerApproval
  <1>1. IInv => AtMostOncePerApproval
    BY AcceptedHoldApproval DEF IInv, TypeOK, OneHolder, AtMostOncePerApproval, MessagesOf
  <1> QED BY <1>1, Invariance, PTL

\* What the service receives is what the operator granted, destination included.
THEOREM OnlyGranted == Spec => []OnlyGrantedEffects
  <1>1. IInv => OnlyGrantedEffects
    BY AcceptedHoldApproval DEF IInv, TypeOK, HoldersMatch, OnlyGrantedEffects
  <1> QED BY <1>1, Invariance, PTL

\* A record that says "failed" is never contradicted by a late request, and one
\* that says "confirmed" never lies.
THEOREM TrueVerdicts == Spec => []VerdictsAreTrue
  <1>1. ASSUME IInv PROVE VerdictsAreTrue
    <2>1. \A a \in Actions : status[a] = "confirmed" => MessagesOf(a) # {}
      BY <1>1 DEF IInv, SettledMatch
    <2>2. ASSUME NEW a \in Actions, NEW c \in MessagesOf(a)
          PROVE  status[a] \in Spent \ {"failed"}
      <3>1. c \in Calls /\ c \in accepted /\ ActionOf[c] = a
        BY <1>1 DEF IInv, TypeOK, MessagesOf
      <3> QED
        BY <1>1, <3>1, AcceptedHoldApproval DEF IInv, HoldersMatch, SettledMatch
    <2> QED BY <2>1, <2>2 DEF VerdictsAreTrue
  <1> QED BY <1>1, Invariance, PTL

\* What a caller is told of its own send is true, now and later.
THEOREM TrueReports == Spec => []ReportsAreTrue
  <1>1. IInv => ReportsAreTrue
    BY AcceptedHoldApproval DEF IInv, ReportsMatch, ReportsAreTrue
  <1> QED BY <1>1, Invariance, PTL

-----------------------------------------------------------------------------

\* The initial state maps to the abstract one.
LEMMA OneShotInit == Init => OneShot!Init
  BY DEF Init, OneShot!Init, Verdict, Delivered, MessagesOf

\* A consumption is Begin, a verdict Settle, an acceptance Deliver, a grant
\* Grant, and everything else a stutter.
LEMMA OneShotStep == IInv /\ IInv' /\ [Next]_vars => [OneShot!Next]_(OneShot!vars)
  <1> SUFFICES ASSUME IInv, IInv', [Next]_vars PROVE [OneShot!Next]_(OneShot!vars)
    OBVIOUS
  <1> USE SignedSendAssumption DEF IInv, TypeOK, OneShot!vars, Verdict, Delivered, MessagesOf
  <1>1. ASSUME NEW a \in Actions, Grant(a) PROVE OneShot!Next
    <2>1. granted[a] = {} /\ effect[a] \in Effects
      BY <1>1 DEF Grant, RecordsMatch
    <2>2. Verdict' = Verdict /\ Verdict[a] = "open"
      BY <1>1 DEF Grant
    <2>3. Delivered' = Delivered
      BY <1>1 DEF Grant, callVars, serviceVars
    <2>4. granted' = [granted EXCEPT ![a] = {effect[a]}]
      BY <1>1 DEF Grant
    <2> HIDE DEF Verdict, Delivered
    <2>5. OneShot!Grant(a)
      BY <2>1, <2>2, <2>3, <2>4 DEF OneShot!Grant
    <2> QED BY <2>5 DEF OneShot!Next
  <1>2. ASSUME NEW c \in Calls, Consume(c) PROVE [OneShot!Next]_(OneShot!vars)
    <2>1. CASE UNCHANGED status
      BY <1>2, <2>1 DEF Consume, serviceVars
    <2>2. CASE status[ActionOf[c]] = "approved" /\ MarkExecuting(ActionOf[c])
      <3> DEFINE a == ActionOf[c]
      <3>1. Verdict[a] = "open" /\ Verdict' = [Verdict EXCEPT ![a] = "executing"]
        BY <2>2 DEF MarkExecuting
      <3>2. Delivered' = Delivered /\ granted' = granted
        BY <1>2 DEF Consume, serviceVars
      <3>3. granted[a] # {} /\ a \in Actions
        BY <2>2 DEF RecordsMatch
      <3> HIDE DEF Verdict, Delivered, a
      <3>4. OneShot!Begin(a)
        BY <3>1, <3>2, <3>3 DEF OneShot!Begin
      <3> QED BY <3>3, <3>4 DEF OneShot!Next
    <2> QED BY <1>2, <2>1, <2>2 DEF Consume
  <1>3. ASSUME NEW c \in Calls, Accept(c) PROVE OneShot!Next
    <2> DEFINE a == ActionOf[c]
    <2>1. approval[c] /\ c \notin accepted /\ wire[c] = "request"
      BY <1>3 DEF Accept, WiresMatch
    <2>2. \A d \in accepted : ActionOf[d] # a
      BY <2>1, AcceptedHoldApproval DEF OneHolder
    <2>3. status[a] \in {"executing", "ambiguous"}
      BY <2>1, <2>2 DEF HoldersMatch, SettledMatch
    <2>4. plan[c] \in granted[a]
      BY <2>1 DEF HoldersMatch
    <2>5. accepted' = accepted \cup {c} /\ UNCHANGED <<plan, granted, status>>
      BY <1>3 DEF Accept, callVars, storeVars
    <2>6. Delivered[a] = {} /\ Verdict[a] = status[a]
      BY <2>2, <2>3
    <2>7. Delivered' = [Delivered EXCEPT ![a] = {<<c, plan[c]>>}]
      <3>1. \A b \in Actions : b # a => MessagesOf(b)' = MessagesOf(b)
        BY <2>5
      <3>2. MessagesOf(a)' = {c}
        BY <2>2, <2>5
      <3>3. \A b \in Actions : b # a => Delivered'[b] = Delivered[b]
        BY <2>5, <3>1
      <3>4. Delivered'[a] = {<<c, plan[c]>>}
        <4> HIDE DEF MessagesOf
        <4> QED BY <2>5, <3>2
      <3>5. DOMAIN Delivered = Actions /\ DOMAIN Delivered' = Actions
        OBVIOUS
      <3>6. Delivered' = [b \in Actions |-> Delivered'[b]]
        OBVIOUS
      <3> QED BY <3>3, <3>4, <3>5, <3>6
    <2>8. Verdict' = Verdict
      BY <2>5
    <2> HIDE DEF Verdict, Delivered, a
    <2>9. OneShot!Deliver(a)
      BY <2>3, <2>4, <2>5, <2>6, <2>7, <2>8 DEF OneShot!Deliver
    <2>10. a \in Actions
      BY DEF a
    <2> QED BY <2>9, <2>10 DEF OneShot!Next
  <1>4. ASSUME NEW c \in Calls, Confirm(c) \/ FinishCaught(c)
        PROVE  [OneShot!Next]_(OneShot!vars)
    <2> DEFINE a == ActionOf[c]
    <2>1. CASE UNCHANGED status
      BY <1>4, <2>1 DEF Confirm, FinishCaught, serviceVars
    <2>2. ASSUME NEW v \in {"confirmed", "ambiguous", "failed"},
                 status[a] = "executing", status' = [status EXCEPT ![a] = v]
          PROVE  OneShot!Settle(a)
      <3>1. Verdict' = [Verdict EXCEPT ![a] = v]
        BY <2>2
      <3>2. v = "confirmed" => \E d \in accepted : ActionOf[d] = a
        BY <1>4, <2>2 DEF SettledMatch, Confirm, FinishCaught, serviceVars
      <3>3. v = "failed" => \A d \in accepted : ActionOf[d] # a
        <4> SUFFICES ASSUME v = "failed", NEW d \in accepted, ActionOf[d] = a PROVE FALSE
          OBVIOUS
        <4>1. d \in accepted'
          BY <1>4 DEF Confirm, FinishCaught, serviceVars
        <4>2. status'[a] = "failed"
          BY <2>2
        <4> QED BY <4>1, <4>2 DEF SettledMatch, WiresMatch
      <3>4. Delivered' = Delivered /\ granted' = granted /\ Verdict[a] = "executing"
        BY <1>4, <2>2 DEF Confirm, FinishCaught, serviceVars
      <3>5. v = "confirmed" => Delivered[a] # {}
        <4>1. ASSUME NEW d \in accepted, ActionOf[d] = a
              PROVE  <<d, plan[d]>> \in Delivered[a]
          BY <4>1
        <4> QED BY <3>2, <4>1
      <3>6. v = "failed" => Delivered[a] = {}
        BY <3>3
      <3> HIDE DEF Verdict, Delivered, a
      <3> QED
        BY <3>1, <3>4, <3>5, <3>6 DEF OneShot!Settle
    <2> QED BY <1>4, <2>1, <2>2 DEF Confirm, FinishCaught, Finish, OneShot!Next
  <1>5. ASSUME Rebind \/ \E a \in Actions : Prepare(a)
        PROVE  UNCHANGED OneShot!vars
    BY <1>5 DEF Rebind, Prepare, Proposed, callVars, serviceVars
  <1>6. ASSUME NEW c \in Calls,
               \/ Begin(c) \/ PrepareSend(c) \/ ReadContact(c) \/ ProposeAgain(c)
               \/ ReserveAndDispatch(c) \/ ReserveThrows(c) \/ RepeatAfterBusy(c)
               \/ Answered(c) \/ TimedOut(c) \/ Die(c) \/ Refuse(c)
        PROVE  UNCHANGED OneShot!vars
    <2>1. UNCHANGED <<accepted, granted>> /\ \A d \in accepted : plan'[d] = plan[d]
      BY <1>6 DEF Begin, PrepareSend, ReadContact, ProposeAgain, ReserveAndDispatch,
                  ReserveThrows, RepeatAfterBusy, Answered, TimedOut, Die, Refuse,
                  storeVars, callVars, serviceVars, HoldersMatch, WiresMatch, Before
    <2>2. Verdict' = Verdict
      BY <1>6 DEF Begin, PrepareSend, ReadContact, ProposeAgain, ReserveAndDispatch,
                  ReserveThrows, RepeatAfterBusy, Answered, TimedOut, Die, Refuse,
                  storeVars, callVars, serviceVars, Proposed
    <2> QED BY <2>1, <2>2
  <1>7. CASE UNCHANGED vars
    BY <1>7 DEF vars, storeVars, callVars, serviceVars
  <1> QED
    BY <1>1, <1>2, <1>3, <1>4, <1>5, <1>6, <1>7 DEF Next, CallStep

\* The send boundary implements the one-shot approved effect: an effect happens
\* at most once, only as granted, and never after it was reported as failed.
THEOREM SendIsOneShot == Spec => ImplementsOneShot
  BY OneShotInit, OneShotStep, Invariance, PTL
     DEF Spec, ImplementsOneShot, OneShot!Spec

=============================================================================
