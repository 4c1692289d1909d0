----------------------------- MODULE SignedSend -----------------------------
(***************************************************************************)
(* SignedAgentBridge.sendTo, sendSignedToRoom and sendSigned (bridge.ts)   *)
(* over ActionApprovalStore (agent/approvals.ts), NonceStore.reserve and   *)
(* HttpTechnocoreTransport.sendSignedMessage (transport.ts).               *)
(*                                                                         *)
(* Calls run concurrently, in any number of processes, and die anywhere.   *)
(* Every operation of the approval store holds the record's lock (see      *)
(* RuntimeLock), so it is one step here; it may also be refused because    *)
(* the lock is held or the file unreadable, and it may throw after its     *)
(* write because the lock's release threw.  The reservation of a nonce is  *)
(* one step (see NonceCounter).                                            *)
(*                                                                         *)
(* The service and the network are external: a request and its answer may  *)
(* be lost or late, and the service accepts only rising nonces per room.   *)
(***************************************************************************)
EXTENDS Naturals, FiniteSets

CONSTANTS
    Calls,        \* invocations of a send
    Actions,      \* action identifiers
    ActionOf,     \* the identifier each call is given
    PublicCalls,  \* calls that send to the public room, not to the contact
    Mailboxes,    \* rooms the contact may be bound to
    PublicRoom,   \* a room without the private classes
    Texts,        \* sanitized message texts
    NoEffect,     \* "not known yet"
    MaxRetries    \* rateLimitRetries

Rooms == Mailboxes \cup {PublicRoom}

\* What the action hash covers, besides the action identifier.
Effects == [room : Rooms, text : Texts]

ASSUME SignedSendAssumption ==
    /\ ActionOf \in [Calls -> Actions]
    /\ PublicCalls \subseteq Calls
    /\ PublicRoom \notin Mailboxes
    /\ NoEffect \notin Effects
    /\ MaxRetries \in Nat

VARIABLES
    contact,    \* contacts: the mailbox the contact is bound to now
    status,     \* approval records: the status of each action
    effect,     \* approval records: the effect of each action
    counter,    \* nonces.json: the last nonce reserved for each room
    pc,         \* where each call is
    plan,       \* the effect each call has computed
    approval,   \* does the call hold a consumed approval?
    nonce,      \* the nonce a call signed with, 0 before
    attempts,   \* POSTs a call has repeated after 429
    report,     \* what a call told its caller
    wire,       \* the call's HTTP exchange
    accepted,   \* the service's log: the calls whose message it accepted
    last,       \* the service: highest nonce accepted in each room
    granted     \* history: the effects the operator granted for each action

storeVars == <<contact, status, effect, counter>>
callVars == <<pc, plan, approval, nonce, attempts, report>>
serviceVars == <<wire, accepted, last>>
vars == <<storeVars, callVars, serviceVars, granted>>

Spent == {"executing", "confirmed", "ambiguous", "failed"}
Locations == {"idle", "prepare", "contact", "propose", "consume", "reserve",
              "await", "confirm", "ambiguous", "failed", "ended", "dead"}
Reports == {"none", "sent", "ambiguous", "rejected", "refused"}
Exchanges == {"none", "request", "posted", "busy", "refusal", "garbled", "lost"}

TypeOK ==
    /\ contact \in Mailboxes
    /\ status \in [Actions -> {"none", "requested", "approved"} \cup Spent]
    /\ effect \in [Actions -> Effects \cup {NoEffect}]
    /\ counter \in [Rooms -> Nat]
    /\ pc \in [Calls -> Locations]
    /\ plan \in [Calls -> Effects \cup {NoEffect}]
    /\ approval \in [Calls -> BOOLEAN]
    /\ nonce \in [Calls -> Nat]
    /\ attempts \in [Calls -> 0 .. MaxRetries]
    /\ report \in [Calls -> Reports]
    /\ wire \in [Calls -> Exchanges]
    /\ accepted \subseteq Calls
    /\ last \in [Rooms -> Nat]
    /\ granted \in [Actions -> SUBSET Effects]

Init ==
    /\ contact \in Mailboxes
    /\ status = [a \in Actions |-> "none"]
    /\ effect = [a \in Actions |-> NoEffect]
    /\ counter = [r \in Rooms |-> 0]
    /\ pc = [c \in Calls |-> "idle"]
    /\ plan = [c \in Calls |-> NoEffect]
    /\ approval = [c \in Calls |-> FALSE]
    /\ nonce = [c \in Calls |-> 0]
    /\ attempts = [c \in Calls |-> 0]
    /\ report = [c \in Calls |-> "none"]
    /\ wire = [c \in Calls |-> "none"]
    /\ accepted = {}
    /\ last = [r \in Rooms |-> 0]
    /\ granted = [a \in Actions |-> {}]

Goto(c, l) == pc' = [pc EXCEPT ![c] = l]

\* The call ends and its caller learns v.
Return(c, v) ==
    /\ Goto(c, "ended")
    /\ report' = [report EXCEPT ![c] = v]

Destination(c) == IF c \in PublicCalls THEN PublicRoom ELSE contact

-----------------------------------------------------------------------------
(* ActionApprovalStore *)

\* The record left by propose: an existing one is returned unchanged.
Proposed(a, e) ==
    IF status[a] = "none"
    THEN /\ status' = [status EXCEPT ![a] = "requested"]
         /\ effect' = [effect EXCEPT ![a] = e]
    ELSE UNCHANGED <<status, effect>>

\* propose throws when the identifier is already bound to another effect.
Matches(a, e) == status[a] = "none" \/ effect[a] = e

\* approvals:prepare of any effect under any identifier.
Prepare(a) ==
    /\ \E e \in Effects : Matches(a, e) /\ Proposed(a, e)
    /\ UNCHANGED <<contact, counter, callVars, serviceVars, granted>>

\* The operator confirms the exact hash that was shown: grant throws unless it
\* is the record's own and the record is still requested.
MutGrant(a) ==
    /\ status[a] # "none"
    /\ status' = [status EXCEPT ![a] = "approved"]
    /\ granted' = [granted EXCEPT ![a] = {effect[a]}]
    /\ UNCHANGED <<contact, effect, counter, callVars, serviceVars>>

Grant(a) ==
    /\ status[a] = "requested"
    /\ status' = [status EXCEPT ![a] = "approved"]
    /\ granted' = [granted EXCEPT ![a] = {effect[a]}]
    /\ UNCHANGED <<contact, effect, counter, callVars, serviceVars>>

\* contact:add binds an existing contact to another mailbox.
Rebind ==
    /\ \E m \in Mailboxes \ {contact} : contact' = m
    /\ UNCHANGED <<status, effect, counter, callVars, serviceVars, granted>>

-----------------------------------------------------------------------------
(* Before the boundary: sendTo and sendSignedToRoom *)

\* sendTo reads the contact and proposes; sendToUnlocked starts further down.
Begin(c) ==
    /\ pc[c] = "idle"
    /\ \E t \in Texts : plan' = [plan EXCEPT ![c] = [room |-> Destination(c), text |-> t]]
    /\ \E l \in {"prepare", "contact"} : Goto(c, l)
    /\ UNCHANGED <<storeVars, approval, nonce, attempts, report, serviceVars, granted>>

\* prepareContactSend, then requireApproved on the record it returned.
PrepareSend(c) ==
    /\ pc[c] = "prepare"
    /\ LET a == ActionOf[c] IN
          \/ /\ Matches(a, plan[c])
             /\ Proposed(a, plan[c])
             /\ IF status[a] = "approved"
                THEN Goto(c, "contact") /\ UNCHANGED report
                ELSE Return(c, "refused")
          \/ \* the identifier is taken, or the store's lock or file fails
             /\ Return(c, "refused")
             /\ UNCHANGED <<status, effect>>
    /\ UNCHANGED <<contact, counter, plan, approval, nonce, attempts, serviceVars, granted>>

\* sendToUnlocked looks the contact up again and recomputes the effect.
ReadContact(c) ==
    /\ pc[c] = "contact"
    /\ plan' = [plan EXCEPT ![c].room = Destination(c)]
    /\ Goto(c, "propose")
    /\ UNCHANGED <<storeVars, approval, nonce, attempts, report, serviceVars, granted>>

-----------------------------------------------------------------------------
(* sendSigned *)

\* consume proposes first, under a lock acquisition of its own.
ProposeAgain(c) ==
    /\ pc[c] = "propose"
    /\ LET a == ActionOf[c] IN
          \/ /\ Matches(a, plan[c])
             /\ Proposed(a, plan[c])
             /\ \/ Goto(c, "consume") /\ UNCHANGED report
                \/ Return(c, "refused")    \* thrown by the lock's release
          \/ /\ Return(c, "refused")
             /\ UNCHANGED <<status, effect>>
    /\ UNCHANGED <<contact, counter, plan, approval, nonce, attempts, serviceVars, granted>>

MarkExecuting(a) == status' = [status EXCEPT ![a] = "executing"]

Consume(c) ==
    /\ pc[c] = "consume"
    /\ LET a == ActionOf[c] IN
          \/ /\ status[a] = "approved"
             /\ MarkExecuting(a)
             /\ \/ /\ approval' = [approval EXCEPT ![c] = TRUE]
                   /\ Goto(c, "reserve")
                   /\ UNCHANGED report
                \/ \* spent, although consume throws
                   /\ Return(c, "refused")
                   /\ UNCHANGED approval
          \/ \* requested, spent, locked or unreadable
             /\ Return(c, "refused")
             /\ UNCHANGED <<status, approval>>
    /\ UNCHANGED <<contact, effect, counter, plan, nonce, attempts, serviceVars, granted>>

Room(c) == plan[c].room

NextNonce(r) == counter[r] + 1

\* The request leaves the process: signing is synchronous, and dispatchBegan is
\* set before the transport is entered.
ReserveAndDispatch(c) ==
    /\ pc[c] = "reserve"
    /\ counter' = [counter EXCEPT ![Room(c)] = NextNonce(Room(c))]
    /\ nonce' = [nonce EXCEPT ![c] = NextNonce(Room(c))]
    /\ wire' = [wire EXCEPT ![c] = "request"]
    /\ Goto(c, "await")
    /\ UNCHANGED <<contact, status, effect, plan, approval, attempts, report,
                   accepted, last, granted>>

\* The reservation or the signature throws, with or without using up a nonce.
ReserveThrows(c) ==
    /\ pc[c] = "reserve"
    /\ \/ counter' = [counter EXCEPT ![Room(c)] = NextNonce(Room(c))]
       \/ UNCHANGED counter
    /\ Goto(c, "failed")
    /\ UNCHANGED <<contact, status, effect, plan, approval, nonce, attempts, report,
                   serviceVars, granted>>

\* Only a complete 429 is repeated, with the identical body.
RepeatAfterBusy(c) ==
    /\ pc[c] = "await"
    /\ wire[c] = "busy"
    /\ attempts[c] < MaxRetries
    /\ attempts' = [attempts EXCEPT ![c] = @ + 1]
    /\ wire' = [wire EXCEPT ![c] = "request"]
    /\ UNCHANGED <<storeVars, pc, plan, approval, nonce, report, accepted, last, granted>>

\* A complete 4xx, the last 429 included: SignedPostRejectedError.
Rejected(c) ==
    \/ wire[c] = "refusal"
    \/ wire[c] = "busy" /\ attempts[c] = MaxRetries

\* A timeout or a broken answer taken for a refusal.
MutJudge(c) ==
    IF wire[c] = "posted" THEN "confirm" ELSE "failed"

\* Every answer but a complete acceptance or refusal leaves the result open.
Judge(c) ==
    IF wire[c] = "posted" THEN "confirm"
    ELSE IF Rejected(c) THEN "failed"
    ELSE "ambiguous"

Answered(c) ==
    /\ pc[c] = "await"
    /\ wire[c] \in {"posted", "refusal", "garbled"} \/ Rejected(c)
    /\ Goto(c, Judge(c))
    /\ UNCHANGED <<storeVars, plan, approval, nonce, attempts, report, serviceVars, granted>>

\* The timer or a network error settles the promise first, whatever the service
\* has done with the request or will do.
TimedOut(c) ==
    /\ pc[c] = "await"
    /\ Goto(c, "ambiguous")
    /\ UNCHANGED <<storeVars, plan, approval, nonce, attempts, report, serviceVars, granted>>

\* finish: only an executing record changes; an error is possible before and
\* after the write.  wrote says that the record changed.
Finish(c, v, wrote) ==
    LET a == ActionOf[c] IN
    IF wrote
    THEN status[a] = "executing" /\ status' = [status EXCEPT ![a] = v]
    ELSE UNCHANGED status

\* The confirmation of an accepted message; if it throws, the catch block of
\* sendSigned reports the send as ambiguous.
Confirm(c) ==
    /\ pc[c] = "confirm"
    /\ \E wrote \in BOOLEAN :
          /\ Finish(c, "confirmed", wrote)
          /\ \/ wrote /\ Return(c, "sent")
             \/ Goto(c, "ambiguous") /\ UNCHANGED report
    /\ UNCHANGED <<contact, effect, counter, plan, approval, nonce, attempts,
                   serviceVars, granted>>

\* The catch block: errors of this finish are swallowed, the record then stays
\* executing.
FinishCaught(c) ==
    /\ pc[c] \in {"ambiguous", "failed"}
    /\ \E wrote \in BOOLEAN : Finish(c, pc[c], wrote)
    /\ Return(c, IF pc[c] = "failed" THEN "rejected" ELSE "ambiguous")
    /\ UNCHANGED <<contact, effect, counter, plan, approval, nonce, attempts,
                   serviceVars, granted>>

Die(c) ==
    /\ pc[c] \notin {"idle", "ended", "dead"}
    /\ Goto(c, "dead")
    /\ UNCHANGED <<storeVars, plan, approval, nonce, attempts, report, serviceVars, granted>>

-----------------------------------------------------------------------------
(* The Technocore service and the network, as the transport sees them. *)

\* The message is appended; its answer may be a 2xx that parses or one that does
\* not, a 5xx, or nothing.
Accept(c) ==
    /\ wire[c] = "request"
    /\ nonce[c] > last[Room(c)]
    /\ accepted' = accepted \cup {c}
    /\ last' = [last EXCEPT ![Room(c)] = nonce[c]]
    /\ \E answer \in {"posted", "garbled", "lost"} : wire' = [wire EXCEPT ![c] = answer]
    /\ UNCHANGED <<storeVars, callVars, granted>>

\* Rate limiting, a replayed nonce, a bad request, an outage, a lost request.
Refuse(c) ==
    /\ wire[c] = "request"
    /\ \E answer \in {"busy", "refusal", "garbled", "lost"} :
          wire' = [wire EXCEPT ![c] = answer]
    /\ UNCHANGED <<storeVars, callVars, accepted, last, granted>>

CallStep(c) ==
    \/ PrepareSend(c) \/ ReadContact(c) \/ ProposeAgain(c) \/ Consume(c)
    \/ ReserveAndDispatch(c) \/ ReserveThrows(c)
    \/ RepeatAfterBusy(c) \/ Answered(c) \/ TimedOut(c)
    \/ Confirm(c) \/ FinishCaught(c)

Next ==
    \/ Rebind
    \/ \E a \in Actions : Prepare(a) \/ Grant(a)
    \/ \E c \in Calls : Begin(c) \/ CallStep(c) \/ Die(c) \/ Accept(c) \/ Refuse(c)

Spec == Init /\ [][Next]_vars
-----------------------------------------------------------------------------

MessagesOf(a) == {c \in accepted : ActionOf[c] = a}

\* One approval lets at most one message out, however often the action is sent,
\* by whom, and wherever a sender died.
AtMostOncePerApproval == \A a \in Actions : \A c, d \in MessagesOf(a) : c = d

\* The service receives only what the operator granted: this text, in the room
\* the contact was bound to when the operator saw it.
OnlyGrantedEffects == \A c \in accepted : plan[c] \in granted[ActionOf[c]]

\* The approval record tells the truth about the service, also about messages
\* that were still under way when it was written.
VerdictsAreTrue ==
    \A a \in Actions :
        /\ status[a] = "confirmed" => MessagesOf(a) # {}
        /\ MessagesOf(a) # {} => status[a] \in Spent \ {"failed"}

\* A caller that is told of a refusal can send again without duplicating: only an
\* ambiguous or an unfinished call may have left a message.
ReportsAreTrue ==
    \A c \in Calls :
        /\ report[c] = "sent" => c \in accepted
        /\ report[c] \in {"rejected", "refused"} => c \notin accepted

\* The boundary implements the one-shot approved effect.
Verdict == [a \in Actions |-> IF status[a] \in Spent THEN status[a] ELSE "open"]
Delivered == [a \in Actions |-> {<<c, plan[c]>> : c \in MessagesOf(a)}]

OneShot == INSTANCE ApprovedEffect
             WITH Carriers <- Calls, verdict <- Verdict, delivered <- Delivered

ImplementsOneShot == OneShot!Spec

=============================================================================
