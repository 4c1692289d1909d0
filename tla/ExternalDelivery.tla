-------------------------- MODULE ExternalDelivery --------------------------
(***************************************************************************)
(* ExternalJobDelivery (swarm/external-delivery.ts): the answer to a       *)
(* proposal from outside, sent once by a process of its own when the       *)
(* session that did the work has stopped.  The record of a delivery, the   *)
(* exact-action approval and the POST are three places; the session's      *)
(* record is only read.  Its lock lets one operation run at a time.        *)
(***************************************************************************)
EXTENDS PeerSession

VARIABLES
    delivered,   \* external-deliveries/<id>.json of each external root
    approval,    \* of its response
    step,        \* where the operation of the delivery process is
    job,         \* the root that it is about
    copy,        \* its copy of the record
    answer,      \* the POST of each response
    arrived      \* history: times each response was accepted

record == <<delivered, approval>>
process == <<step, job, copy>>
service == <<answer, arrived>>
deliveryVars == <<record, process, service>>

Records ==
    [status : {"response-prepared", "response-authorized", "sending", "sent", "delivery-ambiguous", "failed"},
     posts : 0 .. 1]

ASSUME RecordsAssumption == None \notin Records

DeliveryTypeOK ==
    /\ delivered \in [External -> Records \cup {None}]
    /\ approval \in [External -> {"none", "requested", "approved", "executing",
                                  "confirmed", "ambiguous", "failed"}]
    /\ step \in {"idle", "proposing", "granted", "consuming", "reserving", "sending", "await",
                 "confirming", "recording"}
    /\ job \in External \cup {None} /\ copy \in Records \cup {None}
    /\ answer \in [External -> {"none", "request", "posted", "refused"}]
    /\ arrived \in [External -> Nat]

DeliveryInit ==
    /\ delivered = [r \in External |-> None]
    /\ approval = [r \in External |-> "none"]
    /\ step = "idle" /\ job = None /\ copy = None
    /\ answer = [r \in External |-> "none"]
    /\ arrived = [r \in External |-> 0]

\* material: a stopped session whose job is completed and whose proposal the
\* operator accepted.
Material(r) ==
    /\ disk # None /\ disk.life = "stopped"
    /\ disk.job[r] = "completed" /\ disk.proposal[r] = "accepted"

At(l) == step = l
Begin(l, r, d) == step' = l /\ job' = r /\ copy' = d
Leaves == Begin("idle", None, None)
Write(r, d) == delivered' = [delivered EXCEPT ![r] = d]
Mark(r, a) == approval' = [approval EXCEPT ![r] = a]

-----------------------------------------------------------------------------

\* prepare: the record links the result before an approval is proposed.
PrepareResponse(r) ==
    /\ At("idle") /\ Material(r) /\ delivered[r] = None
    /\ Write(r, [status |-> "response-prepared", posts |-> 0])
    /\ Begin("proposing", r, None)
    /\ UNCHANGED <<approval, service, faults>>

ProposeApproval ==
    /\ At("proposing")
    /\ Mark(job, "requested")
    /\ Leaves
    /\ UNCHANGED <<delivered, service, faults>>

\* authorize: the approval is proposed again, for a death may have come
\* between, and granted; then the record says so.
GrantResponse(r) ==
    /\ At("idle") /\ delivered[r] # None /\ Material(r)
    /\ delivered[r].status \in {"response-prepared", "response-authorized"}
    /\ approval[r] \in {"none", "requested", "approved"}
    /\ Mark(r, "approved")
    /\ Begin("granted", r, delivered[r])
    /\ UNCHANGED <<delivered, service, faults>>

WriteAuthorized ==
    /\ At("granted")
    /\ Write(job, [copy EXCEPT !.status = "response-authorized"])
    /\ Leaves
    /\ UNCHANGED <<approval, service, faults>>

\* guard: the record is the one that was read, and the session's window is
\* open.
Unchanged == delivered[job] = copy /\ Material(job) /\ ~late

Send(r) ==
    /\ At("idle") /\ delivered[r] # None /\ Material(r) /\ ~late
    /\ delivered[r] = [status |-> "response-authorized", posts |-> 0]
    /\ approval[r] = "approved"
    /\ Begin("consuming", r, delivered[r])
    /\ UNCHANGED <<record, service, faults>>

\* Any error counts as a rejection.
MutOutcome(rejected) == "failed"

\* The catch block of send: only a rejected or an unattempted POST failed.
Outcome(rejected) ==
    IF rejected \/ copy.posts = 0 THEN "failed" ELSE "delivery-ambiguous"
Concludes(rejected) == Begin("recording", job, [copy EXCEPT !.status = Outcome(rejected)])

Consume ==
    /\ At("consuming")
    /\ IF Unchanged
         THEN Mark(job, "executing") /\ Begin("reserving", job, copy)
         ELSE UNCHANGED approval /\ Concludes(FALSE)
    /\ UNCHANGED <<delivered, service, faults>>

\* What the session and all deliveries have posted.
Attempts ==
    disk.spent["outbound"]
      + Cardinality({r \in External : delivered[r] # None /\ delivered[r].posts = 1})

\* The nonce, the signature and the transport: the intent is durable before
\* the POST.  A nonce that cannot be reserved fails the approval; a transport
\* that throws leaves it ambiguous, its write of the intent included.
DispatchResponse ==
    /\ At("reserving")
    /\ LET sending == [status |-> "sending", posts |-> 1] IN
       \/ /\ Unchanged /\ Attempts < Limits["outbound"]
          /\ Write(job, sending) /\ Begin("sending", job, sending)
          /\ UNCHANGED <<approval, faults>>
       \/ /\ ~(Unchanged /\ Attempts < Limits["outbound"])
          /\ Mark(job, "ambiguous") /\ Concludes(FALSE)
          /\ UNCHANGED <<delivered, faults>>
       \/ /\ Fault /\ UNCHANGED delivered
          /\ \/ Mark(job, "failed") /\ Concludes(FALSE)
             \/ /\ Mark(job, "ambiguous")
                /\ Begin("recording", job, [sending EXCEPT !.status = "delivery-ambiguous"])
    /\ UNCHANGED service

PostResponse ==
    /\ At("sending")
    /\ IF Unchanged
         THEN /\ answer' = [answer EXCEPT ![job] = "request"]
              /\ Begin("await", job, copy) /\ UNCHANGED approval
         ELSE Mark(job, "ambiguous") /\ Concludes(FALSE) /\ UNCHANGED answer
    /\ UNCHANGED <<delivered, arrived, faults>>

ResponsePosted ==
    /\ At("await") /\ answer[job] = "posted"
    /\ Begin("confirming", job, copy)
    /\ UNCHANGED <<record, service, faults>>

ResponseRejected ==
    /\ At("await") /\ answer[job] = "refused"
    /\ Mark(job, "failed") /\ Concludes(TRUE)
    /\ UNCHANGED <<delivered, service, faults>>

ResponseLost ==
    /\ At("await")
    /\ Mark(job, "ambiguous") /\ Concludes(FALSE)
    /\ UNCHANGED <<delivered, service, faults>>

\* The record says sent only after the approval was confirmed.
Confirm ==
    /\ At("confirming")
    /\ \/ Mark(job, "confirmed") /\ Begin("recording", job, [copy EXCEPT !.status = "sent"])
          /\ UNCHANGED faults
       \/ Fault /\ Mark(job, "ambiguous") /\ Concludes(FALSE)
    /\ UNCHANGED <<delivered, service>>

\* A write of "sent" that throws is caught as an error of the send.
WriteOutcome ==
    /\ At("recording")
    /\ \/ Write(job, copy) /\ UNCHANGED faults
       \/ /\ copy.status = "sent" /\ Fault
          /\ Write(job, [copy EXCEPT !.status = "delivery-ambiguous"])
    /\ Leaves
    /\ UNCHANGED <<approval, service>>

\* The process dies, or a write throws: the operation is over.
DeliveryDies ==
    /\ ~At("idle") /\ Fault
    /\ Leaves
    /\ UNCHANGED <<record, service>>

\* The service.
AcceptResponse(r) ==
    /\ answer[r] = "request"
    /\ answer' = [answer EXCEPT ![r] = "posted"]
    /\ arrived' = [arrived EXCEPT ![r] = @ + 1]
    /\ UNCHANGED <<record, process, faults>>

RejectResponse(r) ==
    /\ answer[r] = "request"
    /\ answer' = [answer EXCEPT ![r] = "refused"]
    /\ UNCHANGED <<record, process, arrived, faults>>

Delivery ==
    \/ \E r \in External : \/ PrepareResponse(r) \/ GrantResponse(r) \/ Send(r)
                           \/ AcceptResponse(r) \/ RejectResponse(r)
    \/ ProposeApproval \/ WriteAuthorized \/ Consume \/ DispatchResponse \/ PostResponse
    \/ ResponsePosted \/ ResponseRejected \/ ResponseLost \/ Confirm \/ WriteOutcome
    \/ DeliveryDies

sessionVars == <<disk, mem, pc, at, agents, held, outside, network, computed>>

\* The session and the delivery process side by side.
SystemInit == Init /\ DeliveryInit
SystemNext == (Next /\ UNCHANGED deliveryVars) \/ (Delivery /\ UNCHANGED sessionVars)
System == SystemInit /\ [][SystemNext]_<<vars, deliveryVars>> /\ WF_vars(Process)

-----------------------------------------------------------------------------

\* The answer to an outside proposal is posted at most once, and only for a
\* job that the stopped session completed and under an approval that was
\* spent; a record that says sent had it accepted, one that says failed had
\* not, and none is back before the POST; session and deliveries together
\* stay in the outbound budget.
DeliveryIsBacked ==
    /\ DeliveryTypeOK
    /\ \A r \in External :
         /\ arrived[r] <= 1
         /\ answer[r] # "none" =>
               /\ disk.job[r] = "completed" /\ computed[r] = 1
               /\ approval[r] \notin {"none", "requested", "approved"}
               /\ delivered[r].posts = 1
               /\ delivered[r].status \notin {"response-prepared", "response-authorized"}
         /\ delivered[r] # None =>
               /\ delivered[r].status = "sent" => arrived[r] = 1
               /\ delivered[r].status = "failed" => arrived[r] = 0 /\ answer[r] # "request"
    /\ Cardinality({r \in External : arrived[r] > 0} \cup {e \in Effects : posted[e] > 0})
          <= Limits["outbound"]

=============================================================================
