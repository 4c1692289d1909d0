-------------------------- MODULE ExternalBootstrap --------------------------
(***************************************************************************)
(* ExternalBootstrapCoordinator (swarm/external-bootstrap.ts) over         *)
(* BootstrapFiles (swarm/bootstrap-files.ts): one signed offer to a public *)
(* room, one observation of that room, one verdict on what was observed.   *)
(*                                                                         *)
(* Every operation holds the runtime lock of its record (see RuntimeLock), *)
(* so a handshake has at most one operation under way: pc says where it    *)
(* is, copy is its record in memory.  A process may die between any two    *)
(* writes.                                                                 *)
(*                                                                         *)
(* Sequence numbers are indices into the room, which the service may count *)
(* anew (generation).  Of the messages that name a handshake "yes" is the  *)
(* exact signed acceptance, "no" the exact refusal (or shares no schema),  *)
(* "bad" anything that fails verifyResponse; "other" does not name it.     *)
(***************************************************************************)
EXTENDS Naturals, Sequences

CONSTANTS
    Handshakes,   \* prepared bootstraps
    None,         \* absent
    MaxMessages,  \* bound on the messages in the room
    MaxRestarts,  \* bound on the times the service counts the room anew
    MaxFaults     \* bound on deaths and failing local steps

ASSUME ExternalBootstrapAssumption ==
    /\ None \notin Handshakes
    /\ MaxMessages \in Nat /\ MaxRestarts \in Nat /\ MaxFaults \in Nat

VARIABLES
    record,        \* records/<id>.json
    approval,      \* status of the approval of the offer
    checkpoint,    \* observations/<id>-read-1.json, or its candidate file
    proposal,      \* does proposals/<id>.json exist?
    pc,            \* where the operation under way is
    op,            \* which operation that is
    copy,          \* the record it holds
    wire,          \* the signed POST
    placed,        \* where the service has put the offer
    room,          \* the public room: who a message names, and what it is
    dropped,       \* how many of the oldest messages the service has dropped
    generation,    \* of the room
    expired,       \* handshakes whose expiry has been reached
    contradicted,  \* handshakes whose discovery evidence has changed
    faults,        \* deaths and failed steps so far
    arrived,       \* history: offers the service accepted
    gets,          \* history: reads made
    missed         \* history: were there answers behind the offer at the read?

files == <<record, approval, checkpoint, proposal>>
local == <<pc, op, copy>>
service == <<placed, room, dropped, generation>>
world == <<service, expired, contradicted>>
history == <<arrived, gets, missed>>
vars == <<files, local, wire, world, faults, history>>

States == {"PREPARED", "AUTHORIZED", "SENDING", "SENT", "AWAITING_RESPONSE",
           "ACCEPTED_EVIDENCE", "NO_RESPONSE", "INVALID_RESPONSE",
           "AMBIGUOUS_DELIVERY", "REJECTED"}
Terminal == {"ACCEPTED_EVIDENCE", "NO_RESPONSE", "INVALID_RESPONSE",
             "AMBIGUOUS_DELIVERY", "REJECTED"}
Kinds == {"yes", "no", "bad"}

\* response is None without one, else what it was taken for; cursor is
\* acknowledgedThrough, linked says that checkpointRef is set.
Records == [state : States, posts : 0 .. 1, receipt : BOOLEAN, since : Nat, generation : Nat,
            reads : 0 .. 1, cursor : Nat, linked : BOOLEAN, failure : BOOLEAN,
            response : Kinds \cup {"unsafe", None}, acked : BOOLEAN, proposed : BOOLEAN]

\* The window lo+1 .. hi of a room whose newest message is last, and what of it
\* names the handshake: sequence numbers and kinds.
Checkpoints == [stage : {"partial", "candidate", "final"}, lo : Nat, hi : Nat, last : Nat,
                generation : Nat, matching : SUBSET (Nat \X Kinds)]

ASSUME FilesAssumption == None \notin Records \cup Checkpoints \cup Kinds \cup {"unsafe"}

Locations == {"idle", "create", "authorize", "unlock", "consumed", "dispatch", "intent",
              "await", "confirm", "sent", "awaiting", "conclude", "recover", "read", "persist",
              "process", "cursor", "acked", "timeout", "propose", "proposed"}

\* validateStored
Readable(r) ==
    /\ r.state \in {"PREPARED", "AUTHORIZED"} => r.posts = 0
    /\ r.state \in {"SENDING", "SENT", "AWAITING_RESPONSE", "ACCEPTED_EVIDENCE", "NO_RESPONSE",
                    "INVALID_RESPONSE", "AMBIGUOUS_DELIVERY"} => r.posts = 1
    /\ r.state \in {"SENT", "AWAITING_RESPONSE", "ACCEPTED_EVIDENCE", "NO_RESPONSE",
                    "INVALID_RESPONSE"} => r.receipt
    /\ r.state = "ACCEPTED_EVIDENCE" => r.response = "yes"
    /\ r.state = "INVALID_RESPONSE" => r.response \in {"bad", "unsafe"}

\* What the room holds: who a message names, and what it is to that handshake.
Messages == (Handshakes \X Kinds) \cup {<<None, "other">>}

TypeOK ==
    /\ record \in [Handshakes -> Records \cup {None}]
    /\ approval \in [Handshakes -> {"none", "requested", "approved", "executing", "confirmed",
                                    "ambiguous", "failed"}]
    /\ checkpoint \in [Handshakes -> Checkpoints \cup {None}]
    /\ proposal \in [Handshakes -> BOOLEAN]
    /\ pc \in [Handshakes -> Locations]
    /\ op \in [Handshakes -> {"none", "receive", "timeout", "proposal"}]
    /\ copy \in [Handshakes -> Records \cup {None}]
    /\ wire \in [Handshakes -> {"none", "request", "posted", "refused", "lost"}]
    /\ placed \in [Handshakes -> [seq : Nat, generation : Nat]]
    /\ room \in Seq(Messages)
    /\ dropped \in Nat
    /\ generation \in 0 .. MaxRestarts
    /\ expired \subseteq Handshakes /\ contradicted \subseteq Handshakes
    /\ faults \in 0 .. MaxFaults
    /\ arrived \in [Handshakes -> Nat] /\ gets \in [Handshakes -> Nat]
    /\ missed \in [Handshakes -> BOOLEAN]

Init ==
    /\ record = [h \in Handshakes |-> None]
    /\ approval = [h \in Handshakes |-> "none"]
    /\ checkpoint = [h \in Handshakes |-> None]
    /\ proposal = [h \in Handshakes |-> FALSE]
    /\ pc = [h \in Handshakes |-> "idle"]
    /\ op = [h \in Handshakes |-> "none"]
    /\ copy = [h \in Handshakes |-> None]
    /\ wire = [h \in Handshakes |-> "none"]
    /\ placed = [h \in Handshakes |-> [seq |-> 0, generation |-> 0]]
    /\ room = <<>>
    /\ dropped = 0
    /\ generation = 0
    /\ expired = {}
    /\ contradicted = {}
    /\ faults = 0
    /\ arrived = [h \in Handshakes |-> 0]
    /\ gets = [h \in Handshakes |-> 0]
    /\ missed = [h \in Handshakes |-> FALSE]

-----------------------------------------------------------------------------
(* Operations *)

\* The lock is taken, the record read and its bindings found unchanged.
Open(h, o, r, l) ==
    /\ pc[h] = "idle"
    /\ Readable(record[h])
    /\ h \notin contradicted
    /\ op' = [op EXCEPT ![h] = o]
    /\ pc' = [pc EXCEPT ![h] = l]
    /\ copy' = [copy EXCEPT ![h] = r]

Proceed(h, r, l) ==
    /\ pc' = [pc EXCEPT ![h] = l]
    /\ copy' = [copy EXCEPT ![h] = r]
    /\ UNCHANGED op

End(h) ==
    /\ pc' = [pc EXCEPT ![h] = "idle"]
    /\ op' = [op EXCEPT ![h] = "none"]
    /\ copy' = [copy EXCEPT ![h] = None]

Write(h, r) == record' = [record EXCEPT ![h] = r]

\* The operation's last write.
EndWith(h, r) == Write(h, r) /\ End(h)

Fault == faults < MaxFaults /\ faults' = faults + 1

-----------------------------------------------------------------------------
(* prepare and authorize *)

\* The approval is proposed under a challenge that is never used again: the
\* approval of a preparation that dies here stays alone.
Prepare(h) ==
    /\ pc[h] = "idle" /\ approval[h] = "none"
    /\ h \notin expired \cup contradicted
    /\ approval' = [approval EXCEPT ![h] = "requested"]
    /\ pc' = [pc EXCEPT ![h] = "create"]
    /\ UNCHANGED <<record, checkpoint, proposal, op, copy, wire, world, faults, history>>

\* The observation begins behind what discovery has seen of the room.
New == [state |-> "PREPARED", posts |-> 0, receipt |-> FALSE, since |-> 0, generation |-> 0,
        reads |-> 0, cursor |-> 0, linked |-> FALSE, failure |-> FALSE, response |-> None,
        acked |-> FALSE, proposed |-> FALSE]

Create(h) ==
    /\ pc[h] = "create"
    /\ EndWith(h, New)
    /\ UNCHANGED <<approval, checkpoint, proposal, wire, world, faults, history>>

\* A grant that a death left without its record is taken up.
Authorize(h) ==
    /\ record[h].state = "PREPARED"
    /\ approval[h] \in {"requested", "approved"}
    /\ approval' = [approval EXCEPT ![h] = "approved"]
    /\ Open(h, "none", [record[h] EXCEPT !.state = "AUTHORIZED"], "authorize")
    /\ UNCHANGED <<record, checkpoint, proposal, wire, world, faults, history>>

WriteAuthorized(h) ==
    /\ pc[h] = "authorize"
    /\ EndWith(h, copy[h])
    /\ UNCHANGED <<approval, checkpoint, proposal, wire, world, faults, history>>

-----------------------------------------------------------------------------
(* send *)

\* The catch block without its look at the attempt.
MutOutcome(r, refused) == IF refused THEN "REJECTED" ELSE "AMBIGUOUS_DELIVERY"

\* What an error is taken for: nothing was sent, it was refused, or nobody knows.
Outcome(r, refused) ==
    IF r.posts = 0 \/ refused THEN "REJECTED" ELSE "AMBIGUOUS_DELIVERY"

\* The catch block, and what the bridge makes of the approval.
Fail(h, r, refused, verdict) ==
    /\ approval' = [approval EXCEPT ![h] = verdict]
    /\ Proceed(h, [r EXCEPT !.state = Outcome(r, refused)], "conclude")

\* An expired authorization is rejected at once.
Send(h) ==
    /\ record[h].state = "AUTHORIZED"
    /\ IF h \in expired
       THEN /\ pc[h] = "idle" /\ h \notin contradicted
            /\ Write(h, [record[h] EXCEPT !.state = "REJECTED"])
            /\ UNCHANGED local
       ELSE Open(h, "none", record[h], "unlock") /\ UNCHANGED record
    /\ UNCHANGED <<approval, checkpoint, proposal, wire, world, faults, history>>

\* The passphrase, the approval or the guard in front of it: no attempt is counted,
\* so the send is rejected whatever was thrown.
Consume(h) ==
    /\ pc[h] = "unlock"
    /\ \/ /\ h \notin expired \cup contradicted
          /\ approval[h] = "approved"
          /\ approval' = [approval EXCEPT ![h] = "executing"]
          /\ Proceed(h, copy[h], "consumed")
          /\ UNCHANGED faults
       \/ /\ \/ (h \in expired \cup contradicted \/ approval[h] # "approved") /\ UNCHANGED faults
             \/ Fault
          /\ Fail(h, copy[h], TRUE, approval[h])
    /\ UNCHANGED <<record, checkpoint, proposal, wire, world, history>>

\* The clock again behind the consumption, then nonce and signature.
Reserve(h) ==
    /\ pc[h] = "consumed"
    /\ \/ h \notin expired /\ Proceed(h, copy[h], "dispatch") /\ UNCHANGED <<approval, faults>>
       \/ /\ \/ h \in expired /\ UNCHANGED faults
             \/ Fault
          /\ Fail(h, copy[h], TRUE, "failed")
    /\ UNCHANGED <<record, checkpoint, proposal, wire, world, history>>

\* Bindings and clock a second time, then the durable intent.  The bridge takes
\* what is thrown from here on for an uncertain result.
Dispatch(h) ==
    LET sending == [copy[h] EXCEPT !.state = "SENDING", !.posts = 1] IN
    /\ pc[h] = "dispatch"
    /\ \/ /\ h \notin expired \cup contradicted
          /\ Write(h, sending)
          /\ Proceed(h, sending, "intent")
          /\ UNCHANGED <<approval, faults>>
       \/ /\ h \in expired \cup contradicted
          /\ Fail(h, copy[h], FALSE, "ambiguous")
          /\ UNCHANGED <<record, faults>>
       \/ /\ Fault
          /\ Fail(h, sending, FALSE, "ambiguous")
          /\ UNCHANGED record
    /\ UNCHANGED <<checkpoint, proposal, wire, world, history>>

\* And the clock once more: an expiry here takes the attempt back.
Post(h) ==
    /\ pc[h] = "intent"
    /\ \/ /\ h \in expired
          /\ Fail(h, [copy[h] EXCEPT !.posts = 0], FALSE, "ambiguous")
          /\ UNCHANGED wire
       \/ /\ h \notin expired
          /\ wire' = [wire EXCEPT ![h] = "request"]
          /\ Proceed(h, copy[h], "await")
          /\ UNCHANGED approval
    /\ UNCHANGED <<record, checkpoint, proposal, world, faults, history>>

\* The receipt moves the start of the observation behind the offer.
Receipt(h) ==
    [copy[h] EXCEPT !.receipt = TRUE, !.since = placed[h].seq, !.cursor = placed[h].seq,
                    !.generation = placed[h].generation]

Answered(h) ==
    /\ pc[h] = "await"
    /\ \/ /\ wire[h] = "posted"
          /\ Write(h, Receipt(h)) /\ Proceed(h, Receipt(h), "confirm")
          /\ UNCHANGED approval
       \/ /\ wire[h] = "refused"
          /\ Fail(h, copy[h], TRUE, "failed")
          /\ UNCHANGED record
    /\ UNCHANGED <<checkpoint, proposal, wire, world, faults, history>>

\* A timeout taken for a refusal.
MutTimedOut(h) ==
    /\ pc[h] = "await"
    /\ Fail(h, copy[h], TRUE, "failed")
    /\ UNCHANGED <<record, checkpoint, proposal, wire, world, faults, history>>

TimedOut(h) ==
    /\ pc[h] = "await"
    /\ Fail(h, copy[h], FALSE, "ambiguous")
    /\ UNCHANGED <<record, checkpoint, proposal, wire, world, faults, history>>

Confirm(h) ==
    /\ pc[h] = "confirm"
    /\ \/ /\ approval' = [approval EXCEPT ![h] = "confirmed"]
          /\ Proceed(h, copy[h], "sent")
          /\ UNCHANGED faults
       \/ Fault /\ Fail(h, copy[h], FALSE, "ambiguous")
    /\ UNCHANGED <<record, checkpoint, proposal, wire, world, history>>

WriteSent(h) ==
    LET r == [copy[h] EXCEPT !.state = IF pc[h] = "sent" THEN "SENT" ELSE "AWAITING_RESPONSE"] IN
    /\ pc[h] \in {"sent", "awaiting"}
    /\ \/ /\ Write(h, r)
          /\ IF pc[h] = "sent" THEN Proceed(h, r, "awaiting") ELSE End(h)
          /\ UNCHANGED faults
       \/ /\ Fault
          /\ Proceed(h, [r EXCEPT !.state = "AMBIGUOUS_DELIVERY"], "conclude")
          /\ UNCHANGED record
    /\ UNCHANGED <<approval, checkpoint, proposal, wire, world, history>>

Conclude(h) ==
    /\ pc[h] = "conclude"
    /\ EndWith(h, copy[h])
    /\ UNCHANGED <<approval, checkpoint, proposal, wire, world, faults, history>>

-----------------------------------------------------------------------------
(* receive, timeout, proposal *)

\* completePendingCursor: the observation is linked, but the cursor or the mark
\* of the response is not written yet.
Pending(h, r) ==
    /\ r.linked
    /\ \/ r.cursor < checkpoint[h].hi
       \/ r.response # None /\ ~r.acked

Resume(h, r) == IF r.cursor < checkpoint[h].hi THEN "cursor" ELSE "acked"

Receive(h) ==
    LET r == record[h]
        waiting == [r EXCEPT !.state = "AWAITING_RESPONSE"] IN
    /\ r.response # "unsafe"
    /\ \/ Pending(h, r) /\ Open(h, "receive", r, Resume(h, r)) /\ UNCHANGED record
       \/ /\ ~Pending(h, r)
          /\ \/ r.state = "AWAITING_RESPONSE"
             \/ r.state = "SENT" /\ approval[h] = "confirmed"
          /\ Open(h, "receive", waiting, "recover")
          /\ Write(h, waiting)
    /\ UNCHANGED <<approval, checkpoint, proposal, wire, world, faults, history>>

Timeout(h) ==
    /\ record[h].state = "AWAITING_RESPONSE"
    /\ Open(h, "timeout", record[h], "recover")
    /\ UNCHANGED <<files, wire, world, faults, history>>

\* A read for every call before the deadline.
MutMayRead(h) == h \notin expired

\* One read, before the deadline.
MayRead(h) == h \notin expired /\ copy[h].reads = 0

\* What a read has left unlinked is taken up before anything is judged by the
\* clock; a file that is not whole, or that this attempt cannot read, settles
\* the handshake as ambiguous.
Recover(h) ==
    LET r == copy[h] IN
    /\ pc[h] = "recover"
    /\ \/ /\ ~r.linked
          /\ \/ checkpoint[h] # None /\ checkpoint[h].stage = "partial" /\ UNCHANGED faults
             \/ Fault
          /\ EndWith(h, [r EXCEPT !.state = "AMBIGUOUS_DELIVERY", !.failure = TRUE])
          /\ UNCHANGED checkpoint
       \/ /\ ~r.linked /\ checkpoint[h] # None /\ checkpoint[h].stage # "partial"
          /\ checkpoint' = [checkpoint EXCEPT ![h].stage = "final"]
          /\ Proceed(h, r, "process")
          /\ UNCHANGED <<record, faults>>
       \/ /\ r.linked \/ checkpoint[h] = None
          /\ \/ op[h] = "timeout" /\ Proceed(h, r, "timeout") /\ UNCHANGED record
             \/ op[h] = "receive" /\ ~MayRead(h) /\ End(h) /\ UNCHANGED record
             \/ /\ op[h] = "receive" /\ MayRead(h)
                /\ Write(h, [r EXCEPT !.reads = 1])
                /\ Proceed(h, [r EXCEPT !.reads = 1], "read")
          /\ UNCHANGED <<checkpoint, faults>>
    /\ UNCHANGED <<approval, proposal, wire, world, history>>

Later(a, b) == IF a < b THEN b ELSE a

\* What the service answers from s on: from its oldest message, possibly not all.
Observations(h, s) ==
    LET first == Later(s, dropped)
        Naming(hi) == {i \in first + 1 .. hi : room[i][1] = h} IN
    {[stage |-> "partial", lo |-> IF hi = first THEN s ELSE first, hi |-> IF hi = first THEN s ELSE hi,
      last |-> Len(room), generation |-> generation,
      matching |-> {<<i, room[i][2]>> : i \in Naming(hi)}]
        : hi \in first .. Later(first, Len(room))}

\* The reading ends without a complete file, and says so.
ReadFails(h) == EndWith(h, [copy[h] EXCEPT !.failure = TRUE])

Get(h) ==
    /\ pc[h] = "read"
    /\ \/ /\ \E cp \in Observations(h, copy[h].since) : checkpoint' = [checkpoint EXCEPT ![h] = cp]
          /\ gets' = [gets EXCEPT ![h] = @ + 1]
          /\ missed' = [missed EXCEPT ![h] =
                \E i \in Later(copy[h].since, dropped) + 1 .. Len(room) : room[i][1] = h]
          /\ Proceed(h, copy[h], "persist")
          /\ UNCHANGED <<record, faults>>
       \/ /\ gets' \in {gets, [gets EXCEPT ![h] = @ + 1]}
          /\ \/ ReadFails(h) /\ UNCHANGED faults
             \/ Fault /\ End(h) /\ UNCHANGED record
          /\ UNCHANGED <<checkpoint, missed>>
    /\ UNCHANGED <<approval, proposal, wire, world, arrived>>

\* The candidate is opened, written and flushed, then renamed.
Persist(h) ==
    /\ pc[h] = "persist"
    /\ \/ /\ checkpoint' = [checkpoint EXCEPT ![h].stage =
                IF @ = "partial" THEN "candidate" ELSE "final"]
          /\ IF checkpoint[h].stage = "partial" THEN UNCHANGED local ELSE Proceed(h, copy[h], "process")
          /\ UNCHANGED <<record, faults>>
       \/ Fault /\ ReadFails(h) /\ UNCHANGED checkpoint
    /\ UNCHANGED <<approval, proposal, wire, world, history>>

\* Another generation, a gap, a regression, an incomplete window, two answers.
Unsafe(r, cp) ==
    \/ cp.generation # r.generation
    \/ cp.lo # r.since
    \/ cp.last < r.since
    \/ cp.hi < cp.last
    \/ \E m, n \in cp.matching : m # n

\* verifyResponse, with schema agreement
Judgement(kind) ==
    CASE kind = "yes" -> "ACCEPTED_EVIDENCE"
      [] kind = "no" -> "REJECTED"
      [] OTHER -> "INVALID_RESPONSE"

\* An unsafe window that is acknowledged like any other.
MutRefuseWindow(h, r) == Write(h, r) /\ Proceed(h, r, "cursor")

\* An unsafe window is evidence, but no cursor moves over it.
RefuseWindow(h, r) == EndWith(h, r)

Process(h) ==
    LET cp == checkpoint[h]
        r == [copy[h] EXCEPT !.linked = TRUE, !.failure = FALSE] IN
    /\ pc[h] = "process"
    /\ \/ /\ Unsafe(copy[h], cp)
          /\ RefuseWindow(h, [r EXCEPT !.state = "INVALID_RESPONSE", !.response = "unsafe"])
       \/ /\ ~Unsafe(copy[h], cp) /\ cp.matching = {}
          /\ Write(h, r) /\ Proceed(h, r, "cursor")
       \/ /\ ~Unsafe(copy[h], cp)
          /\ \E m \in cp.matching :
                LET s == [r EXCEPT !.state = Judgement(m[2]), !.response = m[2]] IN
                Write(h, s) /\ Proceed(h, s, "cursor")
    /\ UNCHANGED <<approval, checkpoint, proposal, wire, world, faults, history>>

\* advanceCursor, and what the caller goes on with.
AdvanceCursor(h) ==
    LET r == [copy[h] EXCEPT !.cursor = checkpoint[h].hi] IN
    /\ pc[h] = "cursor"
    /\ Write(h, r)
    /\ \/ r.response # None /\ Proceed(h, r, "acked")
       \/ r.response = None /\ op[h] = "timeout" /\ Proceed(h, r, "timeout")
       \/ r.response = None /\ op[h] # "timeout" /\ End(h)
    /\ UNCHANGED <<approval, checkpoint, proposal, wire, world, faults, history>>

WriteAcked(h) ==
    LET r == [copy[h] EXCEPT !.acked = TRUE] IN
    /\ pc[h] = "acked"
    /\ Write(h, r)
    /\ IF op[h] = "proposal" THEN Proceed(h, r, "propose") ELSE End(h)
    /\ UNCHANGED <<approval, checkpoint, proposal, wire, world, faults, history>>

\* Silence is concluded from the deadline alone.
MutSilence(r) == "NO_RESPONSE"

\* Silence takes a whole observation; else the exchange stays uncertain.
Silence(r) == IF r.linked /\ ~r.failure THEN "NO_RESPONSE" ELSE "AMBIGUOUS_DELIVERY"

ConcludeTimeout(h) ==
    LET r == copy[h] IN
    /\ pc[h] = "timeout"
    /\ \/ (r.reads = 0 \/ h \notin expired) /\ End(h) /\ UNCHANGED record
       \/ /\ r.reads = 1 /\ h \in expired
          /\ \/ Silence(r) = "NO_RESPONSE" /\ Pending(h, r) /\ Proceed(h, r, "cursor") /\ UNCHANGED record
             \/ ~(Silence(r) = "NO_RESPONSE" /\ Pending(h, r))
                  /\ EndWith(h, [r EXCEPT !.state = Silence(r), !.failure = @ \/ ~r.linked])
    /\ UNCHANGED <<approval, checkpoint, proposal, wire, world, faults, history>>

\* A proposal for whatever the peer has answered.
MutProposable(r) == r.response \in Kinds

Proposable(r) == r.state = "ACCEPTED_EVIDENCE"

Propose(h) ==
    /\ Proposable(record[h])
    /\ Open(h, "proposal", record[h], IF Pending(h, record[h]) THEN Resume(h, record[h]) ELSE "propose")
    /\ UNCHANGED <<files, wire, world, faults, history>>

\* The file is created once; one that a death left unlinked must say the same.
CreateProposal(h) ==
    /\ pc[h] = "propose"
    /\ proposal' = [proposal EXCEPT ![h] = TRUE]
    /\ Proceed(h, copy[h], "proposed")
    /\ UNCHANGED <<record, approval, checkpoint, wire, world, faults, history>>

LinkProposal(h) ==
    /\ pc[h] = "proposed"
    /\ EndWith(h, [copy[h] EXCEPT !.proposed = TRUE])
    /\ UNCHANGED <<approval, checkpoint, proposal, wire, world, faults, history>>

-----------------------------------------------------------------------------
(* Failures and the environment *)

\* A local step outside send and the read throws: the operation ends there.
StepThrows(h) ==
    /\ pc[h] \in {"create", "authorize", "conclude", "recover", "process", "cursor", "acked",
                  "timeout", "propose", "proposed"}
    /\ Fault
    /\ End(h)
    /\ UNCHANGED <<files, wire, world, history>>

\* The process dies; a later one finds its lock dead (see RuntimeLock).
Die(h) ==
    /\ pc[h] # "idle"
    /\ Fault
    /\ End(h)
    /\ UNCHANGED <<files, wire, world, history>>

Accept(h) ==
    /\ wire[h] = "request" /\ Len(room) < MaxMessages
    /\ arrived' = [arrived EXCEPT ![h] = @ + 1]
    /\ room' = Append(room, <<None, "other">>)
    /\ placed' = [placed EXCEPT ![h] = [seq |-> Len(room) + 1, generation |-> generation]]
    /\ \E answer \in {"posted", "lost"} : wire' = [wire EXCEPT ![h] = answer]
    /\ UNCHANGED <<files, local, dropped, generation, expired, contradicted, faults, gets, missed>>

Refuse(h) ==
    /\ wire[h] = "request"
    /\ \E answer \in {"refused", "lost"} : wire' = [wire EXCEPT ![h] = answer]
    /\ UNCHANGED <<files, local, world, faults, history>>

\* Nobody can name a handshake before its offer is in the room.
Speak ==
    /\ Len(room) < MaxMessages
    /\ \E m \in Messages :
          /\ m[1] # None => placed[m[1]].seq > 0
          /\ room' = Append(room, m)
    /\ UNCHANGED <<files, local, wire, placed, dropped, generation, expired, contradicted,
                   faults, history>>

Drop ==
    /\ dropped < Len(room)
    /\ dropped' = dropped + 1
    /\ UNCHANGED <<files, local, wire, placed, room, generation, expired, contradicted,
                   faults, history>>

Restart ==
    /\ generation < MaxRestarts
    /\ generation' = generation + 1
    /\ room' = <<>> /\ dropped' = 0
    /\ UNCHANGED <<files, local, wire, placed, expired, contradicted, faults, history>>

Expire(h) ==
    /\ expired' = expired \cup {h}
    /\ UNCHANGED <<files, local, wire, service, contradicted, faults, history>>

Contradict(h) ==
    /\ contradicted' = contradicted \cup {h}
    /\ UNCHANGED <<files, local, wire, service, expired, faults, history>>

Operation(h) ==
    \/ Prepare(h)
    \/ /\ record[h] # None
       /\ Authorize(h) \/ Send(h) \/ Receive(h) \/ Timeout(h) \/ Propose(h)

Step(h) ==
    \/ Create(h) \/ WriteAuthorized(h)
    \/ Consume(h) \/ Reserve(h) \/ Dispatch(h) \/ Post(h) \/ Answered(h) \/ TimedOut(h)
    \/ Confirm(h) \/ WriteSent(h) \/ Conclude(h)
    \/ Recover(h) \/ Get(h) \/ Persist(h) \/ Process(h) \/ AdvanceCursor(h) \/ WriteAcked(h)
    \/ ConcludeTimeout(h) \/ CreateProposal(h) \/ LinkProposal(h)

Next ==
    \/ \E h \in Handshakes :
          \/ Operation(h) \/ Step(h) \/ StepThrows(h) \/ Die(h)
          \/ Accept(h) \/ Refuse(h) \/ Expire(h) \/ Contradict(h)
    \/ Speak \/ Drop \/ Restart

Spec == Init /\ [][Next]_vars

-----------------------------------------------------------------------------

\* Every record that is written can be read again: what validateStored insists on
\* holds of each outcome, also of a send that expired behind its durable intent.
StoredIsReadable ==
    TypeOK /\ \A h \in Handshakes : record[h] # None => Readable(record[h])

\* An offer that is on record as rejected, without an answer of the peer, never
\* reaches the room; one that waits or was answered was accepted there.
VerdictsAreTrue ==
    \A h \in Handshakes : record[h] # None =>
        /\ record[h].state = "REJECTED" /\ record[h].response = None
              => arrived[h] = 0 /\ wire[h] # "request"
        /\ record[h].receipt => arrived[h] = 1

\* NO_RESPONSE stands for a whole observation with nothing in it: there was one
\* read, and the service had no answer to show then.
NoResponseIsComplete ==
    \A h \in Handshakes : record[h] # None /\ record[h].state = "NO_RESPONSE" =>
        /\ gets[h] = 1 /\ ~missed[h] /\ h \in expired
        /\ checkpoint[h].stage = "final" /\ checkpoint[h].hi = checkpoint[h].last

\* The cursor moves only over a window that is retained, linked and unbroken since
\* the offer; over anything else it stays where it was.
CursorBehindEvidence ==
    \A h \in Handshakes : record[h] # None /\ record[h].cursor # record[h].since =>
        /\ record[h].linked /\ checkpoint[h].stage = "final"
        /\ record[h].cursor = checkpoint[h].last
        /\ checkpoint[h].lo = record[h].since
        /\ checkpoint[h].generation = record[h].generation

\* Acceptance, and any proposal made of it, rests on the one retained answer of
\* the peer to the offer that was accepted.
AcceptedIsBacked ==
    \A h \in Handshakes :
        proposal[h] \/ (record[h] # None /\ record[h].state = "ACCEPTED_EVIDENCE") =>
            /\ checkpoint[h] # None /\ checkpoint[h].stage = "final"
            /\ \E m \in checkpoint[h].matching : checkpoint[h].matching = {m} /\ m[2] = "yes"
            /\ arrived[h] = 1 /\ gets[h] = 1

\* One offer, and one read behind it, whatever dies or fails where.
Exchange == INSTANCE OneExchange WITH
    Jobs <- Handshakes,
    permitted <- {h \in Handshakes : approval[h] \notin {"none", "requested"}},
    accepted <- arrived, observed <- gets

ImplementsOneExchange == Exchange!Spec

=============================================================================
