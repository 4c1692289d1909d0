----------------------------- MODULE PeerSession -----------------------------
(***************************************************************************)
(* SwarmSessionSupervisor (swarm/supervisor.ts) over SessionStateStore     *)
(* (swarm/session-state.ts), LocalSwarmRouter (swarm/router.ts) and        *)
(* ExternalTaskRouter (swarm/external.ts): the tasks of a session, the     *)
(* signed proposals and results its peers exchange about them, and what a  *)
(* reopened session makes of what a dead one left.                         *)
(*                                                                         *)
(* A session is one object, mem, that save writes to session.json, disk,   *)
(* as a whole; an operation is the code between two saves.  Operations run *)
(* one at a time (the queue of serial), so one pc serves the process.  A   *)
(* save that throws leaves its change in mem.  The nonce, the approval and *)
(* the runtime around a send are those of NonceStore, SignedSend and       *)
(* AgentRuntime.                                                           *)
(***************************************************************************)
EXTENDS Naturals, Sequences, FiniteSets

CONSTANTS
    Nodes,       \* tasks that may come into being
    Parent,      \* the task that delegates each, None for the root of a job
    Needs,       \* the tasks that each depends on, its parent among them
    Job,         \* the root of each
    Home,        \* the peer of each
    External,    \* roots that a message from outside proposes
    Flows,       \* the flows of roles that the operator may ask for
    None,
    Limits,      \* what the policy grants, per budget
    Scheduled,   \* peers whose rooms the policy has read on a schedule
    MaxRounds,   \* intakes that the policy schedules for each of them
    MaxOpens,    \* bound on the processes that serve the session
    MaxFaults    \* bound on deaths, failing steps, the expiry of the policy and
                 \* the operator's pause and continue files, taken together

Roots == {n \in Nodes : Parent[n] = None}
Children == Nodes \ Roots
Peers == {Home[n] : n \in Nodes}
Budgets == {"tasks", "outbound", "gets", "inference"}

ASSUME PeerSessionAssumption ==
    /\ Parent \in [Nodes -> Nodes \cup {None}] /\ None \notin Nodes
    /\ \A r \in Roots : Job[r] = r
    /\ \A n \in Children : Job[n] = Job[Parent[n]] /\ Home[n] # Home[Parent[n]]
    /\ Needs \in [Nodes -> SUBSET Nodes] /\ \A n \in Children : Parent[n] \in Needs[n]
    /\ \A n \in Nodes : \A m \in Needs[n] : Job[m] = Job[n]
    /\ External \subseteq Roots /\ Flows \subseteq Seq(Peers) \ {<<>>}
    /\ Limits \in [Budgets -> Nat] /\ Scheduled \subseteq Peers
    /\ MaxRounds \in Nat /\ MaxOpens \in Nat \ {0} /\ MaxFaults \in Nat

VARIABLES
    disk,        \* session.json
    runtime,     \* the agents' task files: the task of each node
    legacy,      \* external-proposals/<id>.json of ExternalTaskRouter
    cursor,      \* of each peer's room
    mem,         \* the session in memory, None without a process
    pc,          \* where its operation is
    at,          \* the effect, task or peer that operation is about
    seen,        \* how far its observation of the room reaches
    lost,        \* peers whose rooms have lost their history
    stopping,    \* stopRequested
    asked,       \* pause.json and continue.json
    offline,     \* the mode of the policy
    late,        \* has the policy expired?
    wire,        \* the signed POST of each effect
    room,        \* of each peer
    opens,       \* processes so far
    faults,      \* deaths, failed steps and files so far
    posted,      \* history: times each effect was accepted by the service
    computed     \* history: times each task was given to the provider

agents == <<runtime, legacy, cursor>>
held == <<seen, lost, stopping>>
outside == <<asked, offline, late, opens>>
network == <<wire, room, posted>>
vars == <<disk, mem, pc, at, faults, agents, held, outside, network, computed>>

\* An effect is the proposal of a task, or its result.
Effects == Children \X {"proposal", "result"}
Source(e) == IF e[2] = "proposal" THEN Home[Parent[e[1]]] ELSE Home[e[1]]
Target(e) == IF e[2] = "proposal" THEN Home[e[1]] ELSE Home[Parent[e[1]]]
TasksOf(r) == {n \in Nodes : Job[n] = r}

\* What someone outside posts: a proposal, and the same one with other content.
\* The content that arrives first is the offer.
Offers == External \X {"offer", "changed"}

Computes == {"absent", "planned", "accepted", "running", "result-ready", "failed", "ambiguous"}
Deliveries == {"absent", "local", "planned", "sent", "received", "needs-operator"}
Jobs == {"absent", "accepted", "running", "completed", "needs-operator"}
Statuses == {"absent", "send-prepared", "sending", "sent", "receiving", "received", "failed", "ambiguous"}

Sessions ==
    [life : {"starting", "active", "paused", "stopping", "stopped", "halted"},
     compute : [Nodes -> Computes], delivery : [Nodes -> Deliveries], job : [Roots -> Jobs],
     tasks : [Roots -> Seq(Nodes)], flow : [Roots -> Flows \cup {<<>>}],
     effect : [Effects -> Statuses],
     proposal : [External -> {"absent", "needs-operator", "accepted", "rejected"}],
     spent : [Budgets -> Nat], rounds : [Scheduled -> 0 .. MaxRounds]]

ASSUME SessionsAssumption == None \notin Sessions

Locations == {"off", "opening", "restoring", "idle", "stepping", "paused", "continued", "approved", "rooting", "accepting",
              "intake", "receiving", "read", "classify", "ack", "prepared", "sending", "await",
              "sent", "running", "inferring", "ran", "completing", "releasing"}

TypeOK ==
    /\ disk \in Sessions \cup {None} /\ mem \in Sessions \cup {None}
    /\ runtime \in [Nodes -> {"none", "pending", "running", "succeeded", "failed", "ambiguous"}]
    /\ legacy \in [External -> {"none", "proposed", "approved"}]
    /\ cursor \in [Peers -> Nat]
    /\ pc \in Locations
    /\ at \in Effects \cup Nodes \cup Peers \cup {None}
    /\ seen \in Nat /\ lost \subseteq Peers
    /\ asked \subseteq {"pause", "continue"}
    /\ stopping \in BOOLEAN /\ offline \in BOOLEAN /\ late \in BOOLEAN
    /\ wire \in [Effects -> {"none", "request", "posted", "refused", "lost"}]
    /\ room \in [Peers -> Seq(Effects \cup Offers)]
    /\ posted \in [Effects -> Nat] /\ computed \in [Nodes -> Nat]
    /\ opens \in 0 .. MaxOpens /\ faults \in 0 .. MaxFaults

New ==
    [life |-> "starting", compute |-> [n \in Nodes |-> "absent"], delivery |-> [n \in Nodes |-> "absent"],
     job |-> [r \in Roots |-> "absent"], tasks |-> [r \in Roots |-> <<>>],
     flow |-> [r \in Roots |-> <<>>], effect |-> [e \in Effects |-> "absent"], proposal |-> [r \in External |-> "absent"],
     spent |-> [b \in Budgets |-> 0], rounds |-> [p \in Scheduled |-> 0]]

Init ==
    /\ disk = None /\ mem = None
    /\ runtime = [n \in Nodes |-> "none"]
    /\ legacy = [r \in External |-> "none"]
    /\ cursor = [p \in Peers |-> 0]
    /\ pc = "off" /\ at = None /\ seen = 0
    /\ lost = {} /\ stopping = FALSE
    /\ asked = {} /\ offline \in BOOLEAN /\ late = FALSE
    /\ wire = [e \in Effects |-> "none"]
    /\ room = [p \in Peers |-> <<>>]
    /\ posted = [e \in Effects |-> 0]
    /\ computed = [n \in Nodes |-> 0]
    /\ opens = 0 /\ faults = 0

-----------------------------------------------------------------------------
(* Saving, halting and ending.                                             *)

Fault == faults < MaxFaults /\ faults' = faults + 1
Idle == pc = "idle" /\ mem # None

\* assertActive, authority.checkTime.
Active == mem # None /\ mem.life = "active" /\ ~stopping /\ ~late
Funded(b) == mem.spent[b] < Limits[b]
Spend(s, b) == [s EXCEPT !.spent[b] = @ + 1]

Goto(l, x) == pc' = l /\ at' = x
Rest == Goto("idle", None)
Halted(s) == [s EXCEPT !.life = "halted"]

\* halt: its own save may fail as well.
Halt(s) ==
    /\ mem' = Halted(s) /\ Rest
    /\ \/ disk' = Halted(s) /\ UNCHANGED faults
       \/ disk' = disk /\ Fault

\* A local step throws, and a catch block halts the session as in t.
Breaks(t) ==
    /\ Fault
    /\ mem' = Halted(t) /\ disk' \in {disk, Halted(t)} /\ Rest

\* A save, and where the operation goes on; or it throws.
Save(s, l, x, t) ==
    \/ mem' = s /\ disk' = s /\ Goto(l, x) /\ UNCHANGED faults
    \/ Breaks(t)

\* A save whose error reaches only the caller: the change stays in memory.
SaveOrThrow(s, l, x) ==
    \/ mem' = s /\ disk' = s /\ Goto(l, x) /\ UNCHANGED faults
    \/ mem' = s /\ disk' = disk /\ Rest /\ Fault

\* An effect between its intent and its evidence is given up, never repeated.
Settle(s) ==
    [s EXCEPT !.effect = [e \in Effects |->
        IF s.effect[e] \in {"sending", "receiving"} THEN "ambiguous" ELSE s.effect[e]]]

\* The process is gone, and with it the rooms of an offline session.
Ends ==
    /\ mem' = None /\ Goto("off", None) /\ seen' = 0
    /\ stopping' = FALSE /\ lost' = {}
    /\ room' = IF offline THEN [p \in Peers |-> <<>>] ELSE room
    /\ wire' = [e \in Effects |-> IF offline /\ wire[e] = "request" THEN "lost" ELSE wire[e]]
    /\ UNCHANGED posted

\* A result that was sent is taken for one that arrived.
MutDone(s, n) == s.compute[n] = "result-ready" /\ s.delivery[n] # "planned"

\* completeJobs: every task that the job has is done, and if it has a flow, they
\* are as many as its roles, whoever delegated them.
Done(s, n) == s.compute[n] = "result-ready" /\ s.delivery[n] \in {"local", "received"}
Completed(s) ==
    [s EXCEPT !.job = [r \in Roots |->
        IF /\ s.job[r] \notin {"absent", "needs-operator"}
           /\ s.flow[r] = <<>> \/ Len(s.tasks[r]) = Len(s.flow[r])
           /\ \A i \in DOMAIN s.tasks[r] : Done(s, s.tasks[r][i])
          THEN "completed" ELSE s.job[r]]]

Block(s, n) == [s EXCEPT !.job[Job[n]] = "needs-operator"]

\* The last lines of a step and of an intake.
Complete ==
    /\ pc = "completing"
    /\ Save(Completed(mem), "idle", None, Completed(mem))
    /\ UNCHANGED <<agents, held, outside, network, computed>>

-----------------------------------------------------------------------------
(* Opening, and what a reopened session makes of its record.               *)

Start ==
    /\ pc = "off" /\ opens = 0 /\ ~late
    /\ mem' = New /\ disk' = New
    /\ Goto("opening", None) /\ opens' = 1
    /\ UNCHANGED <<agents, held, asked, offline, late, network, faults, computed>>

\* Every runtime turns what it was running into an ambiguous task as it starts.
Resume ==
    /\ pc = "off" /\ disk # None
    /\ offline /\ ~late /\ opens < MaxOpens
    /\ opens' = opens + 1
    /\ lost' = {Target(e) : e \in {d \in Effects : disk.effect[d] # "absent"}}
    /\ mem' = [disk EXCEPT !.life = "starting"] /\ disk' = mem'
    /\ runtime' = [n \in Nodes |-> IF runtime[n] = "running" THEN "ambiguous" ELSE runtime[n]]
    /\ Goto("restoring", None) /\ asked' = {}
    /\ UNCHANGED <<legacy, cursor, seen, stopping, offline, late, network, faults, computed>>

Undelivered(s) == {e \in Effects : s.effect[e] \notin {"absent", "received"}}

\* An interrupted task is taken up again.
MutRecovered(s, n) ==
    IF s.compute[n] \in {"accepted", "running"}
      THEN CASE runtime[n] = "succeeded" -> "result-ready"
             [] runtime[n] = "failed" -> "failed"
             [] OTHER -> "accepted"
      ELSE IF n \in Roots /\ s.compute[n] = "planned" THEN "ambiguous" ELSE s.compute[n]

\* What restoreOfflineTasks makes of a task.
Recovered(s, n) ==
    IF s.compute[n] \in {"accepted", "running"}
      THEN CASE runtime[n] = "succeeded" -> "result-ready"
             [] runtime[n] = "failed" -> "failed"
             [] runtime[n] = "pending" /\ s.compute[n] = "accepted" -> "accepted"
             [] OTHER -> "ambiguous"
      ELSE IF n \in Roots /\ s.compute[n] = "planned" THEN "ambiguous" ELSE s.compute[n]

\* restoreOfflineTasks: what was not received is not sent again, and what may
\* have run is not run again.
Restored(s) ==
    LET unsent == {e[1] : e \in Undelivered(s)}
        broken == {n \in Nodes : /\ Recovered(s, n) # s.compute[n]
                                 /\ Recovered(s, n) \in {"failed", "ambiguous"}}
    IN Completed(
       [s EXCEPT
         !.effect = [e \in Effects |-> IF e \in Undelivered(s) /\ s.effect[e] # "failed"
                                         THEN "ambiguous" ELSE s.effect[e]],
         !.compute = [n \in Nodes |-> Recovered(s, n)],
         !.delivery = [n \in Nodes |-> IF n \in unsent THEN "needs-operator" ELSE s.delivery[n]],
         !.job = [r \in Roots |-> IF TasksOf(r) \cap (unsent \cup broken) # {}
                                    THEN "needs-operator" ELSE s.job[r]]])

Restore ==
    /\ pc = "restoring"
    /\ mem' = Restored(mem) /\ disk' = mem'
    /\ Goto("opening", None)
    /\ UNCHANGED <<agents, held, outside, network, faults, computed>>

Opened ==
    /\ pc = "opening"
    /\ mem' = [mem EXCEPT !.life = "active"] /\ disk' = mem'
    /\ Rest
    /\ UNCHANGED <<agents, held, outside, network, faults, computed>>

\* startup-failed: the record is halted, and the process ends.
StartupFails ==
    /\ pc \in {"restoring", "opening"} /\ Fault
    /\ disk' \in {disk, Halted(mem)}
    /\ Ends
    /\ UNCHANGED <<agents, outside, computed>>

-----------------------------------------------------------------------------
(* Jobs: submitted, approved from outside, delegated.                      *)

\* rootTask, up to its first save; a root without a budget is an error of
\* the caller.
Root(r, f) ==
    /\ Active /\ Funded("tasks") /\ mem.job[r] = "absent"
    /\ SaveOrThrow([Spend(mem, "tasks") EXCEPT
            !.job[r] = "accepted", !.tasks[r] = <<r>>, !.flow[r] = f,
            !.compute[r] = "planned", !.delivery[r] = "local"], "rooting", r)

\* Only an offline session takes an operator's task with a flow, whose first role
\* does the root.
Submittable(r, f) == r \notin External /\ (f # <<>> => offline /\ f[1] = Home[r])

Submit(r, f) ==
    /\ Idle /\ Submittable(r, f)
    /\ Root(r, f)
    /\ UNCHANGED <<agents, held, outside, network, computed>>

\* ExternalTaskRouter.approve: its file knows one approval of a proposal.
Approve(r) == legacy[r] = "proposed" /\ legacy' = [legacy EXCEPT ![r] = "approved"]

ApproveExternal(r) ==
    /\ Idle /\ Active
    /\ mem.proposal[r] = "needs-operator"
    /\ Approve(r)
    /\ Goto("approved", r)
    /\ UNCHANGED <<disk, mem, faults, runtime, cursor, held, outside, network, computed>>

RootExternal ==
    /\ pc = "approved"
    /\ \/ Root(at, <<>>)
       \/ /\ ~(Active /\ Funded("tasks"))
          /\ Rest /\ UNCHANGED <<disk, mem, faults>>
    /\ UNCHANGED <<agents, held, outside, network, computed>>

\* The runtime takes the task, and the session records that it did; either
\* may fail.
Enqueue ==
    /\ pc = "rooting"
    /\ LET failed == Block([mem EXCEPT !.compute[at] = "failed"], at) IN
       \/ /\ runtime' = [runtime EXCEPT ![at] = "pending"]
          /\ mem' = [mem EXCEPT !.compute[at] = "accepted"] /\ disk' = mem'
          /\ IF at \in External THEN Goto("accepting", at) ELSE Rest
          /\ UNCHANGED faults
       \/ /\ Fault
          /\ runtime' \in {runtime, [runtime EXCEPT ![at] = "pending"]}
          /\ mem' = failed /\ disk' \in {disk, failed}
          /\ Rest
    /\ UNCHANGED <<legacy, cursor, held, outside, network, computed>>

AcceptProposal ==
    /\ pc = "accepting"
    /\ SaveOrThrow([mem EXCEPT !.proposal[at] = "accepted"], "idle", None)
    /\ UNCHANGED <<agents, held, outside, network, computed>>

\* authorizeNode.
Authorized(n) == Active /\ (Job[n] \in External => mem.proposal[Job[n]] = "accepted")
Delegable(n) == Authorized(n) /\ Funded("tasks") /\ Funded("outbound") /\ Funded("inference")

\* delegateOwned: the job runs again, whatever its status was.
Planned(n) ==
    [Spend(mem, "tasks") EXCEPT
        !.job[Job[n]] = "running", !.tasks[Job[n]] = Append(@, n),
        !.compute[n] = "planned", !.delivery[n] = "planned"]

Delegate(n) ==
    /\ Idle /\ n \in Children
    /\ mem.compute[n] = "absent" /\ \A m \in Needs[n] : mem.compute[m] # "absent"
    /\ Delegable(n)
    /\ SaveOrThrow(Planned(n), "idle", None)
    /\ UNCHANGED <<agents, held, outside, network, computed>>

-----------------------------------------------------------------------------
(* A step: the flows of the operator first, then what is due at some peer. *)

Ready == pc \in {"idle", "stepping"} /\ Active

\* The last task of a job that has fewer tasks than its flow has roles.
FlowDue(n) ==
    LET tasks == mem.tasks[Job[n]] IN
    /\ mem.job[Job[n]] # "needs-operator"
    /\ Len(tasks) \in 1 .. Len(mem.flow[Job[n]]) - 1 /\ n = tasks[Len(tasks)]
    /\ \/ mem.compute[n] \in {"failed", "ambiguous"}
       \/ mem.delivery[n] = "needs-operator"
       \/ Done(mem, n)

\* The next role gets a task; or the work before it failed, or its input or a
\* budget does not allow it, and the job stops for its operator.
AdvanceFlow(n) ==
    /\ Ready /\ FlowDue(n)
    /\ \/ \E c \in Children :
             /\ Parent[c] = n /\ Needs[c] = {n} /\ mem.compute[c] = "absent"
             /\ Home[c] = mem.flow[Job[n]][Len(mem.tasks[Job[n]]) + 1]
             /\ Done(mem, n) /\ Delegable(c)
             /\ LET blocked == Block(Planned(c), n) IN
                \/ Save(Planned(c), "stepping", None, blocked)
                \/ mem' = blocked /\ disk' = blocked /\ Goto("stepping", None) /\ Fault
       \/ Save(Block(mem, n), "stepping", None, Block(mem, n))
    /\ UNCHANGED <<agents, held, outside, network, computed>>

\* The rest of the step finds the session stopped, or finds nothing to do.
StepEnds ==
    /\ pc = "stepping"
    /\ IF Active THEN Rest /\ UNCHANGED <<disk, mem, faults>> ELSE Halt(mem)
    /\ UNCHANGED <<agents, held, outside, network, computed>>

Sent(a) == {e \in Effects : Target(e) = a /\ mem.effect[e] = "sent"}
Receipts(a) == {e \in Sent(a) : mem.job[Job[e[1]]] # "needs-operator"}

\* Work behind a delegated task is not seen to be due.
MutDue(n) ==
    /\ mem.delivery[n] # "needs-operator" /\ mem.job[Job[n]] # "needs-operator"
    /\ \/ /\ mem.compute[n] = "planned"
          /\ \A m \in Needs[n] : mem.compute[m] = "result-ready" /\ mem.delivery[m] = "local"
       \/ mem.compute[n] = "accepted"
       \/ mem.compute[n] = "result-ready" /\ mem.delivery[n] = "planned"

Due(n) ==
    /\ mem.delivery[n] # "needs-operator" /\ mem.job[Job[n]] # "needs-operator"
    /\ \/ mem.compute[n] = "planned" /\ \A m \in Needs[n] : Done(mem, m)
       \/ mem.compute[n] = "accepted"
       \/ mem.compute[n] = "result-ready" /\ mem.delivery[n] = "planned"

\* What a step takes up at the peer of a task, if it has nothing to receive.
Chosen(n) ==
    /\ Ready /\ \A m \in Nodes : ~FlowDue(m)
    /\ Due(n) /\ Receipts(Home[n]) = {}

\* The message that a planned or a finished task needs.
Owed(n) == <<n, IF mem.compute[n] = "planned" THEN "proposal" ELSE "result">>

\* authorizeNode, the missing peer of a root's proposal and an exhausted
\* budget end in the catch block of step.
Unlawful(n) ==
    \/ ~Authorized(n)
    \/ mem.compute[n] = "planned" /\ n \in Roots
    \/ mem.compute[n] = "accepted" /\ ~Funded("inference")
    \/ /\ mem.compute[n] # "accepted" /\ n \in Children
       /\ Target(Owed(n)) \notin lost
       /\ mem.effect[Owed(n)] # "absent" \/ ~Funded("outbound")

Refuse(n) ==
    /\ Chosen(n) /\ Unlawful(n)
    /\ Halt(mem)
    /\ UNCHANGED <<agents, held, outside, network, computed>>

-----------------------------------------------------------------------------
(* Sending a proposal or a result, through the runtime of its source.      *)

\* A room without its history gets no second message.
Prepare(n) ==
    /\ Chosen(n) /\ ~Unlawful(n) /\ mem.compute[n] # "accepted"
    /\ LET lostRoom == [Block(mem, n) EXCEPT !.delivery[n] = "needs-operator"]
           prepared == [mem EXCEPT !.effect[Owed(n)] = "send-prepared"]
       IN IF Target(Owed(n)) \in lost
            THEN Save(lostRoom, "completing", None, lostRoom)
            ELSE Save(prepared, "prepared", Owed(n), prepared)
    /\ UNCHANGED <<agents, held, outside, network, computed>>

\* Everything before the dispatch may throw, in the runtime or around it.
Undispatched ==
    /\ pc = "prepared"
    /\ \/ ~(Active /\ Funded("outbound")) /\ UNCHANGED faults
       \/ Fault
    /\ mem' = Halted(mem) \/ mem' = Halted([mem EXCEPT !.effect[at] = "failed"])
    /\ disk' = mem' /\ Rest
    /\ UNCHANGED <<agents, held, outside, network, computed>>

\* The intent is saved with the outcome only.
MutDispatch ==
    /\ pc = "prepared"
    /\ Active /\ Funded("outbound")
    /\ mem' = [Spend(mem, "outbound") EXCEPT !.effect[at] = "sending"]
    /\ Goto("sending", at)
    /\ UNCHANGED <<disk, faults, agents, held, outside, network, computed>>

\* guardApproval, then dispatch as far as the durable intent.
Dispatch ==
    /\ pc = "prepared"
    /\ Active /\ Funded("outbound")
    /\ LET s == [Spend(mem, "outbound") EXCEPT !.effect[at] = "sending"]
       IN Save(s, "sending", at, s)
    /\ UNCHANGED <<agents, held, outside, network, computed>>

GivesUp(t) == Halt([mem EXCEPT !.effect[at] = t])

Post ==
    /\ pc = "sending"
    /\ IF Active
         THEN /\ wire' = [wire EXCEPT ![at] = "request"]
              /\ Goto("await", at)
              /\ UNCHANGED <<disk, mem, faults>>
         ELSE GivesUp("ambiguous") /\ UNCHANGED wire
    /\ UNCHANGED <<agents, held, outside, room, posted, computed>>

Answered ==
    /\ pc = "await" /\ wire[at] = "posted"
    /\ Save([mem EXCEPT !.effect[at] = "sent"], "sent", at, [mem EXCEPT !.effect[at] = "ambiguous"])
    /\ UNCHANGED <<agents, held, outside, network, computed>>

Rejected ==
    /\ pc = "await" /\ wire[at] = "refused"
    /\ GivesUp("failed")
    /\ UNCHANGED <<agents, held, outside, network, computed>>

\* The timer, an unreadable answer, a receipt of something else.
Unanswered ==
    /\ pc = "await"
    /\ GivesUp("ambiguous")
    /\ UNCHANGED <<agents, held, outside, network, computed>>

\* The runtime confirms its task, or fails to.
Finish ==
    /\ pc = "sent"
    /\ LET s == [mem EXCEPT !.delivery[at[1]] = IF at[2] = "result" THEN "sent" ELSE @]
       IN Save(s, "completing", None, s) \/ Breaks(mem)
    /\ UNCHANGED <<agents, held, outside, network, computed>>

-----------------------------------------------------------------------------
(* Working on a task.                                                      *)

Run(n) ==
    /\ Chosen(n) /\ ~Unlawful(n) /\ mem.compute[n] = "accepted"
    /\ LET s == [mem EXCEPT !.compute[n] = "running"] IN Save(s, "running", n, s)
    /\ UNCHANGED <<agents, held, outside, network, computed>>

\* beforeDispatch counts the inference before the provider sees it.
Infer ==
    /\ pc = "running"
    /\ Active /\ Funded("inference")
    /\ mem' = Spend(mem, "inference") /\ disk' = mem'
    /\ runtime' = [runtime EXCEPT ![at] = "running"]
    /\ computed' = [computed EXCEPT ![at] = @ + 1]
    /\ Goto("inferring", at)
    /\ UNCHANGED <<legacy, cursor, held, outside, network, faults>>

NotInferred ==
    /\ pc = "running"
    /\ \/ ~(Active /\ Funded("inference")) /\ UNCHANGED <<mem, faults>>
       \/ Fault /\ mem' \in {mem, Spend(mem, "inference")}
    /\ runtime' = [runtime EXCEPT ![at] = "failed"]
    /\ Goto("ran", at)
    /\ UNCHANGED <<disk, legacy, cursor, held, outside, network, computed>>

Return(o) ==
    /\ pc = "inferring"
    /\ runtime' = [runtime EXCEPT ![at] = o]
    /\ Goto("ran", at)
    /\ UNCHANGED <<disk, mem, faults, legacy, cursor, held, outside, network, computed>>

Recorded(n) ==
    IF runtime[n] = "succeeded"
      THEN [mem EXCEPT !.compute[n] = "result-ready"]
      ELSE Block([mem EXCEPT !.compute[n] = runtime[n]], n)

Record ==
    /\ pc = "ran"
    /\ Save(Recorded(at), "completing", None, Recorded(at))
    /\ UNCHANGED <<agents, held, outside, network, computed>>

\* The runtime throws, or the export of its evidence: the task is left running.
RunThrows ==
    /\ pc \in {"running", "inferring", "ran"}
    /\ Breaks(mem)
    /\ UNCHANGED <<agents, held, outside, network, computed>>

-----------------------------------------------------------------------------
(* Intake: one bounded read of a peer's room.                              *)

Received(s, a) ==
    [s EXCEPT !.effect = [e \in Effects |-> IF e \in Sent(a) THEN "receiving" ELSE s.effect[e]]]

\* receiveOwned, for what the session knows it has sent.
Receive(a) ==
    /\ Ready /\ \A n \in Nodes : ~FlowDue(n)
    /\ Receipts(a) # {}
    /\ Save(Received(mem, a), "receiving", a, Received(mem, a))
    /\ UNCHANGED <<agents, held, outside, network, computed>>

\* An idle peer looks for messages from outside.
ScheduledIntake(a) ==
    /\ Ready /\ \A n \in Nodes : ~FlowDue(n) /\ ~(Due(n) /\ Home[n] = a)
    /\ Receipts(a) = {} /\ mem.rounds[a] < MaxRounds
    /\ LET s == [mem EXCEPT !.rounds[a] = @ + 1] IN Save(s, "intake", a, s)
    /\ UNCHANGED <<agents, held, outside, network, computed>>

Intake ==
    /\ pc = "intake"
    /\ IF Active THEN Save(Received(mem, at), "receiving", at, Received(mem, at)) ELSE Halt(mem)
    /\ UNCHANGED <<agents, held, outside, network, computed>>

Read ==
    /\ pc = "receiving"
    /\ IF Active /\ Funded("gets")
         THEN Save(Spend(mem, "gets"), "read", at, Settle(Spend(mem, "gets")))
         ELSE Halt(Settle(mem))
    /\ UNCHANGED <<agents, held, outside, network, computed>>

\* How far a complete window reaches.  A room that lost its history answers
\* with the cursor it is asked for.
Window(a) == IF Len(room[a]) < cursor[a] THEN cursor[a] ELSE Len(room[a])

\* The window is kept before anything is made of it; the read may fail.
Peek ==
    /\ pc = "read"
    /\ \/ /\ seen' = Window(at)
          /\ Goto("classify", at) /\ UNCHANGED <<disk, mem, faults>>
       \/ Breaks(Settle(mem)) /\ UNCHANGED seen
    /\ UNCHANGED <<agents, lost, stopping, outside, network, computed>>

Messages(k) == {room[at][i] : i \in cursor[at] + 1 .. k}
Expected(M) == \A e \in Effects : Target(e) = at => (e \in M <=> mem.effect[e] = "receiving")

\* classifyInbound of the messages in M: a proposal becomes a task of the
\* target, a result completes the delivery, an offer waits for the operator.  An
\* offer with other content is a conflicting replay: the proposal is rejected, and
\* the job that was made of it stops.  (What validation refuses only leaves a
\* rejected proposal behind, which nothing reads: no such message is in a room here.)
Classified(M) ==
    LET replayed(r) == r \in External /\ <<r, "changed">> \in M IN
    [mem EXCEPT
        !.effect = [e \in Effects |-> IF e \in M THEN "received" ELSE @[e]],
        !.compute = [n \in Nodes |-> IF <<n, "proposal">> \in M THEN "accepted" ELSE @[n]],
        !.delivery = [n \in Nodes |-> IF <<n, "result">> \in M THEN "received" ELSE @[n]],
        !.job = [r \in Roots |-> IF replayed(r) /\ mem.proposal[r] = "accepted"
                                   THEN "needs-operator" ELSE @[r]],
        !.proposal = [r \in External |->
            IF replayed(r) THEN "rejected"
            ELSE IF <<r, "offer">> \in M /\ @[r] = "absent" THEN "needs-operator" ELSE @[r]]]

\* ExternalTaskRouter.classify: a message that has its file keeps it.
Filed(M) ==
    [r \in External |-> IF <<r, "offer">> \in M /\ legacy[r] = "none" THEN "proposed" ELSE legacy[r]]

Handed(M) ==
    /\ runtime' = [n \in Nodes |-> IF <<n, "proposal">> \in M THEN "pending" ELSE runtime[n]]
    /\ legacy' = Filed(M)

\* The acknowledgement comes before the save of what was read.
MutClassify ==
    /\ pc = "classify" /\ Active
    /\ Expected(Messages(seen))
    /\ mem' = Classified(Messages(seen))
    /\ Handed(Messages(seen))
    /\ Goto("ack", at)
    /\ UNCHANGED <<disk, faults, cursor, held, outside, network, computed>>

Classify ==
    /\ pc = "classify" /\ Active
    /\ LET M == Messages(seen) IN
       /\ Expected(M)
       /\ mem' = Classified(M) /\ disk' = mem'
       /\ Handed(M)
    /\ Goto("ack", at)
    /\ UNCHANGED <<faults, cursor, held, outside, network, computed>>

\* A message that nothing explains, an effect that is missing, a stop or a
\* failing step: the messages before it have been taken.
Unclassified ==
    /\ pc = "classify"
    /\ \E k \in cursor[at] .. seen :
          LET s == Halted(Settle(Classified(Messages(k)))) IN
          /\ mem' = s /\ Handed(Messages(k))
          /\ \/ (~Active \/ ~Expected(Messages(seen))) /\ disk' = s /\ UNCHANGED faults
             \/ disk' \in {disk, s} /\ Fault
    /\ Rest
    /\ UNCHANGED <<cursor, held, outside, network, computed>>

\* The runtime moves the cursor of its peer.
Ack ==
    /\ pc = "ack" /\ Active
    /\ cursor' = [cursor EXCEPT ![at] = seen] /\ seen' = 0
    /\ Goto("completing", None)
    /\ UNCHANGED <<disk, mem, faults, runtime, legacy, lost, stopping, outside, network, computed>>

Unacked ==
    /\ pc = "ack"
    /\ \/ ~Active /\ Halt(mem)
       \/ Breaks(mem)
    /\ UNCHANGED <<agents, held, outside, network, computed>>

-----------------------------------------------------------------------------
(* The operator's files, the end of the run loop, and what is outside.     *)

\* The error of a pause or a continue ends the loop of run.
Marked(s, l) ==
    \/ mem' = s /\ disk' = s /\ Goto(l, None) /\ UNCHANGED <<faults, stopping>>
    \/ mem' = s /\ disk' = disk /\ Rest /\ stopping' = TRUE /\ Fault

Pause ==
    /\ Idle /\ ~stopping /\ "pause" \in asked
    /\ mem.life \in {"active", "paused"}
    /\ Marked([mem EXCEPT !.life = "paused"], "paused")
    /\ UNCHANGED <<agents, seen, lost, outside, network, computed>>

Continue ==
    /\ Idle /\ ~stopping /\ "continue" \in asked /\ "pause" \notin asked
    /\ mem.life \in {"active", "paused"} /\ ~late
    /\ Marked([mem EXCEPT !.life = "active"], "continued")
    /\ UNCHANGED <<agents, seen, lost, outside, network, computed>>

\* The file is removed after it was obeyed, whatever was written meanwhile.
Unlink ==
    /\ pc \in {"paused", "continued"}
    /\ asked' = asked \ {IF pc = "paused" THEN "pause" ELSE "continue"}
    /\ Rest
    /\ UNCHANGED <<disk, mem, faults, agents, held, offline, late, opens, network, computed>>

RequestStop ==
    /\ mem # None /\ mem.life # "halted" /\ ~stopping
    /\ stopping' = TRUE
    /\ UNCHANGED <<disk, mem, pc, at, faults, agents, seen, lost, outside, network, computed>>

Leave(s) == IF s.life = "halted" THEN s.life ELSE "stopping"

\* stop: what is under way is given up, then the runtimes close.
Stop ==
    /\ Idle /\ (stopping \/ late \/ mem.life = "halted")
    /\ stopping' = TRUE
    /\ mem' = [Settle(mem) EXCEPT !.life = Leave(mem)]
    /\ \/ disk' = mem' /\ UNCHANGED faults
       \/ disk' = disk /\ Fault
    /\ Goto("releasing", None)
    /\ UNCHANGED <<agents, seen, lost, outside, network, computed>>

Release ==
    /\ pc = "releasing"
    /\ \/ disk' = [mem EXCEPT !.life = IF @ = "halted" THEN @ ELSE "stopped"] /\ UNCHANGED faults
       \/ disk' = disk /\ Fault
    /\ Ends
    /\ UNCHANGED <<agents, outside, computed>>

Die ==
    /\ mem # None /\ Fault
    /\ Ends
    /\ UNCHANGED <<disk, agents, outside, computed>>

\* The operator leaves a file for an offline session.
Ask(x) ==
    /\ offline /\ mem # None /\ mem.life \in {"active", "paused"}
    /\ x \notin asked /\ Fault
    /\ asked' = asked \cup {x}
    /\ UNCHANGED <<disk, mem, pc, at, agents, held, offline, late, opens, network, computed>>

Expire ==
    /\ ~late /\ late' = TRUE /\ Fault
    /\ UNCHANGED <<disk, mem, pc, at, agents, held, asked, offline, opens, network, computed>>

\* The service.
Accept(e) ==
    /\ wire[e] = "request"
    /\ wire' = [wire EXCEPT ![e] = "posted"]
    /\ room' = [room EXCEPT ![Target(e)] = Append(@, e)]
    /\ posted' = [posted EXCEPT ![e] = @ + 1]
    /\ UNCHANGED <<disk, mem, pc, at, faults, agents, held, outside, computed>>

Reject(e) ==
    /\ wire[e] = "request"
    /\ wire' = [wire EXCEPT ![e] = "refused"]
    /\ UNCHANGED <<disk, mem, pc, at, faults, agents, held, outside, room, posted, computed>>

\* A proposal of someone outside arrives in the room of a peer.
Propose(m) ==
    LET there == room[Home[m[1]]] IN
    /\ ~offline /\ \A i \in DOMAIN there : there[i] # m
    /\ m[2] = "changed" => \E i \in DOMAIN there : there[i] = <<m[1], "offer">>
    /\ room' = [room EXCEPT ![Home[m[1]]] = Append(@, m)]
    /\ UNCHANGED <<disk, mem, pc, at, faults, agents, held, outside, wire, posted, computed>>

-----------------------------------------------------------------------------

Opening == Resume \/ Restore \/ Opened \/ StartupFails

Rooting == RootExternal \/ Enqueue \/ AcceptProposal

Stepping ==
    \/ \E n \in Nodes : AdvanceFlow(n) \/ Refuse(n) \/ Prepare(n) \/ Run(n)
    \/ \E a \in Peers : Receive(a)
    \/ \E a \in Scheduled : ScheduledIntake(a)
    \/ StepEnds \/ Complete

Sending == Undispatched \/ Dispatch \/ Post \/ Answered \/ Rejected \/ Unanswered \/ Finish

Working == Infer \/ NotInferred \/ (\E o \in {"succeeded", "failed", "ambiguous"} : Return(o)) \/ Record \/ RunThrows

Receiving == Intake \/ Read \/ Peek \/ Classify \/ Unclassified \/ Ack \/ Unacked

Operating ==
    \/ \E r \in Roots, f \in Flows \cup {<<>>} : Submit(r, f)
    \/ \E r \in External : ApproveExternal(r)
    \/ \E n \in Nodes : Delegate(n)
    \/ RequestStop
    \/ \E x \in {"pause", "continue"} : Ask(x)

Ending == Pause \/ Continue \/ Unlink \/ Stop \/ Release \/ Die

Environment ==
    \/ \E e \in Effects : Accept(e) \/ Reject(e)
    \/ \E m \in Offers : Propose(m)
    \/ Expire

Next ==
    \/ Start \/ Opening \/ Rooting \/ Stepping \/ Sending \/ Working \/ Receiving
    \/ Operating \/ Ending \/ Environment

\* The process goes on with what it has begun; nothing is assumed of the
\* operator and of the service.
Process ==
    \/ Rooting \/ Stepping \/ Sending \/ Working \/ Receiving
    \/ Pause \/ Continue \/ Unlink \/ Stop \/ Release

Spec == Init /\ [][Next]_vars /\ WF_vars(Process)

-----------------------------------------------------------------------------

\* Whatever dies, is refused or is lost, the service accepts an effect once,
\* and the record on disk owns up to every POST that it may have accepted: no
\* such effect is absent, merely prepared or failed (dispatch saves the intent
\* first; restoreOfflineTasks and the catch blocks keep what is in doubt).
EffectsAreAccounted ==
    /\ TypeOK
    /\ \A e \in Effects :
        /\ posted[e] <= 1
        /\ wire[e] = "request" \/ posted[e] > 0 =>
              disk # None /\ disk.effect[e] \notin {"absent", "send-prepared", "failed"}

\* A job that the record calls completed has computed each of its tasks once,
\* and the proposal and the result of every delegated one went through the
\* service and were received; with a flow it has as many tasks as the flow has
\* roles (completeJobs).
CompletedIsBacked ==
    disk # None =>
    \A r \in Roots : disk.job[r] = "completed" =>
        /\ disk.flow[r] = <<>> \/ Len(disk.tasks[r]) = Len(disk.flow[r])
        /\ \A n \in TasksOf(r) :
            \/ disk.compute[n] = "absent"
            \/ /\ computed[n] = 1 /\ runtime[n] = "succeeded"
               /\ n \in Children => \A k \in {"proposal", "result"} :
                      posted[<<n, k>>] = 1 /\ disk.effect[<<n, k>>] = "received"

\* A cursor passes only messages that session.json has taken in: an internal
\* one as a received effect, whose task the runtime holds if it was a
\* proposal, one from outside as a proposal for the operator, and a conflicting
\* replay of it as a rejection (afterPersist saves before the acknowledgement).
AcknowledgedIsRecorded ==
    \A p \in Peers : \A i \in 1 .. Len(room[p]) : i <= cursor[p] =>
        LET m == room[p][i] IN
        IF m \in Offers
          THEN disk.proposal[m[1]] \in IF m[2] = "changed" THEN {"rejected"}
                                       ELSE {"needs-operator", "accepted", "rejected"}
          ELSE disk.effect[m] = "received" /\ (m[2] = "proposal" => runtime[m[1]] # "none")

Through(k) == [n \in Nodes |-> IF n \in Children THEN posted[<<n, k>>] ELSE 0]
Promise == INSTANCE Delegation WITH proposed <- Through("proposal"), answered <- Through("result")

\* Delegated work goes out, is done and comes back once, in that order,
\* across every process that serves the session.
ImplementsDelegation == Promise!Spec

\* While its session stays active, a job does not stay open for ever: it
\* completes, or it waits for the operator.  There are two exceptions: a job with
\* a broken task, and one that has more tasks than its flow has roles, which
\* delegateOwned calls running again.
Open(r) == mem # None /\ mem.life = "active" /\ mem.job[r] \in {"accepted", "running"}
Broken(n) == mem.compute[n] \in {"failed", "ambiguous"} \/ mem.delivery[n] = "needs-operator"
Overrun(r) == mem.flow[r] # <<>> /\ Len(mem.tasks[r]) > Len(mem.flow[r])
JobsSettle ==
    \A r \in Roots :
        Open(r) ~> (~Open(r) \/ Overrun(r) \/ \E n \in TasksOf(r) : Broken(n))

=============================================================================
