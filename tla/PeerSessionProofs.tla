------------------------- MODULE PeerSessionProofs -------------------------
(***************************************************************************)
(* Proof that a peer session never has an effect accepted twice, and that  *)
(* its record owns up to every POST, whatever dies and fails and however   *)
(* often it is reopened.  The argument is that of an intent log: what the  *)
(* record, in memory or on disk, calls absent or merely prepared has never *)
(* been on the wire, what it calls failed was refused or never sent, and a *)
(* POST leaves only behind the durable "sending".                          *)
(*                                                                         *)
(* Then that what the record says of its jobs and of its rooms is so, and  *)
(* that delegated work goes out, is done and comes back once.  A session,  *)
(* in memory or on disk, is shown to be true of what was computed, of the  *)
(* agents' tasks, of what the service accepted and of what was read, and   *)
(* a change to it to say nothing new, or only what has just become true.   *)
(*                                                                         *)
(* Last, the delivery process beside the session.  A session, in memory or *)
(* on disk, has counted every POST before it begins, and one that stopped  *)
(* with an outside job no longer changes; a delivery's record, approval    *)
(* and POST are true of each other wherever its operation stands.  So      *)
(* session and deliveries together stay in the outbound budget.            *)
(***************************************************************************)
EXTENDS ExternalDelivery, FiniteSetTheorems, TLAPS

\* Where an operation may be with what.
Fits(l, x) ==
    /\ l = "rooting" => x \in Roots
    /\ l \in {"approved", "accepting"} => x \in External
    /\ l \in {"running", "inferring", "ran"} => x \in Nodes
    /\ l \in {"prepared", "sending", "await", "sent"} => x \in Effects
    /\ l \in {"intake", "receiving", "read", "classify", "ack"} => x \in Peers

Positions ==
    /\ pc # "off" => mem # None
    /\ Fits(pc, at)
    /\ pc = "ran" => runtime[at] \in {"succeeded", "failed", "ambiguous"}

\* A session that is true of the wire, and owes nobody the result of a root.
Accounted(s) ==
    /\ \A e \in Effects :
          /\ s.effect[e] \in {"absent", "send-prepared"} => wire[e] = "none"
          /\ s.effect[e] = "failed" => wire[e] \in {"none", "refused"}
    /\ \A r \in Roots : s.delivery[r] # "planned"

PostedOnce == \A e \in Effects : posted[e] = IF wire[e] = "posted" THEN 1 ELSE 0

\* Without a record nothing has been sent.
NoRecordNoWire ==
    /\ opens = 0 => disk = None /\ mem = None
    /\ disk = None => \A e \in Effects : wire[e] = "none"

RecordsAccounted ==
    /\ disk # None => Accounted(disk)
    /\ mem # None => Accounted(mem)

\* The intent is in both sessions before anything can be on the wire.
IntentFirst ==
    /\ pc = "prepared" => mem.effect[at] = "send-prepared"
    /\ pc \in {"sending", "await"} =>
          mem.effect[at] = "sending" /\ disk # None /\ disk.effect[at] = "sending"
    /\ pc = "sending" => wire[at] = "none"

IInv == TypeOK /\ Positions /\ PostedOnce /\ NoRecordNoWire /\ RecordsAccounted /\ IntentFirst

\* A session that may stand where another stood: it says of no effect that it was
\* absent, prepared or failed, and of no root that it is owed, unless the other did.
Follows(t, s) ==
    /\ t \in Sessions
    /\ \A r \in Roots : t.delivery[r] = "planned" => s.delivery[r] = "planned"
    /\ \A e \in Effects :
          t.effect[e] \in {"absent", "send-prepared", "failed"} => t.effect[e] = s.effect[e]

Tame(s) == s \in Sessions /\ Accounted(s)

-----------------------------------------------------------------------------
(* Sessions.                                                               *)

LEMMA Tamed ==
    ASSUME NEW s, NEW t, Accounted(s), Follows(t, s)
    PROVE  Tame(t)
BY DEF Tame, Accounted, Follows

LEMMA EffectFacts ==
    ASSUME NEW e \in Effects
    PROVE  e[1] \in Nodes /\ e[1] \in Children /\ Source(e) \in Peers /\ Target(e) \in Peers
<1>1. e[1] \in Children /\ e[1] \in Nodes /\ Parent[e[1]] \in Nodes
  BY PeerSessionAssumption DEF Effects, Children, Roots
<1>2. Home[e[1]] \in Peers /\ Home[Parent[e[1]]] \in Peers
  BY <1>1 DEF Peers
<1> QED
  BY <1>1, <1>2 DEF Source, Target

LEMMA RootFacts ==
    /\ Roots \subseteq Nodes /\ Children \subseteq Nodes
    /\ External \subseteq Roots /\ Scheduled \subseteq Peers
BY PeerSessionAssumption DEF Roots, Children

LEMMA HaltedFollows ==
    ASSUME NEW s \in Sessions
    PROVE  Follows(Halted(s), s) /\ Halted(s).effect = s.effect
BY DEF Halted, Follows, Sessions

LEMMA SpendFollows ==
    ASSUME NEW s \in Sessions, NEW b \in Budgets
    PROVE  Follows(Spend(s, b), s) /\ Spend(s, b).effect = s.effect
<1> DEFINE spent == [s.spent EXCEPT ![b] = @ + 1]
<1>1. spent \in [Budgets -> Nat]
  BY DEF Sessions
<1>2. Spend(s, b) = [s EXCEPT !.spent = spent]
  BY DEF Spend, Sessions
<1> HIDE DEF spent
<1> QED
  BY <1>1, <1>2 DEF Follows, Sessions

LEMMA SettleFollows ==
    ASSUME NEW s \in Sessions
    PROVE  Follows(Settle(s), s)
<1>1. Settle(s) \in Sessions /\ Settle(s).delivery = s.delivery
  BY DEF Settle, Sessions, Statuses
<1>2. \A e \in Effects : Settle(s).effect[e] =
          IF s.effect[e] \in {"sending", "receiving"} THEN "ambiguous" ELSE s.effect[e]
  BY DEF Settle, Sessions
<1> QED
  BY <1>1, <1>2 DEF Follows

LEMMA BlockFollows ==
    ASSUME NEW s \in Sessions, NEW n
    PROVE  Follows(Block(s, n), s) /\ Block(s, n).effect = s.effect
BY DEF Block, Follows, Sessions, Jobs

LEMMA CompletedFollows ==
    ASSUME NEW s \in Sessions
    PROVE  Follows(Completed(s), s) /\ Completed(s).effect = s.effect
BY DEF Completed, Follows, Sessions, Jobs

LEMMA FollowsTransitive ==
    ASSUME NEW r, NEW s, NEW t, Follows(s, r), Follows(t, s)
    PROVE  Follows(t, r)
BY DEF Follows

LEMMA SameEffects ==
    ASSUME NEW s, NEW t \in Sessions, t.effect = s.effect, t.delivery = s.delivery
    PROVE  Follows(t, s)
BY DEF Follows

LEMMA NewTyped ==
    /\ New \in Sessions
    /\ \A e \in Effects : New.effect[e] = "absent"
    /\ \A r \in Roots : New.delivery[r] # "planned"
BY PeerSessionAssumption, RootFacts DEF New, Sessions, Computes, Deliveries, Jobs, Statuses, Budgets

LEMMA LifeFollows ==
    ASSUME NEW s \in Sessions,
           NEW l \in {"starting", "active", "paused", "stopping", "stopped", "halted"}
    PROVE  Follows([s EXCEPT !.life = l], s)
BY DEF Follows, Sessions

\* rootTask and delegateOwned.
LEMMA TaskFollows ==
    ASSUME NEW s \in Sessions, NEW r, NEW n, NEW j \in Jobs, NEW q, NEW c \in Computes,
           NEW d \in Deliveries, n \notin Roots \/ d # "planned",
           r \in Roots => q \in Seq(Nodes)
    PROVE  Follows([s EXCEPT !.job[r] = j, !.tasks[r] = q, !.compute[n] = c, !.delivery[n] = d], s)
BY RootFacts DEF Follows, Sessions

LEMMA RootedFollows ==
    ASSUME NEW s \in Sessions, NEW r \in Roots, NEW f \in Flows \cup {<<>>}
    PROVE  Follows([s EXCEPT !.job[r] = "accepted", !.tasks[r] = <<r>>, !.flow[r] = f,
                             !.compute[r] = "planned", !.delivery[r] = "local"], s)
<1>1. <<r>> \in Seq(Nodes)
  BY RootFacts
<1> DEFINE q == <<r>>
<1> HIDE DEF q
<1>2. q \in Seq(Nodes)
  BY <1>1 DEF q
<1>3. Follows([s EXCEPT !.job[r] = "accepted", !.tasks[r] = q, !.flow[r] = f,
                        !.compute[r] = "planned", !.delivery[r] = "local"], s)
  BY <1>2, RootFacts DEF Follows, Sessions, Jobs, Computes, Deliveries
<1> QED
  BY <1>3 DEF q

LEMMA ComputeFollows ==
    ASSUME NEW s \in Sessions, NEW n, NEW c \in Computes
    PROVE  Follows([s EXCEPT !.compute[n] = c], s)
BY DEF Follows, Sessions

LEMMA DeliveryFollows ==
    ASSUME NEW s \in Sessions, NEW n, NEW d \in Deliveries, n \notin Roots \/ d # "planned"
    PROVE  Follows([s EXCEPT !.delivery[n] = d], s)
BY RootFacts DEF Follows, Sessions

LEMMA EffectTyped ==
    ASSUME NEW s \in Sessions, NEW e \in Effects, NEW v \in Statuses
    PROVE  /\ [s EXCEPT !.effect[e] = v] \in Sessions
           /\ [s EXCEPT !.effect[e] = v].effect = [s.effect EXCEPT ![e] = v]
           /\ [s EXCEPT !.effect[e] = v].delivery = s.delivery
           /\ s.effect \in [Effects -> Statuses]
BY DEF Sessions

LEMMA EffectFollows ==
    ASSUME NEW s \in Sessions, NEW e \in Effects, NEW v \in {"sending", "sent", "ambiguous"}
    PROVE  Follows([s EXCEPT !.effect[e] = v], s)
<1>1. v \in Statuses
  BY DEF Statuses
<1> QED
  BY <1>1, EffectTyped DEF Follows

LEMMA PlannedFollows ==
    ASSUME mem \in Sessions, NEW n \in Children
    PROVE  Follows(Planned(n), mem)
<1>1. "tasks" \in Budgets /\ "running" \in Jobs /\ "planned" \in Computes /\ "planned" \in Deliveries
  BY DEF Budgets, Jobs, Computes, Deliveries
<1>2. Follows(Spend(mem, "tasks"), mem) /\ Spend(mem, "tasks") \in Sessions
  BY <1>1, SpendFollows DEF Follows
<1> DEFINE s == Spend(mem, "tasks")
           q == Append(s.tasks[Job[n]], n)
           t == [s EXCEPT !.job[Job[n]] = "running", !.tasks[Job[n]] = q,
                          !.compute[n] = "planned", !.delivery[n] = "planned"]
<1>4. Planned(n) = t
  BY <1>1, <1>2 DEF Planned, Sessions
<1>5. Job[n] \in Roots => q \in Seq(Nodes)
  BY <1>2, RootFacts DEF Sessions
<1> HIDE DEF s, q
<1>6. Follows(t, s)
  BY <1>1, <1>2, <1>5, TaskFollows DEF Children, s
<1>3. Follows(Planned(n), Spend(mem, "tasks"))
  BY <1>4, <1>6 DEF s
<1> QED
  BY <1>2, <1>3, FollowsTransitive

LEMMA RecoveredTyped ==
    ASSUME NEW s \in Sessions, NEW n \in Nodes
    PROVE  Recovered(s, n) \in Computes
<1>1. s.compute[n] \in Computes
  BY DEF Sessions
<1> QED
  BY <1>1 DEF Recovered, Computes

LEMMA RestoredFollows ==
    ASSUME NEW s \in Sessions
    PROVE  Follows(Restored(s), s)
<1> DEFINE unsent == {e[1] : e \in Undelivered(s)}
           broken == {n \in Nodes : /\ Recovered(s, n) # s.compute[n]
                                    /\ Recovered(s, n) \in {"failed", "ambiguous"}}
           effect == [e \in Effects |-> IF e \in Undelivered(s) /\ s.effect[e] # "failed"
                                          THEN "ambiguous" ELSE s.effect[e]]
           compute == [n \in Nodes |-> Recovered(s, n)]
           delivery == [n \in Nodes |-> IF n \in unsent THEN "needs-operator" ELSE s.delivery[n]]
           jobs == [r \in Roots |-> IF TasksOf(r) \cap (unsent \cup broken) # {}
                                     THEN "needs-operator" ELSE s.job[r]]
           t == [s EXCEPT !.effect = effect, !.compute = compute, !.delivery = delivery, !.job = jobs]
<1>1. Restored(s) = Completed(t)
  BY DEF Restored
<1>2. effect \in [Effects -> Statuses]
  BY DEF Sessions, Statuses
<1>3. compute \in [Nodes -> Computes]
  BY RecoveredTyped
<1>4. delivery \in [Nodes -> Deliveries]
  BY DEF Sessions, Deliveries
<1>10. \A r \in Roots : delivery[r] = "planned" => s.delivery[r] = "planned"
  BY RootFacts
<1>5. jobs \in [Roots -> Jobs]
  BY DEF Sessions, Jobs
<1> HIDE DEF compute, delivery, jobs
<1>6. t \in Sessions /\ t.effect = effect /\ t.delivery = delivery
  BY <1>2, <1>3, <1>4, <1>5 DEF Sessions
<1>7. \A e \in Effects : effect[e] \in {"absent", "send-prepared", "failed"} => effect[e] = s.effect[e]
  OBVIOUS
<1> HIDE DEF effect, t
<1>8. Follows(t, s)
  BY <1>6, <1>7, <1>10 DEF Follows
<1>9. Follows(Completed(t), t)
  BY <1>6, CompletedFollows
<1> QED
  BY <1>1, <1>8, <1>9, FollowsTransitive

LEMMA ReceivedFollows ==
    ASSUME NEW s \in Sessions, NEW a
    PROVE  Follows(Received(s, a), s)
<1> DEFINE effect == [e \in Effects |-> IF e \in Sent(a) THEN "receiving" ELSE s.effect[e]]
<1>1. effect \in [Effects -> Statuses]
  BY DEF Sessions, Statuses
<1>2. \A e \in Effects : effect[e] \in {"absent", "send-prepared", "failed"} => effect[e] = s.effect[e]
  OBVIOUS
<1> HIDE DEF effect
<1>3. /\ [s EXCEPT !.effect = effect] \in Sessions /\ [s EXCEPT !.effect = effect].effect = effect
      /\ [s EXCEPT !.effect = effect].delivery = s.delivery
  BY <1>1 DEF Sessions
<1> QED
  BY <1>2, <1>3 DEF Follows, Received, effect

LEMMA ClassifiedFollows ==
    ASSUME mem \in Sessions, NEW M
    PROVE  Follows(Classified(M), mem)
<1> DEFINE effect == [e \in Effects |-> IF e \in M THEN "received" ELSE mem.effect[e]]
           compute == [n \in Nodes |-> IF <<n, "proposal">> \in M THEN "accepted" ELSE mem.compute[n]]
           delivery == [n \in Nodes |-> IF <<n, "result">> \in M THEN "received" ELSE mem.delivery[n]]
           replayed(r) == r \in External /\ <<r, "changed">> \in M
           jobs == [r \in Roots |-> IF replayed(r) /\ mem.proposal[r] = "accepted"
                                      THEN "needs-operator" ELSE mem.job[r]]
           proposal == [r \in External |->
                           IF replayed(r) THEN "rejected"
                           ELSE IF <<r, "offer">> \in M /\ mem.proposal[r] = "absent"
                                  THEN "needs-operator" ELSE mem.proposal[r]]
           t == [mem EXCEPT !.effect = effect, !.compute = compute, !.delivery = delivery,
                            !.job = jobs, !.proposal = proposal]
<1>1. Classified(M) = t
  BY DEF Classified
<1>8. jobs \in [Roots -> Jobs]
  BY DEF Sessions, Jobs
<1>2. effect \in [Effects -> Statuses]
  BY DEF Sessions, Statuses
<1>3. compute \in [Nodes -> Computes] /\ delivery \in [Nodes -> Deliveries]
  BY DEF Sessions, Computes, Deliveries
<1>4. proposal \in [External -> {"absent", "needs-operator", "accepted", "rejected"}]
  BY DEF Sessions
<1>5. \A e \in Effects : effect[e] \in {"absent", "send-prepared", "failed"} => effect[e] = mem.effect[e]
  OBVIOUS
<1>7. \A r \in Roots : delivery[r] = "planned" => mem.delivery[r] = "planned"
  BY RootFacts
<1> HIDE DEF effect, compute, delivery, jobs, proposal
<1>6. t \in Sessions /\ t.effect = effect /\ t.delivery = delivery
  BY <1>2, <1>3, <1>4, <1>8 DEF Sessions
<1> QED
  BY <1>1, <1>5, <1>6, <1>7 DEF Follows

-----------------------------------------------------------------------------
(* Steps that leave the wire alone.                                        *)

Things == Effects \cup Nodes \cup Peers \cup {None}
Unsent == Locations \ {"prepared", "sending", "await"}

\* TypeOK of what is neither session nor operation.
Outer ==
    /\ runtime \in [Nodes -> {"none", "pending", "running", "succeeded", "failed", "ambiguous"}]
    /\ legacy \in [External -> {"none", "proposed", "approved"}]
    /\ cursor \in [Peers -> Nat]
    /\ seen \in Nat /\ lost \subseteq Peers
    /\ asked \subseteq {"pause", "continue"}
    /\ stopping \in BOOLEAN /\ offline \in BOOLEAN /\ late \in BOOLEAN
    /\ wire \in [Effects -> {"none", "request", "posted", "refused", "lost"}]
    /\ room \in [Peers -> Seq(Effects \cup Offers)]
    /\ posted \in [Effects -> Nat] /\ computed \in [Nodes -> Nat]
    /\ opens \in 0 .. MaxOpens

Kept ==
    /\ Tame(mem')
    /\ disk' = disk \/ Tame(disk')
    /\ faults' \in 0 .. MaxFaults

LEMMA Facts ==
    ASSUME IInv
    PROVE  /\ Outer
           /\ mem # None => Tame(mem)
           /\ disk # None => Tame(disk)
           /\ faults \in 0 .. MaxFaults
           /\ Fault => faults' \in 0 .. MaxFaults
<1>1. TypeOK /\ RecordsAccounted /\ MaxFaults \in Nat
  BY PeerSessionAssumption DEF IInv
<1>2. Outer /\ faults \in 0 .. MaxFaults
  BY <1>1 DEF TypeOK, Outer
<1>3. (mem # None => Tame(mem)) /\ (disk # None => Tame(disk))
  BY <1>1 DEF TypeOK, RecordsAccounted, Tame
<1>4. Fault => faults' \in 0 .. MaxFaults
  BY <1>1, <1>2 DEF Fault
<1> QED
  BY <1>2, <1>3, <1>4

LEMMA KeptStep ==
    ASSUME IInv, mem # None, Kept, UNCHANGED <<wire, posted, opens>>, Outer',
           pc' \in Locations, at' \in Things, Positions', IntentFirst'
    PROVE  IInv'
<1>1. mem' \in Sessions /\ disk' \in Sessions \cup {None} /\ mem' # None
  BY SessionsAssumption DEF Kept, Tame, IInv, TypeOK
<1>2. TypeOK'
  BY <1>1 DEF TypeOK, Outer, Kept, Things
<1>3. PostedOnce'
  BY DEF IInv, PostedOnce
<1>4. NoRecordNoWire'
  BY SessionsAssumption DEF IInv, NoRecordNoWire, Kept, Tame
<1>5. RecordsAccounted'
  <2>1. Accounted(mem)'
    BY DEF Kept, Tame, Accounted
  <2>2. CASE disk' = disk
    BY <2>1, <2>2 DEF IInv, RecordsAccounted, Accounted
  <2>3. CASE Tame(disk')
    BY <2>1, <2>3 DEF RecordsAccounted, Accounted, Tame
  <2> QED
    BY <2>2, <2>3 DEF Kept
<1> QED
  BY <1>2, <1>3, <1>4, <1>5 DEF IInv

LEMMA QuietStep ==
    ASSUME IInv, mem # None, Kept, UNCHANGED <<agents, held, outside, network, computed>>,
           pc' \in Unsent, at' \in Things, Fits(pc', at'), pc' # "ran"
    PROVE  IInv'
<1>1. Outer'
  <2>1. Outer
    BY Facts
  <2> QED
    BY <2>1 DEF Outer, agents, held, outside, network
<1>2. Positions'
  BY SessionsAssumption DEF Positions, Fits, Kept, Tame
<1>3. UNCHANGED <<wire, posted, opens>>
  BY DEF network, outside
<1>4. IntentFirst' /\ pc' \in Locations
  BY DEF IntentFirst, Unsent
<1> QED
  BY <1>1, <1>2, <1>3, <1>4, KeptStep

\* The agents' task files change as well.
LEMMA RuntimeStep ==
    ASSUME IInv, mem # None, Kept, UNCHANGED <<legacy, cursor, held, outside, network>>,
           runtime' \in [Nodes -> {"none", "pending", "running", "succeeded", "failed", "ambiguous"}],
           computed' \in [Nodes -> Nat],
           pc' \in Unsent, at' \in Things, Fits(pc', at'),
           pc' = "ran" => runtime'[at'] \in {"succeeded", "failed", "ambiguous"}
    PROVE  IInv'
<1>1. Outer'
  <2>1. Outer
    BY Facts
  <2> QED
    BY <2>1 DEF Outer, held, outside, network
<1>2. Positions'
  BY SessionsAssumption DEF Positions, Fits, Kept, Tame
<1>3. UNCHANGED <<wire, posted, opens>>
  BY DEF network, outside
<1>4. IntentFirst' /\ pc' \in Locations
  BY DEF IntentFirst, Unsent
<1> QED
  BY <1>1, <1>2, <1>3, <1>4, KeptStep

LEMMA HaltedTame ==
    ASSUME NEW s, Tame(s)
    PROVE  Tame(Halted(s))
BY HaltedFollows, Tamed DEF Tame

LEMMA IdleFits == "idle" \in Unsent /\ None \in Things /\ Fits("idle", None)
BY DEF Unsent, Locations, Things, Fits

LEMMA HaltKept ==
    ASSUME IInv, NEW s, Tame(s), Halt(s)
    PROVE  Kept /\ pc' = "idle" /\ at' = None
BY Facts, HaltedTame DEF Kept, Halt, Rest, Goto

LEMMA BreaksKept ==
    ASSUME IInv, NEW s, Tame(s), Breaks(s)
    PROVE  Kept /\ pc' = "idle" /\ at' = None
BY Facts, HaltedTame DEF Kept, Breaks, Rest, Goto

LEMMA SaveKept ==
    ASSUME IInv, NEW s, NEW t, Tame(s), Tame(t), NEW l, NEW x, Save(s, l, x, t)
    PROVE  /\ Kept
           /\ \/ pc' = l /\ at' = x /\ mem' = s /\ disk' = s
              \/ pc' = "idle" /\ at' = None
<1>1. CASE Breaks(t)
  BY <1>1, BreaksKept
<1>2. CASE mem' = s /\ disk' = s /\ Goto(l, x) /\ UNCHANGED faults
  BY <1>2, Facts DEF Kept, Goto
<1> QED
  BY <1>1, <1>2 DEF Save

LEMMA SaveOrThrowKept ==
    ASSUME IInv, NEW s, Tame(s), NEW l, NEW x, SaveOrThrow(s, l, x)
    PROVE  /\ Kept
           /\ \/ pc' = l /\ at' = x
              \/ pc' = "idle" /\ at' = None
BY Facts DEF Kept, SaveOrThrow, Rest, Goto

LEMMA SaveStep ==
    ASSUME IInv, mem # None, UNCHANGED <<agents, held, outside, network, computed>>,
           NEW s, NEW t, Tame(s), Tame(t), NEW l \in Unsent \ {"ran"}, NEW x \in Things, Fits(l, x),
           Save(s, l, x, t)
    PROVE  IInv'
<1>1. Kept /\ ((pc' = l /\ at' = x) \/ (pc' = "idle" /\ at' = None))
  BY SaveKept
<1> QED
  BY <1>1, IdleFits, QuietStep

LEMMA SaveOrThrowStep ==
    ASSUME IInv, mem # None, UNCHANGED <<agents, held, outside, network, computed>>,
           NEW s, Tame(s), NEW l \in Unsent \ {"ran"}, NEW x \in Things, Fits(l, x),
           SaveOrThrow(s, l, x)
    PROVE  IInv'
<1>1. Kept /\ ((pc' = l /\ at' = x) \/ (pc' = "idle" /\ at' = None))
  BY SaveOrThrowKept
<1> QED
  BY <1>1, IdleFits, QuietStep

LEMMA HaltStep ==
    ASSUME IInv, mem # None, UNCHANGED <<agents, held, outside, network, computed>>,
           NEW s, Tame(s), Halt(s) \/ Breaks(s)
    PROVE  IInv'
<1>1. Kept /\ pc' = "idle" /\ at' = None
  BY HaltKept, BreaksKept
<1> QED
  BY <1>1, IdleFits, QuietStep

\* What follows the session in memory may take its place.
LEMMA MemTame ==
    ASSUME IInv, mem # None
    PROVE  /\ mem \in Sessions /\ Tame(mem)
           /\ \A t : Follows(t, mem) => Tame(t)
<1>1. mem \in Sessions /\ Tame(mem)
  BY Facts DEF Tame
<1> QED
  BY <1>1, Tamed DEF Tame

\* Nothing happens to the session or its operation.
LEMMA StillStep ==
    ASSUME IInv, UNCHANGED <<disk, mem, pc, at, runtime, wire, posted, opens>>, Outer',
           faults' \in 0 .. MaxFaults
    PROVE  IInv'
<1>1. TypeOK'
  BY DEF IInv, TypeOK, Outer
<1>2. Positions'
  BY DEF IInv, Positions, Fits
<1>3. PostedOnce' /\ NoRecordNoWire' /\ RecordsAccounted' /\ IntentFirst'
  BY DEF IInv, PostedOnce, NoRecordNoWire, RecordsAccounted, Accounted, IntentFirst
<1> QED
  BY <1>1, <1>2, <1>3 DEF IInv

-----------------------------------------------------------------------------
(* The steps of the session, one by one.                                   *)

LEMMA InitStep == Init => IInv
<1> SUFFICES ASSUME Init PROVE IInv
  OBVIOUS
<1>1. /\ runtime \in [Nodes -> {"none", "pending", "running", "succeeded", "failed", "ambiguous"}]
      /\ legacy \in [External -> {"none", "proposed", "approved"}]
      /\ cursor \in [Peers -> Nat]
      /\ wire \in [Effects -> {"none", "request", "posted", "refused", "lost"}]
  BY DEF Init
<1>2. room \in [Peers -> Seq(Effects \cup Offers)]
  BY DEF Init
<1>3. posted \in [Effects -> Nat] /\ computed \in [Nodes -> Nat]
  BY DEF Init
<1>4. opens \in 0 .. MaxOpens /\ faults \in 0 .. MaxFaults /\ seen \in Nat
  BY PeerSessionAssumption DEF Init
<1>5. stopping \in BOOLEAN /\ offline \in BOOLEAN /\ late \in BOOLEAN
  BY DEF Init
<1>6. pc \in Locations /\ asked \subseteq {"pause", "continue"} /\ lost \subseteq Peers
  BY DEF Init, Locations
<1>7. TypeOK
  BY <1>1, <1>2, <1>3, <1>4, <1>5, <1>6 DEF Init, TypeOK
<1> QED
  BY <1>7 DEF Init, IInv, Positions, Fits, PostedOnce, NoRecordNoWire, RecordsAccounted, IntentFirst

LEMMA StartStep == IInv /\ Start => IInv'
<1> SUFFICES ASSUME IInv, Start PROVE IInv'
  OBVIOUS
<1>1. /\ Outer /\ disk = None /\ \A e \in Effects : wire[e] = "none"
      /\ UNCHANGED <<runtime, legacy, cursor, seen, lost, stopping, asked, offline, late, wire, room, posted, computed>>
  BY Facts DEF Start, IInv, NoRecordNoWire, agents, held, network
<1>2. Outer'
  BY <1>1, PeerSessionAssumption DEF Outer, Start
<1>3. /\ mem' \in Sessions /\ disk' = mem' /\ mem' # None
      /\ \A e \in Effects : mem'.effect[e] = "absent"
      /\ \A r \in Roots : mem'.delivery[r] # "planned"
  BY NewTyped, SessionsAssumption DEF Start
<1>4. TypeOK'
  BY <1>2, <1>3, Facts DEF TypeOK, Outer, Start, Goto, Locations
<1>5. Positions'
  BY <1>3 DEF Positions, Fits, Start, Goto
<1>6. RecordsAccounted' /\ NoRecordNoWire'
  BY <1>1, <1>3 DEF RecordsAccounted, Accounted, NoRecordNoWire, Start
<1>7. PostedOnce' /\ IntentFirst'
  BY <1>1 DEF PostedOnce, IntentFirst, IInv, Start, Goto
<1> QED
  BY <1>4, <1>5, <1>6, <1>7 DEF IInv

LEMMA ResumeStep == IInv /\ Resume => IInv'
<1> SUFFICES ASSUME IInv, Resume PROVE IInv'
  OBVIOUS
<1>1. /\ Outer /\ disk \in Sessions /\ Tame(disk)
      /\ UNCHANGED <<legacy, cursor, seen, stopping, offline, late, wire, room, posted, computed, faults>>
  BY Facts DEF Resume, Tame, network
<1>2. Outer'
  <2>1. opens' \in 0 .. MaxOpens
    BY <1>1, PeerSessionAssumption DEF Outer, Resume
  <2>2. lost' \subseteq Peers
    BY EffectFacts DEF Resume
  <2>3. runtime' \in [Nodes -> {"none", "pending", "running", "succeeded", "failed", "ambiguous"}]
    BY <1>1 DEF Outer, Resume
  <2> QED
    BY <1>1, <2>1, <2>2, <2>3 DEF Outer, Resume
<1>3. Follows(mem', disk)
  BY <1>1, LifeFollows DEF Resume
<1>4. Tame(mem') /\ mem' \in Sessions /\ disk' = mem' /\ mem' # None
  BY <1>1, <1>3, Tamed, SessionsAssumption DEF Tame, Resume
<1>5. TypeOK'
  BY <1>1, <1>2, <1>4, Facts DEF TypeOK, Outer, Resume, Goto, Locations
<1>6. Positions'
  BY <1>4 DEF Positions, Fits, Resume, Goto
<1>7. RecordsAccounted' /\ NoRecordNoWire'
  <2>1. opens' # 0
    BY <1>1 DEF Resume, Outer
  <2> QED
    BY <1>1, <1>4, <2>1 DEF RecordsAccounted, Accounted, Tame, NoRecordNoWire
<1>8. PostedOnce' /\ IntentFirst'
  BY <1>1 DEF PostedOnce, IntentFirst, IInv, Resume, Goto
<1> QED
  BY <1>5, <1>6, <1>7, <1>8 DEF IInv

\* The process is gone: what is under way in an offline session is lost.
LEMMA EndsStep ==
    ASSUME IInv, mem # None, Ends, UNCHANGED <<agents, outside, computed>>,
           disk' = disk \/ Tame(disk'), faults' \in 0 .. MaxFaults
    PROVE  IInv'
<1>1. /\ Outer /\ wire \in [Effects -> {"none", "request", "posted", "refused", "lost"}]
      /\ UNCHANGED <<runtime, legacy, cursor, asked, offline, late, opens, computed, posted>>
      /\ mem' = None /\ pc' = "off" /\ at' = None /\ seen' = 0 /\ stopping' = FALSE /\ lost' = {}
  BY Facts DEF Outer, Ends, Goto, agents, outside
<1>2. wire' \in [Effects -> {"none", "request", "posted", "refused", "lost"}]
  BY <1>1 DEF Ends
<1>3. \A e \in Effects : wire'[e] = wire[e] \/ (wire[e] = "request" /\ wire'[e] = "lost")
  BY <1>1 DEF Ends
<1>4. room' \in [Peers -> Seq(Effects \cup Offers)]
  BY <1>1 DEF Ends, Outer
<1>5. Outer'
  BY <1>1, <1>2, <1>4 DEF Outer
<1>6. disk' \in Sessions \cup {None}
  BY DEF Tame, IInv, TypeOK
<1>7. TypeOK'
  BY <1>1, <1>5, <1>6 DEF TypeOK, Outer, Locations
<1>8. Positions' /\ IntentFirst'
  BY <1>1 DEF Positions, Fits, IntentFirst
<1>9. PostedOnce'
  BY <1>1, <1>3 DEF PostedOnce, IInv
<1>10. NoRecordNoWire'
  BY <1>1, <1>3, SessionsAssumption DEF NoRecordNoWire, IInv, Tame
<1>11. ASSUME NEW s, Accounted(s)
       PROVE  /\ \A r \in Roots : s.delivery[r] # "planned"
              /\ \A e \in Effects :
                    /\ s.effect[e] \in {"absent", "send-prepared"} => wire'[e] = "none"
                    /\ s.effect[e] = "failed" => wire'[e] \in {"none", "refused"}
  BY <1>3, <1>11 DEF Accounted
<1>12. RecordsAccounted'
  <2>1. disk' # None => Accounted(disk')
    BY DEF Tame, IInv, RecordsAccounted
  <2>2. (disk # None)' => Accounted(disk)'
    BY <1>11, <2>1 DEF Accounted
  <2> QED
    BY <1>1, <2>2 DEF RecordsAccounted
<1> QED
  BY <1>7, <1>8, <1>9, <1>10, <1>12 DEF IInv

LEMMA OpeningStep == IInv /\ Opening => IInv'
<1> SUFFICES ASSUME IInv, Opening PROVE IInv'
  OBVIOUS
<1>1. CASE Resume
  BY <1>1, ResumeStep
<1>2. CASE Restore
  <2>1. mem # None
    BY <1>2 DEF Restore, IInv, Positions
  <2>2. Tame(mem')
    BY <1>2, <2>1, MemTame, RestoredFollows DEF Restore
  <2>3. Kept
    BY <1>2, <2>2, Facts DEF Kept, Restore
  <2> QED
    BY <1>2, <2>1, <2>3, QuietStep DEF Restore, Goto, Unsent, Locations, Things, Fits
<1>3. CASE Opened
  <2>1. mem # None
    BY <1>3 DEF Opened, IInv, Positions
  <2>2. Tame(mem')
    BY <1>3, <2>1, MemTame, LifeFollows DEF Opened
  <2>3. Kept
    BY <1>3, <2>2, Facts DEF Kept, Opened
  <2> QED
    BY <1>3, <2>1, <2>3, QuietStep, IdleFits DEF Opened, Rest, Goto
<1>4. CASE StartupFails
  <2>1. mem # None
    BY <1>4 DEF StartupFails, IInv, Positions
  <2>2. Tame(Halted(mem))
    BY <2>1, MemTame, HaltedTame
  <2> QED
    BY <1>4, <2>1, <2>2, Facts, EndsStep DEF StartupFails
<1> QED
  BY <1>1, <1>2, <1>3, <1>4 DEF Opening

LEMMA RootStep ==
    ASSUME IInv, UNCHANGED <<agents, held, outside, network, computed>>,
           NEW r \in Roots, NEW f \in Flows \cup {<<>>}, Root(r, f)
    PROVE  IInv'
<1> DEFINE s == Spend(mem, "tasks")
           t == [s EXCEPT !.job[r] = "accepted", !.tasks[r] = <<r>>, !.flow[r] = f,
                          !.compute[r] = "planned", !.delivery[r] = "local"]
<1>1. mem # None
  BY DEF Root, Active
<1>2. Follows(s, mem) /\ s \in Sessions
  BY <1>1, MemTame, SpendFollows DEF Budgets, Follows
<1>3. Follows(t, s)
  BY <1>2, RootedFollows
<1>4. Tame(t)
  BY <1>1, <1>2, <1>3, FollowsTransitive, MemTame
<1>5. SaveOrThrow(t, "rooting", r)
  BY DEF Root
<1>6. "rooting" \in Unsent \ {"ran"} /\ r \in Things /\ Fits("rooting", r)
  BY RootFacts DEF Unsent, Locations, Things, Fits
<1> HIDE DEF t
<1> QED
  BY <1>1, <1>4, <1>5, <1>6, SaveOrThrowStep

LEMMA RootingStep == IInv /\ Rooting => IInv'
<1> SUFFICES ASSUME IInv, Rooting PROVE IInv'
  OBVIOUS
<1>1. CASE RootExternal
  <2>1. mem # None /\ at \in Roots
    BY <1>1, RootFacts DEF RootExternal, IInv, Positions, Fits
  <2>2. CASE Root(at, <<>>)
    BY <1>1, <2>1, <2>2, RootStep DEF RootExternal
  <2>3. CASE Rest /\ UNCHANGED <<disk, mem, faults>>
    <3>1. Kept
      BY <2>1, <2>3, Facts DEF Kept
    <3> QED
      BY <1>1, <2>1, <2>3, <3>1, QuietStep, IdleFits DEF RootExternal, Rest, Goto
  <2> QED
    BY <1>1, <2>2, <2>3 DEF RootExternal
<1>2. CASE Enqueue
  <2> DEFINE failing == [mem EXCEPT !.compute[at] = "failed"]
             accepting == [mem EXCEPT !.compute[at] = "accepted"]
  <2>1. mem # None /\ mem \in Sessions /\ at \in Roots /\ at \in Nodes /\ at \in Things
    BY <1>2, RootFacts, MemTame DEF Enqueue, IInv, Positions, Fits, Things
  <2>2. Tame(accepting)
    BY <2>1, ComputeFollows, MemTame DEF Computes
  <2>3. Tame(Block(failing, at))
    <3>3. "failed" \in Computes
      BY DEF Computes
    <3>4. Follows(failing, mem)
      BY <2>1, <3>3, ComputeFollows
    <3> HIDE DEF failing
    <3>1. Follows(failing, mem) /\ failing \in Sessions
      BY <3>4 DEF Follows
    <3>2. Follows(Block(failing, at), failing)
      BY <3>1, BlockFollows
    <3> QED
      BY <2>1, <3>1, <3>2, FollowsTransitive, MemTame
  <2>4. runtime \in [Nodes -> {"none", "pending", "running", "succeeded", "failed", "ambiguous"}]
        /\ computed \in [Nodes -> Nat]
    BY Facts DEF Outer
  <2>5. runtime' \in {runtime, [runtime EXCEPT ![at] = "pending"]}
    BY <1>2 DEF Enqueue
  <2>6. runtime' \in [Nodes -> {"none", "pending", "running", "succeeded", "failed", "ambiguous"}]
    BY <2>4, <2>5
  <2>7. Kept
    BY <1>2, <2>2, <2>3, Facts DEF Kept, Enqueue
  <2>8. /\ pc' \in {"idle", "accepting"} /\ at' \in {at, None}
        /\ pc' = "accepting" => at' = at /\ at \in External
    BY <1>2 DEF Enqueue, Rest, Goto
  <2>9. pc' \in Unsent /\ at' \in Things /\ Fits(pc', at')
    BY <2>1, <2>8 DEF Unsent, Locations, Things, Fits
  <2>10. computed' = computed /\ UNCHANGED <<legacy, cursor, held, outside, network>>
    BY <1>2 DEF Enqueue
  <2> QED
    BY <2>1, <2>4, <2>6, <2>7, <2>8, <2>9, <2>10, RuntimeStep
<1>3. CASE AcceptProposal
  <2> DEFINE t == [mem EXCEPT !.proposal[at] = "accepted"]
  <2>1. mem # None /\ mem \in Sessions
    BY <1>3, MemTame DEF AcceptProposal, IInv, Positions
  <2>2. t \in Sessions /\ t.effect = mem.effect /\ t.delivery = mem.delivery
    BY <2>1 DEF Sessions
  <2>3. Tame(t)
    BY <2>1, <2>2, SameEffects, MemTame
  <2> HIDE DEF t
  <2>4. SaveOrThrow(t, "idle", None)
    BY <1>3 DEF AcceptProposal, t
  <2> QED
    BY <1>3, <2>1, <2>3, <2>4, IdleFits, SaveOrThrowStep DEF AcceptProposal
<1> QED
  BY <1>1, <1>2, <1>3 DEF Rooting

\* A save of what follows the session in memory.
LEMMA FollowStep ==
    ASSUME IInv, mem # None, UNCHANGED <<agents, held, outside, network, computed>>,
           NEW s, NEW t, Follows(s, mem), Follows(t, mem),
           NEW l \in Unsent \ {"ran"}, NEW x \in Things, Fits(l, x), Save(s, l, x, t)
    PROVE  IInv'
BY MemTame, SaveStep

\* The operator's flow goes on from n to c.
Advances(n, c) ==
    /\ Ready /\ FlowDue(n) /\ Done(mem, n) /\ Delegable(c)
    /\ Parent[c] = n /\ Needs[c] = {n} /\ mem.compute[c] = "absent"
    /\ LET blocked == Block(Planned(c), n) IN
       \/ Save(Planned(c), "stepping", None, blocked)
       \/ mem' = blocked /\ disk' = blocked /\ Goto("stepping", None) /\ Fault

LEMMA Advancing ==
    ASSUME NEW n, AdvanceFlow(n)
    PROVE  \/ \E c \in Children : Advances(n, c)
           \/ Save(Block(mem, n), "stepping", None, Block(mem, n))
BY DEF AdvanceFlow, Advances

LEMMA AdvanceFlowStep == \A n \in Nodes : IInv /\ AdvanceFlow(n) => IInv'
<1> SUFFICES ASSUME NEW n \in Nodes, IInv, AdvanceFlow(n) PROVE IInv'
  OBVIOUS
<1>1. mem # None /\ mem \in Sessions /\ UNCHANGED <<agents, held, outside, network, computed>>
  BY MemTame DEF AdvanceFlow, Ready, Active
<1>2. "stepping" \in Unsent \ {"ran"} /\ None \in Things /\ Fits("stepping", None)
  BY DEF Unsent, Locations, Things, Fits
<1>3. ASSUME NEW c \in Children, Advances(n, c) PROVE IInv'
  <2> DEFINE blocked == Block(Planned(c), n)
  <2>1. Follows(Planned(c), mem) /\ Planned(c) \in Sessions
    BY <1>1, PlannedFollows DEF Follows
  <2>2. Follows(blocked, mem)
    BY <2>1, BlockFollows, FollowsTransitive
  <2>3. CASE Save(Planned(c), "stepping", None, blocked)
    BY <1>1, <1>2, <2>1, <2>2, <2>3, FollowStep
  <2>4. CASE mem' = blocked /\ disk' = blocked /\ Goto("stepping", None) /\ Fault
    <3>1. Tame(blocked)
      BY <1>1, <2>2, MemTame
    <3>2. Kept
      BY <2>4, <3>1, Facts DEF Kept
    <3> QED
      BY <1>1, <1>2, <2>4, <3>2, QuietStep DEF Goto
  <2> QED
    BY <1>3, <2>3, <2>4 DEF Advances
<1>4. CASE Save(Block(mem, n), "stepping", None, Block(mem, n))
  <2>1. Follows(Block(mem, n), mem)
    BY <1>1, BlockFollows
  <2> QED
    BY <1>1, <1>2, <1>4, <2>1, FollowStep
<1> QED
  BY <1>3, <1>4, Advancing

LEMMA PrepareStep == \A n \in Nodes : IInv /\ Prepare(n) => IInv'
<1> SUFFICES ASSUME NEW n \in Nodes, IInv, Prepare(n) PROVE IInv'
  OBVIOUS
<1> DEFINE e == Owed(n)
           blocked == Block(mem, n)
           lostRoom == [blocked EXCEPT !.delivery[n] = "needs-operator"]
           prepared == [mem EXCEPT !.effect[e] = "send-prepared"]
<1>1. mem # None /\ mem \in Sessions /\ UNCHANGED <<agents, held, outside, network, computed>>
  BY MemTame DEF Prepare, Chosen, Ready, Active
<1>2. Due(n) /\ mem.compute[n] # "accepted" /\ ~Unlawful(n)
  BY DEF Prepare, Chosen
<1>3. n \in Children
  <2>1. CASE mem.compute[n] = "planned"
    BY <1>2, <2>1 DEF Unlawful, Children
  <2>2. CASE mem.delivery[n] = "planned"
    BY <1>1, <2>2 DEF IInv, RecordsAccounted, Accounted, Children
  <2> QED
    BY <1>2, <2>1, <2>2 DEF Due
<1>4. e \in Effects
  BY <1>3 DEF Owed, Effects
<1> HIDE DEF e
<1>5. CASE Target(e) \in lost /\ Save(lostRoom, "completing", None, lostRoom)
  <2>1. Follows(blocked, mem) /\ blocked \in Sessions
    BY <1>1, BlockFollows DEF Follows
  <2> HIDE DEF blocked
  <2>2. Follows(lostRoom, blocked)
    BY <2>1, DeliveryFollows DEF Deliveries
  <2>3. Follows(lostRoom, mem)
    BY <2>1, <2>2, FollowsTransitive
  <2>4. "completing" \in Unsent \ {"ran"} /\ None \in Things /\ Fits("completing", None)
    BY DEF Unsent, Locations, Things, Fits
  <2> HIDE DEF lostRoom
  <2> QED
    BY <1>1, <1>5, <2>3, <2>4, FollowStep
<1>6. CASE Target(e) \notin lost /\ Save(prepared, "prepared", e, prepared)
  <2>1. mem.effect[e] = "absent" /\ wire[e] = "none"
    <3>1. mem.effect[e] = "absent"
      BY <1>2, <1>3, <1>6 DEF Unlawful, e
    <3> QED
      BY <1>1, <1>4, <3>1 DEF IInv, RecordsAccounted, Accounted
  <2>2. /\ prepared \in Sessions /\ prepared.delivery = mem.delivery
        /\ prepared.effect = [mem.effect EXCEPT ![e] = "send-prepared"]
        /\ mem.effect \in [Effects -> Statuses]
    BY <1>1, <1>4, EffectTyped DEF Statuses
  <2> HIDE DEF prepared
  <2>3. Tame(prepared) /\ prepared.effect[e] = "send-prepared"
    BY <1>1, <1>4, <2>1, <2>2 DEF IInv, RecordsAccounted, Accounted, Tame
  <2>4. /\ Kept
        /\ \/ pc' = "prepared" /\ at' = e /\ mem' = prepared /\ disk' = prepared
           \/ pc' = "idle" /\ at' = None
    BY <1>6, <2>3, SaveKept
  <2>5. CASE pc' = "idle" /\ at' = None
    BY <1>1, <2>4, <2>5, IdleFits, QuietStep
  <2>6. CASE pc' = "prepared" /\ at' = e /\ mem' = prepared /\ disk' = prepared
    <3>1. Outer' /\ UNCHANGED <<wire, posted, opens>>
      BY <1>1, Facts DEF Outer, agents, held, outside, network
    <3>2. Positions'
      BY <1>4, <2>2, <2>6, SessionsAssumption DEF Positions, Fits
    <3>3. IntentFirst'
      BY <2>3, <2>6 DEF IntentFirst
    <3>4. pc' \in Locations /\ at' \in Things
      BY <1>4, <2>6 DEF Locations, Things
    <3> QED
      BY <1>1, <2>4, <3>1, <3>2, <3>3, <3>4, KeptStep
  <2> QED
    BY <2>4, <2>5, <2>6
<1> QED
  BY <1>5, <1>6 DEF Prepare, e

LEMMA SteppingStep == IInv /\ Stepping => IInv'
<1> SUFFICES ASSUME IInv, Stepping PROVE IInv'
  OBVIOUS
<1>1. ASSUME NEW n \in Nodes, AdvanceFlow(n) \/ Prepare(n) PROVE IInv'
  BY <1>1, AdvanceFlowStep, PrepareStep
<1>2. ASSUME NEW n \in Nodes, Refuse(n) PROVE IInv'
  <2>1. mem # None
    BY <1>2 DEF Refuse, Chosen, Ready, Active
  <2> QED
    BY <1>2, <2>1, MemTame, HaltStep DEF Refuse
<1>3. ASSUME NEW n \in Nodes, Run(n) PROVE IInv'
  <2> DEFINE t == [mem EXCEPT !.compute[n] = "running"]
  <2>1. mem # None /\ mem \in Sessions
    BY <1>3, MemTame DEF Run, Chosen, Ready, Active
  <2>2. Follows(t, mem)
    BY <2>1, ComputeFollows DEF Computes
  <2>3. "running" \in Unsent \ {"ran"} /\ n \in Things /\ Fits("running", n)
    BY DEF Unsent, Locations, Things, Fits
  <2> HIDE DEF t
  <2>4. Save(t, "running", n, t)
    BY <1>3 DEF Run, t
  <2> QED
    BY <1>3, <2>1, <2>2, <2>3, <2>4, FollowStep DEF Run
<1>4. ASSUME NEW a \in Peers, Receive(a) PROVE IInv'
  <2>1. mem # None /\ mem \in Sessions
    BY <1>4, MemTame DEF Receive, Ready, Active
  <2>2. Follows(Received(mem, a), mem)
    BY <2>1, ReceivedFollows
  <2>3. "receiving" \in Unsent \ {"ran"} /\ a \in Things /\ Fits("receiving", a)
    BY DEF Unsent, Locations, Things, Fits
  <2> QED
    BY <1>4, <2>1, <2>2, <2>3, FollowStep DEF Receive
<1>5. ASSUME NEW a \in Scheduled, ScheduledIntake(a) PROVE IInv'
  <2> DEFINE t == [mem EXCEPT !.rounds[a] = @ + 1]
             rounds == [mem.rounds EXCEPT ![a] = @ + 1]
  <2>1. mem # None /\ mem \in Sessions
    BY <1>5, MemTame DEF ScheduledIntake, Ready, Active
  <2>6. rounds \in [Scheduled -> 0 .. MaxRounds]
    BY <1>5, <2>1, PeerSessionAssumption DEF Sessions, ScheduledIntake
  <2>7. t = [mem EXCEPT !.rounds = rounds]
    BY <2>1 DEF Sessions
  <2> HIDE DEF rounds
  <2>2. t \in Sessions /\ t.effect = mem.effect /\ t.delivery = mem.delivery
    BY <2>1, <2>6, <2>7 DEF Sessions
  <2>3. Follows(t, mem)
    BY <2>2, SameEffects
  <2>4. "intake" \in Unsent \ {"ran"} /\ a \in Things /\ Fits("intake", a)
    BY RootFacts DEF Unsent, Locations, Things, Fits
  <2> HIDE DEF t
  <2>5. Save(t, "intake", a, t)
    BY <1>5 DEF ScheduledIntake, t
  <2> QED
    BY <1>5, <2>1, <2>3, <2>4, <2>5, FollowStep DEF ScheduledIntake
<1>6. CASE StepEnds
  <2>1. mem # None
    BY <1>6 DEF StepEnds, IInv, Positions
  <2>2. CASE Halt(mem)
    BY <1>6, <2>1, <2>2, MemTame, HaltStep DEF StepEnds
  <2>3. CASE Rest /\ UNCHANGED <<disk, mem, faults>>
    <3>1. Kept
      BY <2>1, <2>3, Facts DEF Kept
    <3> QED
      BY <1>6, <2>1, <2>3, <3>1, QuietStep, IdleFits DEF StepEnds, Rest, Goto
  <2> QED
    BY <1>6, <2>2, <2>3 DEF StepEnds
<1>7. CASE Complete
  <2>1. mem # None /\ mem \in Sessions
    BY <1>7, MemTame DEF Complete, IInv, Positions
  <2> QED
    BY <1>7, <2>1, CompletedFollows, IdleFits, FollowStep DEF Complete
<1> QED
  BY <1>1, <1>2, <1>3, <1>4, <1>5, <1>6, <1>7 DEF Stepping

\* An effect that was refused, or was never sent, may be called failed.
LEMMA FailedTame ==
    ASSUME IInv, mem # None, NEW e \in Effects, wire[e] \in {"none", "refused"}
    PROVE  Tame([mem EXCEPT !.effect[e] = "failed"])
<1> DEFINE t == [mem EXCEPT !.effect[e] = "failed"]
<1>1. mem \in Sessions /\ Accounted(mem)
  BY MemTame DEF Tame
<1>2. "failed" \in Statuses
  BY DEF Statuses
<1>3. /\ t \in Sessions /\ t.delivery = mem.delivery
      /\ t.effect = [mem.effect EXCEPT ![e] = "failed"]
      /\ mem.effect \in [Effects -> Statuses]
  BY <1>1, <1>2, EffectTyped
<1> HIDE DEF t
<1>4. Tame(t)
  BY <1>1, <1>3 DEF Accounted, Tame
<1> QED
  BY <1>4 DEF t

LEMMA UndispatchedStep == IInv /\ Undispatched => IInv'
<1> SUFFICES ASSUME IInv, Undispatched PROVE IInv'
  OBVIOUS
<1>1. mem # None /\ at \in Effects /\ mem.effect[at] = "send-prepared"
  BY DEF Undispatched, IInv, Positions, Fits, IntentFirst
<1>2. wire[at] = "none"
  BY <1>1 DEF IInv, RecordsAccounted, Accounted
<1>3. Tame(Halted(mem)) /\ Tame(Halted([mem EXCEPT !.effect[at] = "failed"]))
  BY <1>1, <1>2, MemTame, FailedTame, HaltedTame
<1>4. Kept
  BY <1>3, Facts DEF Undispatched, Kept
<1> QED
  BY <1>1, <1>4, IdleFits, QuietStep DEF Undispatched, Rest, Goto

LEMMA DispatchStep == IInv /\ Dispatch => IInv'
<1> SUFFICES ASSUME IInv, Dispatch PROVE IInv'
  OBVIOUS
<1> DEFINE s == Spend(mem, "outbound")
           t == [s EXCEPT !.effect[at] = "sending"]
<1>1. mem # None /\ mem \in Sessions /\ at \in Effects /\ mem.effect[at] = "send-prepared"
  BY MemTame DEF Dispatch, IInv, Positions, Fits, IntentFirst
<1>2. wire[at] = "none"
  BY <1>1 DEF IInv, RecordsAccounted, Accounted
<1>3. Follows(s, mem) /\ s \in Sessions
  BY <1>1, SpendFollows DEF Budgets, Follows
<1> HIDE DEF s
<1>4. Follows(t, s) /\ t.effect[at] = "sending"
  <2>1. Follows(t, s)
    BY <1>1, <1>3, EffectFollows
  <2>2. t.effect = [s.effect EXCEPT ![at] = "sending"] /\ s.effect \in [Effects -> Statuses]
    BY <1>3 DEF Sessions
  <2> QED
    BY <1>1, <2>1, <2>2
<1>5. Tame(t)
  BY <1>1, <1>3, <1>4, FollowsTransitive, MemTame
<1> HIDE DEF t
<1>6. Save(t, "sending", at, t) /\ UNCHANGED <<agents, held, outside, network, computed>>
  BY DEF Dispatch, s, t
<1>7. /\ Kept
      /\ \/ pc' = "sending" /\ at' = at /\ mem' = t /\ disk' = t
         \/ pc' = "idle" /\ at' = None
  BY <1>5, <1>6, SaveKept
<1>8. CASE pc' = "idle" /\ at' = None
  BY <1>1, <1>6, <1>7, <1>8, IdleFits, QuietStep
<1>9. CASE pc' = "sending" /\ at' = at /\ mem' = t /\ disk' = t
  <2>1. t # None
    BY <1>5, SessionsAssumption DEF Tame
  <2>2. Outer' /\ UNCHANGED <<wire, posted, opens>>
    BY <1>6, Facts DEF Outer, agents, held, outside, network
  <2>3. Positions' /\ pc' \in Locations /\ at' \in Things
    BY <1>1, <1>9, <2>1 DEF Positions, Fits, Locations, Things
  <2>4. IntentFirst'
    BY <1>2, <1>4, <1>9, <2>1, <2>2 DEF IntentFirst
  <2> QED
    BY <1>1, <1>7, <2>2, <2>3, <2>4, KeptStep
<1> QED
  BY <1>7, <1>8, <1>9

\* The POST leaves: both sessions say so already.
LEMMA PostStep == IInv /\ Post => IInv'
<1> SUFFICES ASSUME IInv, Post PROVE IInv'
  OBVIOUS
<1>1. /\ mem # None /\ mem \in Sessions /\ at \in Effects
      /\ mem.effect[at] = "sending" /\ disk # None /\ disk.effect[at] = "sending"
      /\ wire[at] = "none"
  BY MemTame DEF Post, IInv, Positions, Fits, IntentFirst
<1>2. CASE GivesUp("ambiguous") /\ UNCHANGED wire
  <2>1. Follows([mem EXCEPT !.effect[at] = "ambiguous"], mem)
    BY <1>1, EffectFollows
  <2>2. Tame([mem EXCEPT !.effect[at] = "ambiguous"])
    BY <1>1, <2>1, MemTame
  <2> QED
    BY <1>1, <1>2, <2>2, HaltStep DEF Post, GivesUp, network
<1>3. CASE wire' = [wire EXCEPT ![at] = "request"] /\ Goto("await", at) /\ UNCHANGED <<disk, mem, faults>>
  <2>1. Outer /\ UNCHANGED <<runtime, legacy, cursor, seen, lost, stopping, asked, offline, late, opens, room, posted, computed>>
    BY Facts DEF Post, agents, held, outside
  <2>2. wire' \in [Effects -> {"none", "request", "posted", "refused", "lost"}]
    BY <1>3, <2>1 DEF Outer
  <2>3. wire'[at] = "request" /\ \A e \in Effects : e # at => wire'[e] = wire[e]
    BY <1>1, <1>3, <2>1 DEF Outer
  <2>4. TypeOK'
    BY <1>3, <2>1, <2>2 DEF IInv, TypeOK, Goto, Locations
  <2>5. Positions' /\ IntentFirst'
    BY <1>1, <1>3 DEF Positions, Fits, IntentFirst, Goto
  <2>6. PostedOnce'
    BY <1>1, <2>1, <2>3 DEF IInv, PostedOnce
  <2>7. NoRecordNoWire'
    BY <1>1, <1>3, <2>1 DEF IInv, NoRecordNoWire
  <2>8. RecordsAccounted'
    <3>1. Accounted(mem) /\ Accounted(disk)
      BY <1>1 DEF IInv, RecordsAccounted
    <3> QED
      BY <1>1, <1>3, <2>3, <3>1 DEF RecordsAccounted, Accounted
  <2> QED
    BY <2>4, <2>5, <2>6, <2>7, <2>8 DEF IInv
<1> QED
  BY <1>2, <1>3 DEF Post

LEMMA SendingStep == IInv /\ Sending => IInv'
<1> SUFFICES ASSUME IInv, Sending PROVE IInv'
  OBVIOUS
<1>1. CASE Undispatched \/ Dispatch \/ Post
  BY <1>1, UndispatchedStep, DispatchStep, PostStep
<1>2. CASE Answered
  <2>1. mem # None /\ mem \in Sessions /\ at \in Effects /\ at \in Things
    BY <1>2, MemTame DEF Answered, IInv, Positions, Fits, Things
  <2>2. /\ Follows([mem EXCEPT !.effect[at] = "sent"], mem)
        /\ Follows([mem EXCEPT !.effect[at] = "ambiguous"], mem)
    BY <2>1, EffectFollows
  <2>3. "sent" \in Unsent \ {"ran"} /\ Fits("sent", at)
    BY <2>1 DEF Unsent, Locations, Fits
  <2> QED
    BY <1>2, <2>1, <2>2, <2>3, FollowStep DEF Answered
<1>3. CASE Rejected
  <2>1. mem # None /\ at \in Effects /\ Tame([mem EXCEPT !.effect[at] = "failed"])
    BY <1>3, FailedTame DEF Rejected, IInv, Positions, Fits
  <2> QED
    BY <1>3, <2>1, HaltStep DEF Rejected, GivesUp
<1>4. CASE Unanswered
  <2>1. mem # None /\ mem \in Sessions /\ at \in Effects
    BY <1>4, MemTame DEF Unanswered, IInv, Positions, Fits
  <2>2. Follows([mem EXCEPT !.effect[at] = "ambiguous"], mem)
    BY <2>1, EffectFollows
  <2> QED
    BY <1>4, <2>1, <2>2, MemTame, HaltStep DEF Unanswered, GivesUp
<1>5. CASE Finish
  <2> DEFINE d == IF at[2] = "result" THEN "sent" ELSE mem.delivery[at[1]]
             t == [mem EXCEPT !.delivery[at[1]] = IF at[2] = "result" THEN "sent" ELSE @]
  <2>1. mem # None /\ mem \in Sessions /\ at \in Effects
    BY <1>5, MemTame DEF Finish, IInv, Positions, Fits
  <2>2. at[1] \in Children /\ at[1] \in Nodes
    BY <2>1, EffectFacts
  <2>3. d \in Deliveries
    BY <2>1, <2>2 DEF Sessions, Deliveries
  <2>4. t = [mem EXCEPT !.delivery[at[1]] = d]
    BY <2>1 DEF Sessions
  <2> HIDE DEF d
  <2>5. Follows([mem EXCEPT !.delivery[at[1]] = d], mem)
    BY <2>1, <2>2, <2>3, DeliveryFollows DEF Children
  <2>6. Follows(t, mem)
    BY <2>4, <2>5
  <2> HIDE DEF t
  <2>7. Save(t, "completing", None, t) \/ Breaks(mem)
    BY <1>5 DEF Finish, t
  <2>8. "completing" \in Unsent \ {"ran"} /\ None \in Things /\ Fits("completing", None)
    BY DEF Unsent, Locations, Things, Fits
  <2>9. CASE Save(t, "completing", None, t)
    BY <1>5, <2>1, <2>6, <2>8, <2>9, FollowStep DEF Finish
  <2>10. CASE Breaks(mem)
    BY <1>5, <2>1, <2>10, MemTame, HaltStep DEF Finish
  <2> QED
    BY <2>7, <2>9, <2>10
<1> QED
  BY <1>1, <1>2, <1>3, <1>4, <1>5 DEF Sending

LEMMA WorkingStep == IInv /\ Working => IInv'
<1> SUFFICES ASSUME IInv, Working PROVE IInv'
  OBVIOUS
<1>1. /\ runtime \in [Nodes -> {"none", "pending", "running", "succeeded", "failed", "ambiguous"}]
      /\ computed \in [Nodes -> Nat]
  BY Facts DEF Outer
<1>2. CASE Infer
  <2>1. mem # None /\ mem \in Sessions /\ at \in Nodes /\ at \in Things
    BY <1>2, MemTame DEF Infer, IInv, Positions, Fits, Things
  <2>2. Follows(Spend(mem, "inference"), mem)
    BY <2>1, SpendFollows DEF Budgets
  <2>3. Kept
    BY <1>2, <2>1, <2>2, MemTame, Facts DEF Kept, Infer
  <2>4. /\ runtime' = [runtime EXCEPT ![at] = "running"] /\ computed' = [computed EXCEPT ![at] = @ + 1]
        /\ pc' = "inferring" /\ at' = at /\ UNCHANGED <<legacy, cursor, held, outside, network>>
    BY <1>2 DEF Infer, Goto
  <2>5. /\ runtime' \in [Nodes -> {"none", "pending", "running", "succeeded", "failed", "ambiguous"}]
        /\ computed' \in [Nodes -> Nat]
    <3>1. computed' \in [Nodes -> Nat]
      BY <1>1, <2>1, <2>4
    <3>2. runtime' \in [Nodes -> {"none", "pending", "running", "succeeded", "failed", "ambiguous"}]
      BY <1>1, <2>1, <2>4
    <3> QED
      BY <3>1, <3>2
  <2>6. pc' \in Unsent /\ at' \in Things /\ Fits(pc', at') /\ pc' # "ran"
    BY <2>1, <2>4 DEF Unsent, Locations, Fits
  <2> QED
    BY <2>1, <2>3, <2>4, <2>5, <2>6, RuntimeStep
<1>3. CASE NotInferred
  <2>1. mem # None /\ mem \in Sessions /\ at \in Nodes /\ at \in Things
    BY <1>3, MemTame DEF NotInferred, IInv, Positions, Fits, Things
  <2>2. Follows(Spend(mem, "inference"), mem)
    BY <2>1, SpendFollows DEF Budgets
  <2>3. Kept
    BY <1>3, <2>1, <2>2, MemTame, Facts DEF Kept, NotInferred
  <2>4. /\ runtime' = [runtime EXCEPT ![at] = "failed"] /\ computed' = computed
        /\ pc' = "ran" /\ at' = at /\ UNCHANGED <<legacy, cursor, held, outside, network>>
    BY <1>3 DEF NotInferred, Goto
  <2>5. /\ runtime' \in [Nodes -> {"none", "pending", "running", "succeeded", "failed", "ambiguous"}]
        /\ runtime'[at] = "failed"
    BY <1>1, <2>1, <2>4
  <2>6. pc' \in Unsent /\ at' \in Things /\ Fits(pc', at')
    BY <2>1, <2>4 DEF Unsent, Locations, Fits
  <2> QED
    BY <1>1, <2>1, <2>3, <2>4, <2>5, <2>6, RuntimeStep
<1>4. ASSUME NEW o \in {"succeeded", "failed", "ambiguous"}, Return(o) PROVE IInv'
  <2>1. mem # None /\ at \in Nodes /\ at \in Things
    BY <1>4 DEF Return, IInv, Positions, Fits, Things
  <2>2. Kept
    BY <1>4, <2>1, MemTame, Facts DEF Kept, Return
  <2>3. /\ runtime' = [runtime EXCEPT ![at] = o] /\ computed' = computed
        /\ pc' = "ran" /\ at' = at /\ UNCHANGED <<legacy, cursor, held, outside, network>>
    BY <1>4 DEF Return, Goto
  <2>4. /\ runtime' \in [Nodes -> {"none", "pending", "running", "succeeded", "failed", "ambiguous"}]
        /\ runtime'[at] = o
    BY <1>1, <2>1, <2>3
  <2>5. pc' \in Unsent /\ at' \in Things /\ Fits(pc', at')
    BY <2>1, <2>3 DEF Unsent, Locations, Fits
  <2> QED
    BY <1>1, <2>1, <2>2, <2>3, <2>4, <2>5, RuntimeStep
<1>5. CASE Record
  <2>1. mem # None /\ mem \in Sessions /\ runtime[at] \in {"succeeded", "failed", "ambiguous"}
    BY <1>5, MemTame DEF Record, IInv, Positions
  <2>2. Follows(Recorded(at), mem)
    <3>1. "result-ready" \in Computes /\ (runtime[at] # "succeeded" => runtime[at] \in Computes)
      BY <2>1 DEF Computes
    <3>2. Follows([mem EXCEPT !.compute[at] = "result-ready"], mem)
      BY <2>1, <3>1, ComputeFollows
    <3>3. CASE runtime[at] # "succeeded"
      <4> DEFINE t == [mem EXCEPT !.compute[at] = runtime[at]]
      <4>1. Follows(t, mem)
        BY <2>1, <3>1, <3>3, ComputeFollows
      <4> HIDE DEF t
      <4>2. Follows(Block(t, at), t)
        BY <4>1, BlockFollows DEF Follows
      <4>3. Follows(Block(t, at), mem)
        BY <4>1, <4>2, FollowsTransitive
      <4> QED
        BY <3>3, <4>3 DEF Recorded, t
    <3> QED
      BY <3>2, <3>3 DEF Recorded
  <2>3. "completing" \in Unsent \ {"ran"} /\ None \in Things /\ Fits("completing", None)
    BY DEF Unsent, Locations, Things, Fits
  <2> QED
    BY <1>5, <2>1, <2>2, <2>3, FollowStep DEF Record
<1>6. CASE RunThrows
  <2>1. mem # None
    BY <1>6 DEF RunThrows, IInv, Positions
  <2> QED
    BY <1>6, <2>1, MemTame, HaltStep DEF RunThrows
<1> QED
  BY <1>2, <1>3, <1>4, <1>5, <1>6 DEF Working

LEMMA HandedTyped ==
    ASSUME IInv, NEW M, Handed(M)
    PROVE  /\ runtime' \in [Nodes -> {"none", "pending", "running", "succeeded", "failed", "ambiguous"}]
           /\ legacy' \in [External -> {"none", "proposed", "approved"}]
BY Facts DEF Outer, Handed, Filed

\* The whole of what was read, or the messages before the one that nothing explains.
LEMMA ClassifyStep == IInv /\ (Classify \/ Unclassified) => IInv'
<1> SUFFICES ASSUME IInv, Classify \/ Unclassified PROVE IInv'
  OBVIOUS
<1>1. mem # None /\ mem \in Sessions /\ at \in Peers
  BY MemTame DEF Classify, Unclassified, IInv, Positions, Fits
<1>2. Outer /\ UNCHANGED <<cursor, held, outside, network, computed>>
  BY Facts DEF Classify, Unclassified
<1>3. UNCHANGED <<wire, posted, opens>>
  BY <1>2 DEF network, outside
<1>4. ASSUME NEW M, Handed(M) PROVE Outer'
  BY <1>2, <1>4, HandedTyped DEF Outer, held, outside, network
<1>5. CASE Classify
  <2>1. PICK M : Handed(M) /\ mem' = Classified(M) /\ disk' = mem' /\ UNCHANGED faults
    BY <1>5 DEF Classify
  <2>2. Tame(mem') /\ mem' # None
    BY <1>1, <2>1, ClassifiedFollows, MemTame, SessionsAssumption DEF Tame
  <2>3. Kept
    BY <2>1, <2>2, Facts DEF Kept
  <2>4. pc' = "ack" /\ at' = at
    BY <1>5 DEF Classify, Goto
  <2>5. Positions' /\ IntentFirst' /\ pc' \in Locations /\ at' \in Things
    BY <1>1, <2>2, <2>4 DEF Positions, Fits, IntentFirst, Locations, Things
  <2> QED
    BY <1>1, <1>3, <1>4, <2>1, <2>3, <2>5, KeptStep
<1>6. CASE Unclassified
  <2>1. PICK k \in cursor[at] .. seen :
          LET s == Halted(Settle(Classified(Messages(k)))) IN
          /\ mem' = s /\ Handed(Messages(k))
          /\ \/ (~Active \/ ~Expected(Messages(seen))) /\ disk' = s /\ UNCHANGED faults
             \/ disk' \in {disk, s} /\ Fault
    BY <1>6 DEF Unclassified
  <2> DEFINE c == Classified(Messages(k))
  <2>2. Follows(c, mem) /\ c \in Sessions
    BY <1>1, ClassifiedFollows DEF Follows
  <2> HIDE DEF c
  <2>3. Tame(c)
    BY <1>1, <2>2, MemTame
  <2>4. Tame(Settle(c))
    BY <2>2, <2>3, SettleFollows, Tamed DEF Tame
  <2>5. Tame(Halted(Settle(c)))
    BY <2>4, HaltedTame
  <2>6. mem' = Halted(Settle(c)) /\ Handed(Messages(k)) /\ disk' \in {disk, mem'} /\ (UNCHANGED faults \/ Fault)
    BY <2>1 DEF c
  <2>7. Kept /\ mem' # None
    BY <2>5, <2>6, Facts, SessionsAssumption DEF Kept, Tame
  <2>8. pc' = "idle" /\ at' = None
    BY <1>6 DEF Unclassified, Rest, Goto
  <2>9. Positions' /\ IntentFirst' /\ pc' \in Locations /\ at' \in Things
    BY <2>7, <2>8 DEF Positions, Fits, IntentFirst, Locations, Things
  <2> QED
    BY <1>1, <1>3, <1>4, <2>6, <2>7, <2>9, KeptStep
<1> QED
  BY <1>5, <1>6

LEMMA ReceivingStep == IInv /\ Receiving => IInv'
<1> SUFFICES ASSUME IInv, Receiving PROVE IInv'
  OBVIOUS
<1>1. mem # None /\ mem \in Sessions /\ Tame(mem) /\ at \in Peers /\ at \in Things
  BY MemTame DEF Receiving, Intake, Read, Peek, Classify, Unclassified, Ack, Unacked,
                 IInv, Positions, Fits, Things
<1>2. Follows(Settle(mem), mem)
  BY <1>1, SettleFollows
<1>3. CASE Intake
  <2>1. Follows(Received(mem, at), mem)
    BY <1>1, ReceivedFollows
  <2>2. "receiving" \in Unsent \ {"ran"} /\ Fits("receiving", at)
    BY <1>1 DEF Unsent, Locations, Fits
  <2>3. CASE Halt(mem)
    BY <1>1, <1>3, <2>3, HaltStep DEF Intake
  <2>4. CASE Save(Received(mem, at), "receiving", at, Received(mem, at))
    BY <1>1, <1>3, <2>1, <2>2, <2>4, FollowStep DEF Intake
  <2> QED
    BY <1>3, <2>3, <2>4 DEF Intake
<1>4. CASE Read
  <2>1. Follows(Spend(mem, "gets"), mem)
    BY <1>1, SpendFollows DEF Budgets
  <2>2. "read" \in Unsent \ {"ran"} /\ Fits("read", at)
    BY <1>1 DEF Unsent, Locations, Fits
  <2>3. CASE Halt(Settle(mem))
    BY <1>1, <1>2, <1>4, <2>3, MemTame, HaltStep DEF Read
  <2>4. CASE Save(Spend(mem, "gets"), "read", at, Settle(Spend(mem, "gets")))
    <3>1. Follows(Settle(Spend(mem, "gets")), mem)
      BY <2>1, SettleFollows, FollowsTransitive DEF Follows
    <3> QED
      BY <1>1, <1>4, <2>1, <2>2, <2>4, <3>1, FollowStep DEF Read
  <2> QED
    BY <1>4, <2>3, <2>4 DEF Read
<1>5. CASE Peek
  <2>1. CASE Breaks(Settle(mem)) /\ UNCHANGED seen
    BY <1>1, <1>2, <1>5, <2>1, MemTame, HaltStep DEF Peek, held
  <2>2. CASE seen' = Window(at) /\ Goto("classify", at) /\ UNCHANGED <<disk, mem, faults>>
    <3>1. Outer /\ UNCHANGED <<runtime, legacy, cursor, lost, stopping, asked, offline, late, opens, wire, room, posted, computed>>
      BY <1>5, Facts DEF Peek, agents, outside, network
    <3>2. seen' \in Nat
      BY <1>1, <2>2, <3>1 DEF Window, Outer
    <3>3. Outer'
      BY <3>1, <3>2 DEF Outer
    <3>4. Kept
      BY <1>1, <2>2, Facts DEF Kept
    <3>5. Positions' /\ IntentFirst' /\ pc' \in Locations /\ at' \in Things
      BY <1>1, <2>2 DEF Positions, Fits, IntentFirst, Locations, Goto
    <3> QED
      BY <1>1, <3>1, <3>3, <3>4, <3>5, KeptStep
  <2> QED
    BY <1>5, <2>1, <2>2 DEF Peek
<1>6. CASE Classify \/ Unclassified
  BY <1>6, ClassifyStep
<1>7. CASE Ack
  <2>1. Outer /\ UNCHANGED <<runtime, legacy, lost, stopping, asked, offline, late, opens, wire, room, posted, computed, disk, mem, faults>>
    BY <1>7, Facts DEF Ack, outside, network
  <2>2. cursor' \in [Peers -> Nat] /\ seen' \in Nat
    BY <1>7, <2>1 DEF Ack, Outer
  <2>3. Outer'
    BY <2>1, <2>2 DEF Outer
  <2>4. Kept
    BY <1>1, <2>1, Facts DEF Kept
  <2>5. Positions' /\ IntentFirst' /\ pc' \in Locations /\ at' \in Things
    BY <1>1, <1>7, <2>1 DEF Ack, Positions, Fits, IntentFirst, Locations, Things, Goto
  <2> QED
    BY <1>1, <2>1, <2>3, <2>4, <2>5, KeptStep
<1>8. CASE Unacked
  BY <1>1, <1>8, HaltStep DEF Unacked
<1> QED
  BY <1>3, <1>4, <1>5, <1>6, <1>7, <1>8 DEF Receiving

LEMMA OperatingStep == IInv /\ Operating => IInv'
<1> SUFFICES ASSUME IInv, Operating PROVE IInv'
  OBVIOUS
<1>1. ASSUME NEW r \in Roots, NEW f \in Flows \cup {<<>>}, Submit(r, f) PROVE IInv'
  BY <1>1, RootStep DEF Submit
<1>2. ASSUME NEW r \in External, ApproveExternal(r) PROVE IInv'
  <2>1. mem # None
    BY <1>2 DEF ApproveExternal, Idle
  <2>2. Outer /\ UNCHANGED <<runtime, cursor, seen, lost, stopping, asked, offline, late, opens, wire, room, posted, computed, disk, mem, faults>>
    BY <1>2, Facts DEF ApproveExternal, held, outside, network
  <2>3. legacy' \in [External -> {"none", "proposed", "approved"}]
    BY <1>2, <2>2 DEF ApproveExternal, Approve, Outer
  <2>4. Outer'
    BY <2>2, <2>3 DEF Outer
  <2>5. Kept
    BY <2>1, <2>2, MemTame, Facts DEF Kept
  <2>6. Positions' /\ IntentFirst' /\ pc' \in Locations /\ at' \in Things
    BY <1>2, <2>1, <2>2, RootFacts DEF ApproveExternal, Positions, Fits, IntentFirst, Locations, Things, Goto
  <2> QED
    BY <2>1, <2>2, <2>4, <2>5, <2>6, KeptStep
<1>3. ASSUME NEW n \in Nodes, Delegate(n) PROVE IInv'
  <2>1. mem # None /\ n \in Children /\ mem \in Sessions
    BY <1>3, MemTame DEF Delegate, Idle
  <2>2. Tame(Planned(n))
    BY <2>1, PlannedFollows, MemTame
  <2> QED
    BY <1>3, <2>1, <2>2, IdleFits, SaveOrThrowStep DEF Delegate
<1>4. CASE RequestStop
  <2>1. Outer' /\ faults' \in 0 .. MaxFaults
    BY <1>4, Facts DEF RequestStop, Outer, agents, outside, network
  <2> QED
    BY <1>4, <2>1, StillStep DEF RequestStop, agents, outside, network
<1>5. ASSUME NEW x \in {"pause", "continue"}, Ask(x) PROVE IInv'
  <2>1. Outer'
    BY <1>5, Facts DEF Ask, Outer, agents, held, network
  <2>2. faults' \in 0 .. MaxFaults
    BY <1>5, Facts DEF Ask
  <2> QED
    BY <1>5, <2>1, <2>2, StillStep DEF Ask, agents, network
<1> QED
  BY <1>1, <1>2, <1>3, <1>4, <1>5 DEF Operating

\* pause and continueActive.
LEMMA MarkedStep ==
    ASSUME IInv, mem # None, UNCHANGED <<agents, seen, lost, outside, network, computed>>,
           NEW s, Tame(s), NEW l \in {"paused", "continued"}, Marked(s, l)
    PROVE  IInv'
<1>1. Kept /\ pc' \in {"idle", "paused", "continued"} /\ at' = None
  BY Facts DEF Marked, Kept, Rest, Goto
<1>2. stopping' \in BOOLEAN
  BY Facts DEF Marked, Outer
<1>3. Outer' /\ UNCHANGED <<wire, posted, opens>>
  BY <1>2, Facts DEF Outer, agents, outside, network
<1>4. Positions' /\ IntentFirst' /\ pc' \in Locations /\ at' \in Things
  BY <1>1, SessionsAssumption DEF Positions, Fits, IntentFirst, Locations, Things, Kept, Tame
<1> QED
  BY <1>1, <1>3, <1>4, KeptStep

LEMMA EndingStep == IInv /\ Ending => IInv'
<1> SUFFICES ASSUME IInv, Ending PROVE IInv'
  OBVIOUS
<1>1. CASE Pause
  <2>1. mem # None /\ mem \in Sessions
    BY <1>1, MemTame DEF Pause, Idle
  <2>2. Tame([mem EXCEPT !.life = "paused"])
    BY <2>1, LifeFollows, MemTame
  <2> QED
    BY <1>1, <2>1, <2>2, MarkedStep DEF Pause
<1>2. CASE Continue
  <2>1. mem # None /\ mem \in Sessions
    BY <1>2, MemTame DEF Continue, Idle
  <2>2. Tame([mem EXCEPT !.life = "active"])
    BY <2>1, LifeFollows, MemTame
  <2> QED
    BY <1>2, <2>1, <2>2, MarkedStep DEF Continue
<1>3. CASE Unlink
  <2>1. mem # None
    BY <1>3 DEF Unlink, IInv, Positions
  <2>2. Outer /\ UNCHANGED <<runtime, legacy, cursor, seen, lost, stopping, offline, late, opens, wire, room, posted, computed, disk, mem, faults>>
    BY <1>3, Facts DEF Unlink, agents, held, network
  <2>3. asked' \subseteq {"pause", "continue"}
    BY <1>3, <2>2 DEF Unlink, Outer
  <2>4. Outer'
    BY <2>2, <2>3 DEF Outer
  <2>5. Kept
    BY <2>1, <2>2, MemTame, Facts DEF Kept
  <2>6. Positions' /\ IntentFirst' /\ pc' \in Locations /\ at' \in Things
    BY <1>3, <2>1, <2>2 DEF Unlink, Positions, Fits, IntentFirst, Locations, Things, Rest, Goto
  <2> QED
    BY <2>1, <2>2, <2>4, <2>5, <2>6, KeptStep
<1>4. CASE Stop
  <2>1. mem # None /\ mem \in Sessions /\ mem.life \in {"starting", "active", "paused", "stopping", "stopped", "halted"}
    BY <1>4, MemTame DEF Stop, Idle, Sessions
  <2>2. Follows(Settle(mem), mem) /\ Settle(mem) \in Sessions
    BY <2>1, SettleFollows DEF Follows
  <2>3. Leave(mem) \in {"starting", "active", "paused", "stopping", "stopped", "halted"}
    BY <2>1 DEF Leave
  <2>4. Follows([Settle(mem) EXCEPT !.life = Leave(mem)], Settle(mem))
    BY <2>2, <2>3, LifeFollows
  <2>5. Tame(mem') /\ mem' # None
    BY <1>4, <2>1, <2>2, <2>4, FollowsTransitive, MemTame, SessionsAssumption DEF Stop, Tame
  <2>6. Kept
    BY <1>4, <2>5, Facts DEF Stop, Kept
  <2>7. Outer /\ stopping' = TRUE /\ UNCHANGED <<runtime, legacy, cursor, seen, lost, asked, offline, late, opens, wire, room, posted, computed>>
    BY <1>4, Facts DEF Stop, agents, outside, network
  <2>8. Outer'
    BY <2>7 DEF Outer
  <2>9. Positions' /\ IntentFirst' /\ pc' \in Locations /\ at' \in Things
    BY <1>4, <2>5 DEF Stop, Positions, Fits, IntentFirst, Locations, Things, Goto
  <2> QED
    BY <2>1, <2>6, <2>7, <2>8, <2>9, KeptStep
<1>5. CASE Release
  <2> DEFINE l == IF mem.life = "halted" THEN mem.life ELSE "stopped"
             t == [mem EXCEPT !.life = IF @ = "halted" THEN @ ELSE "stopped"]
  <2>1. mem # None /\ mem \in Sessions
    BY <1>5, MemTame DEF Release, IInv, Positions
  <2>2. t = [mem EXCEPT !.life = l] /\ l \in {"starting", "active", "paused", "stopping", "stopped", "halted"}
    BY <2>1 DEF Sessions
  <2> HIDE DEF l
  <2>3. Tame([mem EXCEPT !.life = l])
    BY <2>1, <2>2, LifeFollows, MemTame
  <2>4. Tame(t)
    BY <2>2, <2>3
  <2> HIDE DEF t
  <2>5. disk' = t \/ disk' = disk
    BY <1>5 DEF Release, t
  <2>6. faults' \in 0 .. MaxFaults
    BY <1>5, Facts DEF Release
  <2> QED
    BY <1>5, <2>1, <2>4, <2>5, <2>6, EndsStep DEF Release
<1>6. CASE Die
  BY <1>6, Facts, EndsStep DEF Die
<1> QED
  BY <1>1, <1>2, <1>3, <1>4, <1>5, <1>6 DEF Ending

LEMMA Arrives ==
    ASSUME NEW S, NEW r \in [Peers -> Seq(S)], NEW p \in Peers, NEW m \in S
    PROVE  [r EXCEPT ![p] = Append(@, m)] \in [Peers -> Seq(S)]
<1>1. r[p] \in Seq(S)
  OBVIOUS
<1>2. Append(r[p], m) \in Seq(S)
  BY <1>1
<1> QED
  BY <1>2

\* The service accepts a request, or refuses it.
LEMMA ServiceStep == \A e \in Effects : IInv /\ (Accept(e) \/ Reject(e)) => IInv'
<1> SUFFICES ASSUME NEW e \in Effects, IInv, Accept(e) \/ Reject(e) PROVE IInv'
  OBVIOUS
<1>1. Outer /\ wire[e] = "request"
      /\ UNCHANGED <<runtime, legacy, cursor, seen, lost, stopping, asked, offline, late, opens, computed, disk, mem, pc, at, faults>>
  BY Facts DEF Accept, Reject, agents, held, outside
<1>2. /\ wire' \in [Effects -> {"none", "request", "posted", "refused", "lost"}]
      /\ wire'[e] \in {"posted", "refused"}
      /\ \A f \in Effects : f # e => wire'[f] = wire[f]
  BY <1>1 DEF Accept, Reject, Outer
<1>3. posted' \in [Effects -> Nat]
  <2>1. posted \in [Effects -> Nat] /\ posted[e] + 1 \in Nat
    BY <1>1 DEF Outer
  <2>2. posted' = posted \/ posted' = [posted EXCEPT ![e] = posted[e] + 1]
    BY DEF Accept, Reject
  <2> QED
    BY <2>1, <2>2
<1>4. room' \in [Peers -> Seq(Effects \cup Offers)]
  <2>1. room \in [Peers -> Seq(Effects \cup Offers)] /\ Target(e) \in Peers
    BY <1>1, EffectFacts DEF Outer
  <2>2. [room EXCEPT ![Target(e)] = Append(@, e)] \in [Peers -> Seq(Effects \cup Offers)]
    BY <2>1, Arrives
  <2> QED
    BY <2>1, <2>2 DEF Accept, Reject
<1>5. TypeOK'
  BY <1>1, <1>2, <1>3, <1>4 DEF IInv, TypeOK
<1>6. Positions'
  BY <1>1 DEF IInv, Positions, Fits
<1>7. PostedOnce'
  <2>1. posted[e] = 0 /\ \A f \in Effects : posted[f] = IF wire[f] = "posted" THEN 1 ELSE 0
    BY <1>1 DEF IInv, PostedOnce
  <2>2. CASE Accept(e)
    <3>1. wire' = [wire EXCEPT ![e] = "posted"] /\ posted' = [posted EXCEPT ![e] = @ + 1]
      BY <2>2 DEF Accept
    <3> QED
      BY <1>1, <2>1, <3>1 DEF PostedOnce, Outer
  <2>3. CASE Reject(e)
    <3>1. wire' = [wire EXCEPT ![e] = "refused"] /\ posted' = posted
      BY <2>3 DEF Reject
    <3> QED
      BY <1>1, <2>1, <3>1 DEF PostedOnce, Outer
  <2> QED
    BY <2>2, <2>3
<1>8. NoRecordNoWire'
  BY <1>1, <1>2 DEF IInv, NoRecordNoWire
<1>9. RecordsAccounted'
  BY <1>1, <1>2 DEF IInv, RecordsAccounted, Accounted
<1>10. IntentFirst'
  BY <1>1, <1>2 DEF IInv, IntentFirst, Positions, Fits
<1> QED
  BY <1>5, <1>6, <1>7, <1>8, <1>9, <1>10 DEF IInv

LEMMA EnvironmentStep == IInv /\ Environment => IInv'
<1> SUFFICES ASSUME IInv, Environment PROVE IInv'
  OBVIOUS
<1>1. ASSUME NEW e \in Effects, Accept(e) \/ Reject(e) PROVE IInv'
  BY <1>1, ServiceStep
<1>2. ASSUME NEW m \in Offers, Propose(m) PROVE IInv'
  <2>1. Outer /\ faults \in 0 .. MaxFaults
        /\ UNCHANGED <<runtime, legacy, cursor, seen, lost, stopping, asked, offline, late, opens, wire, posted, computed, faults>>
    BY <1>2, Facts DEF Propose, agents, held, outside
  <2>2. room' \in [Peers -> Seq(Effects \cup Offers)]
    <3>1. room \in [Peers -> Seq(Effects \cup Offers)] /\ Home[m[1]] \in Peers
      BY <2>1, RootFacts DEF Outer, Peers, Offers
    <3>2. [room EXCEPT ![Home[m[1]]] = Append(@, m)] \in [Peers -> Seq(Effects \cup Offers)]
      BY <3>1, Arrives
    <3> QED
      BY <1>2, <3>2 DEF Propose
  <2>3. Outer'
    BY <2>1, <2>2 DEF Outer
  <2> QED
    BY <1>2, <2>1, <2>3, StillStep DEF Propose
<1>3. CASE Expire
  <2>1. Outer'
    BY <1>3, Facts DEF Expire, Outer, agents, held, network
  <2>2. faults' \in 0 .. MaxFaults
    BY <1>3, Facts DEF Expire
  <2> QED
    BY <1>3, <2>1, <2>2, StillStep DEF Expire, agents, network
<1> QED
  BY <1>1, <1>2, <1>3 DEF Environment

-----------------------------------------------------------------------------

LEMMA NextStep == IInv /\ [Next]_vars => IInv'
<1> SUFFICES ASSUME IInv, [Next]_vars PROVE IInv'
  OBVIOUS
<1>1. CASE Next
  BY <1>1, StartStep, OpeningStep, RootingStep, SteppingStep, SendingStep, WorkingStep,
     ReceivingStep, OperatingStep, EndingStep, EnvironmentStep DEF Next
<1>2. CASE UNCHANGED vars
  <2>1. Outer' /\ faults' \in 0 .. MaxFaults
    BY <1>2, Facts DEF vars, agents, held, outside, network, Outer
  <2> QED
    BY <1>2, <2>1, StillStep DEF vars, agents, outside, network
<1> QED
  BY <1>1, <1>2

\* What the invariant says of an effect that the service may have accepted.
LEMMA AccountedFor == IInv => EffectsAreAccounted
<1> SUFFICES ASSUME IInv, NEW e \in Effects
             PROVE  /\ posted[e] <= 1
                    /\ wire[e] = "request" \/ posted[e] > 0 =>
                          disk # None /\ disk.effect[e] \notin {"absent", "send-prepared", "failed"}
  BY DEF EffectsAreAccounted, IInv
<1>1. posted[e] = IF wire[e] = "posted" THEN 1 ELSE 0
  BY DEF IInv, PostedOnce
<1>2. CASE wire[e] \in {"request", "posted"}
  BY <1>1, <1>2 DEF IInv, NoRecordNoWire, RecordsAccounted, Accounted
<1>3. CASE wire[e] \notin {"request", "posted"}
  BY <1>1, <1>3
<1> QED
  BY <1>2, <1>3

\* However often the session dies, fails and is reopened, the service accepts
\* each effect at most once, and session.json calls none absent, merely
\* prepared or failed whose POST may have been accepted.
THEOREM EffectsOnce == Spec => []EffectsAreAccounted
<1>1. Spec => []IInv
  BY InitStep, NextStep, PTL DEF Spec
<1> QED
  BY <1>1, AccountedFor, PTL

-----------------------------------------------------------------------------
(* What the records say is true: of the agents' tasks, of the service and of *)
(* what was read.                                                            *)

\* A process and its session come and go together, and only a session between two
\* operations is halted.
Lively ==
    /\ pc = "off" <=> mem = None
    /\ mem # None => disk # None
    /\ pc \notin {"off", "idle", "releasing"} => mem.life # "halted"

\* What is in a room was accepted once, and went to its peer.
RoomsTrue ==
    \A p \in Peers : \A i \in 1 .. Len(room[p]) : room[p][i] \in Effects =>
        /\ posted[room[p][i]] = 1 /\ Target(room[p][i]) = p
        /\ \A j \in 1 .. Len(room[p]) : room[p][j] = room[p][i] => j = i

\* What has been computed, and when it was.
ComputedOnce ==
    /\ disk = None => \A n \in Nodes : computed[n] = 0
    /\ \A n \in Nodes :
        /\ computed[n] \in {0, 1}
        /\ runtime[n] = "succeeded" => computed[n] = 1
        /\ n \in Children /\ computed[n] = 1 => posted[<<n, "proposal">>] = 1

\* A proposal builds on work that is done and handed back, a result on its own.
Backed(e) ==
    IF e[2] = "proposal"
      THEN \A m \in Needs[e[1]] :
             computed[m] = 1 /\ (m \in Children => posted[<<m, "result">>] = 1)
      ELSE computed[e[1]] = 1

SendsBacked ==
    \A e \in Effects :
        wire[e] # "none" \/ (pc \in {"prepared", "sending"} /\ at = e) => Backed(e)

\* A session that is true of what was computed, of the agents' tasks and of what the
\* service accepted.
TrueIn(s, done, task, sent) ==
    /\ \A n \in Nodes :
        /\ s.compute[n] \in {"absent", "planned", "accepted"} => done[n] = 0
        /\ s.compute[n] = "result-ready" => task[n] = "succeeded"
        /\ s.delivery[n] = "local" => n \in Roots
        /\ s.delivery[n] = "received" => n \in Children /\ s.effect[<<n, "result">>] = "received"
    /\ \A n \in Children :
        s.compute[n] \in {"accepted", "running", "result-ready"} =>
            s.effect[<<n, "proposal">>] = "received"
    /\ \A e \in Effects :
        /\ s.effect[e] \in {"sent", "receiving", "received"} => sent[e] = 1
        /\ s.effect[e] # "absent" => s.compute[e[1]] # "absent"
    /\ \A r \in Roots : s.job[r] = "absent" => s.compute[r] = "absent"

\* Its completed jobs are.
CompletionsIn(s, done, task, sent) ==
    \A r \in Roots : s.job[r] = "completed" =>
        \A n \in TasksOf(r) :
            \/ s.compute[n] = "absent"
            \/ /\ done[n] = 1 /\ task[n] = "succeeded"
               /\ n \in Children => \A k \in {"proposal", "result"} :
                      sent[<<n, k>>] = 1 /\ s.effect[<<n, k>>] = "received"

\* Its completed jobs with a flow have as many tasks as that.
CountsIn(s) ==
    \A r \in Roots : s.job[r] = "completed" => s.flow[r] = <<>> \/ Len(s.tasks[r]) = Len(s.flow[r])

\* What has come into being is on the list of its job.
ListedIn(s) ==
    \A r \in Roots :
        /\ s.job[r] = "absent" => s.tasks[r] = <<>>
        /\ \A n \in TasksOf(r) : s.compute[n] # "absent" =>
              \E i \in DOMAIN s.tasks[r] : s.tasks[r][i] = n

\* It knows of an offer, and that one with other content came after it.
Known(s, m) ==
    /\ s.proposal[m[1]] # "absent"
    /\ m[2] = "changed" => s.proposal[m[1]] = "rejected"

\* It has taken in the messages of the rooms, up to those numbers.
ReadInto(s, task, rooms, upTo) ==
    \A p \in Peers : \A i \in 1 .. Len(rooms[p]) : i <= upTo[p] =>
        IF rooms[p][i] \in Offers
          THEN Known(s, rooms[p][i])
          ELSE /\ s.effect[rooms[p][i]] = "received"
               /\ rooms[p][i][2] = "proposal" => task[rooms[p][i][1]] # "none"

SoundIn(s, done, task, sent, rooms, upTo) ==
    /\ TrueIn(s, done, task, sent)
    /\ CompletionsIn(s, done, task, sent)
    /\ CountsIn(s) /\ ListedIn(s)
    /\ ReadInto(s, task, rooms, upTo)

\* How far the rooms are read.
behind == [p \in Peers |-> IF pc = "ack" /\ p = at THEN seen ELSE cursor[p]]

\* What a session says is so, now and after a step.
Sound(s) == SoundIn(s, computed, runtime, posted, room, behind)
SoundNext(s) == SoundIn(s, computed', runtime', posted', room', behind')

RecordsTrue ==
    /\ disk = None => \A p \in Peers : cursor[p] = 0
    /\ disk # None => Sound(disk)
    /\ mem # None => Sound(mem)

\* The task that is under way, and how far its room is read.
UnderWay ==
    /\ pc = "rooting" => mem.compute[at] = "planned"
    /\ pc = "accepting" => mem.compute[at] # "absent"
    /\ pc \in {"approved", "rooting", "accepting"} /\ at \in External =>
          mem.proposal[at] = "needs-operator"
    /\ pc \in {"running", "inferring", "ran"} =>
          disk # None /\ disk.compute[at] = "running" /\ mem.compute[at] = "running"
    /\ pc = "running" => computed[at] = 0
    /\ pc = "inferring" => computed[at] = 1 /\ runtime[at] = "running"
    /\ pc \in {"classify", "ack"} =>
          cursor[at] <= seen /\ (seen <= Len(room[at]) \/ seen = cursor[at])

\* What is not read yet is not known to be received, nor computed.
AheadIsNew ==
    /\ mem # None /\ mem.life # "halted" =>
        \A p \in Peers : \A i \in behind[p] + 1 .. Len(room[p]) :
            room[p][i] \in Effects => mem.effect[room[p][i]] # "received"
    /\ \A p \in Peers : \A i \in cursor[p] + 1 .. Len(room[p]) :
          \A n \in Nodes : room[p][i] = <<n, "proposal">> => computed[n] = 0

\* The rooms of an offline session end with its process.
OfflineEnds ==
    offline /\ mem = None =>
        /\ \A p \in Peers : room[p] = <<>>
        /\ \A e \in Effects : wire[e] # "request"

\* A room that ends before its cursor has lost its history, and gets no more messages.
LostRooms ==
    /\ \A p \in Peers : cursor[p] > Len(room[p]) =>
        /\ offline
        /\ \E e \in Effects : Target(e) = p /\ wire[e] # "none"
        /\ mem # None => p \in lost
    /\ offline => \A p \in Peers : \A i \in 1 .. Len(room[p]) : room[p][i] \in Effects
    /\ \A e \in Effects :
        wire[e] = "request" \/ (pc \in {"prepared", "sending"} /\ at = e) => Target(e) \notin lost

KInv ==
    /\ Lively /\ RoomsTrue /\ ComputedOnce /\ SendsBacked /\ RecordsTrue /\ UnderWay
    /\ AheadIsNew /\ OfflineEnds /\ LostRooms

\* A session that says nothing new of another: it knows the same effects to be
\* received, has no more of them on their way, gives tasks up or has one run, and
\* completes no job.
Grows(t, s) ==
    /\ t \in Sessions
    /\ \A e \in Effects :
        /\ t.effect[e] = "received" <=> s.effect[e] = "received"
        /\ t.effect[e] \in {"sent", "receiving"} => s.effect[e] \in {"sent", "receiving"}
        /\ t.effect[e] # "absent" => s.effect[e] # "absent"
    /\ \A n \in Nodes :
        /\ \/ t.compute[n] = s.compute[n]
           \/ t.compute[n] = "running" /\ s.compute[n] = "accepted"
           \/ t.compute[n] \in {"failed", "ambiguous"} /\ s.compute[n] # "absent"
        /\ t.delivery[n] \in {s.delivery[n], "needs-operator", "sent", "planned"}
    /\ \A r \in Roots :
        /\ t.job[r] = "completed" => s.job[r] = "completed" /\ t.flow[r] = s.flow[r]
        /\ t.job[r] = "absent" => s.job[r] = "absent"
    /\ t.tasks = s.tasks
    /\ \A r \in External :
        /\ s.proposal[r] # "absent" => t.proposal[r] # "absent"
        /\ s.proposal[r] = "rejected" => t.proposal[r] = "rejected"

LEMMA ProposalsAndResults ==
    /\ \A n \in Children : <<n, "proposal">> \in Effects /\ <<n, "result">> \in Effects
    /\ \A e \in Effects : /\ e[1] \in Children /\ e[1] \in Nodes /\ e = <<e[1], e[2]>>
                          /\ e[2] \in {"proposal", "result"}
    /\ \A n \in Nodes : /\ <<n, "proposal">> \notin Offers /\ <<n, "result">> \notin Offers
                        /\ <<n, "proposal">> \in Effects => n \in Children
                        /\ <<n, "result">> \in Effects => n \in Children
    /\ Effects \cap Offers = {}
    /\ \A m \in Offers : m[1] \in External /\ m[1] \in Nodes /\ m = <<m[1], m[2]>>
                         /\ m[2] \in {"offer", "changed"}
BY RootFacts DEF Effects, Offers

\* The lists of the jobs, where no task comes into being and none completes.
LEMMA ListsKept ==
    ASSUME NEW s, NEW t, CountsIn(s), ListedIn(s), t.tasks = s.tasks,
           \A r \in Roots : t.job[r] = "completed" => s.job[r] = "completed" /\ t.flow[r] = s.flow[r],
           \A r \in Roots : t.job[r] = "absent" => s.job[r] = "absent",
           \A n \in Nodes : s.compute[n] = "absent" => t.compute[n] = "absent"
    PROVE  CountsIn(t) /\ ListedIn(t)
<1>1. CountsIn(t)
  BY DEF CountsIn
<1>2. \A r \in Roots : \A n \in TasksOf(r) : n \in Nodes
  BY DEF TasksOf
<1> QED
  BY <1>1, <1>2 DEF ListedIn

\* What says nothing new is as true.
LEMMA GrowsSoundIn ==
    ASSUME NEW s, NEW t, NEW done, NEW task, NEW sent, NEW rooms, NEW upTo,
           \A p \in Peers : rooms[p] \in Seq(Effects \cup Offers),
           SoundIn(s, done, task, sent, rooms, upTo), Grows(t, s)
    PROVE  SoundIn(t, done, task, sent, rooms, upTo)
<1>e. /\ \A n \in Children : n \in Nodes /\ <<n, "proposal">> \in Effects /\ <<n, "result">> \in Effects
      /\ \A e \in Effects : e[1] \in Nodes
  BY ProposalsAndResults, RootFacts
<1>1. TrueIn(t, done, task, sent)
  <2>1. ASSUME NEW n \in Nodes
        PROVE  /\ t.compute[n] \in {"absent", "planned", "accepted"} => done[n] = 0
               /\ t.compute[n] = "result-ready" => task[n] = "succeeded"
               /\ t.delivery[n] = "local" => n \in Roots
    <3>1. /\ s.compute[n] \in {"absent", "planned", "accepted"} => done[n] = 0
          /\ s.compute[n] = "result-ready" => task[n] = "succeeded"
          /\ s.delivery[n] = "local" => n \in Roots
      BY DEF SoundIn, TrueIn
    <3>2. /\ \/ t.compute[n] = s.compute[n]
             \/ t.compute[n] = "running" \/ t.compute[n] \in {"failed", "ambiguous"}
          /\ t.delivery[n] \in {s.delivery[n], "needs-operator", "sent", "planned"}
      BY DEF Grows
    <3> QED
      BY <3>1, <3>2
  <2>2. ASSUME NEW n \in Nodes, t.delivery[n] = "received"
        PROVE  n \in Children /\ t.effect[<<n, "result">>] = "received"
    <3>1. s.delivery[n] = "received"
      BY <2>2 DEF Grows
    <3>2. n \in Children /\ s.effect[<<n, "result">>] = "received"
      BY <3>1 DEF SoundIn, TrueIn
    <3> QED
      BY <1>e, <3>2 DEF Grows
  <2>3. ASSUME NEW n \in Children, t.compute[n] \in {"accepted", "running", "result-ready"}
        PROVE  t.effect[<<n, "proposal">>] = "received"
    <3>1. s.compute[n] \in {"accepted", "running", "result-ready"}
      BY <1>e, <2>3 DEF Grows
    <3>2. s.effect[<<n, "proposal">>] = "received"
      BY <3>1 DEF SoundIn, TrueIn
    <3> QED
      BY <1>e, <3>2 DEF Grows
  <2>4. ASSUME NEW e \in Effects
        PROVE  /\ t.effect[e] \in {"sent", "receiving", "received"} => sent[e] = 1
               /\ t.effect[e] # "absent" => t.compute[e[1]] # "absent"
    <3>1. t.effect[e] \in {"sent", "receiving", "received"} =>
            s.effect[e] \in {"sent", "receiving", "received"}
      BY DEF Grows
    <3>2. t.effect[e] # "absent" => s.effect[e] # "absent"
      BY DEF Grows
    <3>3. s.compute[e[1]] # "absent" => t.compute[e[1]] # "absent"
      BY <1>e DEF Grows
    <3> QED
      BY <3>1, <3>2, <3>3 DEF SoundIn, TrueIn
  <2>5. \A r \in Roots : t.job[r] = "absent" => t.compute[r] = "absent"
    <3>1. \A r \in Roots : r \in Nodes
      BY RootFacts
    <3> QED
      BY <3>1 DEF SoundIn, TrueIn, Grows
  <2> QED
    BY <2>1, <2>2, <2>3, <2>4, <2>5 DEF TrueIn
<1>2. CompletionsIn(t, done, task, sent)
  <2> SUFFICES ASSUME NEW r \in Roots, t.job[r] = "completed", NEW n \in TasksOf(r)
               PROVE  \/ t.compute[n] = "absent"
                      \/ /\ done[n] = 1 /\ task[n] = "succeeded"
                         /\ n \in Children => \A k \in {"proposal", "result"} :
                                sent[<<n, k>>] = 1 /\ t.effect[<<n, k>>] = "received"
    BY DEF CompletionsIn
  <2>1. s.job[r] = "completed" /\ t.flow[r] = s.flow[r] /\ n \in Nodes
    BY DEF Grows, TasksOf
  <2>2. \/ s.compute[n] = "absent"
        \/ /\ done[n] = 1 /\ task[n] = "succeeded"
           /\ n \in Children => \A k \in {"proposal", "result"} :
                  sent[<<n, k>>] = 1 /\ s.effect[<<n, k>>] = "received"
    BY <2>1 DEF SoundIn, CompletionsIn
  <2>3. s.compute[n] = "absent" => t.compute[n] = "absent"
    BY <2>1 DEF Grows
  <2>4. n \in Children => \A k \in {"proposal", "result"} :
            s.effect[<<n, k>>] = "received" => t.effect[<<n, k>>] = "received"
    BY <1>e DEF Grows
  <2> QED
    BY <2>1, <2>2, <2>3, <2>4
<1>3. ReadInto(t, task, rooms, upTo)
  <2> SUFFICES ASSUME NEW p \in Peers, NEW i \in 1 .. Len(rooms[p]), i <= upTo[p]
               PROVE  IF rooms[p][i] \in Offers
                        THEN Known(t, rooms[p][i])
                        ELSE /\ t.effect[rooms[p][i]] = "received"
                             /\ rooms[p][i][2] = "proposal" => task[rooms[p][i][1]] # "none"
    BY DEF ReadInto
  <2>1. rooms[p][i] \in Effects \cup Offers
    OBVIOUS
  <2>2. IF rooms[p][i] \in Offers
          THEN Known(s, rooms[p][i])
          ELSE /\ s.effect[rooms[p][i]] = "received"
               /\ rooms[p][i][2] = "proposal" => task[rooms[p][i][1]] # "none"
    BY DEF SoundIn, ReadInto
  <2>3. rooms[p][i] \in Offers => rooms[p][i][1] \in External
    BY ProposalsAndResults
  <2> QED
    BY <2>1, <2>2, <2>3 DEF Grows, Known
<1>4. CountsIn(t) /\ ListedIn(t)
  <2>1. CountsIn(s) /\ ListedIn(s)
    BY DEF SoundIn
  <2>2. \A n \in Nodes : s.compute[n] = "absent" => t.compute[n] = "absent"
    BY DEF Grows
  <2> QED
    BY <2>1, <2>2, ListsKept DEF Grows
<1> QED
  BY <1>1, <1>2, <1>3, <1>4 DEF SoundIn

LEMMA GrowsSound ==
    ASSUME IInv, NEW s, NEW t, Sound(s), Grows(t, s)
    PROVE  Sound(t)
<1>1. \A p \in Peers : room[p] \in Seq(Effects \cup Offers)
  BY Facts DEF Outer
<1> QED
  BY <1>1, GrowsSoundIn DEF Sound

LEMMA GrowsTransitive ==
    ASSUME NEW r, NEW s, NEW t, Grows(s, r), Grows(t, s)
    PROVE  Grows(t, r)
BY DEF Grows

LEMMA HaltedGrows ==
    ASSUME NEW s \in Sessions
    PROVE  Grows(Halted(s), s) /\ Halted(s).life = "halted"
BY DEF Halted, Grows, Sessions

LEMMA SpendGrows ==
    ASSUME NEW s \in Sessions, NEW b \in Budgets
    PROVE  Grows(Spend(s, b), s) /\ Spend(s, b).life = s.life
<1> DEFINE spent == [s.spent EXCEPT ![b] = @ + 1]
<1>1. spent \in [Budgets -> Nat]
  BY DEF Sessions
<1>2. Spend(s, b) = [s EXCEPT !.spent = spent]
  BY DEF Spend, Sessions
<1> HIDE DEF spent
<1> QED
  BY <1>1, <1>2 DEF Grows, Sessions

LEMMA SettleGrows ==
    ASSUME NEW s \in Sessions
    PROVE  Grows(Settle(s), s) /\ Settle(s).life = s.life
<1>1. /\ Settle(s) \in Sessions /\ Settle(s).delivery = s.delivery /\ Settle(s).compute = s.compute
      /\ Settle(s).job = s.job /\ Settle(s).flow = s.flow /\ Settle(s).tasks = s.tasks /\ Settle(s).proposal = s.proposal
      /\ Settle(s).life = s.life
  BY DEF Settle, Sessions, Statuses
<1>2. \A e \in Effects : Settle(s).effect[e] =
          IF s.effect[e] \in {"sending", "receiving"} THEN "ambiguous" ELSE s.effect[e]
  BY DEF Settle, Sessions
<1> QED
  BY <1>1, <1>2 DEF Grows

LEMMA BlockGrows ==
    ASSUME NEW s \in Sessions, NEW n
    PROVE  Grows(Block(s, n), s) /\ Block(s, n).life = s.life
BY DEF Block, Grows, Sessions, Jobs

LEMMA LifeGrows ==
    ASSUME NEW s \in Sessions,
           NEW l \in {"starting", "active", "paused", "stopping", "stopped", "halted"}
    PROVE  Grows([s EXCEPT !.life = l], s) /\ [s EXCEPT !.life = l].life = l
BY DEF Grows, Sessions

LEMMA RoundsGrows ==
    ASSUME NEW s \in Sessions, NEW f \in [Scheduled -> 0 .. MaxRounds]
    PROVE  Grows([s EXCEPT !.rounds = f], s) /\ [s EXCEPT !.rounds = f].life = s.life
BY DEF Grows, Sessions

\* An effect that was begun, and that no one has received, goes on.
LEMMA EffectGrows ==
    ASSUME NEW s \in Sessions, NEW e \in Effects, NEW v \in {"sending", "failed", "ambiguous"},
           s.effect[e] \notin {"absent", "received"}
    PROVE  Grows([s EXCEPT !.effect[e] = v], s) /\ [s EXCEPT !.effect[e] = v].life = s.life
<1> DEFINE t == [s EXCEPT !.effect[e] = v]
<1>1. v \in Statuses
  BY DEF Statuses
<1>2. /\ t \in Sessions /\ t.effect = [s.effect EXCEPT ![e] = v] /\ s.effect \in [Effects -> Statuses]
      /\ t.compute = s.compute /\ t.delivery = s.delivery /\ t.job = s.job /\ t.flow = s.flow /\ t.tasks = s.tasks
      /\ t.proposal = s.proposal /\ t.life = s.life
  BY <1>1 DEF Sessions
<1> HIDE DEF t
<1> QED
  BY <1>2 DEF Grows, t

\* A task that was begun is given up, or an accepted one runs.
LEMMA ComputeGrows ==
    ASSUME NEW s \in Sessions, NEW n \in Nodes, NEW c \in Computes,
           \/ c = "running" /\ s.compute[n] = "accepted"
           \/ c \in {"failed", "ambiguous"} /\ s.compute[n] # "absent"
    PROVE  Grows([s EXCEPT !.compute[n] = c], s) /\ [s EXCEPT !.compute[n] = c].life = s.life
<1> DEFINE t == [s EXCEPT !.compute[n] = c]
<1>2. /\ t \in Sessions /\ t.compute = [s.compute EXCEPT ![n] = c] /\ s.compute \in [Nodes -> Computes]
      /\ t.effect = s.effect /\ t.delivery = s.delivery /\ t.job = s.job /\ t.flow = s.flow /\ t.tasks = s.tasks
      /\ t.proposal = s.proposal /\ t.life = s.life
  BY DEF Sessions
<1> HIDE DEF t
<1> QED
  BY <1>2 DEF Grows, t

LEMMA DeliveryGrows ==
    ASSUME NEW s \in Sessions, NEW n, NEW d \in {"needs-operator", "sent", "planned"}
    PROVE  Grows([s EXCEPT !.delivery[n] = d], s) /\ [s EXCEPT !.delivery[n] = d].life = s.life
BY DEF Grows, Sessions, Deliveries

LEMMA ProposalGrows ==
    ASSUME NEW s \in Sessions, NEW r, r \in External => s.proposal[r] # "rejected"
    PROVE  /\ Grows([s EXCEPT !.proposal[r] = "accepted"], s)
           /\ [s EXCEPT !.proposal[r] = "accepted"].life = s.life
BY DEF Grows, Sessions

LEMMA ReceivedGrows ==
    ASSUME mem \in Sessions, NEW a
    PROVE  Grows(Received(mem, a), mem) /\ Received(mem, a).life = mem.life
<1> DEFINE effect == [e \in Effects |-> IF e \in Sent(a) THEN "receiving" ELSE mem.effect[e]]
           t == [mem EXCEPT !.effect = effect]
<1>1. effect \in [Effects -> Statuses]
  BY DEF Sessions, Statuses
<1>2. \A e \in Effects : e \in Sent(a) => mem.effect[e] = "sent"
  BY DEF Sent
<1>3. \A e \in Effects : effect[e] = IF e \in Sent(a) THEN "receiving" ELSE mem.effect[e]
  OBVIOUS
<1> HIDE DEF effect
<1>4. /\ t \in Sessions /\ t.effect = effect
      /\ t.compute = mem.compute /\ t.delivery = mem.delivery /\ t.job = mem.job /\ t.flow = mem.flow /\ t.tasks = mem.tasks
      /\ t.proposal = mem.proposal /\ t.life = mem.life
  BY <1>1 DEF Sessions
<1> HIDE DEF t
<1>5. Grows(t, mem)
  BY <1>2, <1>3, <1>4 DEF Grows
<1>6. Received(mem, a) = t
  BY DEF Received, t, effect
<1> QED
  BY <1>4, <1>5, <1>6

\* A session that may take the place of another: it is as true, and unless it is
\* halted it knows the same effects to be received.
Steady(t, s) ==
    /\ t \in Sessions /\ Sound(t)
    /\ t.life # "halted" =>
        /\ s.life # "halted"
        /\ \A e \in Effects : t.effect[e] = "received" <=> s.effect[e] = "received"

LEMMA GrowsSteady ==
    ASSUME IInv, NEW s, NEW t, Sound(s), Grows(t, s), t.life # "halted" => s.life # "halted"
    PROVE  Steady(t, s)
BY GrowsSound DEF Steady, Grows

LEMMA SteadyTransitive ==
    ASSUME NEW r, NEW s, NEW t, Steady(s, r), Steady(t, s)
    PROVE  Steady(t, r)
BY DEF Steady

LEMMA HaltedSteady ==
    ASSUME IInv, NEW s \in Sessions, Sound(s), NEW r
    PROVE  Steady(Halted(s), r)
BY HaltedGrows, GrowsSound DEF Steady, Grows

\* What completeJobs completes is computed, and handed back.
LEMMA CompletedSteady ==
    ASSUME IInv, KInv, NEW s \in Sessions, Sound(s)
    PROVE  Steady(Completed(s), s) /\ Completed(s).life = s.life
<1> DEFINE jobs == [r \in Roots |->
                IF /\ s.job[r] \notin {"absent", "needs-operator"}
                   /\ s.flow[r] = <<>> \/ Len(s.tasks[r]) = Len(s.flow[r])
                   /\ \A i \in DOMAIN s.tasks[r] : Done(s, s.tasks[r][i])
                  THEN "completed" ELSE s.job[r]]
           t == [s EXCEPT !.job = jobs]
<1>1. Completed(s) = t
  BY DEF Completed
<1>2. jobs \in [Roots -> Jobs]
  BY DEF Sessions, Jobs
<1>3. \A r \in Roots : /\ jobs[r] = "absent" => s.job[r] = "absent"
                       /\ jobs[r] = "completed" =>
                            \/ s.job[r] = "completed"
                            \/ /\ s.flow[r] = <<>> \/ Len(s.tasks[r]) = Len(s.flow[r])
                               /\ \A i \in DOMAIN s.tasks[r] : Done(s, s.tasks[r][i])
  OBVIOUS
<1> HIDE DEF jobs
<1>4. /\ t \in Sessions /\ t.job = jobs /\ t.effect = s.effect /\ t.compute = s.compute
      /\ t.delivery = s.delivery /\ t.flow = s.flow /\ t.tasks = s.tasks /\ t.proposal = s.proposal /\ t.life = s.life
  BY <1>2 DEF Sessions
<1> HIDE DEF t
<1>5. TrueIn(t, computed, runtime, posted)
  BY <1>3, <1>4 DEF Sound, SoundIn, TrueIn
<1>6. ReadInto(t, runtime, room, behind)
  BY <1>4 DEF Sound, SoundIn, ReadInto, Known
<1>7. CompletionsIn(t, computed, runtime, posted)
  <2> SUFFICES ASSUME NEW r \in Roots, t.job[r] = "completed", NEW n \in TasksOf(r)
               PROVE  \/ t.compute[n] = "absent"
                      \/ /\ computed[n] = 1 /\ runtime[n] = "succeeded"
                         /\ n \in Children => \A k \in {"proposal", "result"} :
                                posted[<<n, k>>] = 1 /\ t.effect[<<n, k>>] = "received"
    BY DEF CompletionsIn
  <2>1. n \in Nodes
    BY DEF TasksOf
  <2>2. CASE s.job[r] = "completed"
    BY <1>4, <2>2 DEF Sound, SoundIn, CompletionsIn
  <2>3. CASE Done(s, n)
    <3>1. runtime[n] = "succeeded" /\ computed[n] = 1
      BY <2>1, <2>3 DEF Done, Sound, SoundIn, TrueIn, KInv, ComputedOnce
    <3>2. ASSUME n \in Children PROVE s.effect[<<n, "proposal">>] = "received" /\ s.effect[<<n, "result">>] = "received"
      BY <2>1, <2>3, <3>2 DEF Done, Sound, SoundIn, TrueIn, Children
    <3>3. ASSUME n \in Children PROVE posted[<<n, "proposal">>] = 1 /\ posted[<<n, "result">>] = 1
      BY <3>2, <3>3, ProposalsAndResults DEF Sound, SoundIn, TrueIn
    <3> QED
      BY <1>4, <3>1, <3>2, <3>3
  <2>4. CASE s.job[r] # "completed" /\ s.compute[n] # "absent"
    <3>1. \E i \in DOMAIN s.tasks[r] : s.tasks[r][i] = n
      BY <2>4 DEF Sound, SoundIn, ListedIn
    <3> QED
      BY <1>3, <1>4, <2>3, <2>4, <3>1
  <2> QED
    BY <1>4, <2>2, <2>4
<1>8. CountsIn(t) /\ ListedIn(t)
  BY <1>3, <1>4 DEF Sound, SoundIn, CountsIn, ListedIn
<1> QED
  BY <1>1, <1>4, <1>5, <1>6, <1>7, <1>8 DEF Sound, SoundIn, Steady

\* rootTask: nothing was known of the root.
LEMMA RootedSteady ==
    ASSUME IInv, KInv, NEW s \in Sessions, Sound(s), NEW r \in Roots, NEW f \in Flows \cup {<<>>},
           s.job[r] = "absent"
    PROVE  LET t == [s EXCEPT !.job[r] = "accepted", !.tasks[r] = <<r>>, !.flow[r] = f,
                              !.compute[r] = "planned", !.delivery[r] = "local"]
           IN  Steady(t, s) /\ t.life = s.life /\ t.compute[r] = "planned" /\ t.proposal = s.proposal
<1> DEFINE t == [s EXCEPT !.job[r] = "accepted", !.tasks[r] = <<r>>, !.flow[r] = f,
                          !.compute[r] = "planned", !.delivery[r] = "local"]
<1>1. /\ s.job \in [Roots -> Jobs] /\ s.flow \in [Roots -> Flows \cup {<<>>}]
      /\ s.tasks \in [Roots -> Seq(Nodes)]
      /\ s.compute \in [Nodes -> Computes] /\ s.delivery \in [Nodes -> Deliveries]
  BY DEF Sessions
<1>2. /\ t \in Sessions /\ t.job = [s.job EXCEPT ![r] = "accepted"] /\ t.effect = s.effect
      /\ t.compute = [s.compute EXCEPT ![r] = "planned"]
      /\ t.delivery = [s.delivery EXCEPT ![r] = "local"]
      /\ t.flow = [s.flow EXCEPT ![r] = f] /\ t.tasks = [s.tasks EXCEPT ![r] = <<r>>]
      /\ t.proposal = s.proposal /\ t.life = s.life
  <2>1. <<r>> \in Seq(Nodes)
    BY RootFacts
  <2> QED
    BY <1>1, <2>1 DEF Sessions, Jobs, Computes, Deliveries
<1>3. r \in Nodes /\ r \notin Children /\ s.compute[r] = "absent" /\ computed[r] = 0
  <2>1. r \in Nodes /\ r \notin Children /\ s.compute[r] = "absent"
    BY RootFacts DEF Sound, SoundIn, TrueIn, Children
  <2> QED
    BY <2>1 DEF Sound, SoundIn, TrueIn
<1> HIDE DEF t
<1>4. TrueIn(t, computed, runtime, posted)
  <2>1. \A n \in Nodes \ {r} : t.compute[n] = s.compute[n] /\ t.delivery[n] = s.delivery[n]
    BY <1>1, <1>2
  <2>2. t.compute[r] = "planned" /\ t.delivery[r] = "local"
    BY <1>1, <1>2, <1>3
  <2>3. \A q \in Roots : q # r => t.job[q] = s.job[q]
    BY <1>1, <1>2
  <2>4. t.job[r] = "accepted" /\ \A n \in Children : n # r /\ n \in Nodes
    BY <1>1, <1>2, <1>3 DEF Children
  <2>5. \A e \in Effects : e[1] # r /\ e[1] \in Nodes
    BY <2>4, ProposalsAndResults
  <2>6. \A q \in Roots : q \in Nodes
    BY RootFacts
  <2> QED
    BY <1>2, <1>3, <2>1, <2>2, <2>3, <2>4, <2>5, <2>6 DEF Sound, SoundIn, TrueIn
<1>5. CompletionsIn(t, computed, runtime, posted)
  <2> SUFFICES ASSUME NEW q \in Roots, t.job[q] = "completed", NEW n \in TasksOf(q)
               PROVE  \/ t.compute[n] = "absent"
                      \/ /\ computed[n] = 1 /\ runtime[n] = "succeeded"
                         /\ n \in Children => \A k \in {"proposal", "result"} :
                                posted[<<n, k>>] = 1 /\ t.effect[<<n, k>>] = "received"
    BY DEF CompletionsIn
  <2>1. q # r /\ s.job[q] = "completed" /\ t.flow[q] = s.flow[q]
    BY <1>1, <1>2
  <2>2. n # r /\ n \in Nodes
    BY <2>1, PeerSessionAssumption DEF TasksOf
  <2>3. t.compute[n] = s.compute[n]
    BY <1>1, <1>2, <2>2
  <2> QED
    BY <1>2, <2>1, <2>3 DEF Sound, SoundIn, CompletionsIn
<1>6. ReadInto(t, runtime, room, behind)
  BY <1>2 DEF Sound, SoundIn, ReadInto, Known
<1>7. t.compute[r] = "planned"
  BY <1>1, <1>2, <1>3
<1>8. CountsIn(t) /\ ListedIn(t)
  <2>1. \A q \in Roots \ {r} : t.job[q] = s.job[q] /\ t.flow[q] = s.flow[q] /\ t.tasks[q] = s.tasks[q]
    BY <1>1, <1>2
  <2>2. t.job[r] = "accepted" /\ t.tasks[r] = <<r>>
    BY <1>1, <1>2
  <2>3. CountsIn(t)
    BY <2>1, <2>2 DEF Sound, SoundIn, CountsIn
  <2>4. ASSUME NEW q \in Roots, NEW n \in TasksOf(q), t.compute[n] # "absent"
        PROVE  \E i \in DOMAIN t.tasks[q] : t.tasks[q][i] = n
    <3>1. n \in Nodes /\ Job[n] = q
      BY DEF TasksOf
    <3>2. CASE n = r
      <4>1. q = r
        BY <3>1, <3>2, PeerSessionAssumption
      <4> QED
        BY <2>2, <3>2, <4>1
    <3>3. CASE n # r
      <4>1. s.compute[n] # "absent"
        BY <1>1, <1>2, <2>4, <3>1, <3>3
      <4>2. PICK i \in DOMAIN s.tasks[q] : s.tasks[q][i] = n
        BY <4>1 DEF Sound, SoundIn, ListedIn
      <4>3. CASE q # r
        BY <2>1, <4>2, <4>3
      <4>4. CASE q = r
        BY <4>2, <4>4 DEF Sound, SoundIn, ListedIn
      <4> QED
        BY <4>3, <4>4
    <3> QED
      BY <3>2, <3>3
  <2>5. \A q \in Roots : t.job[q] = "absent" => t.tasks[q] = <<>>
    BY <2>1, <2>2 DEF Sound, SoundIn, ListedIn
  <2> QED
    BY <2>3, <2>4, <2>5 DEF ListedIn
<1> QED
  BY <1>2, <1>4, <1>5, <1>6, <1>7, <1>8 DEF Sound, SoundIn, Steady, t

\* delegateOwned: the task was absent, and its job runs again.
LEMMA PlannedSteady ==
    ASSUME IInv, KInv, mem \in Sessions, Sound(mem), NEW n \in Children, mem.compute[n] = "absent"
    PROVE  Steady(Planned(n), mem) /\ Planned(n).life = mem.life /\ Planned(n).compute[n] = "planned"
<1> DEFINE s == Spend(mem, "tasks")
           t == [s EXCEPT !.job[Job[n]] = "running", !.tasks[Job[n]] = Append(s.tasks[Job[n]], n),
                          !.compute[n] = "planned", !.delivery[n] = "planned"]
<1>1. s \in Sessions /\ Sound(s) /\ s.life = mem.life /\ s.compute[n] = "absent" /\ Grows(s, mem)
  <2>1. Grows(s, mem) /\ s.life = mem.life
    BY SpendGrows DEF Budgets
  <2>2. s.compute[n] = "absent"
    BY DEF Spend, Sessions
  <2> QED
    BY <2>1, <2>2, GrowsSound DEF Grows
<1>2. Planned(n) = t
  BY <1>1 DEF Planned, Sessions
<1> HIDE DEF s
<1>3. /\ s.tasks \in [Roots -> Seq(Nodes)] /\ s.job \in [Roots -> Jobs] /\ s.compute \in [Nodes -> Computes]
      /\ s.delivery \in [Nodes -> Deliveries]
  BY <1>1 DEF Sessions
<1>4. /\ t \in Sessions /\ t.job = [s.job EXCEPT ![Job[n]] = "running"] /\ t.effect = s.effect
      /\ t.compute = [s.compute EXCEPT ![n] = "planned"]
      /\ t.delivery = [s.delivery EXCEPT ![n] = "planned"]
      /\ t.tasks = [s.tasks EXCEPT ![Job[n]] = Append(s.tasks[Job[n]], n)]
      /\ t.flow = s.flow /\ t.proposal = s.proposal /\ t.life = s.life
  <2> DEFINE q == Append(s.tasks[Job[n]], n)
  <2>1. Job[n] \in Roots => q \in Seq(Nodes)
    BY <1>3, RootFacts
  <2> HIDE DEF q
  <2>2. [s.tasks EXCEPT ![Job[n]] = q] \in [Roots -> Seq(Nodes)]
    BY <1>3, <2>1
  <2>3. t = [s EXCEPT !.job[Job[n]] = "running", !.tasks[Job[n]] = q,
                      !.compute[n] = "planned", !.delivery[n] = "planned"]
    BY DEF q
  <2>4. /\ t \in Sessions /\ t.job = [s.job EXCEPT ![Job[n]] = "running"] /\ t.effect = s.effect
        /\ t.compute = [s.compute EXCEPT ![n] = "planned"]
        /\ t.delivery = [s.delivery EXCEPT ![n] = "planned"]
        /\ t.tasks = [s.tasks EXCEPT ![Job[n]] = q]
        /\ t.flow = s.flow /\ t.proposal = s.proposal /\ t.life = s.life
    BY <1>1, <1>3, <2>2, <2>3 DEF Sessions, Jobs, Computes, Deliveries
  <2> QED
    BY <2>4 DEF q
<1>5. n \in Nodes /\ n \notin Roots /\ computed[n] = 0
  BY <1>1, RootFacts DEF Sound, SoundIn, TrueIn, Children
<1> HIDE DEF t
<1>6. /\ t.compute[n] = "planned" /\ t.delivery[n] = "planned"
      /\ \A m \in Nodes \ {n} : t.compute[m] = s.compute[m] /\ t.delivery[m] = s.delivery[m]
      /\ \A q \in Roots : t.job[q] = (IF q = Job[n] THEN "running" ELSE s.job[q])
  BY <1>3, <1>4, <1>5
<1>7. TrueIn(t, computed, runtime, posted)
  <2>1. ASSUME NEW m \in Nodes
        PROVE  /\ t.compute[m] \in {"absent", "planned", "accepted"} => computed[m] = 0
               /\ t.compute[m] = "result-ready" => runtime[m] = "succeeded"
               /\ t.delivery[m] = "local" => m \in Roots
               /\ t.delivery[m] = "received" => m \in Children /\ t.effect[<<m, "result">>] = "received"
    BY <1>1, <1>4, <1>5, <1>6 DEF Sound, SoundIn, TrueIn
  <2>2. ASSUME NEW m \in Children, t.compute[m] \in {"accepted", "running", "result-ready"}
        PROVE  t.effect[<<m, "proposal">>] = "received"
    <3>1. m \in Nodes /\ m # n
      BY <1>6, <2>2, RootFacts
    <3> QED
      BY <1>1, <1>4, <1>6, <2>2, <3>1 DEF Sound, SoundIn, TrueIn
  <2>3. ASSUME NEW e \in Effects
        PROVE  /\ t.effect[e] \in {"sent", "receiving", "received"} => posted[e] = 1
               /\ t.effect[e] # "absent" => t.compute[e[1]] # "absent"
    <3>1. e[1] \in Nodes
      BY ProposalsAndResults
    <3> QED
      BY <1>1, <1>4, <1>6, <3>1 DEF Sound, SoundIn, TrueIn
  <2>4. ASSUME NEW r \in Roots, t.job[r] = "absent" PROVE t.compute[r] = "absent"
    <3>1. r \in Nodes /\ r # n /\ s.job[r] = "absent"
      BY <1>5, <1>6, <2>4, RootFacts
    <3> QED
      BY <1>1, <1>6, <3>1 DEF Sound, SoundIn, TrueIn
  <2> QED
    BY <2>1, <2>2, <2>3, <2>4 DEF TrueIn
<1>8. CompletionsIn(t, computed, runtime, posted)
  <2> SUFFICES ASSUME NEW q \in Roots, t.job[q] = "completed", NEW m \in TasksOf(q)
               PROVE  \/ t.compute[m] = "absent"
                      \/ /\ computed[m] = 1 /\ runtime[m] = "succeeded"
                         /\ m \in Children => \A k \in {"proposal", "result"} :
                                posted[<<m, k>>] = 1 /\ t.effect[<<m, k>>] = "received"
    BY DEF CompletionsIn
  <2>1. s.job[q] = "completed" /\ q # Job[n]
    BY <1>6
  <2>2. m # n /\ m \in Nodes
    BY <2>1 DEF TasksOf
  <2> QED
    BY <1>1, <1>4, <1>6, <2>1, <2>2 DEF Sound, SoundIn, CompletionsIn
<1>9. ReadInto(t, runtime, room, behind)
  BY <1>1, <1>4 DEF Sound, SoundIn, ReadInto, Known
<1>12. CountsIn(t) /\ ListedIn(t)
  <2>1. CountsIn(t)
    BY <1>1, <1>3, <1>4, <1>6 DEF Sound, SoundIn, CountsIn
  <2>2. ASSUME NEW r \in Roots, NEW m \in TasksOf(r), t.compute[m] # "absent"
        PROVE  \E i \in DOMAIN t.tasks[r] : t.tasks[r][i] = m
    <3>1. m \in Nodes /\ Job[m] = r /\ s.tasks[r] \in Seq(Nodes)
      BY <1>3 DEF TasksOf
    <3>2. CASE m = n
      <4>1. t.tasks[r] = Append(s.tasks[r], n)
        BY <1>3, <1>4, <3>1, <3>2
      <4> QED
        BY <3>1, <3>2, <4>1
    <3>3. CASE m # n
      <4>1. s.compute[m] # "absent"
        BY <1>6, <2>2, <3>1, <3>3
      <4>2. PICK i \in DOMAIN s.tasks[r] : s.tasks[r][i] = m
        BY <1>1, <4>1 DEF Sound, SoundIn, ListedIn
      <4>3. t.tasks[r] \in {s.tasks[r], Append(s.tasks[r], n)}
        BY <1>3, <1>4
      <4> QED
        BY <3>1, <4>2, <4>3
    <3> QED
      BY <3>2, <3>3
  <2>3. ASSUME NEW r \in Roots, t.job[r] = "absent" PROVE t.tasks[r] = <<>>
    <3>1. r # Job[n] /\ s.job[r] = "absent" /\ t.tasks[r] = s.tasks[r]
      BY <1>3, <1>4, <1>6, <2>3
    <3> QED
      BY <1>1, <3>1 DEF Sound, SoundIn, ListedIn
  <2> QED
    BY <2>1, <2>2, <2>3 DEF ListedIn
<1>10. Steady(t, s)
  BY <1>4, <1>7, <1>8, <1>9, <1>12 DEF Sound, SoundIn, Steady
<1>11. Steady(s, mem)
  BY <1>1, GrowsSteady
<1> QED
  BY <1>1, <1>2, <1>4, <1>6, <1>10, <1>11, SteadyTransitive

\* A planned root is accepted by its runtime; a running task that succeeded is ready.
LEMMA ComputeSteady ==
    ASSUME IInv, NEW s \in Sessions, Sound(s), NEW n \in Nodes, NEW c \in Computes,
           \/ c = "accepted" /\ s.compute[n] = "planned" /\ n \in Roots
           \/ c = "result-ready" /\ s.compute[n] = "running" /\ runtime[n] = "succeeded"
    PROVE  Steady([s EXCEPT !.compute[n] = c], s) /\ [s EXCEPT !.compute[n] = c].life = s.life
<1> DEFINE t == [s EXCEPT !.compute[n] = c]
<1>1. /\ t \in Sessions /\ t.compute = [s.compute EXCEPT ![n] = c] /\ s.compute \in [Nodes -> Computes]
      /\ t.effect = s.effect /\ t.delivery = s.delivery /\ t.job = s.job /\ t.flow = s.flow /\ t.tasks = s.tasks
      /\ t.proposal = s.proposal /\ t.life = s.life
  BY DEF Sessions
<1> HIDE DEF t
<1>2. t.compute[n] = c /\ \A m \in Nodes \ {n} : t.compute[m] = s.compute[m]
  BY <1>1
<1>3. c \in {"accepted", "result-ready"} /\ s.compute[n] \in {"planned", "running"}
  OBVIOUS
<1>4. TrueIn(t, computed, runtime, posted)
  <2>1. ASSUME NEW m \in Nodes
        PROVE  /\ t.compute[m] \in {"absent", "planned", "accepted"} => computed[m] = 0
               /\ t.compute[m] = "result-ready" => runtime[m] = "succeeded"
               /\ t.delivery[m] = "local" => m \in Roots
               /\ t.delivery[m] = "received" => m \in Children /\ t.effect[<<m, "result">>] = "received"
    BY <1>1, <1>2 DEF Sound, SoundIn, TrueIn
  <2>2. ASSUME NEW m \in Children, t.compute[m] \in {"accepted", "running", "result-ready"}
        PROVE  t.effect[<<m, "proposal">>] = "received"
    <3>1. m \in Nodes /\ m \notin Roots
      BY <2>2, RootFacts DEF Children
    <3>2. s.compute[m] \in {"accepted", "running", "result-ready"}
      BY <1>2, <2>2, <3>1
    <3> QED
      BY <1>1, <3>2 DEF Sound, SoundIn, TrueIn
  <2>3. ASSUME NEW e \in Effects
        PROVE  /\ t.effect[e] \in {"sent", "receiving", "received"} => posted[e] = 1
               /\ t.effect[e] # "absent" => t.compute[e[1]] # "absent"
    <3>1. e[1] \in Nodes
      BY ProposalsAndResults
    <3> QED
      BY <1>1, <1>2, <1>3, <3>1 DEF Sound, SoundIn, TrueIn
  <2>4. ASSUME NEW r \in Roots, t.job[r] = "absent" PROVE t.compute[r] = "absent"
    <3>1. r \in Nodes /\ s.compute[r] = "absent"
      BY <1>1, <2>4, RootFacts DEF Sound, SoundIn, TrueIn
    <3> QED
      BY <1>2, <1>3, <3>1
  <2> QED
    BY <2>1, <2>2, <2>3, <2>4 DEF TrueIn
<1>5. CompletionsIn(t, computed, runtime, posted)
  <2> SUFFICES ASSUME NEW q \in Roots, t.job[q] = "completed", NEW m \in TasksOf(q)
               PROVE  \/ t.compute[m] = "absent"
                      \/ /\ computed[m] = 1 /\ runtime[m] = "succeeded"
                         /\ m \in Children => \A k \in {"proposal", "result"} :
                                posted[<<m, k>>] = 1 /\ t.effect[<<m, k>>] = "received"
    BY DEF CompletionsIn
  <2>1. m \in Nodes /\ (s.compute[m] = "absent" => t.compute[m] = "absent")
    BY <1>2, <1>3 DEF TasksOf
  <2> QED
    BY <1>1, <2>1 DEF Sound, SoundIn, CompletionsIn
<1>6. ReadInto(t, runtime, room, behind)
  BY <1>1 DEF Sound, SoundIn, ReadInto, Known
<1>7. CountsIn(t) /\ ListedIn(t)
  BY <1>1, <1>2, <1>3, ListsKept DEF Sound, SoundIn
<1> QED
  BY <1>1, <1>4, <1>5, <1>6, <1>7 DEF Sound, SoundIn, Steady, t

\* A message is prepared for a task that exists; one that was accepted is sent.
LEMMA EffectSteady ==
    ASSUME IInv, NEW s \in Sessions, Sound(s), NEW e \in Effects, NEW v \in Statuses,
           \/ v = "send-prepared" /\ s.effect[e] = "absent" /\ s.compute[e[1]] # "absent"
           \/ v = "sent" /\ s.effect[e] = "sending" /\ posted[e] = 1
    PROVE  Steady([s EXCEPT !.effect[e] = v], s) /\ [s EXCEPT !.effect[e] = v].life = s.life
<1> DEFINE t == [s EXCEPT !.effect[e] = v]
<1>1. /\ t \in Sessions /\ t.effect = [s.effect EXCEPT ![e] = v] /\ s.effect \in [Effects -> Statuses]
      /\ t.compute = s.compute /\ t.delivery = s.delivery /\ t.job = s.job /\ t.flow = s.flow /\ t.tasks = s.tasks
      /\ t.proposal = s.proposal /\ t.life = s.life
  BY DEF Sessions
<1> HIDE DEF t
<1>2. t.effect[e] = v /\ \A d \in Effects \ {e} : t.effect[d] = s.effect[d]
  BY <1>1
<1>3. s.effect[e] \in {"absent", "sending"} /\ v \in {"send-prepared", "sent"}
  OBVIOUS
<1>4. \A d \in Effects : t.effect[d] = "received" <=> s.effect[d] = "received"
  BY <1>2, <1>3
<1>5. TrueIn(t, computed, runtime, posted)
  <2>1. ASSUME NEW m \in Nodes
        PROVE  /\ t.compute[m] \in {"absent", "planned", "accepted"} => computed[m] = 0
               /\ t.compute[m] = "result-ready" => runtime[m] = "succeeded"
               /\ t.delivery[m] = "local" => m \in Roots
               /\ t.delivery[m] = "received" => m \in Children /\ t.effect[<<m, "result">>] = "received"
    BY <1>1, <1>4, ProposalsAndResults DEF Sound, SoundIn, TrueIn
  <2>2. ASSUME NEW m \in Children, t.compute[m] \in {"accepted", "running", "result-ready"}
        PROVE  t.effect[<<m, "proposal">>] = "received"
    BY <1>1, <1>4, <2>2, ProposalsAndResults DEF Sound, SoundIn, TrueIn
  <2>3. ASSUME NEW d \in Effects
        PROVE  /\ t.effect[d] \in {"sent", "receiving", "received"} => posted[d] = 1
               /\ t.effect[d] # "absent" => t.compute[d[1]] # "absent"
    BY <1>1, <1>2 DEF Sound, SoundIn, TrueIn
  <2>4. \A r \in Roots : t.job[r] = "absent" => t.compute[r] = "absent"
    BY <1>1 DEF Sound, SoundIn, TrueIn
  <2> QED
    BY <2>1, <2>2, <2>3, <2>4 DEF TrueIn
<1>6. CompletionsIn(t, computed, runtime, posted)
  <2> SUFFICES ASSUME NEW q \in Roots, t.job[q] = "completed", NEW m \in TasksOf(q)
               PROVE  \/ t.compute[m] = "absent"
                      \/ /\ computed[m] = 1 /\ runtime[m] = "succeeded"
                         /\ m \in Children => \A k \in {"proposal", "result"} :
                                posted[<<m, k>>] = 1 /\ t.effect[<<m, k>>] = "received"
    BY DEF CompletionsIn
  <2>1. m \in Children => \A k \in {"proposal", "result"} :
            s.effect[<<m, k>>] = "received" => t.effect[<<m, k>>] = "received"
    BY <1>4, ProposalsAndResults
  <2>2. \/ s.compute[m] = "absent"
        \/ /\ computed[m] = 1 /\ runtime[m] = "succeeded"
           /\ m \in Children => \A k \in {"proposal", "result"} :
                  posted[<<m, k>>] = 1 /\ s.effect[<<m, k>>] = "received"
    BY <1>1 DEF Sound, SoundIn, CompletionsIn
  <2> QED
    BY <1>1, <2>1, <2>2
<1>7. ReadInto(t, runtime, room, behind)
  <2> SUFFICES ASSUME NEW p \in Peers, NEW i \in 1 .. Len(room[p]), i <= behind[p]
               PROVE  IF room[p][i] \in Offers
                        THEN Known(t, room[p][i])
                        ELSE /\ t.effect[room[p][i]] = "received"
                             /\ room[p][i][2] = "proposal" => runtime[room[p][i][1]] # "none"
    BY DEF ReadInto
  <2>1. room[p][i] \in Effects \cup Offers
    BY Facts DEF Outer
  <2> QED
    BY <1>1, <1>4, <2>1 DEF Sound, SoundIn, ReadInto, Known
<1>8. CountsIn(t) /\ ListedIn(t)
  BY <1>1, ListsKept DEF Sound, SoundIn
<1> QED
  BY <1>1, <1>4, <1>5, <1>6, <1>7, <1>8 DEF Sound, SoundIn, Steady, t

\* restoreOfflineTasks: what has run is ready, the rest is given up or left.
LEMMA RestoredSteady ==
    ASSUME IInv, KInv, NEW s \in Sessions, Sound(s)
    PROVE  Steady(Restored(s), s) /\ Restored(s).life = s.life
<1> DEFINE unsent == {e[1] : e \in Undelivered(s)}
           broken == {n \in Nodes : /\ Recovered(s, n) # s.compute[n]
                                    /\ Recovered(s, n) \in {"failed", "ambiguous"}}
           effect == [e \in Effects |-> IF e \in Undelivered(s) /\ s.effect[e] # "failed"
                                          THEN "ambiguous" ELSE s.effect[e]]
           compute == [n \in Nodes |-> Recovered(s, n)]
           delivery == [n \in Nodes |-> IF n \in unsent THEN "needs-operator" ELSE s.delivery[n]]
           jobs == [r \in Roots |-> IF TasksOf(r) \cap (unsent \cup broken) # {}
                                     THEN "needs-operator" ELSE s.job[r]]
           t == [s EXCEPT !.effect = effect, !.compute = compute, !.delivery = delivery, !.job = jobs]
<1>1. Restored(s) = Completed(t)
  BY DEF Restored
<1>2. effect \in [Effects -> Statuses]
  BY DEF Sessions, Statuses
<1>3. compute \in [Nodes -> Computes]
  BY RecoveredTyped
<1>4. delivery \in [Nodes -> Deliveries]
  BY DEF Sessions, Deliveries
<1>5. jobs \in [Roots -> Jobs]
  BY DEF Sessions, Jobs
<1>6. \A e \in Effects : /\ effect[e] = "received" <=> s.effect[e] = "received"
                         /\ effect[e] \notin {"sent", "receiving"}
                         /\ effect[e] # "absent" => s.effect[e] # "absent"
  BY <1>2 DEF Undelivered
<1>7. \A n \in Nodes : \/ compute[n] = s.compute[n]
                       \/ compute[n] \in {"failed", "ambiguous"} /\ s.compute[n] # "absent"
                       \/ /\ compute[n] = "result-ready" /\ runtime[n] = "succeeded"
                          /\ s.compute[n] \in {"accepted", "running"}
  <2> SUFFICES ASSUME NEW n \in Nodes
               PROVE  \/ compute[n] = s.compute[n]
                      \/ compute[n] \in {"failed", "ambiguous"} /\ s.compute[n] # "absent"
                      \/ /\ compute[n] = "result-ready" /\ runtime[n] = "succeeded"
                         /\ s.compute[n] \in {"accepted", "running"}
    OBVIOUS
  <2>1. compute[n] = Recovered(s, n)
    OBVIOUS
  <2> HIDE DEF compute
  <2>2. CASE s.compute[n] \in {"accepted", "running"}
    <3>1. Recovered(s, n) =
            CASE runtime[n] = "succeeded" -> "result-ready"
              [] runtime[n] = "failed" -> "failed"
              [] runtime[n] = "pending" /\ s.compute[n] = "accepted" -> "accepted"
              [] OTHER -> "ambiguous"
      BY <2>2 DEF Recovered
    <3> QED
      BY <2>1, <2>2, <3>1
  <2>3. CASE s.compute[n] \notin {"accepted", "running"}
    BY <2>1, <2>3 DEF Recovered
  <2> QED
    BY <2>2, <2>3
<1>8. \A n \in Nodes : delivery[n] \in {s.delivery[n], "needs-operator"}
  OBVIOUS
<1>9. \A r \in Roots : jobs[r] \in {s.job[r], "needs-operator"}
  OBVIOUS
<1> HIDE DEF effect, compute, delivery, jobs
<1>10. /\ t \in Sessions /\ t.effect = effect /\ t.compute = compute /\ t.delivery = delivery
       /\ t.job = jobs /\ t.flow = s.flow /\ t.tasks = s.tasks /\ t.proposal = s.proposal /\ t.life = s.life
  BY <1>2, <1>3, <1>4, <1>5 DEF Sessions
<1> HIDE DEF t
<1>11. TrueIn(t, computed, runtime, posted)
  <2>1. ASSUME NEW m \in Nodes
        PROVE  /\ t.compute[m] \in {"absent", "planned", "accepted"} => computed[m] = 0
               /\ t.compute[m] = "result-ready" => runtime[m] = "succeeded"
               /\ t.delivery[m] = "local" => m \in Roots
    <3>1. /\ s.compute[m] \in {"absent", "planned", "accepted"} => computed[m] = 0
          /\ s.compute[m] = "result-ready" => runtime[m] = "succeeded"
          /\ s.delivery[m] = "local" => m \in Roots
      BY DEF Sound, SoundIn, TrueIn
    <3>2. delivery[m] = s.delivery[m] \/ delivery[m] = "needs-operator"
      BY <1>8
    <3>3. \/ compute[m] = s.compute[m]
          \/ compute[m] \in {"failed", "ambiguous"}
          \/ compute[m] = "result-ready" /\ runtime[m] = "succeeded"
      BY <1>7
    <3> QED
      BY <1>10, <3>1, <3>2, <3>3
  <2>2. ASSUME NEW m \in Nodes, t.delivery[m] = "received"
        PROVE  m \in Children /\ t.effect[<<m, "result">>] = "received"
    <3>1. m \in Children /\ s.effect[<<m, "result">>] = "received"
      BY <1>8, <1>10, <2>2 DEF Sound, SoundIn, TrueIn
    <3> QED
      BY <1>6, <1>10, <3>1, ProposalsAndResults
  <2>3. ASSUME NEW m \in Children, t.compute[m] \in {"accepted", "running", "result-ready"}
        PROVE  t.effect[<<m, "proposal">>] = "received"
    <3>1. s.compute[m] \in {"accepted", "running", "result-ready"}
      BY <1>7, <1>10, <2>3, RootFacts
    <3>2. s.effect[<<m, "proposal">>] = "received"
      BY <3>1 DEF Sound, SoundIn, TrueIn
    <3> QED
      BY <1>6, <1>10, <3>2, ProposalsAndResults
  <2>4. ASSUME NEW e \in Effects
        PROVE  /\ t.effect[e] \in {"sent", "receiving", "received"} => posted[e] = 1
               /\ t.effect[e] # "absent" => t.compute[e[1]] # "absent"
    <3>1. e[1] \in Nodes
      BY ProposalsAndResults
    <3>2. s.compute[e[1]] # "absent" => compute[e[1]] # "absent"
      BY <1>7, <3>1
    <3> QED
      BY <1>6, <1>10, <3>2 DEF Sound, SoundIn, TrueIn
  <2>5. ASSUME NEW r \in Roots, t.job[r] = "absent" PROVE t.compute[r] = "absent"
    <3>1. r \in Nodes /\ s.compute[r] = "absent"
      BY <1>9, <1>10, <2>5, RootFacts DEF Sound, SoundIn, TrueIn
    <3> QED
      BY <1>7, <1>10, <3>1
  <2> QED
    BY <2>1, <2>2, <2>3, <2>4, <2>5 DEF TrueIn
<1>12. CompletionsIn(t, computed, runtime, posted)
  <2> SUFFICES ASSUME NEW q \in Roots, t.job[q] = "completed", NEW m \in TasksOf(q)
               PROVE  \/ t.compute[m] = "absent"
                      \/ /\ computed[m] = 1 /\ runtime[m] = "succeeded"
                         /\ m \in Children => \A k \in {"proposal", "result"} :
                                posted[<<m, k>>] = 1 /\ t.effect[<<m, k>>] = "received"
    BY DEF CompletionsIn
  <2>1. s.job[q] = "completed" /\ m \in Nodes
    BY <1>9, <1>10 DEF TasksOf
  <2>2. \/ s.compute[m] = "absent"
        \/ /\ computed[m] = 1 /\ runtime[m] = "succeeded"
           /\ m \in Children => \A k \in {"proposal", "result"} :
                  posted[<<m, k>>] = 1 /\ s.effect[<<m, k>>] = "received"
    BY <2>1 DEF Sound, SoundIn, CompletionsIn
  <2>3. s.compute[m] = "absent" => compute[m] = "absent"
    BY <1>7, <2>1
  <2>4. m \in Children => \A k \in {"proposal", "result"} :
            s.effect[<<m, k>>] = "received" => effect[<<m, k>>] = "received"
    BY <1>6, ProposalsAndResults
  <2> QED
    BY <1>10, <2>2, <2>3, <2>4
<1>13. ReadInto(t, runtime, room, behind)
  <2> SUFFICES ASSUME NEW p \in Peers, NEW i \in 1 .. Len(room[p]), i <= behind[p]
               PROVE  IF room[p][i] \in Offers
                        THEN Known(t, room[p][i])
                        ELSE /\ t.effect[room[p][i]] = "received"
                             /\ room[p][i][2] = "proposal" => runtime[room[p][i][1]] # "none"
    BY DEF ReadInto
  <2>1. room[p][i] \in Effects \cup Offers
    BY Facts DEF Outer
  <2> QED
    BY <1>6, <1>10, <2>1 DEF Sound, SoundIn, ReadInto, Known
<1>16. CountsIn(t) /\ ListedIn(t)
  <2>1. \A r \in Roots : /\ t.job[r] = "completed" => s.job[r] = "completed" /\ t.flow[r] = s.flow[r]
                         /\ t.job[r] = "absent" => s.job[r] = "absent"
    BY <1>9, <1>10
  <2>2. \A n \in Nodes : s.compute[n] = "absent" => t.compute[n] = "absent"
    BY <1>7, <1>10
  <2> QED
    BY <1>10, <2>1, <2>2, ListsKept DEF Sound, SoundIn
<1>14. Steady(t, s)
  BY <1>6, <1>10, <1>11, <1>12, <1>13, <1>16 DEF Sound, SoundIn, Steady
<1>15. Steady(Completed(t), t) /\ Completed(t).life = t.life
  BY <1>10, <1>14, CompletedSteady DEF Steady
<1> QED
  BY <1>1, <1>10, <1>14, <1>15, SteadyTransitive

\* A task list that forgets no task and no success, a service that takes nothing back,
\* and rooms of which no more is read leave a session true.
LEMMA Moves ==
    ASSUME NEW s, NEW done, NEW task, NEW sent, NEW rooms, NEW upTo,
           NEW done2, NEW task2, NEW sent2, NEW rooms2, NEW upTo2,
           SoundIn(s, done, task, sent, rooms, upTo),
           \A n \in Nodes :
              /\ done[n] = 1 => done2[n] = 1
              /\ s.compute[n] \in {"absent", "planned", "accepted"} => done2[n] = done[n]
              /\ task[n] = "succeeded" => task2[n] = "succeeded"
              /\ task[n] # "none" => task2[n] # "none",
           \A e \in Effects : sent[e] = 1 => sent2[e] = 1,
           \A p \in Peers : \A i \in 1 .. Len(rooms2[p]) : i <= upTo2[p] =>
              /\ i \in 1 .. Len(rooms[p]) /\ i <= upTo[p]
              /\ rooms2[p][i] = rooms[p][i] /\ rooms[p][i] \in Effects \cup Offers
    PROVE  SoundIn(s, done2, task2, sent2, rooms2, upTo2)
<1>1. TrueIn(s, done2, task2, sent2)
  BY DEF SoundIn, TrueIn
<1>2. CompletionsIn(s, done2, task2, sent2)
  <2> SUFFICES ASSUME NEW r \in Roots, s.job[r] = "completed", NEW n \in TasksOf(r)
               PROVE  \/ s.compute[n] = "absent"
                      \/ /\ done2[n] = 1 /\ task2[n] = "succeeded"
                         /\ n \in Children => \A k \in {"proposal", "result"} :
                                sent2[<<n, k>>] = 1 /\ s.effect[<<n, k>>] = "received"
    BY DEF CompletionsIn
  <2>1. n \in Nodes
    BY DEF TasksOf
  <2>2. \/ s.compute[n] = "absent"
        \/ /\ done[n] = 1 /\ task[n] = "succeeded"
           /\ n \in Children => \A k \in {"proposal", "result"} :
                  sent[<<n, k>>] = 1 /\ s.effect[<<n, k>>] = "received"
    BY DEF SoundIn, CompletionsIn
  <2>3. n \in Children => \A k \in {"proposal", "result"} : sent[<<n, k>>] = 1 => sent2[<<n, k>>] = 1
    BY ProposalsAndResults
  <2> QED
    BY <2>1, <2>2, <2>3
<1>3. ReadInto(s, task2, rooms2, upTo2)
  <2> SUFFICES ASSUME NEW p \in Peers, NEW i \in 1 .. Len(rooms2[p]), i <= upTo2[p]
               PROVE  IF rooms2[p][i] \in Offers
                        THEN Known(s, rooms2[p][i])
                        ELSE /\ s.effect[rooms2[p][i]] = "received"
                             /\ rooms2[p][i][2] = "proposal" => task2[rooms2[p][i][1]] # "none"
    BY DEF ReadInto
  <2>1. /\ i \in 1 .. Len(rooms[p]) /\ i <= upTo[p]
        /\ rooms2[p][i] = rooms[p][i] /\ rooms[p][i] \in Effects \cup Offers
    OBVIOUS
  <2>2. IF rooms[p][i] \in Offers
          THEN Known(s, rooms[p][i])
          ELSE /\ s.effect[rooms[p][i]] = "received"
               /\ rooms[p][i][2] = "proposal" => task[rooms[p][i][1]] # "none"
    BY <2>1 DEF SoundIn, ReadInto
  <2>3. rooms[p][i] \in Effects => rooms[p][i][1] \in Nodes
    BY ProposalsAndResults
  <2> QED
    BY <2>1, <2>2, <2>3
<1> QED
  BY <1>1, <1>2, <1>3 DEF SoundIn

\* How far a room is read.
LEMMA Behind ==
    ASSUME IInv, KInv
    PROVE  \A p \in Peers : /\ cursor[p] \in Nat /\ behind[p] \in Nat /\ cursor[p] <= behind[p]
                            /\ Len(room[p]) \in Nat
                            /\ pc # "ack" => behind[p] = cursor[p]
                            /\ behind[p] <= Len(room[p]) \/ behind[p] = cursor[p]
<1>1. \A p \in Peers : cursor[p] \in Nat /\ seen \in Nat /\ room[p] \in Seq(Effects \cup Offers)
  BY Facts DEF Outer
<1>2. pc = "ack" => cursor[at] <= seen /\ (seen <= Len(room[at]) \/ seen = cursor[at])
  BY DEF KInv, UnderWay
<1> QED
  BY <1>1, <1>2 DEF behind

\* While nothing but sessions changes, and no more is read, a session stays true.
LEMMA StaysSound ==
    ASSUME IInv, KInv, UNCHANGED <<runtime, cursor, computed, posted, room>>, pc' # "ack",
           NEW s, Sound(s)
    PROVE  SoundNext(s)
<1>1. \A p \in Peers : /\ behind'[p] = cursor[p] /\ behind[p] \in Nat /\ cursor[p] \in Nat
                       /\ cursor[p] <= behind[p]
  BY Behind DEF behind
<1>2. \A p \in Peers : \A i \in 1 .. Len(room'[p]) : i <= behind'[p] =>
              /\ i \in 1 .. Len(room[p]) /\ i <= behind[p]
              /\ room'[p][i] = room[p][i] /\ room[p][i] \in Effects \cup Offers
  <2> SUFFICES ASSUME NEW p \in Peers, NEW i \in 1 .. Len(room[p]), i <= behind'[p]
               PROVE  i <= behind[p] /\ room[p][i] \in Effects \cup Offers
    OBVIOUS
  <2>1. room[p] \in Seq(Effects \cup Offers)
    BY Facts DEF Outer
  <2> QED
    BY <1>1, <2>1
<1>3. SoundIn(s, computed, runtime, posted, room, behind)
  BY DEF Sound
<1>4. SoundIn(s, computed', runtime', posted', room', behind')
  BY <1>2, <1>3, Moves
<1> QED
  BY <1>4 DEF SoundNext

\* Where an operation may be, with what and with which session.
Reached(l, x, s) ==
    /\ l \notin {"off", "ack", "classify", "inferring", "ran"}
    /\ l \notin {"idle", "releasing"} => s.life # "halted"
    /\ l = "rooting" => s.compute[x] = "planned"
    /\ l = "accepting" => s.compute[x] # "absent"
    /\ l \in {"approved", "rooting", "accepting"} /\ x \in External => s.proposal[x] = "needs-operator"
    /\ l = "running" => s.compute[x] = "running" /\ computed[x] = 0
    /\ l \in {"prepared", "sending"} => Backed(x) /\ Target(x) \notin lost

\* A step that changes nothing but sessions.
Calm == UNCHANGED <<runtime, cursor, computed, posted, room, offline, wire, lost>>

LEMMA CalmStep ==
    ASSUME IInv, KInv, mem # None, Calm, Steady(mem', mem),
           disk' = disk \/ (disk' \in Sessions /\ Sound(disk')),
           Reached(pc', at', mem'), pc' = "running" => disk' = mem',
           pc = "ack" => mem'.life = "halted"
    PROVE  KInv'
<1> USE DEF Calm
<1>1. mem' # None /\ pc' # "off" /\ pc' # "ack" /\ (disk' = None => disk = None)
  BY SessionsAssumption DEF Steady, Reached
<1>2. Lively'
  BY <1>1 DEF KInv, Lively, Reached
<1>3. RoomsTrue'
  BY DEF KInv, RoomsTrue
<1>4. ComputedOnce'
  BY <1>1 DEF KInv, ComputedOnce
<1>5. SendsBacked'
  <2> SUFFICES ASSUME NEW e \in Effects, wire'[e] # "none" \/ (pc' \in {"prepared", "sending"} /\ at' = e)
               PROVE  Backed(e)'
    BY DEF SendsBacked
  <2>1. Backed(e)
    BY DEF KInv, SendsBacked, Reached
  <2> QED
    BY <2>1 DEF Backed
<1>6. RecordsTrue'
  <2>1. disk' = None => \A p \in Peers : cursor'[p] = 0
    BY <1>1 DEF KInv, RecordsTrue
  <2>2. ASSUME disk' # None PROVE SoundNext(disk')
    <3>1. Sound(disk')
      BY <2>2 DEF KInv, RecordsTrue
    <3> QED
      BY <1>1, <3>1, StaysSound
  <2>3. SoundNext(mem')
    BY <1>1, StaysSound DEF Steady
  <2> QED
    BY <2>1, <2>2, <2>3 DEF RecordsTrue, Sound, SoundNext
<1>7. UnderWay'
  BY <1>1 DEF UnderWay, Reached
<1>8. AheadIsNew'
  <2>1. \A p \in Peers : behind'[p] = cursor[p]
    BY <1>1 DEF behind
  <2>2. ASSUME mem'.life # "halted", NEW p \in Peers, NEW i \in cursor[p] + 1 .. Len(room[p]),
               room[p][i] \in Effects
        PROVE  mem'.effect[room[p][i]] # "received"
    <3>1. mem.life # "halted" /\ pc # "ack"
      BY <2>2 DEF Steady
    <3>2. behind[p] = cursor[p]
      BY <3>1, Behind
    <3>3. mem.effect[room[p][i]] # "received"
      BY <2>2, <3>1, <3>2 DEF KInv, AheadIsNew
    <3> QED
      BY <2>2, <3>3 DEF Steady
  <2> QED
    BY <1>1, <2>1, <2>2 DEF KInv, AheadIsNew
<1>9. OfflineEnds'
  BY <1>1 DEF OfflineEnds
<1>10. LostRooms'
  BY <1>1 DEF KInv, LostRooms, Reached
<1> QED
  BY <1>2, <1>3, <1>4, <1>5, <1>6, <1>7, <1>8, <1>9, <1>10 DEF KInv

\* The steps of an operation change nothing else.
LEMMA OperationCalm ==
    ASSUME UNCHANGED <<agents, held, outside, network, computed>>
    PROVE  Calm
BY DEF agents, held, outside, network, Calm

LEMMA MemTrue ==
    ASSUME IInv, KInv, mem # None
    PROVE  mem \in Sessions /\ Sound(mem) /\ Steady(mem, mem) /\ Steady(Halted(mem), mem)
<1>1. mem \in Sessions /\ Sound(mem)
  BY MemTame DEF KInv, RecordsTrue
<1> QED
  BY <1>1, HaltedSteady DEF Steady

LEMMA IdleReached ==
    ASSUME NEW s
    PROVE  Reached("idle", None, s)
BY DEF Reached

\* The session is halted, saved or not.
LEMMA CalmHalt ==
    ASSUME IInv, KInv, mem # None, Calm, NEW s \in Sessions, Sound(s), Halt(s) \/ Breaks(s)
    PROVE  KInv'
<1>1. Steady(Halted(s), mem) /\ Halted(s) \in Sessions /\ Sound(Halted(s)) /\ Halted(s).life = "halted"
  BY HaltedSteady, HaltedGrows DEF Steady
<1>2. /\ mem' = Halted(s) /\ disk' \in {disk, Halted(s)} /\ pc' = "idle" /\ at' = None
  BY DEF Halt, Breaks, Rest, Goto
<1>3. Reached(pc', at', mem')
  BY <1>2 DEF Reached
<1> QED
  BY <1>1, <1>2, <1>3, CalmStep

LEMMA CalmSave ==
    ASSUME IInv, KInv, mem # None, Calm, pc # "ack",
           NEW s, Steady(s, mem), NEW t \in Sessions, Sound(t), NEW l, NEW x, Reached(l, x, s),
           Save(s, l, x, t)
    PROVE  KInv'
<1>1. CASE Breaks(t)
  BY <1>1, CalmHalt
<1>2. CASE mem' = s /\ disk' = s /\ Goto(l, x)
  <2>1. pc' = l /\ at' = x /\ disk' \in Sessions /\ Sound(disk') /\ disk' = mem'
    BY <1>2 DEF Goto, Steady
  <2> QED
    BY <1>2, <2>1, CalmStep
<1> QED
  BY <1>1, <1>2 DEF Save

LEMMA CalmSaveOrThrow ==
    ASSUME IInv, KInv, mem # None, Calm, pc # "ack",
           NEW s, Steady(s, mem), NEW l, NEW x, Reached(l, x, s), SaveOrThrow(s, l, x)
    PROVE  KInv'
<1>1. CASE mem' = s /\ disk' = s /\ Goto(l, x)
  <2>1. pc' = l /\ at' = x /\ disk' \in Sessions /\ Sound(disk') /\ disk' = mem'
    BY <1>1 DEF Goto, Steady
  <2> QED
    BY <1>1, <2>1, CalmStep
<1>2. CASE mem' = s /\ disk' = disk /\ Rest
  <2>1. pc' = "idle" /\ at' = None
    BY <1>2 DEF Rest, Goto
  <2>2. Reached(pc', at', mem')
    BY <2>1 DEF Reached
  <2> QED
    BY <1>2, <2>1, <2>2, CalmStep
<1> QED
  BY <1>1, <1>2 DEF SaveOrThrow

\* A session that says nothing new of the one in memory may take its place.
LEMMA MemGrows ==
    ASSUME IInv, KInv, mem # None, NEW t, Grows(t, mem), t.life = mem.life
    PROVE  Steady(t, mem) /\ t \in Sessions /\ Sound(t)
<1>1. Sound(mem)
  BY MemTrue
<1> QED
  BY <1>1, GrowsSteady DEF Steady

LEMMA RestoreTrue ==
    ASSUME IInv, KInv, Restore
    PROVE  KInv'
<1>1. mem # None /\ mem.life # "halted" /\ Calm
  BY OperationCalm DEF Restore, IInv, Positions, KInv, Lively
<1>2. Steady(Restored(mem), mem) /\ Restored(mem).life = mem.life
  BY <1>1, MemTrue, RestoredSteady
<1>3. mem' = Restored(mem) /\ disk' = mem' /\ pc' = "opening" /\ at' = None /\ pc # "ack"
  BY DEF Restore, Goto
<1>4. Reached(pc', at', mem')
  BY <1>1, <1>2, <1>3 DEF Reached
<1> QED
  BY <1>1, <1>2, <1>3, <1>4, CalmStep DEF Steady

LEMMA OpenedTrue ==
    ASSUME IInv, KInv, Opened
    PROVE  KInv'
<1> DEFINE t == [mem EXCEPT !.life = "active"]
<1>1. mem # None /\ mem.life # "halted" /\ Calm
  BY OperationCalm DEF Opened, IInv, Positions, KInv, Lively
<1>2. Steady(t, mem)
  <2>1. Grows(t, mem)
    BY <1>1, MemTrue, LifeGrows
  <2> QED
    BY <1>1, <2>1, MemTrue, GrowsSteady
<1>3. mem' = t /\ disk' = mem' /\ pc' = "idle" /\ at' = None /\ pc # "ack"
  BY DEF Opened, Rest, Goto
<1> HIDE DEF t
<1>4. Reached(pc', at', mem')
  BY <1>3 DEF Reached
<1> QED
  BY <1>1, <1>2, <1>3, <1>4, CalmStep DEF Steady

LEMMA RootTrue ==
    ASSUME IInv, KInv, Calm, pc # "ack", NEW r \in Roots, NEW f \in Flows \cup {<<>>}, Root(r, f),
           r \in External => mem.proposal[r] = "needs-operator"
    PROVE  KInv'
<1> DEFINE s == Spend(mem, "tasks")
           t == [s EXCEPT !.job[r] = "accepted", !.tasks[r] = <<r>>, !.flow[r] = f,
                          !.compute[r] = "planned", !.delivery[r] = "local"]
<1>1. mem # None /\ mem.life = "active" /\ mem.job[r] = "absent"
  BY DEF Root, Active
<1>2. Grows(s, mem) /\ s.life = mem.life
  BY <1>1, MemTrue, SpendGrows DEF Budgets
<1>3. Steady(s, mem) /\ s \in Sessions /\ Sound(s)
  BY <1>1, <1>2, MemGrows
<1>4. s.job[r] = "absent" /\ s.proposal = mem.proposal
  BY <1>1, MemTrue DEF Spend, Sessions
<1>5. SaveOrThrow(t, "rooting", r)
  BY DEF Root
<1> HIDE DEF s
<1>6. Steady(t, s) /\ t.life = s.life /\ t.compute[r] = "planned" /\ t.proposal = s.proposal
  BY <1>3, <1>4, RootedSteady
<1> HIDE DEF t
<1>7. Steady(t, mem)
  BY <1>3, <1>6, SteadyTransitive
<1>8. Reached("rooting", r, t)
  BY <1>1, <1>2, <1>4, <1>6 DEF Reached
<1> QED
  BY <1>1, <1>5, <1>7, <1>8, CalmSaveOrThrow

LEMMA RootExternalTrue ==
    ASSUME IInv, KInv, RootExternal
    PROVE  KInv'
<1>1. mem # None /\ pc = "approved" /\ Calm /\ at \in Roots
  BY OperationCalm, RootFacts DEF RootExternal, IInv, Positions, Fits
<1>2. CASE Root(at, <<>>)
  <2>1. at \in External => mem.proposal[at] = "needs-operator"
    BY <1>1 DEF KInv, UnderWay
  <2> QED
    BY <1>1, <1>2, <2>1, RootTrue
<1>3. CASE Rest /\ UNCHANGED <<disk, mem, faults>>
  <2>1. Reached(pc', at', mem') /\ pc' # "running" /\ mem' = mem
    BY <1>3 DEF Rest, Goto, Reached
  <2> QED
    BY <1>1, <1>3, <2>1, MemTrue, CalmStep
<1> QED
  BY <1>2, <1>3 DEF RootExternal

LEMMA AcceptProposalTrue ==
    ASSUME IInv, KInv, AcceptProposal
    PROVE  KInv'
<1> DEFINE t == [mem EXCEPT !.proposal[at] = "accepted"]
<1>1. mem # None /\ pc = "accepting" /\ Calm /\ (at \in External => mem.proposal[at] # "rejected")
  BY OperationCalm DEF AcceptProposal, IInv, Positions, KInv, UnderWay
<1>2. Grows(t, mem) /\ t.life = mem.life
  BY <1>1, MemTrue, ProposalGrows
<1>3. SaveOrThrow(t, "idle", None)
  BY DEF AcceptProposal
<1> HIDE DEF t
<1> QED
  BY <1>1, <1>2, <1>3, MemGrows, IdleReached, CalmSaveOrThrow

LEMMA DelegateTrue ==
    ASSUME IInv, KInv, NEW n \in Nodes, Delegate(n)
    PROVE  KInv'
<1>1. mem # None /\ pc = "idle" /\ Calm /\ n \in Children /\ mem.compute[n] = "absent"
  BY OperationCalm DEF Delegate, Idle
<1>2. Steady(Planned(n), mem)
  BY <1>1, MemTrue, PlannedSteady
<1>3. SaveOrThrow(Planned(n), "idle", None)
  BY DEF Delegate
<1> QED
  BY <1>1, <1>2, <1>3, IdleReached, CalmSaveOrThrow

LEMMA ApproveExternalTrue ==
    ASSUME IInv, KInv, NEW r \in External, ApproveExternal(r)
    PROVE  KInv'
<1>1. /\ mem # None /\ pc = "idle" /\ mem.life = "active" /\ UNCHANGED <<mem, disk>>
      /\ mem.proposal[r] = "needs-operator" /\ pc' = "approved" /\ at' = r /\ Calm
  BY DEF ApproveExternal, Idle, Active, Goto, Calm, held, outside, network
<1>2. Reached(pc', at', mem')
  BY <1>1 DEF Reached
<1> QED
  BY <1>1, <1>2, MemTrue, CalmStep

LEMMA MarkedTrue ==
    ASSUME IInv, KInv, mem # None, Calm, pc = "idle", mem.life # "halted",
           NEW t, Steady(t, mem), t.life # "halted", NEW l \in {"paused", "continued"}, Marked(t, l)
    PROVE  KInv'
<1>1. mem' = t /\ disk' \in {t, disk} /\ pc' \in {l, "idle"} /\ at' = None
  BY DEF Marked, Rest, Goto
<1>2. Reached(pc', at', mem') /\ pc' # "running"
  BY <1>1 DEF Reached
<1> QED
  BY <1>1, <1>2, CalmStep DEF Steady

LEMMA PauseContinueTrue ==
    ASSUME IInv, KInv, Pause \/ Continue
    PROVE  KInv'
<1>1. /\ mem # None /\ pc = "idle" /\ mem.life # "halted" /\ Calm
  BY DEF Pause, Continue, Idle, Calm, agents, outside, network
<1>2. ASSUME NEW l \in {"active", "paused"}
      PROVE  Steady([mem EXCEPT !.life = l], mem) /\ [mem EXCEPT !.life = l].life = l
  <2>1. Grows([mem EXCEPT !.life = l], mem) /\ [mem EXCEPT !.life = l].life = l
    BY <1>1, MemTrue, LifeGrows
  <2> QED
    BY <1>1, <2>1, MemTrue, GrowsSteady
<1>3. \/ Marked([mem EXCEPT !.life = "paused"], "paused")
      \/ Marked([mem EXCEPT !.life = "active"], "continued")
  BY DEF Pause, Continue
<1>4. Steady([mem EXCEPT !.life = "paused"], mem) /\ [mem EXCEPT !.life = "paused"].life = "paused"
  BY <1>2
<1>5. Steady([mem EXCEPT !.life = "active"], mem) /\ [mem EXCEPT !.life = "active"].life = "active"
  BY <1>2
<1> QED
  BY <1>1, <1>3, <1>4, <1>5, MarkedTrue

LEMMA UnlinkTrue ==
    ASSUME IInv, KInv, Unlink
    PROVE  KInv'
<1>1. /\ mem # None /\ UNCHANGED <<mem, disk>> /\ pc \in {"paused", "continued"} /\ pc' = "idle" /\ at' = None /\ Calm
  BY DEF Unlink, Rest, Goto, Calm, agents, held, network, IInv, Positions
<1>2. Reached(pc', at', mem')
  BY <1>1 DEF Reached
<1> QED
  BY <1>1, <1>2, MemTrue, CalmStep

LEMMA StopTrue ==
    ASSUME IInv, KInv, Stop
    PROVE  KInv'
<1> DEFINE s == Settle(mem)
           t == [s EXCEPT !.life = Leave(mem)]
<1>1. /\ mem # None /\ pc = "idle" /\ mem' = t /\ disk' \in {mem', disk} /\ pc' = "releasing" /\ at' = None /\ Calm
  BY DEF Stop, Idle, Goto, Calm, agents, outside, network
<1>2. s \in Sessions /\ Sound(s) /\ s.life = mem.life /\ Grows(s, mem)
  <2>1. Grows(s, mem) /\ s.life = mem.life
    BY <1>1, MemTrue, SettleGrows
  <2> QED
    BY <1>1, <2>1, MemGrows
<1> HIDE DEF s
<1>3. Leave(mem) \in {"halted", "stopping"} /\ (Leave(mem) # "halted" => mem.life # "halted")
  BY DEF Leave
<1>4. Grows(t, s) /\ t.life = Leave(mem)
  BY <1>2, <1>3, LifeGrows
<1> HIDE DEF t
<1>5. Steady(t, mem)
  <2>1. Grows(t, mem)
    BY <1>2, <1>4, GrowsTransitive
  <2> QED
    BY <1>1, <1>3, <1>4, <2>1, MemTrue, GrowsSteady
<1>6. Reached(pc', at', mem')
  BY <1>1 DEF Reached
<1> QED
  BY <1>1, <1>5, <1>6, CalmStep DEF Steady

LEMMA CompleteTrue ==
    ASSUME IInv, KInv, Complete
    PROVE  KInv'
<1>1. mem # None /\ pc # "ack" /\ Calm /\ Save(Completed(mem), "idle", None, Completed(mem))
  BY OperationCalm DEF Complete, IInv, Positions
<1>2. Steady(Completed(mem), mem)
  BY <1>1, MemTrue, CompletedSteady
<1> QED
  BY <1>1, <1>2, IdleReached, CalmSave DEF Steady

LEMMA AdvanceFlowTrue ==
    ASSUME IInv, KInv, NEW n \in Nodes, AdvanceFlow(n)
    PROVE  KInv'
<1>1. mem # None /\ pc # "ack" /\ mem.life = "active" /\ Calm
  BY OperationCalm DEF AdvanceFlow, Ready, Active
<1>2. \A s : s.life = mem.life => Reached("stepping", None, s)
  BY <1>1 DEF Reached
<1>3. ASSUME NEW c \in Children, Advances(n, c) PROVE KInv'
  <2> DEFINE blocked == Block(Planned(c), n)
  <2>1. Steady(Planned(c), mem) /\ Planned(c).life = mem.life /\ Planned(c) \in Sessions /\ Sound(Planned(c))
    BY <1>1, <1>3, MemTrue, PlannedSteady DEF Steady, Advances
  <2>2. Steady(blocked, mem) /\ blocked.life = mem.life /\ blocked \in Sessions /\ Sound(blocked)
    <3>1. Grows(blocked, Planned(c)) /\ blocked.life = Planned(c).life
      BY <2>1, BlockGrows
    <3>2. Steady(blocked, Planned(c))
      BY <2>1, <3>1, GrowsSteady
    <3> QED
      BY <2>1, <3>1, <3>2, SteadyTransitive DEF Steady
  <2> HIDE DEF blocked
  <2>3. CASE Save(Planned(c), "stepping", None, blocked)
    BY <1>1, <1>2, <2>1, <2>2, <2>3, CalmSave
  <2>4. CASE mem' = blocked /\ disk' = blocked /\ Goto("stepping", None)
    <3>1. Reached(pc', at', mem') /\ pc' # "running"
      BY <1>2, <2>2, <2>4 DEF Goto
    <3> QED
      BY <1>1, <2>2, <2>4, <3>1, CalmStep
  <2> QED
    BY <1>3, <2>3, <2>4 DEF Advances, blocked
<1>4. CASE Save(Block(mem, n), "stepping", None, Block(mem, n))
  <2>1. Steady(Block(mem, n), mem) /\ Block(mem, n).life = mem.life
        /\ Block(mem, n) \in Sessions /\ Sound(Block(mem, n))
    BY <1>1, MemTrue, BlockGrows, MemGrows
  <2> QED
    BY <1>1, <1>2, <1>4, <2>1, CalmSave
<1> QED
  BY <1>3, <1>4, Advancing

LEMMA StepEndsTrue ==
    ASSUME IInv, KInv, StepEnds \/ (\E n \in Nodes : Refuse(n))
    PROVE  KInv'
<1>1. mem # None /\ pc \in {"idle", "stepping"} /\ Calm
  BY OperationCalm DEF StepEnds, Refuse, Chosen, Ready, Active, IInv, Positions
<1>2. CASE Halt(mem)
  BY <1>1, <1>2, MemTrue, CalmHalt
<1>3. CASE Rest /\ UNCHANGED <<disk, mem, faults>>
  <2>1. Reached(pc', at', mem') /\ pc' # "running" /\ mem' = mem
    BY <1>3 DEF Rest, Goto, Reached
  <2> QED
    BY <1>1, <1>3, <2>1, MemTrue, CalmStep
<1> QED
  BY <1>2, <1>3 DEF StepEnds, Refuse

\* What is done is computed, and what a child has done is handed back.
LEMMA DoneBacked ==
    ASSUME IInv, KInv, mem # None, NEW n \in Nodes, mem.compute[n] = "result-ready"
    PROVE  /\ computed[n] = 1
           /\ Done(mem, n) /\ n \in Children => posted[<<n, "result">>] = 1
<1>1. runtime[n] = "succeeded" /\ computed[n] = 1
  BY MemTrue DEF Sound, SoundIn, TrueIn, KInv, ComputedOnce
<1>2. ASSUME Done(mem, n), n \in Children PROVE posted[<<n, "result">>] = 1
  <2>1. mem.effect[<<n, "result">>] = "received"
    BY <1>2, MemTrue DEF Done, Children, Sound, SoundIn, TrueIn
  <2> QED
    BY <1>2, <2>1, MemTrue, ProposalsAndResults DEF Sound, SoundIn, TrueIn
<1> QED
  BY <1>1, <1>2

LEMMA PrepareTrue ==
    ASSUME IInv, KInv, NEW n \in Nodes, Prepare(n)
    PROVE  KInv'
<1> DEFINE e == Owed(n)
           blocked == Block(mem, n)
           lostRoom == [blocked EXCEPT !.delivery[n] = "needs-operator"]
           prepared == [mem EXCEPT !.effect[e] = "send-prepared"]
<1>1. mem # None /\ mem \in Sessions /\ pc # "ack" /\ mem.life = "active" /\ Calm
  BY MemTame, OperationCalm DEF Prepare, Chosen, Ready, Active
<1>2. Due(n) /\ mem.compute[n] # "accepted" /\ ~Unlawful(n)
  BY DEF Prepare, Chosen
<1>3. n \in Children
  <2>1. CASE mem.compute[n] = "planned"
    BY <1>2, <2>1 DEF Unlawful, Children
  <2>2. CASE mem.delivery[n] = "planned"
    BY <1>1, <2>2 DEF IInv, RecordsAccounted, Accounted, Children
  <2> QED
    BY <1>2, <2>1, <2>2 DEF Due
<1>4. e \in Effects /\ e[1] = n /\ e[2] = (IF mem.compute[n] = "planned" THEN "proposal" ELSE "result")
  BY <1>3 DEF Owed, Effects
<1>5. Backed(e) /\ mem.compute[n] # "absent"
  <2>1. CASE mem.compute[n] = "planned"
    <3>1. \A m \in Needs[n] : m \in Nodes /\ Done(mem, m)
      BY <1>2, <2>1, PeerSessionAssumption DEF Due
    <3>2. \A m \in Needs[n] : computed[m] = 1 /\ (m \in Children => posted[<<m, "result">>] = 1)
      BY <1>1, <3>1, DoneBacked DEF Done
    <3> QED
      BY <1>4, <2>1, <3>2 DEF Backed
  <2>2. CASE mem.compute[n] # "planned"
    <3>1. mem.compute[n] = "result-ready"
      BY <1>2, <2>2 DEF Due
    <3> QED
      BY <1>1, <1>4, <3>1, DoneBacked DEF Backed
  <2> QED
    BY <2>1, <2>2
<1> HIDE DEF e
<1>6. CASE Target(e) \in lost /\ Save(lostRoom, "completing", None, lostRoom)
  <2>1. Grows(blocked, mem) /\ blocked.life = mem.life /\ blocked \in Sessions
    BY <1>1, BlockGrows DEF Grows
  <2> HIDE DEF blocked
  <2>2. Grows(lostRoom, blocked) /\ lostRoom.life = blocked.life
    BY <2>1, DeliveryGrows
  <2> HIDE DEF lostRoom
  <2>3. Grows(lostRoom, mem) /\ lostRoom.life = mem.life
    BY <2>1, <2>2, GrowsTransitive
  <2>4. Steady(lostRoom, mem) /\ lostRoom \in Sessions /\ Sound(lostRoom)
    BY <1>1, <2>3, MemGrows
  <2>5. Reached("completing", None, lostRoom)
    BY <1>1, <2>3 DEF Reached
  <2> QED
    BY <1>1, <1>6, <2>4, <2>5, CalmSave
<1>7. CASE Target(e) \notin lost /\ Save(prepared, "prepared", e, prepared)
  <2>1. mem.effect[e] = "absent"
    BY <1>2, <1>3, <1>7 DEF Unlawful, e
  <2>2. Steady(prepared, mem) /\ prepared.life = mem.life
    <3>1. "send-prepared" \in Statuses
      BY DEF Statuses
    <3> QED
      BY <1>1, <1>4, <1>5, <2>1, <3>1, MemTrue, EffectSteady
  <2> HIDE DEF prepared
  <2>3. prepared \in Sessions /\ Sound(prepared)
    BY <2>2 DEF Steady
  <2>4. Reached("prepared", e, prepared)
    BY <1>1, <1>5, <1>7, <2>2 DEF Reached
  <2> QED
    BY <1>1, <1>7, <2>2, <2>3, <2>4, CalmSave
<1> QED
  BY <1>6, <1>7 DEF Prepare, e

LEMMA RunTrue ==
    ASSUME IInv, KInv, NEW n \in Nodes, Run(n)
    PROVE  KInv'
<1> DEFINE s == [mem EXCEPT !.compute[n] = "running"]
<1>1. mem # None /\ mem \in Sessions /\ pc # "ack" /\ mem.life = "active" /\ mem.compute[n] = "accepted" /\ Calm
  BY MemTame, OperationCalm DEF Run, Chosen, Ready, Active
<1>2. Grows(s, mem) /\ s.life = mem.life
  BY <1>1, ComputeGrows DEF Computes
<1>3. s.compute[n] = "running" /\ computed[n] = 0
  <2>1. mem.compute \in [Nodes -> Computes] /\ s.compute = [mem.compute EXCEPT ![n] = "running"]
    BY <1>1 DEF Sessions
  <2>2. computed[n] = 0
    BY <1>1, MemTrue DEF Sound, SoundIn, TrueIn
  <2> HIDE DEF s
  <2> QED
    BY <2>1, <2>2
<1>4. Save(s, "running", n, s)
  BY DEF Run
<1> HIDE DEF s
<1>5. Reached("running", n, s)
  BY <1>1, <1>2, <1>3 DEF Reached
<1> QED
  BY <1>1, <1>2, <1>4, <1>5, MemGrows, CalmSave

LEMMA ReceiveTrue ==
    ASSUME IInv, KInv, NEW a \in Peers, Receive(a)
    PROVE  KInv'
<1>1. mem # None /\ mem \in Sessions /\ pc # "ack" /\ mem.life = "active" /\ Calm
  BY MemTame, OperationCalm DEF Receive, Ready, Active
<1>2. Grows(Received(mem, a), mem) /\ Received(mem, a).life = mem.life
  BY <1>1, ReceivedGrows
<1>3. Save(Received(mem, a), "receiving", a, Received(mem, a))
  BY DEF Receive
<1>4. Reached("receiving", a, Received(mem, a))
  BY <1>1, <1>2 DEF Reached
<1> QED
  BY <1>1, <1>2, <1>3, <1>4, MemGrows, CalmSave

LEMMA ScheduledIntakeTrue ==
    ASSUME IInv, KInv, NEW a \in Scheduled, ScheduledIntake(a)
    PROVE  KInv'
<1> DEFINE s == [mem EXCEPT !.rounds[a] = @ + 1]
           f == [mem.rounds EXCEPT ![a] = @ + 1]
<1>1. mem # None /\ mem \in Sessions /\ pc # "ack" /\ mem.life = "active" /\ Calm
  BY MemTame, OperationCalm DEF ScheduledIntake, Ready, Active
<1>2. f \in [Scheduled -> 0 .. MaxRounds]
  BY <1>1, PeerSessionAssumption DEF Sessions, ScheduledIntake
<1>3. s = [mem EXCEPT !.rounds = f]
  BY <1>1 DEF Sessions
<1>4. Grows(s, mem) /\ s.life = mem.life
  BY <1>1, <1>2, <1>3, RoundsGrows
<1>5. Save(s, "intake", a, s)
  BY DEF ScheduledIntake
<1> HIDE DEF s
<1>6. Reached("intake", a, s)
  BY <1>1, <1>4 DEF Reached
<1> QED
  BY <1>1, <1>4, <1>5, <1>6, MemGrows, CalmSave

LEMMA UndispatchedTrue ==
    ASSUME IInv, KInv, Undispatched
    PROVE  KInv'
<1> DEFINE t == [mem EXCEPT !.effect[at] = "failed"]
<1>1. mem # None /\ pc # "ack" /\ at \in Effects /\ mem.effect[at] = "send-prepared" /\ Calm
  BY OperationCalm DEF Undispatched, IInv, Positions, Fits, IntentFirst
<1>2. Grows(t, mem)
  BY <1>1, MemTrue, EffectGrows
<1>4. mem' = Halted(mem) \/ mem' = Halted(t)
  BY DEF Undispatched
<1> HIDE DEF t
<1>3. t \in Sessions /\ Sound(t)
  <2>1. t \in Sessions
    BY <1>2 DEF Grows
  <2> QED
    BY <1>1, <1>2, <2>1, MemTrue, GrowsSound
<1>5. Steady(mem', mem)
  BY <1>1, <1>3, <1>4, MemTrue, HaltedSteady
<1>6. Reached(pc', at', mem') /\ pc' # "running" /\ disk' = mem'
  BY DEF Undispatched, Rest, Goto, Reached
<1> QED
  BY <1>1, <1>5, <1>6, CalmStep DEF Steady

LEMMA DispatchTrue ==
    ASSUME IInv, KInv, Dispatch
    PROVE  KInv'
<1> DEFINE s == Spend(mem, "outbound")
           t == [s EXCEPT !.effect[at] = "sending"]
<1>1. /\ mem # None /\ pc = "prepared" /\ mem.life = "active" /\ at \in Effects
      /\ mem.effect[at] = "send-prepared" /\ Calm
  BY OperationCalm DEF Dispatch, Active, IInv, Positions, Fits, IntentFirst
<1>2. Grows(s, mem) /\ s.life = mem.life /\ s \in Sessions
  BY <1>1, MemTrue, SpendGrows DEF Budgets, Grows
<1>3. s.effect[at] = "send-prepared"
  BY <1>1, MemTrue DEF Spend, Sessions
<1>4. Save(t, "sending", at, t)
  BY DEF Dispatch
<1> HIDE DEF s
<1>5. Grows(t, s) /\ t.life = s.life
  BY <1>1, <1>2, <1>3, EffectGrows
<1> HIDE DEF t
<1>6. Grows(t, mem) /\ t.life = mem.life
  BY <1>2, <1>5, GrowsTransitive
<1>7. Backed(at) /\ Target(at) \notin lost
  BY <1>1 DEF KInv, SendsBacked, LostRooms
<1>8. Reached("sending", at, t)
  BY <1>1, <1>6, <1>7 DEF Reached
<1> QED
  BY <1>1, <1>4, <1>6, <1>8, MemGrows, CalmSave

\* An effect that was on its way is given up.
LEMMA GivesUpTrue ==
    ASSUME IInv, KInv, pc \in {"sending", "await"}, Calm, NEW v \in {"failed", "ambiguous"}, GivesUp(v)
    PROVE  KInv'
<1> DEFINE t == [mem EXCEPT !.effect[at] = v]
<1>1. mem # None /\ at \in Effects /\ mem.effect[at] = "sending"
  BY DEF IInv, Positions, Fits, IntentFirst
<1>2. Grows(t, mem) /\ t.life = mem.life
  BY <1>1, MemTrue, EffectGrows
<1>3. Halt(t)
  BY DEF GivesUp
<1> HIDE DEF t
<1> QED
  BY <1>1, <1>2, <1>3, MemGrows, CalmHalt

LEMMA AnsweredTrue ==
    ASSUME IInv, KInv, Answered
    PROVE  KInv'
<1> DEFINE s == [mem EXCEPT !.effect[at] = "sent"]
           t == [mem EXCEPT !.effect[at] = "ambiguous"]
<1>1. /\ mem # None /\ pc = "await" /\ mem.life # "halted" /\ at \in Effects
      /\ mem.effect[at] = "sending" /\ wire[at] = "posted" /\ Calm
  BY OperationCalm DEF Answered, IInv, Positions, Fits, IntentFirst, KInv, Lively
<1>2. posted[at] = 1
  BY <1>1 DEF IInv, PostedOnce
<1>3. Steady(s, mem) /\ s.life = mem.life
  BY <1>1, <1>2, MemTrue, EffectSteady DEF Statuses
<1>4. Grows(t, mem) /\ t.life = mem.life
  BY <1>1, MemTrue, EffectGrows
<1>5. Save(s, "sent", at, t)
  BY DEF Answered
<1> HIDE DEF s, t
<1>6. Reached("sent", at, s)
  BY <1>1, <1>3 DEF Reached
<1> QED
  BY <1>1, <1>3, <1>4, <1>5, <1>6, MemGrows, CalmSave

LEMMA FinishTrue ==
    ASSUME IInv, KInv, Finish
    PROVE  KInv'
<1> DEFINE s == [mem EXCEPT !.delivery[at[1]] = IF at[2] = "result" THEN "sent" ELSE @]
<1>1. mem # None /\ pc = "sent" /\ mem.life # "halted" /\ at \in Effects /\ mem \in Sessions /\ Calm
  BY MemTrue, OperationCalm DEF Finish, IInv, Positions, Fits, KInv, Lively
<1>2. Grows(s, mem) /\ s.life = mem.life
  <2>1. CASE at[2] = "result"
    <3>1. s = [mem EXCEPT !.delivery[at[1]] = "sent"]
      BY <2>1
    <3> HIDE DEF s
    <3> QED
      BY <1>1, <3>1, DeliveryGrows
  <2>2. CASE at[2] # "result"
    <3>1. s = mem
      BY <1>1, <2>2 DEF Sessions
    <3> HIDE DEF s
    <3> QED
      BY <1>1, <3>1 DEF Grows
  <2> QED
    BY <2>1, <2>2
<1>3. Save(s, "completing", None, s) \/ Breaks(mem)
  BY DEF Finish
<1> HIDE DEF s
<1>4. Reached("completing", None, s)
  BY <1>1, <1>2 DEF Reached
<1> QED
  BY <1>1, <1>2, <1>3, <1>4, MemTrue, MemGrows, CalmSave, CalmHalt

LEMMA RecordTrue ==
    ASSUME IInv, KInv, Record
    PROVE  KInv'
<1>1. /\ mem # None /\ pc = "ran" /\ mem.life # "halted" /\ at \in Nodes /\ mem \in Sessions
      /\ mem.compute[at] = "running" /\ runtime[at] \in {"succeeded", "failed", "ambiguous"} /\ Calm
  BY MemTrue, OperationCalm DEF Record, IInv, Positions, Fits, KInv, Lively, UnderWay
<1>2. Steady(Recorded(at), mem) /\ Recorded(at).life = mem.life
  <2>1. CASE runtime[at] = "succeeded"
    <3>1. "result-ready" \in Computes
      BY DEF Computes
    <3>2. /\ Steady([mem EXCEPT !.compute[at] = "result-ready"], mem)
          /\ [mem EXCEPT !.compute[at] = "result-ready"].life = mem.life
      BY <1>1, <2>1, <3>1, MemTrue, ComputeSteady
    <3> QED
      BY <2>1, <3>2 DEF Recorded
  <2>2. CASE runtime[at] # "succeeded"
    <3> DEFINE t == [mem EXCEPT !.compute[at] = runtime[at]]
    <3>1. runtime[at] \in Computes
      BY <1>1, <2>2 DEF Computes
    <3>2. Grows(t, mem) /\ t.life = mem.life /\ t \in Sessions
      BY <1>1, <2>2, <3>1, ComputeGrows DEF Grows
    <3>3. Recorded(at) = Block(t, at)
      BY <2>2 DEF Recorded
    <3> HIDE DEF t
    <3>4. Grows(Block(t, at), t) /\ Block(t, at).life = t.life
      BY <3>2, BlockGrows
    <3>5. Grows(Block(t, at), mem) /\ Block(t, at).life = mem.life
      BY <3>2, <3>4, GrowsTransitive
    <3> QED
      BY <1>1, <3>3, <3>5, MemGrows
  <2> QED
    BY <2>1, <2>2
<1>3. Save(Recorded(at), "completing", None, Recorded(at))
  BY DEF Record
<1>4. Reached("completing", None, Recorded(at))
  BY <1>1, <1>2 DEF Reached
<1> QED
  BY <1>1, <1>2, <1>3, <1>4, CalmSave DEF Steady

LEMMA IntakeReadTrue ==
    ASSUME IInv, KInv, Intake \/ Read \/ Unacked
    PROVE  KInv'
<1>1. /\ mem # None /\ mem \in Sessions /\ mem.life # "halted" /\ at \in Peers /\ Calm
      /\ Intake \/ Read => pc # "ack"
  BY MemTrue, OperationCalm DEF Intake, Read, Unacked, IInv, Positions, Fits, KInv, Lively
<1>2. /\ Grows(Received(mem, at), mem) /\ Received(mem, at).life = mem.life
      /\ Grows(Spend(mem, "gets"), mem) /\ Spend(mem, "gets").life = mem.life
      /\ Grows(Settle(mem), mem) /\ Settle(mem).life = mem.life
  BY <1>1, ReceivedGrows, SpendGrows, SettleGrows DEF Budgets
<1>3. /\ Reached("receiving", at, Received(mem, at)) /\ Reached("read", at, Spend(mem, "gets"))
  BY <1>1, <1>2 DEF Reached
<1>4. /\ Steady(Received(mem, at), mem) /\ Received(mem, at) \in Sessions /\ Sound(Received(mem, at))
      /\ Steady(Spend(mem, "gets"), mem)
      /\ Settle(mem) \in Sessions /\ Sound(Settle(mem)) /\ Sound(mem)
  BY <1>1, <1>2, MemTrue, MemGrows
<1>8. Settle(Spend(mem, "gets")) \in Sessions /\ Sound(Settle(Spend(mem, "gets")))
  <2>1. Grows(Settle(Spend(mem, "gets")), Spend(mem, "gets"))
        /\ Settle(Spend(mem, "gets")).life = Spend(mem, "gets").life
    BY <1>4, SettleGrows DEF Steady
  <2>2. Grows(Settle(Spend(mem, "gets")), mem) /\ Settle(Spend(mem, "gets")).life = mem.life
    BY <1>2, <2>1, GrowsTransitive
  <2> QED
    BY <1>1, <2>2, MemGrows
<1>5. CASE Intake
  <2>1. Save(Received(mem, at), "receiving", at, Received(mem, at)) \/ Halt(mem)
    BY <1>5 DEF Intake
  <2> QED
    BY <1>1, <1>3, <1>4, <1>5, <2>1, CalmSave, CalmHalt
<1>6. CASE Read
  <2>1. Save(Spend(mem, "gets"), "read", at, Settle(Spend(mem, "gets"))) \/ Halt(Settle(mem))
    BY <1>6 DEF Read
  <2> QED
    BY <1>1, <1>3, <1>4, <1>6, <1>8, <2>1, CalmSave, CalmHalt
<1>7. CASE Unacked
  <2>1. Halt(mem) \/ Breaks(mem)
    BY <1>7 DEF Unacked
  <2> QED
    BY <1>1, <1>4, <2>1, CalmHalt
<1> QED
  BY <1>5, <1>6, <1>7

-----------------------------------------------------------------------------
(* A process begins, or ends.                                              *)

LEMMA InitTrue == Init => KInv
<1> SUFFICES ASSUME Init PROVE KInv
  OBVIOUS
<1>1. \A p \in Peers : room[p] = <<>> /\ Len(room[p]) = 0 /\ cursor[p] = 0
  BY DEF Init
<1>2. \A n \in Nodes : computed[n] = 0 /\ runtime[n] = "none"
  BY DEF Init
<1>3. \A e \in Effects : wire[e] = "none"
  BY DEF Init
<1>4. Lively /\ UnderWay
  BY DEF Init, Lively, UnderWay
<1>5. RoomsTrue
  BY <1>1 DEF RoomsTrue
<1>6. ComputedOnce
  BY <1>2 DEF ComputedOnce
<1>7. SendsBacked
  BY <1>3 DEF Init, SendsBacked
<1>8. RecordsTrue
  BY <1>1 DEF Init, RecordsTrue
<1>9. AheadIsNew
  <2>1. \A p \in Peers : \A i \in cursor[p] + 1 .. Len(room[p]) : FALSE
    BY <1>1
  <2> QED
    BY <2>1 DEF Init, AheadIsNew
<1>10. OfflineEnds
  BY <1>1, <1>3 DEF OfflineEnds
<1>11. LostRooms
  BY <1>1, <1>3 DEF Init, LostRooms
<1> QED
  BY <1>4, <1>5, <1>6, <1>7, <1>8, <1>9, <1>10, <1>11 DEF KInv

\* An empty session is true as long as nothing is computed and nothing read.
LEMMA NewSound ==
    ASSUME NEW done, NEW task, NEW sent, NEW rooms, NEW upTo,
           \A n \in Nodes : done[n] = 0, \A p \in Peers : upTo[p] = 0
    PROVE  SoundIn(New, done, task, sent, rooms, upTo)
<1>1. /\ \A n \in Nodes : New.compute[n] = "absent" /\ New.delivery[n] = "absent"
      /\ \A e \in Effects : New.effect[e] = "absent"
      /\ \A r \in Roots : New.job[r] = "absent"
  BY DEF New
<1>2. Children \subseteq Nodes /\ Roots \subseteq Nodes
  BY RootFacts
<1>3. TrueIn(New, done, task, sent)
  BY <1>1, <1>2 DEF TrueIn
<1>4. CompletionsIn(New, done, task, sent)
  BY <1>1 DEF CompletionsIn
<1>5. ReadInto(New, task, rooms, upTo)
  BY DEF ReadInto
<1>6. CountsIn(New) /\ ListedIn(New)
  <2>1. \A r \in Roots : New.tasks[r] = <<>>
    BY DEF New
  <2>2. \A r \in Roots : \A n \in TasksOf(r) : n \in Nodes
    BY DEF TasksOf
  <2> QED
    BY <1>1, <2>1, <2>2 DEF CountsIn, ListedIn
<1> QED
  BY <1>3, <1>4, <1>5, <1>6 DEF SoundIn

LEMMA StartTrue ==
    ASSUME IInv, KInv, Start
    PROVE  KInv'
<1>1. /\ disk = None /\ mem = None /\ mem' = New /\ disk' = New /\ New # None /\ New \in Sessions
      /\ pc' = "opening" /\ New.life # "halted" /\ \A e \in Effects : wire[e] = "none"
      /\ UNCHANGED <<runtime, cursor, computed, posted, room, offline, wire, lost>>
  BY NewTyped, SessionsAssumption
     DEF Start, Goto, IInv, NoRecordNoWire, agents, held, network, New
<1>2. /\ \A p \in Peers : cursor[p] = 0 /\ behind'[p] = 0
      /\ \A n \in Nodes : computed[n] = 0
  BY <1>1 DEF KInv, RecordsTrue, ComputedOnce, behind
<1>3. Lively' /\ UnderWay' /\ OfflineEnds'
  BY <1>1 DEF Lively, UnderWay, OfflineEnds
<1>4. RoomsTrue'
  BY <1>1 DEF KInv, RoomsTrue
<1>5. ComputedOnce'
  BY <1>1 DEF KInv, ComputedOnce
<1>6. SendsBacked'
  BY <1>1 DEF SendsBacked
<1>7. RecordsTrue'
  <2>1. SoundIn(New, computed', runtime', posted', room', behind')
    BY <1>1, <1>2, NewSound
  <2> QED
    BY <1>1, <2>1 DEF RecordsTrue, Sound
<1>8. AheadIsNew'
  <2>1. \A e \in Effects : New.effect[e] = "absent"
    BY DEF New
  <2> QED
    BY <1>1, <2>1 DEF KInv, AheadIsNew
<1>9. LostRooms'
  <2>1. \A p \in Peers : Len(room[p]) \in Nat
    BY Behind
  <2> QED
    BY <1>1, <1>2, <2>1 DEF KInv, LostRooms
<1> QED
  BY <1>3, <1>4, <1>5, <1>6, <1>7, <1>8, <1>9 DEF KInv

LEMMA ResumeTrue ==
    ASSUME IInv, KInv, Resume
    PROVE  KInv'
<1> DEFINE t == [disk EXCEPT !.life = "starting"]
<1>1. /\ pc = "off" /\ mem = None /\ disk # None /\ disk \in Sessions /\ offline
      /\ mem' = t /\ disk' = t /\ pc' = "restoring" /\ Sound(disk)
      /\ UNCHANGED <<cursor, computed, posted, room, offline, wire>>
      /\ lost' = {Target(e) : e \in {d \in Effects : disk.effect[d] # "absent"}}
  BY Facts DEF Resume, Goto, network, KInv, Lively, RecordsTrue, Tame
<1>2. Grows(t, disk) /\ t.life = "starting" /\ t \in Sessions
  <2>1. Grows(t, disk) /\ t.life = "starting"
    BY <1>1, LifeGrows
  <2> HIDE DEF t
  <2> QED
    BY <2>1 DEF Grows
<1> HIDE DEF t
<1>3. \A n \in Nodes : runtime'[n] = IF runtime[n] = "running" THEN "ambiguous" ELSE runtime[n]
  BY DEF Resume
<1>4. \A p \in Peers : /\ room[p] = <<>> /\ Len(room[p]) = 0 /\ cursor[p] \in Nat
                       /\ \A i \in cursor[p] + 1 .. Len(room[p]) : FALSE
  <2>1. \A p \in Peers : cursor[p] \in Nat /\ room[p] = <<>>
    BY <1>1, Behind DEF KInv, OfflineEnds
  <2> QED
    BY <2>1
<1>5. \A e \in Effects : wire[e] # "request" /\ (wire[e] # "none" => Target(e) \in lost')
  BY <1>1 DEF KInv, OfflineEnds, IInv, RecordsAccounted, Accounted
<1>6. SoundNext(t)
  <2>1. Sound(t)
    BY <1>1, <1>2, GrowsSound
  <2>2. \A p \in Peers : \A i \in 1 .. Len(room'[p]) : i <= behind'[p] =>
              /\ i \in 1 .. Len(room[p]) /\ i <= behind[p]
              /\ room'[p][i] = room[p][i] /\ room[p][i] \in Effects \cup Offers
    BY <1>1, <1>4
  <2>3. SoundIn(t, computed', runtime', posted', room', behind')
    BY <1>1, <1>3, <2>1, <2>2, Moves DEF Sound
  <2> QED
    BY <2>3 DEF SoundNext
<1>7. t # None
  BY <1>2, SessionsAssumption
<1>8. Lively' /\ UnderWay' /\ OfflineEnds'
  BY <1>1, <1>2, <1>7 DEF Lively, UnderWay, OfflineEnds
<1>9. RoomsTrue'
  BY <1>1 DEF KInv, RoomsTrue
<1>10. ComputedOnce'
  BY <1>1, <1>3, <1>7 DEF KInv, ComputedOnce
<1>11. SendsBacked'
  <2> SUFFICES ASSUME NEW e \in Effects, wire'[e] # "none" \/ (pc' \in {"prepared", "sending"} /\ at' = e)
               PROVE  Backed(e)'
    BY DEF SendsBacked
  <2>1. Backed(e)
    BY <1>1 DEF KInv, SendsBacked
  <2> QED
    BY <1>1, <2>1 DEF Backed
<1>12. RecordsTrue'
  BY <1>1, <1>6, <1>7 DEF RecordsTrue, Sound, SoundNext
<1>13. AheadIsNew'
  <2>1. \A p \in Peers : behind'[p] = cursor[p]
    BY <1>1 DEF behind
  <2> QED
    BY <1>1, <1>4, <2>1 DEF AheadIsNew
<1>14. LostRooms'
  BY <1>1, <1>4, <1>5 DEF KInv, LostRooms
<1> QED
  BY <1>8, <1>9, <1>10, <1>11, <1>12, <1>13, <1>14 DEF KInv

\* The process is gone, with the record that it leaves.
LEMMA EndsTrue ==
    ASSUME IInv, KInv, mem # None, Ends, UNCHANGED <<agents, outside, computed>>,
           disk' = disk \/ (disk' \in Sessions /\ Sound(disk'))
    PROVE  KInv'
<1>1. /\ disk # None /\ disk' # None /\ mem' = None /\ pc' = "off" /\ lost' = {}
      /\ UNCHANGED <<runtime, cursor, computed, posted, offline>>
  BY SessionsAssumption DEF Ends, Goto, KInv, Lively, agents, outside
<1>2. \A p \in Peers : /\ cursor[p] \in Nat /\ behind[p] \in Nat /\ cursor[p] <= behind[p]
                       /\ Len(room[p]) \in Nat /\ room[p] \in Seq(Effects \cup Offers)
                       /\ behind'[p] = cursor[p]
  BY <1>1, Behind, Facts DEF behind, Outer
<1>3. \A p \in Peers : \/ room'[p] = room[p] /\ ~offline
                       \/ room'[p] = <<>> /\ Len(room'[p]) = 0 /\ offline
  BY DEF Ends
<1>4. \A e \in Effects : /\ wire'[e] # "none" <=> wire[e] # "none"
                         /\ offline => wire'[e] # "request"
  <2>1. \A e \in Effects : wire'[e] = IF offline /\ wire[e] = "request" THEN "lost" ELSE wire[e]
    BY DEF Ends
  <2> QED
    BY <2>1
<1>5. Lively' /\ UnderWay'
  BY <1>1 DEF Lively, UnderWay
<1>6. RoomsTrue'
  BY <1>1, <1>3 DEF KInv, RoomsTrue
<1>7. ComputedOnce'
  BY <1>1 DEF KInv, ComputedOnce
<1>8. SendsBacked'
  <2> SUFFICES ASSUME NEW e \in Effects, wire'[e] # "none" \/ (pc' \in {"prepared", "sending"} /\ at' = e)
               PROVE  Backed(e)'
    BY DEF SendsBacked
  <2>1. Backed(e)
    BY <1>1, <1>4 DEF KInv, SendsBacked
  <2> QED
    BY <1>1, <2>1 DEF Backed
<1>9. RecordsTrue'
  <2>1. Sound(disk')
    BY <1>1 DEF KInv, RecordsTrue
  <2>2. \A p \in Peers : \A i \in 1 .. Len(room'[p]) : i <= behind'[p] =>
              /\ i \in 1 .. Len(room[p]) /\ i <= behind[p]
              /\ room'[p][i] = room[p][i] /\ room[p][i] \in Effects \cup Offers
    <3> SUFFICES ASSUME NEW p \in Peers, NEW i \in 1 .. Len(room'[p]), i <= behind'[p]
                 PROVE  /\ i \in 1 .. Len(room[p]) /\ i <= behind[p]
                        /\ room'[p][i] = room[p][i] /\ room[p][i] \in Effects \cup Offers
      OBVIOUS
    <3>1. room'[p] = room[p]
      BY <1>3
    <3>2. i <= behind[p] /\ i \in 1 .. Len(room[p])
      BY <1>2, <3>1
    <3> QED
      BY <1>2, <3>1, <3>2
  <2>3. SoundIn(disk', computed', runtime', posted', room', behind')
    BY <1>1, <2>1, <2>2, Moves DEF Sound
  <2> QED
    BY <1>1, <2>3 DEF RecordsTrue, Sound
<1>10. AheadIsNew'
  <2> SUFFICES ASSUME NEW p \in Peers, NEW i \in cursor[p] + 1 .. Len(room'[p]),
                      NEW n \in Nodes, room'[p][i] = <<n, "proposal">>
               PROVE  computed[n] = 0
    BY <1>1 DEF AheadIsNew
  <2>1. room'[p] = room[p]
    BY <1>2, <1>3
  <2> QED
    BY <2>1 DEF KInv, AheadIsNew
<1>11. OfflineEnds'
  BY <1>1, <1>3, <1>4 DEF OfflineEnds
<1>12. LostRooms'
  <2>1. ASSUME NEW p \in Peers, cursor[p] > Len(room'[p])
        PROVE  offline /\ \E e \in Effects : Target(e) = p /\ wire'[e] # "none"
    <3>1. CASE cursor[p] > Len(room[p])
      BY <1>4, <3>1 DEF KInv, LostRooms
    <3>2. CASE ~(cursor[p] > Len(room[p]))
      <4>1. room'[p] = <<>> /\ Len(room'[p]) = 0 /\ offline
        BY <1>3, <2>1, <3>2
      <4>2. 1 \in 1 .. Len(room[p])
        BY <1>2, <2>1, <3>2, <4>1
      <4>3. room[p][1] \in Effects
        BY <4>1, <4>2 DEF KInv, LostRooms
      <4>4. posted[room[p][1]] = 1 /\ Target(room[p][1]) = p
        BY <4>2, <4>3 DEF KInv, RoomsTrue
      <4>5. wire[room[p][1]] = "posted"
        BY <4>3, <4>4 DEF IInv, PostedOnce
      <4>6. wire'[room[p][1]] # "none"
        BY <1>4, <4>3, <4>5
      <4> QED
        BY <4>1, <4>3, <4>4, <4>6
    <3> QED
      BY <3>1, <3>2
  <2>2. offline => \A p \in Peers : \A i \in 1 .. Len(room'[p]) : room'[p][i] \in Effects
    BY <1>3
  <2> QED
    BY <1>1, <2>1, <2>2 DEF LostRooms
<1> QED
  BY <1>5, <1>6, <1>7, <1>8, <1>9, <1>10, <1>11, <1>12 DEF KInv

LEMMA EndingsTrue ==
    ASSUME IInv, KInv, StartupFails \/ Release \/ Die
    PROVE  KInv'
<1> DEFINE t == [mem EXCEPT !.life = IF @ = "halted" THEN @ ELSE "stopped"]
<1>1. mem # None /\ Ends /\ UNCHANGED <<agents, outside, computed>>
  BY DEF StartupFails, Release, Die, IInv, Positions
<1>2. Sound(Halted(mem)) /\ Halted(mem) \in Sessions
  BY <1>1, MemTrue DEF Steady
<1>3. t \in Sessions /\ Sound(t)
  <2>1. t = [mem EXCEPT !.life = IF mem.life = "halted" THEN "halted" ELSE "stopped"]
    OBVIOUS
  <2> HIDE DEF t
  <2>2. Grows(t, mem)
    BY <1>1, <2>1, MemTrue, LifeGrows
  <2> QED
    BY <1>1, <2>2, MemTrue, GrowsSound DEF Grows
<1>4. disk' \in {disk, Halted(mem), t}
  BY DEF StartupFails, Release, Die
<1> HIDE DEF t
<1> QED
  BY <1>1, <1>2, <1>3, <1>4, EndsTrue

-----------------------------------------------------------------------------
(* Steps that leave the sessions alone.                                    *)

LEMMA OutsideStep ==
    ASSUME IInv, KInv, UNCHANGED <<disk, mem, runtime, computed, posted, room, offline, lost>>,
           Lively', UnderWay',
           pc' \in {"prepared", "sending"} => pc' = pc /\ at' = at,
           \A p \in Peers : behind'[p] = behind[p],
           \/ cursor' = cursor
           \/ /\ mem # None
              /\ \A p \in Peers : /\ cursor'[p] \in Nat /\ cursor[p] <= cursor'[p]
                                  /\ cursor'[p] > Len(room[p]) => cursor[p] > Len(room[p]),
           \A e \in Effects :
              /\ wire[e] # "none" => wire'[e] # "none"
              /\ wire'[e] # "none" => wire[e] # "none" \/ Backed(e)
              /\ wire'[e] = "request" => wire[e] = "request" \/ (mem # None /\ Target(e) \notin lost)
    PROVE  KInv'
<1>1. RoomsTrue' /\ ComputedOnce'
  BY DEF KInv, RoomsTrue, ComputedOnce
<1>2. SendsBacked'
  <2> SUFFICES ASSUME NEW e \in Effects, wire'[e] # "none" \/ (pc' \in {"prepared", "sending"} /\ at' = e)
               PROVE  Backed(e)'
    BY DEF SendsBacked
  <2>1. Backed(e)
    BY DEF KInv, SendsBacked
  <2> QED
    BY <2>1 DEF Backed
<1>3. RecordsTrue'
  <2>1. \A p \in Peers : \A i \in 1 .. Len(room'[p]) : i <= behind'[p] =>
              /\ i \in 1 .. Len(room[p]) /\ i <= behind[p]
              /\ room'[p][i] = room[p][i] /\ room[p][i] \in Effects \cup Offers
    BY Facts DEF Outer
  <2>2. ASSUME NEW s, Sound(s) PROVE SoundNext(s)
    <3>1. SoundIn(s, computed', runtime', posted', room', behind')
      BY <2>1, <2>2, Moves DEF Sound
    <3> QED
      BY <3>1 DEF SoundNext
  <2>3. disk' # None => SoundNext(disk')
    BY <2>2 DEF KInv, RecordsTrue
  <2>4. mem' # None => SoundNext(mem')
    BY <2>2 DEF KInv, RecordsTrue
  <2>5. disk' = None => \A p \in Peers : cursor'[p] = 0
    BY DEF KInv, RecordsTrue, Lively
  <2> QED
    BY <2>3, <2>4, <2>5 DEF RecordsTrue, Sound, SoundNext
<1>4. AheadIsNew'
  <2>1. ASSUME mem' # None, mem'.life # "halted", NEW p \in Peers, NEW i \in behind'[p] + 1 .. Len(room'[p]),
               room'[p][i] \in Effects
        PROVE  mem'.effect[room'[p][i]] # "received"
    BY <2>1 DEF KInv, AheadIsNew
  <2>2. ASSUME NEW p \in Peers, NEW i \in cursor'[p] + 1 .. Len(room'[p]),
               NEW n \in Nodes, room'[p][i] = <<n, "proposal">>
        PROVE  computed'[n] = 0
    <3>1. i \in cursor[p] + 1 .. Len(room[p])
      BY <2>2, Behind
    <3> QED
      BY <2>2, <3>1 DEF KInv, AheadIsNew
  <2> QED
    BY <2>1, <2>2 DEF AheadIsNew
<1>5. OfflineEnds'
  BY DEF KInv, OfflineEnds
<1>6. LostRooms'
  <2>1. ASSUME NEW p \in Peers, cursor'[p] > Len(room'[p])
        PROVE  /\ offline' /\ \E e \in Effects : Target(e) = p /\ wire'[e] # "none"
               /\ mem' # None => p \in lost'
    BY <2>1 DEF KInv, LostRooms
  <2>2. ASSUME NEW e \in Effects, wire'[e] = "request" \/ (pc' \in {"prepared", "sending"} /\ at' = e)
        PROVE  Target(e) \notin lost'
    BY <2>2 DEF KInv, LostRooms
  <2>3. offline' => \A p \in Peers : \A i \in 1 .. Len(room'[p]) : room'[p][i] \in Effects
    BY DEF KInv, LostRooms
  <2> QED
    BY <2>1, <2>2, <2>3 DEF LostRooms
<1> QED
  BY <1>1, <1>2, <1>3, <1>4, <1>5, <1>6 DEF KInv

\* What the operator, the clock and a refusal of the service do.
LEMMA EnvironmentTrue ==
    ASSUME IInv, KInv, RequestStop \/ (\E x \in {"pause", "continue"} : Ask(x)) \/ Expire
                       \/ (\E e \in Effects : Reject(e))
    PROVE  KInv'
<1>1. UNCHANGED <<disk, mem, runtime, computed, posted, room, offline, lost, pc, at, seen, cursor>>
  BY DEF RequestStop, Ask, Expire, Reject, agents, held, outside, network
<1>2. Lively' /\ UnderWay' /\ \A p \in Peers : behind'[p] = behind[p]
  BY <1>1 DEF KInv, Lively, UnderWay, behind
<1>3. \A e \in Effects : wire'[e] = wire[e] \/ (wire[e] = "request" /\ wire'[e] = "refused")
  <2>1. CASE wire' = wire
    BY <2>1
  <2>2. ASSUME NEW d \in Effects, Reject(d)
        PROVE  \A e \in Effects : wire'[e] = wire[e] \/ (wire[e] = "request" /\ wire'[e] = "refused")
    BY <2>2, Facts DEF Reject, Outer
  <2> QED
    BY <2>1, <2>2 DEF RequestStop, Ask, Expire, network
<1> QED
  BY <1>1, <1>2, <1>3, OutsideStep

LEMMA PostTrue ==
    ASSUME IInv, KInv, Post
    PROVE  KInv'
<1>1. /\ mem # None /\ pc = "sending" /\ at \in Effects /\ wire[at] = "none"
      /\ UNCHANGED <<runtime, computed, posted, room, offline, lost, cursor>>
  BY DEF Post, IInv, Positions, Fits, IntentFirst, agents, held, outside
<1>2. Backed(at) /\ Target(at) \notin lost
  BY <1>1 DEF KInv, SendsBacked, LostRooms
<1>3. CASE /\ Active /\ wire' = [wire EXCEPT ![at] = "request"] /\ Goto("await", at)
           /\ UNCHANGED <<disk, mem, faults>>
  <2>1. pc' = "await" /\ at' = at /\ seen' = seen
    BY <1>3 DEF Goto, Post, held
  <2>2. Lively' /\ UnderWay' /\ \A p \in Peers : behind'[p] = behind[p]
    BY <1>1, <1>3, <2>1 DEF KInv, Lively, UnderWay, behind
  <2>3. \A e \in Effects : wire'[e] = IF e = at THEN "request" ELSE wire[e]
    BY <1>3, Facts DEF Outer
  <2> QED
    BY <1>1, <1>2, <1>3, <2>1, <2>2, <2>3, OutsideStep
<1>4. CASE GivesUp("ambiguous") /\ UNCHANGED wire
  BY <1>1, <1>4, GivesUpTrue DEF Calm
<1> QED
  BY <1>3, <1>4 DEF Post

LEMMA PeekTrue ==
    ASSUME IInv, KInv, Peek
    PROVE  KInv'
<1>1. /\ mem # None /\ pc = "read" /\ at \in Peers /\ mem.life # "halted" /\ disk # None
      /\ UNCHANGED <<runtime, computed, posted, room, offline, lost, cursor, wire>>
  BY DEF Peek, IInv, Positions, Fits, agents, outside, network, KInv, Lively
<1>2. CASE seen' = Window(at) /\ Goto("classify", at) /\ UNCHANGED <<disk, mem, faults>>
  <2>1. pc' = "classify" /\ at' = at
    BY <1>2 DEF Goto
  <2>2. cursor[at] \in Nat /\ Len(room[at]) \in Nat
    BY <1>1, Behind
  <2>3. cursor[at] <= seen' /\ (seen' <= Len(room[at]) \/ seen' = cursor[at])
    BY <1>2, <2>2 DEF Window
  <2>4. Lively' /\ UnderWay' /\ \A p \in Peers : behind'[p] = behind[p]
    BY <1>1, <1>2, <2>1, <2>3 DEF KInv, Lively, UnderWay, behind
  <2> QED
    BY <1>1, <1>2, <2>1, <2>4, OutsideStep
<1>3. CASE Breaks(Settle(mem))
  <2>1. Grows(Settle(mem), mem) /\ Settle(mem).life = mem.life
    BY <1>1, MemTrue, SettleGrows
  <2>2. Calm
    BY <1>1 DEF Calm
  <2> QED
    BY <1>1, <1>3, <2>1, <2>2, MemGrows, CalmHalt
<1> QED
  BY <1>2, <1>3 DEF Peek

LEMMA AckTrue ==
    ASSUME IInv, KInv, Ack
    PROVE  KInv'
<1>1. /\ mem # None /\ pc = "ack" /\ pc' = "completing" /\ at \in Peers /\ mem.life = "active"
      /\ cursor[at] <= seen /\ (seen <= Len(room[at]) \/ seen = cursor[at]) /\ seen \in Nat
      /\ cursor \in [Peers -> Nat] /\ cursor' = [cursor EXCEPT ![at] = seen]
      /\ UNCHANGED <<disk, mem, runtime, computed, posted, room, offline, lost, wire>>
  BY Facts DEF Ack, Active, Goto, IInv, Positions, Fits, outside, network, KInv, UnderWay, Outer
<1>2. \A p \in Peers : /\ cursor'[p] = IF p = at THEN seen ELSE cursor[p]
                       /\ Len(room[p]) \in Nat /\ cursor[p] \in Nat
  BY <1>1, Behind
<1>3. Lively' /\ UnderWay' /\ \A p \in Peers : behind'[p] = behind[p]
  BY <1>1, <1>2 DEF KInv, Lively, UnderWay, behind
<1>4. \A p \in Peers : /\ cursor'[p] \in Nat /\ cursor[p] <= cursor'[p]
                       /\ cursor'[p] > Len(room[p]) => cursor[p] > Len(room[p])
  BY <1>1, <1>2
<1> QED
  BY <1>1, <1>3, <1>4, OutsideStep

-----------------------------------------------------------------------------
(* Steps of the runtime of a task.                                         *)

\* The session has the effects it had, what the runtime had succeeded in stays so, and
\* only the running task of the saved session is computed.
LEMMA TaskStep ==
    ASSUME IInv, KInv, mem # None, UNCHANGED <<cursor, posted, room, offline, wire, lost>>,
           Steady(mem', mem), disk' = disk \/ (disk' \in Sessions /\ Sound(disk')),
           pc # "ack", pc' \notin {"off", "ack", "prepared", "sending"}, Lively', UnderWay',
           \A n \in Nodes :
              /\ runtime[n] = "succeeded" => runtime'[n] = "succeeded"
              /\ runtime[n] # "none" => runtime'[n] # "none"
              /\ runtime'[n] = "succeeded" => computed'[n] = 1
              /\ \/ computed'[n] = computed[n]
                 \/ /\ computed'[n] = 1 /\ mem'.compute[n] = "running"
                    /\ disk' = mem' /\ mem'.life # "halted"
    PROVE  KInv'
<1>1. mem' # None /\ disk' # None /\ disk # None
  BY SessionsAssumption DEF Steady, KInv, Lively
<1>2. ASSUME NEW n \in Nodes, computed'[n] # computed[n], n \in Children
      PROVE  mem'.effect[<<n, "proposal">>] = "received" /\ posted[<<n, "proposal">>] = 1
  <2>1. mem'.effect[<<n, "proposal">>] = "received"
    BY <1>2 DEF Steady, Sound, SoundIn, TrueIn
  <2>2. <<n, "proposal">> \in Effects
    BY <1>2, ProposalsAndResults
  <2>3. \A e \in Effects : mem'.effect[e] = "received" => posted[e] = 1
    BY DEF Steady, Sound, SoundIn, TrueIn
  <2> QED
    BY <2>1, <2>2, <2>3
<1>3. RoomsTrue' /\ OfflineEnds'
  BY <1>1 DEF KInv, RoomsTrue, OfflineEnds
<1>4. ComputedOnce'
  <2>1. \A n \in Nodes : computed'[n] \in {0, 1}
    BY DEF KInv, ComputedOnce
  <2>2. \A n \in Nodes : n \in Children /\ computed'[n] = 1 => posted[<<n, "proposal">>] = 1
    BY <1>2 DEF KInv, ComputedOnce
  <2> QED
    BY <1>1, <2>1, <2>2 DEF ComputedOnce
<1>5. SendsBacked'
  <2> SUFFICES ASSUME NEW e \in Effects, wire'[e] # "none"
               PROVE  Backed(e)'
    BY DEF SendsBacked
  <2>1. Backed(e)
    BY DEF KInv, SendsBacked
  <2>2. e[1] \in Nodes /\ \A m \in Needs[e[1]] : m \in Nodes
    <3>1. e[1] \in Children
      BY ProposalsAndResults
    <3> QED
      BY <3>1, PeerSessionAssumption DEF Children, Roots
  <2> QED
    BY <2>1, <2>2 DEF Backed
<1>6. RecordsTrue'
  <2>1. \A p \in Peers : \A i \in 1 .. Len(room'[p]) : i <= behind'[p] =>
              /\ i \in 1 .. Len(room[p]) /\ i <= behind[p]
              /\ room'[p][i] = room[p][i] /\ room[p][i] \in Effects \cup Offers
    <3>1. \A p \in Peers : behind'[p] = behind[p]
      BY Behind DEF behind
    <3> QED
      BY <3>1, Facts DEF Outer
  <2>2. ASSUME NEW s, Sound(s), \A n \in Nodes : computed'[n] = computed[n] \/ s.compute[n] = "running"
        PROVE  SoundNext(s)
    <3>1. \A n \in Nodes : computed[n] = 1 => computed'[n] = 1
      OBVIOUS
    <3>2. \A n \in Nodes : s.compute[n] \in {"absent", "planned", "accepted"} => computed'[n] = computed[n]
      BY <2>2
    <3>3. SoundIn(s, computed', runtime', posted', room', behind')
      BY <2>1, <2>2, <3>1, <3>2, Moves DEF Sound
    <3> QED
      BY <3>3 DEF SoundNext
  <2>3. SoundNext(mem')
    BY <2>2 DEF Steady
  <2>4. SoundNext(disk')
    <3>1. CASE disk' = mem'
      BY <2>3, <3>1
    <3>2. CASE disk' # mem'
      <4>1. Sound(disk')
        BY <1>1 DEF KInv, RecordsTrue
      <4> QED
        BY <2>2, <3>2, <4>1
    <3> QED
      BY <3>1, <3>2
  <2> QED
    BY <1>1, <2>3, <2>4 DEF RecordsTrue, Sound, SoundNext
<1>7. AheadIsNew'
  <2>1. \A p \in Peers : behind'[p] = cursor[p] /\ behind[p] = cursor[p]
    BY Behind DEF behind
  <2>2. ASSUME mem'.life # "halted", NEW p \in Peers, NEW i \in cursor[p] + 1 .. Len(room[p]),
               room[p][i] \in Effects
        PROVE  mem'.effect[room[p][i]] # "received"
    <3>1. mem.life # "halted"
      BY <2>2 DEF Steady
    <3>2. mem.effect[room[p][i]] # "received"
      BY <2>1, <2>2, <3>1 DEF KInv, AheadIsNew
    <3> QED
      BY <2>2, <3>2 DEF Steady
  <2>3. ASSUME NEW p \in Peers, NEW i \in cursor[p] + 1 .. Len(room[p]),
               NEW n \in Nodes, room[p][i] = <<n, "proposal">>
        PROVE  computed'[n] = 0
    <3>1. computed[n] = 0
      BY <2>3 DEF KInv, AheadIsNew
    <3>2. i \in 1 .. Len(room[p]) /\ room[p] \in Seq(Effects \cup Offers)
      BY <2>3, Behind, Facts DEF Outer
    <3>3. <<n, "proposal">> \in Effects /\ n \in Children
      <4>1. room[p][i] \in Effects \cup Offers
        BY <3>2
      <4> QED
        BY <2>3, <4>1, ProposalsAndResults
    <3>4. mem'.life # "halted" => mem'.effect[<<n, "proposal">>] # "received"
      BY <2>2, <2>3, <3>3
    <3> QED
      BY <1>2, <3>1, <3>3, <3>4
  <2> QED
    BY <1>1, <2>1, <2>2, <2>3 DEF AheadIsNew
<1>8. LostRooms'
  BY <1>1 DEF KInv, LostRooms
<1> QED
  BY <1>3, <1>4, <1>5, <1>6, <1>7, <1>8 DEF KInv

\* A task that is not computed has not succeeded.
LEMMA NotComputed ==
    ASSUME IInv, KInv, NEW n \in Nodes, computed[n] = 0
    PROVE  runtime[n] # "succeeded"
<1>1. runtime[n] = "succeeded" => computed[n] = 1
  BY DEF KInv, ComputedOnce
<1> QED
  BY <1>1

LEMMA EnqueueTrue ==
    ASSUME IInv, KInv, Enqueue
    PROVE  KInv'
<1> DEFINE s == [mem EXCEPT !.compute[at] = "accepted"]
           t == [mem EXCEPT !.compute[at] = "failed"]
           failed == Block(t, at)
<1>1. /\ mem # None /\ mem \in Sessions /\ pc = "rooting" /\ at \in Roots /\ at \in Nodes
      /\ mem.compute[at] = "planned" /\ mem.life # "halted"
      /\ UNCHANGED <<cursor, posted, room, offline, wire, lost, computed>>
  BY MemTrue, RootFacts DEF Enqueue, IInv, Positions, Fits, held, outside, network, KInv, Lively, UnderWay
<1>2. computed[at] = 0 /\ runtime[at] # "succeeded"
  <2>1. computed[at] = 0
    BY <1>1, MemTrue DEF Sound, SoundIn, TrueIn
  <2> QED
    BY <1>1, <2>1, NotComputed
<1>3. Steady(s, mem) /\ s.life = mem.life /\ s \in Sessions /\ Sound(s)
  <2>1. "accepted" \in Computes
    BY DEF Computes
  <2>2. Steady(s, mem) /\ s.life = mem.life
    BY <1>1, <2>1, MemTrue, ComputeSteady
  <2> HIDE DEF s
  <2> QED
    BY <2>2 DEF Steady
<1>4. Steady(failed, mem) /\ failed.life = mem.life /\ failed \in Sessions /\ Sound(failed)
  <2>1. Grows(t, mem) /\ t.life = mem.life
    BY <1>1, ComputeGrows DEF Computes
  <2> HIDE DEF t
  <2>2. t \in Sessions
    BY <2>1 DEF Grows
  <2>3. Grows(failed, t) /\ failed.life = t.life
    BY <2>2, BlockGrows
  <2> HIDE DEF failed
  <2>4. Grows(failed, mem)
    BY <2>1, <2>3, GrowsTransitive
  <2> QED
    BY <1>1, <2>1, <2>3, <2>4, MemGrows
<1>5. /\ runtime' \in {runtime, [runtime EXCEPT ![at] = "pending"]}
      /\ \/ mem' = s /\ disk' = s /\ pc' \in {"accepting", "idle"}
         \/ mem' = failed /\ disk' \in {disk, failed} /\ pc' = "idle"
  BY DEF Enqueue, Rest, Goto
<1> HIDE DEF s, failed
<1>6. \A n \in Nodes : runtime'[n] = runtime[n] \/ (n = at /\ runtime'[n] = "pending")
  BY <1>5, Facts DEF Outer
<1>7. Steady(mem', mem) /\ mem'.life = mem.life /\ (disk' = disk \/ (disk' \in Sessions /\ Sound(disk')))
  BY <1>3, <1>4, <1>5
<1>8. mem' # None /\ disk' # None
  BY <1>1, <1>3, <1>4, <1>5, SessionsAssumption DEF KInv, Lively
<1>11. /\ mem'.proposal = mem.proposal
       /\ pc' = "accepting" => at' = at /\ mem'.compute[at] # "absent"
  BY <1>1, <1>5 DEF s, t, failed, Block, Sessions, Enqueue, Goto, Rest
<1>12. at \in External => mem.proposal[at] = "needs-operator"
  BY <1>1 DEF KInv, UnderWay
<1>9. Lively' /\ UnderWay'
  BY <1>1, <1>5, <1>7, <1>8, <1>11, <1>12 DEF Lively, UnderWay
<1>10. \A n \in Nodes :
              /\ runtime[n] = "succeeded" => runtime'[n] = "succeeded"
              /\ runtime[n] # "none" => runtime'[n] # "none"
              /\ runtime'[n] = "succeeded" => computed[n] = 1
  BY <1>2, <1>6 DEF KInv, ComputedOnce
<1> QED
  BY <1>1, <1>5, <1>7, <1>9, <1>10, TaskStep

LEMMA InferTrue ==
    ASSUME IInv, KInv, Infer
    PROVE  KInv'
<1>1. /\ mem # None /\ mem \in Sessions /\ pc = "running" /\ at \in Nodes /\ mem.life # "halted"
      /\ mem.compute[at] = "running" /\ computed[at] = 0
      /\ UNCHANGED <<cursor, posted, room, offline, wire, lost>>
  BY MemTrue DEF Infer, IInv, Positions, Fits, held, outside, network, KInv, Lively, UnderWay
<1>2. /\ mem' = Spend(mem, "inference") /\ disk' = mem' /\ pc' = "inferring" /\ at' = at
      /\ runtime' = [runtime EXCEPT ![at] = "running"]
      /\ computed' = [computed EXCEPT ![at] = computed[at] + 1]
  BY DEF Infer, Goto
<1>3. Grows(mem', mem) /\ mem'.life = mem.life /\ mem'.compute = mem.compute
  <2>1. Grows(Spend(mem, "inference"), mem) /\ Spend(mem, "inference").life = mem.life
    BY <1>1, SpendGrows DEF Budgets
  <2>2. Spend(mem, "inference").compute = mem.compute
    BY <1>1 DEF Spend, Sessions
  <2> QED
    BY <1>2, <2>1, <2>2
<1>4. Steady(mem', mem) /\ mem' \in Sessions /\ Sound(mem')
  BY <1>1, <1>3, MemGrows
<1>5. \A n \in Nodes : /\ runtime'[n] = IF n = at THEN "running" ELSE runtime[n]
                       /\ computed'[n] = IF n = at THEN 1 ELSE computed[n]
  BY <1>1, <1>2, Facts DEF Outer
<1>6. mem' # None
  BY <1>4, SessionsAssumption
<1>7. Lively' /\ UnderWay'
  BY <1>1, <1>2, <1>3, <1>5, <1>6 DEF Lively, UnderWay
<1>8. \A n \in Nodes :
              /\ runtime[n] = "succeeded" => runtime'[n] = "succeeded"
              /\ runtime[n] # "none" => runtime'[n] # "none"
              /\ runtime'[n] = "succeeded" => computed'[n] = 1
              /\ \/ computed'[n] = computed[n]
                 \/ /\ computed'[n] = 1 /\ mem'.compute[n] = "running"
                    /\ disk' = mem' /\ mem'.life # "halted"
  <2>1. /\ runtime[at] # "succeeded" /\ mem'.compute[at] = "running"
        /\ \A n \in Nodes : runtime[n] = "succeeded" => computed[n] = 1
    BY <1>1, <1>3, NotComputed DEF KInv, ComputedOnce
  <2> QED
    BY <1>1, <1>2, <1>3, <1>5, <2>1
<1> QED
  BY <1>1, <1>2, <1>4, <1>7, <1>8, TaskStep

LEMMA NotInferredTrue ==
    ASSUME IInv, KInv, NotInferred
    PROVE  KInv'
<1>1. /\ mem # None /\ mem \in Sessions /\ pc = "running" /\ at \in Nodes /\ mem.life # "halted"
      /\ mem.compute[at] = "running" /\ disk # None /\ disk.compute[at] = "running" /\ computed[at] = 0
      /\ UNCHANGED <<disk, computed, cursor, posted, room, offline, wire, lost>>
  BY MemTrue DEF NotInferred, IInv, Positions, Fits, held, outside, network, KInv, Lively, UnderWay
<1>2. /\ mem' \in {mem, Spend(mem, "inference")} /\ pc' = "ran" /\ at' = at
      /\ runtime' = [runtime EXCEPT ![at] = "failed"]
  BY DEF NotInferred, Goto
<1>3. Grows(mem', mem) /\ mem'.life = mem.life /\ mem'.compute = mem.compute
  <2>1. Grows(Spend(mem, "inference"), mem) /\ Spend(mem, "inference").life = mem.life
    BY <1>1, SpendGrows DEF Budgets
  <2>2. Spend(mem, "inference").compute = mem.compute
    BY <1>1 DEF Spend, Sessions
  <2>3. Grows(mem, mem)
    BY <1>1 DEF Grows
  <2> QED
    BY <1>2, <2>1, <2>2, <2>3
<1>4. Steady(mem', mem) /\ mem' \in Sessions
  BY <1>1, <1>3, MemGrows
<1>5. \A n \in Nodes : runtime'[n] = IF n = at THEN "failed" ELSE runtime[n]
  BY <1>1, <1>2, Facts DEF Outer
<1>6. mem' # None
  BY <1>4, SessionsAssumption
<1>7. Lively' /\ UnderWay'
  BY <1>1, <1>2, <1>3, <1>6 DEF Lively, UnderWay
<1>8. \A n \in Nodes :
              /\ runtime[n] = "succeeded" => runtime'[n] = "succeeded"
              /\ runtime[n] # "none" => runtime'[n] # "none"
              /\ runtime'[n] = "succeeded" => computed'[n] = 1
              /\ computed'[n] = computed[n]
  <2>1. /\ runtime[at] # "succeeded"
        /\ \A n \in Nodes : runtime[n] = "succeeded" => computed[n] = 1
    BY <1>1, NotComputed DEF KInv, ComputedOnce
  <2> QED
    BY <1>1, <1>5, <2>1
<1> QED
  BY <1>1, <1>2, <1>4, <1>7, <1>8, TaskStep

LEMMA ReturnTrue ==
    ASSUME IInv, KInv, NEW o \in {"succeeded", "failed", "ambiguous"}, Return(o)
    PROVE  KInv'
<1>1. /\ mem # None /\ mem \in Sessions /\ pc = "inferring" /\ at \in Nodes /\ mem.life # "halted"
      /\ mem.compute[at] = "running" /\ disk # None /\ disk.compute[at] = "running"
      /\ computed[at] = 1 /\ runtime[at] = "running" /\ pc' = "ran" /\ at' = at
      /\ runtime' = [runtime EXCEPT ![at] = o]
      /\ UNCHANGED <<disk, mem, computed, cursor, posted, room, offline, wire, lost>>
  BY MemTrue DEF Return, Goto, IInv, Positions, Fits, held, outside, network, KInv, Lively, UnderWay
<1>2. \A n \in Nodes : runtime'[n] = IF n = at THEN o ELSE runtime[n]
  BY <1>1, Facts DEF Outer
<1>3. Lively' /\ UnderWay'
  BY <1>1 DEF Lively, UnderWay
<1>4. \A n \in Nodes :
              /\ runtime[n] = "succeeded" => runtime'[n] = "succeeded"
              /\ runtime[n] # "none" => runtime'[n] # "none"
              /\ runtime'[n] = "succeeded" => computed'[n] = 1
              /\ computed'[n] = computed[n]
  <2>1. \A n \in Nodes : runtime[n] = "succeeded" => computed[n] = 1
    BY DEF KInv, ComputedOnce
  <2> QED
    BY <1>1, <1>2, <2>1
<1>5. Steady(mem', mem)
  BY <1>1, MemTrue
<1> QED
  BY <1>1, <1>3, <1>4, <1>5, TaskStep

-----------------------------------------------------------------------------
(* What is made of a window of a room.                                     *)

\* A message of the window is one of the room, new to the session.
LEMMA WindowFacts ==
    ASSUME IInv, KInv, pc = "classify", NEW k \in cursor[at] .. seen
    PROVE  /\ \A m \in Messages(k) :
                 /\ m \in Effects \cup Offers
                 /\ \E i \in 1 .. Len(room[at]) : room[at][i] = m /\ cursor[at] < i /\ i <= k
           /\ \A i \in 1 .. Len(room[at]) : cursor[at] < i /\ i <= k => room[at][i] \in Messages(k)
           /\ \A e \in Effects : e \in Messages(k) =>
                 /\ posted[e] = 1 /\ Target(e) = at
                 /\ mem.effect[e] # "absent" /\ mem.compute[e[1]] # "absent"
           /\ \A n \in Nodes :
                 /\ <<n, "proposal">> \in Messages(k) =>
                       n \in Children /\ <<n, "proposal">> \in Effects /\ computed[n] = 0
                 /\ <<n, "result">> \in Messages(k) => n \in Children /\ <<n, "result">> \in Effects
<1>1. /\ mem # None /\ at \in Peers /\ cursor[at] \in Nat /\ seen \in Nat /\ Len(room[at]) \in Nat
      /\ seen <= Len(room[at]) \/ seen = cursor[at]
      /\ room[at] \in Seq(Effects \cup Offers)
  BY Facts, Behind DEF IInv, Positions, Fits, KInv, UnderWay, Outer
<1>2. \A m \in Messages(k) : \E i \in 1 .. Len(room[at]) : room[at][i] = m /\ cursor[at] < i /\ i <= k
  BY <1>1 DEF Messages
<1>3. \A i \in 1 .. Len(room[at]) : room[at][i] \in Effects \cup Offers
  BY <1>1
<1>4. \A m \in Messages(k) : m \in Effects \cup Offers
  BY <1>2, <1>3
<1>5. \A i \in 1 .. Len(room[at]) : cursor[at] < i /\ i <= k => room[at][i] \in Messages(k)
  BY <1>1 DEF Messages
<1>6. ASSUME NEW e \in Effects, e \in Messages(k)
      PROVE  /\ posted[e] = 1 /\ Target(e) = at
             /\ mem.effect[e] # "absent" /\ mem.compute[e[1]] # "absent"
  <2>1. posted[e] = 1 /\ Target(e) = at
    BY <1>1, <1>2, <1>6 DEF KInv, RoomsTrue
  <2>2. wire[e] = "posted"
    BY <2>1 DEF IInv, PostedOnce
  <2>3. mem.effect[e] # "absent"
    BY <1>1, <2>2 DEF IInv, RecordsAccounted, Accounted
  <2> QED
    BY <1>1, <2>1, <2>3, MemTrue DEF Sound, SoundIn, TrueIn
<1>7. ASSUME NEW n \in Nodes
      PROVE  /\ <<n, "proposal">> \in Messages(k) =>
                   n \in Children /\ <<n, "proposal">> \in Effects /\ computed[n] = 0
             /\ <<n, "result">> \in Messages(k) => n \in Children /\ <<n, "result">> \in Effects
  <2>1. ASSUME <<n, "proposal">> \in Messages(k) PROVE computed[n] = 0
    <3>1. PICK i \in 1 .. Len(room[at]) : room[at][i] = <<n, "proposal">> /\ cursor[at] < i
      BY <1>2, <2>1
    <3>2. i \in cursor[at] + 1 .. Len(room[at])
      BY <1>1, <3>1
    <3> QED
      BY <1>1, <3>1, <3>2 DEF KInv, AheadIsNew
  <2> QED
    BY <1>4, <2>1, ProposalsAndResults
<1> QED
  BY <1>2, <1>4, <1>5, <1>6, <1>7

LEMMA HandedTask ==
    ASSUME IInv, KInv, pc = "classify", NEW k \in cursor[at] .. seen, Handed(Messages(k))
    PROVE  \A n \in Nodes :
              /\ runtime'[n] = IF <<n, "proposal">> \in Messages(k) THEN "pending" ELSE runtime[n]
              /\ runtime'[n] = "succeeded" <=> runtime[n] = "succeeded"
              /\ runtime[n] # "none" => runtime'[n] # "none"
<1>1. \A n \in Nodes : runtime'[n] = IF <<n, "proposal">> \in Messages(k) THEN "pending" ELSE runtime[n]
  BY DEF Handed
<1>2. \A n \in Nodes : <<n, "proposal">> \in Messages(k) => runtime[n] # "succeeded"
  <2>1. \A n \in Nodes : <<n, "proposal">> \in Messages(k) => computed[n] = 0
    BY WindowFacts
  <2> QED
    BY <2>1, NotComputed
<1> QED
  BY <1>1, <1>2

\* Taking a window in makes a session that has read it.
LEMMA ClassifiedSound ==
    ASSUME IInv, KInv, pc = "classify", NEW k \in cursor[at] .. seen, Handed(Messages(k))
    PROVE  /\ Classified(Messages(k)) \in Sessions /\ Classified(Messages(k)).life = mem.life
           /\ SoundIn(Classified(Messages(k)), computed, runtime', posted, room,
                      [p \in Peers |-> IF p = at THEN k ELSE cursor[p]])
           /\ \A e \in Effects : Classified(Messages(k)).effect[e] =
                 IF e \in Messages(k) THEN "received" ELSE mem.effect[e]
<1> DEFINE M == Messages(k)
           effect == [e \in Effects |-> IF e \in M THEN "received" ELSE mem.effect[e]]
           compute == [n \in Nodes |-> IF <<n, "proposal">> \in M THEN "accepted" ELSE mem.compute[n]]
           delivery == [n \in Nodes |-> IF <<n, "result">> \in M THEN "received" ELSE mem.delivery[n]]
           replayed(r) == r \in External /\ <<r, "changed">> \in M
           jobs == [r \in Roots |-> IF replayed(r) /\ mem.proposal[r] = "accepted"
                                      THEN "needs-operator" ELSE mem.job[r]]
           proposal == [r \in External |->
                           IF replayed(r) THEN "rejected"
                           ELSE IF <<r, "offer">> \in M /\ mem.proposal[r] = "absent"
                                  THEN "needs-operator" ELSE mem.proposal[r]]
           c == [mem EXCEPT !.effect = effect, !.compute = compute, !.delivery = delivery,
                            !.job = jobs, !.proposal = proposal]
           upTo == [p \in Peers |-> IF p = at THEN k ELSE cursor[p]]
<1>1. mem # None /\ mem \in Sessions /\ Sound(mem)
  BY MemTrue DEF IInv, Positions
<1>2. Classified(M) = c
  BY DEF Classified
<1>3. effect \in [Effects -> Statuses]
  BY <1>1 DEF Sessions, Statuses
<1>4. compute \in [Nodes -> Computes] /\ delivery \in [Nodes -> Deliveries]
  BY <1>1 DEF Sessions, Computes, Deliveries
<1>5. /\ proposal \in [External -> {"absent", "needs-operator", "accepted", "rejected"}]
      /\ jobs \in [Roots -> Jobs]
  BY <1>1 DEF Sessions, Jobs
<1>6. /\ \A e \in Effects : effect[e] = IF e \in M THEN "received" ELSE mem.effect[e]
      /\ \A n \in Nodes : /\ compute[n] = IF <<n, "proposal">> \in M THEN "accepted" ELSE mem.compute[n]
                          /\ delivery[n] = IF <<n, "result">> \in M THEN "received" ELSE mem.delivery[n]
      /\ \A p \in Peers : upTo[p] = IF p = at THEN k ELSE cursor[p]
  OBVIOUS
<1>16. /\ \A r \in External : /\ <<r, "offer">> \in M => proposal[r] # "absent"
                              /\ <<r, "changed">> \in M => proposal[r] = "rejected"
                              /\ mem.proposal[r] # "absent" => proposal[r] # "absent"
                              /\ mem.proposal[r] = "rejected" => proposal[r] = "rejected"
       /\ \A r \in Roots : jobs[r] \in {mem.job[r], "needs-operator"}
  BY <1>5
<1> HIDE DEF effect, compute, delivery, jobs, proposal, upTo
<1>7. /\ c \in Sessions /\ c.effect = effect /\ c.compute = compute /\ c.delivery = delivery
      /\ c.proposal = proposal /\ c.job = jobs /\ c.flow = mem.flow /\ c.tasks = mem.tasks /\ c.life = mem.life
  BY <1>1, <1>3, <1>4, <1>5 DEF Sessions
<1> HIDE DEF c
<1>8. /\ \A e \in Effects : e \in M =>
            posted[e] = 1 /\ mem.effect[e] # "absent" /\ mem.compute[e[1]] # "absent"
      /\ \A n \in Nodes : /\ <<n, "proposal">> \in M =>
                                n \in Children /\ <<n, "proposal">> \in Effects /\ computed[n] = 0
                          /\ <<n, "result">> \in M => n \in Children /\ <<n, "result">> \in Effects
  BY WindowFacts
<1>9. \A n \in Nodes :
              /\ runtime'[n] = IF <<n, "proposal">> \in M THEN "pending" ELSE runtime[n]
              /\ runtime'[n] = "succeeded" <=> runtime[n] = "succeeded"
              /\ runtime[n] # "none" => runtime'[n] # "none"
  BY HandedTask
<1>10. /\ \A n \in Nodes :
            /\ mem.compute[n] \in {"absent", "planned", "accepted"} => computed[n] = 0
            /\ mem.compute[n] = "result-ready" => runtime[n] = "succeeded"
            /\ mem.delivery[n] = "local" => n \in Roots
            /\ mem.delivery[n] = "received" => n \in Children /\ mem.effect[<<n, "result">>] = "received"
       /\ \A n \in Children :
            mem.compute[n] \in {"accepted", "running", "result-ready"} =>
                mem.effect[<<n, "proposal">>] = "received"
       /\ \A e \in Effects :
            /\ mem.effect[e] \in {"sent", "receiving", "received"} => posted[e] = 1
            /\ mem.effect[e] # "absent" => mem.compute[e[1]] # "absent"
       /\ \A r \in Roots : mem.job[r] = "absent" => mem.compute[r] = "absent"
  BY <1>1 DEF Sound, SoundIn, TrueIn
<1> HIDE DEF M
<1>11. TrueIn(c, computed, runtime', posted)
  <2>1. ASSUME NEW n \in Nodes
        PROVE  /\ compute[n] \in {"absent", "planned", "accepted"} => computed[n] = 0
               /\ compute[n] = "result-ready" => runtime'[n] = "succeeded"
               /\ delivery[n] = "local" => n \in Roots
    BY <1>6, <1>8, <1>9, <1>10
  <2>2. ASSUME NEW n \in Nodes, delivery[n] = "received"
        PROVE  n \in Children /\ effect[<<n, "result">>] = "received"
    <3>1. CASE <<n, "result">> \in M
      BY <1>6, <1>8, <3>1
    <3>2. CASE <<n, "result">> \notin M
      BY <1>6, <1>10, <2>2, <3>2, ProposalsAndResults
    <3> QED
      BY <3>1, <3>2
  <2>3. ASSUME NEW n \in Children, compute[n] \in {"accepted", "running", "result-ready"}
        PROVE  effect[<<n, "proposal">>] = "received"
    <3>1. n \in Nodes /\ <<n, "proposal">> \in Effects
      BY ProposalsAndResults, RootFacts
    <3> QED
      BY <1>6, <1>10, <2>3, <3>1
  <2>4. ASSUME NEW e \in Effects
        PROVE  /\ effect[e] \in {"sent", "receiving", "received"} => posted[e] = 1
               /\ effect[e] # "absent" => compute[e[1]] # "absent"
    <3>1. e[1] \in Nodes
      BY ProposalsAndResults
    <3> QED
      BY <1>6, <1>8, <1>10, <3>1
  <2>5. ASSUME NEW r \in Roots, jobs[r] = "absent" PROVE compute[r] = "absent"
    <3>1. r \in Nodes /\ r \notin Children
      BY RootFacts DEF Children
    <3>2. mem.job[r] = "absent"
      BY <1>16, <2>5
    <3> QED
      BY <1>6, <1>8, <1>10, <2>5, <3>1, <3>2
  <2> QED
    BY <1>7, <2>1, <2>2, <2>3, <2>4, <2>5 DEF TrueIn
<1>12. CompletionsIn(c, computed, runtime', posted)
  <2> SUFFICES ASSUME NEW r \in Roots, c.job[r] = "completed", NEW n \in TasksOf(r)
               PROVE  \/ c.compute[n] = "absent"
                      \/ /\ computed[n] = 1 /\ runtime'[n] = "succeeded"
                         /\ n \in Children => \A x \in {"proposal", "result"} :
                                posted[<<n, x>>] = 1 /\ c.effect[<<n, x>>] = "received"
    BY DEF CompletionsIn
  <2>1. n \in Nodes
    BY DEF TasksOf
  <2>2. \/ mem.compute[n] = "absent"
        \/ /\ computed[n] = 1 /\ runtime[n] = "succeeded"
           /\ n \in Children => \A x \in {"proposal", "result"} :
                  posted[<<n, x>>] = 1 /\ mem.effect[<<n, x>>] = "received"
    <3>1. mem.job[r] = "completed"
      BY <1>7, <1>16
    <3> QED
      BY <1>1, <3>1 DEF Sound, SoundIn, CompletionsIn
  <2>3. mem.compute[n] = "absent" => compute[n] = "absent"
    <3>1. ASSUME <<n, "proposal">> \in M PROVE mem.compute[n] # "absent"
      <4>1. <<n, "proposal">> \in Effects
        BY <1>8, <2>1, <3>1
      <4>2. mem.compute[<<n, "proposal">>[1]] # "absent"
        BY <1>8, <3>1, <4>1
      <4> QED
        BY <4>2
    <3> QED
      BY <1>6, <2>1, <3>1
  <2>4. n \in Children => \A x \in {"proposal", "result"} :
            mem.effect[<<n, x>>] = "received" => effect[<<n, x>>] = "received"
    BY <1>6, ProposalsAndResults
  <2> QED
    BY <1>7, <1>9, <2>1, <2>2, <2>3, <2>4
<1>13. ReadInto(c, runtime', room, upTo)
  <2> SUFFICES ASSUME NEW p \in Peers, NEW i \in 1 .. Len(room[p]), i <= upTo[p]
               PROVE  IF room[p][i] \in Offers
                        THEN Known(c, room[p][i])
                        ELSE /\ c.effect[room[p][i]] = "received"
                             /\ room[p][i][2] = "proposal" => runtime'[room[p][i][1]] # "none"
    BY DEF ReadInto
  <2> DEFINE m == room[p][i]
  <2>1. m \in Effects \cup Offers
    BY Facts DEF Outer
  <2>2. m \in Effects => m[1] \in Nodes /\ m = <<m[1], m[2]>>
    BY ProposalsAndResults
  <2>3. CASE i <= cursor[p]
    <3>1. i <= behind[p]
      BY <2>3, Behind
    <3>2. IF m \in Offers
            THEN Known(mem, m)
            ELSE /\ mem.effect[m] = "received"
                 /\ m[2] = "proposal" => runtime[m[1]] # "none"
      BY <1>1, <3>1 DEF Sound, SoundIn, ReadInto
    <3> HIDE DEF m
    <3>3. m \in Offers => Known(c, m)
      BY <1>7, <1>16, <3>2, ProposalsAndResults DEF Known
    <3>4. m \in Effects /\ m \notin Offers => c.effect[m] = "received"
      BY <1>6, <1>7, <3>2
    <3>5. m \in Effects /\ m \notin Offers /\ m[2] = "proposal" => runtime'[m[1]] # "none"
      BY <1>9, <2>2, <3>2
    <3> QED
      BY <2>1, <3>3, <3>4, <3>5 DEF m
  <2>4. CASE ~(i <= cursor[p])
    <3>1. cursor[p] \in Nat /\ i \in Nat /\ p = at
      BY <1>6, <2>4, Behind
    <3>2. cursor[at] < i /\ i <= k
      BY <1>6, <2>4, <3>1
    <3>3. m \in M
      BY <3>1, <3>2, WindowFacts DEF M
    <3> HIDE DEF m
    <3>4. m \in Offers => Known(c, m)
      <4> SUFFICES ASSUME m \in Offers PROVE Known(c, m)
        OBVIOUS
      <4>1. m[1] \in External /\ m = <<m[1], m[2]>> /\ m[2] \in {"offer", "changed"}
        BY ProposalsAndResults
      <4>2. <<m[1], m[2]>> \in M
        BY <3>3, <4>1
      <4> QED
        BY <1>7, <1>16, <4>1, <4>2 DEF Known
    <3>5. m \in Effects => c.effect[m] = "received"
      BY <1>6, <1>7, <3>3
    <3>6. m \in Effects /\ m[2] = "proposal" => runtime'[m[1]] # "none"
      <4> SUFFICES ASSUME m \in Effects, m[2] = "proposal" PROVE runtime'[m[1]] # "none"
        OBVIOUS
      <4>1. m = <<m[1], "proposal">> /\ m[1] \in Nodes
        BY <2>2
      <4>2. <<m[1], "proposal">> \in M
        BY <3>3, <4>1
      <4> QED
        BY <1>9, <4>1, <4>2
    <3> QED
      BY <2>1, <3>4, <3>5, <3>6 DEF m
  <2> QED
    BY <2>3, <2>4
<1>15. CountsIn(c) /\ ListedIn(c)
  <2>1. \A r \in Roots : /\ c.job[r] = "completed" => mem.job[r] = "completed" /\ c.flow[r] = mem.flow[r]
                         /\ c.job[r] = "absent" => mem.job[r] = "absent"
    BY <1>7, <1>16
  <2>2. ASSUME NEW n \in Nodes, mem.compute[n] = "absent" PROVE c.compute[n] = "absent"
    <3>1. ASSUME <<n, "proposal">> \in M PROVE mem.compute[n] # "absent"
      <4>1. <<n, "proposal">> \in Effects
        BY <1>8, <3>1
      <4>2. mem.compute[<<n, "proposal">>[1]] # "absent"
        BY <1>8, <3>1, <4>1
      <4> QED
        BY <4>2
    <3> QED
      BY <1>6, <1>7, <2>2, <3>1
  <2> QED
    BY <1>1, <1>7, <2>1, <2>2, ListsKept DEF Sound, SoundIn
<1>14. SoundIn(c, computed, runtime', posted, room, upTo)
  BY <1>11, <1>12, <1>13, <1>15 DEF SoundIn
<1> QED
  BY <1>2, <1>6, <1>7, <1>14 DEF M, upTo

\* What the window leaves as it was.
LEMMA ClassifyFrame ==
    ASSUME IInv, KInv, mem # None, mem' # None, disk' # None, pc = "classify",
           NEW k \in cursor[at] .. seen, Handed(Messages(k)),
           UNCHANGED <<cursor, held, outside, network, computed>>,
           pc' \notin {"off", "prepared", "sending"}
    PROVE  RoomsTrue' /\ ComputedOnce' /\ SendsBacked' /\ OfflineEnds' /\ LostRooms'
<1> USE DEF held, outside, network
<1>1. \A n \in Nodes : runtime'[n] = "succeeded" <=> runtime[n] = "succeeded"
  BY HandedTask
<1>2. RoomsTrue' /\ OfflineEnds'
  BY DEF KInv, RoomsTrue, OfflineEnds
<1>3. ComputedOnce'
  BY <1>1 DEF KInv, ComputedOnce
<1>4. SendsBacked'
  <2> SUFFICES ASSUME NEW e \in Effects, wire'[e] # "none"
               PROVE  Backed(e)'
    BY DEF SendsBacked
  <2>1. Backed(e)
    BY DEF KInv, SendsBacked
  <2> QED
    BY <2>1 DEF Backed
<1>5. LostRooms'
  BY DEF KInv, LostRooms
<1> QED
  BY <1>2, <1>3, <1>4, <1>5

\* A session that is true with a part of the window is true with less of it.
LEMMA ReadLess ==
    ASSUME IInv, KInv, UNCHANGED <<computed, posted, room>>, NEW s, NEW upTo,
           SoundIn(s, computed, runtime', posted, room, upTo),
           \A p \in Peers : upTo[p] \in Nat /\ behind'[p] \in Nat /\ behind'[p] <= upTo[p]
    PROVE  SoundNext(s)
<1>1. \A p \in Peers : \A i \in 1 .. Len(room'[p]) : i <= behind'[p] =>
              /\ i \in 1 .. Len(room[p]) /\ i <= upTo[p]
              /\ room'[p][i] = room[p][i] /\ room[p][i] \in Effects \cup Offers
  <2> SUFFICES ASSUME NEW p \in Peers, NEW i \in 1 .. Len(room[p]), i <= behind'[p]
               PROVE  i <= upTo[p] /\ room[p][i] \in Effects \cup Offers
    OBVIOUS
  <2>1. room[p] \in Seq(Effects \cup Offers)
    BY Facts DEF Outer
  <2> QED
    BY <2>1
<1>2. SoundIn(s, computed', runtime', posted', room', behind')
  BY <1>1, Moves
<1> QED
  BY <1>2 DEF SoundNext

LEMMA ClassifyTrue ==
    ASSUME IInv, KInv, Classify
    PROVE  KInv'
<1> DEFINE M == Messages(seen)
           c == Classified(M)
           upTo == [p \in Peers |-> IF p = at THEN seen ELSE cursor[p]]
<1>1. /\ mem # None /\ pc = "classify" /\ at \in Peers /\ mem.life = "active" /\ seen \in cursor[at] .. seen
      /\ mem' = c /\ disk' = c /\ Handed(M) /\ pc' = "ack" /\ at' = at
      /\ UNCHANGED <<cursor, held, outside, network, computed>>
      /\ UNCHANGED <<seen, room, posted, computed>>
  <2>1. /\ mem # None /\ pc = "classify" /\ at \in Peers /\ mem.life = "active"
        /\ mem' = c /\ disk' = c /\ Handed(M) /\ pc' = "ack" /\ at' = at
        /\ UNCHANGED <<cursor, held, outside, network, computed>>
        /\ UNCHANGED <<seen, room, posted, computed>>
    BY DEF Classify, Goto, Active, IInv, Positions, Fits, held, network
  <2>2. cursor[at] \in Nat /\ seen \in Nat /\ cursor[at] <= seen
    BY <2>1, Behind, Facts DEF KInv, UnderWay, Outer
  <2> QED
    BY <2>1, <2>2
<1>2. /\ c \in Sessions /\ c.life = mem.life /\ SoundIn(c, computed, runtime', posted, room, upTo)
      /\ \A e \in Effects : c.effect[e] = IF e \in M THEN "received" ELSE mem.effect[e]
  BY <1>1, ClassifiedSound
<1>3. /\ \A m \in M : m \in Effects => Target(m) = at
      /\ \A m \in M : \E i \in 1 .. Len(room[at]) : room[at][i] = m /\ i <= seen
  BY <1>1, WindowFacts
<1>4. \A p \in Peers : behind'[p] = upTo[p] /\ upTo[p] \in Nat /\ cursor[p] \in Nat /\ Len(room[p]) \in Nat
  <2>1. \A p \in Peers : behind'[p] = upTo[p]
    BY <1>1 DEF behind
  <2> QED
    BY <1>1, <2>1, Behind
<1> HIDE DEF c, M
<1>5. c # None
  BY <1>2, SessionsAssumption
<1>6. RoomsTrue' /\ ComputedOnce' /\ SendsBacked' /\ OfflineEnds' /\ LostRooms'
  BY <1>1, <1>5, ClassifyFrame DEF M
<1>7. Lively' /\ UnderWay'
  BY <1>1, <1>2, <1>5 DEF KInv, Lively, UnderWay
<1>8. RecordsTrue'
  <2>1. SoundNext(c)
    BY <1>1, <1>2, <1>4, ReadLess
  <2> QED
    BY <1>1, <1>5, <2>1 DEF RecordsTrue, Sound, SoundNext
<1>9. AheadIsNew'
  <2>1. ASSUME NEW p \in Peers, NEW i \in behind'[p] + 1 .. Len(room[p]), room[p][i] \in Effects
        PROVE  c.effect[room[p][i]] # "received"
    <3>1. i \in cursor[p] + 1 .. Len(room[p]) /\ i \in 1 .. Len(room[p]) /\ (p = at => i > seen)
      BY <1>1, <1>4
    <3>2. mem.effect[room[p][i]] # "received"
      <4>1. behind[p] = cursor[p]
        BY <1>1, Behind
      <4> QED
        BY <1>1, <2>1, <3>1, <4>1 DEF KInv, AheadIsNew
    <3>3. room[p][i] \notin M
      <4> SUFFICES ASSUME room[p][i] \in M PROVE FALSE
        OBVIOUS
      <4>1. p = at
        BY <1>3, <2>1, <3>1 DEF KInv, RoomsTrue
      <4>2. PICK j \in 1 .. Len(room[at]) : room[at][j] = room[p][i] /\ j <= seen
        BY <1>3
      <4>3. j = i
        BY <2>1, <3>1, <4>1, <4>2 DEF KInv, RoomsTrue
      <4> QED
        BY <1>1, <3>1, <4>1, <4>2, <4>3
    <3> QED
      BY <1>2, <2>1, <3>2, <3>3
  <2>2. \A p \in Peers : \A i \in cursor[p] + 1 .. Len(room[p]) :
          \A n \in Nodes : room[p][i] = <<n, "proposal">> => computed[n] = 0
    BY DEF KInv, AheadIsNew
  <2> QED
    BY <1>1, <2>1, <2>2 DEF AheadIsNew
<1> QED
  BY <1>6, <1>7, <1>8, <1>9 DEF KInv

LEMMA UnclassifiedTrue ==
    ASSUME IInv, KInv, Unclassified
    PROVE  KInv'
<1>1. PICK k \in cursor[at] .. seen :
          LET s == Halted(Settle(Classified(Messages(k)))) IN
          /\ mem' = s /\ Handed(Messages(k))
          /\ \/ (~Active \/ ~Expected(Messages(seen))) /\ disk' = s /\ UNCHANGED faults
             \/ disk' \in {disk, s} /\ Fault
  BY DEF Unclassified
<1> DEFINE c == Classified(Messages(k))
           s == Halted(Settle(c))
           upTo == [p \in Peers |-> IF p = at THEN k ELSE cursor[p]]
<1>2. /\ mem # None /\ disk # None /\ pc = "classify" /\ at \in Peers
      /\ mem' = s /\ disk' \in {disk, s} /\ Handed(Messages(k)) /\ pc' = "idle" /\ at' = None
      /\ UNCHANGED <<cursor, held, outside, network, computed>>
      /\ UNCHANGED <<room, posted, computed>>
  BY <1>1 DEF Unclassified, Rest, Goto, IInv, Positions, Fits, KInv, Lively, network
<1>3. c \in Sessions /\ SoundIn(c, computed, runtime', posted, room, upTo)
  BY <1>2, ClassifiedSound
<1> HIDE DEF c
<1>4. Grows(s, c) /\ s.life = "halted" /\ s \in Sessions
  <2>1. Grows(Settle(c), c)
    BY <1>3, SettleGrows
  <2>2. Settle(c) \in Sessions
    BY <2>1 DEF Grows
  <2>3. Grows(s, Settle(c)) /\ s.life = "halted"
    BY <2>2, HaltedGrows
  <2> HIDE DEF s
  <2>4. Grows(s, c)
    BY <2>1, <2>3, GrowsTransitive
  <2> QED
    BY <2>3, <2>4 DEF Grows
<1> HIDE DEF s
<1>5. s # None /\ disk' # None
  BY <1>2, <1>4, SessionsAssumption
<1>6. /\ \A p \in Peers : /\ behind'[p] = cursor[p] /\ behind[p] = cursor[p] /\ cursor[p] \in Nat
                          /\ upTo[p] \in Nat /\ behind'[p] <= upTo[p]
  <2>1. \A p \in Peers : cursor[p] \in Nat /\ behind[p] = cursor[p]
    BY <1>2, Behind
  <2>2. \A p \in Peers : behind'[p] = cursor[p]
    BY <1>2 DEF behind
  <2>3. k \in Nat /\ cursor[at] <= k
    BY <1>2, <2>1, Facts DEF Outer
  <2> QED
    BY <2>1, <2>2, <2>3
<1>7. RoomsTrue' /\ ComputedOnce' /\ SendsBacked' /\ OfflineEnds' /\ LostRooms'
  BY <1>2, <1>5, ClassifyFrame
<1>8. Lively' /\ UnderWay'
  BY <1>2, <1>5 DEF Lively, UnderWay
<1>9. RecordsTrue'
  <2>1. \A p \in Peers : room[p] \in Seq(Effects \cup Offers)
    BY Facts DEF Outer
  <2>2. SoundIn(s, computed, runtime', posted, room, upTo)
    BY <1>3, <1>4, <2>1, GrowsSoundIn
  <2>3. SoundNext(s)
    BY <1>2, <1>6, <2>2, ReadLess
  <2>4. SoundNext(disk)
    <3>1. SoundIn(disk, computed, runtime, posted, room, behind)
      BY <1>2 DEF KInv, RecordsTrue, Sound
    <3>2. \A p \in Peers : \A i \in 1 .. Len(room'[p]) : i <= behind'[p] =>
              /\ i \in 1 .. Len(room[p]) /\ i <= behind[p]
              /\ room'[p][i] = room[p][i] /\ room[p][i] \in Effects \cup Offers
      BY <1>2, <1>6, <2>1
    <3>3. \A n \in Nodes : /\ runtime[n] = "succeeded" => runtime'[n] = "succeeded"
                           /\ runtime[n] # "none" => runtime'[n] # "none"
      BY <1>2, HandedTask
    <3>4. SoundIn(disk, computed', runtime', posted', room', behind')
      BY <1>2, <3>1, <3>2, <3>3, Moves
    <3> QED
      BY <3>4 DEF SoundNext
  <2> QED
    BY <1>2, <1>5, <2>3, <2>4 DEF RecordsTrue, Sound, SoundNext
<1>10. AheadIsNew'
  <2>1. \A p \in Peers : \A i \in cursor[p] + 1 .. Len(room[p]) :
          \A n \in Nodes : room[p][i] = <<n, "proposal">> => computed[n] = 0
    BY DEF KInv, AheadIsNew
  <2> QED
    BY <1>2, <1>4, <2>1 DEF AheadIsNew
<1> QED
  BY <1>7, <1>8, <1>9, <1>10 DEF KInv

-----------------------------------------------------------------------------
(* A message arrives in a room.                                            *)

\* The records stay true of longer rooms, and of more that was accepted.
LEMMA RoomsMove ==
    ASSUME KInv, UNCHANGED <<disk, mem, runtime, computed, cursor>>,
           \A e \in Effects : posted[e] = 1 => posted'[e] = 1,
           \A p \in Peers : \A i \in 1 .. Len(room'[p]) : i <= behind'[p] =>
              /\ i \in 1 .. Len(room[p]) /\ i <= behind[p]
              /\ room'[p][i] = room[p][i] /\ room[p][i] \in Effects \cup Offers
    PROVE  RecordsTrue'
<1>1. ASSUME NEW s, Sound(s) PROVE SoundNext(s)
  <2>1. SoundIn(s, computed', runtime', posted', room', behind')
    BY <1>1, Moves DEF Sound
  <2> QED
    BY <2>1 DEF SoundNext
<1>2. /\ disk' # None => SoundNext(disk')
      /\ mem' # None => SoundNext(mem')
  BY <1>1 DEF KInv, RecordsTrue
<1> QED
  BY <1>2 DEF KInv, RecordsTrue, Sound, SoundNext

LEMMA ArrivalTrue ==
    ASSUME IInv, KInv, NEW q \in Peers, NEW m \in Effects \cup Offers,
           room' = [room EXCEPT ![q] = Append(@, m)],
           UNCHANGED <<disk, mem, pc, at, seen, lost, offline, runtime, cursor, computed>>,
           cursor[q] <= Len(room[q]), mem # None \/ ~offline, m \in Offers => ~offline,
           m \in Effects => posted[m] = 0 /\ posted'[m] = 1 /\ Target(m) = q,
           \A e \in Effects :
              /\ e # m => posted'[e] = posted[e]
              /\ wire[e] # "none" <=> wire'[e] # "none"
              /\ wire'[e] = "request" => wire[e] = "request"
    PROVE  KInv'
<1>1. /\ \A p \in Peers : /\ room[p] \in Seq(Effects \cup Offers) /\ Len(room[p]) \in Nat /\ cursor[p] \in Nat
                          /\ behind[p] \in Nat /\ behind'[p] = behind[p]
                          /\ behind[p] <= Len(room[p]) \/ behind[p] = cursor[p]
      /\ room \in [Peers -> Seq(Effects \cup Offers)]
  BY Behind, Facts DEF Outer, behind
<1>2. /\ \A p \in Peers : p # q => room'[p] = room[p]
      /\ room'[q] = Append(room[q], m)
  BY <1>1
<1>3. /\ Len(room'[q]) = Len(room[q]) + 1 /\ room'[q][Len(room[q]) + 1] = m
      /\ \A i \in 1 .. Len(room[q]) : room'[q][i] = room[q][i]
  BY <1>1, <1>2
<1>4. \A p \in Peers : \A i \in 1 .. Len(room'[p]) :
          \/ i \in 1 .. Len(room[p]) /\ room'[p][i] = room[p][i]
          \/ p = q /\ i = Len(room[q]) + 1 /\ room'[p][i] = m
  BY <1>1, <1>2, <1>3
<1>5. \A p \in Peers : Len(room'[p]) \in Nat /\ Len(room[p]) <= Len(room'[p])
  BY <1>1, <1>2, <1>3
<1>6. \A e \in Effects : posted[e] = 1 => posted'[e] = 1 /\ e # m
  OBVIOUS
<1>7. Lively'
  BY DEF KInv, Lively
<1>8. RoomsTrue'
  <2> SUFFICES ASSUME NEW p \in Peers, NEW i \in 1 .. Len(room'[p]), room'[p][i] \in Effects
               PROVE  /\ posted'[room'[p][i]] = 1 /\ Target(room'[p][i]) = p
                      /\ \A j \in 1 .. Len(room'[p]) : room'[p][j] = room'[p][i] => j = i
    BY DEF RoomsTrue
  <2>1. CASE i \in 1 .. Len(room[p]) /\ room'[p][i] = room[p][i]
    <3>1. /\ posted[room[p][i]] = 1 /\ Target(room[p][i]) = p
          /\ \A j \in 1 .. Len(room[p]) : room[p][j] = room[p][i] => j = i
      BY <2>1 DEF KInv, RoomsTrue
    <3>2. posted'[room[p][i]] = 1 /\ room[p][i] # m
      BY <1>6, <2>1, <3>1
    <3> QED
      BY <1>4, <2>1, <3>1, <3>2
  <2>2. CASE p = q /\ i = Len(room[q]) + 1 /\ room'[p][i] = m
    <3>1. \A j \in 1 .. Len(room[q]) : room[q][j] # m
      BY <2>2 DEF KInv, RoomsTrue
    <3> QED
      BY <1>4, <2>2, <3>1
  <2> QED
    BY <1>4, <2>1, <2>2
<1>9. ComputedOnce'
  <2>1. \A n \in Nodes : n \in Children /\ computed[n] = 1 => posted'[<<n, "proposal">>] = 1
    <3>1. \A n \in Nodes : n \in Children /\ computed[n] = 1 => posted[<<n, "proposal">>] = 1
      BY DEF KInv, ComputedOnce
    <3> QED
      BY <1>6, <3>1, ProposalsAndResults
  <2> QED
    BY <2>1 DEF KInv, ComputedOnce
<1>10. SendsBacked'
  <2> SUFFICES ASSUME NEW e \in Effects, wire'[e] # "none" \/ (pc' \in {"prepared", "sending"} /\ at' = e)
               PROVE  Backed(e)'
    BY DEF SendsBacked
  <2>1. Backed(e)
    BY DEF KInv, SendsBacked
  <2>2. \A n \in Children : posted[<<n, "result">>] = 1 => posted'[<<n, "result">>] = 1
    BY <1>6, ProposalsAndResults
  <2> QED
    BY <2>1, <2>2 DEF Backed
<1>11. RecordsTrue'
  <2>1. \A p \in Peers : \A i \in 1 .. Len(room'[p]) : i <= behind'[p] =>
              /\ i \in 1 .. Len(room[p]) /\ i <= behind[p]
              /\ room'[p][i] = room[p][i] /\ room[p][i] \in Effects \cup Offers
    <3> SUFFICES ASSUME NEW p \in Peers, NEW i \in 1 .. Len(room'[p]), i <= behind'[p]
                 PROVE  /\ i \in 1 .. Len(room[p]) /\ i <= behind[p]
                        /\ room'[p][i] = room[p][i] /\ room[p][i] \in Effects \cup Offers
      OBVIOUS
    <3>1. i <= behind[p]
      BY <1>1
    <3>2. ~(p = q /\ i = Len(room[q]) + 1)
      BY <1>1, <3>1
    <3>3. i \in 1 .. Len(room[p]) /\ room'[p][i] = room[p][i]
      BY <1>4, <3>2
    <3> QED
      BY <1>1, <3>1, <3>3
  <2>2. \A e \in Effects : posted[e] = 1 => posted'[e] = 1
    BY <1>6
  <2> QED
    BY <2>1, <2>2, RoomsMove
<1>12. UnderWay'
  <2>1. pc \in {"classify", "ack"} => at \in Peers
    BY DEF IInv, Positions, Fits
  <2>2. pc \in {"classify", "ack"} => cursor[at] <= seen /\ (seen <= Len(room[at]) \/ seen = cursor[at])
    BY DEF KInv, UnderWay
  <2>3. pc \in {"classify", "ack"} => seen <= Len(room'[at]) \/ seen = cursor[at]
    BY <1>1, <1>5, <2>1, <2>2, Facts DEF Outer
  <2> QED
    BY <2>2, <2>3 DEF KInv, UnderWay
<1>13. AheadIsNew'
  <2>1. ASSUME mem # None, mem.life # "halted", NEW p \in Peers, NEW i \in behind'[p] + 1 .. Len(room'[p]),
               room'[p][i] \in Effects
        PROVE  mem.effect[room'[p][i]] # "received"
    <3>1. i \in 1 .. Len(room'[p]) /\ i > behind[p]
      BY <1>1, <1>5, <2>1
    <3>2. CASE i \in 1 .. Len(room[p]) /\ room'[p][i] = room[p][i]
      <4>1. i \in behind[p] + 1 .. Len(room[p])
        BY <1>1, <3>1, <3>2
      <4> QED
        BY <2>1, <3>2, <4>1 DEF KInv, AheadIsNew
    <3>3. CASE room'[p][i] = m
      <4>1. m \in Effects /\ posted[m] = 0
        BY <2>1, <3>3
      <4>2. Sound(mem)
        BY <2>1, MemTrue
      <4>3. mem.effect[m] = "received" => posted[m] = 1
        BY <4>1, <4>2 DEF Sound, SoundIn, TrueIn
      <4>4. mem.effect[m] # "received"
        BY <4>1, <4>3
      <4> QED
        BY <3>3, <4>4
    <3> QED
      BY <1>4, <3>1, <3>2, <3>3
  <2>2. ASSUME NEW p \in Peers, NEW i \in cursor[p] + 1 .. Len(room'[p]),
               NEW n \in Nodes, room'[p][i] = <<n, "proposal">>
        PROVE  computed[n] = 0
    <3>1. i \in 1 .. Len(room'[p]) /\ i > cursor[p]
      BY <1>1, <1>5, <2>2
    <3>2. CASE i \in 1 .. Len(room[p]) /\ room'[p][i] = room[p][i]
      <4>1. i \in cursor[p] + 1 .. Len(room[p])
        BY <1>1, <3>1, <3>2
      <4> QED
        BY <2>2, <3>2, <4>1 DEF KInv, AheadIsNew
    <3>3. CASE room'[p][i] = m
      <4>1. n \in Children /\ posted[<<n, "proposal">>] = 0
        BY <2>2, <3>3, ProposalsAndResults
      <4>2. computed[n] \in {0, 1} /\ computed[n] # 1
        BY <4>1 DEF KInv, ComputedOnce
      <4> QED
        BY <4>2
    <3> QED
      BY <1>4, <3>1, <3>2, <3>3
  <2> QED
    BY <2>1, <2>2 DEF AheadIsNew
<1>14. OfflineEnds'
  BY DEF OfflineEnds
<1>15. LostRooms'
  <2>1. ASSUME NEW p \in Peers, cursor[p] > Len(room'[p])
        PROVE  /\ offline /\ \E e \in Effects : Target(e) = p /\ wire'[e] # "none"
               /\ mem # None => p \in lost
    <3>1. cursor[p] > Len(room[p])
      BY <1>1, <1>5, <2>1
    <3> QED
      BY <3>1 DEF KInv, LostRooms
  <2>2. ASSUME offline, NEW p \in Peers, NEW i \in 1 .. Len(room'[p])
        PROVE  room'[p][i] \in Effects
    BY <1>4, <2>2 DEF KInv, LostRooms
  <2>3. ASSUME NEW e \in Effects, wire'[e] = "request" \/ (pc \in {"prepared", "sending"} /\ at = e)
        PROVE  Target(e) \notin lost
    BY <2>3 DEF KInv, LostRooms
  <2> QED
    BY <2>1, <2>2, <2>3 DEF LostRooms
<1> QED
  BY <1>7, <1>8, <1>9, <1>10, <1>11, <1>12, <1>13, <1>14, <1>15 DEF KInv

LEMMA AcceptTrue ==
    ASSUME IInv, KInv, NEW e \in Effects, Accept(e)
    PROVE  KInv'
<1>1. /\ wire[e] = "request" /\ Target(e) \in Peers
      /\ room' = [room EXCEPT ![Target(e)] = Append(@, e)]
      /\ wire' = [wire EXCEPT ![e] = "posted"] /\ posted' = [posted EXCEPT ![e] = posted[e] + 1]
      /\ UNCHANGED <<disk, mem, pc, at, seen, lost, offline, runtime, cursor, computed>>
  BY EffectFacts DEF Accept, agents, held, outside
<1>2. mem # None \/ ~offline
  BY <1>1 DEF KInv, OfflineEnds
<1>3. cursor[Target(e)] <= Len(room[Target(e)])
  <2>1. ~(cursor[Target(e)] > Len(room[Target(e)]))
    BY <1>1, <1>2 DEF KInv, LostRooms
  <2> QED
    BY <1>1, <2>1, Behind
<1>4. posted[e] = 0
  BY <1>1 DEF IInv, PostedOnce
<1>5. posted \in [Effects -> Nat] /\ wire \in [Effects -> {"none", "request", "posted", "refused", "lost"}]
  BY Facts DEF Outer
<1>6. /\ posted'[e] = 1
      /\ \A d \in Effects :
              /\ d # e => posted'[d] = posted[d]
              /\ wire[d] # "none" <=> wire'[d] # "none"
              /\ wire'[d] = "request" => wire[d] = "request"
  BY <1>1, <1>4, <1>5
<1>7. e \notin Offers
  BY ProposalsAndResults
<1> QED
  BY <1>1, <1>2, <1>3, <1>4, <1>6, <1>7, ArrivalTrue

LEMMA ProposeTrue ==
    ASSUME IInv, KInv, NEW m \in Offers, Propose(m)
    PROVE  KInv'
<1>1. m[1] \in Nodes /\ m \notin Effects
  BY ProposalsAndResults
<1> DEFINE q == Home[m[1]]
<1>2. /\ ~offline /\ q \in Peers
      /\ room' = [room EXCEPT ![q] = Append(@, m)]
      /\ UNCHANGED <<disk, mem, pc, at, seen, lost, offline, runtime, cursor, computed, wire, posted>>
  BY <1>1 DEF Propose, Peers, agents, held, outside
<1> HIDE DEF q
<1>3. cursor[q] <= Len(room[q])
  <2>1. ~(cursor[q] > Len(room[q]))
    BY <1>2 DEF KInv, LostRooms
  <2> QED
    BY <1>2, <2>1, Behind
<1> QED
  BY <1>1, <1>2, <1>3, ArrivalTrue

-----------------------------------------------------------------------------

LEMMA RunThrowsTrue ==
    ASSUME IInv, KInv, RunThrows
    PROVE  KInv'
<1>1. mem # None /\ mem \in Sessions /\ Sound(mem) /\ Calm /\ Breaks(mem)
  <2>1. pc # "off" /\ Calm /\ Breaks(mem)
    BY OperationCalm DEF RunThrows
  <2> QED
    BY <2>1, MemTrue DEF IInv, Positions
<1> QED
  BY <1>1, CalmHalt

LEMMA NextTrue == IInv /\ KInv /\ [Next]_vars => KInv'
<1> SUFFICES ASSUME IInv, KInv, [Next]_vars PROVE KInv'
  OBVIOUS
<1>1. CASE Start \/ Opening
  BY <1>1, StartTrue, ResumeTrue, RestoreTrue, OpenedTrue, EndingsTrue DEF Opening
<1>2. CASE Rooting
  BY <1>2, RootExternalTrue, EnqueueTrue, AcceptProposalTrue DEF Rooting
<1>3. CASE Stepping
  BY <1>3, AdvanceFlowTrue, StepEndsTrue, PrepareTrue, RunTrue, ReceiveTrue, ScheduledIntakeTrue,
     CompleteTrue DEF Stepping
<1>4. CASE Sending
  <2>1. CASE Rejected \/ Unanswered
    <3>1. /\ pc \in {"sending", "await"} /\ Calm
          /\ GivesUp("failed") \/ GivesUp("ambiguous")
      BY <2>1, OperationCalm DEF Rejected, Unanswered
    <3> QED
      BY <3>1, GivesUpTrue
  <2> QED
    BY <1>4, <2>1, UndispatchedTrue, DispatchTrue, PostTrue, AnsweredTrue, FinishTrue DEF Sending
<1>5. CASE Working
  BY <1>5, InferTrue, NotInferredTrue, ReturnTrue, RecordTrue, RunThrowsTrue DEF Working
<1>6. CASE Receiving
  BY <1>6, IntakeReadTrue, PeekTrue, ClassifyTrue, UnclassifiedTrue, AckTrue DEF Receiving
<1>7. CASE Operating
  <2>1. ASSUME NEW r \in Roots, NEW f \in Flows \cup {<<>>}, Submit(r, f) PROVE KInv'
    <3>1. pc = "idle" /\ Calm /\ Root(r, f)
      BY <2>1, OperationCalm DEF Submit, Idle
    <3>2. r \notin External
      BY <2>1 DEF Submit, Submittable
    <3> QED
      BY <3>1, <3>2, RootTrue
  <2> QED
    BY <1>7, <2>1, ApproveExternalTrue, DelegateTrue, EnvironmentTrue DEF Operating
<1>8. CASE Ending
  BY <1>8, PauseContinueTrue, UnlinkTrue, StopTrue, EndingsTrue DEF Ending
<1>9. CASE Environment
  BY <1>9, AcceptTrue, EnvironmentTrue, ProposeTrue DEF Environment
<1>10. CASE UNCHANGED vars
  <2>1. UNCHANGED <<disk, mem, pc, at, seen, cursor, runtime, computed, posted, room, offline, lost, wire>>
    BY <1>10 DEF vars, agents, held, outside, network
  <2>2. Lively' /\ UnderWay' /\ \A p \in Peers : behind'[p] = behind[p]
    BY <2>1 DEF KInv, Lively, UnderWay, behind
  <2> QED
    BY <2>1, <2>2, OutsideStep
<1> QED
  BY <1>1, <1>2, <1>3, <1>4, <1>5, <1>6, <1>7, <1>8, <1>9, <1>10 DEF Next

LEMMA RecordsInvariant == Spec => [](IInv /\ KInv)
<1>1. Init => IInv /\ KInv
  BY InitStep, InitTrue
<1>2. (IInv /\ KInv) /\ [Next]_vars => (IInv /\ KInv)'
  BY NextStep, NextTrue
<1> QED
  BY <1>1, <1>2, PTL DEF Spec

LEMMA CompletedBacked == IInv /\ KInv => CompletedIsBacked
<1> SUFFICES ASSUME IInv, KInv, disk # None PROVE CompletedIsBacked
  BY DEF CompletedIsBacked
<1>1. CompletionsIn(disk, computed, runtime, posted) /\ CountsIn(disk)
  BY DEF KInv, RecordsTrue, Sound, SoundIn
<1> QED
  BY <1>1 DEF CompletionsIn, CountsIn, CompletedIsBacked

LEMMA AcknowledgedRecorded ==
    ASSUME IInv, KInv
    PROVE  AcknowledgedIsRecorded
<1> SUFFICES ASSUME NEW p \in Peers, NEW i \in 1 .. Len(room[p]), i <= cursor[p]
             PROVE  LET m == room[p][i] IN
                    IF m \in Offers
                      THEN disk.proposal[m[1]] \in IF m[2] = "changed" THEN {"rejected"}
                                                   ELSE {"needs-operator", "accepted", "rejected"}
                      ELSE disk.effect[m] = "received" /\ (m[2] = "proposal" => runtime[m[1]] # "none")
  BY DEF AcknowledgedIsRecorded
<1>1. cursor[p] \in Nat /\ behind[p] \in Nat /\ i <= behind[p] /\ cursor[p] # 0
  BY Behind
<1>2. disk \in Sessions /\ Sound(disk)
  BY <1>1, Facts DEF KInv, RecordsTrue, Outer, IInv, TypeOK
<1>3. IF room[p][i] \in Offers
        THEN Known(disk, room[p][i])
        ELSE /\ disk.effect[room[p][i]] = "received"
             /\ room[p][i][2] = "proposal" => runtime[room[p][i][1]] # "none"
  BY <1>1, <1>2 DEF Sound, SoundIn, ReadInto
<1>4. room[p][i] \in Offers =>
          /\ room[p][i][1] \in External
          /\ disk.proposal[room[p][i][1]] \in {"absent", "needs-operator", "accepted", "rejected"}
  BY <1>2, ProposalsAndResults DEF Sessions
<1> QED
  BY <1>3, <1>4 DEF Known

\* A job that session.json calls completed is computed once, task by task, all
\* its proposals and results went through the service and were received, and with
\* a flow it has as many tasks as the flow has roles.
THEOREM CompletedJobsAreBacked == Spec => []CompletedIsBacked
BY CompletedBacked, RecordsInvariant, PTL

\* No cursor passes a message that session.json has not taken in.
THEOREM AcknowledgementsAreRecorded == Spec => []AcknowledgedIsRecorded
<1>1. IInv /\ KInv => AcknowledgedIsRecorded
  BY AcknowledgedRecorded
<1> QED
  BY <1>1, RecordsInvariant, PTL

-----------------------------------------------------------------------------
(* The promise: delegated work goes out, is done and comes back once.      *)

\* Only a provider computes, and only the service accepts.
LEMMA OthersStutter ==
    ASSUME [Next]_vars
    PROVE  Infer \/ (\E e \in Effects : Accept(e)) \/ UNCHANGED <<posted, computed>>
<1>1. CASE Start \/ Opening \/ Rooting
  BY <1>1 DEF Start, Opening, Resume, Restore, Opened, StartupFails, Ends, Rooting, RootExternal,
     Enqueue, AcceptProposal, network
<1>2. CASE Stepping
  BY <1>2 DEF Stepping, AdvanceFlow, Refuse, Prepare, Run, Receive, ScheduledIntake, StepEnds, Complete,
     network
<1>3. CASE Sending
  BY <1>3 DEF Sending, Undispatched, Dispatch, Post, Answered, Rejected, Unanswered, Finish, network
<1>4. CASE Working
  BY <1>4 DEF Working, NotInferred, Return, Record, RunThrows, network
<1>5. CASE Receiving
  BY <1>5 DEF Receiving, Intake, Read, Peek, Classify, Unclassified, Ack, Unacked, network
<1>6. CASE Operating
  BY <1>6 DEF Operating, Submit, ApproveExternal, Delegate, RequestStop, Ask, network
<1>7. CASE Ending
  BY <1>7 DEF Ending, Pause, Continue, Unlink, Stop, Release, Die, Ends, network
<1>8. CASE Environment
  BY <1>8 DEF Environment, Reject, Propose, Expire, network
<1>9. CASE UNCHANGED vars
  BY <1>9 DEF vars, network
<1> QED
  BY <1>1, <1>2, <1>3, <1>4, <1>5, <1>6, <1>7, <1>8, <1>9 DEF Next

LEMMA ThroughFacts ==
    ASSUME NEW k
    PROVE  /\ DOMAIN Through(k) = Nodes /\ DOMAIN Through(k)' = Nodes
           /\ \A n \in Nodes :
                /\ Through(k)[n] = IF n \in Children THEN posted[<<n, k>>] ELSE 0
                /\ Through(k)'[n] = IF n \in Children THEN posted'[<<n, k>>] ELSE 0
BY DEF Through

\* A task given to the provider was proposed to its peer, if it is delegated.
LEMMA InferComputes ==
    ASSUME IInv, KInv, Infer
    PROVE  \E n \in Nodes : Promise!Compute(n)
<1>1. /\ mem # None /\ pc = "running" /\ at \in Nodes /\ mem.compute[at] = "running" /\ computed[at] = 0
      /\ posted' = posted /\ computed' = [computed EXCEPT ![at] = computed[at] + 1]
      /\ computed \in [Nodes -> Nat]
  BY Facts DEF Infer, IInv, Positions, Fits, KInv, Lively, UnderWay, Outer, network
<1>2. at \in Children => posted[<<at, "proposal">>] = 1
  <2> SUFFICES ASSUME at \in Children PROVE posted[<<at, "proposal">>] = 1
    OBVIOUS
  <2>1. Sound(mem)
    BY <1>1, MemTrue
  <2>2. mem.effect[<<at, "proposal">>] = "received"
    BY <1>1, <2>1 DEF Sound, SoundIn, TrueIn
  <2>3. <<at, "proposal">> \in Effects
    BY ProposalsAndResults
  <2> QED
    BY <2>1, <2>2, <2>3 DEF Sound, SoundIn, TrueIn
<1>3. Parent[at] # None => at \in Children
  BY <1>1 DEF Children, Roots
<1>4. Parent[at] # None => Through("proposal")[at] = 1
  BY <1>1, <1>2, <1>3, ThroughFacts
<1>5. Through("proposal")' = Through("proposal") /\ Through("result")' = Through("result")
  BY <1>1 DEF Through
<1>6. computed' = [computed EXCEPT ![at] = 1]
  BY <1>1
<1> QED
  BY <1>1, <1>4, <1>5, <1>6 DEF Promise!Compute

\* What the service accepts builds on work that is done.
LEMMA AcceptDelegates ==
    ASSUME IInv, KInv, NEW e \in Effects, Accept(e)
    PROVE  \E n \in Nodes : Promise!Propose(n) \/ Promise!Answer(n)
<1> DEFINE n == e[1]
           k == e[2]
<1>1. /\ wire[e] = "request" /\ posted' = [posted EXCEPT ![e] = posted[e] + 1]
      /\ computed' = computed /\ posted \in [Effects -> Nat]
  BY Facts DEF Accept, Outer
<1>2. /\ n \in Nodes /\ n \in Children /\ k \in {"proposal", "result"} /\ e = <<n, k>>
      /\ Parent[n] # None /\ Parent[n] \in Nodes
  BY ProposalsAndResults, PeerSessionAssumption DEF Children, Roots
<1>3. posted[e] = 0
  BY <1>1 DEF IInv, PostedOnce
<1>4. Backed(e)
  BY <1>1 DEF KInv, SendsBacked
<1> HIDE DEF n, k
<1>5. \A m \in Children, l \in {"proposal", "result"} :
          /\ <<m, l>> \in Effects
          /\ posted'[<<m, l>>] = IF m = n /\ l = k THEN 1 ELSE posted[<<m, l>>]
  <2> SUFFICES ASSUME NEW m \in Children, NEW l \in {"proposal", "result"}
               PROVE  /\ <<m, l>> \in Effects
                      /\ posted'[<<m, l>>] = IF m = n /\ l = k THEN 1 ELSE posted[<<m, l>>]
    OBVIOUS
  <2>1. <<m, l>> \in Effects
    BY ProposalsAndResults
  <2> QED
    BY <1>1, <1>2, <1>3, <2>1
<1>6. Through(k)[n] = 0 /\ Through(k)' = [Through(k) EXCEPT ![n] = 1]
  <2>1. Through(k)[n] = 0
    BY <1>2, <1>3, ThroughFacts
  <2>2. \A m \in Nodes : Through(k)'[m] = IF m = n THEN 1 ELSE Through(k)[m]
    BY <1>2, <1>5, ThroughFacts
  <2> QED
    BY <2>1, <2>2 DEF Through
<1>7. \A l \in {"proposal", "result"} \ {k} : Through(l)' = Through(l)
  <2> SUFFICES ASSUME NEW l \in {"proposal", "result"} \ {k} PROVE Through(l)' = Through(l)
    OBVIOUS
  <2>1. \A m \in Children : posted'[<<m, l>>] = posted[<<m, l>>]
    BY <1>5
  <2> QED
    BY <2>1 DEF Through
<1>8. CASE k = "proposal"
  <2>1. \A m \in Needs[n] : computed[m] = 1 /\ (m \in Children => posted[<<m, "result">>] = 1)
    BY <1>2, <1>4, <1>8 DEF Backed, n, k
  <2>2. ASSUME NEW m \in Needs[n], Parent[m] # None PROVE Through("result")[m] = 1
    <3>1. m \in Nodes /\ m \in Children
      BY <1>2, <2>2, PeerSessionAssumption DEF Children, Roots
    <3>2. Through("result")[m] = posted[<<m, "result">>]
      BY <3>1, ThroughFacts
    <3>3. posted[<<m, "result">>] = 1
      BY <2>1, <3>1
    <3> QED
      BY <3>2, <3>3
  <2>4. \A m \in Needs[n] : computed[m] = 1 /\ (Parent[m] # None => Through("result")[m] = 1)
    BY <2>1, <2>2
  <2>5. /\ Through("proposal")[n] = 0 /\ Through("proposal")' = [Through("proposal") EXCEPT ![n] = 1]
        /\ Through("result")' = Through("result")
    BY <1>6, <1>7, <1>8
  <2>3. Promise!Propose(n)
    BY <1>1, <1>2, <2>4, <2>5 DEF Promise!Propose
  <2> QED
    BY <1>2, <2>3
<1>9. CASE k = "result"
  <2>1. computed[n] = 1
    BY <1>4, <1>9 DEF Backed, n, k
  <2>2. Promise!Answer(n)
    BY <1>1, <1>2, <1>6, <1>7, <1>9, <2>1 DEF Promise!Answer
  <2> QED
    BY <1>2, <2>2
<1> QED
  BY <1>2, <1>8, <1>9

LEMMA InitDelegates == Init => Promise!Init
<1> SUFFICES ASSUME Init PROVE Promise!Init
  OBVIOUS
<1>1. \A n \in Children, k \in {"proposal", "result"} : posted[<<n, k>>] = 0
  BY ProposalsAndResults DEF Init
<1>2. \A k \in {"proposal", "result"} : Through(k) = [n \in Nodes |-> 0]
  BY <1>1 DEF Through
<1> QED
  BY <1>2 DEF Init, Promise!Init

LEMMA NextDelegates == IInv /\ KInv /\ [Next]_vars => [Promise!Next]_(Promise!vars)
<1> SUFFICES ASSUME IInv, KInv, [Next]_vars PROVE [Promise!Next]_(Promise!vars)
  OBVIOUS
<1>1. CASE Infer
  BY <1>1, InferComputes DEF Promise!Next
<1>2. CASE \E e \in Effects : Accept(e)
  BY <1>2, AcceptDelegates DEF Promise!Next
<1>3. CASE UNCHANGED <<posted, computed>>
  BY <1>3 DEF Promise!vars, Through
<1> QED
  BY <1>1, <1>2, <1>3, OthersStutter

\* Delegated work is proposed once, after what it builds on is done and handed
\* back, is computed once, after it was proposed, and its result is handed back
\* once, across every process that serves the session.
THEOREM DelegatesOnce == Spec => ImplementsDelegation
BY InitDelegates, NextDelegates, RecordsInvariant, PTL DEF Spec, ImplementsDelegation, Promise!Spec

-----------------------------------------------------------------------------
(* What a delivery may rely on: a session counts its POSTs, a completed job  *)
(* has its root, and a record that says stopped has no process.              *)

\* The effects that may have been posted.
Tried == {e \in Effects : wire[e] # "none"} \cup (IF pc = "sending" THEN {at} ELSE {})

\* A session whose jobs and tasks have their roots, and whose outside proposals came
\* from outside and were accepted with a root.
Rooted(s) ==
    /\ \A r \in Roots :
          s.job[r] # "absent" \/ (\E n \in TasksOf(r) : s.compute[n] # "absent") => s.compute[r] # "absent"
    /\ \A r \in External : /\ s.proposal[r] # "absent" => ~offline
                           /\ s.proposal[r] = "accepted" => s.compute[r] # "absent"

\* It has counted every POST, and within the limit.
Counted(s) ==
    Cardinality(Tried) <= s.spent["outbound"] /\ s.spent["outbound"] <= Limits["outbound"]

\* What holds of the sessions, in memory and on disk.
DInv ==
    /\ IsFiniteSet(Tried)
    /\ disk # None => Rooted(disk) /\ Counted(disk)
    /\ mem # None => Rooted(mem) /\ Counted(mem) /\ mem.life # "stopped" /\ disk.life # "stopped"
    /\ pc \in {"approved", "rooting", "accepting"} /\ at \in External => ~offline

\* A session that may stand where another stood: rooted, alive, and with its POSTs.
Heir(t, s) ==
    t \in Sessions /\ Rooted(t) /\ t.life # "stopped" /\ t.spent["outbound"] = s.spent["outbound"]

\* A step after which, in memory and on disk, such a session stands.
Inherited == Heir(mem', mem) /\ (disk' = disk \/ Heir(disk', mem))

LEMMA SpentFacts ==
    /\ "outbound" \in Budgets /\ Limits["outbound"] \in Nat
    /\ \A s \in Sessions : s.spent["outbound"] \in Nat
BY PeerSessionAssumption DEF Budgets, Sessions

\* No new task, and no new proposal.
LEMMA HeirOf ==
    ASSUME NEW s \in Sessions, NEW t \in Sessions, Rooted(s), t.life # "stopped",
           t.spent["outbound"] = s.spent["outbound"],
           \A n \in Nodes : t.compute[n] = "absent" <=> s.compute[n] = "absent",
           \A r \in Roots : t.job[r] # "absent" =>
                s.job[r] # "absent" \/ \E n \in TasksOf(r) : s.compute[n] # "absent",
           \A r \in External :
              /\ t.proposal[r] # "absent" => s.proposal[r] # "absent" \/ ~offline
              /\ t.proposal[r] = "accepted" => s.proposal[r] = "accepted"
    PROVE  Heir(t, s)
<1>1. /\ \A r \in Roots : r \in Nodes /\ TasksOf(r) \subseteq Nodes
      /\ \A r \in External : r \in Nodes
  BY RootFacts DEF TasksOf
<1> QED
  BY <1>1 DEF Heir, Rooted

LEMMA HeirTransitive ==
    ASSUME NEW r, NEW s, NEW t, Heir(s, r), Heir(t, s)
    PROVE  Heir(t, r)
BY DEF Heir

LEMMA MemHeir ==
    ASSUME IInv, DInv, mem # None
    PROVE  mem \in Sessions /\ Rooted(mem) /\ Heir(mem, mem) /\ Heir(Halted(mem), mem)
<1>1. mem \in Sessions /\ Rooted(mem) /\ Heir(mem, mem)
  BY MemTame DEF DInv, Heir
<1>2. Halted(mem) \in Sessions /\ Halted(mem).life = "halted" /\ Halted(mem).spent = mem.spent
      /\ Halted(mem).job = mem.job /\ Halted(mem).compute = mem.compute
      /\ Halted(mem).proposal = mem.proposal
  BY <1>1 DEF Halted, Sessions
<1> QED
  BY <1>1, <1>2, HeirOf

LEMMA HaltedHeir ==
    ASSUME NEW r, NEW s, Heir(s, r)
    PROVE  Heir(Halted(s), r)
<1>1. /\ Halted(s) \in Sessions /\ Halted(s).life = "halted" /\ Halted(s).spent = s.spent
      /\ Halted(s).job = s.job /\ Halted(s).compute = s.compute
      /\ Halted(s).proposal = s.proposal
  BY DEF Halted, Sessions, Heir
<1> QED
  BY <1>1 DEF Heir, Rooted

LEMMA LifeHeir ==
    ASSUME NEW r, NEW s, Heir(s, r), NEW l \in {"starting", "active", "paused", "stopping", "halted"}
    PROVE  Heir([s EXCEPT !.life = l], r)
<1> DEFINE t == [s EXCEPT !.life = l]
<1>1. /\ t \in Sessions /\ t.life = l /\ t.spent = s.spent /\ t.job = s.job
      /\ t.compute = s.compute /\ t.proposal = s.proposal
  BY DEF Sessions, Heir
<1> HIDE DEF t
<1>2. Heir(t, r)
  BY <1>1 DEF Heir, Rooted
<1> QED
  BY <1>2 DEF t

LEMMA SpendHeir ==
    ASSUME NEW r, NEW s, Heir(s, r), NEW b \in Budgets \ {"outbound"}
    PROVE  Heir(Spend(s, b), r)
<1> DEFINE t == Spend(s, b)
<1>3. t \in Sessions
  BY SpendFollows DEF Heir, Follows
<1>1. /\ t \in Sessions /\ t.life = s.life /\ t.job = s.job
      /\ t.compute = s.compute /\ t.proposal = s.proposal
      /\ t.spent["outbound"] = s.spent["outbound"]
  BY <1>3 DEF Sessions, Heir, Spend, Budgets
<1> HIDE DEF t
<1>2. Heir(t, r)
  BY <1>1 DEF Heir, Rooted
<1> QED
  BY <1>2 DEF t

LEMMA SettleHeir ==
    ASSUME NEW r, NEW s, Heir(s, r)
    PROVE  Heir(Settle(s), r)
<1> DEFINE t == Settle(s)
<1>1. t \in Sessions
  BY SettleFollows DEF Heir, Follows
<1>2. /\ t.life = s.life /\ t.job = s.job /\ t.spent = s.spent
      /\ t.compute = s.compute /\ t.proposal = s.proposal
  BY DEF Sessions, Heir, Settle
<1> HIDE DEF t
<1>3. Heir(t, r)
  BY <1>1, <1>2 DEF Heir, Rooted
<1> QED
  BY <1>3 DEF t

LEMMA EffectHeir ==
    ASSUME NEW r, NEW s, Heir(s, r), NEW effect \in [Effects -> Statuses]
    PROVE  Heir([s EXCEPT !.effect = effect], r)
<1> DEFINE t == [s EXCEPT !.effect = effect]
<1>1. /\ t \in Sessions /\ t.life = s.life /\ t.job = s.job /\ t.spent = s.spent
      /\ t.compute = s.compute /\ t.proposal = s.proposal
  BY DEF Sessions, Heir
<1> HIDE DEF t
<1>2. Heir(t, r)
  BY <1>1 DEF Heir, Rooted
<1> QED
  BY <1>2 DEF t

LEMMA OneEffectHeir ==
    ASSUME NEW r, NEW s, Heir(s, r), NEW e, NEW v \in Statuses
    PROVE  Heir([s EXCEPT !.effect[e] = v], r)
<1>1. [s.effect EXCEPT ![e] = v] \in [Effects -> Statuses]
  BY DEF Heir, Sessions
<1>2. [s EXCEPT !.effect[e] = v] = [s EXCEPT !.effect = [s.effect EXCEPT ![e] = v]]
  OBVIOUS
<1> QED
  BY <1>1, <1>2, EffectHeir

LEMMA DeliveryHeir ==
    ASSUME NEW r, NEW s, Heir(s, r), NEW n, NEW d \in Deliveries
    PROVE  Heir([s EXCEPT !.delivery[n] = d], r)
<1> DEFINE t == [s EXCEPT !.delivery[n] = d]
<1>1. /\ t \in Sessions /\ t.life = s.life /\ t.job = s.job /\ t.spent = s.spent
      /\ t.compute = s.compute /\ t.proposal = s.proposal
  BY DEF Sessions, Heir
<1> HIDE DEF t
<1>2. Heir(t, r)
  BY <1>1 DEF Heir, Rooted
<1> QED
  BY <1>2 DEF t

\* A task that is there stays there.
LEMMA ComputeHeir ==
    ASSUME NEW r, NEW s, Heir(s, r), NEW n, s.compute[n] # "absent", NEW c \in Computes \ {"absent"}
    PROVE  Heir([s EXCEPT !.compute[n] = c], r)
<1> DEFINE t == [s EXCEPT !.compute[n] = c]
<1>1. /\ t \in Sessions /\ t.life = s.life /\ t.job = s.job /\ t.spent = s.spent
      /\ t.compute = [s.compute EXCEPT ![n] = c] /\ t.proposal = s.proposal
      /\ s \in Sessions /\ s.compute \in [Nodes -> Computes]
  BY DEF Sessions, Heir
<1>2. \A m \in Nodes : t.compute[m] = "absent" <=> s.compute[m] = "absent"
  BY <1>1
<1> HIDE DEF t
<1>3. Heir(t, s)
  BY <1>1, <1>2, HeirOf DEF Heir
<1> QED
  BY <1>3, HeirTransitive DEF t

\* A job stops that is there, or whose task is.
LEMMA BlockHeir ==
    ASSUME NEW r, NEW s, Heir(s, r), NEW n \in Nodes,
           s.compute[n] # "absent" \/ (Job[n] \in Roots => s.job[Job[n]] # "absent")
    PROVE  Heir(Block(s, n), r)
<1> DEFINE t == Block(s, n)
<1>1. /\ t \in Sessions /\ t.life = s.life /\ t.spent = s.spent
      /\ t.compute = s.compute /\ t.proposal = s.proposal
      /\ t.job = [s.job EXCEPT ![Job[n]] = "needs-operator"]
      /\ s \in Sessions /\ s.job \in [Roots -> Jobs]
  BY DEF Sessions, Heir, Block, Jobs
<1>2. \A q \in Roots : t.job[q] # "absent" =>
          s.job[q] # "absent" \/ \E m \in TasksOf(q) : s.compute[m] # "absent"
  BY <1>1 DEF TasksOf
<1> HIDE DEF t
<1>3. Heir(t, s)
  BY <1>1, <1>2, HeirOf DEF Heir
<1> QED
  BY <1>3, HeirTransitive DEF t

LEMMA CompletedHeir ==
    ASSUME NEW r, NEW s, Heir(s, r)
    PROVE  Heir(Completed(s), r)
<1> DEFINE t == Completed(s)
<1>1. t \in Sessions
  BY CompletedFollows DEF Heir, Follows
<1>2. /\ t.life = s.life /\ t.spent = s.spent /\ t.compute = s.compute /\ t.proposal = s.proposal
      /\ \A q \in Roots : t.job[q] # "absent" => s.job[q] # "absent"
      /\ s \in Sessions
  BY DEF Sessions, Heir, Completed
<1> HIDE DEF t
<1>3. Heir(t, s)
  BY <1>1, <1>2, HeirOf DEF Heir
<1> QED
  BY <1>3, HeirTransitive DEF t

LEMMA RoundsHeir ==
    ASSUME NEW r, NEW s, Heir(s, r), NEW f \in [Scheduled -> 0 .. MaxRounds]
    PROVE  Heir([s EXCEPT !.rounds = f], r)
<1> DEFINE t == [s EXCEPT !.rounds = f]
<1>1. /\ t \in Sessions /\ t.life = s.life /\ t.job = s.job /\ t.spent = s.spent
      /\ t.compute = s.compute /\ t.proposal = s.proposal
  BY DEF Sessions, Heir
<1> HIDE DEF t
<1>2. Heir(t, r)
  BY <1>1 DEF Heir, Rooted
<1> QED
  BY <1>2 DEF t

LEMMA ProposalHeir ==
    ASSUME NEW r, NEW s, Heir(s, r), NEW q, q \in External => ~offline /\ s.compute[q] # "absent"
    PROVE  Heir([s EXCEPT !.proposal[q] = "accepted"], r)
<1> DEFINE t == [s EXCEPT !.proposal[q] = "accepted"]
<1>1. /\ t \in Sessions /\ t.life = s.life /\ t.job = s.job /\ t.spent = s.spent
      /\ t.compute = s.compute
      /\ \A p \in External :
            /\ t.proposal[p] # "absent" => s.proposal[p] # "absent" \/ ~offline
            /\ t.proposal[p] = "accepted" => s.proposal[p] = "accepted" \/ p = q
  BY DEF Sessions, Heir
<1> HIDE DEF t
<1>2. Heir(t, r)
  BY <1>1 DEF Heir, Rooted
<1> QED
  BY <1>2 DEF t

LEMMA ReceivedHeir ==
    ASSUME IInv, DInv, mem # None, NEW a
    PROVE  Heir(Received(mem, a), mem)
<1> DEFINE effect == [e \in Effects |-> IF e \in Sent(a) THEN "receiving" ELSE mem.effect[e]]
<1>1. effect \in [Effects -> Statuses]
  BY MemHeir DEF Sessions, Statuses
<1> HIDE DEF effect
<1>2. Heir([mem EXCEPT !.effect = effect], mem)
  BY <1>1, MemHeir, EffectHeir
<1> QED
  BY <1>2 DEF Received, effect

\* A job begins with its root.
LEMMA RootHeir ==
    ASSUME NEW r, NEW s, Heir(s, r), NEW q \in Roots, NEW f \in Flows \cup {<<>>}
    PROVE  Heir([s EXCEPT !.job[q] = "accepted", !.tasks[q] = <<q>>, !.flow[q] = f,
                          !.compute[q] = "planned", !.delivery[q] = "local"], r)
<1> DEFINE t == [s EXCEPT !.job[q] = "accepted", !.tasks[q] = <<q>>, !.flow[q] = f,
                          !.compute[q] = "planned", !.delivery[q] = "local"]
<1>1. q \in Nodes /\ Job[q] = q
  BY RootFacts, PeerSessionAssumption DEF Roots
<1>2. /\ t \in Sessions /\ t.life = s.life /\ t.spent = s.spent /\ t.proposal = s.proposal
      /\ t.job = [s.job EXCEPT ![q] = "accepted"] /\ t.compute = [s.compute EXCEPT ![q] = "planned"]
      /\ s.job \in [Roots -> Jobs] /\ s.compute \in [Nodes -> Computes]
  <2>1. t \in Sessions /\ s \in Sessions
    BY RootedFollows DEF Heir, Follows
  <2> QED
    BY <1>1, <2>1 DEF Sessions, Jobs, Computes
<1> HIDE DEF t
<1>3. ASSUME NEW p \in Roots, t.job[p] # "absent" \/ \E n \in TasksOf(p) : t.compute[n] # "absent"
      PROVE  t.compute[p] # "absent"
  <2>1. p \in Nodes
    BY RootFacts
  <2>2. CASE p = q
    BY <1>1, <1>2, <2>2
  <2>3. CASE p # q
    <3>1. s.job[p] # "absent" \/ \E n \in TasksOf(p) : s.compute[n] # "absent"
      <4>1. \A n \in TasksOf(p) : n \in Nodes /\ n # q
        BY <1>1, <2>3 DEF TasksOf
      <4> QED
        BY <1>2, <1>3, <2>3, <4>1
    <3>2. s.compute[p] # "absent"
      BY <3>1 DEF Heir, Rooted
    <3> QED
      BY <1>2, <2>1, <3>2
  <2> QED
    BY <2>2, <2>3
<1>5. \A p \in External : t.proposal[p] = "accepted" => t.compute[p] # "absent"
  <2>1. \A p \in External : s.proposal[p] = "accepted" => s.compute[p] # "absent"
    BY DEF Heir, Rooted
  <2> QED
    BY <1>2, <2>1, RootFacts
<1>4. Heir(t, r)
  BY <1>2, <1>3, <1>5 DEF Heir, Rooted
<1> QED
  BY <1>4 DEF t

\* What is delegated builds on a task that is there, and so on its root.
LEMMA PlannedHeir ==
    ASSUME IInv, DInv, mem # None, NEW n \in Children, mem.compute[Parent[n]] # "absent"
    PROVE  Heir(Planned(n), mem)
<1> DEFINE s == Spend(mem, "tasks")
           q == Append(s.tasks[Job[n]], n)
           t == [s EXCEPT !.job[Job[n]] = "running", !.tasks[Job[n]] = q,
                          !.compute[n] = "planned", !.delivery[n] = "planned"]
<1>1. /\ n \in Nodes /\ Parent[n] \in Nodes /\ Job[n] = Job[Parent[n]]
  BY PeerSessionAssumption DEF Children, Roots
<1>2. Heir(s, mem) /\ s.compute = mem.compute
  BY MemHeir, SpendHeir DEF Budgets, Spend
<1>3. Planned(n) = t
  BY <1>2 DEF Planned, Heir, Sessions
<1>7. Job[n] \in Roots => q \in Seq(Nodes)
  BY <1>1, <1>2 DEF Heir, Sessions
<1> HIDE DEF s, q
<1>4. /\ t \in Sessions /\ t.life = s.life /\ t.spent = s.spent /\ t.proposal = s.proposal
      /\ t.job = [s.job EXCEPT ![Job[n]] = "running"] /\ t.compute = [s.compute EXCEPT ![n] = "planned"]
      /\ s.job \in [Roots -> Jobs] /\ s.compute \in [Nodes -> Computes]
  BY <1>1, <1>2, <1>7 DEF Sessions, Heir, Jobs, Computes, Deliveries
<1> HIDE DEF t
<1>5. ASSUME NEW p \in Roots, t.job[p] # "absent" \/ \E m \in TasksOf(p) : t.compute[m] # "absent"
      PROVE  t.compute[p] # "absent"
  <2>1. p \in Nodes /\ \A m \in TasksOf(p) : m \in Nodes /\ Job[m] = p
    BY RootFacts DEF TasksOf
  <2>2. s.job[p] # "absent" \/ \E m \in TasksOf(p) : s.compute[m] # "absent"
    <3>1. CASE p = Job[n]
      <4>1. Parent[n] \in TasksOf(p) /\ s.compute[Parent[n]] # "absent"
        BY <1>1, <1>2, <3>1 DEF TasksOf
      <4> QED
        BY <4>1
    <3>2. CASE p # Job[n]
      BY <1>4, <1>5, <2>1, <3>2
    <3> QED
      BY <3>1, <3>2
  <2>3. s.compute[p] # "absent"
    BY <1>2, <2>2 DEF Heir, Rooted
  <2> QED
    BY <1>4, <2>1, <2>3
<1>8. \A p \in External : t.proposal[p] = "accepted" => t.compute[p] # "absent"
  <2>1. \A p \in External : s.proposal[p] = "accepted" => s.compute[p] # "absent"
    BY <1>2 DEF Heir, Rooted
  <2> QED
    BY <1>4, <2>1, RootFacts
<1>6. Heir(t, mem)
  BY <1>2, <1>4, <1>5, <1>8 DEF Heir, Rooted
<1> QED
  BY <1>3, <1>6

\* What is given up on resumption was there.
LEMMA RestoredHeir ==
    ASSUME IInv, KInv, DInv, mem # None
    PROVE  Heir(Restored(mem), mem)
<1> DEFINE unsent == {e[1] : e \in Undelivered(mem)}
           broken == {n \in Nodes : /\ Recovered(mem, n) # mem.compute[n]
                                    /\ Recovered(mem, n) \in {"failed", "ambiguous"}}
           effect == [e \in Effects |-> IF e \in Undelivered(mem) /\ mem.effect[e] # "failed"
                                          THEN "ambiguous" ELSE mem.effect[e]]
           compute == [n \in Nodes |-> Recovered(mem, n)]
           delivery == [n \in Nodes |-> IF n \in unsent THEN "needs-operator" ELSE mem.delivery[n]]
           jobs == [r \in Roots |-> IF TasksOf(r) \cap (unsent \cup broken) # {}
                                      THEN "needs-operator" ELSE mem.job[r]]
           t == [mem EXCEPT !.effect = effect, !.compute = compute, !.delivery = delivery, !.job = jobs]
<1>1. mem \in Sessions /\ Sound(mem) /\ Rooted(mem) /\ mem.life # "stopped"
  BY MemTrue, MemHeir DEF DInv
<1>2. \A n \in Nodes : Recovered(mem, n) = "absent" <=> mem.compute[n] = "absent"
  BY DEF Recovered
<1>3. \A n \in unsent \cup broken : mem.compute[n] # "absent"
  <2>1. \A n \in unsent : mem.compute[n] # "absent"
    BY <1>1 DEF Undelivered, Sound, SoundIn, TrueIn
  <2>2. \A n \in broken : mem.compute[n] # "absent"
    BY DEF Recovered
  <2> QED
    BY <2>1, <2>2
<1>4. /\ effect \in [Effects -> Statuses] /\ delivery \in [Nodes -> Deliveries]
      /\ jobs \in [Roots -> Jobs] /\ compute \in [Nodes -> Computes]
  <2>1. \A n \in Nodes : Recovered(mem, n) \in Computes
    BY <1>1 DEF Recovered, Sessions, Computes
  <2> QED
    BY <1>1, <2>1 DEF Sessions, Statuses, Deliveries, Jobs
<1>5. \A n \in Nodes : compute[n] = "absent" <=> mem.compute[n] = "absent"
  BY <1>2
<1>6. \A r \in Roots : jobs[r] # "absent" =>
          mem.job[r] # "absent" \/ \E n \in TasksOf(r) : mem.compute[n] # "absent"
  BY <1>3
<1>7. Restored(mem) = Completed(t)
  BY DEF Restored
<1> HIDE DEF unsent, broken, effect, compute, delivery, jobs
<1>8. /\ t \in Sessions /\ t.life = mem.life /\ t.spent = mem.spent /\ t.proposal = mem.proposal
      /\ t.job = jobs /\ t.compute = compute
  BY <1>1, <1>4 DEF Sessions
<1> HIDE DEF t
<1>9. Heir(t, mem)
  BY <1>1, <1>5, <1>6, <1>8, HeirOf
<1> QED
  BY <1>7, <1>9, CompletedHeir

\* Messages about tasks are about tasks that are there, and an offline session
\* gets no others.
LEMMA ClassifiedHeir ==
    ASSUME IInv, KInv, DInv, pc = "classify", NEW k \in cursor[at] .. seen
    PROVE  Heir(Classified(Messages(k)), mem)
<1> DEFINE M == Messages(k)
           effect == [e \in Effects |-> IF e \in M THEN "received" ELSE mem.effect[e]]
           compute == [n \in Nodes |-> IF <<n, "proposal">> \in M THEN "accepted" ELSE mem.compute[n]]
           delivery == [n \in Nodes |-> IF <<n, "result">> \in M THEN "received" ELSE mem.delivery[n]]
           replayed(r) == r \in External /\ <<r, "changed">> \in M
           jobs == [r \in Roots |-> IF replayed(r) /\ mem.proposal[r] = "accepted"
                                      THEN "needs-operator" ELSE mem.job[r]]
           proposal == [r \in External |->
                           IF replayed(r) THEN "rejected"
                           ELSE IF <<r, "offer">> \in M /\ mem.proposal[r] = "absent"
                                  THEN "needs-operator" ELSE mem.proposal[r]]
           t == [mem EXCEPT !.effect = effect, !.compute = compute, !.delivery = delivery,
                            !.job = jobs, !.proposal = proposal]
<1>1. mem # None /\ at \in Peers /\ mem \in Sessions /\ Rooted(mem) /\ mem.life # "stopped"
  BY MemHeir DEF IInv, Positions, Fits, DInv
<1>2. \A n \in Nodes : <<n, "proposal">> \in M => mem.compute[n] # "absent"
  <2>1. \A n \in Nodes : <<n, "proposal">> \in M => <<n, "proposal">> \in Effects
    BY WindowFacts
  <2>2. \A e \in Effects : e \in M => mem.compute[e[1]] # "absent"
    BY WindowFacts
  <2> QED
    BY <2>1, <2>2
<1>3. \A n \in Nodes : compute[n] = "absent" <=> mem.compute[n] = "absent"
  BY <1>2
<1>4. \A r \in External :
          /\ proposal[r] # "absent" => mem.proposal[r] # "absent" \/ ~offline
          /\ proposal[r] = "accepted" => mem.proposal[r] = "accepted"
  <2>1. ASSUME NEW m \in Offers, m \in M, offline PROVE FALSE
    <3>1. PICK i \in 1 .. Len(room[at]) : room[at][i] = m
      BY <2>1, WindowFacts
    <3>2. m \in Effects
      BY <1>1, <2>1, <3>1 DEF KInv, LostRooms
    <3> QED
      BY <2>1, <3>2, ProposalsAndResults
  <2>2. \A r \in External : <<r, "offer">> \in Offers /\ <<r, "changed">> \in Offers
    BY DEF Offers
  <2> QED
    BY <2>1, <2>2
<1>9. \A r \in Roots : jobs[r] # "absent" =>
          mem.job[r] # "absent" \/ \E n \in TasksOf(r) : mem.compute[n] # "absent"
  <2> SUFFICES ASSUME NEW r \in Roots, r \in External, mem.proposal[r] = "accepted"
               PROVE  \E n \in TasksOf(r) : mem.compute[n] # "absent"
    OBVIOUS
  <2>1. r \in TasksOf(r)
    BY PeerSessionAssumption, RootFacts DEF TasksOf
  <2>2. mem.compute[r] # "absent"
    BY <1>1 DEF Rooted
  <2> QED
    BY <2>1, <2>2
<1>5. /\ effect \in [Effects -> Statuses] /\ delivery \in [Nodes -> Deliveries]
      /\ compute \in [Nodes -> Computes]
      /\ proposal \in [External -> {"absent", "needs-operator", "accepted", "rejected"}]
      /\ jobs \in [Roots -> Jobs]
  BY <1>1 DEF Sessions, Statuses, Deliveries, Computes, Jobs
<1>6. Classified(M) = t
  BY DEF Classified
<1> HIDE DEF effect, compute, delivery, jobs, proposal
<1>7. /\ t \in Sessions /\ t.life = mem.life /\ t.spent = mem.spent /\ t.proposal = proposal
      /\ t.job = jobs /\ t.compute = compute
  BY <1>1, <1>5 DEF Sessions
<1> HIDE DEF t
<1>8. Heir(t, mem)
  BY <1>1, <1>3, <1>4, <1>7, <1>9, HeirOf
<1> QED
  BY <1>6, <1>8

LEMMA RecordedHeir ==
    ASSUME IInv, KInv, DInv, pc = "ran"
    PROVE  Heir(Recorded(at), mem)
<1>1. /\ mem # None /\ at \in Nodes /\ mem.compute[at] # "absent"
      /\ runtime[at] \in {"succeeded", "failed", "ambiguous"}
  BY DEF IInv, Positions, Fits, KInv, UnderWay
<1>2. \A c \in Computes \ {"absent"} : Heir([mem EXCEPT !.compute[at] = c], mem)
  BY <1>1, MemHeir, ComputeHeir
<1>3. \A c \in Computes \ {"absent"} : [mem EXCEPT !.compute[at] = c].compute[at] = c
  BY <1>1, MemHeir DEF Sessions
<1>4. \A c \in Computes \ {"absent"} : Heir(Block([mem EXCEPT !.compute[at] = c], at), mem)
  BY <1>1, <1>2, <1>3, BlockHeir
<1> QED
  BY <1>1, <1>2, <1>4 DEF Recorded, Computes

-----------------------------------------------------------------------------
(* The steps of a session.                                                 *)

\* What an operation may not be about offline.
Outsider(l, x) == l \in {"approved", "rooting", "accepting"} /\ x \in External

LEMMA TriedShrinks ==
    ASSUME DInv, Tried' \subseteq Tried
    PROVE  /\ IsFiniteSet(Tried') /\ Cardinality(Tried') <= Cardinality(Tried)
           /\ Cardinality(Tried') \in Nat /\ Cardinality(Tried) \in Nat
BY FS_Subset, FS_CardinalityType DEF DInv

\* No POST begins, and the sessions are what they were, or heirs of the one in memory.
LEMMA HonestStep ==
    ASSUME IInv, DInv, Tried' \subseteq Tried, offline' = offline,
           Outsider(pc', at') => ~offline,
           mem' # None => mem # None /\ Heir(mem', mem) /\ (disk' = disk \/ disk'.life # "stopped"),
           \/ disk' = disk
           \/ /\ mem # None /\ disk' \in Sessions /\ Rooted(disk')
              /\ disk'.spent["outbound"] = mem.spent["outbound"]
    PROVE  DInv'
<1>1. /\ IsFiniteSet(Tried') /\ Cardinality(Tried') <= Cardinality(Tried)
      /\ Cardinality(Tried') \in Nat /\ Cardinality(Tried) \in Nat
  BY TriedShrinks
<1>2. ASSUME NEW s \in Sessions, NEW t, Counted(s), t.spent["outbound"] = s.spent["outbound"]
      PROVE  Cardinality(Tried') <= t.spent["outbound"] /\ t.spent["outbound"] <= Limits["outbound"]
  BY <1>1, <1>2, SpentFacts DEF Counted
<1>3. (mem # None => mem \in Sessions) /\ (disk # None => disk \in Sessions)
  BY DEF IInv, TypeOK
<1>4. disk' # None => Rooted(disk)' /\ Counted(disk)'
  <2> SUFFICES ASSUME disk' # None
               PROVE  /\ Rooted(disk')
                      /\ Cardinality(Tried') <= disk'.spent["outbound"]
                      /\ disk'.spent["outbound"] <= Limits["outbound"]
    BY DEF Rooted, Counted
  <2>1. CASE disk' = disk
    BY <1>2, <1>3, <2>1 DEF DInv
  <2>2. CASE mem # None /\ Rooted(disk') /\ disk'.spent["outbound"] = mem.spent["outbound"]
    BY <1>2, <1>3, <2>2 DEF DInv
  <2> QED
    BY <2>1, <2>2
<1>5. mem' # None => Rooted(mem)' /\ Counted(mem)' /\ mem'.life # "stopped" /\ disk'.life # "stopped"
  <2> SUFFICES ASSUME mem' # None
               PROVE  /\ Rooted(mem') /\ mem'.life # "stopped" /\ disk'.life # "stopped"
                      /\ Cardinality(Tried') <= mem'.spent["outbound"]
                      /\ mem'.spent["outbound"] <= Limits["outbound"]
    BY DEF Rooted, Counted
  <2> QED
    BY <1>2, <1>3 DEF DInv, Heir
<1> QED
  BY <1>1, <1>4, <1>5 DEF DInv, Outsider

\* A step of an operation.
LEMMA HeirStep ==
    ASSUME IInv, DInv, mem # None, Inherited, UNCHANGED <<wire, offline>>,
           pc' # "sending", Outsider(pc', at') => ~offline
    PROVE  DInv'
<1>1. Tried' \subseteq Tried
  BY DEF Tried
<1>2. Heir(mem', mem)
  BY DEF Inherited
<1>3. disk' = disk \/ (disk' \in Sessions /\ Rooted(disk') /\ disk'.life # "stopped"
                        /\ disk'.spent["outbound"] = mem.spent["outbound"])
  BY DEF Inherited, Heir
<1> QED
  BY <1>1, <1>2, <1>3, HonestStep

LEMMA HeirHalt ==
    ASSUME IInv, DInv, mem # None, UNCHANGED <<wire, offline>>,
           NEW s, Heir(s, mem), Halt(s) \/ Breaks(s)
    PROVE  DInv'
<1>1. /\ mem' = Halted(s) /\ disk' \in {disk, Halted(s)} /\ pc' = "idle"
  BY DEF Halt, Breaks, Rest, Goto
<1>2. Inherited
  BY <1>1, HaltedHeir DEF Inherited
<1> QED
  BY <1>1, <1>2, HeirStep DEF Outsider

LEMMA HeirSave ==
    ASSUME IInv, DInv, mem # None, UNCHANGED <<wire, offline>>,
           NEW s, Heir(s, mem), NEW t, Heir(t, mem), NEW l, NEW x,
           l \notin {"sending", "approved", "rooting", "accepting"}, Save(s, l, x, t)
    PROVE  DInv'
<1>1. CASE Breaks(t)
  BY <1>1, HeirHalt
<1>2. CASE mem' = s /\ disk' = s /\ Goto(l, x)
  BY <1>2, HeirStep DEF Goto, Inherited, Outsider
<1> QED
  BY <1>1, <1>2 DEF Save

LEMMA HeirSaveOrThrow ==
    ASSUME IInv, DInv, mem # None, UNCHANGED <<wire, offline>>,
           NEW s, Heir(s, mem), NEW l, NEW x,
           l # "sending", Outsider(l, x) => ~offline, SaveOrThrow(s, l, x)
    PROVE  DInv'
<1>1. CASE mem' = s /\ disk' = s /\ Goto(l, x)
  BY <1>1, HeirStep DEF Goto, Inherited
<1>2. CASE mem' = s /\ disk' = disk /\ Rest
  BY <1>2, HeirStep DEF Rest, Goto, Inherited, Outsider
<1> QED
  BY <1>1, <1>2 DEF SaveOrThrow

\* The steps of an operation leave the network alone.
LEMMA OperationQuiet ==
    ASSUME UNCHANGED <<held, outside, network>>
    PROVE  UNCHANGED <<wire, offline>>
BY DEF outside, network

LEMMA StartHonest ==
    ASSUME IInv, Start
    PROVE  DInv'
<1>1. /\ pc = "off" /\ opens = 0 /\ disk = None /\ mem' = New /\ disk' = New
      /\ pc' = "opening" /\ wire' = wire /\ offline' = offline
  BY DEF Start, Goto, network, IInv, NoRecordNoWire
<1>2. Tried' = {}
  BY <1>1 DEF Tried, IInv, NoRecordNoWire
<1>3. IsFiniteSet({}) /\ Cardinality({}) = 0
  BY FS_EmptySet
<1>4. Rooted(New) /\ New.life = "starting" /\ New.spent["outbound"] = 0
  <2>1. /\ New.compute = [n \in Nodes |-> "absent"] /\ New.job = [r \in Roots |-> "absent"]
        /\ New.proposal = [r \in External |-> "absent"] /\ New.life = "starting"
        /\ New.spent["outbound"] = 0
    BY DEF New, Budgets
  <2>2. \A r \in Roots : r \in Nodes /\ TasksOf(r) \subseteq Nodes
    BY RootFacts DEF TasksOf
  <2> HIDE DEF New
  <2> QED
    BY <2>1, <2>2 DEF Rooted
<1> HIDE DEF New
<1>5. Rooted(New)'
  BY <1>1, <1>4 DEF Rooted, New
<1> QED
  BY <1>1, <1>2, <1>3, <1>4, <1>5, SpentFacts DEF DInv, Rooted, Counted

LEMMA ResumeHonest ==
    ASSUME IInv, KInv, DInv, Resume
    PROVE  DInv'
<1> DEFINE t == [disk EXCEPT !.life = "starting"]
<1>1. /\ disk # None /\ disk \in Sessions /\ Rooted(disk) /\ Counted(disk)
      /\ mem' = t /\ disk' = t /\ pc' = "restoring" /\ wire' = wire /\ offline' = offline
  BY DEF Resume, Goto, network, IInv, TypeOK, DInv
<1>2. t.life = "starting" /\ t.spent = disk.spent /\ t.job = disk.job /\ t.compute = disk.compute
      /\ t.proposal = disk.proposal
  BY <1>1 DEF Sessions
<1> HIDE DEF t
<1>3. Tried' \subseteq Tried
  BY <1>1 DEF Tried
<1>4. /\ IsFiniteSet(Tried') /\ Cardinality(Tried') <= Cardinality(Tried)
      /\ Cardinality(Tried') \in Nat /\ Cardinality(Tried) \in Nat
  BY <1>3, TriedShrinks
<1>5. Rooted(t)
  BY <1>1, <1>2 DEF Rooted
<1>6. Rooted(disk)' /\ Rooted(mem)'
  BY <1>1, <1>5 DEF Rooted
<1>7. Cardinality(Tried') <= t.spent["outbound"] /\ t.spent["outbound"] <= Limits["outbound"]
  BY <1>1, <1>2, <1>4, SpentFacts DEF Counted
<1>8. Counted(disk)' /\ Counted(mem)'
  BY <1>1, <1>7 DEF Counted
<1> QED
  BY <1>1, <1>2, <1>4, <1>6, <1>8 DEF DInv

LEMMA EndsHonest ==
    ASSUME IInv, DInv, Ends, offline' = offline,
           \/ disk' = disk
           \/ /\ mem # None /\ disk' \in Sessions /\ Rooted(disk')
              /\ disk'.spent["outbound"] = mem.spent["outbound"]
    PROVE  DInv'
<1>1. /\ mem' = None /\ pc' = "off"
      /\ wire' = [e \in Effects |-> IF offline /\ wire[e] = "request" THEN "lost" ELSE wire[e]]
  BY DEF Ends, Goto
<1>2. Tried' \subseteq Tried
  BY <1>1 DEF Tried
<1> QED
  BY <1>1, <1>2, HonestStep DEF Outsider

LEMMA OpeningHonest == IInv /\ KInv /\ DInv /\ Opening => DInv'
<1> SUFFICES ASSUME IInv, KInv, DInv, Opening PROVE DInv'
  OBVIOUS
<1>1. CASE Restore
  <2>1. /\ mem # None /\ mem' = Restored(mem) /\ disk' = mem' /\ pc' = "opening"
        /\ UNCHANGED <<wire, offline>>
    BY <1>1, OperationQuiet DEF Restore, Goto, IInv, Positions
  <2> QED
    BY <2>1, RestoredHeir, HeirStep DEF Inherited, Outsider
<1>2. CASE Opened
  <2>1. /\ mem # None /\ mem' = [mem EXCEPT !.life = "active"] /\ disk' = mem' /\ pc' = "idle"
        /\ UNCHANGED <<wire, offline>>
    BY <1>2, OperationQuiet DEF Opened, Rest, Goto, IInv, Positions
  <2>2. Heir(mem', mem)
    BY <2>1, MemHeir, LifeHeir
  <2> QED
    BY <2>1, <2>2, HeirStep DEF Inherited, Outsider
<1>3. CASE StartupFails
  <2>1. mem # None /\ Ends /\ offline' = offline /\ disk' \in {disk, Halted(mem)}
    BY <1>3 DEF StartupFails, outside, IInv, Positions
  <2>2. Halted(mem) \in Sessions /\ Rooted(Halted(mem))
        /\ Halted(mem).spent["outbound"] = mem.spent["outbound"]
    BY <2>1, MemHeir DEF Heir
  <2> QED
    BY <2>1, <2>2, EndsHonest
<1> QED
  BY <1>1, <1>2, <1>3, ResumeHonest DEF Opening

LEMMA RootHonest ==
    ASSUME IInv, DInv, UNCHANGED <<wire, offline>>, NEW r \in Roots, NEW f \in Flows \cup {<<>>}, Root(r, f),
           r \in External => ~offline
    PROVE  DInv'
<1> DEFINE s == Spend(mem, "tasks")
           t == [s EXCEPT !.job[r] = "accepted", !.tasks[r] = <<r>>, !.flow[r] = f,
                          !.compute[r] = "planned", !.delivery[r] = "local"]
<1>1. mem # None /\ SaveOrThrow(t, "rooting", r)
  BY DEF Root, Active
<1>2. Heir(s, mem)
  BY <1>1, MemHeir, SpendHeir DEF Budgets
<1> HIDE DEF s
<1>3. Heir(t, mem)
  BY <1>2, RootHeir
<1> HIDE DEF t
<1> QED
  BY <1>1, <1>3, HeirSaveOrThrow DEF Outsider

LEMMA RootingHonest == IInv /\ KInv /\ DInv /\ Rooting => DInv'
<1> SUFFICES ASSUME IInv, KInv, DInv, Rooting PROVE DInv'
  OBVIOUS
<1>1. CASE RootExternal
  <2>1. mem # None /\ pc = "approved" /\ at \in External /\ at \in Roots /\ ~offline
        /\ UNCHANGED <<wire, offline>>
    BY <1>1, RootFacts, OperationQuiet DEF RootExternal, IInv, Positions, Fits, DInv
  <2>2. CASE Root(at, <<>>)
    BY <2>1, <2>2, RootHonest
  <2>3. CASE Rest /\ UNCHANGED <<disk, mem, faults>>
    BY <2>1, <2>3, MemHeir, HeirStep DEF Rest, Goto, Inherited, Outsider
  <2> QED
    BY <1>1, <2>2, <2>3 DEF RootExternal
<1>2. CASE Enqueue
  <2> DEFINE s == [mem EXCEPT !.compute[at] = "accepted"]
             t == [mem EXCEPT !.compute[at] = "failed"]
             failed == Block(t, at)
  <2>1. /\ mem # None /\ at \in Nodes /\ mem.compute[at] # "absent" /\ UNCHANGED <<wire, offline>>
        /\ at \in External => ~offline
    BY <1>2, RootFacts, OperationQuiet DEF Enqueue, IInv, Positions, Fits, KInv, UnderWay, DInv
  <2>2. Heir(s, mem) /\ Heir(t, mem) /\ t.compute[at] # "absent"
    BY <2>1, MemHeir, ComputeHeir DEF Computes, Sessions
  <2>3. /\ pc' \in {"accepting", "idle"} /\ (pc' = "accepting" => at' = at /\ ~offline)
        /\ \/ mem' = s /\ disk' = s
           \/ mem' = failed /\ disk' \in {disk, failed}
    BY <1>2, <2>1 DEF Enqueue, Rest, Goto
  <2> HIDE DEF s, t
  <2>4. Heir(failed, mem)
    BY <2>1, <2>2, BlockHeir
  <2> HIDE DEF failed
  <2> QED
    BY <2>1, <2>2, <2>3, <2>4, HeirStep DEF Inherited, Outsider
<1>3. CASE AcceptProposal
  <2>1. mem # None /\ (at \in External => ~offline) /\ UNCHANGED <<wire, offline>>
        /\ mem.compute[at] # "absent"
    BY <1>3, OperationQuiet DEF AcceptProposal, IInv, Positions, DInv, KInv, UnderWay
  <2>2. Heir([mem EXCEPT !.proposal[at] = "accepted"], mem)
    BY <2>1, MemHeir, ProposalHeir
  <2> QED
    BY <1>3, <2>1, <2>2, HeirSaveOrThrow DEF AcceptProposal, Outsider
<1> QED
  BY <1>1, <1>2, <1>3 DEF Rooting

LEMMA AdvanceFlowHonest ==
    ASSUME IInv, KInv, DInv, NEW n \in Nodes, AdvanceFlow(n)
    PROVE  DInv'
<1>1. mem # None /\ UNCHANGED <<wire, offline>> /\ Len(mem.tasks[Job[n]]) # 0
  BY OperationQuiet DEF AdvanceFlow, Ready, Active, FlowDue
<1>2. ASSUME NEW c \in Children, Advances(n, c) PROVE DInv'
  <2> DEFINE blocked == Block(Planned(c), n)
  <2>1. Heir(Planned(c), mem)
    BY <1>1, <1>2, PlannedHeir DEF Advances, Done
  <2>2. Planned(c).compute[n] # "absent"
    BY <1>1, <1>2, MemHeir DEF Advances, Done, Planned, Spend, Sessions
  <2>3. Heir(blocked, mem)
    BY <2>1, <2>2, BlockHeir
  <2>4. \/ Save(Planned(c), "stepping", None, blocked)
        \/ mem' = blocked /\ disk' = blocked /\ Goto("stepping", None)
    BY <1>2 DEF Advances
  <2> HIDE DEF blocked
  <2>5. CASE mem' = blocked /\ disk' = blocked /\ Goto("stepping", None)
    BY <1>1, <2>3, <2>5, HeirStep DEF Goto, Inherited, Outsider
  <2> QED
    BY <1>1, <2>1, <2>3, <2>4, <2>5, HeirSave
<1>3. CASE Save(Block(mem, n), "stepping", None, Block(mem, n))
  <2>1. ASSUME Job[n] \in Roots, mem.job[Job[n]] = "absent" PROVE FALSE
    <3>1. mem.tasks[Job[n]] = <<>>
      BY <1>1, <2>1, MemTrue DEF Sound, SoundIn, ListedIn
    <3> QED
      BY <1>1, <3>1
  <2>2. Heir(Block(mem, n), mem)
    BY <1>1, <2>1, MemHeir, BlockHeir
  <2> QED
    BY <1>1, <1>3, <2>2, HeirSave
<1> QED
  BY <1>2, <1>3, Advancing

LEMMA SteppingHonest == IInv /\ KInv /\ DInv /\ Stepping => DInv'
<1> SUFFICES ASSUME IInv, KInv, DInv, Stepping PROVE DInv'
  OBVIOUS
<1>1. ASSUME NEW n \in Nodes, Refuse(n) PROVE DInv'
  <2>1. mem # None /\ UNCHANGED <<wire, offline>> /\ Halt(mem)
    BY <1>1, OperationQuiet DEF Refuse, Chosen, Ready, Active
  <2> QED
    BY <2>1, MemHeir, HeirHalt
<1>2. ASSUME NEW n \in Nodes, Prepare(n) PROVE DInv'
  <2> DEFINE blocked == Block(mem, n)
             lostRoom == [blocked EXCEPT !.delivery[n] = "needs-operator"]
             prepared == [mem EXCEPT !.effect[Owed(n)] = "send-prepared"]
  <2>1. mem # None /\ UNCHANGED <<wire, offline>> /\ mem.compute[n] # "absent"
    BY <1>2, OperationQuiet DEF Prepare, Chosen, Ready, Active, Due
  <2>2. Heir(blocked, mem)
    BY <2>1, MemHeir, BlockHeir
  <2>3. Heir(prepared, mem)
    BY <2>1, MemHeir, OneEffectHeir DEF Statuses
  <2>4. \/ Save(lostRoom, "completing", None, lostRoom)
        \/ Save(prepared, "prepared", Owed(n), prepared)
    BY <1>2 DEF Prepare
  <2> HIDE DEF blocked, prepared
  <2>5. Heir(lostRoom, mem)
    BY <2>2, DeliveryHeir DEF Deliveries
  <2> HIDE DEF lostRoom
  <2> QED
    BY <2>1, <2>3, <2>4, <2>5, HeirSave
<1>3. ASSUME NEW n \in Nodes, Run(n) PROVE DInv'
  <2> DEFINE s == [mem EXCEPT !.compute[n] = "running"]
  <2>1. /\ mem # None /\ UNCHANGED <<wire, offline>> /\ mem.compute[n] = "accepted"
        /\ Save(s, "running", n, s)
    BY <1>3, OperationQuiet DEF Run, Chosen, Ready, Active
  <2>2. Heir(s, mem)
    BY <2>1, MemHeir, ComputeHeir DEF Computes
  <2> HIDE DEF s
  <2> QED
    BY <2>1, <2>2, HeirSave
<1>4. ASSUME NEW a \in Peers, Receive(a) PROVE DInv'
  <2>1. mem # None /\ UNCHANGED <<wire, offline>> /\ Save(Received(mem, a), "receiving", a, Received(mem, a))
    BY <1>4, OperationQuiet DEF Receive, Ready, Active
  <2> QED
    BY <2>1, ReceivedHeir, HeirSave
<1>5. ASSUME NEW a \in Scheduled, ScheduledIntake(a) PROVE DInv'
  <2> DEFINE f == [mem.rounds EXCEPT ![a] = @ + 1]
             s == [mem EXCEPT !.rounds = f]
  <2>1. /\ mem # None /\ UNCHANGED <<wire, offline>> /\ mem.rounds[a] < MaxRounds
        /\ Save(s, "intake", a, s)
    BY <1>5, OperationQuiet DEF ScheduledIntake, Ready, Active
  <2>2. f \in [Scheduled -> 0 .. MaxRounds]
    BY <2>1, MemHeir, PeerSessionAssumption DEF Sessions
  <2> HIDE DEF f
  <2>3. Heir(s, mem)
    BY <2>1, <2>2, MemHeir, RoundsHeir
  <2> HIDE DEF s
  <2> QED
    BY <2>1, <2>3, HeirSave
<1>6. CASE StepEnds
  <2>1. mem # None /\ UNCHANGED <<wire, offline>>
    BY <1>6, OperationQuiet DEF StepEnds, IInv, Positions
  <2>2. CASE Rest /\ UNCHANGED <<disk, mem, faults>>
    BY <2>1, <2>2, MemHeir, HeirStep DEF Rest, Goto, Inherited, Outsider
  <2>3. CASE Halt(mem)
    BY <2>1, <2>3, MemHeir, HeirHalt
  <2> QED
    BY <1>6, <2>2, <2>3 DEF StepEnds
<1>7. CASE Complete
  <2>1. mem # None /\ UNCHANGED <<wire, offline>> /\ Save(Completed(mem), "idle", None, Completed(mem))
    BY <1>7, OperationQuiet DEF Complete, IInv, Positions
  <2> QED
    BY <2>1, MemHeir, CompletedHeir, HeirSave
<1> QED
  BY <1>1, <1>2, <1>3, <1>4, <1>5, <1>6, <1>7, AdvanceFlowHonest DEF Stepping

\* The POST is counted before it begins.
LEMMA DispatchHonest ==
    ASSUME IInv, DInv, Dispatch
    PROVE  DInv'
<1> DEFINE b == Spend(mem, "outbound")
           s == [b EXCEPT !.effect[at] = "sending"]
<1>1. /\ mem # None /\ mem \in Sessions /\ Rooted(mem) /\ Counted(mem) /\ mem.life = "active"
      /\ disk.life # "stopped" /\ pc = "prepared" /\ at \in Effects
      /\ mem.spent["outbound"] < Limits["outbound"] /\ UNCHANGED <<wire, offline>>
      /\ Save(s, "sending", at, s)
  BY MemHeir, OperationQuiet DEF Dispatch, Active, Funded, IInv, Positions, Fits, DInv
<1>2. /\ s.life = "active" /\ s.job = mem.job /\ s.compute = mem.compute
      /\ s.proposal = mem.proposal /\ s.spent["outbound"] = mem.spent["outbound"] + 1
  BY <1>1 DEF Spend, Sessions, Budgets
<1>3. s.life = Halted(s).life \/ Halted(s).life = "halted"
  BY DEF Halted
<1>4. /\ Halted(s).job = s.job /\ Halted(s).compute = s.compute /\ Halted(s).life = "halted"
      /\ Halted(s).proposal = s.proposal /\ Halted(s).spent = s.spent
  <2>1. DOMAIN s = {"life", "compute", "delivery", "job", "tasks", "flow", "effect", "proposal", "spent", "rounds"}
    BY <1>1 DEF Spend, Sessions
  <2> HIDE DEF s
  <2> QED
    BY <2>1 DEF Halted
<1> HIDE DEF s
<1>5. ASSUME NEW t \in {s, Halted(s)}
      PROVE  /\ Rooted(t) /\ t.life # "stopped" /\ t.spent["outbound"] = mem.spent["outbound"] + 1
  BY <1>1, <1>2, <1>4 DEF Rooted
<1>6. /\ mem' \in {s, Halted(s)} /\ disk' \in {disk, s, Halted(s)}
      /\ \/ pc' = "sending" /\ at' = at /\ disk' = s
         \/ pc' = "idle"
  BY <1>1 DEF Save, Breaks, Goto, Rest
<1>7. Tried' \subseteq Tried \cup {at} /\ (pc' = "idle" => Tried' \subseteq Tried)
  BY <1>1, <1>6 DEF Tried
<1>8. /\ IsFiniteSet(Tried') /\ Cardinality(Tried') <= Cardinality(Tried) + 1
      /\ (pc' = "idle" => Cardinality(Tried') <= Cardinality(Tried))
      /\ Cardinality(Tried') \in Nat /\ Cardinality(Tried) \in Nat
  <2>1. IsFiniteSet(Tried) /\ Cardinality(Tried) \in Nat
    BY FS_CardinalityType DEF DInv
  <2>2. /\ IsFiniteSet(Tried \cup {at}) /\ Cardinality(Tried \cup {at}) <= Cardinality(Tried) + 1
        /\ Cardinality(Tried \cup {at}) \in Nat
    BY <2>1, FS_AddElement, FS_CardinalityType
  <2>3. IsFiniteSet(Tried') /\ Cardinality(Tried') <= Cardinality(Tried \cup {at})
        /\ Cardinality(Tried') \in Nat
    BY <1>7, <2>2, FS_Subset, FS_CardinalityType
  <2>4. pc' = "idle" => Cardinality(Tried') <= Cardinality(Tried)
    BY <1>7, <2>1, FS_Subset
  <2> QED
    BY <2>1, <2>2, <2>3, <2>4
<1>9. mem.spent["outbound"] \in Nat /\ Limits["outbound"] \in Nat
      /\ Cardinality(Tried) <= mem.spent["outbound"]
  BY <1>1, SpentFacts DEF Counted
<1>10. ASSUME NEW t \in {s, Halted(s)}
       PROVE  Cardinality(Tried') <= t.spent["outbound"] /\ t.spent["outbound"] <= Limits["outbound"]
  BY <1>1, <1>5, <1>8, <1>9
<1>11. Rooted(mem)' /\ Counted(mem)' /\ mem'.life # "stopped" /\ disk'.life # "stopped"
  BY <1>1, <1>5, <1>6, <1>10 DEF Rooted, Counted
<1>12. disk' # None => Rooted(disk)' /\ Counted(disk)'
  <2>1. CASE disk' \in {s, Halted(s)}
    BY <1>1, <1>5, <1>10, <2>1 DEF Rooted, Counted
  <2>2. CASE disk' = disk /\ pc' = "idle"
    <3> SUFFICES ASSUME disk # None PROVE Rooted(disk)' /\ Counted(disk)'
      BY <2>2
    <3>1. disk \in Sessions /\ Rooted(disk) /\ Counted(disk)
      BY DEF IInv, TypeOK, DInv
    <3> QED
      BY <1>1, <1>8, <2>2, <3>1, SpentFacts DEF Rooted, Counted
  <2> QED
    BY <1>6, <2>1, <2>2
<1> QED
  BY <1>6, <1>8, <1>11, <1>12 DEF DInv

LEMMA SendingHonest == IInv /\ KInv /\ DInv /\ Sending => DInv'
<1> SUFFICES ASSUME IInv, KInv, DInv, Sending PROVE DInv'
  OBVIOUS
<1>1. CASE Undispatched
  <2> DEFINE t == [mem EXCEPT !.effect[at] = "failed"]
  <2>1. /\ mem # None /\ UNCHANGED <<wire, offline>> /\ disk' = mem' /\ pc' = "idle"
        /\ mem' \in {Halted(mem), Halted(t)}
    BY <1>1, OperationQuiet DEF Undispatched, Rest, Goto, IInv, Positions
  <2>2. Heir(t, mem)
    BY <2>1, MemHeir, OneEffectHeir DEF Statuses
  <2> HIDE DEF t
  <2>3. Heir(Halted(t), mem) /\ Heir(Halted(mem), mem)
    BY <2>1, <2>2, MemHeir, HaltedHeir
  <2> QED
    BY <2>1, <2>3, HeirStep DEF Inherited, Outsider
<1>2. ASSUME NEW v \in Statuses, mem # None PROVE Heir([mem EXCEPT !.effect[at] = v], mem)
  BY <1>2, MemHeir, OneEffectHeir
<1>3. CASE Post
  <2>1. mem # None /\ offline' = offline /\ pc = "sending" /\ at \in Effects
    BY <1>3 DEF Post, outside, IInv, Positions, Fits
  <2>2. CASE /\ wire' = [wire EXCEPT ![at] = "request"] /\ Goto("await", at)
             /\ UNCHANGED <<disk, mem, faults>>
    <3>1. Tried' \subseteq Tried
      BY <2>1, <2>2 DEF Tried, Goto
    <3> QED
      BY <2>1, <2>2, <3>1, MemHeir, HonestStep DEF Goto, Outsider
  <2>3. CASE GivesUp("ambiguous") /\ UNCHANGED wire
    BY <1>2, <2>1, <2>3, HeirHalt DEF GivesUp, Statuses
  <2> QED
    BY <1>3, <2>2, <2>3 DEF Post
<1>4. CASE Answered
  <2>1. mem # None /\ UNCHANGED <<wire, offline>>
    BY <1>4, OperationQuiet DEF Answered, IInv, Positions
  <2> QED
    BY <1>2, <1>4, <2>1, HeirSave DEF Answered, Statuses
<1>5. CASE Rejected \/ Unanswered
  <2>1. /\ mem # None /\ UNCHANGED <<wire, offline>>
        /\ GivesUp("failed") \/ GivesUp("ambiguous")
    BY <1>5, OperationQuiet DEF Rejected, Unanswered, IInv, Positions
  <2> QED
    BY <1>2, <2>1, HeirHalt DEF GivesUp, Statuses
<1>6. CASE Finish
  <2> DEFINE t == [mem EXCEPT !.delivery[at[1]] = IF at[2] = "result" THEN "sent" ELSE @]
  <2>1. /\ mem # None /\ UNCHANGED <<wire, offline>> /\ at[1] \in Nodes
        /\ Save(t, "completing", None, t) \/ Breaks(mem)
    BY <1>6, OperationQuiet, ProposalsAndResults DEF Finish, IInv, Positions, Fits
  <2>2. (IF at[2] = "result" THEN "sent" ELSE mem.delivery[at[1]]) \in Deliveries
    BY <2>1, MemHeir DEF Sessions, Deliveries
  <2>3. Heir(t, mem)
    BY <2>1, <2>2, MemHeir, DeliveryHeir
  <2> HIDE DEF t
  <2> QED
    BY <2>1, <2>3, MemHeir, HeirSave, HeirHalt
<1> QED
  BY <1>1, <1>3, <1>4, <1>5, <1>6, DispatchHonest DEF Sending

LEMMA WorkingHonest == IInv /\ KInv /\ DInv /\ Working => DInv'
<1> SUFFICES ASSUME IInv, KInv, DInv, Working PROVE DInv'
  OBVIOUS
<1>1. mem # None /\ UNCHANGED <<wire, offline>>
  BY DEF Working, Infer, NotInferred, Return, Record, RunThrows, IInv, Positions, outside, network
<1>2. Heir(mem, mem) /\ Heir(Spend(mem, "inference"), mem)
  BY <1>1, MemHeir, SpendHeir DEF Budgets
<1>3. CASE Infer
  BY <1>1, <1>2, <1>3, HeirStep DEF Infer, Goto, Inherited, Outsider
<1>4. CASE NotInferred
  BY <1>1, <1>2, <1>4, HeirStep DEF NotInferred, Goto, Inherited, Outsider
<1>5. CASE \E o \in {"succeeded", "failed", "ambiguous"} : Return(o)
  BY <1>1, <1>2, <1>5, HeirStep DEF Return, Goto, Inherited, Outsider
<1>6. CASE Record
  BY <1>1, <1>6, RecordedHeir, HeirSave DEF Record
<1>7. CASE RunThrows
  BY <1>1, <1>2, <1>7, HeirHalt DEF RunThrows
<1> QED
  BY <1>3, <1>4, <1>5, <1>6, <1>7 DEF Working

LEMMA ReceivingHonest == IInv /\ KInv /\ DInv /\ Receiving => DInv'
<1> SUFFICES ASSUME IInv, KInv, DInv, Receiving PROVE DInv'
  OBVIOUS
<1>1. mem # None /\ UNCHANGED <<wire, offline>>
  BY DEF Receiving, Intake, Read, Peek, Classify, Unclassified, Ack, Unacked, IInv, Positions, outside,
     network
<1>2. Heir(mem, mem) /\ Heir(Settle(mem), mem) /\ Heir(Spend(mem, "gets"), mem)
      /\ Heir(Settle(Spend(mem, "gets")), mem) /\ Heir(Received(mem, at), mem)
  BY <1>1, MemHeir, SettleHeir, SpendHeir, ReceivedHeir DEF Budgets
<1>3. CASE Intake
  BY <1>1, <1>2, <1>3, HeirSave, HeirHalt DEF Intake
<1>4. CASE Read
  BY <1>1, <1>2, <1>4, HeirSave, HeirHalt DEF Read
<1>5. CASE Peek
  <2>1. CASE Breaks(Settle(mem))
    BY <1>1, <1>2, <2>1, HeirHalt
  <2>2. CASE Goto("classify", at) /\ UNCHANGED <<disk, mem, faults>>
    BY <1>1, <1>2, <2>2, HeirStep DEF Goto, Inherited, Outsider
  <2> QED
    BY <1>5, <2>1, <2>2 DEF Peek
<1>6. CASE Classify
  <2>1. pc = "classify" /\ mem' = Classified(Messages(seen)) /\ disk' = mem' /\ pc' = "ack"
    BY <1>6 DEF Classify, Goto
  <2>2. seen \in cursor[at] .. seen
    <3>1. seen \in Nat /\ cursor[at] \in Nat /\ cursor[at] <= seen
      BY <2>1, Facts DEF Outer, IInv, Positions, Fits, KInv, UnderWay
    <3> QED
      BY <3>1
  <2>3. Heir(mem', mem)
    BY <2>1, <2>2, ClassifiedHeir
  <2> QED
    BY <1>1, <2>1, <2>3, HeirStep DEF Inherited, Outsider
<1>7. CASE Unclassified
  <2>1. PICK k \in cursor[at] .. seen :
            /\ mem' = Halted(Settle(Classified(Messages(k))))
            /\ disk' \in {disk, Halted(Settle(Classified(Messages(k))))}
    BY <1>7 DEF Unclassified
  <2>2. pc = "classify" /\ pc' = "idle"
    BY <1>7 DEF Unclassified, Rest, Goto
  <2>3. Heir(Classified(Messages(k)), mem)
    BY <2>2, ClassifiedHeir
  <2>4. Heir(mem', mem)
    BY <2>1, <2>3, SettleHeir, HaltedHeir
  <2> QED
    BY <1>1, <2>1, <2>2, <2>4, HeirStep DEF Inherited, Outsider
<1>8. CASE Ack
  BY <1>1, <1>2, <1>8, HeirStep DEF Ack, Goto, Inherited, Outsider
<1>9. CASE Unacked
  BY <1>1, <1>2, <1>9, HeirHalt DEF Unacked
<1> QED
  BY <1>3, <1>4, <1>5, <1>6, <1>7, <1>8, <1>9 DEF Receiving

\* Nothing happens to the session or its operation.
LEMMA StillHonest ==
    ASSUME IInv, DInv, UNCHANGED <<disk, mem, pc, at, offline>>, Tried' \subseteq Tried
    PROVE  DInv'
<1>1. Outsider(pc', at') => ~offline
  BY DEF DInv, Outsider
<1>2. mem' # None => mem # None /\ Heir(mem', mem)
  BY MemHeir
<1> QED
  BY <1>1, <1>2, HonestStep

LEMMA OperatingHonest == IInv /\ KInv /\ DInv /\ Operating => DInv'
<1> SUFFICES ASSUME IInv, KInv, DInv, Operating PROVE DInv'
  OBVIOUS
<1>1. ASSUME NEW r \in Roots, NEW f \in Flows \cup {<<>>}, Submit(r, f) PROVE DInv'
  <2>1. UNCHANGED <<wire, offline>> /\ Root(r, f) /\ r \notin External
    BY <1>1, OperationQuiet DEF Submit, Submittable
  <2> QED
    BY <2>1, RootHonest
<1>2. ASSUME NEW r \in External, ApproveExternal(r) PROVE DInv'
  <2>1. /\ mem # None /\ mem.proposal[r] = "needs-operator" /\ UNCHANGED <<disk, mem>>
        /\ pc' = "approved" /\ UNCHANGED <<wire, offline>>
    BY <1>2, OperationQuiet DEF ApproveExternal, Idle, Goto
  <2>2. ~offline
    BY <2>1, MemHeir DEF Rooted
  <2> QED
    BY <2>1, <2>2, MemHeir, HeirStep DEF Inherited
<1>3. ASSUME NEW n \in Nodes, Delegate(n) PROVE DInv'
  <2>1. /\ mem # None /\ n \in Children /\ mem.compute[Parent[n]] # "absent"
        /\ UNCHANGED <<wire, offline>> /\ SaveOrThrow(Planned(n), "idle", None)
    BY <1>3, OperationQuiet, PeerSessionAssumption DEF Delegate, Idle
  <2> QED
    BY <2>1, PlannedHeir, HeirSaveOrThrow DEF Outsider
<1>4. CASE RequestStop \/ \E x \in {"pause", "continue"} : Ask(x)
  <2>1. UNCHANGED <<disk, mem, pc, at, offline, wire>>
    BY <1>4 DEF RequestStop, Ask, outside, network
  <2>2. Tried' \subseteq Tried
    BY <2>1 DEF Tried
  <2> QED
    BY <2>1, <2>2, StillHonest
<1> QED
  BY <1>1, <1>2, <1>3, <1>4 DEF Operating

LEMMA MarkedHonest ==
    ASSUME IInv, DInv, mem # None, UNCHANGED <<wire, offline>>,
           NEW v \in {"active", "paused"}, NEW l \in {"paused", "continued"},
           Marked([mem EXCEPT !.life = v], l)
    PROVE  DInv'
<1>1. Heir([mem EXCEPT !.life = v], mem)
  BY MemHeir, LifeHeir
<1>2. /\ mem' = [mem EXCEPT !.life = v] /\ disk' \in {disk, [mem EXCEPT !.life = v]}
      /\ pc' \in {"paused", "continued", "idle"}
  BY DEF Marked, Rest, Goto
<1> QED
  BY <1>1, <1>2, HeirStep DEF Inherited, Outsider

LEMMA EndingHonest == IInv /\ KInv /\ DInv /\ Ending => DInv'
<1> SUFFICES ASSUME IInv, KInv, DInv, Ending PROVE DInv'
  OBVIOUS
<1>1. CASE Pause \/ Continue
  <2>1. mem # None /\ UNCHANGED <<wire, offline>>
    BY <1>1 DEF Pause, Continue, Idle, outside, network
  <2> QED
    BY <1>1, <2>1, MarkedHonest DEF Pause, Continue
<1>2. CASE Unlink
  <2>1. mem # None /\ UNCHANGED <<disk, mem, wire, offline>> /\ pc' = "idle"
    BY <1>2 DEF Unlink, Rest, Goto, IInv, Positions, network
  <2> QED
    BY <2>1, MemHeir, HeirStep DEF Inherited, Outsider
<1>3. CASE Stop
  <2>1. /\ mem # None /\ UNCHANGED <<wire, offline>> /\ pc' = "releasing"
        /\ mem' = [Settle(mem) EXCEPT !.life = Leave(mem)] /\ disk' \in {disk, mem'}
    BY <1>3, OperationQuiet DEF Stop, Idle, Goto, outside, network
  <2>2. Leave(mem) \in {"halted", "stopping"}
    BY DEF Leave
  <2>3. Heir(mem', mem)
    BY <2>1, <2>2, MemHeir, SettleHeir, LifeHeir
  <2> QED
    BY <2>1, <2>3, HeirStep DEF Inherited, Outsider
<1>4. CASE Release
  <2> DEFINE t == [mem EXCEPT !.life = IF @ = "halted" THEN @ ELSE "stopped"]
  <2>1. mem # None /\ Ends /\ offline' = offline /\ disk' \in {disk, t}
    BY <1>4 DEF Release, outside, IInv, Positions
  <2>2. /\ t \in Sessions /\ t.spent = mem.spent /\ t.job = mem.job /\ t.compute = mem.compute
        /\ t.proposal = mem.proposal
    BY <2>1, MemHeir DEF Sessions
  <2> HIDE DEF t
  <2>3. Rooted(t)
    BY <2>1, <2>2, MemHeir DEF Rooted
  <2> QED
    BY <2>1, <2>2, <2>3, EndsHonest
<1>5. CASE Die
  BY <1>5, EndsHonest DEF Die, outside
<1> QED
  BY <1>1, <1>2, <1>3, <1>4, <1>5 DEF Ending

LEMMA EnvironmentHonest == IInv /\ DInv /\ Environment => DInv'
<1> SUFFICES ASSUME IInv, DInv, Environment PROVE DInv'
  OBVIOUS
<1>1. UNCHANGED <<disk, mem, pc, at, offline>>
  BY DEF Environment, Accept, Reject, Propose, Expire, outside
<1>2. \A e \in Effects : wire'[e] # "none" => wire[e] # "none"
  <2>1. wire \in [Effects -> {"none", "request", "posted", "refused", "lost"}]
    BY Facts DEF Outer
  <2>2. \/ wire' = wire
        \/ \E e \in Effects : wire[e] = "request" /\ \E v \in {"posted", "refused"} :
              wire' = [wire EXCEPT ![e] = v]
    BY DEF Environment, Accept, Reject, Propose, Expire, network
  <2> QED
    BY <2>1, <2>2
<1>3. Tried' \subseteq Tried
  BY <1>1, <1>2 DEF Tried
<1> QED
  BY <1>1, <1>3, StillHonest

LEMMA InitHonest == Init => DInv
<1> SUFFICES ASSUME Init PROVE DInv
  OBVIOUS
<1>1. Tried = {} /\ disk = None /\ mem = None /\ pc = "off"
  BY DEF Init, Tried, Goto
<1>2. IsFiniteSet({})
  BY FS_EmptySet
<1> QED
  BY <1>1, <1>2 DEF DInv

LEMMA NextHonest == IInv /\ KInv /\ DInv /\ [Next]_vars => DInv'
<1> SUFFICES ASSUME IInv, KInv, DInv, [Next]_vars PROVE DInv'
  OBVIOUS
<1>1. CASE UNCHANGED vars
  <2>1. UNCHANGED <<disk, mem, pc, at, offline, wire>>
    BY <1>1 DEF vars, outside, network
  <2>2. Tried' \subseteq Tried
    BY <2>1 DEF Tried
  <2> QED
    BY <2>1, <2>2, StillHonest
<1> QED
  BY <1>1, StartHonest, OpeningHonest, RootingHonest, SteppingHonest, SendingHonest, WorkingHonest,
     ReceivingHonest, OperatingHonest, EndingHonest, EnvironmentHonest DEF Next

-----------------------------------------------------------------------------
(* Deliveries.                                                             *)

\* The responses that may be posted, and the records that count a POST.
Posting == {r \in External : answer[r] # "none"} \cup (IF At("sending") THEN {job} ELSE {})
Counting == {r \in External : delivered[r] # None /\ delivered[r].posts = 1}

Unspent == {"none", "requested", "approved"}
Unposted == {"response-prepared", "response-authorized"}

\* What the operation of a delivery knows of its record, its approval and its POST.
OperationFits ==
    /\ ~At("idle") => job \in External /\ delivered[job] # None
    /\ step \in {"proposing", "granted", "consuming", "reserving"} => delivered[job].status \in Unposted
    /\ step \in {"granted", "consuming", "reserving"} => copy = delivered[job]
    /\ step \in {"reserving", "sending", "await", "confirming"} => approval[job] = "executing"
    /\ step \in {"sending", "await", "confirming"} =>
          delivered[job] = copy /\ copy = [status |-> "sending", posts |-> 1]
    /\ At("sending") => answer[job] = "none"
    /\ At("await") => answer[job] # "none"
    /\ At("confirming") => answer[job] = "posted"
    /\ At("recording") =>
          /\ copy \in Records /\ copy.status \in {"failed", "delivery-ambiguous", "sent"}
          /\ copy.status = "sent" => answer[job] = "posted"
          /\ copy.status = "failed" => answer[job] \in {"none", "refused"}
          /\ answer[job] # "none" => copy.posts = 1

\* A record is true of its POST, and of the session it answers for.
RecordBacked(r) ==
    /\ delivered[r] # None =>
          /\ Material(r)
          /\ delivered[r].status \in Unposted => delivered[r].posts = 0
          /\ delivered[r].status = "sent" => answer[r] = "posted"
          /\ delivered[r].status = "failed" => answer[r] \in {"none", "refused"}
    /\ answer[r] # "none" =>
          delivered[r] # None /\ delivered[r].posts = 1 /\ approval[r] \notin Unspent
    /\ arrived[r] = IF answer[r] = "posted" THEN 1 ELSE 0

RecordsBacked == \A r \in External : RecordBacked(r)

\* What may be posted is within what the session has left.
WithinLimits ==
    /\ IsFiniteSet(Counting)
    /\ Posting # {} => disk.spent["outbound"] + Cardinality(Posting) <= Limits["outbound"]

\* Beside DInv, what holds of the deliveries.
EInv == DeliveryTypeOK /\ OperationFits /\ RecordsBacked /\ WithinLimits

\* Every POST is counted, by a record of the stopped session.
LEMMA PostingCounts ==
    ASSUME IInv, DeliveryTypeOK, OperationFits, RecordsBacked
    PROVE  /\ Posting \subseteq Counting
           /\ Posting # {} => disk # None /\ disk \in Sessions
<1>1. \A r \in Posting : r \in Counting /\ Material(r)
  BY DEF Posting, Counting, RecordsBacked, RecordBacked, OperationFits, At
<1>2. disk # None => disk \in Sessions
  BY DEF IInv, TypeOK
<1> QED
  BY <1>1, <1>2 DEF Material

\* Nothing that could change it goes on where a session has a record to answer for.
LEMMA Frozen ==
    ASSUME IInv, KInv, DInv, [Next]_vars, NEW r \in External, Material(r)
    PROVE  disk' = disk
<1>1. disk # None /\ disk.life = "stopped" /\ disk.proposal[r] # "absent"
  BY DEF Material
<1>2. mem = None /\ ~offline
  BY <1>1 DEF DInv, Rooted
<1>3. pc = "off" /\ opens # 0
  BY <1>1, <1>2 DEF KInv, Lively, IInv, NoRecordNoWire
<1>4. CASE Start \/ Opening \/ Rooting
  BY <1>2, <1>3, <1>4 DEF Start, Opening, Resume, Restore, Opened, StartupFails, Rooting, RootExternal,
     Enqueue, AcceptProposal
<1>5. CASE Stepping
  BY <1>3, <1>5 DEF Stepping, AdvanceFlow, Refuse, Prepare, Run, Chosen, Receive, ScheduledIntake, Ready,
     StepEnds, Complete
<1>6. CASE Sending \/ Working
  BY <1>3, <1>6 DEF Sending, Undispatched, Dispatch, Post, Answered, Rejected, Unanswered, Finish,
     Working, Infer, NotInferred, Return, Record, RunThrows
<1>7. CASE Receiving
  BY <1>3, <1>7 DEF Receiving, Intake, Read, Peek, Classify, Unclassified, Ack, Unacked
<1>8. CASE Operating \/ Ending
  BY <1>2, <1>3, <1>8 DEF Operating, Submit, ApproveExternal, Delegate, RequestStop, Ask, Ending, Pause,
     Continue, Unlink, Stop, Release, Die, Idle
<1>9. CASE Environment
  BY <1>9 DEF Environment, Accept, Reject, Propose, Expire
<1>10. CASE UNCHANGED vars
  BY <1>10 DEF vars
<1> QED
  BY <1>4, <1>5, <1>6, <1>7, <1>8, <1>9, <1>10 DEF Next

\* A step of the session leaves the deliveries backed.
LEMMA SessionBacked ==
    ASSUME IInv, KInv, DInv, EInv, [Next]_vars, UNCHANGED deliveryVars
    PROVE  EInv'
<1>1. UNCHANGED <<delivered, approval, step, job, copy, answer, arrived>>
  BY DEF deliveryVars, record, process, service
<1>2. DeliveryTypeOK' /\ OperationFits'
  BY <1>1 DEF EInv, DeliveryTypeOK, OperationFits, At
<1>3. \A r \in External : delivered[r] # None => disk' = disk
  BY Frozen DEF EInv, RecordsBacked, RecordBacked
<1>4. RecordsBacked'
  BY <1>1, <1>3 DEF EInv, RecordsBacked, RecordBacked, Material
<1>5. WithinLimits'
  <2>1. Posting' = Posting /\ Counting' = Counting
    BY <1>1 DEF Posting, Counting, At
  <2>2. Posting # {} => disk' = disk
    BY <1>3, PostingCounts DEF EInv, Counting
  <2> QED
    BY <2>1, <2>2 DEF EInv, WithinLimits
<1> QED
  BY <1>2, <1>4, <1>5 DEF EInv

\* No POST begins.
LEMMA LimitsKept ==
    ASSUME IInv, EInv, disk' = disk, Posting' \subseteq Posting,
           NEW x, Counting' \subseteq Counting \cup {x}
    PROVE  WithinLimits'
<1>1. IsFiniteSet(Counting) /\ IsFiniteSet(Posting) /\ Cardinality(Posting) \in Nat
  BY PostingCounts, FS_Subset, FS_CardinalityType DEF EInv, WithinLimits
<1>2. IsFiniteSet(Counting')
  <2>1. IsFiniteSet(Counting \cup {x})
    BY <1>1, FS_AddElement
  <2> QED
    BY <2>1, FS_Subset
<1>3. ASSUME Posting' # {}
      PROVE  disk'.spent["outbound"] + Cardinality(Posting') <= Limits["outbound"]
  <2>1. /\ disk \in Sessions
        /\ disk.spent["outbound"] + Cardinality(Posting) <= Limits["outbound"]
    BY <1>3, PostingCounts DEF EInv, WithinLimits
  <2>2. Cardinality(Posting') <= Cardinality(Posting) /\ Cardinality(Posting') \in Nat
    BY <1>1, FS_Subset, FS_CardinalityType
  <2> QED
    BY <1>1, <2>1, <2>2, SpentFacts
<1> QED
  BY <1>2, <1>3 DEF WithinLimits

\* No record changes, and no POST begins.
LEMMA RecordsKept ==
    ASSUME IInv, EInv, UNCHANGED <<disk, delivered>>, ~At("sending")',
           \A r \in External : answer'[r] # "none" => answer[r] # "none"
    PROVE  WithinLimits'
<1>1. Posting' \subseteq Posting /\ Counting' \subseteq Counting \cup {None}
  BY DEF Posting, Counting, At
<1> QED
  BY <1>1, LimitsKept

Approvals == {"none", "requested", "approved", "executing", "confirmed", "ambiguous", "failed"}

LEMMA MarkFacts ==
    ASSUME DeliveryTypeOK, NEW r \in External, NEW a \in Approvals, Mark(r, a)
    PROVE  /\ approval' \in [External -> Approvals] /\ approval'[r] = a
           /\ \A q \in External : q # r => approval'[q] = approval[q]
BY DEF DeliveryTypeOK, Approvals, Mark

LEMMA WriteFacts ==
    ASSUME DeliveryTypeOK, NEW r \in External, NEW d \in Records, Write(r, d)
    PROVE  /\ delivered' \in [External -> Records \cup {None}] /\ delivered'[r] = d /\ d # None
           /\ \A q \in External : q # r => delivered'[q] = delivered[q]
           /\ Counting' \subseteq Counting \cup {r}
<1>1. /\ delivered' \in [External -> Records \cup {None}] /\ delivered'[r] = d /\ d # None
      /\ \A q \in External : q # r => delivered'[q] = delivered[q]
  BY RecordsAssumption DEF DeliveryTypeOK, Write
<1> QED
  BY <1>1 DEF Counting

\* What is under way has a record, and an approval that was not spent has no POST.
LEMMA OperationFacts ==
    ASSUME EInv, ~At("idle")
    PROVE  /\ job \in External /\ delivered[job] \in Records /\ delivered[job] # None
           /\ RecordBacked(job) /\ Material(job)
           /\ step \in {"granted", "consuming", "reserving", "sending", "await", "confirming", "recording"} =>
                 copy \in Records
           /\ delivered[job].status \in Unposted => answer[job] = "none"
BY DEF EInv, OperationFits, DeliveryTypeOK, RecordsBacked, RecordBacked, At

\* A conclusion has the POSTs of the copy.
LEMMA ConcludesFacts ==
    ASSUME copy \in Records, NEW rejected \in BOOLEAN, Concludes(rejected)
    PROVE  /\ step' = "recording" /\ job' = job
           /\ copy' \in Records /\ copy'.status = Outcome(rejected) /\ copy'.posts = copy.posts
           /\ Outcome(rejected) \in {"failed", "delivery-ambiguous"}
BY DEF Records, Concludes, Begin, Outcome

\* No record and no POST changes.
LEMMA OperationBacked ==
    ASSUME IInv, EInv, UNCHANGED <<disk, delivered, service>>, DeliveryTypeOK', OperationFits',
           ~At("sending")', \A r \in External : answer[r] # "none" => approval'[r] \notin Unspent
    PROVE  EInv'
<1>1. RecordsBacked'
  BY DEF EInv, RecordsBacked, RecordBacked, Material, service
<1>2. WithinLimits'
  BY RecordsKept DEF service
<1> QED
  BY <1>1, <1>2 DEF EInv

\* An operation fails or is in doubt: its record will say so.
LEMMA ConcludesBacked ==
    ASSUME IInv, EInv, UNCHANGED <<disk, delivered, service>>, ~At("idle"), copy \in Records,
           NEW rejected \in BOOLEAN, Concludes(rejected),
           Outcome(rejected) = "failed" => answer[job] \in {"none", "refused"},
           answer[job] # "none" => copy.posts = 1,
           \/ approval' = approval
           \/ \E a \in Approvals \ Unspent : Mark(job, a)
    PROVE  EInv'
<1>1. /\ step' = "recording" /\ job' = job
      /\ copy' \in Records /\ copy'.status = Outcome(rejected) /\ copy'.posts = copy.posts
      /\ Outcome(rejected) \in {"failed", "delivery-ambiguous"}
  BY ConcludesFacts
<1>2. job \in External /\ delivered[job] # None /\ DeliveryTypeOK /\ RecordsBacked
  BY OperationFacts DEF EInv
<1>3. /\ approval' \in [External -> Approvals]
      /\ \A r \in External : approval'[r] = approval[r] \/ approval'[r] \notin Unspent
  <2>1. CASE approval' = approval
    BY <1>2, <2>1 DEF DeliveryTypeOK, Approvals
  <2>2. CASE \E a \in Approvals \ Unspent : Mark(job, a)
    BY <1>2, <2>2, MarkFacts
  <2> QED
    BY <2>1, <2>2
<1>4. DeliveryTypeOK'
  BY <1>1, <1>2, <1>3 DEF DeliveryTypeOK, Approvals, service
<1>5. OperationFits'
  BY <1>1, <1>2 DEF OperationFits, At, service
<1>6. \A r \in External : answer[r] # "none" => approval'[r] \notin Unspent
  BY <1>2, <1>3 DEF RecordsBacked, RecordBacked
<1>7. ~At("sending")'
  BY <1>1 DEF At
<1> QED
  BY <1>4, <1>5, <1>6, <1>7, OperationBacked

\* An operation is over.
LEMMA LeavesBacked ==
    ASSUME IInv, EInv, UNCHANGED <<disk, delivered, service>>, Leaves,
           \/ approval' = approval
           \/ ~At("idle") /\ answer[job] = "none" /\ \E a \in Approvals : Mark(job, a)
    PROVE  EInv'
<1>1. step' = "idle" /\ job' = None /\ copy' = None
  BY DEF Leaves, Begin
<1>2. DeliveryTypeOK /\ RecordsBacked
  BY DEF EInv
<1>3. /\ approval' \in [External -> Approvals]
      /\ \A r \in External : approval'[r] = approval[r] \/ answer[r] = "none"
  <2>1. CASE approval' = approval
    BY <1>2, <2>1 DEF DeliveryTypeOK, Approvals
  <2>2. CASE ~At("idle") /\ answer[job] = "none" /\ \E a \in Approvals : Mark(job, a)
    <3>1. job \in External
      BY <2>2, OperationFacts
    <3> QED
      BY <1>2, <2>2, <3>1, MarkFacts
  <2> QED
    BY <2>1, <2>2
<1>4. DeliveryTypeOK' /\ OperationFits' /\ ~At("sending")'
  BY <1>1, <1>2, <1>3 DEF DeliveryTypeOK, Approvals, OperationFits, At, service
<1>5. \A r \in External : answer[r] # "none" => approval'[r] \notin Unspent
  BY <1>2, <1>3 DEF RecordsBacked, RecordBacked
<1> QED
  BY <1>4, <1>5, OperationBacked

\* A record is written that is true of its POST.
LEMMA WriteRecordsBacked ==
    ASSUME EInv, UNCHANGED <<disk, approval, service>>,
           NEW x \in External, NEW d \in Records, Write(x, d), Material(x),
           d.status \in Unposted => d.posts = 0,
           d.status = "sent" => answer[x] = "posted",
           d.status = "failed" => answer[x] \in {"none", "refused"},
           answer[x] # "none" => d.posts = 1
    PROVE  RecordsBacked'
<1>1. DeliveryTypeOK /\ RecordsBacked
  BY DEF EInv
<1>2. delivered'[x] = d /\ d # None /\ \A q \in External : q # x => delivered'[q] = delivered[q]
  BY <1>1, WriteFacts
<1>3. ASSUME NEW q \in External PROVE RecordBacked(q)'
  <2>1. RecordBacked(q)
    BY <1>1 DEF RecordsBacked
  <2>2. CASE q = x
    BY <1>2, <2>1, <2>2 DEF RecordBacked, Material, service
  <2>3. CASE q # x
    BY <1>2, <2>1, <2>3 DEF RecordBacked, Material, service
  <2> QED
    BY <2>2, <2>3
<1> QED
  BY <1>3 DEF RecordsBacked

LEMMA WriteBacked ==
    ASSUME IInv, EInv, UNCHANGED <<disk, approval, service>>,
           NEW x \in External, NEW d \in Records, Write(x, d), RecordsBacked',
           DeliveryTypeOK', OperationFits', ~At("sending")'
    PROVE  EInv'
<1>1. Counting' \subseteq Counting \cup {x}
  BY WriteFacts DEF EInv
<1>2. Posting' \subseteq Posting
  BY DEF Posting, At, service
<1>3. WithinLimits'
  BY <1>1, <1>2, LimitsKept
<1> QED
  BY <1>3 DEF EInv

LEMMA PrepareResponseBacked ==
    ASSUME IInv, EInv, disk' = disk, NEW r \in External, PrepareResponse(r)
    PROVE  EInv'
<1> DEFINE d == [status |-> "response-prepared", posts |-> 0]
<1>1. /\ Material(r) /\ delivered[r] = None /\ Write(r, d) /\ UNCHANGED <<approval, service>>
      /\ step' = "proposing" /\ job' = r /\ copy' = None /\ DeliveryTypeOK /\ RecordsBacked
  BY DEF PrepareResponse, Begin, EInv
<1>2. d \in Records /\ d.status = "response-prepared" /\ d.posts = 0
  BY DEF Records
<1>3. answer[r] = "none"
  BY <1>1 DEF RecordsBacked, RecordBacked
<1> HIDE DEF d
<1>4. /\ delivered' \in [External -> Records \cup {None}] /\ delivered'[r] = d /\ d # None
  BY <1>1, <1>2, WriteFacts
<1>5. DeliveryTypeOK' /\ OperationFits' /\ ~At("sending")'
  BY <1>1, <1>2, <1>4 DEF DeliveryTypeOK, OperationFits, At, Unposted, service
<1>6. RecordsBacked'
  BY <1>1, <1>2, <1>3, WriteRecordsBacked
<1> QED
  BY <1>1, <1>2, <1>5, <1>6, WriteBacked

LEMMA GrantResponseBacked ==
    ASSUME IInv, EInv, disk' = disk, NEW r \in External, GrantResponse(r)
    PROVE  EInv'
<1>1. /\ delivered[r] # None /\ delivered[r].status \in Unposted /\ Mark(r, "approved")
      /\ UNCHANGED <<delivered, service>> /\ DeliveryTypeOK /\ RecordsBacked
      /\ step' = "granted" /\ job' = r /\ copy' = delivered[r]
  BY DEF GrantResponse, Begin, EInv, Unposted
<1>2. answer[r] = "none"
  BY <1>1 DEF RecordsBacked, RecordBacked
<1>3. /\ approval' \in [External -> Approvals]
      /\ \A q \in External : q # r => approval'[q] = approval[q]
  BY <1>1, MarkFacts DEF Approvals
<1>4. DeliveryTypeOK' /\ OperationFits' /\ ~At("sending")'
  BY <1>1, <1>3 DEF DeliveryTypeOK, Approvals, OperationFits, At, Unposted, service
<1>5. \A q \in External : answer[q] # "none" => approval'[q] \notin Unspent
  BY <1>1, <1>2, <1>3 DEF RecordsBacked, RecordBacked
<1> QED
  BY <1>1, <1>4, <1>5, OperationBacked

LEMMA SendBacked ==
    ASSUME IInv, EInv, disk' = disk, NEW r \in External, Send(r)
    PROVE  EInv'
<1>1. /\ delivered[r] # None /\ delivered[r].status \in Unposted
      /\ UNCHANGED <<delivered, approval, service>> /\ DeliveryTypeOK /\ RecordsBacked
      /\ step' = "consuming" /\ job' = r /\ copy' = delivered[r]
  BY DEF Send, Begin, EInv, Unposted, record
<1>2. DeliveryTypeOK' /\ OperationFits' /\ ~At("sending")'
  BY <1>1 DEF DeliveryTypeOK, OperationFits, At, Unposted, service
<1>3. \A q \in External : answer[q] # "none" => approval'[q] \notin Unspent
  BY <1>1 DEF RecordsBacked, RecordBacked
<1> QED
  BY <1>1, <1>2, <1>3, OperationBacked

LEMMA WriteAuthorizedBacked ==
    ASSUME IInv, EInv, disk' = disk, WriteAuthorized
    PROVE  EInv'
<1> DEFINE d == [copy EXCEPT !.status = "response-authorized"]
<1>1. /\ step = "granted" /\ Write(job, d) /\ UNCHANGED <<approval, service>>
      /\ step' = "idle" /\ job' = None /\ copy' = None /\ DeliveryTypeOK
  BY DEF WriteAuthorized, At, Leaves, Begin, EInv
<1>2. /\ job \in External /\ copy \in Records /\ Material(job) /\ copy.posts = 0 /\ answer[job] = "none"
  BY <1>1, OperationFacts DEF At, EInv, OperationFits, RecordBacked
<1>3. d \in Records /\ d.status = "response-authorized" /\ d.posts = 0
  BY <1>2 DEF Records
<1> HIDE DEF d
<1>4. delivered' \in [External -> Records \cup {None}]
  BY <1>1, <1>2, <1>3, WriteFacts
<1>5. DeliveryTypeOK' /\ OperationFits' /\ ~At("sending")'
  BY <1>1, <1>4 DEF DeliveryTypeOK, OperationFits, At, service
<1>6. RecordsBacked'
  BY <1>1, <1>2, <1>3, WriteRecordsBacked
<1> QED
  BY <1>1, <1>2, <1>3, <1>5, <1>6, WriteBacked

LEMMA WriteOutcomeBacked ==
    ASSUME IInv, EInv, disk' = disk, WriteOutcome
    PROVE  EInv'
<1>1. /\ step = "recording" /\ UNCHANGED <<approval, service>>
      /\ step' = "idle" /\ job' = None /\ copy' = None /\ DeliveryTypeOK
  BY DEF WriteOutcome, At, Leaves, Begin, EInv
<1>2. /\ job \in External /\ copy \in Records /\ Material(job)
      /\ copy.status \in {"failed", "delivery-ambiguous", "sent"}
      /\ copy.status = "sent" => answer[job] = "posted"
      /\ copy.status = "failed" => answer[job] \in {"none", "refused"}
      /\ answer[job] # "none" => copy.posts = 1
  BY <1>1, OperationFacts DEF At, EInv, OperationFits
<1>3. PICK d \in Records :
          /\ Write(job, d)
          /\ d.status \in {"failed", "delivery-ambiguous", "sent"}
          /\ d.status = "sent" => answer[job] = "posted"
          /\ d.status = "failed" => answer[job] \in {"none", "refused"}
          /\ answer[job] # "none" => d.posts = 1
  <2>1. CASE Write(job, copy)
    BY <1>2, <2>1
  <2>2. CASE Write(job, [copy EXCEPT !.status = "delivery-ambiguous"])
    <3> DEFINE d == [copy EXCEPT !.status = "delivery-ambiguous"]
    <3>1. d \in Records /\ d.status = "delivery-ambiguous" /\ d.posts = copy.posts
      BY <1>2 DEF Records
    <3> HIDE DEF d
    <3>2. Write(job, d)
      BY <2>2 DEF d
    <3> QED
      BY <1>2, <3>1, <3>2
  <2> QED
    BY <2>1, <2>2 DEF WriteOutcome
<1>4. delivered' \in [External -> Records \cup {None}]
  BY <1>1, <1>2, <1>3, WriteFacts
<1>5. DeliveryTypeOK' /\ OperationFits' /\ ~At("sending")'
  BY <1>1, <1>4 DEF DeliveryTypeOK, OperationFits, At, service
<1>6. RecordsBacked'
  BY <1>1, <1>2, <1>3, WriteRecordsBacked DEF Unposted
<1> QED
  BY <1>1, <1>2, <1>3, <1>5, <1>6, WriteBacked

LEMMA ConsumeBacked ==
    ASSUME IInv, EInv, disk' = disk, Consume
    PROVE  EInv'
<1>1. /\ step = "consuming" /\ UNCHANGED <<delivered, service>> /\ ~At("idle")
      /\ DeliveryTypeOK /\ OperationFits /\ RecordsBacked
  BY DEF Consume, At, EInv
<1>2. /\ job \in External /\ copy \in Records /\ answer[job] = "none"
      /\ copy = delivered[job] /\ delivered[job].status \in Unposted
  BY <1>1, OperationFacts DEF OperationFits
<1>3. CASE Mark(job, "executing") /\ Begin("reserving", job, copy)
  <2>1. /\ approval' \in [External -> Approvals] /\ approval'[job] = "executing"
        /\ \A q \in External : q # job => approval'[q] = approval[q]
    BY <1>1, <1>2, <1>3, MarkFacts DEF Approvals
  <2>2. DeliveryTypeOK' /\ OperationFits' /\ ~At("sending")'
    BY <1>1, <1>2, <1>3, <2>1 DEF DeliveryTypeOK, Approvals, OperationFits, At, Begin, service
  <2>3. \A q \in External : answer[q] # "none" => approval'[q] \notin Unspent
    BY <1>1, <1>2, <2>1 DEF RecordsBacked, RecordBacked
  <2> QED
    BY <1>1, <2>2, <2>3, OperationBacked
<1>4. CASE UNCHANGED approval /\ Concludes(FALSE)
  BY <1>1, <1>2, <1>4, ConcludesBacked
<1> QED
  BY <1>3, <1>4 DEF Consume

\* The POST is counted, and within what is left, before it begins.
LEMMA DispatchResponseBacked ==
    ASSUME IInv, EInv, disk' = disk, DispatchResponse
    PROVE  EInv'
<1> DEFINE sending == [status |-> "sending", posts |-> 1]
           unsure == [sending EXCEPT !.status = "delivery-ambiguous"]
<1>1. /\ step = "reserving" /\ UNCHANGED service /\ ~At("idle")
      /\ DeliveryTypeOK /\ OperationFits /\ RecordsBacked
  BY DEF DispatchResponse, At, EInv
<1>2. /\ job \in External /\ copy \in Records /\ answer[job] = "none" /\ delivered[job] # None
      /\ approval[job] = "executing" /\ Material(job)
  BY <1>1, OperationFacts DEF OperationFits
<1>3. /\ sending \in Records /\ sending.status = "sending" /\ sending.posts = 1
      /\ unsure \in Records /\ unsure.status = "delivery-ambiguous" /\ unsure.posts = 1
  BY DEF Records
<1>4. \/ /\ Attempts < Limits["outbound"] /\ Write(job, sending) /\ Begin("sending", job, sending)
         /\ approval' = approval
      \/ Mark(job, "ambiguous") /\ Concludes(FALSE) /\ delivered' = delivered
      \/ Mark(job, "failed") /\ Concludes(FALSE) /\ delivered' = delivered
      \/ Mark(job, "ambiguous") /\ Begin("recording", job, unsure) /\ delivered' = delivered
  BY DEF DispatchResponse
<1>5. CASE /\ Attempts < Limits["outbound"] /\ Write(job, sending) /\ Begin("sending", job, sending)
           /\ approval' = approval
  <2>1. step' = "sending" /\ job' = job /\ copy' = sending
    BY <1>5 DEF Begin
  <2>2. /\ delivered' \in [External -> Records \cup {None}] /\ delivered'[job] = sending
        /\ sending # None /\ Counting' \subseteq Counting \cup {job}
    BY <1>1, <1>2, <1>3, <1>5, WriteFacts
  <2>3. DeliveryTypeOK' /\ OperationFits'
    BY <1>1, <1>2, <1>3, <1>5, <2>1, <2>2 DEF DeliveryTypeOK, OperationFits, At, service
  <2>4. RecordsBacked'
    BY <1>1, <1>2, <1>3, <1>5, WriteRecordsBacked DEF Unposted, EInv
  <2>5. WithinLimits'
    <3>1. IsFiniteSet(Counting \cup {job}) /\ Cardinality(Counting \cup {job}) <= Cardinality(Counting) + 1
          /\ Cardinality(Counting) \in Nat /\ Cardinality(Counting \cup {job}) \in Nat
      BY FS_AddElement, FS_CardinalityType DEF EInv, WithinLimits
    <3>2. IsFiniteSet(Counting')
      BY <2>2, <3>1, FS_Subset
    <3>3. Posting' \subseteq Counting \cup {job}
      <4>1. Posting' \subseteq Posting \cup {job}
        BY <1>1, <2>1 DEF Posting, At, service
      <4> QED
        BY <1>1, <4>1, PostingCounts
    <3>4. Cardinality(Posting') <= Cardinality(Counting \cup {job}) /\ Cardinality(Posting') \in Nat
      BY <3>1, <3>3, FS_Subset, FS_CardinalityType
    <3>5. disk.spent["outbound"] + Cardinality(Counting) < Limits["outbound"]
      BY <1>5 DEF Attempts, Counting
    <3>6. disk.spent["outbound"] \in Nat /\ Limits["outbound"] \in Nat
      BY <1>2, SpentFacts DEF Material, IInv, TypeOK
    <3>7. disk'.spent["outbound"] + Cardinality(Posting') <= Limits["outbound"]
      BY <3>1, <3>4, <3>5, <3>6
    <3> QED
      BY <3>2, <3>7 DEF WithinLimits
  <2> QED
    BY <2>3, <2>4, <2>5 DEF EInv
<1>6. CASE (Mark(job, "ambiguous") \/ Mark(job, "failed")) /\ Concludes(FALSE) /\ delivered' = delivered
  <2>1. \E a \in Approvals \ Unspent : Mark(job, a)
    BY <1>6 DEF Approvals, Unspent
  <2> QED
    BY <1>1, <1>2, <1>6, <2>1, ConcludesBacked
<1>7. CASE Mark(job, "ambiguous") /\ Begin("recording", job, unsure) /\ delivered' = delivered
  <2>1. /\ approval' \in [External -> Approvals] /\ approval'[job] = "ambiguous"
        /\ \A q \in External : q # job => approval'[q] = approval[q]
    BY <1>1, <1>2, <1>7, MarkFacts DEF Approvals
  <2>2. step' = "recording" /\ job' = job /\ copy' = unsure
    BY <1>7 DEF Begin
  <2> HIDE DEF unsure
  <2>3. DeliveryTypeOK' /\ OperationFits' /\ ~At("sending")'
    BY <1>1, <1>2, <1>3, <1>7, <2>1, <2>2 DEF DeliveryTypeOK, Approvals, OperationFits, At, service
  <2>4. \A q \in External : answer[q] # "none" => approval'[q] \notin Unspent
    BY <1>1, <1>2, <2>1 DEF RecordsBacked, RecordBacked
  <2> QED
    BY <1>1, <1>7, <2>3, <2>4, OperationBacked
<1> QED
  BY <1>4, <1>5, <1>6, <1>7

LEMMA PostResponseBacked ==
    ASSUME IInv, EInv, disk' = disk, PostResponse
    PROVE  EInv'
<1>1. /\ step = "sending" /\ UNCHANGED <<delivered, arrived>> /\ ~At("idle")
      /\ DeliveryTypeOK /\ OperationFits /\ RecordsBacked
  BY DEF PostResponse, At, EInv
<1>2. /\ job \in External /\ copy \in Records /\ answer[job] = "none" /\ copy.posts = 1
      /\ approval[job] = "executing" /\ delivered[job] # None /\ delivered[job] = copy
      /\ copy.status = "sending" /\ copy = [status |-> "sending", posts |-> 1]
  BY <1>1, OperationFacts DEF OperationFits, At
<1>3. CASE /\ answer' = [answer EXCEPT ![job] = "request"]
           /\ Begin("await", job, copy) /\ UNCHANGED approval
  <2>1. step' = "await" /\ job' = job /\ copy' = copy
    BY <1>3 DEF Begin
  <2>2. /\ answer' \in [External -> {"none", "request", "posted", "refused"}]
        /\ answer'[job] = "request" /\ \A q \in External : q # job => answer'[q] = answer[q]
    BY <1>1, <1>2, <1>3 DEF DeliveryTypeOK
  <2>3. DeliveryTypeOK' /\ OperationFits'
    BY <1>1, <1>2, <1>3, <2>1, <2>2 DEF DeliveryTypeOK, OperationFits, At
  <2>4. ASSUME NEW q \in External PROVE RecordBacked(q)'
    <3>1. RecordBacked(q)
      BY <1>1 DEF RecordsBacked
    <3>2. CASE q = job
      BY <1>1, <1>2, <1>3, <2>2, <3>1, <3>2 DEF RecordBacked, Material, Unposted, Unspent
    <3>3. CASE q # job
      BY <1>1, <1>3, <2>2, <3>1, <3>3 DEF RecordBacked, Material
    <3> QED
      BY <3>2, <3>3
  <2>5. WithinLimits'
    <3>1. Posting' \subseteq Posting
      BY <1>1, <1>2, <2>1, <2>2 DEF Posting, At
    <3>2. Counting' \subseteq Counting \cup {None}
      BY <1>1 DEF Counting
    <3> QED
      BY <3>1, <3>2, LimitsKept
  <2> QED
    BY <2>3, <2>4, <2>5 DEF EInv, RecordsBacked
<1>4. CASE Mark(job, "ambiguous") /\ Concludes(FALSE) /\ UNCHANGED answer
  <2>1. \E a \in Approvals \ Unspent : Mark(job, a)
    BY <1>4 DEF Approvals, Unspent
  <2> QED
    BY <1>1, <1>2, <1>4, <2>1, ConcludesBacked DEF service
<1> QED
  BY <1>3, <1>4 DEF PostResponse

LEMMA AnsweredBacked ==
    ASSUME IInv, EInv, disk' = disk, ResponsePosted \/ ResponseRejected \/ ResponseLost
    PROVE  EInv'
<1>1. /\ step = "await" /\ UNCHANGED <<delivered, service>> /\ ~At("idle")
      /\ DeliveryTypeOK /\ OperationFits /\ RecordsBacked
  BY DEF ResponsePosted, ResponseRejected, ResponseLost, At, EInv, record
<1>2. /\ job \in External /\ copy \in Records /\ copy.posts = 1
      /\ approval[job] = "executing" /\ delivered[job] # None /\ delivered[job] = copy
      /\ copy = [status |-> "sending", posts |-> 1]
  BY <1>1, OperationFacts DEF OperationFits
<1>3. CASE ResponsePosted
  <2>1. /\ step' = "confirming" /\ job' = job /\ copy' = copy /\ approval' = approval
        /\ answer[job] = "posted"
    BY <1>3 DEF ResponsePosted, Begin, record
  <2>2. DeliveryTypeOK' /\ OperationFits' /\ ~At("sending")'
    BY <1>1, <1>2, <2>1 DEF DeliveryTypeOK, OperationFits, At, service
  <2>3. \A q \in External : answer[q] # "none" => approval'[q] \notin Unspent
    BY <1>1, <2>1 DEF RecordsBacked, RecordBacked
  <2> QED
    BY <1>1, <2>2, <2>3, OperationBacked
<1>4. CASE ResponseRejected
  <2>1. \E a \in Approvals \ Unspent : Mark(job, a)
    BY <1>4 DEF ResponseRejected, Approvals, Unspent
  <2>2. Concludes(TRUE) /\ answer[job] = "refused"
    BY <1>4 DEF ResponseRejected
  <2> QED
    BY <1>1, <1>2, <2>1, <2>2, ConcludesBacked
<1>5. CASE ResponseLost
  <2>1. \E a \in Approvals \ Unspent : Mark(job, a)
    BY <1>5 DEF ResponseLost, Approvals, Unspent
  <2>2. Concludes(FALSE)
    BY <1>5 DEF ResponseLost
  <2>3. Outcome(FALSE) # "failed"
    BY <1>2 DEF Outcome
  <2> QED
    BY <1>1, <1>2, <2>1, <2>2, <2>3, ConcludesBacked
<1> QED
  BY <1>3, <1>4, <1>5

LEMMA ConfirmBacked ==
    ASSUME IInv, EInv, disk' = disk, Confirm
    PROVE  EInv'
<1> DEFINE d == [copy EXCEPT !.status = "sent"]
<1>1. /\ step = "confirming" /\ UNCHANGED <<delivered, service>> /\ ~At("idle")
      /\ DeliveryTypeOK /\ OperationFits /\ RecordsBacked
  BY DEF Confirm, At, EInv
<1>2. /\ job \in External /\ copy \in Records /\ copy.posts = 1
      /\ delivered[job] # None /\ answer[job] = "posted"
  BY <1>1, OperationFacts DEF OperationFits, At
<1>3. d \in Records /\ d.status = "sent" /\ d.posts = 1
  BY <1>2 DEF Records
<1>4. \/ Mark(job, "confirmed") /\ Begin("recording", job, d)
      \/ Mark(job, "ambiguous") /\ Concludes(FALSE)
  BY DEF Confirm
<1> HIDE DEF d
<1>5. CASE Mark(job, "confirmed") /\ Begin("recording", job, d)
  <2>1. /\ approval' \in [External -> Approvals] /\ approval'[job] = "confirmed"
        /\ \A q \in External : q # job => approval'[q] = approval[q]
    BY <1>1, <1>2, <1>5, MarkFacts DEF Approvals
  <2>2. step' = "recording" /\ job' = job /\ copy' = d
    BY <1>5 DEF Begin
  <2>3. DeliveryTypeOK' /\ OperationFits' /\ ~At("sending")'
    BY <1>1, <1>2, <1>3, <2>1, <2>2 DEF DeliveryTypeOK, Approvals, OperationFits, At, service
  <2>4. \A q \in External : answer[q] # "none" => approval'[q] \notin Unspent
    BY <1>1, <1>2, <2>1 DEF RecordsBacked, RecordBacked, Unspent
  <2> QED
    BY <1>1, <2>3, <2>4, OperationBacked
<1>6. CASE Mark(job, "ambiguous") /\ Concludes(FALSE)
  <2>1. \E a \in Approvals \ Unspent : Mark(job, a)
    BY <1>6 DEF Approvals, Unspent
  <2>2. Outcome(FALSE) # "failed"
    BY <1>2 DEF Outcome
  <2> QED
    BY <1>1, <1>2, <1>6, <2>1, <2>2, ConcludesBacked
<1> QED
  BY <1>4, <1>5, <1>6

\* The service answers a request once.
LEMMA ServiceBacked ==
    ASSUME IInv, EInv, disk' = disk, NEW r \in External, AcceptResponse(r) \/ RejectResponse(r)
    PROVE  EInv'
<1>1. /\ answer[r] = "request" /\ UNCHANGED <<delivered, approval, step, job, copy>>
      /\ DeliveryTypeOK /\ OperationFits /\ RecordsBacked
  BY DEF AcceptResponse, RejectResponse, record, process, EInv
<1>2. PICK v \in {"posted", "refused"} :
          /\ answer' = [answer EXCEPT ![r] = v]
          /\ arrived' = IF v = "posted" THEN [arrived EXCEPT ![r] = @ + 1] ELSE arrived
  BY DEF AcceptResponse, RejectResponse
<1>3. /\ answer' \in [External -> {"none", "request", "posted", "refused"}] /\ answer'[r] = v
      /\ arrived' \in [External -> Nat] /\ arrived[r] = 0
      /\ arrived'[r] = IF v = "posted" THEN 1 ELSE 0
      /\ \A q \in External : q # r => answer'[q] = answer[q] /\ arrived'[q] = arrived[q]
  <2>1. arrived[r] = 0
    BY <1>1 DEF RecordsBacked, RecordBacked
  <2> QED
    BY <1>1, <1>2, <2>1 DEF DeliveryTypeOK
<1>4. DeliveryTypeOK' /\ OperationFits'
  BY <1>1, <1>3 DEF DeliveryTypeOK, OperationFits, At
<1>5. ASSUME NEW q \in External PROVE RecordBacked(q)'
  <2>1. RecordBacked(q)
    BY <1>1 DEF RecordsBacked
  <2>2. CASE q = r
    BY <1>1, <1>3, <2>1, <2>2 DEF RecordBacked, Material
  <2>3. CASE q # r
    BY <1>1, <1>3, <2>1, <2>3 DEF RecordBacked, Material
  <2> QED
    BY <2>2, <2>3
<1>6. Posting' \subseteq Posting /\ Counting' \subseteq Counting \cup {None}
  BY <1>1, <1>3 DEF Posting, Counting, At
<1>7. WithinLimits'
  BY <1>6, LimitsKept
<1> QED
  BY <1>4, <1>5, <1>7 DEF EInv, RecordsBacked

LEMMA DeliveryBacked ==
    ASSUME IInv, EInv, Delivery, UNCHANGED sessionVars
    PROVE  EInv'
<1>1. disk' = disk
  BY DEF sessionVars
<1>2. CASE ProposeApproval
  <2>1. /\ step = "proposing" /\ UNCHANGED <<delivered, service>> /\ Leaves /\ Mark(job, "requested")
    BY <1>2 DEF ProposeApproval, At
  <2>2. ~At("idle") /\ answer[job] = "none"
    BY <2>1, OperationFacts DEF At, EInv, OperationFits
  <2> QED
    BY <1>1, <2>1, <2>2, LeavesBacked DEF Approvals
<1>3. CASE DeliveryDies
  BY <1>1, <1>3, LeavesBacked DEF DeliveryDies, record
<1> QED
  BY <1>1, <1>2, <1>3, PrepareResponseBacked, GrantResponseBacked, SendBacked, ServiceBacked,
     WriteAuthorizedBacked, ConsumeBacked, DispatchResponseBacked, PostResponseBacked, AnsweredBacked,
     ConfirmBacked, WriteOutcomeBacked DEF Delivery

\* A delivery only reads what the session keeps.
LEMMA DeliveryReads ==
    ASSUME IInv, KInv, DInv, Delivery, UNCHANGED sessionVars
    PROVE  IInv' /\ KInv' /\ DInv'
<1>1. /\ UNCHANGED <<disk, mem, pc, at, runtime, legacy, cursor, seen, lost, stopping, asked, offline, late, opens>>
      /\ UNCHANGED <<wire, room, posted, computed>>
  BY DEF sessionVars, agents, held, outside, network
<1>2. faults' = faults \/ Fault
  BY DEF Delivery, PrepareResponse, GrantResponse, Send, AcceptResponse, RejectResponse, ProposeApproval,
     WriteAuthorized, Consume, DispatchResponse, PostResponse, ResponsePosted, ResponseRejected,
     ResponseLost, Confirm, WriteOutcome, DeliveryDies
<1>3. faults' \in 0 .. MaxFaults
  BY <1>2, Facts
<1>4. Outer'
  <2>1. Outer
    BY Facts
  <2> QED
    BY <1>1, <2>1 DEF Outer
<1>5. IInv'
  BY <1>1, <1>3, <1>4, StillStep
<1>6. KInv'
  <2>1. Lively' /\ UnderWay' /\ \A p \in Peers : behind'[p] = behind[p]
    BY <1>1 DEF KInv, Lively, UnderWay, behind
  <2> QED
    BY <1>1, <2>1, OutsideStep
<1>7. Tried' \subseteq Tried
  BY <1>1 DEF Tried
<1>8. DInv'
  BY <1>1, <1>7, StillHonest
<1> QED
  BY <1>5, <1>6, <1>8

LEMMA SystemInitBacked == SystemInit => EInv
<1> SUFFICES ASSUME SystemInit PROVE EInv
  OBVIOUS
<1>1. DeliveryTypeOK /\ OperationFits /\ RecordsBacked
  BY DEF SystemInit, DeliveryInit, DeliveryTypeOK, OperationFits, At, RecordsBacked, RecordBacked
<1>2. Posting = {} /\ Counting = {}
  BY DEF SystemInit, DeliveryInit, Posting, Counting, At
<1> QED
  BY <1>1, <1>2, FS_EmptySet DEF EInv, WithinLimits

LEMMA SystemInvariant == System => [](IInv /\ KInv /\ DInv /\ EInv)
<1>1. SystemInit => IInv /\ KInv /\ DInv /\ EInv
  BY InitStep, InitTrue, InitHonest, SystemInitBacked DEF SystemInit
<1>2. (IInv /\ KInv /\ DInv /\ EInv) /\ [SystemNext]_<<vars, deliveryVars>> => (IInv /\ KInv /\ DInv /\ EInv)'
  <2> SUFFICES ASSUME IInv, KInv, DInv, EInv, [SystemNext]_<<vars, deliveryVars>>
               PROVE  (IInv /\ KInv /\ DInv /\ EInv)'
    OBVIOUS
  <2>1. CASE [Next]_vars /\ UNCHANGED deliveryVars
    BY <2>1, NextStep, NextTrue, NextHonest, SessionBacked
  <2>2. CASE Delivery /\ UNCHANGED sessionVars
    BY <2>2, DeliveryReads, DeliveryBacked
  <2> QED
    BY <2>1, <2>2 DEF SystemNext
<1> QED
  BY <1>1, <1>2, PTL DEF System

\* The answer to an outside proposal is posted at most once, for a completed job
\* of a stopped session, under a spent approval, and the records of all answers
\* are true; session and deliveries together stay in the outbound budget.
THEOREM DeliveriesAreBacked == System => []DeliveryIsBacked
<1>1. ASSUME IInv, KInv, DInv, EInv PROVE DeliveryIsBacked
  <2>1. DeliveryTypeOK /\ OperationFits /\ RecordsBacked /\ WithinLimits
    BY <1>1 DEF EInv
  <2>2. ASSUME NEW r \in External, answer[r] # "none"
        PROVE  disk.job[r] = "completed" /\ computed[r] = 1
    <3>1. /\ disk # None /\ disk.job[r] = "completed" /\ r \in Roots /\ Rooted(disk) /\ Sound(disk)
      BY <1>1, <2>1, <2>2, RootFacts
         DEF RecordsBacked, RecordBacked, Material, DInv, KInv, RecordsTrue
    <3>2. r \in TasksOf(r)
      BY <3>1, PeerSessionAssumption DEF TasksOf, Roots
    <3>3. disk.compute[r] # "absent"
      BY <3>1 DEF Rooted
    <3>4. computed[r] = 1
      BY <3>1, <3>2, <3>3 DEF Sound, SoundIn, CompletionsIn
    <3> QED
      BY <3>1, <3>4
  <2>3. ASSUME NEW r \in External
        PROVE  /\ arrived[r] <= 1
               /\ answer[r] # "none" =>
                     /\ approval[r] \notin {"none", "requested", "approved"}
                     /\ delivered[r].posts = 1
                     /\ delivered[r].status \notin {"response-prepared", "response-authorized"}
               /\ delivered[r] # None =>
                     /\ delivered[r].status = "sent" => arrived[r] = 1
                     /\ delivered[r].status = "failed" => arrived[r] = 0 /\ answer[r] # "request"
    BY <2>1, <2>3 DEF RecordsBacked, RecordBacked, Unspent, Unposted
  <2> DEFINE responses == {r \in External : arrived[r] > 0}
             effects == {e \in Effects : posted[e] > 0}
  <2>4. responses \subseteq Posting
    BY <2>1 DEF RecordsBacked, RecordBacked, Posting
  <2>5. effects \subseteq Tried
    <3>1. \A e \in Effects : posted[e] > 0 => wire[e] = "posted"
      BY <1>1 DEF IInv, PostedOnce
    <3> QED
      BY <3>1 DEF Tried
  <2>6. Cardinality(responses \cup effects) <= Limits["outbound"]
    <3>1. IsFiniteSet(Tried) /\ IsFiniteSet(Posting)
      BY <1>1, <2>1, PostingCounts, FS_Subset DEF DInv, WithinLimits
    <3>2. /\ IsFiniteSet(responses) /\ Cardinality(responses) <= Cardinality(Posting)
          /\ IsFiniteSet(effects) /\ Cardinality(effects) <= Cardinality(Tried)
      BY <2>4, <2>5, <3>1, FS_Subset
    <3>3. /\ Cardinality(Tried) \in Nat /\ Cardinality(Posting) \in Nat
          /\ Cardinality(responses) \in Nat /\ Cardinality(effects) \in Nat
      BY <3>1, <3>2, FS_CardinalityType
    <3> HIDE DEF responses, effects
    <3>4. /\ Cardinality(responses \cup effects) <= Cardinality(responses) + Cardinality(effects)
          /\ Cardinality(responses \cup effects) \in Nat
      <4>1. IsFiniteSet(responses \cup effects) /\ IsFiniteSet(responses \cap effects)
        BY <3>2, FS_Union, FS_Intersection
      <4>2. /\ Cardinality(responses \cap effects) \in Nat
            /\ Cardinality(responses \cup effects) \in Nat
        BY <4>1, FS_CardinalityType
      <4>3. Cardinality(responses \cup effects) =
                Cardinality(responses) + Cardinality(effects) - Cardinality(responses \cap effects)
        BY <3>2, FS_Union
      <4> QED
        BY <3>3, <4>2, <4>3
    <3>5. CASE disk # None
      <4>1. /\ disk.spent["outbound"] \in Nat /\ Limits["outbound"] \in Nat
            /\ Cardinality(Tried) <= disk.spent["outbound"] /\ disk.spent["outbound"] <= Limits["outbound"]
        BY <1>1, <3>5, SpentFacts DEF DInv, Counted, IInv, TypeOK
      <4>2. CASE Posting # {}
        BY <2>1, <3>2, <3>3, <3>4, <4>1, <4>2 DEF WithinLimits
      <4>3. CASE Posting = {}
        <5>1. Cardinality(Posting) = 0
          BY <4>3, FS_EmptySet
        <5> QED
          BY <3>2, <3>3, <3>4, <4>1, <5>1
      <4> QED
        BY <4>2, <4>3
    <3>6. CASE disk = None
      <4>1. Posting = {} /\ Tried = {}
        <5>1. Posting = {}
          BY <1>1, <2>1, <3>6, PostingCounts
        <5>2. pc # "sending" /\ \A e \in Effects : wire[e] = "none"
          BY <1>1, <3>6 DEF IInv, NoRecordNoWire, IntentFirst
        <5> QED
          BY <5>1, <5>2 DEF Tried
      <4>2. Cardinality(Posting) = 0 /\ Cardinality(Tried) = 0
        BY <4>1, FS_EmptySet
      <4> QED
        BY <3>2, <3>3, <3>4, <4>2, SpentFacts
    <3> QED
      BY <3>5, <3>6
  <2> QED
    BY <2>1, <2>2, <2>3, <2>6 DEF DeliveryIsBacked
<1> QED
  BY <1>1, SystemInvariant, PTL

-----------------------------------------------------------------------------
(* The session beside the delivery process keeps its promises.             *)

\* With the delivery process beside it, a session has no effect accepted twice and
\* owns up to every POST, its completed jobs are backed, and its cursors pass only
\* what it has taken in.
THEOREM SystemIsSafe == System => [](EffectsAreAccounted /\ CompletedIsBacked /\ AcknowledgedIsRecorded)
<1>1. IInv /\ KInv => EffectsAreAccounted /\ CompletedIsBacked /\ AcknowledgedIsRecorded
  BY AccountedFor, CompletedBacked, AcknowledgedRecorded
<1> QED
  BY <1>1, SystemInvariant, PTL

\* And delegated work goes out, is done and comes back once.
THEOREM SystemDelegatesOnce == System => ImplementsDelegation
<1>1. SystemInit => Promise!Init
  BY InitDelegates DEF SystemInit
<1>2. IInv /\ KInv /\ [SystemNext]_<<vars, deliveryVars>> => [Promise!Next]_(Promise!vars)
  <2>1. UNCHANGED sessionVars => UNCHANGED Promise!vars
    BY DEF sessionVars, network, Promise!vars, Through
  <2> QED
    BY <2>1, NextDelegates DEF SystemNext
<1> QED
  BY <1>1, <1>2, SystemInvariant, PTL DEF System, ImplementsDelegation, Promise!Spec

=============================================================================
