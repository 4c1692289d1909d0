------------------------ MODULE ExternalBootstrapProofs ------------------------
(***************************************************************************)
(* Proofs about ExternalBootstrap for every set of handshakes and every    *)
(* bound: what is written can be read again, verdicts tell the truth, a    *)
(* silence was observed, the cursor moves behind evidence only, acceptance *)
(* is backed, and a bootstrap is one exchange.                             *)
(*                                                                         *)
(* The argument: a handshake has one operation at a time, so a step is     *)
(* about one handshake (Touches) and the invariant is one statement about  *)
(* each.  Sending is about the approval, the POST and the offers that      *)
(* arrived; Stands and Observed about what the record on disk says of them *)
(* and of what is retained of the read; Informed about what the operation  *)
(* under way knows at each of its locations: that its copy is the record,  *)
(* or how it differs.  Death or a thrown step leaves the files as they     *)
(* are, so that whatever is written has to satisfy Stands and Observed on  *)
(* its own.                                                                *)
(***************************************************************************)
EXTENDS ExternalBootstrap, TLAPS

\* The states of a record whose room was not read yet, and the verdicts on it.
Unread == {"PREPARED", "AUTHORIZED", "SENDING", "SENT"}
Judged == {"ACCEPTED_EVIDENCE", "REJECTED", "INVALID_RESPONSE"}

\* An offer is sent once, under a grant, and the room is read once.
Sending(h) ==
    /\ approval[h] = "none" => record[h] = None
    /\ approval[h] \in {"none", "requested", "approved"} => wire[h] = "none"
    /\ wire[h] \in {"none", "request", "refused"} => arrived[h] = 0
    /\ wire[h] = "posted" => arrived[h] = 1
    /\ arrived[h] \in {0, 1} /\ gets[h] \in {0, 1}
    /\ record[h] = None =>
        /\ wire[h] = "none" /\ gets[h] = 0 /\ checkpoint[h] = None /\ ~proposal[h]
        /\ pc[h] \in {"idle", "create"}
    /\ pc[h] = "create" => record[h] = None /\ approval[h] # "none"

\* What a record says of the exchange.
Stands(h, r) ==
    /\ Readable(r)
    /\ r.state \in {"PREPARED", "AUTHORIZED"} => wire[h] = "none"
    /\ r.state = "REJECTED" /\ r.response = None => wire[h] \in {"none", "refused"}
    /\ r.receipt => arrived[h] = 1
    /\ r.state \in Unread => r.reads = 0
    /\ r.reads = 0 => gets[h] = 0 /\ ~r.linked
    /\ r.response # None => r.state \in Judged /\ r.linked
    /\ r.state = "NO_RESPONSE" => r.linked /\ h \in expired
    /\ proposal[h] => r.state = "ACCEPTED_EVIDENCE"

\* What is retained of the one read, and what the record makes of it.
Observed(h, r) ==
    /\ checkpoint[h] # None =>
        /\ gets[h] = 1
        /\ LET cp == checkpoint[h] IN
           cp.lo = r.since /\ r.since <= cp.last /\ cp.last <= cp.hi =>
              cp.hi = cp.last /\ (cp.matching = {} => ~missed[h])
    /\ r.linked =>
        /\ checkpoint[h] # None /\ checkpoint[h].stage = "final" /\ ~r.failure
        /\ r.response # "unsafe" => ~Unsafe(r, checkpoint[h])
        /\ r.response = None => checkpoint[h].matching = {}
        /\ r.response \in Kinds =>
              \E m \in checkpoint[h].matching : checkpoint[h].matching = {m} /\ m[2] = r.response
    /\ r.cursor # r.since => r.linked /\ r.response # "unsafe" /\ r.cursor = checkpoint[h].hi

Stored(h) == record[h] # None => Stands(h, record[h]) /\ Observed(h, record[h])

\* What an operation o that is at l knows of the record r it works on, of its copy
\* c and of the approval a.
Informed(h, l, o, r, c, a) ==
    LET same == c = r
        awaits == same /\ r.state = "AWAITING_RESPONSE" /\ o \in {"receive", "timeout"}
        whole == same /\ r.linked /\ r.response # "unsafe"
    IN
    /\ l = "authorize" =>
          r.state = "PREPARED" /\ c = [r EXCEPT !.state = "AUTHORIZED"] /\ a = "approved"
    /\ l = "unlock" => same /\ r.state = "AUTHORIZED"
    /\ l \in {"consumed", "dispatch"} =>
          same /\ r.state = "AUTHORIZED" /\ a = "executing"
    /\ l = "intent" => same /\ r.state = "SENDING" /\ a = "executing" /\ wire[h] = "none"
    /\ l = "await" => same /\ r.state = "SENDING" /\ a = "executing"
    /\ l \in {"confirm", "sent"} => same /\ r.state = "SENDING" /\ r.receipt
    /\ l = "awaiting" => same /\ r.state = "SENT"
    /\ l = "conclude" =>
          /\ r.state \in {"AUTHORIZED", "SENDING", "SENT"}
          /\ c \in Records /\ c.state \in {"REJECTED", "AMBIGUOUS_DELIVERY"} /\ Readable(c)
          /\ c = [r EXCEPT !.state = c.state, !.posts = c.posts]
          /\ c.state = "REJECTED" => wire[h] \in {"none", "refused"}
    /\ l = "recover" => awaits
    /\ l = "read" => awaits /\ r.reads = 1 /\ ~r.linked /\ gets[h] = 0 /\ checkpoint[h] = None
    /\ l = "persist" => awaits /\ ~r.linked /\ checkpoint[h] # None
    /\ l = "process" => awaits /\ ~r.linked /\ checkpoint[h] # None /\ checkpoint[h].stage = "final"
    /\ l = "cursor" =>
          /\ whole
          /\ o = "timeout" => r.state = "AWAITING_RESPONSE" \/ r.response # None
          /\ o = "proposal" => r.state = "ACCEPTED_EVIDENCE"
    /\ l = "acked" => whole /\ (o = "proposal" => r.state = "ACCEPTED_EVIDENCE")
    /\ l = "timeout" => awaits /\ o = "timeout"
    /\ l \in {"propose", "proposed"} => same /\ r.state = "ACCEPTED_EVIDENCE"

Knows(h) == Informed(h, pc[h], op[h], record[h], copy[h], approval[h])

IInv == TypeOK /\ \A h \in Handshakes : Sending(h) /\ Stored(h) /\ Knows(h)

-----------------------------------------------------------------------------
(* What a step may do.                                                     *)

Approvals == {"none", "requested", "approved", "executing", "confirmed", "ambiguous", "failed"}

Sets(f, g, h, S) == g = f \/ \E v \in S : g = [f EXCEPT ![h] = v]

\* It is about one handshake.
Touches(h) ==
    /\ Sets(record, record', h, Records \cup {None}) /\ Sets(approval, approval', h, Approvals)
    /\ Sets(checkpoint, checkpoint', h, Checkpoints \cup {None}) /\ Sets(proposal, proposal', h, BOOLEAN)
    /\ Sets(pc, pc', h, Locations)
    /\ Sets(op, op', h, {"none", "receive", "timeout", "proposal"})
    /\ Sets(copy, copy', h, Records \cup {None})
    /\ Sets(wire, wire', h, {"none", "request", "posted", "refused", "lost"})
    /\ Sets(placed, placed', h, [seq : Nat, generation : Nat])
    /\ Sets(arrived, arrived', h, Nat) /\ Sets(gets, gets', h, Nat) /\ Sets(missed, missed', h, BOOLEAN)
    /\ room' \in Seq(Messages) /\ dropped' \in Nat /\ generation' \in 0 .. MaxRestarts
    /\ expired \subseteq expired' /\ expired' \subseteq Handshakes /\ contradicted' \subseteq Handshakes
    /\ faults' \in 0 .. MaxFaults

Apart(h) ==
    \A k \in Handshakes \ {h} :
        /\ record'[k] = record[k] /\ approval'[k] = approval[k] /\ checkpoint'[k] = checkpoint[k]
        /\ proposal'[k] = proposal[k] /\ pc'[k] = pc[k] /\ op'[k] = op[k] /\ copy'[k] = copy[k]
        /\ wire'[k] = wire[k] /\ arrived'[k] = arrived[k] /\ gets'[k] = gets[k]
        /\ missed'[k] = missed[k]

LEMMA Apartness ==
    ASSUME TypeOK, NEW h \in Handshakes, Touches(h)
    PROVE  TypeOK' /\ Apart(h)
<1>1. /\ record' \in [Handshakes -> Records \cup {None}]
      /\ \A k \in Handshakes \ {h} : record'[k] = record[k]
  <2>1. record \in [Handshakes -> Records \cup {None}]
    BY DEF TypeOK
  <2>2. Sets(record, record', h, Records \cup {None})
    BY DEF Touches
  <2> QED
    BY <2>1, <2>2 DEF Sets
<1>2. /\ approval' \in [Handshakes -> Approvals]
      /\ \A k \in Handshakes \ {h} : approval'[k] = approval[k]
  <2>1. approval \in [Handshakes -> Approvals]
    BY DEF TypeOK, Approvals
  <2>2. Sets(approval, approval', h, Approvals)
    BY DEF Touches
  <2> QED
    BY <2>1, <2>2 DEF Sets
<1>3. /\ checkpoint' \in [Handshakes -> Checkpoints \cup {None}]
      /\ \A k \in Handshakes \ {h} : checkpoint'[k] = checkpoint[k]
  <2>1. checkpoint \in [Handshakes -> Checkpoints \cup {None}]
    BY DEF TypeOK
  <2>2. Sets(checkpoint, checkpoint', h, Checkpoints \cup {None})
    BY DEF Touches
  <2> QED
    BY <2>1, <2>2 DEF Sets
<1>4. /\ proposal' \in [Handshakes -> BOOLEAN]
      /\ \A k \in Handshakes \ {h} : proposal'[k] = proposal[k]
  <2>1. proposal \in [Handshakes -> BOOLEAN]
    BY DEF TypeOK
  <2>2. Sets(proposal, proposal', h, BOOLEAN)
    BY DEF Touches
  <2> QED
    BY <2>1, <2>2 DEF Sets
<1>5. /\ pc' \in [Handshakes -> Locations]
      /\ \A k \in Handshakes \ {h} : pc'[k] = pc[k]
  <2>1. pc \in [Handshakes -> Locations]
    BY DEF TypeOK
  <2>2. Sets(pc, pc', h, Locations)
    BY DEF Touches
  <2> QED
    BY <2>1, <2>2 DEF Sets
<1>6. /\ op' \in [Handshakes -> {"none", "receive", "timeout", "proposal"}]
      /\ \A k \in Handshakes \ {h} : op'[k] = op[k]
  <2>1. op \in [Handshakes -> {"none", "receive", "timeout", "proposal"}]
    BY DEF TypeOK
  <2>2. Sets(op, op', h, {"none", "receive", "timeout", "proposal"})
    BY DEF Touches
  <2> QED
    BY <2>1, <2>2 DEF Sets
<1>7. /\ copy' \in [Handshakes -> Records \cup {None}]
      /\ \A k \in Handshakes \ {h} : copy'[k] = copy[k]
  <2>1. copy \in [Handshakes -> Records \cup {None}]
    BY DEF TypeOK
  <2>2. Sets(copy, copy', h, Records \cup {None})
    BY DEF Touches
  <2> QED
    BY <2>1, <2>2 DEF Sets
<1>8. /\ wire' \in [Handshakes -> {"none", "request", "posted", "refused", "lost"}]
      /\ \A k \in Handshakes \ {h} : wire'[k] = wire[k]
  <2>1. wire \in [Handshakes -> {"none", "request", "posted", "refused", "lost"}]
    BY DEF TypeOK
  <2>2. Sets(wire, wire', h, {"none", "request", "posted", "refused", "lost"})
    BY DEF Touches
  <2> QED
    BY <2>1, <2>2 DEF Sets
<1>9. /\ placed' \in [Handshakes -> [seq : Nat, generation : Nat]]
      /\ \A k \in Handshakes \ {h} : placed'[k] = placed[k]
  <2>1. placed \in [Handshakes -> [seq : Nat, generation : Nat]]
    BY DEF TypeOK
  <2>2. Sets(placed, placed', h, [seq : Nat, generation : Nat])
    BY DEF Touches
  <2> QED
    BY <2>1, <2>2 DEF Sets
<1>10. /\ arrived' \in [Handshakes -> Nat]
      /\ \A k \in Handshakes \ {h} : arrived'[k] = arrived[k]
  <2>1. arrived \in [Handshakes -> Nat]
    BY DEF TypeOK
  <2>2. Sets(arrived, arrived', h, Nat)
    BY DEF Touches
  <2> QED
    BY <2>1, <2>2 DEF Sets
<1>11. /\ gets' \in [Handshakes -> Nat]
      /\ \A k \in Handshakes \ {h} : gets'[k] = gets[k]
  <2>1. gets \in [Handshakes -> Nat]
    BY DEF TypeOK
  <2>2. Sets(gets, gets', h, Nat)
    BY DEF Touches
  <2> QED
    BY <2>1, <2>2 DEF Sets
<1>12. /\ missed' \in [Handshakes -> BOOLEAN]
      /\ \A k \in Handshakes \ {h} : missed'[k] = missed[k]
  <2>1. missed \in [Handshakes -> BOOLEAN]
    BY DEF TypeOK
  <2>2. Sets(missed, missed', h, BOOLEAN)
    BY DEF Touches
  <2> QED
    BY <2>1, <2>2 DEF Sets
<1>13. TypeOK'
  BY <1>1, <1>2, <1>3, <1>4, <1>5, <1>6, <1>7, <1>8, <1>9, <1>10, <1>11, <1>12 DEF TypeOK, Touches, Approvals
<1> QED
  BY <1>1, <1>2, <1>3, <1>4, <1>5, <1>6, <1>7, <1>8, <1>9, <1>10, <1>11, <1>12, <1>13 DEF Apart

LEMMA OthersSound ==
    ASSUME IInv, NEW h \in Handshakes, Apart(h), expired \subseteq expired',
           NEW k \in Handshakes, k # h
    PROVE  Sending(k)' /\ Stored(k)' /\ Knows(k)'
<1>1. /\ record'[k] = record[k] /\ approval'[k] = approval[k] /\ checkpoint'[k] = checkpoint[k]
      /\ proposal'[k] = proposal[k] /\ pc'[k] = pc[k] /\ op'[k] = op[k] /\ copy'[k] = copy[k]
      /\ wire'[k] = wire[k] /\ arrived'[k] = arrived[k] /\ gets'[k] = gets[k]
      /\ missed'[k] = missed[k]
  BY DEF Apart
<1>2. Sending(k) /\ Stored(k) /\ Knows(k)
  BY DEF IInv
<1>3. Sending(k)'
  BY <1>1, <1>2 DEF Sending
<1>4. Stored(k)'
  <2>1. Stands(k, record[k]) => Stands(k, record[k])'
    BY <1>1 DEF Stands
  <2>2. Observed(k, record[k]) => Observed(k, record[k])'
    BY <1>1 DEF Observed
  <2> QED
    BY <1>1, <1>2, <2>1, <2>2 DEF Stored
<1>5. Knows(k)'
  BY <1>1, <1>2 DEF Knows, Informed
<1> QED
  BY <1>3, <1>4, <1>5

\* What the step means for the exchange.
Exchanges(h) ==
    \/ /\ arrived' = arrived /\ gets' = gets
       /\ \/ approval' = approval
          \/ /\ \E a \in Approvals \ {"none", "requested"} : approval' = [approval EXCEPT ![h] = a]
          \/ approval[h] \in {"none", "requested"} /\ approval' = [approval EXCEPT ![h] = "requested"]
    \/ /\ arrived' = [arrived EXCEPT ![h] = 1] /\ arrived[h] = 0
       /\ approval[h] \notin {"none", "requested"} /\ approval' = approval /\ gets' = gets
    \/ /\ gets' = [gets EXCEPT ![h] = 1] /\ gets[h] = 0
       /\ arrived[h] = 1 /\ approval' = approval /\ arrived' = arrived

LEMMA ExchangeStep ==
    ASSUME TypeOK, NEW h \in Handshakes, Exchanges(h)
    PROVE  [Exchange!Next]_(Exchange!vars)
<1> DEFINE Permitted == {k \in Handshakes : approval[k] \notin {"none", "requested"}}
<1>1. approval \in [Handshakes -> Approvals]
  BY DEF TypeOK, Approvals
<1>2. CASE arrived' = arrived /\ gets' = gets /\ approval' = approval
  BY <1>2 DEF Exchange!vars
<1>3. CASE /\ arrived' = arrived /\ gets' = gets
           /\ \E a \in Approvals \ {"none", "requested"} : approval' = [approval EXCEPT ![h] = a]
  <2>1. Permitted' = Permitted \cup {h}
    BY <1>1, <1>3
  <2>2. Exchange!Permit(h)
    BY <1>3, <2>1 DEF Exchange!Permit
  <2> QED
    BY <2>2 DEF Exchange!Next
<1>4. CASE /\ arrived' = arrived /\ gets' = gets
           /\ approval[h] \in {"none", "requested"} /\ approval' = [approval EXCEPT ![h] = "requested"]
  <2>1. Permitted' = Permitted
    BY <1>1, <1>4
  <2> QED
    BY <1>4, <2>1 DEF Exchange!vars
<1>5. CASE /\ arrived' = [arrived EXCEPT ![h] = 1] /\ arrived[h] = 0
           /\ approval[h] \notin {"none", "requested"} /\ approval' = approval /\ gets' = gets
  <2>1. Exchange!Accept(h)
    BY <1>5 DEF Exchange!Accept
  <2> QED
    BY <2>1 DEF Exchange!Next
<1>6. CASE /\ gets' = [gets EXCEPT ![h] = 1] /\ gets[h] = 0
           /\ arrived[h] = 1 /\ approval' = approval /\ arrived' = arrived
  <2>1. Exchange!Observe(h)
    BY <1>6 DEF Exchange!Observe
  <2> QED
    BY <2>1 DEF Exchange!Next
<1> QED
  BY <1>2, <1>3, <1>4, <1>5, <1>6 DEF Exchanges

Good == IInv' /\ [Exchange!Next]_(Exchange!vars)

LEMMA StepSound ==
    ASSUME IInv, NEW h \in Handshakes, Touches(h), Sending(h)', Stored(h)', Knows(h)', Exchanges(h)
    PROVE  Good
<1>1. TypeOK' /\ Apart(h)
  BY Apartness DEF IInv
<1>2. \A k \in Handshakes : Sending(k)' /\ Stored(k)' /\ Knows(k)'
  <2> SUFFICES ASSUME NEW k \in Handshakes PROVE Sending(k)' /\ Stored(k)' /\ Knows(k)'
    OBVIOUS
  <2>1. expired \subseteq expired'
    BY DEF Touches
  <2> QED
    BY <1>1, <2>1, OthersSound
<1> QED
  BY <1>1, <1>2, ExchangeStep DEF Good, IInv

LEMMA Works ==
    ASSUME IInv, NEW h \in Handshakes, NEW l \in Locations,
           NEW o \in {"none", "receive", "timeout", "proposal"},
           NEW r \in Records, NEW c \in Records \cup {None}, NEW a \in Approvals,
           record' = [record EXCEPT ![h] = r], approval' = [approval EXCEPT ![h] = a],
           pc' = [pc EXCEPT ![h] = l], op' = [op EXCEPT ![h] = o], copy' = [copy EXCEPT ![h] = c],
           faults' \in 0 .. MaxFaults, UNCHANGED <<checkpoint, proposal, wire, world, history>>,
           record[h] # None \/ pc[h] = "create",
           a = approval[h] \/ (a = "approved" /\ wire[h] = "none") \/ a \notin {"none", "requested", "approved"},
           l # "create", Stands(h, r), Observed(h, r), Informed(h, l, o, r, c, a)
    PROVE  Good
<1>1. /\ record'[h] = r /\ approval'[h] = a /\ pc'[h] = l /\ op'[h] = o /\ copy'[h] = c
      /\ r # None /\ Sending(h) /\ TypeOK
  BY FilesAssumption DEF IInv, TypeOK, Approvals
<1>2. UNCHANGED <<checkpoint, proposal, wire, placed, room, dropped, generation, expired,
                  contradicted, arrived, gets, missed>>
  BY DEF world, service, history
<1>3. Touches(h)
  <2>1. /\ Sets(record, record', h, Records \cup {None}) /\ Sets(approval, approval', h, Approvals)
        /\ Sets(pc, pc', h, Locations) /\ Sets(op, op', h, {"none", "receive", "timeout", "proposal"})
        /\ Sets(copy, copy', h, Records \cup {None})
    BY DEF Sets
  <2>2. /\ Sets(checkpoint, checkpoint', h, Checkpoints \cup {None})
        /\ Sets(proposal, proposal', h, BOOLEAN) /\ Sets(missed, missed', h, BOOLEAN)
        /\ Sets(wire, wire', h, {"none", "request", "posted", "refused", "lost"})
        /\ Sets(placed, placed', h, [seq : Nat, generation : Nat])
        /\ Sets(arrived, arrived', h, Nat) /\ Sets(gets, gets', h, Nat)
    BY <1>2 DEF Sets
  <2> QED
    BY <1>1, <1>2, <2>1, <2>2 DEF Touches, TypeOK
<1>4. Sending(h)'
  BY <1>1, <1>2 DEF Sending
<1>5. Stored(h)'
  <2>1. Stands(h, r) => Stands(h, record[h])'
    BY <1>1, <1>2 DEF Stands
  <2>2. Observed(h, r) => Observed(h, record[h])'
    BY <1>1, <1>2 DEF Observed
  <2> QED
    BY <2>1, <2>2 DEF Stored
<1>6. Knows(h)'
  BY <1>1, <1>2 DEF Knows, Informed
<1>7. Exchanges(h)
  <2>1. CASE a = approval[h]
    BY <1>1, <1>2, <2>1 DEF Exchanges, TypeOK, Approvals
  <2>2. CASE a # approval[h]
    BY <1>1, <1>2, <2>2 DEF Exchanges
  <2> QED
    BY <2>1, <2>2
<1> QED
  BY <1>3, <1>4, <1>5, <1>6, <1>7, StepSound

\* The same for an operation that is under way, or begins, on a record.
LEMMA Situation ==
    ASSUME IInv, NEW h \in Handshakes, record[h] # None \/ pc[h] \notin {"idle", "create"}
    PROVE  /\ record[h] \in Records /\ record[h] # None /\ approval[h] \in Approvals
           /\ op[h] \in {"none", "receive", "timeout", "proposal"} /\ pc[h] \in Locations
           /\ pc[h] # "create" /\ copy[h] \in Records \cup {None}
           /\ Stands(h, record[h]) /\ Observed(h, record[h])
           /\ Informed(h, pc[h], op[h], record[h], copy[h], approval[h])
           /\ Sending(h) /\ TypeOK
           /\ record = [record EXCEPT ![h] = record[h]]
           /\ approval = [approval EXCEPT ![h] = approval[h]]
           /\ op = [op EXCEPT ![h] = op[h]]
           /\ pc = [pc EXCEPT ![h] = pc[h]]
           /\ copy = [copy EXCEPT ![h] = copy[h]]
<1>1. TypeOK /\ Sending(h) /\ Stored(h) /\ Knows(h)
  BY DEF IInv
<1>2. record[h] # None /\ pc[h] # "create"
  BY <1>1 DEF Sending
<1>3. Stands(h, record[h]) /\ Observed(h, record[h])
  BY <1>1, <1>2 DEF Stored
<1>4. Informed(h, pc[h], op[h], record[h], copy[h], approval[h])
  BY <1>1 DEF Knows
<1> QED
  BY <1>1, <1>2, <1>3, <1>4 DEF TypeOK, Approvals

\* An operation that ends leaves its record behind.
LEMMA Leaves ==
    ASSUME IInv, NEW h \in Handshakes, NEW r \in Records, record' = [record EXCEPT ![h] = r], End(h),
           record[h] # None \/ pc[h] = "create",
           faults' \in 0 .. MaxFaults, UNCHANGED <<approval, checkpoint, proposal, wire, world, history>>,
           Stands(h, r), Observed(h, r)
    PROVE  Good
<1>1. /\ approval[h] \in Approvals /\ approval' = [approval EXCEPT ![h] = approval[h]]
      /\ "idle" \in Locations
  BY DEF IInv, TypeOK, Approvals, Locations
<1>2. /\ pc' = [pc EXCEPT ![h] = "idle"] /\ op' = [op EXCEPT ![h] = "none"]
      /\ copy' = [copy EXCEPT ![h] = None]
  BY DEF End
<1>3. Informed(h, "idle", "none", r, None, approval[h])
  BY DEF Informed
<1>4. /\ UNCHANGED <<checkpoint, proposal, wire, world, history>>
      /\ "idle" # "create" /\ None \in Records \cup {None}
      /\ "none" \in {"none", "receive", "timeout", "proposal"}
  OBVIOUS
<1> QED
  BY <1>1, <1>2, <1>3, <1>4, Works

\* One that goes on does so on the record that it has, or that it writes.
LEMMA Goes ==
    ASSUME IInv, NEW h \in Handshakes, NEW r \in Records, NEW c \in Records, NEW l \in Locations,
           record' = [record EXCEPT ![h] = r], Proceed(h, c, l), record[h] # None, l # "create",
           faults' \in 0 .. MaxFaults, UNCHANGED <<checkpoint, proposal, wire, world, history>>,
           NEW a \in Approvals, approval' = [approval EXCEPT ![h] = a],
           a = approval[h] \/ a \notin {"none", "requested", "approved"},
           Stands(h, r), Observed(h, r), Informed(h, l, op[h], r, c, a)
    PROVE  Good
<1>1. op[h] \in {"none", "receive", "timeout", "proposal"} /\ op = [op EXCEPT ![h] = op[h]]
  BY Situation
<1>2. /\ pc' = [pc EXCEPT ![h] = l] /\ op' = [op EXCEPT ![h] = op[h]]
      /\ copy' = [copy EXCEPT ![h] = c]
  BY <1>1 DEF Proceed
<1>3. /\ a = approval[h] \/ (a = "approved" /\ wire[h] = "none") \/ a \notin {"none", "requested", "approved"}
      /\ record[h] # None \/ pc[h] = "create"
      /\ c \in Records \cup {None}
  OBVIOUS
<1> QED
  BY <1>1, <1>2, <1>3, Works

-----------------------------------------------------------------------------
(* The steps of a send.                                                    *)

LEMMA CreateStep ==
    ASSUME IInv, NEW h \in Handshakes, Create(h)
    PROVE  Good
<1>1. record[h] = None /\ checkpoint[h] = None /\ Sending(h) /\ wire[h] = "none" /\ gets[h] = 0 /\ ~proposal[h]
  BY DEF IInv, Sending, Create
<1>2. New \in Records
  BY DEF New, Records, States
<1>3. Stands(h, New)
  BY <1>1, FilesAssumption DEF New, Stands, Readable, Unread
<1>4. Observed(h, New)
  BY <1>1, FilesAssumption DEF New, Observed, Kinds
<1>5. /\ record' = [record EXCEPT ![h] = New] /\ End(h) /\ pc[h] = "create"
      /\ faults' = faults /\ UNCHANGED <<approval, checkpoint, proposal, wire, world, history>>
  BY DEF Create, EndWith, Write
<1>6. faults' \in 0 .. MaxFaults
  BY <1>5 DEF IInv, TypeOK
<1> QED
  BY <1>2, <1>3, <1>4, <1>5, <1>6, Leaves

LEMMA AuthorizeStep ==
    ASSUME IInv, NEW h \in Handshakes, record[h] # None, Authorize(h)
    PROVE  Good
<1> DEFINE r == record[h]
           c == [r EXCEPT !.state = "AUTHORIZED"]
<1>1. /\ r \in Records /\ Stands(h, r) /\ Observed(h, r) /\ Sending(h) /\ TypeOK
      /\ record = [record EXCEPT ![h] = r]
  BY Situation
<1>2. /\ r.state = "PREPARED" /\ approval[h] \in {"requested", "approved"}
      /\ approval' = [approval EXCEPT ![h] = "approved"]
      /\ pc' = [pc EXCEPT ![h] = "authorize"] /\ op' = [op EXCEPT ![h] = "none"]
      /\ copy' = [copy EXCEPT ![h] = c] /\ record' = record /\ faults' = faults
      /\ UNCHANGED <<checkpoint, proposal, wire, world, history>>
  BY DEF Authorize, Open
<1>3. c \in Records
  BY <1>1 DEF Records, States
<1>4. wire[h] = "none"
  BY <1>1, <1>2 DEF Sending
<1>5. Informed(h, "authorize", "none", r, c, "approved")
  BY <1>2 DEF Informed
<1>6. "authorize" \in Locations /\ "approved" \in Approvals /\ faults' \in 0 .. MaxFaults
  BY <1>1, <1>2 DEF Locations, Approvals, TypeOK
<1>7. /\ record' = [record EXCEPT ![h] = r] /\ c \in Records \cup {None}
      /\ (record[h] # None \/ pc[h] = "create") /\ "authorize" # "create"
  BY <1>1, <1>2, <1>3
<1> HIDE DEF r, c
<1> QED
  BY <1>1, <1>2, <1>4, <1>5, <1>6, <1>7, Works

LEMMA WriteAuthorizedStep ==
    ASSUME IInv, NEW h \in Handshakes, WriteAuthorized(h)
    PROVE  Good
<1> DEFINE r == record[h]
           c == copy[h]
<1>1. /\ pc[h] = "authorize" /\ record' = [record EXCEPT ![h] = c] /\ End(h)
      /\ faults' = faults /\ UNCHANGED <<approval, checkpoint, proposal, wire, world, history>>
  BY DEF WriteAuthorized, EndWith, Write
<1>2. /\ r \in Records /\ record[h] # None /\ Stands(h, r) /\ Observed(h, r) /\ Sending(h) /\ TypeOK
      /\ Informed(h, pc[h], op[h], r, c, approval[h])
  BY <1>1, Situation
<1>3. r.state = "PREPARED" /\ c = [r EXCEPT !.state = "AUTHORIZED"]
  BY <1>1, <1>2 DEF Informed
<1>4. /\ c \in Records /\ c.state = "AUTHORIZED" /\ c.posts = r.posts /\ c.receipt = r.receipt
      /\ c.reads = r.reads /\ c.response = r.response /\ c.linked = r.linked /\ c.failure = r.failure
      /\ c.since = r.since /\ c.cursor = r.cursor /\ c.generation = r.generation
  BY <1>2, <1>3 DEF Records, States
<1> HIDE DEF r, c
<1>5. Stands(h, c)
  BY <1>2, <1>3, <1>4 DEF Stands, Readable, Unread, Judged
<1>6. Observed(h, c)
  BY <1>2, <1>4 DEF Observed, Unsafe
<1>7. faults' \in 0 .. MaxFaults
  BY <1>1, <1>2 DEF TypeOK
<1> QED
  BY <1>1, <1>2, <1>4, <1>5, <1>6, <1>7, Leaves

LEMMA SendStep ==
    ASSUME IInv, NEW h \in Handshakes, record[h] # None, Send(h)
    PROVE  Good
<1> DEFINE r == record[h]
           c == [r EXCEPT !.state = "REJECTED"]
<1>1. /\ r \in Records /\ Stands(h, r) /\ Observed(h, r) /\ Sending(h) /\ TypeOK
      /\ record = [record EXCEPT ![h] = r] /\ approval = [approval EXCEPT ![h] = approval[h]]
      /\ op = [op EXCEPT ![h] = op[h]] /\ pc = [pc EXCEPT ![h] = pc[h]]
      /\ copy = [copy EXCEPT ![h] = copy[h]] /\ approval[h] \in Approvals
      /\ op[h] \in {"none", "receive", "timeout", "proposal"} /\ pc[h] \in Locations
      /\ copy[h] \in Records \cup {None}
  BY Situation
<1>2. /\ r.state = "AUTHORIZED" /\ faults' = faults
      /\ UNCHANGED <<approval, checkpoint, proposal, wire, world, history>>
  BY DEF Send
<1>3. faults' \in 0 .. MaxFaults
  BY <1>1, <1>2 DEF TypeOK
<1>4. CASE h \in expired
  <2>1. /\ pc[h] = "idle" /\ record' = [record EXCEPT ![h] = c]
        /\ pc' = pc /\ op' = op /\ copy' = copy
    BY <1>4 DEF Send, Write, local
  <2>2. /\ c \in Records /\ c.state = "REJECTED" /\ c.posts = r.posts /\ c.receipt = r.receipt
        /\ c.reads = r.reads /\ c.response = r.response /\ c.linked = r.linked /\ c.failure = r.failure
        /\ c.since = r.since /\ c.cursor = r.cursor /\ c.generation = r.generation
    BY <1>1 DEF Records, States
  <2> HIDE DEF r, c
  <2>3. Stands(h, c)
    BY <1>1, <1>2, <2>2 DEF Stands, Readable, Unread, Judged, r
  <2>4. Observed(h, c)
    BY <1>1, <2>2 DEF Observed, Unsafe
  <2>5. Informed(h, pc[h], op[h], c, copy[h], approval[h])
    BY <2>1 DEF Informed
  <2>6. /\ pc' = [pc EXCEPT ![h] = pc[h]] /\ op' = [op EXCEPT ![h] = op[h]]
        /\ copy' = [copy EXCEPT ![h] = copy[h]] /\ approval' = [approval EXCEPT ![h] = approval[h]]
    BY <1>1, <1>2, <2>1
  <2>7. /\ UNCHANGED <<checkpoint, proposal, wire, world, history>>
        /\ pc[h] \in Locations /\ op[h] \in {"none", "receive", "timeout", "proposal"}
        /\ c \in Records /\ copy[h] \in Records \cup {None} /\ approval[h] \in Approvals
        /\ record[h] # None \/ pc[h] = "create"
        /\ pc[h] # "create"
    BY <1>1, <1>2, <2>1, <2>2
  <2> QED
    BY <1>3, <2>1, <2>3, <2>4, <2>5, <2>6, <2>7, Works
<1>5. CASE h \notin expired
  <2>1. /\ record' = record /\ pc' = [pc EXCEPT ![h] = "unlock"] /\ op' = [op EXCEPT ![h] = "none"]
        /\ copy' = [copy EXCEPT ![h] = r]
    BY <1>5 DEF Send, Open
  <2>2. Informed(h, "unlock", "none", r, r, approval[h])
    BY <1>2 DEF Informed
  <2>3. /\ "unlock" \in Locations /\ (record[h] # None \/ pc[h] = "create") /\ "unlock" # "create"
        /\ record' = [record EXCEPT ![h] = r] /\ approval' = [approval EXCEPT ![h] = approval[h]]
        /\ r \in Records \cup {None}
    BY <1>1, <1>2, <2>1 DEF Locations
  <2> HIDE DEF r
  <2> QED
    BY <1>1, <1>2, <1>3, <2>1, <2>2, <2>3, Works
<1> QED
  BY <1>4, <1>5

\* Whatever is thrown: the outcome may be written, and nothing was sent if it says so.
LEMMA Fails ==
    ASSUME IInv, NEW h \in Handshakes, NEW c \in Records, NEW refused \in BOOLEAN, NEW a \in Approvals,
           Fail(h, c, refused, a), record' = record, record[h] # None,
           record[h].state \in {"AUTHORIZED", "SENDING", "SENT"},
           c = [record[h] EXCEPT !.state = c.state, !.posts = c.posts],
           c.posts = 0 \/ refused => wire[h] \in {"none", "refused"},
           a = approval[h] \/ a \notin {"none", "requested", "approved"},
           faults' \in 0 .. MaxFaults, UNCHANGED <<checkpoint, proposal, wire, world, history>>
    PROVE  Good
<1> DEFINE r == record[h]
           d == [c EXCEPT !.state = Outcome(c, refused)]
<1>1. /\ r \in Records /\ Stands(h, r) /\ Observed(h, r) /\ record = [record EXCEPT ![h] = r]
  BY Situation
<1>2. Proceed(h, d, "conclude") /\ approval' = [approval EXCEPT ![h] = a]
  BY DEF Fail
<1>3. /\ Outcome(c, refused) \in {"REJECTED", "AMBIGUOUS_DELIVERY"}
      /\ Outcome(c, refused) = "REJECTED" => wire[h] \in {"none", "refused"}
      /\ Outcome(c, refused) # "REJECTED" => c.posts # 0
  BY DEF Outcome
<1>4. d \in Records /\ d.state = Outcome(c, refused) /\ d.posts = c.posts /\ d.response = c.response
  BY <1>3 DEF Records, States
<1>5. d = [r EXCEPT !.state = d.state, !.posts = d.posts]
  BY <1>1, <1>4 DEF Records
<1>6. c.posts \in 0 .. 1
  BY DEF Records
<1> HIDE DEF d
<1>7. Readable(d)
  BY <1>3, <1>4, <1>6 DEF Readable
<1>8. Informed(h, "conclude", op[h], r, d, a)
  BY <1>3, <1>4, <1>5, <1>7 DEF Informed
<1>9. /\ "conclude" \in Locations /\ "conclude" # "create" /\ record' = [record EXCEPT ![h] = r]
  BY <1>1 DEF Locations
<1> HIDE DEF r
<1> QED
  BY <1>1, <1>2, <1>4, <1>8, <1>9, Goes

\* A step of an operation that leaves the record alone.
LEMMA GoesOn ==
    ASSUME IInv, NEW h \in Handshakes, NEW l \in Locations, Proceed(h, copy[h], l),
           record' = record, record[h] # None, copy[h] = record[h], l # "create",
           faults' \in 0 .. MaxFaults, UNCHANGED <<checkpoint, proposal, wire, world, history>>,
           NEW a \in Approvals, approval' = [approval EXCEPT ![h] = a],
           a = approval[h] \/ a \notin {"none", "requested", "approved"},
           Informed(h, l, op[h], record[h], record[h], a)
    PROVE  Good
<1> DEFINE r == record[h]
<1>1. r \in Records /\ Stands(h, r) /\ Observed(h, r) /\ record = [record EXCEPT ![h] = r]
  BY Situation
<1>2. Proceed(h, r, l) /\ record' = [record EXCEPT ![h] = r]
  BY <1>1
<1>3. record[h] # None /\ Informed(h, l, op[h], r, r, a)
  OBVIOUS
<1> HIDE DEF r
<1> QED
  BY <1>1, <1>2, <1>3, Goes

LEMMA ConsumeStep ==
    ASSUME IInv, NEW h \in Handshakes, Consume(h)
    PROVE  Good
<1> DEFINE r == record[h]
<1>1. pc[h] = "unlock" /\ record' = record /\ UNCHANGED <<checkpoint, proposal, wire, world, history>>
  BY DEF Consume
<1>2. /\ r \in Records /\ record[h] # None /\ Stands(h, r) /\ approval[h] \in Approvals /\ TypeOK
      /\ Informed(h, pc[h], op[h], r, copy[h], approval[h])
  BY <1>1, Situation
<1>3. copy[h] = r /\ r.state = "AUTHORIZED" /\ wire[h] = "none"
  BY <1>1, <1>2 DEF Informed, Stands
<1>4. CASE /\ approval' = [approval EXCEPT ![h] = "executing"]
           /\ Proceed(h, copy[h], "consumed") /\ UNCHANGED faults
  <2>1. Informed(h, "consumed", op[h], r, r, "executing")
    BY <1>3 DEF Informed
  <2>2. /\ "consumed" \in Locations /\ "consumed" # "create" /\ "executing" \in Approvals
        /\ faults' \in 0 .. MaxFaults
    BY <1>2, <1>4 DEF Locations, Approvals, TypeOK
  <2> QED
    BY <1>1, <1>2, <1>3, <1>4, <2>1, <2>2, GoesOn
<1>5. CASE Fail(h, copy[h], TRUE, approval[h]) /\ (UNCHANGED faults \/ Fault)
  <2>1. faults' \in 0 .. MaxFaults
    BY <1>2, <1>5, ExternalBootstrapAssumption DEF Fault, TypeOK
  <2>2. r = [record[h] EXCEPT !.state = r.state, !.posts = r.posts]
    BY <1>2 DEF Records
  <2>3. Fail(h, r, TRUE, approval[h]) /\ TRUE \in BOOLEAN
    BY <1>3, <1>5
  <2>4. record[h].state \in {"AUTHORIZED", "SENDING", "SENT"} /\ wire[h] \in {"none", "refused"}
    BY <1>3
  <2> HIDE DEF r
  <2> QED
    BY <1>1, <1>2, <2>1, <2>2, <2>3, <2>4, Fails
<1> QED
  BY <1>4, <1>5 DEF Consume

LEMMA ReserveStep ==
    ASSUME IInv, NEW h \in Handshakes, Reserve(h)
    PROVE  Good
<1> DEFINE r == record[h]
<1>1. pc[h] = "consumed" /\ record' = record /\ UNCHANGED <<checkpoint, proposal, wire, world, history>>
  BY DEF Reserve
<1>2. /\ r \in Records /\ record[h] # None /\ Stands(h, r) /\ approval[h] \in Approvals /\ TypeOK
      /\ Informed(h, pc[h], op[h], r, copy[h], approval[h])
      /\ approval = [approval EXCEPT ![h] = approval[h]]
  BY <1>1, Situation
<1>3. copy[h] = r /\ r.state = "AUTHORIZED" /\ wire[h] = "none" /\ approval[h] = "executing"
  BY <1>1, <1>2 DEF Informed, Stands
<1>4. CASE Proceed(h, copy[h], "dispatch") /\ UNCHANGED <<approval, faults>>
  <2>1. Informed(h, "dispatch", op[h], r, r, approval[h])
    BY <1>3 DEF Informed
  <2>2. /\ "dispatch" \in Locations /\ "dispatch" # "create"
        /\ faults' \in 0 .. MaxFaults /\ approval' = [approval EXCEPT ![h] = approval[h]]
    BY <1>2, <1>4 DEF Locations, TypeOK
  <2> QED
    BY <1>1, <1>2, <1>3, <1>4, <2>1, <2>2, GoesOn
<1>5. CASE Fail(h, copy[h], TRUE, "failed") /\ (UNCHANGED faults \/ Fault)
  <2>1. faults' \in 0 .. MaxFaults
    BY <1>2, <1>5, ExternalBootstrapAssumption DEF Fault, TypeOK
  <2>2. r = [record[h] EXCEPT !.state = r.state, !.posts = r.posts]
    BY <1>2 DEF Records
  <2>3. /\ Fail(h, r, TRUE, "failed") /\ TRUE \in BOOLEAN
        /\ "failed" \in Approvals /\ "failed" \notin {"none", "requested", "approved"}
    BY <1>3, <1>5 DEF Approvals
  <2>4. record[h].state \in {"AUTHORIZED", "SENDING", "SENT"} /\ wire[h] \in {"none", "refused"}
    BY <1>3
  <2> HIDE DEF r
  <2> QED
    BY <1>1, <1>2, <2>1, <2>2, <2>3, <2>4, Fails
<1> QED
  BY <1>4, <1>5 DEF Reserve

LEMMA DispatchStep ==
    ASSUME IInv, NEW h \in Handshakes, Dispatch(h)
    PROVE  Good
<1> DEFINE r == record[h]
           sending == [r EXCEPT !.state = "SENDING", !.posts = 1]
<1>1. pc[h] = "dispatch" /\ UNCHANGED <<checkpoint, proposal, wire, world, history>>
  BY DEF Dispatch
<1>2. /\ r \in Records /\ record[h] # None /\ Stands(h, r) /\ Observed(h, r)
      /\ approval[h] \in Approvals /\ TypeOK
      /\ Informed(h, pc[h], op[h], r, copy[h], approval[h])
      /\ approval = [approval EXCEPT ![h] = approval[h]]
  BY <1>1, Situation
<1>3. copy[h] = r /\ r.state = "AUTHORIZED" /\ wire[h] = "none" /\ approval[h] = "executing"
  BY <1>1, <1>2 DEF Informed, Stands
<1>4. /\ sending \in Records /\ sending.state = "SENDING" /\ sending.posts = 1
      /\ sending.receipt = r.receipt /\ sending.reads = r.reads /\ sending.response = r.response
      /\ sending.linked = r.linked /\ sending.failure = r.failure /\ sending.since = r.since
      /\ sending.cursor = r.cursor /\ sending.generation = r.generation
  <2>1. "SENDING" \in States /\ 1 \in 0 .. 1
    BY DEF States
  <2> HIDE DEF r
  <2> QED
    BY <1>2, <2>1 DEF Records
<1>5. /\ "ambiguous" \in Approvals /\ "ambiguous" \notin {"none", "requested", "approved"}
      /\ FALSE \in BOOLEAN
      /\ record[h].state \in {"AUTHORIZED", "SENDING", "SENT"} /\ wire[h] \in {"none", "refused"}
  BY <1>3 DEF Approvals
<1>6. r = [record[h] EXCEPT !.state = r.state, !.posts = r.posts]
  BY <1>2 DEF Records
<1>7. sending = [record[h] EXCEPT !.state = sending.state, !.posts = sending.posts]
  BY <1>4
<1>8. CASE Write(h, sending) /\ Proceed(h, sending, "intent") /\ UNCHANGED <<approval, faults>>
  <2> HIDE DEF r, sending
  <2>1. Stands(h, sending)
    BY <1>2, <1>3, <1>4 DEF Stands, Readable, Unread, Judged
  <2>2. Observed(h, sending)
    BY <1>2, <1>4 DEF Observed, Unsafe
  <2>3. Informed(h, "intent", op[h], sending, sending, approval[h])
    BY <1>3, <1>4 DEF Informed
  <2>4. /\ "intent" \in Locations /\ "intent" # "create"
        /\ faults' \in 0 .. MaxFaults /\ approval' = [approval EXCEPT ![h] = approval[h]]
        /\ record' = [record EXCEPT ![h] = sending] /\ record[h] # None
        /\ Proceed(h, sending, "intent")
    BY <1>2, <1>8 DEF Locations, TypeOK, Write
  <2> QED
    BY <1>1, <1>2, <1>4, <2>1, <2>2, <2>3, <2>4, Goes
<1>9. CASE Fail(h, copy[h], FALSE, "ambiguous") /\ UNCHANGED <<record, faults>>
  <2>1. faults' \in 0 .. MaxFaults /\ record' = record
    BY <1>2, <1>9 DEF TypeOK
  <2>2. Fail(h, r, FALSE, "ambiguous")
    BY <1>3, <1>9
  <2> HIDE DEF r
  <2> QED
    BY <1>1, <1>2, <1>5, <1>6, <2>1, <2>2, Fails
<1>10. CASE Fault /\ Fail(h, sending, FALSE, "ambiguous") /\ UNCHANGED record
  <2>1. faults' \in 0 .. MaxFaults /\ record' = record
    BY <1>2, <1>10, ExternalBootstrapAssumption DEF TypeOK, Fault
  <2>2. Fail(h, sending, FALSE, "ambiguous")
    BY <1>10
  <2> HIDE DEF r, sending
  <2> QED
    BY <1>1, <1>2, <1>4, <1>5, <1>7, <2>1, <2>2, Fails
<1> QED
  BY <1>3, <1>8, <1>9, <1>10 DEF Dispatch

\* The request, and what the service makes of it.
LEMMA WireStep ==
    ASSUME IInv, NEW h \in Handshakes, NEW w \in {"request", "posted", "refused", "lost"},
           NEW n \in {0, 1}, record[h] # None,
           wire' = [wire EXCEPT ![h] = w], arrived' = [arrived EXCEPT ![h] = n],
           NEW l \in Locations, pc' = [pc EXCEPT ![h] = l],
           Sets(placed, placed', h, [seq : Nat, generation : Nat]),
           UNCHANGED <<record, approval, checkpoint, proposal, op, copy, dropped, generation, expired,
                       contradicted, faults, gets, missed>>,
           room' \in Seq(Messages),
           \/ pc[h] = "intent" /\ l = "await" /\ w = "request" /\ n = 0
           \/ /\ wire[h] = "request" /\ w # "request" /\ l = pc[h]
              /\ \/ w \in {"posted", "lost"} /\ n = 1
                 \/ w \in {"refused", "lost"} /\ n = 0
    PROVE  Good
<1> DEFINE r == record[h]
<1>1. /\ r \in Records /\ Stands(h, r) /\ Observed(h, r) /\ Sending(h) /\ TypeOK
      /\ Informed(h, pc[h], op[h], r, copy[h], approval[h]) /\ pc[h] # "create"
  BY Situation
<1>2. /\ wire'[h] = w /\ arrived'[h] = n /\ pc'[h] = l
      /\ record' = record /\ approval' = approval /\ checkpoint' = checkpoint /\ proposal' = proposal
      /\ op' = op /\ copy' = copy /\ gets' = gets /\ missed' = missed /\ expired' = expired
  BY <1>1 DEF TypeOK
<1>3. pc[h] = "intent" => approval[h] = "executing" /\ wire[h] = "none" /\ arrived[h] = 0
  BY <1>1 DEF Informed, Sending
<1>4. wire[h] = "request" => approval[h] \notin {"none", "requested", "approved"} /\ arrived[h] = 0
  BY <1>1 DEF Sending
<1>5. wire[h] = "request" =>
        /\ r.state \notin {"PREPARED", "AUTHORIZED"}
        /\ ~(r.state = "REJECTED" /\ r.response = None)
  BY <1>1 DEF Stands
<1>6. pc[h] = "intent" => r.state = "SENDING" /\ copy[h] = r
  BY <1>1 DEF Informed
<1>7. ~r.receipt
  BY <1>1, <1>3, <1>4 DEF Stands
<1>8. Touches(h)
  <2>1. /\ Sets(pc, pc', h, Locations) /\ Sets(arrived, arrived', h, Nat)
        /\ Sets(wire, wire', h, {"none", "request", "posted", "refused", "lost"})
    BY DEF Sets
  <2>2. /\ Sets(checkpoint, checkpoint', h, Checkpoints \cup {None})
        /\ Sets(proposal, proposal', h, BOOLEAN) /\ Sets(missed, missed', h, BOOLEAN)
        /\ Sets(gets, gets', h, Nat) /\ Sets(record, record', h, Records \cup {None})
        /\ Sets(approval, approval', h, Approvals) /\ Sets(copy, copy', h, Records \cup {None})
        /\ Sets(op, op', h, {"none", "receive", "timeout", "proposal"})
    BY <1>2 DEF Sets
  <2> QED
    BY <1>1, <2>1, <2>2 DEF Touches, TypeOK
<1>9. Sending(h)'
  BY <1>1, <1>2, <1>3, <1>4, <1>6 DEF Sending
<1> HIDE DEF r
<1>10. Stored(h)'
  <2>1. Stands(h, r)'
    BY <1>1, <1>2, <1>5, <1>6, <1>7 DEF Stands, r
  <2>2. Observed(h, r)'
    BY <1>1, <1>2 DEF Observed, r
  <2> QED
    BY <2>1, <2>2 DEF Stored, r
<1>11. Knows(h)'
  <2>1. CASE l = "await"
    BY <1>1, <1>2, <1>3, <1>6, <2>1 DEF Knows, Informed, r
  <2>2. CASE l # "await"
    BY <1>1, <1>2, <2>2 DEF Knows, Informed, r
  <2> QED
    BY <2>1, <2>2
<1>12. Exchanges(h)
  <2>1. CASE n = 1
    BY <1>2, <1>4, <2>1 DEF Exchanges
  <2>2. CASE n = 0
    <3>1. arrived' = arrived
      BY <1>1, <1>3, <1>4, <2>2 DEF TypeOK
    <3> QED
      BY <1>2, <3>1 DEF Exchanges
  <2> QED
    BY <2>1, <2>2
<1> QED
  BY <1>8, <1>9, <1>10, <1>11, <1>12, StepSound

LEMMA PostStep ==
    ASSUME IInv, NEW h \in Handshakes, Post(h)
    PROVE  Good
<1> DEFINE r == record[h]
           c == [r EXCEPT !.posts = 0]
<1>1. /\ pc[h] = "intent"
      /\ UNCHANGED <<record, checkpoint, proposal, world, faults, history>>
  BY DEF Post
<1>2. /\ r \in Records /\ record[h] # None /\ Stands(h, r)
      /\ approval[h] \in Approvals /\ TypeOK /\ Sending(h)
      /\ Informed(h, pc[h], op[h], r, copy[h], approval[h])
      /\ copy = [copy EXCEPT ![h] = copy[h]]
  BY <1>1, Situation
<1>3. copy[h] = r /\ r.state = "SENDING" /\ wire[h] = "none" /\ arrived[h] = 0
  BY <1>1, <1>2 DEF Informed, Sending
<1>4. CASE Fail(h, [copy[h] EXCEPT !.posts = 0], FALSE, "ambiguous") /\ UNCHANGED wire
  <2>1. c \in Records
    BY <1>2 DEF Records
  <2>2. c = [record[h] EXCEPT !.state = c.state, !.posts = c.posts]
    BY <1>2 DEF Records
  <2>3. /\ "ambiguous" \in Approvals /\ "ambiguous" \notin {"none", "requested", "approved"}
        /\ FALSE \in BOOLEAN /\ faults' \in 0 .. MaxFaults
        /\ record[h].state \in {"AUTHORIZED", "SENDING", "SENT"} /\ wire[h] \in {"none", "refused"}
        /\ record' = record /\ UNCHANGED <<checkpoint, proposal, wire, world, history>>
        /\ record[h] # None
    BY <1>1, <1>2, <1>3, <1>4 DEF Approvals, TypeOK
  <2>4. Fail(h, c, FALSE, "ambiguous")
    BY <1>3, <1>4
  <2> HIDE DEF r, c
  <2> QED
    BY <2>1, <2>2, <2>3, <2>4, Fails
<1>5. CASE /\ wire' = [wire EXCEPT ![h] = "request"]
           /\ Proceed(h, copy[h], "await") /\ UNCHANGED approval
  <2>1. /\ UNCHANGED <<record, approval, checkpoint, proposal, op, copy, dropped, generation, expired,
                       contradicted, faults, gets, missed>>
        /\ placed' = placed /\ room' = room /\ arrived' = arrived
        /\ pc' = [pc EXCEPT ![h] = "await"]
    BY <1>1, <1>2, <1>5 DEF Proceed, world, service, history
  <2>2. /\ arrived' = [arrived EXCEPT ![h] = 0] /\ room' \in Seq(Messages)
        /\ Sets(placed, placed', h, [seq : Nat, generation : Nat])
        /\ "await" \in Locations /\ 0 \in {0, 1} /\ "request" \in {"request", "posted", "refused", "lost"}
    BY <1>2, <1>3, <2>1 DEF TypeOK, Sets, Locations
  <2> QED
    BY <1>1, <1>2, <1>5, <2>1, <2>2, WireStep
<1> QED
  BY <1>4, <1>5 DEF Post

LEMMA AcceptStep ==
    ASSUME IInv, NEW h \in Handshakes, Accept(h)
    PROVE  Good
<1>1. /\ wire[h] = "request" /\ arrived' = [arrived EXCEPT ![h] = @ + 1]
      /\ UNCHANGED <<files, local, dropped, generation, expired, contradicted, faults, gets, missed>>
  BY DEF Accept
<1>2. record[h] # None /\ arrived[h] = 0 /\ TypeOK
  BY <1>1 DEF IInv, Sending
<1>3. PICK w \in {"posted", "lost"} : wire' = [wire EXCEPT ![h] = w]
  BY DEF Accept
<1>4. <<None, "other">> \in Messages /\ Len(room) \in Nat
  BY <1>2 DEF Messages, TypeOK
<1>5. room' \in Seq(Messages)
  BY <1>2, <1>4 DEF Accept, TypeOK
<1>6. Sets(placed, placed', h, [seq : Nat, generation : Nat])
  <2> DEFINE v == [seq |-> Len(room) + 1, generation |-> generation]
  <2>1. v \in [seq : Nat, generation : Nat]
    BY <1>2, <1>4, ExternalBootstrapAssumption DEF TypeOK
  <2>2. placed' = [placed EXCEPT ![h] = v]
    BY DEF Accept
  <2> HIDE DEF v
  <2> QED
    BY <2>1, <2>2 DEF Sets
<1>7. /\ UNCHANGED <<record, approval, checkpoint, proposal, op, copy, dropped, generation, expired,
                     contradicted, faults, gets, missed>>
      /\ pc' = [pc EXCEPT ![h] = pc[h]] /\ pc[h] \in Locations
      /\ arrived' = [arrived EXCEPT ![h] = 1] /\ 1 \in {0, 1}
      /\ w \in {"request", "posted", "refused", "lost"} /\ w # "request"
  BY <1>1, <1>2 DEF files, local, TypeOK
<1> QED
  BY <1>1, <1>2, <1>3, <1>5, <1>6, <1>7, WireStep

LEMMA RefuseStep ==
    ASSUME IInv, NEW h \in Handshakes, Refuse(h)
    PROVE  Good
<1>1. wire[h] = "request" /\ UNCHANGED <<files, local, world, faults, history>>
  BY DEF Refuse
<1>2. record[h] # None /\ arrived[h] = 0 /\ TypeOK
  BY <1>1 DEF IInv, Sending
<1>3. PICK w \in {"refused", "lost"} : wire' = [wire EXCEPT ![h] = w]
  BY DEF Refuse
<1>4. room' \in Seq(Messages) /\ Sets(placed, placed', h, [seq : Nat, generation : Nat])
  BY <1>1, <1>2 DEF Sets, TypeOK, world, service
<1>5. /\ UNCHANGED <<record, approval, checkpoint, proposal, op, copy, dropped, generation, expired,
                     contradicted, faults, gets, missed>>
      /\ pc' = [pc EXCEPT ![h] = pc[h]] /\ pc[h] \in Locations
      /\ arrived' = [arrived EXCEPT ![h] = 0] /\ 0 \in {0, 1}
      /\ w \in {"request", "posted", "refused", "lost"} /\ w # "request"
  BY <1>1, <1>2 DEF files, local, TypeOK, world, service, history
<1> QED
  BY <1>1, <1>2, <1>3, <1>4, <1>5, WireStep

LEMMA TimedOutStep ==
    ASSUME IInv, NEW h \in Handshakes, TimedOut(h)
    PROVE  Good
<1> DEFINE r == record[h]
<1>1. /\ pc[h] = "await" /\ Fail(h, copy[h], FALSE, "ambiguous")
      /\ UNCHANGED <<record, checkpoint, proposal, wire, world, faults, history>>
  BY DEF TimedOut
<1>2. /\ r \in Records /\ record[h] # None /\ Stands(h, r) /\ TypeOK
      /\ Informed(h, pc[h], op[h], r, copy[h], approval[h])
  BY <1>1, Situation
<1>3. copy[h] = r /\ r.state = "SENDING" /\ r.posts = 1
  BY <1>1, <1>2 DEF Informed, Stands, Readable
<1>4. r = [record[h] EXCEPT !.state = r.state, !.posts = r.posts]
  BY <1>2 DEF Records
<1>5. /\ "ambiguous" \in Approvals /\ "ambiguous" \notin {"none", "requested", "approved"}
      /\ FALSE \in BOOLEAN /\ faults' \in 0 .. MaxFaults /\ record' = record
      /\ record[h].state \in {"AUTHORIZED", "SENDING", "SENT"}
      /\ UNCHANGED <<checkpoint, proposal, wire, world, history>>
  BY <1>1, <1>2, <1>3 DEF Approvals, TypeOK
<1>6. ~(r.posts = 0 \/ FALSE)
  BY <1>3
<1>7. Fail(h, r, FALSE, "ambiguous")
  BY <1>1, <1>3
<1> HIDE DEF r
<1> QED
  BY <1>2, <1>4, <1>5, <1>6, <1>7, Fails

LEMMA AnsweredStep ==
    ASSUME IInv, NEW h \in Handshakes, Answered(h)
    PROVE  Good
<1> DEFINE r == record[h]
           c == Receipt(h)
<1>1. /\ pc[h] = "await"
      /\ UNCHANGED <<checkpoint, proposal, wire, world, faults, history>>
  BY DEF Answered
<1>2. /\ r \in Records /\ record[h] # None /\ Stands(h, r) /\ Observed(h, r) /\ TypeOK /\ Sending(h)
      /\ Informed(h, pc[h], op[h], r, copy[h], approval[h]) /\ approval[h] \in Approvals
      /\ approval = [approval EXCEPT ![h] = approval[h]]
  BY <1>1, Situation
<1>3. copy[h] = r /\ r.state = "SENDING" /\ r.posts = 1 /\ r.reads = 0 /\ ~r.linked /\ gets[h] = 0
  BY <1>1, <1>2 DEF Informed, Stands, Readable, Unread
<1>4. CASE /\ wire[h] = "posted"
           /\ Write(h, Receipt(h)) /\ Proceed(h, Receipt(h), "confirm") /\ UNCHANGED approval
  <2>1. placed[h].seq \in Nat /\ placed[h].generation \in Nat
    BY <1>2 DEF TypeOK
  <2>2. c = [r EXCEPT !.receipt = TRUE, !.since = placed[h].seq, !.cursor = placed[h].seq,
                      !.generation = placed[h].generation]
    BY <1>3 DEF Receipt
  <2> HIDE DEF r, c
  <2>3. /\ c \in Records /\ c.state = r.state /\ c.posts = r.posts /\ c.receipt
        /\ c.reads = r.reads /\ c.response = r.response /\ c.linked = r.linked
        /\ c.since = c.cursor
    BY <1>2, <2>1, <2>2 DEF Records
  <2>4. Stands(h, c)
    BY <1>2, <1>3, <1>4, <2>3 DEF Stands, Readable, Unread, Judged, Sending
  <2>5. Observed(h, c)
    BY <1>2, <1>3, <2>3 DEF Observed
  <2>6. Informed(h, "confirm", op[h], c, c, approval[h])
    BY <1>3, <2>3 DEF Informed
  <2>7. /\ "confirm" \in Locations /\ "confirm" # "create"
        /\ faults' \in 0 .. MaxFaults /\ approval' = [approval EXCEPT ![h] = approval[h]]
        /\ record' = [record EXCEPT ![h] = c] /\ record[h] # None
        /\ Proceed(h, c, "confirm") /\ UNCHANGED <<checkpoint, proposal, wire, world, history>>
    BY <1>1, <1>2, <1>4 DEF Locations, TypeOK, Write, c
  <2> QED
    BY <1>2, <2>3, <2>4, <2>5, <2>6, <2>7, Goes
<1>5. CASE wire[h] = "refused" /\ Fail(h, copy[h], TRUE, "failed") /\ UNCHANGED record
  <2>1. r = [record[h] EXCEPT !.state = r.state, !.posts = r.posts]
    BY <1>2 DEF Records
  <2>2. /\ "failed" \in Approvals /\ "failed" \notin {"none", "requested", "approved"}
        /\ TRUE \in BOOLEAN /\ faults' \in 0 .. MaxFaults /\ record' = record
        /\ record[h].state \in {"AUTHORIZED", "SENDING", "SENT"} /\ wire[h] \in {"none", "refused"}
        /\ UNCHANGED <<checkpoint, proposal, wire, world, history>>
        /\ Fail(h, r, TRUE, "failed")
    BY <1>1, <1>2, <1>3, <1>5 DEF Approvals, TypeOK
  <2> HIDE DEF r
  <2> QED
    BY <1>2, <2>1, <2>2, Fails
<1> QED
  BY <1>4, <1>5 DEF Answered

LEMMA ConfirmStep ==
    ASSUME IInv, NEW h \in Handshakes, Confirm(h)
    PROVE  Good
<1> DEFINE r == record[h]
<1>1. /\ pc[h] = "confirm" /\ record' = record
      /\ UNCHANGED <<checkpoint, proposal, wire, world, history>>
  BY DEF Confirm
<1>2. /\ r \in Records /\ record[h] # None /\ Stands(h, r) /\ TypeOK
      /\ Informed(h, pc[h], op[h], r, copy[h], approval[h])
  BY <1>1, Situation
<1>3. copy[h] = r /\ r.state = "SENDING" /\ r.posts = 1 /\ r.receipt
  BY <1>1, <1>2 DEF Informed, Stands, Readable
<1>4. CASE /\ approval' = [approval EXCEPT ![h] = "confirmed"]
           /\ Proceed(h, copy[h], "sent") /\ UNCHANGED faults
  <2>1. Informed(h, "sent", op[h], r, r, "confirmed")
    BY <1>3 DEF Informed
  <2>2. /\ "sent" \in Locations /\ "sent" # "create" /\ faults' \in 0 .. MaxFaults
        /\ "confirmed" \in Approvals /\ "confirmed" \notin {"none", "requested", "approved"}
    BY <1>2, <1>4 DEF Locations, TypeOK, Approvals
  <2> QED
    BY <1>1, <1>2, <1>3, <1>4, <2>1, <2>2, GoesOn
<1>5. CASE Fault /\ Fail(h, copy[h], FALSE, "ambiguous")
  <2>1. r = [record[h] EXCEPT !.state = r.state, !.posts = r.posts]
    BY <1>2 DEF Records
  <2>2. /\ "ambiguous" \in Approvals /\ "ambiguous" \notin {"none", "requested", "approved"}
        /\ FALSE \in BOOLEAN /\ faults' \in 0 .. MaxFaults
        /\ record[h].state \in {"AUTHORIZED", "SENDING", "SENT"}
    BY <1>2, <1>3, <1>5, ExternalBootstrapAssumption DEF Approvals, TypeOK, Fault
  <2>3. ~(r.posts = 0 \/ FALSE)
    BY <1>3
  <2>4. Fail(h, r, FALSE, "ambiguous")
    BY <1>3, <1>5
  <2> HIDE DEF r
  <2> QED
    BY <1>1, <1>2, <2>1, <2>2, <2>3, <2>4, Fails
<1> QED
  BY <1>4, <1>5 DEF Confirm

LEMMA WriteSentStep ==
    ASSUME IInv, NEW h \in Handshakes, WriteSent(h)
    PROVE  Good
<1> DEFINE r == record[h]
           next == IF pc[h] = "sent" THEN "SENT" ELSE "AWAITING_RESPONSE"
           c == [r EXCEPT !.state = next]
           d == [c EXCEPT !.state = "AMBIGUOUS_DELIVERY"]
<1>1. /\ pc[h] \in {"sent", "awaiting"}
      /\ UNCHANGED <<approval, checkpoint, proposal, wire, world, history>>
  BY DEF WriteSent
<1>2. /\ r \in Records /\ record[h] # None /\ Stands(h, r) /\ Observed(h, r) /\ TypeOK /\ Sending(h)
      /\ Informed(h, pc[h], op[h], r, copy[h], approval[h]) /\ approval[h] \in Approvals
      /\ approval = [approval EXCEPT ![h] = approval[h]]
      /\ record = [record EXCEPT ![h] = r]
  BY <1>1, Situation
<1>3. /\ copy[h] = r /\ r.state = (IF pc[h] = "sent" THEN "SENDING" ELSE "SENT")
      /\ r.posts = 1 /\ r.receipt /\ r.reads = 0
  BY <1>1, <1>2 DEF Informed, Stands, Readable, Unread
<1>4. c \in Records /\ d \in Records
  BY <1>2 DEF Records, States
<1>5. /\ c.state = next /\ c.posts = r.posts /\ c.receipt = r.receipt
      /\ c.reads = r.reads /\ c.response = r.response /\ c.linked = r.linked /\ c.failure = r.failure
      /\ c.since = r.since /\ c.cursor = r.cursor /\ c.generation = r.generation
  BY <1>2 DEF Records
<1>6. /\ d.state = "AMBIGUOUS_DELIVERY" /\ d.posts = 1
      /\ d = [r EXCEPT !.state = d.state, !.posts = d.posts]
  BY <1>2, <1>3 DEF Records
<1> HIDE DEF r, c, d
<1>7. Stands(h, c)
  BY <1>2, <1>3, <1>5 DEF Stands, Readable, Unread, Judged
<1>8. Observed(h, c)
  BY <1>2, <1>5 DEF Observed, Unsafe
<1>9. CASE Write(h, c) /\ UNCHANGED faults /\ pc[h] = "sent" /\ Proceed(h, c, "awaiting")
  <2>1. Informed(h, "awaiting", op[h], c, c, approval[h])
    BY <1>5, <1>9 DEF Informed
  <2>2. /\ "awaiting" \in Locations /\ "awaiting" # "create"
        /\ faults' \in 0 .. MaxFaults /\ approval' = [approval EXCEPT ![h] = approval[h]]
        /\ record' = [record EXCEPT ![h] = c] /\ record[h] # None
        /\ Proceed(h, c, "awaiting") /\ UNCHANGED <<checkpoint, proposal, wire, world, history>>
    BY <1>1, <1>2, <1>9 DEF Locations, TypeOK, Write
  <2> QED
    BY <1>2, <1>4, <1>7, <1>8, <2>1, <2>2, Goes
<1>10. CASE Write(h, c) /\ UNCHANGED faults /\ pc[h] # "sent" /\ End(h)
  <2>1. /\ faults' \in 0 .. MaxFaults /\ record[h] # None
        /\ record' = [record EXCEPT ![h] = c] /\ End(h)
    BY <1>2, <1>10 DEF TypeOK, Write
  <2> QED
    BY <1>1, <1>4, <1>7, <1>8, <2>1, Leaves
<1>11. CASE Fault /\ Proceed(h, d, "conclude") /\ UNCHANGED record
  <2>1. Readable(d)
    BY <1>6 DEF Readable
  <2>2. Informed(h, "conclude", op[h], r, d, approval[h])
    BY <1>3, <1>4, <1>6, <2>1 DEF Informed
  <2>3. /\ "conclude" \in Locations /\ "conclude" # "create"
        /\ faults' \in 0 .. MaxFaults /\ approval' = [approval EXCEPT ![h] = approval[h]]
        /\ record' = [record EXCEPT ![h] = r] /\ record[h] # None
        /\ Proceed(h, d, "conclude") /\ UNCHANGED <<checkpoint, proposal, wire, world, history>>
    BY <1>1, <1>2, <1>11, ExternalBootstrapAssumption DEF Locations, TypeOK, Fault
  <2> QED
    BY <1>2, <1>4, <2>2, <2>3, Goes
<1> QED
  BY <1>3, <1>9, <1>10, <1>11 DEF WriteSent, r, c, d

LEMMA ConcludeStep ==
    ASSUME IInv, NEW h \in Handshakes, Conclude(h)
    PROVE  Good
<1> DEFINE r == record[h]
           c == copy[h]
<1>1. /\ pc[h] = "conclude" /\ record' = [record EXCEPT ![h] = c] /\ End(h)
      /\ faults' = faults /\ UNCHANGED <<approval, checkpoint, proposal, wire, world, history>>
  BY DEF Conclude, EndWith, Write
<1>2. /\ r \in Records /\ record[h] # None /\ Stands(h, r) /\ Observed(h, r) /\ TypeOK
      /\ Informed(h, pc[h], op[h], r, copy[h], approval[h])
  BY <1>1, Situation
<1>3. /\ r.state \in {"AUTHORIZED", "SENDING", "SENT"}
      /\ c \in Records /\ c.state \in {"REJECTED", "AMBIGUOUS_DELIVERY"} /\ Readable(c)
      /\ c = [r EXCEPT !.state = c.state, !.posts = c.posts]
      /\ c.state = "REJECTED" => wire[h] \in {"none", "refused"}
  BY <1>1, <1>2 DEF Informed
<1>4. /\ c.receipt = r.receipt
      /\ c.reads = r.reads /\ c.response = r.response /\ c.linked = r.linked /\ c.failure = r.failure
      /\ c.since = r.since /\ c.cursor = r.cursor /\ c.generation = r.generation
  BY <1>2, <1>3 DEF Records
<1> HIDE DEF r, c
<1>5. Stands(h, c)
  BY <1>2, <1>3, <1>4 DEF Stands, Unread, Judged
<1>6. Observed(h, c)
  BY <1>2, <1>4 DEF Observed, Unsafe
<1>7. faults' \in 0 .. MaxFaults
  BY <1>1, <1>2 DEF TypeOK
<1> QED
  BY <1>1, <1>2, <1>3, <1>5, <1>6, <1>7, Leaves

-----------------------------------------------------------------------------
(* The steps of an observation.                                            *)

LEMMA Opens ==
    ASSUME IInv, NEW h \in Handshakes, NEW o \in {"none", "receive", "timeout", "proposal"},
           NEW l \in Locations, NEW r \in Records, NEW c \in Records, Open(h, o, c, l),
           record' = [record EXCEPT ![h] = r], record[h] # None, l # "create",
           UNCHANGED <<approval, checkpoint, proposal, wire, world, faults, history>>,
           Stands(h, r), Observed(h, r), Informed(h, l, o, r, c, approval[h])
    PROVE  Good
<1>1. /\ op' = [op EXCEPT ![h] = o] /\ pc' = [pc EXCEPT ![h] = l] /\ copy' = [copy EXCEPT ![h] = c]
  BY DEF Open
<1>2. /\ approval' = [approval EXCEPT ![h] = approval[h]] /\ approval[h] \in Approvals
      /\ faults' \in 0 .. MaxFaults /\ UNCHANGED <<checkpoint, proposal, wire, world, history>>
      /\ c \in Records \cup {None}
      /\ record[h] # None \/ pc[h] = "create"
  BY DEF IInv, TypeOK, Approvals
<1> QED
  BY <1>1, <1>2, Works

LEMMA ReceiveStep ==
    ASSUME IInv, NEW h \in Handshakes, record[h] # None, Receive(h)
    PROVE  Good
<1> DEFINE r == record[h]
           waiting == [r EXCEPT !.state = "AWAITING_RESPONSE"]
<1>1. /\ r.response # "unsafe"
      /\ UNCHANGED <<approval, checkpoint, proposal, wire, world, faults, history>>
  BY DEF Receive
<1>2. /\ r \in Records /\ Stands(h, r) /\ Observed(h, r)
      /\ record = [record EXCEPT ![h] = r]
  BY Situation
<1>3. CASE Pending(h, r) /\ Open(h, "receive", r, Resume(h, r)) /\ UNCHANGED record
  <2>1. Resume(h, r) \in {"cursor", "acked"} /\ r.linked
    BY <1>3 DEF Resume, Pending
  <2>2. Informed(h, Resume(h, r), "receive", r, r, approval[h])
    BY <1>1, <2>1 DEF Informed
  <2>3. /\ Resume(h, r) \in Locations /\ Resume(h, r) # "create"
        /\ record' = [record EXCEPT ![h] = r] /\ Open(h, "receive", r, Resume(h, r))
        /\ "receive" \in {"none", "receive", "timeout", "proposal"} /\ record[h] # None
    BY <1>2, <1>3, <2>1 DEF Locations
  <2> HIDE DEF r
  <2> QED
    BY <1>1, <1>2, <2>2, <2>3, Opens
<1>4. CASE /\ r.state = "AWAITING_RESPONSE" \/ r.state = "SENT"
           /\ Open(h, "receive", waiting, "recover") /\ Write(h, waiting)
  <2>1. waiting \in Records
    BY <1>2 DEF Records, States
  <2>2. /\ waiting.state = "AWAITING_RESPONSE" /\ waiting.posts = r.posts
        /\ waiting.receipt = r.receipt
        /\ waiting.reads = r.reads /\ waiting.response = r.response /\ waiting.linked = r.linked
        /\ waiting.failure = r.failure /\ waiting.since = r.since /\ waiting.cursor = r.cursor
        /\ waiting.generation = r.generation
    BY <1>2 DEF Records
  <2>3. /\ "recover" \in Locations /\ "recover" # "create"
        /\ record' = [record EXCEPT ![h] = waiting] /\ Open(h, "receive", waiting, "recover")
        /\ "receive" \in {"none", "receive", "timeout", "proposal"} /\ record[h] # None
    BY <1>4 DEF Locations, Write
  <2> HIDE DEF r, waiting
  <2>4. Stands(h, waiting)
    BY <1>2, <1>4, <2>2 DEF Stands, Readable, Unread, Judged
  <2>5. Observed(h, waiting)
    BY <1>2, <2>2 DEF Observed, Unsafe
  <2>6. Informed(h, "recover", "receive", waiting, waiting, approval[h])
    BY <2>2 DEF Informed
  <2> QED
    BY <1>1, <2>1, <2>3, <2>4, <2>5, <2>6, Opens
<1> QED
  BY <1>3, <1>4 DEF Receive

LEMMA TimeoutStep ==
    ASSUME IInv, NEW h \in Handshakes, record[h] # None, Timeout(h)
    PROVE  Good
<1> DEFINE r == record[h]
<1>1. /\ r.state = "AWAITING_RESPONSE" /\ Open(h, "timeout", r, "recover") /\ record' = record
      /\ UNCHANGED <<approval, checkpoint, proposal, wire, world, faults, history>>
  BY DEF Timeout, files
<1>2. /\ r \in Records /\ Stands(h, r) /\ Observed(h, r)
      /\ record = [record EXCEPT ![h] = r]
  BY Situation
<1>3. Informed(h, "recover", "timeout", r, r, approval[h])
  BY <1>1 DEF Informed
<1>4. /\ "recover" \in Locations /\ "recover" # "create"
      /\ record' = [record EXCEPT ![h] = r] /\ record[h] # None
      /\ "timeout" \in {"none", "receive", "timeout", "proposal"}
  BY <1>1, <1>2 DEF Locations
<1> HIDE DEF r
<1> QED
  BY <1>1, <1>2, <1>3, <1>4, Opens

LEMMA ProposeStep ==
    ASSUME IInv, NEW h \in Handshakes, record[h] # None, Propose(h)
    PROVE  Good
<1> DEFINE r == record[h]
           l == IF Pending(h, r) THEN Resume(h, r) ELSE "propose"
<1>1. /\ r.state = "ACCEPTED_EVIDENCE" /\ Open(h, "proposal", r, l) /\ record' = record
      /\ UNCHANGED <<approval, checkpoint, proposal, wire, world, faults, history>>
  BY DEF Propose, Proposable, files
<1>2. /\ r \in Records /\ Stands(h, r) /\ Observed(h, r)
      /\ record = [record EXCEPT ![h] = r]
  BY Situation
<1>3. r.response = "yes" /\ r.linked
  BY <1>1, <1>2, FilesAssumption DEF Stands, Readable, Kinds
<1>4. l \in {"cursor", "acked", "propose"}
  BY DEF Resume
<1>5. Informed(h, l, "proposal", r, r, approval[h])
  BY <1>1, <1>3, <1>4 DEF Informed
<1>6. /\ l \in Locations /\ l # "create"
      /\ record' = [record EXCEPT ![h] = r] /\ record[h] # None
      /\ "proposal" \in {"none", "receive", "timeout", "proposal"}
  BY <1>1, <1>2, <1>4 DEF Locations
<1> HIDE DEF r, l
<1> QED
  BY <1>1, <1>2, <1>5, <1>6, Opens

\* What an operation finds that is behind one of the awaiting locations.
LEMMA Awaiting ==
    ASSUME IInv, NEW h \in Handshakes, pc[h] \in {"recover", "read", "persist", "process", "timeout"}
    PROVE  /\ record[h] \in Records /\ record[h] # None /\ copy[h] = record[h]
           /\ record[h].state = "AWAITING_RESPONSE" /\ record[h].receipt /\ record[h].response = None
           /\ record[h].posts = 1 /\ arrived[h] = 1 /\ ~proposal[h]
           /\ op[h] \in {"receive", "timeout"}
           /\ wire[h] \notin {"none", "request", "refused"}
           /\ record[h].cursor # record[h].since => record[h].linked
           /\ TypeOK /\ approval[h] \in Approvals
           /\ Stands(h, record[h]) /\ Observed(h, record[h]) /\ Sending(h)
           /\ Informed(h, pc[h], op[h], record[h], copy[h], approval[h])
           /\ record = [record EXCEPT ![h] = record[h]]
           /\ approval = [approval EXCEPT ![h] = approval[h]]
<1>1. /\ record[h] \in Records /\ record[h] # None /\ Stands(h, record[h]) /\ Observed(h, record[h])
      /\ Informed(h, pc[h], op[h], record[h], copy[h], approval[h]) /\ Sending(h) /\ TypeOK
      /\ approval[h] \in Approvals
      /\ record = [record EXCEPT ![h] = record[h]]
      /\ approval = [approval EXCEPT ![h] = approval[h]]
  BY Situation
<1>2. /\ copy[h] = record[h] /\ record[h].state = "AWAITING_RESPONSE"
      /\ op[h] \in {"receive", "timeout"}
  BY <1>1 DEF Informed
<1>3. /\ record[h].receipt /\ record[h].response = None /\ arrived[h] = 1 /\ ~proposal[h]
      /\ record[h].posts = 1
  BY <1>1, <1>2 DEF Stands, Readable, Judged
<1>4. wire[h] \notin {"none", "request", "refused"}
  BY <1>1, <1>3 DEF Sending
<1>5. record[h].cursor # record[h].since => record[h].linked
  BY <1>1 DEF Observed
<1> QED
  BY <1>1, <1>2, <1>3, <1>4, <1>5

\* A reading that is retained, or its file on the way to its place.
LEMMA CheckpointStep ==
    ASSUME IInv, NEW h \in Handshakes, pc[h] \in {"recover", "read", "persist"}, ~record[h].linked,
           NEW cp \in Checkpoints, checkpoint' = [checkpoint EXCEPT ![h] = cp],
           NEW l \in {"persist", "process"}, pc' = [pc EXCEPT ![h] = l],
           NEW m \in BOOLEAN, missed' = [missed EXCEPT ![h] = m], gets' = [gets EXCEPT ![h] = 1],
           UNCHANGED <<record, approval, proposal, op, copy, wire, world, faults, arrived>>,
           gets[h] = 1 \/ record[h].reads = 1,
           l = "process" => cp.stage = "final",
           cp.lo = record[h].since /\ record[h].since <= cp.last /\ cp.last <= cp.hi =>
              cp.hi = cp.last /\ (cp.matching = {} => ~m)
    PROVE  Good
<1> DEFINE r == record[h]
<1>1. /\ r \in Records /\ r # None /\ copy[h] = r
      /\ r.state = "AWAITING_RESPONSE" /\ r.receipt /\ r.response = None
      /\ arrived[h] = 1 /\ ~proposal[h] /\ wire[h] \notin {"none", "request", "refused"}
      /\ r.cursor = r.since /\ TypeOK /\ Stands(h, r) /\ Sending(h)
      /\ op[h] \in {"receive", "timeout"}
  BY Awaiting
<1>2. /\ checkpoint'[h] = cp /\ pc'[h] = l /\ missed'[h] = m /\ gets'[h] = 1
      /\ UNCHANGED <<record, approval, proposal, op, copy, wire, placed, room, dropped, generation,
                     expired, contradicted, faults, arrived>>
      /\ cp # None
  BY <1>1, FilesAssumption DEF TypeOK, world, service
<1>3. r.reads # 0
  BY <1>1 DEF Stands
<1>4. Touches(h)
  <2>1. /\ Sets(pc, pc', h, Locations)
        /\ Sets(checkpoint, checkpoint', h, Checkpoints \cup {None})
        /\ Sets(missed, missed', h, BOOLEAN) /\ Sets(gets, gets', h, Nat)
    BY DEF Sets, Locations
  <2>2. /\ Sets(proposal, proposal', h, BOOLEAN) /\ Sets(arrived, arrived', h, Nat)
        /\ Sets(record, record', h, Records \cup {None})
        /\ Sets(approval, approval', h, Approvals) /\ Sets(copy, copy', h, Records \cup {None})
        /\ Sets(op, op', h, {"none", "receive", "timeout", "proposal"})
        /\ Sets(placed, placed', h, [seq : Nat, generation : Nat])
        /\ Sets(wire, wire', h, {"none", "request", "posted", "refused", "lost"})
    BY <1>2 DEF Sets
  <2> QED
    BY <1>1, <1>2, <2>1, <2>2 DEF Touches, TypeOK
<1>5. Sending(h)'
  BY <1>1, <1>2 DEF Sending
<1> HIDE DEF r
<1>6. Stored(h)'
  <2>1. Stands(h, r)'
    BY <1>1, <1>2, <1>3 DEF Stands, Unread, Judged, r
  <2>2. Observed(h, r)'
    BY <1>1, <1>2 DEF Observed, r
  <2> QED
    BY <2>1, <2>2 DEF Stored, r
<1>7. Knows(h)'
  BY <1>1, <1>2 DEF Knows, Informed, r
<1>8. Exchanges(h)
  <2>1. CASE gets[h] = 1
    BY <1>1, <1>2, <2>1 DEF Exchanges, TypeOK
  <2>2. CASE gets[h] = 0
    BY <1>1, <1>2, <2>2 DEF Exchanges
  <2> QED
    BY <1>1, <2>1, <2>2 DEF Sending
<1> QED
  BY <1>4, <1>5, <1>6, <1>7, <1>8, StepSound

LEMMA RecoverStep ==
    ASSUME IInv, NEW h \in Handshakes, Recover(h)
    PROVE  Good
<1> DEFINE r == record[h]
           lost == [r EXCEPT !.state = "AMBIGUOUS_DELIVERY", !.failure = TRUE]
           once == [r EXCEPT !.reads = 1]
           cp == [checkpoint[h] EXCEPT !.stage = "final"]
<1>1. pc[h] = "recover" /\ UNCHANGED <<approval, proposal, wire, world, history>>
  BY DEF Recover
<1>2. /\ r \in Records /\ r # None /\ copy[h] = r
      /\ r.state = "AWAITING_RESPONSE" /\ r.receipt /\ r.response = None /\ r.posts = 1
      /\ arrived[h] = 1 /\ ~proposal[h] /\ wire[h] \notin {"none", "request", "refused"}
      /\ r.cursor # r.since => r.linked
      /\ TypeOK /\ approval[h] \in Approvals
      /\ Stands(h, r) /\ Observed(h, r) /\ Sending(h) /\ op[h] \in {"receive", "timeout"}
      /\ record = [record EXCEPT ![h] = r]
      /\ approval = [approval EXCEPT ![h] = approval[h]]
  BY <1>1, Awaiting
<1>3. UNCHANGED faults \/ Fault => faults' \in 0 .. MaxFaults
  BY <1>2, ExternalBootstrapAssumption DEF TypeOK, Fault
<1>4. CASE ~r.linked /\ EndWith(h, [copy[h] EXCEPT !.state = "AMBIGUOUS_DELIVERY", !.failure = TRUE])
           /\ UNCHANGED checkpoint /\ (UNCHANGED faults \/ Fault)
  <2>1. lost \in Records
    BY <1>2 DEF Records, States
  <2>2. /\ lost.state = "AMBIGUOUS_DELIVERY" /\ lost.posts = r.posts /\ lost.receipt = r.receipt
        /\ lost.reads = r.reads /\ lost.response = r.response /\ lost.linked = r.linked
        /\ lost.since = r.since /\ lost.cursor = r.cursor
    BY <1>2 DEF Records
  <2>3. record' = [record EXCEPT ![h] = lost] /\ End(h) /\ record[h] # None
    BY <1>2, <1>4 DEF EndWith, Write
  <2> HIDE DEF r, lost
  <2>4. Stands(h, lost)
    BY <1>2, <2>2 DEF Stands, Readable, Unread, Judged
  <2>5. Observed(h, lost)
    BY <1>2, <1>4, <2>2, FilesAssumption DEF Observed, Kinds
  <2>6. UNCHANGED <<approval, checkpoint, proposal, wire, world, history>>
    BY <1>1, <1>4
  <2> QED
    BY <1>3, <1>4, <2>1, <2>3, <2>4, <2>5, <2>6, Leaves
<1>5. CASE /\ ~r.linked /\ checkpoint[h] # None
           /\ checkpoint' = [checkpoint EXCEPT ![h].stage = "final"]
           /\ Proceed(h, copy[h], "process") /\ UNCHANGED <<record, faults>>
  <2>1. checkpoint[h] \in Checkpoints
    BY <1>2, <1>5 DEF TypeOK
  <2>2. cp \in Checkpoints
    BY <2>1 DEF Checkpoints
  <2>3. /\ checkpoint' = [checkpoint EXCEPT ![h] = cp]
        /\ cp.stage = "final" /\ cp.lo = checkpoint[h].lo /\ cp.hi = checkpoint[h].hi
        /\ cp.last = checkpoint[h].last /\ cp.matching = checkpoint[h].matching
    BY <1>2, <1>5, <2>1 DEF TypeOK, Checkpoints
  <2> HIDE DEF r, cp
  <2>4. /\ gets[h] = 1
        /\ cp.lo = r.since /\ r.since <= cp.last /\ cp.last <= cp.hi =>
              cp.hi = cp.last /\ (cp.matching = {} => ~missed[h])
    BY <1>2, <1>5, <2>3 DEF Observed
  <2>5. /\ pc' = [pc EXCEPT ![h] = "process"] /\ "process" \in {"persist", "process"}
        /\ missed' = [missed EXCEPT ![h] = missed[h]] /\ missed[h] \in BOOLEAN
        /\ gets' = [gets EXCEPT ![h] = 1]
        /\ op' = op /\ copy' = copy /\ arrived' = arrived
    BY <1>1, <1>2, <1>5, <2>4 DEF TypeOK, Proceed, history
  <2>6. UNCHANGED <<record, approval, proposal, op, copy, wire, world, faults, arrived>>
    BY <1>1, <1>5, <2>5
  <2>7. pc[h] \in {"recover", "read", "persist"} /\ ~record[h].linked
    BY <1>1, <1>5 DEF r
  <2> QED
    BY <2>2, <2>3, <2>4, <2>5, <2>6, <2>7, CheckpointStep DEF r
<1>6. CASE op[h] = "timeout" /\ Proceed(h, copy[h], "timeout")
           /\ UNCHANGED <<record, checkpoint, faults>>
  <2>1. Informed(h, "timeout", op[h], r, r, approval[h])
    BY <1>2, <1>6 DEF Informed
  <2>2. /\ "timeout" \in Locations /\ "timeout" # "create" /\ approval' = [approval EXCEPT ![h] = approval[h]]
        /\ UNCHANGED <<checkpoint, proposal, wire, world, history>> /\ record' = record
    BY <1>1, <1>2, <1>6 DEF Locations
  <2> QED
    BY <1>2, <1>3, <1>6, <2>1, <2>2, GoesOn
<1>7. CASE End(h) /\ UNCHANGED <<record, checkpoint, faults>>
  <2>1. /\ record' = [record EXCEPT ![h] = r] /\ record[h] # None
        /\ UNCHANGED <<approval, checkpoint, proposal, wire, world, history>>
    BY <1>1, <1>2, <1>7
  <2> HIDE DEF r
  <2> QED
    BY <1>2, <1>3, <1>7, <2>1, Leaves
<1>8. CASE /\ r.linked \/ checkpoint[h] = None
           /\ MayRead(h) /\ UNCHANGED <<checkpoint, faults>>
           /\ Write(h, [copy[h] EXCEPT !.reads = 1])
           /\ Proceed(h, [copy[h] EXCEPT !.reads = 1], "read")
  <2>1. r.reads = 0 /\ gets[h] = 0 /\ ~r.linked /\ checkpoint[h] = None
    BY <1>2, <1>8 DEF MayRead, Stands
  <2>2. /\ once \in Records /\ once.state = r.state /\ once.posts = r.posts
        /\ once.receipt = r.receipt /\ once.reads = 1 /\ once.response = r.response
        /\ once.linked = r.linked /\ once.since = r.since /\ once.cursor = r.cursor
    BY <1>2 DEF Records
  <2>3. /\ record' = [record EXCEPT ![h] = once] /\ Proceed(h, once, "read") /\ record[h] # None
        /\ "read" \in Locations /\ "read" # "create" /\ approval' = [approval EXCEPT ![h] = approval[h]]
        /\ UNCHANGED <<checkpoint, proposal, wire, world, history>>
    BY <1>1, <1>2, <1>8 DEF Write, Locations
  <2> HIDE DEF r, once
  <2>4. Stands(h, once)
    BY <1>2, <2>1, <2>2 DEF Stands, Readable, Unread, Judged
  <2>5. Observed(h, once)
    BY <1>2, <2>1, <2>2 DEF Observed
  <2>6. Informed(h, "read", op[h], once, once, approval[h])
    BY <1>2, <2>1, <2>2 DEF Informed
  <2> QED
    BY <1>2, <1>3, <1>8, <2>2, <2>3, <2>4, <2>5, <2>6, Goes
<1>9. \/ /\ ~r.linked
         /\ EndWith(h, [copy[h] EXCEPT !.state = "AMBIGUOUS_DELIVERY", !.failure = TRUE])
         /\ UNCHANGED checkpoint /\ (UNCHANGED faults \/ Fault)
      \/ /\ ~r.linked /\ checkpoint[h] # None
         /\ checkpoint' = [checkpoint EXCEPT ![h].stage = "final"]
         /\ Proceed(h, copy[h], "process") /\ UNCHANGED <<record, faults>>
      \/ /\ r.linked \/ checkpoint[h] = None
         /\ \/ op[h] = "timeout" /\ Proceed(h, copy[h], "timeout") /\ UNCHANGED record
            \/ End(h) /\ UNCHANGED record
            \/ /\ MayRead(h)
               /\ Write(h, [copy[h] EXCEPT !.reads = 1])
               /\ Proceed(h, [copy[h] EXCEPT !.reads = 1], "read")
         /\ UNCHANGED <<checkpoint, faults>>
  <2> HIDE DEF r
  <2>1. r = copy[h]
    BY <1>2
  <2> QED
    BY <2>1, Zenon DEF Recover
<1> QED
  BY <1>4, <1>5, <1>6, <1>7, <1>8, <1>9

\* What the service answers from s on is whole, if nothing in it says otherwise.
LEMMA Window ==
    ASSUME TypeOK, NEW h \in Handshakes, NEW s \in Nat, NEW cp \in Observations(h, s)
    PROVE  /\ cp \in Checkpoints
           /\ cp.lo = s /\ s <= cp.last /\ cp.last <= cp.hi =>
                /\ cp.hi = cp.last
                /\ cp.matching = {} =>
                      ~\E i \in Later(s, dropped) + 1 .. Len(room) : room[i][1] = h
<1> DEFINE first == Later(s, dropped)
           Naming(hi) == {i \in first + 1 .. hi : room[i][1] = h}
           Found(hi) == {<<i, room[i][2]>> : i \in Naming(hi)}
<1>1. first \in Nat /\ s <= first /\ Len(room) \in Nat /\ generation \in Nat /\ room \in Seq(Messages)
  BY ExternalBootstrapAssumption DEF TypeOK, Later
<1>2. PICK hi \in first .. Later(first, Len(room)) :
        cp = [stage |-> "partial", lo |-> IF hi = first THEN s ELSE first,
              hi |-> IF hi = first THEN s ELSE hi, last |-> Len(room), generation |-> generation,
              matching |-> Found(hi)]
  BY DEF Observations
<1>3. hi \in Nat /\ first <= hi /\ (hi = first \/ hi <= Len(room))
  BY <1>1, <1>2 DEF Later
<1> HIDE DEF first
<1>4. Found(hi) \in SUBSET (Nat \X Kinds)
  <2> SUFFICES ASSUME NEW i \in Naming(hi)
               PROVE  <<i, room[i][2]>> \in Nat \X Kinds
    OBVIOUS
  <2>1. i \in first + 1 .. hi /\ room[i][1] = h
    OBVIOUS
  <2>2. i \in 1 .. Len(room)
    BY <1>1, <1>3, <2>1
  <2>3. room[i] \in Messages
    BY <1>1, <2>2
  <2>4. room[i] \in Handshakes \X Kinds
    BY <2>1, <2>3, ExternalBootstrapAssumption DEF Messages
  <2> QED
    BY <2>2, <2>4
<1> HIDE DEF Found
<1>5. cp \in Checkpoints
  BY <1>1, <1>2, <1>3, <1>4 DEF Checkpoints
<1>6. ASSUME cp.lo = s, s <= cp.last, cp.last <= cp.hi
      PROVE  cp.hi = cp.last
  BY <1>1, <1>2, <1>3, <1>6
<1>7. ASSUME cp.lo = s, s <= cp.last, cp.last <= cp.hi, cp.matching = {},
             NEW i \in first + 1 .. Len(room), room[i][1] = h
      PROVE  FALSE
  <2>1. cp.matching = Found(hi)
    BY <1>2
  <2>2. Len(room) <= hi
    BY <1>1, <1>2, <1>3, <1>7
  <2>3. i \in Naming(hi)
    BY <1>1, <1>3, <1>7, <2>2
  <2> QED
    BY <1>7, <2>1, <2>3 DEF Found
<1> QED
  BY <1>5, <1>6, <1>7 DEF first

LEMMA ReadEnds ==
    ASSUME IInv, NEW h \in Handshakes, pc[h] = "read", End(h), NEW r \in Records,
           record' = [record EXCEPT ![h] = r], NEW b \in BOOLEAN,
           r = [record[h] EXCEPT !.failure = b],
           gets' \in {gets, [gets EXCEPT ![h] = @ + 1]}, faults' \in 0 .. MaxFaults,
           UNCHANGED <<approval, checkpoint, proposal, wire, world, arrived, missed>>
    PROVE  Good
<1> DEFINE q == record[h]
<1>1. /\ q \in Records /\ q # None
      /\ q.state = "AWAITING_RESPONSE" /\ q.receipt /\ q.response = None /\ q.posts = 1
      /\ arrived[h] = 1 /\ ~proposal[h] /\ wire[h] \notin {"none", "request", "refused"}
      /\ q.cursor # q.since => q.linked
      /\ TypeOK /\ Stands(h, q) /\ Observed(h, q) /\ Sending(h)
      /\ Informed(h, pc[h], op[h], q, copy[h], approval[h])
  BY Awaiting
<1>2. q.reads = 1 /\ ~q.linked /\ gets[h] = 0 /\ checkpoint[h] = None
  BY <1>1 DEF Informed
<1>3. /\ r.state = q.state /\ r.posts = q.posts /\ r.receipt = q.receipt
      /\ r.reads = q.reads /\ r.response = q.response
      /\ r.linked = q.linked /\ r.since = q.since /\ r.cursor = q.cursor
  BY <1>1 DEF Records
<1> HIDE DEF q
<1>4. /\ record'[h] = r /\ pc'[h] = "idle"
      /\ UNCHANGED <<approval, checkpoint, proposal, wire, placed, room, dropped, generation,
                     expired, contradicted, arrived, missed>>
      /\ r # None /\ gets'[h] \in {0, 1}
  <2>1. record'[h] = r /\ pc'[h] = "idle"
    BY <1>1 DEF TypeOK, End
  <2>2. gets'[h] \in {0, 1}
    BY <1>1, <1>2 DEF TypeOK
  <2> QED
    BY <2>1, <2>2, FilesAssumption DEF world, service
<1>5. Touches(h)
  <2>1. /\ Sets(pc, pc', h, Locations)
        /\ Sets(op, op', h, {"none", "receive", "timeout", "proposal"})
        /\ Sets(copy, copy', h, Records \cup {None})
        /\ Sets(record, record', h, Records \cup {None})
    BY DEF Sets, Locations, End
  <2>2. Sets(gets, gets', h, Nat)
    <3>1. CASE gets' = gets
      BY <3>1 DEF Sets
    <3>2. CASE gets' = [gets EXCEPT ![h] = gets[h] + 1]
      <4>1. gets[h] + 1 \in Nat
        BY <1>2
      <4> QED
        BY <3>2, <4>1 DEF Sets
    <3> QED
      BY <3>1, <3>2
  <2>3. /\ Sets(proposal, proposal', h, BOOLEAN) /\ Sets(arrived, arrived', h, Nat)
        /\ Sets(checkpoint, checkpoint', h, Checkpoints \cup {None})
        /\ Sets(approval, approval', h, Approvals)
        /\ Sets(placed, placed', h, [seq : Nat, generation : Nat])
        /\ Sets(wire, wire', h, {"none", "request", "posted", "refused", "lost"})
        /\ Sets(missed, missed', h, BOOLEAN)
    BY <1>4 DEF Sets
  <2> QED
    BY <1>1, <1>4, <2>1, <2>2, <2>3 DEF Touches, TypeOK
<1>6. Sending(h)'
  BY <1>1, <1>4 DEF Sending
<1>7. Stored(h)'
  <2>1. Stands(h, record[h])'
    <3>1. Readable(record[h])'
      BY <1>1, <1>3, <1>4 DEF Readable
    <3>2. record'[h].reads = 1 /\ record'[h].state = "AWAITING_RESPONSE" /\ record'[h].response = None
      BY <1>1, <1>2, <1>3, <1>4
    <3> QED
      BY <1>1, <1>4, <3>1, <3>2 DEF Stands, Unread
  <2>2. Observed(h, record[h])'
    BY <1>1, <1>2, <1>3, <1>4, FilesAssumption DEF Observed, Kinds
  <2> QED
    BY <2>1, <2>2 DEF Stored
<1>8. Knows(h)'
  BY <1>4 DEF Knows, Informed
<1>9. Exchanges(h)
  <2>1. CASE gets' = gets
    BY <1>4, <2>1 DEF Exchanges
  <2>2. CASE gets' = [gets EXCEPT ![h] = gets[h] + 1]
    BY <1>1, <1>2, <1>4, <2>2 DEF Exchanges
  <2> QED
    BY <2>1, <2>2
<1> QED
  BY <1>5, <1>6, <1>7, <1>8, <1>9, StepSound

LEMMA GetStep ==
    ASSUME IInv, NEW h \in Handshakes, Get(h)
    PROVE  Good
<1> DEFINE r == record[h]
<1>1. pc[h] = "read" /\ UNCHANGED <<approval, proposal, wire, world, arrived>>
  BY DEF Get
<1>2. /\ r \in Records /\ copy[h] = r /\ TypeOK
      /\ Informed(h, pc[h], op[h], r, copy[h], approval[h])
      /\ record = [record EXCEPT ![h] = r]
  BY <1>1, Awaiting
<1>3. r.reads = 1 /\ ~r.linked /\ gets[h] = 0 /\ r.since \in Nat
  BY <1>1, <1>2 DEF Informed, Records
<1>4. CASE /\ \E cp \in Observations(h, copy[h].since) : checkpoint' = [checkpoint EXCEPT ![h] = cp]
           /\ gets' = [gets EXCEPT ![h] = @ + 1]
           /\ missed' = [missed EXCEPT ![h] =
                \E i \in Later(copy[h].since, dropped) + 1 .. Len(room) : room[i][1] = h]
           /\ Proceed(h, copy[h], "persist")
           /\ UNCHANGED <<record, faults>>
  <2> DEFINE m == \E i \in Later(r.since, dropped) + 1 .. Len(room) : room[i][1] = h
  <2>1. PICK cp \in Observations(h, r.since) : checkpoint' = [checkpoint EXCEPT ![h] = cp]
    BY <1>2, <1>4
  <2>2. /\ cp \in Checkpoints
        /\ cp.lo = r.since /\ r.since <= cp.last /\ cp.last <= cp.hi =>
              cp.hi = cp.last /\ (cp.matching = {} => ~m)
    BY <1>2, <1>3, <2>1, Window
  <2>3. m \in BOOLEAN /\ missed' = [missed EXCEPT ![h] = m]
    BY <1>2, <1>4
  <2> HIDE DEF m, r
  <2>4. /\ pc' = [pc EXCEPT ![h] = "persist"] /\ "persist" \in {"persist", "process"}
        /\ gets' = [gets EXCEPT ![h] = 1]
        /\ op' = op /\ copy' = [copy EXCEPT ![h] = copy[h]]
    BY <1>1, <1>2, <1>3, <1>4 DEF Proceed
  <2>5. copy' = copy
    BY <1>2, <2>4 DEF TypeOK
  <2>6. /\ UNCHANGED <<record, approval, proposal, op, copy, wire, world, faults, arrived>>
        /\ pc[h] \in {"recover", "read", "persist"} /\ ~record[h].linked
        /\ gets[h] = 1 \/ record[h].reads = 1
    BY <1>1, <1>3, <1>4, <2>4, <2>5 DEF r
  <2> QED
    BY <2>1, <2>2, <2>3, <2>4, <2>6, CheckpointStep DEF r
<1>5. CASE /\ gets' \in {gets, [gets EXCEPT ![h] = @ + 1]}
           /\ \/ ReadFails(h) /\ UNCHANGED faults
              \/ Fault /\ End(h) /\ UNCHANGED record
           /\ UNCHANGED <<checkpoint, missed>>
  <2> DEFINE q == [r EXCEPT !.failure = TRUE]
  <2>1. /\ faults' \in 0 .. MaxFaults
        /\ UNCHANGED <<approval, checkpoint, proposal, wire, world, arrived, missed>>
    BY <1>1, <1>2, <1>5, ExternalBootstrapAssumption DEF TypeOK, Fault
  <2>2. CASE ReadFails(h)
    <3>1. q \in Records
      BY <1>2 DEF Records
    <3>2. record' = [record EXCEPT ![h] = q] /\ End(h) /\ q = [record[h] EXCEPT !.failure = TRUE]
      BY <1>2, <2>2 DEF ReadFails, EndWith, Write
    <3> HIDE DEF q
    <3> QED
      BY <1>1, <1>5, <2>1, <3>1, <3>2, ReadEnds
  <2>3. CASE End(h) /\ UNCHANGED record
    <3>1. record' = [record EXCEPT ![h] = r] /\ r.failure \in BOOLEAN
      BY <1>2, <2>3 DEF Records
    <3>2. r = [record[h] EXCEPT !.failure = r.failure]
      BY <1>2 DEF Records
    <3> HIDE DEF r
    <3> QED
      BY <1>1, <1>2, <1>5, <2>1, <2>3, <3>1, <3>2, ReadEnds
  <2> QED
    BY <1>5, <2>2, <2>3
<1> QED
  BY <1>4, <1>5 DEF Get

LEMMA PersistStep ==
    ASSUME IInv, NEW h \in Handshakes, Persist(h)
    PROVE  Good
<1> DEFINE r == record[h]
           cp == [checkpoint[h] EXCEPT !.stage = IF @ = "partial" THEN "candidate" ELSE "final"]
<1>1. pc[h] = "persist" /\ UNCHANGED <<approval, proposal, wire, world, history>>
  BY DEF Persist
<1>2. /\ r \in Records /\ record[h] # None /\ copy[h] = r /\ TypeOK /\ Stands(h, r) /\ Observed(h, r)
      /\ r.state = "AWAITING_RESPONSE" /\ r.receipt /\ r.response = None /\ r.posts = 1
      /\ arrived[h] = 1 /\ ~proposal[h] /\ wire[h] \notin {"none", "request", "refused"}
      /\ r.cursor # r.since => r.linked
      /\ Informed(h, pc[h], op[h], r, copy[h], approval[h])
  BY <1>1, Awaiting
<1>3. ~r.linked /\ checkpoint[h] # None /\ checkpoint[h] \in Checkpoints
  BY <1>1, <1>2 DEF Informed, TypeOK
<1>4. gets[h] = 1
  BY <1>2, <1>3 DEF Observed
<1>5. CASE /\ checkpoint' = [checkpoint EXCEPT ![h].stage =
                IF @ = "partial" THEN "candidate" ELSE "final"]
           /\ IF checkpoint[h].stage = "partial" THEN UNCHANGED local ELSE Proceed(h, copy[h], "process")
           /\ UNCHANGED <<record, faults>>
  <2> DEFINE l == IF checkpoint[h].stage = "partial" THEN "persist" ELSE "process"
  <2>1. cp \in Checkpoints
    BY <1>3 DEF Checkpoints
  <2>2. checkpoint' = [checkpoint EXCEPT ![h] = cp]
    BY <1>2, <1>3, <1>5 DEF TypeOK, Checkpoints
  <2>3. /\ cp.lo = checkpoint[h].lo /\ cp.hi = checkpoint[h].hi
        /\ cp.last = checkpoint[h].last /\ cp.matching = checkpoint[h].matching
        /\ checkpoint[h].stage # "partial" => cp.stage = "final"
    BY <1>3 DEF Checkpoints
  <2> HIDE DEF r, cp
  <2>4. cp.lo = r.since /\ r.since <= cp.last /\ cp.last <= cp.hi =>
              cp.hi = cp.last /\ (cp.matching = {} => ~missed[h])
    BY <1>2, <1>3, <2>3 DEF Observed
  <2>5. pc' = [pc EXCEPT ![h] = l] /\ op' = op /\ copy' = copy
    BY <1>1, <1>2, <1>5 DEF TypeOK, Proceed, local
  <2>6. /\ missed' = [missed EXCEPT ![h] = missed[h]] /\ missed[h] \in BOOLEAN
        /\ gets' = [gets EXCEPT ![h] = 1] /\ arrived' = arrived
    BY <1>1, <1>2, <1>4 DEF TypeOK, history
  <2>7. /\ l \in {"persist", "process"}
        /\ l = "process" => cp.stage = "final"
    BY <2>3
  <2>8. UNCHANGED <<record, approval, proposal, op, copy, wire, world, faults, arrived>>
    BY <1>1, <1>5, <2>5, <2>6
  <2>9. /\ pc[h] \in {"recover", "read", "persist"} /\ ~record[h].linked
        /\ gets[h] = 1 \/ record[h].reads = 1
    BY <1>1, <1>3, <1>4 DEF r
  <2> HIDE DEF l
  <2> QED
    BY <2>1, <2>2, <2>4, <2>5, <2>6, <2>7, <2>8, <2>9, CheckpointStep DEF r
<1>6. CASE Fault /\ ReadFails(h) /\ UNCHANGED checkpoint
  <2> DEFINE q == [r EXCEPT !.failure = TRUE]
  <2>1. /\ q \in Records /\ q.state = r.state /\ q.posts = r.posts /\ q.receipt = r.receipt
        /\ q.reads = r.reads /\ q.response = r.response
        /\ q.linked = r.linked /\ q.since = r.since /\ q.cursor = r.cursor
    BY <1>2 DEF Records
  <2>2. record' = [record EXCEPT ![h] = q] /\ End(h)
    BY <1>2, <1>6 DEF ReadFails, EndWith, Write
  <2>3. /\ faults' \in 0 .. MaxFaults /\ record[h] # None
        /\ UNCHANGED <<approval, checkpoint, proposal, wire, world, history>>
    BY <1>1, <1>2, <1>6, ExternalBootstrapAssumption DEF TypeOK, Fault
  <2> HIDE DEF r, q
  <2>4. Stands(h, q)
    BY <1>2, <2>1 DEF Stands, Readable, Unread, Judged
  <2>5. Observed(h, q)
    BY <1>2, <1>3, <2>1, FilesAssumption DEF Observed, Kinds
  <2> QED
    BY <2>1, <2>2, <2>3, <2>4, <2>5, Leaves
<1> QED
  BY <1>5, <1>6 DEF Persist

\* What may be made of the window.
Verdict(h, s, answer) ==
    /\ s \in {"AWAITING_RESPONSE"} \cup Judged /\ (answer = None <=> s = "AWAITING_RESPONSE")
    /\ s = "ACCEPTED_EVIDENCE" => answer = "yes"
    /\ s = "INVALID_RESPONSE" => answer \in {"bad", "unsafe"}
    /\ answer # "unsafe" => ~Unsafe(record[h], checkpoint[h])
    /\ answer = None => checkpoint[h].matching = {}
    /\ answer \in Kinds => \E m \in checkpoint[h].matching : m[2] = answer

\* A window that is linked, with what is made of it.
LEMMA Linked ==
    ASSUME IInv, NEW h \in Handshakes, pc[h] = "process", NEW r \in Records,
           NEW s \in States, NEW answer \in Kinds \cup {"unsafe", None},
           r = [record[h] EXCEPT !.linked = TRUE, !.failure = FALSE, !.state = s, !.response = answer],
           Verdict(h, s, answer)
    PROVE  /\ Stands(h, r) /\ Observed(h, r)
           /\ r.state = s /\ r.response = answer /\ r.linked
<1> DEFINE q == record[h]
<1>1. /\ q \in Records /\ q # None
      /\ q.state = "AWAITING_RESPONSE" /\ q.receipt /\ q.response = None /\ q.posts = 1
      /\ arrived[h] = 1 /\ ~proposal[h] /\ wire[h] \notin {"none", "request", "refused"}
      /\ q.cursor # q.since => q.linked
      /\ TypeOK /\ Stands(h, q) /\ Observed(h, q) /\ Sending(h)
      /\ Informed(h, pc[h], op[h], q, copy[h], approval[h])
  BY Awaiting
<1>2. /\ s \in {"AWAITING_RESPONSE"} \cup Judged /\ (answer = None <=> s = "AWAITING_RESPONSE")
      /\ s = "ACCEPTED_EVIDENCE" => answer = "yes"
      /\ s = "INVALID_RESPONSE" => answer \in {"bad", "unsafe"}
      /\ answer # "unsafe" => ~Unsafe(q, checkpoint[h])
      /\ answer = None => checkpoint[h].matching = {}
      /\ answer \in Kinds => \E m \in checkpoint[h].matching : m[2] = answer
  BY DEF Verdict
<1>3. ~q.linked /\ checkpoint[h] # None /\ checkpoint[h].stage = "final"
  BY <1>1 DEF Informed
<1>4. q.reads # 0
  BY <1>1, <1>3 DEF Stands, Observed
<1>5. /\ r.state = s /\ r.response = answer /\ r.linked /\ ~r.failure
      /\ r.posts = q.posts /\ r.receipt = q.receipt /\ r.reads = q.reads
      /\ r.since = q.since /\ r.cursor = q.cursor /\ r.generation = q.generation
  BY <1>1 DEF Records
<1> HIDE DEF q
<1>6. Stands(h, r)
  BY <1>2, <1>1, <1>4, <1>5 DEF Stands, Readable, Unread, Judged
<1>7. Unsafe(q, checkpoint[h]) <=> Unsafe(r, checkpoint[h])
  BY <1>5 DEF Unsafe
<1>8. answer # "unsafe" => \A m, n \in checkpoint[h].matching : m = n
  BY <1>2 DEF Unsafe
<1>9. answer \in Kinds =>
        \E m \in checkpoint[h].matching : checkpoint[h].matching = {m} /\ m[2] = answer
  <2> SUFFICES ASSUME answer \in Kinds
               PROVE  \E m \in checkpoint[h].matching : checkpoint[h].matching = {m} /\ m[2] = answer
    OBVIOUS
  <2>1. PICK m \in checkpoint[h].matching : m[2] = answer
    BY <1>2
  <2>2. answer # "unsafe"
    BY DEF Kinds
  <2>3. checkpoint[h].matching = {m}
    BY <1>8, <2>2
  <2> QED
    BY <2>1, <2>3
<1>10. Observed(h, r)
  BY <1>2, <1>1, <1>3, <1>5, <1>7, <1>9 DEF Observed
<1> QED
  BY <1>5, <1>6, <1>10

LEMMA ProcessStep ==
    ASSUME IInv, NEW h \in Handshakes, Process(h)
    PROVE  Good
<1> DEFINE q == record[h]
           cp == checkpoint[h]
           With(s, answer) == [q EXCEPT !.linked = TRUE, !.failure = FALSE, !.state = s, !.response = answer]
<1>1. pc[h] = "process" /\ UNCHANGED <<approval, checkpoint, proposal, wire, world, faults, history>>
  BY DEF Process
<1>2. /\ q \in Records /\ q # None /\ copy[h] = q /\ TypeOK
      /\ q.state = "AWAITING_RESPONSE" /\ q.response = None
      /\ approval[h] \in Approvals /\ approval = [approval EXCEPT ![h] = approval[h]]
      /\ Informed(h, pc[h], op[h], q, copy[h], approval[h])
  BY <1>1, Awaiting
<1>3. cp \in Checkpoints
  BY <1>1, <1>2 DEF Informed, TypeOK
<1>4. /\ faults' \in 0 .. MaxFaults /\ approval' = [approval EXCEPT ![h] = approval[h]]
      /\ "cursor" \in Locations /\ "cursor" # "create"
      /\ UNCHANGED <<checkpoint, proposal, wire, world, history>>
  BY <1>1, <1>2 DEF TypeOK, Locations
<1>5. ASSUME NEW s \in States, NEW answer \in Kinds \cup {"unsafe", None}
      PROVE  With(s, answer) \in Records
  BY <1>2 DEF Records
<1>6. CASE /\ Unsafe(copy[h], cp)
           /\ EndWith(h, With("INVALID_RESPONSE", "unsafe"))
  <2> DEFINE r == With("INVALID_RESPONSE", "unsafe")
  <2>1. "INVALID_RESPONSE" \in States /\ "unsafe" \in Kinds \cup {"unsafe", None} /\ "unsafe" \notin Kinds
    BY DEF States, Kinds
  <2>2. r \in Records
    BY <1>5, <2>1
  <2>3. record' = [record EXCEPT ![h] = r] /\ End(h) /\ record[h] # None
    BY <1>2, <1>6 DEF EndWith, Write
  <2>4. r = [record[h] EXCEPT !.linked = TRUE, !.failure = FALSE, !.state = "INVALID_RESPONSE",
                              !.response = "unsafe"]
    OBVIOUS
  <2> HIDE DEF r
  <2>5. "unsafe" # None
    BY FilesAssumption
  <2>6. Verdict(h, "INVALID_RESPONSE", "unsafe")
    BY <2>1, <2>5 DEF Verdict, Judged
  <2>7. Stands(h, r) /\ Observed(h, r)
    BY <1>1, <2>1, <2>2, <2>4, <2>6, Linked
  <2> QED
    BY <1>1, <1>4, <2>2, <2>3, <2>7, Leaves
<1>7. CASE /\ ~Unsafe(copy[h], cp) /\ cp.matching = {}
           /\ Write(h, With("AWAITING_RESPONSE", None)) /\ Proceed(h, With("AWAITING_RESPONSE", None), "cursor")
  <2> DEFINE r == With("AWAITING_RESPONSE", None)
  <2>1. "AWAITING_RESPONSE" \in States /\ None \in Kinds \cup {"unsafe", None}
    BY DEF States
  <2>2. r \in Records
    BY <1>5, <2>1
  <2>3. record' = [record EXCEPT ![h] = r] /\ Proceed(h, r, "cursor") /\ record[h] # None
    BY <1>2, <1>7 DEF Write
  <2>4. r = [record[h] EXCEPT !.linked = TRUE, !.failure = FALSE, !.state = "AWAITING_RESPONSE",
                              !.response = None]
    OBVIOUS
  <2> HIDE DEF r
  <2>5. None \notin Kinds /\ None # "unsafe" /\ ~Unsafe(record[h], checkpoint[h])
        /\ checkpoint[h].matching = {}
    BY <1>2, <1>7, FilesAssumption
  <2>6. Verdict(h, "AWAITING_RESPONSE", None)
    BY <2>5 DEF Verdict
  <2>7. Stands(h, r) /\ Observed(h, r) /\ r.state = "AWAITING_RESPONSE" /\ r.response = None /\ r.linked
    BY <1>1, <2>1, <2>2, <2>4, <2>6, Linked
  <2>8. op[h] # "proposal"
    BY <1>1, <1>2 DEF Informed
  <2>9. Informed(h, "cursor", op[h], r, r, approval[h])
    BY <2>5, <2>7, <2>8 DEF Informed
  <2> QED
    BY <1>2, <1>4, <2>2, <2>3, <2>7, <2>9, Goes
<1>8. CASE /\ ~Unsafe(copy[h], cp)
           /\ \E m \in cp.matching :
                 Write(h, With(Judgement(m[2]), m[2])) /\ Proceed(h, With(Judgement(m[2]), m[2]), "cursor")
  <2>1. PICK m \in cp.matching :
           Write(h, With(Judgement(m[2]), m[2])) /\ Proceed(h, With(Judgement(m[2]), m[2]), "cursor")
    BY <1>8
  <2> DEFINE r == With(Judgement(m[2]), m[2])
  <2>2. m[2] \in Kinds
    BY <1>3, <2>1 DEF Checkpoints
  <2>3. /\ Judgement(m[2]) \in States /\ Judgement(m[2]) \in Judged
        /\ Judgement(m[2]) = "ACCEPTED_EVIDENCE" => m[2] = "yes"
        /\ Judgement(m[2]) = "INVALID_RESPONSE" => m[2] = "bad"
        /\ m[2] \in Kinds \cup {"unsafe", None} /\ m[2] # "unsafe" /\ m[2] # None
        /\ Judgement(m[2]) # "AWAITING_RESPONSE"
    BY <2>2, FilesAssumption DEF Judgement, States, Judged, Kinds
  <2>4. r \in Records
    BY <1>5, <2>3
  <2>5. record' = [record EXCEPT ![h] = r] /\ Proceed(h, r, "cursor") /\ record[h] # None
    BY <1>2, <2>1 DEF Write
  <2>6. r = [record[h] EXCEPT !.linked = TRUE, !.failure = FALSE, !.state = Judgement(m[2]),
                              !.response = m[2]]
    OBVIOUS
  <2> HIDE DEF r
  <2>7. ~Unsafe(record[h], checkpoint[h]) /\ \E n \in checkpoint[h].matching : n[2] = m[2]
    BY <1>2, <1>8
  <2>8. Verdict(h, Judgement(m[2]), m[2])
    BY <2>3, <2>7 DEF Verdict
  <2>9. Judgement(m[2]) \in States /\ m[2] \in Kinds \cup {"unsafe", None}
    BY <2>3
  <2>10. Stands(h, r) /\ Observed(h, r) /\ r.response = m[2] /\ r.linked
    BY <1>1, <2>4, <2>6, <2>8, <2>9, Linked
  <2>11. op[h] # "proposal"
    BY <1>1, <1>2 DEF Informed
  <2>12. Informed(h, "cursor", op[h], r, r, approval[h])
    BY <2>3, <2>10, <2>11 DEF Informed
  <2> QED
    BY <1>2, <1>4, <2>4, <2>5, <2>10, <2>12, Goes
<1> QED
  <2>1. /\ [[copy[h] EXCEPT !.linked = TRUE, !.failure = FALSE] EXCEPT !.state = "INVALID_RESPONSE", !.response = "unsafe"]
             = With("INVALID_RESPONSE", "unsafe")
        /\ [copy[h] EXCEPT !.linked = TRUE, !.failure = FALSE] = With("AWAITING_RESPONSE", None)
    BY <1>2 DEF Records
  <2> QED
    BY <1>2, <1>6, <1>7, <1>8, <2>1 DEF Process, RefuseWindow

\* What an operation finds behind the cursor's locations.
LEMMA Whole ==
    ASSUME IInv, NEW h \in Handshakes, pc[h] \in {"cursor", "acked"}
    PROVE  /\ record[h] \in Records /\ record[h] # None /\ copy[h] = record[h] /\ TypeOK
           /\ record[h].linked /\ record[h].response # "unsafe"
           /\ checkpoint[h] \in Checkpoints
           /\ op[h] = "proposal" => record[h].state = "ACCEPTED_EVIDENCE"
           /\ pc[h] = "cursor" /\ op[h] = "timeout" =>
                 record[h].state = "AWAITING_RESPONSE" \/ record[h].response # None
           /\ Stands(h, record[h]) /\ Observed(h, record[h])
           /\ approval[h] \in Approvals /\ approval = [approval EXCEPT ![h] = approval[h]]
<1>1. /\ record[h] \in Records /\ record[h] # None /\ Stands(h, record[h]) /\ Observed(h, record[h])
      /\ Informed(h, pc[h], op[h], record[h], copy[h], approval[h]) /\ TypeOK
      /\ approval[h] \in Approvals /\ approval = [approval EXCEPT ![h] = approval[h]]
  BY Situation
<1>2. /\ record[h].linked /\ record[h].response # "unsafe" /\ copy[h] = record[h]
      /\ op[h] = "proposal" => record[h].state = "ACCEPTED_EVIDENCE"
      /\ pc[h] = "cursor" /\ op[h] = "timeout" =>
            record[h].state = "AWAITING_RESPONSE" \/ record[h].response # None
  BY <1>1 DEF Informed
<1>3. checkpoint[h] \in Checkpoints
  BY <1>1, <1>2 DEF Observed, TypeOK
<1> QED
  BY <1>1, <1>2, <1>3

LEMMA AdvanceCursorStep ==
    ASSUME IInv, NEW h \in Handshakes, AdvanceCursor(h)
    PROVE  Good
<1> DEFINE q == record[h]
           r == [q EXCEPT !.cursor = checkpoint[h].hi]
<1>1. pc[h] = "cursor" /\ UNCHANGED <<approval, checkpoint, proposal, wire, world, faults, history>>
  BY DEF AdvanceCursor
<1>2. /\ q \in Records /\ record[h] # None /\ copy[h] = q /\ TypeOK
      /\ q.linked /\ q.response # "unsafe" /\ checkpoint[h] \in Checkpoints
      /\ op[h] = "proposal" => q.state = "ACCEPTED_EVIDENCE"
      /\ op[h] = "timeout" => q.state = "AWAITING_RESPONSE" \/ q.response # None
      /\ Stands(h, q) /\ Observed(h, q)
      /\ approval[h] \in Approvals /\ approval = [approval EXCEPT ![h] = approval[h]]
  BY <1>1, Whole
<1>3. checkpoint[h].hi \in Nat
  BY <1>2 DEF Checkpoints
<1>4. /\ r \in Records /\ r.state = q.state /\ r.posts = q.posts /\ r.receipt = q.receipt
      /\ r.reads = q.reads /\ r.response = q.response /\ r.linked = q.linked
      /\ r.since = q.since /\ r.cursor = checkpoint[h].hi /\ r.generation = q.generation
      /\ r.failure = q.failure
  BY <1>2, <1>3 DEF Records
<1>5. record' = [record EXCEPT ![h] = r]
  BY <1>2 DEF AdvanceCursor, Write
<1>6. \/ r.response # None /\ Proceed(h, r, "acked")
      \/ r.response = None /\ op[h] = "timeout" /\ Proceed(h, r, "timeout")
      \/ End(h)
  BY <1>2 DEF AdvanceCursor
<1>7. /\ faults' \in 0 .. MaxFaults /\ approval' = [approval EXCEPT ![h] = approval[h]]
      /\ "acked" \in Locations /\ "acked" # "create" /\ "timeout" \in Locations /\ "timeout" # "create"
      /\ UNCHANGED <<checkpoint, proposal, wire, world, history>>
  BY <1>1, <1>2 DEF TypeOK, Locations
<1> HIDE DEF q, r
<1>8. Stands(h, r)
  BY <1>2, <1>4 DEF Stands, Readable
<1>9. Unsafe(r, checkpoint[h]) <=> Unsafe(q, checkpoint[h])
  BY <1>4 DEF Unsafe
<1>10. Observed(h, r)
  BY <1>2, <1>4, <1>9 DEF Observed
<1>11. CASE r.response # None /\ Proceed(h, r, "acked")
  <2>1. Informed(h, "acked", op[h], r, r, approval[h])
    BY <1>2, <1>4 DEF Informed
  <2> QED
    BY <1>2, <1>4, <1>5, <1>7, <1>8, <1>10, <1>11, <2>1, Goes
<1>12. CASE r.response = None /\ op[h] = "timeout" /\ Proceed(h, r, "timeout")
  <2>1. Informed(h, "timeout", op[h], r, r, approval[h])
    BY <1>2, <1>4, <1>12 DEF Informed
  <2> QED
    BY <1>2, <1>4, <1>5, <1>7, <1>8, <1>10, <1>12, <2>1, Goes
<1>13. CASE End(h)
  BY <1>1, <1>2, <1>4, <1>5, <1>7, <1>8, <1>10, <1>13, Leaves
<1> QED
  BY <1>6, <1>11, <1>12, <1>13

LEMMA WriteAckedStep ==
    ASSUME IInv, NEW h \in Handshakes, WriteAcked(h)
    PROVE  Good
<1> DEFINE q == record[h]
           r == [q EXCEPT !.acked = TRUE]
<1>1. pc[h] = "acked" /\ UNCHANGED <<approval, checkpoint, proposal, wire, world, faults, history>>
  BY DEF WriteAcked
<1>2. /\ q \in Records /\ record[h] # None /\ copy[h] = q /\ TypeOK
      /\ op[h] = "proposal" => q.state = "ACCEPTED_EVIDENCE"
      /\ Stands(h, q) /\ Observed(h, q)
      /\ approval[h] \in Approvals /\ approval = [approval EXCEPT ![h] = approval[h]]
  BY <1>1, Whole
<1>3. /\ r \in Records /\ r.state = q.state /\ r.posts = q.posts /\ r.receipt = q.receipt
      /\ r.reads = q.reads /\ r.response = q.response /\ r.linked = q.linked
      /\ r.since = q.since /\ r.cursor = q.cursor /\ r.generation = q.generation
      /\ r.failure = q.failure
  BY <1>2 DEF Records
<1>4. record' = [record EXCEPT ![h] = r]
  BY <1>2 DEF WriteAcked, Write
<1>5. (op[h] = "proposal" /\ Proceed(h, r, "propose")) \/ End(h)
  BY <1>2 DEF WriteAcked
<1>6. /\ faults' \in 0 .. MaxFaults /\ approval' = [approval EXCEPT ![h] = approval[h]]
      /\ "propose" \in Locations /\ "propose" # "create"
      /\ UNCHANGED <<checkpoint, proposal, wire, world, history>>
  BY <1>1, <1>2 DEF TypeOK, Locations
<1> HIDE DEF q, r
<1>7. Stands(h, r)
  BY <1>2, <1>3 DEF Stands, Readable
<1>8. Unsafe(r, checkpoint[h]) <=> Unsafe(q, checkpoint[h])
  BY <1>3 DEF Unsafe
<1>9. Observed(h, r)
  BY <1>2, <1>3, <1>8 DEF Observed
<1>10. CASE op[h] = "proposal" /\ Proceed(h, r, "propose")
  <2>1. Informed(h, "propose", op[h], r, r, approval[h])
    BY <1>2, <1>3, <1>10 DEF Informed
  <2> QED
    BY <1>2, <1>3, <1>4, <1>6, <1>7, <1>9, <1>10, <2>1, Goes
<1>11. CASE End(h)
  BY <1>1, <1>2, <1>3, <1>4, <1>6, <1>7, <1>9, <1>11, Leaves
<1> QED
  BY <1>5, <1>10, <1>11

LEMMA ConcludeTimeoutStep ==
    ASSUME IInv, NEW h \in Handshakes, ConcludeTimeout(h)
    PROVE  Good
<1> DEFINE q == record[h]
           r == [q EXCEPT !.state = Silence(q), !.failure = q.failure \/ ~q.linked]
<1>1. pc[h] = "timeout" /\ UNCHANGED <<approval, checkpoint, proposal, wire, world, faults, history>>
  BY DEF ConcludeTimeout
<1>2. /\ q \in Records /\ record[h] # None /\ copy[h] = q /\ TypeOK
      /\ q.state = "AWAITING_RESPONSE" /\ q.receipt /\ q.response = None /\ q.posts = 1
      /\ wire[h] \notin {"none", "request", "refused"} /\ ~proposal[h]
      /\ Stands(h, q) /\ Observed(h, q)
      /\ approval[h] \in Approvals /\ approval = [approval EXCEPT ![h] = approval[h]]
      /\ record = [record EXCEPT ![h] = q]
  BY <1>1, Awaiting
<1>3. /\ faults' \in 0 .. MaxFaults /\ approval' = [approval EXCEPT ![h] = approval[h]]
      /\ "cursor" \in Locations /\ "cursor" # "create"
      /\ UNCHANGED <<checkpoint, proposal, wire, world, history>>
  BY <1>1, <1>2 DEF TypeOK, Locations
<1>4. CASE End(h) /\ UNCHANGED record
  <2>1. record' = [record EXCEPT ![h] = q] /\ record[h] # None
    BY <1>2, <1>4
  <2> HIDE DEF q
  <2> QED
    BY <1>1, <1>2, <1>3, <1>4, <2>1, Leaves
<1>5. CASE Pending(h, copy[h]) /\ Proceed(h, copy[h], "cursor") /\ UNCHANGED record
  <2>1. q.linked /\ q.response # "unsafe"
    BY <1>2, <1>5, FilesAssumption DEF Pending
  <2>2. op[h] # "proposal"
    BY <1>1, Awaiting
  <2>3. Informed(h, "cursor", op[h], q, q, approval[h])
    BY <1>2, <2>1, <2>2 DEF Informed
  <2>4. record' = record
    BY <1>5
  <2> QED
    BY <1>2, <1>3, <1>5, <2>3, <2>4, GoesOn
<1>6. CASE /\ h \in expired
           /\ EndWith(h, [copy[h] EXCEPT !.state = Silence(copy[h]), !.failure = @ \/ ~copy[h].linked])
  <2>1. /\ Silence(q) \in {"NO_RESPONSE", "AMBIGUOUS_DELIVERY"}
        /\ Silence(q) = "NO_RESPONSE" => q.linked
        /\ q.linked => ~q.failure
    BY <1>2 DEF Silence, Observed
  <2>2. (q.failure \/ ~q.linked) \in BOOLEAN /\ Silence(q) \in States
    BY <1>2, <2>1 DEF Records, States
  <2>3. /\ r \in Records /\ r.state = Silence(q) /\ r.posts = q.posts /\ r.receipt = q.receipt
        /\ r.reads = q.reads /\ r.response = q.response /\ r.linked = q.linked
        /\ r.since = q.since /\ r.cursor = q.cursor /\ r.generation = q.generation
        /\ r.failure = (q.failure \/ ~q.linked)
    BY <1>2, <2>1, <2>2 DEF Records, States
  <2>4. record' = [record EXCEPT ![h] = r] /\ End(h) /\ record[h] # None
    BY <1>2, <1>6 DEF EndWith, Write
  <2> HIDE DEF q, r
  <2>5. Stands(h, r)
    BY <1>2, <1>6, <2>1, <2>3 DEF Stands, Readable, Unread, Judged
  <2>6. Unsafe(r, checkpoint[h]) <=> Unsafe(q, checkpoint[h])
    BY <2>3 DEF Unsafe
  <2>7. Observed(h, r)
    BY <1>2, <2>1, <2>3, <2>6 DEF Observed
  <2> QED
    BY <1>1, <1>3, <2>3, <2>4, <2>5, <2>7, Leaves
<1> QED
  BY <1>4, <1>5, <1>6 DEF ConcludeTimeout

LEMMA CreateProposalStep ==
    ASSUME IInv, NEW h \in Handshakes, CreateProposal(h)
    PROVE  Good
<1> DEFINE r == record[h]
<1>1. /\ pc[h] = "propose" /\ proposal' = [proposal EXCEPT ![h] = TRUE]
      /\ Proceed(h, copy[h], "proposed")
      /\ UNCHANGED <<record, approval, checkpoint, wire, world, faults, history>>
  BY DEF CreateProposal
<1>2. /\ r \in Records /\ r # None /\ Stands(h, r) /\ Observed(h, r) /\ Sending(h) /\ TypeOK
      /\ Informed(h, pc[h], op[h], r, copy[h], approval[h])
  BY <1>1, Situation
<1>3. copy[h] = r /\ r.state = "ACCEPTED_EVIDENCE"
  BY <1>1, <1>2 DEF Informed
<1>4. /\ proposal'[h] = TRUE /\ pc'[h] = "proposed" /\ op' = op /\ copy'[h] = copy[h]
      /\ pc' = [pc EXCEPT ![h] = "proposed"] /\ copy' = [copy EXCEPT ![h] = copy[h]]
      /\ UNCHANGED <<record, approval, checkpoint, wire, placed, room, dropped, generation,
                     expired, contradicted, faults, arrived, gets, missed>>
  BY <1>1, <1>2 DEF Proceed, world, service, history, TypeOK
<1>5. Touches(h)
  <2>1. /\ Sets(pc, pc', h, Locations) /\ Sets(proposal, proposal', h, BOOLEAN)
        /\ Sets(copy, copy', h, Records \cup {None})
    BY <1>1, <1>2, <1>4 DEF Sets, Locations, TypeOK
  <2>2. /\ Sets(record, record', h, Records \cup {None})
        /\ Sets(op, op', h, {"none", "receive", "timeout", "proposal"})
        /\ Sets(arrived, arrived', h, Nat) /\ Sets(gets, gets', h, Nat)
        /\ Sets(checkpoint, checkpoint', h, Checkpoints \cup {None})
        /\ Sets(approval, approval', h, Approvals)
        /\ Sets(placed, placed', h, [seq : Nat, generation : Nat])
        /\ Sets(wire, wire', h, {"none", "request", "posted", "refused", "lost"})
        /\ Sets(missed, missed', h, BOOLEAN)
    BY <1>4 DEF Sets
  <2> QED
    BY <1>2, <1>4, <2>1, <2>2 DEF Touches, TypeOK
<1>6. Sending(h)'
  BY <1>2, <1>4 DEF Sending
<1> HIDE DEF r
<1>7. Stored(h)'
  <2>1. Stands(h, r)'
    BY <1>2, <1>3, <1>4 DEF Stands, r
  <2>2. Observed(h, r)'
    BY <1>2, <1>4 DEF Observed, r
  <2> QED
    BY <2>1, <2>2 DEF Stored, r
<1>8. Knows(h)'
  BY <1>3, <1>4 DEF Knows, Informed, r
<1>9. Exchanges(h)
  BY <1>4 DEF Exchanges
<1> QED
  BY <1>5, <1>6, <1>7, <1>8, <1>9, StepSound

LEMMA LinkProposalStep ==
    ASSUME IInv, NEW h \in Handshakes, LinkProposal(h)
    PROVE  Good
<1> DEFINE q == record[h]
           r == [q EXCEPT !.proposed = TRUE]
<1>1. pc[h] = "proposed" /\ UNCHANGED <<approval, checkpoint, proposal, wire, world, faults, history>>
  BY DEF LinkProposal
<1>2. /\ q \in Records /\ q # None /\ Stands(h, q) /\ Observed(h, q) /\ TypeOK
      /\ Informed(h, pc[h], op[h], q, copy[h], approval[h])
  BY <1>1, Situation
<1>3. copy[h] = q
  BY <1>1, <1>2 DEF Informed
<1>4. /\ r \in Records /\ r.state = q.state /\ r.posts = q.posts /\ r.receipt = q.receipt
      /\ r.reads = q.reads /\ r.response = q.response /\ r.linked = q.linked
      /\ r.since = q.since /\ r.cursor = q.cursor /\ r.generation = q.generation
      /\ r.failure = q.failure
  BY <1>2 DEF Records
<1>5. /\ record' = [record EXCEPT ![h] = r] /\ End(h) /\ record[h] # None
      /\ faults' \in 0 .. MaxFaults /\ UNCHANGED <<approval, checkpoint, proposal, wire, world, history>>
  BY <1>1, <1>2, <1>3 DEF LinkProposal, EndWith, Write, TypeOK
<1> HIDE DEF q, r
<1>6. Stands(h, r)
  BY <1>2, <1>4 DEF Stands, Readable
<1>7. Unsafe(r, checkpoint[h]) <=> Unsafe(q, checkpoint[h])
  BY <1>4 DEF Unsafe
<1>8. Observed(h, r)
  BY <1>2, <1>4, <1>7 DEF Observed
<1> QED
  BY <1>4, <1>5, <1>6, <1>8, Leaves

\* An operation that dies or throws leaves everything as it is on disk.
LEMMA EndStep ==
    ASSUME IInv, NEW h \in Handshakes, End(h), Fault, UNCHANGED <<files, wire, world, history>>
    PROVE  Good
<1>1. /\ UNCHANGED <<record, approval, checkpoint, proposal, wire, placed, room, dropped, generation,
                     expired, contradicted, arrived, gets, missed>>
      /\ TypeOK /\ Sending(h) /\ Stored(h)
  BY DEF files, world, service, history, IInv
<1>2. /\ pc' = [pc EXCEPT ![h] = "idle"] /\ op' = [op EXCEPT ![h] = "none"]
      /\ copy' = [copy EXCEPT ![h] = None] /\ pc'[h] = "idle"
  BY <1>1 DEF End, TypeOK
<1>3. Touches(h)
  <2>1. /\ Sets(pc, pc', h, Locations) /\ Sets(copy, copy', h, Records \cup {None})
        /\ Sets(op, op', h, {"none", "receive", "timeout", "proposal"})
    BY <1>2 DEF Sets, Locations
  <2>2. /\ Sets(record, record', h, Records \cup {None}) /\ Sets(proposal, proposal', h, BOOLEAN)
        /\ Sets(arrived, arrived', h, Nat) /\ Sets(gets, gets', h, Nat)
        /\ Sets(checkpoint, checkpoint', h, Checkpoints \cup {None})
        /\ Sets(approval, approval', h, Approvals)
        /\ Sets(placed, placed', h, [seq : Nat, generation : Nat])
        /\ Sets(wire, wire', h, {"none", "request", "posted", "refused", "lost"})
        /\ Sets(missed, missed', h, BOOLEAN)
    BY <1>1 DEF Sets
  <2>3. faults' \in 0 .. MaxFaults
    BY <1>1, ExternalBootstrapAssumption DEF TypeOK, Fault
  <2> QED
    BY <1>1, <2>1, <2>2, <2>3 DEF Touches, TypeOK
<1>4. Sending(h)'
  BY <1>1, <1>2 DEF Sending
<1>5. Stored(h)'
  <2>1. Stands(h, record[h]) => Stands(h, record[h])'
    BY <1>1 DEF Stands
  <2>2. Observed(h, record[h]) => Observed(h, record[h])'
    BY <1>1 DEF Observed
  <2> QED
    BY <1>1, <2>1, <2>2 DEF Stored
<1>6. Knows(h)'
  BY <1>2 DEF Knows, Informed
<1>7. Exchanges(h)
  BY <1>1 DEF Exchanges
<1> QED
  BY <1>3, <1>4, <1>5, <1>6, <1>7, StepSound

LEMMA PrepareStep ==
    ASSUME IInv, NEW h \in Handshakes, Prepare(h)
    PROVE  Good
<1>1. /\ pc[h] = "idle" /\ approval[h] = "none"
      /\ approval' = [approval EXCEPT ![h] = "requested"] /\ pc' = [pc EXCEPT ![h] = "create"]
      /\ UNCHANGED <<record, checkpoint, proposal, op, copy, wire, placed, room, dropped, generation,
                     expired, contradicted, faults, arrived, gets, missed>>
  BY DEF Prepare, world, service, history
<1>2. TypeOK /\ Sending(h)
  BY DEF IInv
<1>3. /\ approval'[h] = "requested" /\ pc'[h] = "create"
      /\ record[h] = None /\ wire[h] = "none"
  BY <1>1, <1>2 DEF Sending, TypeOK
<1>4. Touches(h)
  <2>1. Sets(pc, pc', h, Locations) /\ Sets(approval, approval', h, Approvals)
    BY <1>1 DEF Sets, Locations, Approvals
  <2>2. /\ Sets(record, record', h, Records \cup {None}) /\ Sets(proposal, proposal', h, BOOLEAN)
        /\ Sets(copy, copy', h, Records \cup {None})
        /\ Sets(op, op', h, {"none", "receive", "timeout", "proposal"})
        /\ Sets(arrived, arrived', h, Nat) /\ Sets(gets, gets', h, Nat)
        /\ Sets(checkpoint, checkpoint', h, Checkpoints \cup {None})
        /\ Sets(placed, placed', h, [seq : Nat, generation : Nat])
        /\ Sets(wire, wire', h, {"none", "request", "posted", "refused", "lost"})
        /\ Sets(missed, missed', h, BOOLEAN)
    BY <1>1 DEF Sets
  <2> QED
    BY <1>1, <1>2, <2>1, <2>2 DEF Touches, TypeOK
<1>5. Sending(h)'
  BY <1>1, <1>2, <1>3 DEF Sending
<1>6. Stored(h)'
  BY <1>1, <1>3 DEF Stored
<1>7. Knows(h)'
  BY <1>3 DEF Knows, Informed
<1>8. Exchanges(h)
  BY <1>1 DEF Exchanges
<1> QED
  BY <1>4, <1>5, <1>6, <1>7, <1>8, StepSound

\* What happens around the operations touches no file and no operation.
LEMMA WorldStep ==
    ASSUME IInv, UNCHANGED <<files, local, wire, placed, faults, history>>,
           room' \in Seq(Messages), dropped' \in Nat, generation' \in 0 .. MaxRestarts,
           expired \subseteq expired', expired' \subseteq Handshakes, contradicted' \subseteq Handshakes
    PROVE  Good
<1>1. UNCHANGED <<record, approval, checkpoint, proposal, pc, op, copy, wire, placed, faults,
                  arrived, gets, missed>>
  BY DEF files, local, history
<1>2. TypeOK'
  BY <1>1 DEF IInv, TypeOK
<1>3. ASSUME NEW h \in Handshakes
      PROVE  Sending(h)' /\ Stored(h)' /\ Knows(h)'
  <2>1. Sending(h) /\ Stored(h) /\ Knows(h)
    BY DEF IInv
  <2>2. Sending(h)'
    BY <1>1, <2>1 DEF Sending
  <2>3. Stands(h, record[h]) => Stands(h, record[h])'
    BY <1>1 DEF Stands
  <2>4. Observed(h, record[h]) => Observed(h, record[h])'
    BY <1>1 DEF Observed
  <2>5. Knows(h)'
    BY <1>1, <2>1 DEF Knows, Informed
  <2> QED
    BY <1>1, <2>1, <2>2, <2>3, <2>4, <2>5 DEF Stored
<1>4. UNCHANGED Exchange!vars
  BY <1>1 DEF Exchange!vars
<1> QED
  BY <1>2, <1>3, <1>4 DEF Good, IInv

LEMMA EnvironmentStep ==
    ASSUME IInv, Speak \/ Drop \/ Restart \/ \E h \in Handshakes : Expire(h) \/ Contradict(h)
    PROVE  Good
<1>1. TypeOK
  BY DEF IInv
<1>2. CASE \E h \in Handshakes : Expire(h)
  <2>1. /\ UNCHANGED <<files, local, wire, placed, faults, history>>
        /\ room' \in Seq(Messages) /\ dropped' \in Nat /\ generation' \in 0 .. MaxRestarts
        /\ expired \subseteq expired' /\ expired' \subseteq Handshakes /\ contradicted' \subseteq Handshakes
    BY <1>1, <1>2 DEF Expire, service, TypeOK
  <2> QED
    BY <2>1, WorldStep
<1>3. CASE \E h \in Handshakes : Contradict(h)
  <2>1. /\ UNCHANGED <<files, local, wire, placed, faults, history>>
        /\ room' \in Seq(Messages) /\ dropped' \in Nat /\ generation' \in 0 .. MaxRestarts
        /\ expired \subseteq expired' /\ expired' \subseteq Handshakes /\ contradicted' \subseteq Handshakes
    BY <1>1, <1>3 DEF Contradict, service, TypeOK
  <2> QED
    BY <2>1, WorldStep
<1>4. CASE Speak
  <2>1. PICK m \in Messages : room' = Append(room, m)
    BY <1>4 DEF Speak
  <2>2. /\ UNCHANGED <<files, local, wire, placed, faults, history>>
        /\ room' \in Seq(Messages) /\ dropped' \in Nat /\ generation' \in 0 .. MaxRestarts
        /\ expired \subseteq expired' /\ expired' \subseteq Handshakes /\ contradicted' \subseteq Handshakes
    BY <1>1, <1>4, <2>1 DEF Speak, TypeOK
  <2> QED
    BY <2>2, WorldStep
<1>5. CASE Drop
  <2>1. /\ UNCHANGED <<files, local, wire, placed, faults, history>>
        /\ room' \in Seq(Messages) /\ dropped' \in Nat /\ generation' \in 0 .. MaxRestarts
        /\ expired \subseteq expired' /\ expired' \subseteq Handshakes /\ contradicted' \subseteq Handshakes
    BY <1>1, <1>5 DEF Drop, TypeOK
  <2> QED
    BY <2>1, WorldStep
<1>6. CASE Restart
  <2>1. <<>> \in Seq(Messages) /\ generation' \in 0 .. MaxRestarts
    BY <1>1, <1>6, ExternalBootstrapAssumption DEF Restart, TypeOK
  <2>2. /\ UNCHANGED <<files, local, wire, placed, faults, history>>
        /\ room' \in Seq(Messages) /\ dropped' \in Nat
        /\ expired \subseteq expired' /\ expired' \subseteq Handshakes /\ contradicted' \subseteq Handshakes
    BY <1>1, <1>6, <2>1 DEF Restart, TypeOK
  <2> QED
    BY <2>1, <2>2, WorldStep
<1> QED
  BY <1>2, <1>3, <1>4, <1>5, <1>6

-----------------------------------------------------------------------------
(* The invariant, and what follows from it.                                *)

LEMMA Initially == Init => IInv /\ Exchange!Init
<1> SUFFICES ASSUME Init PROVE IInv /\ Exchange!Init
  OBVIOUS
<1>1. TypeOK
  <2>1. <<>> \in Seq(Messages)
    OBVIOUS
  <2> QED
    BY <2>1, ExternalBootstrapAssumption DEF Init, TypeOK, Locations
<1>2. \A h \in Handshakes : Sending(h) /\ Stored(h) /\ Knows(h)
  BY DEF Init, Sending, Stored, Knows, Informed
<1>3. Exchange!Init
  BY DEF Init, Exchange!Init
<1> QED
  BY <1>1, <1>2, <1>3 DEF IInv

LEMMA NextStep ==
    ASSUME IInv, [Next]_vars
    PROVE  Good
<1>1. CASE UNCHANGED vars
  <2>1. /\ UNCHANGED <<files, local, wire, placed, faults, history>>
        /\ room' \in Seq(Messages) /\ dropped' \in Nat /\ generation' \in 0 .. MaxRestarts
        /\ expired \subseteq expired' /\ expired' \subseteq Handshakes /\ contradicted' \subseteq Handshakes
    BY <1>1 DEF vars, world, service, IInv, TypeOK
  <2> QED
    BY <2>1, WorldStep
<1>2. ASSUME NEW h \in Handshakes, Operation(h)
      PROVE  Good
  BY <1>2, PrepareStep, AuthorizeStep, SendStep, ReceiveStep, TimeoutStep, ProposeStep DEF Operation
<1>3. ASSUME NEW h \in Handshakes, Step(h)
      PROVE  Good
  <2>1. CASE Create(h) \/ WriteAuthorized(h) \/ Consume(h) \/ Reserve(h) \/ Dispatch(h) \/ Post(h)
    BY <2>1, CreateStep, WriteAuthorizedStep, ConsumeStep, ReserveStep, DispatchStep, PostStep
  <2>2. CASE Answered(h) \/ TimedOut(h) \/ Confirm(h) \/ WriteSent(h) \/ Conclude(h)
    BY <2>2, AnsweredStep, TimedOutStep, ConfirmStep, WriteSentStep, ConcludeStep
  <2>3. CASE Recover(h) \/ Get(h) \/ Persist(h) \/ Process(h) \/ AdvanceCursor(h) \/ WriteAcked(h)
    BY <2>3, RecoverStep, GetStep, PersistStep, ProcessStep, AdvanceCursorStep, WriteAckedStep
  <2>4. CASE ConcludeTimeout(h) \/ CreateProposal(h) \/ LinkProposal(h)
    BY <2>4, ConcludeTimeoutStep, CreateProposalStep, LinkProposalStep
  <2> QED
    BY <1>3, <2>1, <2>2, <2>3, <2>4 DEF Step
<1>4. ASSUME NEW h \in Handshakes, StepThrows(h) \/ Die(h)
      PROVE  Good
  BY <1>4, EndStep DEF StepThrows, Die
<1>5. ASSUME NEW h \in Handshakes, Accept(h) \/ Refuse(h)
      PROVE  Good
  BY <1>5, AcceptStep, RefuseStep
<1>6. ASSUME NEW h \in Handshakes, Expire(h) \/ Contradict(h)
      PROVE  Good
  BY <1>6, EnvironmentStep
<1>7. CASE Speak \/ Drop \/ Restart
  BY <1>7, EnvironmentStep
<1> QED
  BY <1>1, <1>2, <1>3, <1>4, <1>5, <1>6, <1>7 DEF Next

LEMMA Invariance == Spec => []IInv /\ ImplementsOneExchange
<1>1. Init => IInv /\ Exchange!Init
  BY Initially
<1>2. IInv /\ [Next]_vars => IInv' /\ [Exchange!Next]_(Exchange!vars)
  BY NextStep DEF Good
<1> QED
  BY <1>1, <1>2, PTL DEF Spec, ImplementsOneExchange, Exchange!Spec

\* Every record that the steps write passes validateStored when it is read again
\* (swarm/external-bootstrap.ts), so that no operation ends on its own record.
THEOREM RecordsAreReadable == Spec => []StoredIsReadable
<1>1. IInv => StoredIsReadable
  BY DEF IInv, Stored, Stands, StoredIsReadable
<1> QED
  BY <1>1, Invariance, PTL

\* REJECTED without an answer means that the offer never reached the room, and a
\* receipt that it did: what the error handling of send makes of a failure is true.
THEOREM VerdictsTellTheTruth == Spec => []VerdictsAreTrue
<1>1. IInv => VerdictsAreTrue
  <2> SUFFICES ASSUME IInv, NEW h \in Handshakes, record[h] # None
               PROVE  /\ record[h].state = "REJECTED" /\ record[h].response = None
                            => arrived[h] = 0 /\ wire[h] # "request"
                      /\ record[h].receipt => arrived[h] = 1
    BY DEF VerdictsAreTrue
  <2>1. Sending(h) /\ Stands(h, record[h])
    BY DEF IInv, Stored
  <2> QED
    BY <2>1 DEF Sending, Stands
<1> QED
  BY <1>1, Invariance, PTL

\* NO_RESPONSE is concluded by timeout from a whole, linked observation behind the
\* deadline, at which the service had nothing to show.
THEOREM SilenceIsObserved == Spec => []NoResponseIsComplete
<1>1. IInv => NoResponseIsComplete
  <2> SUFFICES ASSUME IInv, NEW h \in Handshakes, record[h] # None, record[h].state = "NO_RESPONSE"
               PROVE  /\ gets[h] = 1 /\ ~missed[h] /\ h \in expired
                      /\ checkpoint[h].stage = "final" /\ checkpoint[h].hi = checkpoint[h].last
    BY DEF NoResponseIsComplete
  <2> DEFINE r == record[h]
             cp == checkpoint[h]
  <2>1. /\ Stands(h, r) /\ Observed(h, r) /\ r \in Records
        /\ checkpoint \in [Handshakes -> Checkpoints \cup {None}]
    BY DEF IInv, Stored, TypeOK
  <2>2. r.linked /\ h \in expired /\ r.response = None
    BY <2>1 DEF Stands, Judged
  <2>3. /\ cp # None /\ cp.stage = "final" /\ gets[h] = 1 /\ ~Unsafe(r, cp) /\ cp.matching = {}
        /\ cp.lo = r.since /\ r.since <= cp.last /\ cp.last <= cp.hi =>
              cp.hi = cp.last /\ (cp.matching = {} => ~missed[h])
    BY <2>1, <2>2, FilesAssumption DEF Observed
  <2>4. r.since \in Nat /\ cp.last \in Nat /\ cp.hi \in Nat
    BY <2>1, <2>3 DEF Records, Checkpoints
  <2>5. cp.lo = r.since /\ r.since <= cp.last /\ cp.last <= cp.hi
    BY <2>3, <2>4 DEF Unsafe
  <2> QED
    BY <2>2, <2>3, <2>5
<1> QED
  BY <1>1, Invariance, PTL

\* advanceCursor moves acknowledgedThrough over a retained, linked and unbroken window
\* only, and exactly to its end.
THEOREM CursorHasEvidence == Spec => []CursorBehindEvidence
<1>1. IInv => CursorBehindEvidence
  <2> SUFFICES ASSUME IInv, NEW h \in Handshakes, record[h] # None,
                      record[h].cursor # record[h].since
               PROVE  /\ record[h].linked /\ checkpoint[h].stage = "final"
                      /\ record[h].cursor = checkpoint[h].last
                      /\ checkpoint[h].lo = record[h].since
                      /\ checkpoint[h].generation = record[h].generation
    BY DEF CursorBehindEvidence
  <2> DEFINE r == record[h]
             cp == checkpoint[h]
  <2>1. /\ Observed(h, r) /\ r \in Records
        /\ checkpoint \in [Handshakes -> Checkpoints \cup {None}]
    BY DEF IInv, Stored, TypeOK
  <2>2. /\ r.linked /\ r.cursor = cp.hi /\ cp # None /\ cp.stage = "final" /\ ~Unsafe(r, cp)
        /\ cp.lo = r.since /\ r.since <= cp.last /\ cp.last <= cp.hi => cp.hi = cp.last
    BY <2>1 DEF Observed
  <2>3. r.since \in Nat /\ cp.last \in Nat /\ cp.hi \in Nat
    BY <2>1, <2>2 DEF Records, Checkpoints
  <2>4. /\ cp.lo = r.since /\ r.since <= cp.last /\ cp.last <= cp.hi
        /\ cp.generation = r.generation
    BY <2>2, <2>3 DEF Unsafe
  <2> QED
    BY <2>2, <2>4
<1> QED
  BY <1>1, Invariance, PTL

\* ACCEPTED_EVIDENCE, and every proposal made of it, rests on the one retained
\* acceptance by the peer of an offer that reached the room.
THEOREM AcceptanceIsBacked == Spec => []AcceptedIsBacked
<1>1. IInv => AcceptedIsBacked
  <2> SUFFICES ASSUME IInv, NEW h \in Handshakes,
                      proposal[h] \/ (record[h] # None /\ record[h].state = "ACCEPTED_EVIDENCE")
               PROVE  /\ checkpoint[h] # None /\ checkpoint[h].stage = "final"
                      /\ \E m \in checkpoint[h].matching : checkpoint[h].matching = {m} /\ m[2] = "yes"
                      /\ arrived[h] = 1 /\ gets[h] = 1
    BY DEF AcceptedIsBacked
  <2> DEFINE r == record[h]
  <2>1. r # None /\ Stands(h, r) /\ Observed(h, r)
    BY DEF IInv, Sending, Stored
  <2>2. r.state = "ACCEPTED_EVIDENCE" /\ r.response = "yes" /\ "yes" \in Kinds /\ "yes" # None /\ r.receipt
    BY <2>1, FilesAssumption DEF Stands, Readable, Kinds
  <2>3. r.linked /\ arrived[h] = 1
    BY <2>1, <2>2 DEF Stands
  <2>4. /\ checkpoint[h] # None /\ checkpoint[h].stage = "final" /\ gets[h] = 1
        /\ \E m \in checkpoint[h].matching : checkpoint[h].matching = {m} /\ m[2] = "yes"
    BY <2>1, <2>2, <2>3 DEF Observed
  <2> QED
    BY <2>3, <2>4
<1> QED
  BY <1>1, Invariance, PTL

\* Whatever dies, fails or races the service, a bootstrap is one offer under one grant
\* and one read behind its acceptance.
THEOREM BootstrapsOnce == Spec => ImplementsOneExchange
BY Invariance, PTL

=============================================================================
