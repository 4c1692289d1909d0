-------------------------- MODULE OutboundWorkProofs --------------------------
(***************************************************************************)
(* Proofs about OutboundWork for every set of jobs and workers and every   *)
(* bound: verdicts tell the truth, responses are backed, the cursor skips  *)
(* nothing, ends are final, and a job is one exchange.                     *)
(*                                                                         *)
(* The argument has two invariants.  IInv holds whatever two workers do to *)
(* the same record, also when a lock was taken from a live one (raced): an *)
(* approval is used once, Dave is asked once, what is retained was there,  *)
(* and every record, and every copy of one, is backed by what was sent and *)
(* read.  Exclusive holds until a lock was taken so: a worker that has a   *)
(* job's lock knows how its copy differs from the record (Knows), and the  *)
(* record tells how far the exchange has come (Told).  A worker's step is  *)
(* about one job (Alone); what it does to the approval, the review, the    *)
(* files and the record is stated apart (Sends, Reviews, Reads, Keeps) and *)
(* each is shown to keep its part of the invariant.                        *)
(***************************************************************************)
EXTENDS OutboundWork, TLAPS

\* Dave's part of the files: his tasks, his runtime lock, and what he was asked.
USE DEF daves

\* Where a worker has Dave's runtime.
Reviewing == {"dave", "claimed", "infer"}

\* What Dave's runtime says of the task of a review.
Tasks == Outcomes \cup {"none", "pending", "running", "intended", "failed"}

\* Behind the approval's one use, and before the outcome is on record.
Past == {"dispatch", "await", "confirm", "sent", "awaiting"}
Open == {"none", "requested", "approved"}

\* A worker that does something does it to a job, on a copy of its record.
Working ==
    \A w \in Workers :
        /\ pc[w] # "idle" => at[w] \in Jobs /\ copy[w] \in Records
        /\ pc[w] = "create" => copy[w] = New(copy[w].since)

\* An approval is used by one worker, once, and a POST needs that use.
SendsOnce ==
    /\ \A j \in Jobs :
        /\ approval[j] \in Open => wire[j] = "none"
        /\ wire[j] \in {"none", "request", "refused"} => arrived[j] = 0
        /\ wire[j] = "posted" => arrived[j] = 1
        /\ arrived[j] \in {0, 1}
        /\ record[j] = None => wire[j] = "none"
    /\ \A w \in Workers :
        /\ pc[w] \in Past => approval[at[w]] \notin Open
        /\ pc[w] = "dispatch" => wire[at[w]] = "none"
        /\ \A v \in Workers : pc[w] \in Past /\ pc[v] \in Past /\ at[w] = at[v] => w = v

\* Dave's runtime is one worker's, and his inference is asked behind the intent only,
\* which no recovery takes back.
ReviewsOnce ==
    /\ \A w \in Workers :
        /\ pc[w] \in Reviewing <=> dave = w
        /\ pc[w] = "claimed" => review[at[w]] = "running"
        /\ pc[w] = "infer" => review[at[w]] = "intended"
        /\ pc[w] = "verdict" => review[at[w]] \in Outcomes
    /\ \A j \in Jobs :
        /\ inferred[j] \in {0, 1}
        /\ review[j] \in {"none", "pending", "running"} => inferred[j] = 0

\* What was read was there, and an answer has its request.
ReadsTrue ==
    /\ \A j \in Jobs : checkpoint[j] # None =>
        /\ gets[j] > 0
        /\ checkpoint[j].lo < checkpoint[j].last => checkpoint[j].last \in 1 .. Len(room)
    /\ \A i \in 1 .. Len(room) : room[i] \in Jobs => arrived[room[i]] = 1
    /\ \A w \in Workers : pc[w] = "process" => checkpoint[at[w]] # None
    /\ elsewhere <= Len(room)

\* What a record of a job, or a copy of it, says is so.
Backed(j, r) ==
    /\ r.receipt => arrived[j] = 1
    /\ r.verified =>
        /\ gets[j] > 0 /\ arrived[j] = 1
        /\ checkpoint[j] = [cursor |-> r.since, lo |-> r.since, last |-> r.since + 1]
        /\ r.since + 1 \in 1 .. Len(room) /\ room[r.since + 1] = j
    /\ r.state = "SUCCESS" => review[j] = "VOUCH"
    /\ r.state = "REJECTED_RESULT" => review[j] = "REJECT"

RecordsBacked ==
    /\ \A j \in Jobs : record[j] # None => Backed(j, record[j])
    /\ \A w \in Workers : pc[w] # "idle" => Backed(at[w], copy[w])

IInv == TypeOK /\ Working /\ SendsOnce /\ ReviewsOnce /\ ReadsTrue /\ RecordsBacked

\* What a worker that has its job's lock knows of the record.
Knows(w) ==
    LET r == record[at[w]]
        c == copy[w]
        same == c = r
    IN
    /\ pc[w] = "authorize" =>
          r.state \in {"PREPARED", "AUTHORIZED"} /\ c = [r EXCEPT !.state = "AUTHORIZED"]
    /\ pc[w] \in {"unlock", "dispatch"} => same /\ r.state = "AUTHORIZED"
    /\ pc[w] \in {"await", "confirm", "sent"} => same /\ r.state = "SENDING"
    /\ pc[w] = "awaiting" => same /\ r.state = "SENT"
    /\ pc[w] = "conclude" =>
          /\ r.state \in {"AUTHORIZED", "SENDING", "SENT"}
          /\ c.state \in {"DELIVERY_REJECTED", "AMBIGUOUS_DELIVERY"}
          /\ c.since = r.since /\ c.link = r.link /\ c.reads = r.reads
          /\ c.state = "DELIVERY_REJECTED" => wire[at[w]] \in {"none", "refused"}
    /\ pc[w] \in {"observe", "read", "process"} => same /\ r.state = "AWAITING_RESPONSE" /\ r.receipt
    /\ pc[w] = "read" => gets[at[w]] = 0 /\ r.reads = 1
    /\ pc[w] = "link" => same /\ r.state = "RESPONSE_RECEIVED"
    /\ pc[w] \in {"ack", "reack"} => same
    /\ pc[w] = "acked" => c = [r EXCEPT !.acked = TRUE]
    /\ pc[w] = "timeout" => r.state = "AWAITING_RESPONSE" /\ c = [r EXCEPT !.state = "NO_RESPONSE"]
    /\ pc[w] \in {"review", "start", "dave", "claimed", "infer", "verdict"} => same /\ r.state = "REVIEW_PENDING"

Holds(w) ==
    pc[w] \notin {"idle", "create"} =>
        lock[at[w]] = w /\ record[at[w]] # None /\ Knows(w)

\* What the record of a job says of the exchange.
Told(j) ==
    /\ record[j] = None => gets[j] = 0
    /\ record[j] # None =>
        /\ record[j].state \in {"PREPARED", "AUTHORIZED"} => wire[j] = "none"
        /\ record[j].state = "DELIVERY_REJECTED" => wire[j] \in {"none", "refused"}
        /\ record[j].state \in {"PREPARED", "AUTHORIZED", "SENDING", "SENT", "AWAITING_RESPONSE"} =>
              record[j].link = 0
        /\ record[j].reads = 0 => gets[j] = 0

Exclusive ==
    ~raced => /\ \A w \in Workers : Holds(w)
              /\ \A j \in Jobs : Told(j)
              /\ NothingSkipped

-----------------------------------------------------------------------------
(* What the step of a worker may do.                                       *)

\* It is about the worker's own place and copy, and about one job.
Alone(w, j) ==
    /\ w \in Workers /\ j \in Jobs
    /\ \A v \in Workers \ {w} : pc'[v] = pc[v] /\ at'[v] = at[v] /\ copy'[v] = copy[v]
    /\ \A k \in Jobs \ {j} :
          /\ record'[k] = record[k] /\ approval'[k] = approval[k] /\ checkpoint'[k] = checkpoint[k]
          /\ wire'[k] = wire[k] /\ gets'[k] = gets[k]
          /\ lock[k] # w => lock'[k] = lock[k]
    /\ pc[w] # "idle" => at[w] = j
    /\ pc'[w] # "idle" => at'[w] = j /\ copy'[w] \in Records
    /\ pc'[w] = "create" => copy'[w] = New(copy'[w].since)
    /\ UNCHANGED <<room, arrived, elsewhere>>

\* It takes an approval that is open, for nobody; and posts on one it took.
Sends(w, j) ==
    /\ approval'[j] \in Open => approval[j] \in Open
    /\ approval[j] \notin {"none", "requested"} => approval'[j] \notin {"none", "requested"}
    /\ record'[j] = None => record[j] = None /\ wire'[j] = wire[j]
    /\ pc'[w] \in Past => pc[w] \in Past \/ approval[j] \in Open
    /\ pc'[w] \in Past => approval'[j] \notin Open
    /\ pc'[w] = "dispatch" => approval[j] \in Open
    /\ wire'[j] = wire[j] \/ (wire'[j] = "request" /\ pc[w] = "dispatch")

\* It keeps what is so of the reviews, and every outcome.
Reviews ==
    /\ ReviewsOnce'
    /\ \A k \in Jobs : review[k] \in Outcomes => review'[k] = review[k]

\* It keeps what it reads, and keeps it once.
Reads(w, j) ==
    /\ gets'[j] \in {gets[j], gets[j] + 1}
    /\ \/ checkpoint'[j] = checkpoint[j]
       \/ /\ checkpoint[j] = None /\ gets'[j] > 0
          /\ checkpoint'[j].lo < checkpoint'[j].last => checkpoint'[j].last \in 1 .. Len(room)
    /\ pc'[w] = "process" => checkpoint'[j] # None

\* A record that makes no more of the exchange than another.
Follows(t, r) ==
    /\ t.receipt => r.receipt
    /\ t.verified => r.verified
    /\ t.since = r.since
    /\ t.state \in {"SUCCESS", "REJECTED_RESULT"} => t.state = r.state

BackedNext(j, r) ==
    /\ r.receipt => arrived'[j] = 1
    /\ r.verified =>
        /\ gets'[j] > 0 /\ arrived'[j] = 1
        /\ checkpoint'[j] = [cursor |-> r.since, lo |-> r.since, last |-> r.since + 1]
        /\ r.since + 1 \in 1 .. Len(room') /\ room'[r.since + 1] = j
    /\ r.state = "SUCCESS" => review'[j] = "VOUCH"
    /\ r.state = "REJECTED_RESULT" => review'[j] = "REJECT"

\* It works on the record that it is handed, or that it reads.
Keeps(w, j) ==
    /\ record'[j] = record[j] \/ BackedNext(j, record'[j])
    /\ pc'[w] # "idle" => BackedNext(j, copy'[w])

LEMMA FollowsBacked ==
    ASSUME NEW j, NEW r, NEW t, BackedNext(j, r), Follows(t, r)
    PROVE  BackedNext(j, t)
BY DEF BackedNext, Follows

LEMMA SendsStep ==
    ASSUME IInv, NEW w, NEW j, Alone(w, j), Sends(w, j)
    PROVE  SendsOnce'
<1>1. /\ w \in Workers /\ j \in Jobs /\ arrived' = arrived
      /\ \A v \in Workers \ {w} : pc'[v] = pc[v] /\ at'[v] = at[v]
      /\ \A k \in Jobs \ {j} : record'[k] = record[k] /\ approval'[k] = approval[k] /\ wire'[k] = wire[k]
      /\ pc[w] # "idle" => at[w] = j
      /\ pc'[w] # "idle" => at'[w] = j
  BY DEF Alone
<1>2. \A v \in Workers : pc[v] \in Past => at[v] \in Jobs /\ approval[at[v]] \notin Open
  BY DEF IInv, Working, SendsOnce, Past
<1>3. ASSUME NEW k \in Jobs
      PROVE  /\ approval'[k] \in Open => wire'[k] = "none"
             /\ wire'[k] \in {"none", "request", "refused"} => arrived'[k] = 0
             /\ wire'[k] = "posted" => arrived'[k] = 1
             /\ arrived'[k] \in {0, 1}
             /\ record'[k] = None => wire'[k] = "none"
  <2>1. CASE k # j
    BY <1>1, <2>1 DEF IInv, SendsOnce
  <2>2. CASE k = j
    <3>1. pc[w] = "dispatch" => wire[j] = "none" /\ approval[j] \notin Open
      BY <1>1 DEF IInv, SendsOnce, Past
    <3> QED
      BY <1>1, <2>2, <3>1 DEF IInv, SendsOnce, Sends
  <2> QED
    BY <2>1, <2>2
<1>4. ASSUME NEW v \in Workers, pc'[v] \in Past
      PROVE  approval'[at'[v]] \notin Open
  <2>1. CASE v = w
    BY <1>1, <1>4, <2>1 DEF Sends, Past
  <2>2. CASE v # w
    <3>1. pc[v] \in Past /\ at'[v] = at[v] /\ at[v] \in Jobs /\ approval[at[v]] \notin Open
      BY <1>1, <1>2, <1>4, <2>2
    <3> QED
      BY <1>1, <3>1 DEF Sends
  <2> QED
    BY <2>1, <2>2
<1>5. ASSUME NEW v \in Workers, pc'[v] = "dispatch"
      PROVE  wire'[at'[v]] = "none"
  <2>1. CASE v = w
    <3>1. approval[j] \in Open /\ at'[w] = j
      BY <1>1, <1>5, <2>1 DEF Sends
    <3>2. pc[w] # "dispatch" /\ wire[j] = "none"
      BY <1>1, <1>2, <3>1 DEF IInv, SendsOnce, Past
    <3> QED
      BY <2>1, <3>1, <3>2 DEF Sends
  <2>2. CASE v # w
    <3>1. pc[v] = "dispatch" /\ at'[v] = at[v] /\ at[v] \in Jobs /\ wire[at[v]] = "none"
      BY <1>1, <1>5, <2>2 DEF IInv, SendsOnce, Working
    <3>2. ~(at[v] = j /\ pc[w] = "dispatch")
      BY <1>1, <2>2, <3>1 DEF IInv, SendsOnce, Past
    <3> QED
      BY <1>1, <3>1, <3>2 DEF Sends
  <2> QED
    BY <2>1, <2>2
<1>6. ASSUME NEW u \in Workers, NEW v \in Workers, pc'[u] \in Past, pc'[v] \in Past, at'[u] = at'[v]
      PROVE  u = v
  <2>1. ASSUME NEW x \in Workers, x # w, pc'[w] \in Past, pc'[x] \in Past, at'[x] = at'[w]
        PROVE  FALSE
    <3>1. pc[x] \in Past /\ at[x] = j
      BY <1>1, <2>1 DEF Past
    <3>2. approval[j] \notin Open
      BY <1>2, <3>1
    <3>3. pc[w] \in Past
      BY <2>1, <3>2 DEF Sends
    <3>4. at[w] = j
      BY <1>1, <3>3 DEF Past
    <3> QED
      BY <2>1, <3>1, <3>3, <3>4, <1>1 DEF IInv, SendsOnce
  <2>2. u # w /\ v # w => u = v
    BY <1>1, <1>6 DEF IInv, SendsOnce
  <2> QED
    BY <1>6, <2>1, <2>2
<1> QED
  BY <1>3, <1>4, <1>5, <1>6 DEF SendsOnce

LEMMA ReadsStep ==
    ASSUME IInv, NEW w, NEW j, Alone(w, j), Reads(w, j)
    PROVE  /\ ReadsTrue'
           /\ \A k \in Jobs : gets[k] > 0 => gets'[k] > 0
           /\ \A k \in Jobs : checkpoint[k] # None => checkpoint'[k] = checkpoint[k]
<1>1. /\ w \in Workers /\ j \in Jobs /\ room' = room /\ arrived' = arrived /\ elsewhere' = elsewhere
      /\ \A v \in Workers \ {w} : pc'[v] = pc[v] /\ at'[v] = at[v]
      /\ \A k \in Jobs \ {j} : checkpoint'[k] = checkpoint[k] /\ gets'[k] = gets[k]
      /\ pc'[w] # "idle" => at'[w] = j
  BY DEF Alone
<1>2. gets \in [Jobs -> Nat]
  BY DEF IInv, TypeOK
<1>3. \A k \in Jobs : (gets[k] > 0 => gets'[k] > 0) /\ (checkpoint[k] # None => checkpoint'[k] = checkpoint[k])
  BY <1>1, <1>2 DEF Reads
<1>4. ASSUME NEW k \in Jobs, checkpoint'[k] # None
      PROVE  /\ gets'[k] > 0
             /\ checkpoint'[k].lo < checkpoint'[k].last => checkpoint'[k].last \in 1 .. Len(room')
  <2>1. CASE checkpoint'[k] = checkpoint[k]
    <3>1. gets[k] > 0 /\ (checkpoint[k].lo < checkpoint[k].last => checkpoint[k].last \in 1 .. Len(room))
      BY <1>4, <2>1 DEF IInv, ReadsTrue
    <3>2. gets'[k] > 0
      BY <1>1, <1>2, <3>1 DEF Reads
    <3> QED
      BY <1>1, <2>1, <3>1, <3>2
  <2>2. CASE checkpoint'[k] # checkpoint[k]
    BY <1>1, <2>2 DEF Reads
  <2> QED
    BY <2>1, <2>2
<1>5. ASSUME NEW v \in Workers, pc'[v] = "process"
      PROVE  checkpoint'[at'[v]] # None
  <2>1. CASE v = w
    BY <1>1, <1>5, <2>1 DEF Reads
  <2>2. CASE v # w
    <3>1. pc[v] = "process" /\ at'[v] = at[v] /\ at[v] \in Jobs /\ checkpoint[at[v]] # None
      BY <1>1, <1>5, <2>2 DEF IInv, Working, ReadsTrue
    <3> QED
      BY <1>3, <3>1
  <2> QED
    BY <2>1, <2>2
<1> QED
  BY <1>1, <1>3, <1>4, <1>5 DEF IInv, ReadsTrue

LEMMA StaysBacked ==
    ASSUME IInv, arrived' = arrived, room' = room,
           \A k \in Jobs : /\ review[k] \in Outcomes => review'[k] = review[k]
                           /\ gets[k] > 0 => gets'[k] > 0
                           /\ checkpoint[k] # None => checkpoint'[k] = checkpoint[k],
           NEW k \in Jobs, NEW r \in Records, Backed(k, r)
    PROVE  BackedNext(k, r)
<1>2. r.verified => checkpoint[k] # None
  <2>1. r.since \in Nat
    BY DEF Records
  <2>2. [cursor |-> r.since, lo |-> r.since, last |-> r.since + 1] \in Checkpoints
    BY <2>1 DEF Checkpoints
  <2> QED
    BY <2>2, FilesAssumption DEF Backed
<1>3. r.verified => checkpoint'[k] = checkpoint[k]
  BY <1>2
<1>4. (r.state = "SUCCESS" => review'[k] = "VOUCH") /\ (r.state = "REJECTED_RESULT" => review'[k] = "REJECT")
  BY DEF Backed, Outcomes
<1> QED
  BY <1>3, <1>4 DEF Backed, BackedNext

\* What a copy and a record say stays so.
LEMMA Persists ==
    ASSUME IInv, NEW w, NEW j, Alone(w, j), Reviews, Reads(w, j)
    PROVE  /\ \A k \in Jobs : record[k] # None => BackedNext(k, record[k])
           /\ \A v \in Workers : pc[v] # "idle" => BackedNext(at[v], copy[v])
<1>1. /\ arrived' = arrived /\ room' = room
      /\ \A k \in Jobs : /\ review[k] \in Outcomes => review'[k] = review[k]
                         /\ gets[k] > 0 => gets'[k] > 0
                         /\ checkpoint[k] # None => checkpoint'[k] = checkpoint[k]
  <2>1. \A k \in Jobs : review[k] \in Outcomes => review'[k] = review[k]
    BY DEF Reviews
  <2>2. /\ \A k \in Jobs : gets[k] > 0 => gets'[k] > 0
        /\ \A k \in Jobs : checkpoint[k] # None => checkpoint'[k] = checkpoint[k]
    BY ReadsStep
  <2>3. arrived' = arrived /\ room' = room
    BY DEF Alone
  <2> QED
    BY <2>1, <2>2, <2>3
<1>2. ASSUME NEW k \in Jobs, record[k] # None PROVE BackedNext(k, record[k])
  <2>1. record[k] \in Records /\ Backed(k, record[k])
    BY <1>2 DEF IInv, TypeOK, RecordsBacked
  <2> QED
    BY <1>1, <2>1, StaysBacked
<1>3. ASSUME NEW v \in Workers, pc[v] # "idle" PROVE BackedNext(at[v], copy[v])
  <2>1. at[v] \in Jobs /\ copy[v] \in Records /\ Backed(at[v], copy[v])
    BY <1>3 DEF IInv, Working, RecordsBacked
  <2> QED
    BY <1>1, <2>1, StaysBacked
<1> QED
  BY <1>2, <1>3

LEMMA KeepsStep ==
    ASSUME IInv, NEW w, NEW j, Alone(w, j), Reviews, Reads(w, j), Keeps(w, j)
    PROVE  RecordsBacked'
<1>1. ASSUME NEW k \in Jobs, record'[k] # None PROVE BackedNext(k, record'[k])
  <2>1. record'[k] = record[k] \/ BackedNext(k, record'[k])
    BY DEF Alone, Keeps
  <2> QED
    BY <1>1, <2>1, Persists
<1>2. ASSUME NEW v \in Workers, pc'[v] # "idle" PROVE BackedNext(at'[v], copy'[v])
  <2>1. CASE v = w
    BY <1>2, <2>1 DEF Alone, Keeps
  <2>2. CASE v # w
    BY <1>2, <2>2, Persists DEF Alone
  <2> QED
    BY <2>1, <2>2
<1> QED
  BY <1>1, <1>2 DEF RecordsBacked, Backed, BackedNext

\* In a section of its job, nobody else is in one, or it changes nothing of the
\* job; what it leaves is as it says.
Sections(w, j) ==
    /\ raced => raced'
    /\ ~raced' =>
        /\ \/ pc[w] \in {"idle", "create"} /\ lock[j] \notin Workers
           \/ lock[j] = w
           \/ /\ record'[j] = record[j] /\ wire'[j] = wire[j] /\ gets'[j] = gets[j]
              /\ lock[j] # w => lock'[j] = lock[j]
        /\ Holds(w)' /\ Told(j)'

\* Neither the cursor passes what no record covers, nor a record gives up what it
\* covers.
Covers(w, j) ==
    ~raced' =>
        /\ record[j] # None =>
              record'[j] # None /\ record'[j].since = record[j].since /\ record'[j].link >= record[j].link
        /\ \/ cursor' = cursor
           \/ record'[j] # None /\ cursor' <= record'[j].link

LEMMA SectionsStep ==
    ASSUME IInv, Exclusive, NEW w, NEW j, Alone(w, j), Sections(w, j), ~raced'
    PROVE  (\A v \in Workers : Holds(v)') /\ (\A k \in Jobs : Told(k)')
<1>1. /\ ~raced /\ Holds(w)' /\ Told(j)'
      /\ \/ pc[w] \in {"idle", "create"} /\ lock[j] \notin Workers
         \/ lock[j] = w
         \/ /\ record'[j] = record[j] /\ wire'[j] = wire[j] /\ gets'[j] = gets[j]
            /\ lock[j] # w => lock'[j] = lock[j]
  BY DEF Sections
<1>2. (\A v \in Workers : Holds(v)) /\ (\A k \in Jobs : Told(k))
  BY <1>1 DEF Exclusive
<1>3. ASSUME NEW v \in Workers, v # w PROVE Holds(v)'
  <2> SUFFICES ASSUME pc'[v] \notin {"idle", "create"}
               PROVE  lock'[at'[v]] = v /\ record'[at'[v]] # None /\ Knows(v)'
    BY DEF Holds
  <2>1. /\ pc'[v] = pc[v] /\ at'[v] = at[v] /\ copy'[v] = copy[v]
    BY <1>3 DEF Alone
  <2>2. lock[at[v]] = v /\ record[at[v]] # None /\ Knows(v) /\ at[v] \in Jobs
    BY <1>2, <2>1 DEF Holds, IInv, Working
  <2>3. \/ at[v] # j
        \/ /\ record'[j] = record[j] /\ wire'[j] = wire[j] /\ gets'[j] = gets[j]
           /\ lock'[j] = lock[j]
    BY <1>1, <1>3, <2>1, <2>2
  <2>4. /\ lock'[at[v]] = lock[at[v]] /\ record'[at[v]] = record[at[v]]
        /\ wire'[at[v]] = wire[at[v]] /\ gets'[at[v]] = gets[at[v]]
    BY <1>3, <2>2, <2>3 DEF Alone
  <2>5. Knows(v)'
    BY <2>1, <2>2, <2>4 DEF Knows
  <2> QED
    BY <2>1, <2>2, <2>4, <2>5
<1>4. ASSUME NEW k \in Jobs, k # j PROVE Told(k)'
  <2>1. record'[k] = record[k] /\ wire'[k] = wire[k] /\ gets'[k] = gets[k]
    BY <1>4 DEF Alone
  <2> QED
    BY <1>2, <2>1 DEF Told
<1> QED
  BY <1>1, <1>3, <1>4

LEMMA CoversStep ==
    ASSUME IInv, Exclusive, NEW w, NEW j, Alone(w, j), Covers(w, j), raced => raced', ~raced',
           record' \in [Jobs -> Records \cup {None}], cursor' \in Nat
    PROVE  NothingSkipped'
<1> SUFFICES ASSUME NEW i \in 1 .. cursor'
             PROVE  \/ i <= elsewhere'
                    \/ \E k \in Jobs : record'[k] # None /\ (i <= record'[k].since \/ i <= record'[k].link)
  BY DEF NothingSkipped
<1>1. /\ \A k \in Jobs \ {j} : record'[k] = record[k]
      /\ elsewhere' = elsewhere /\ j \in Jobs
  BY DEF Alone
<1>2. CASE cursor' = cursor
  <2>1. CASE i <= elsewhere
    BY <1>1, <2>1
  <2>2. CASE ~(i <= elsewhere)
    <3>1. PICK k \in Jobs : record[k] # None /\ (i <= record[k].since \/ i <= record[k].link)
      BY <1>2, <2>2 DEF Exclusive, NothingSkipped
    <3>2. record'[k] # None /\ record'[k].since = record[k].since /\ record'[k].link >= record[k].link
      <4>1. record[k].link \in Nat
        BY <3>1 DEF IInv, TypeOK, Records
      <4> QED
        BY <1>1, <3>1, <4>1 DEF Covers
    <3>3. record[k].link \in Nat /\ record'[k].link \in Nat /\ i \in Nat
      BY <3>1, <3>2 DEF IInv, TypeOK, Records
    <3> QED
      BY <3>1, <3>2, <3>3
  <2> QED
    BY <2>1, <2>2
<1>3. CASE record'[j] # None /\ cursor' <= record'[j].link
  <2>1. record'[j].link \in Nat
    BY <1>1, <1>3 DEF Records
  <2>2. i <= record'[j].link
    BY <1>3, <2>1
  <2> QED
    BY <1>1, <1>3, <2>2
<1> QED
  BY <1>2, <1>3 DEF Covers

\* A job at its end stays there, and at most one read is made, of a job whose
\* request was accepted.
Ends(w, j) ==
    ~raced' =>
        /\ record[j] # None /\ record[j].state \in Terminal => record'[j].state = record[j].state
        /\ gets'[j] = gets[j] \/ (gets[j] = 0 /\ arrived[j] = 1 /\ approval'[j] = approval[j])

TerminalKept ==
    \A j \in Jobs :
        record[j] # None /\ record[j].state \in Terminal /\ ~raced' => record'[j].state = record[j].state

OneStep == [Exchange!Next \/ raced']_(Exchange!vars)

LEMMA EndsStep ==
    ASSUME IInv, NEW w, NEW j, Alone(w, j), Sends(w, j), Reads(w, j), Ends(w, j),
           gets' \in [Jobs -> Nat]
    PROVE  TerminalKept /\ OneStep
<1>1. TerminalKept
  BY DEF TerminalKept, Ends, Alone
<1> DEFINE given == {k \in Jobs : approval[k] \notin {"none", "requested"}}
           givenNext == {k \in Jobs : approval'[k] \notin {"none", "requested"}}
<1>2. /\ j \in Jobs /\ arrived' = arrived
      /\ \A k \in Jobs \ {j} : approval'[k] = approval[k] /\ gets'[k] = gets[k]
  BY DEF Alone
<1>3. gets \in [Jobs -> Nat]
  BY DEF IInv, TypeOK
<1>4. CASE raced'
  BY <1>1, <1>4 DEF OneStep
<1>5. CASE gets'[j] = gets[j]
  <2>1. gets' = gets
    BY <1>2, <1>3, <1>5
  <2>2. givenNext = given \/ givenNext = given \cup {j}
    BY <1>2 DEF Sends
  <2> HIDE DEF given, givenNext
  <2>3. CASE givenNext = given \cup {j}
    BY <1>1, <1>2, <2>1, <2>3 DEF OneStep, Exchange!Next, Exchange!Permit, given, givenNext
  <2>4. CASE givenNext = given
    BY <1>1, <1>2, <2>1, <2>4 DEF OneStep, Exchange!vars, given, givenNext
  <2> QED
    BY <2>2, <2>3, <2>4
<1>6. CASE ~raced' /\ gets'[j] # gets[j]
  <2>1. gets[j] = 0 /\ gets'[j] = 1 /\ arrived[j] = 1 /\ approval'[j] = approval[j]
    BY <1>2, <1>3, <1>6 DEF Ends, Reads
  <2>2. gets' = [gets EXCEPT ![j] = 1]
    BY <1>2, <1>3, <2>1
  <2>3. givenNext = given
    BY <1>2, <2>1
  <2> HIDE DEF given, givenNext
  <2> QED
    BY <1>1, <1>2, <2>1, <2>2, <2>3 DEF OneStep, Exchange!Next, Exchange!Observe, given, givenNext
<1> QED
  BY <1>1, <1>4, <1>5, <1>6

\* All of it together.
Good == IInv' /\ Exclusive' /\ TerminalKept /\ OneStep

LEMMA WorkerStep ==
    ASSUME IInv, Exclusive, NEW w, NEW j, Alone(w, j), TypeOK',
           Sends(w, j), Reviews, Reads(w, j), Keeps(w, j),
           Sections(w, j), Covers(w, j), Ends(w, j)
    PROVE  Good
<1>1. Working'
  <2> SUFFICES ASSUME NEW v \in Workers, pc'[v] # "idle"
               PROVE  /\ at'[v] \in Jobs /\ copy'[v] \in Records
                      /\ pc'[v] = "create" => copy'[v] = New(copy'[v].since)
    BY DEF Working
  <2>1. CASE v = w
    BY <2>1 DEF Alone
  <2>2. CASE v # w
    BY <2>2 DEF Alone, IInv, Working
  <2> QED
    BY <2>1, <2>2
<1>2. IInv'
  BY <1>1, SendsStep, ReadsStep, KeepsStep DEF IInv, Reviews
<1>3. Exclusive'
  <2> SUFFICES ASSUME ~raced'
               PROVE  (\A v \in Workers : Holds(v)') /\ (\A k \in Jobs : Told(k)') /\ NothingSkipped'
    BY DEF Exclusive
  <2>1. record' \in [Jobs -> Records \cup {None}] /\ cursor' \in Nat /\ (raced => raced')
    BY DEF TypeOK, Sections
  <2> QED
    BY <2>1, SectionsStep, CoversStep
<1>4. TerminalKept /\ OneStep
  <2>1. gets' \in [Jobs -> Nat]
    BY DEF TypeOK
  <2> QED
    BY <2>1, EndsStep
<1> QED
  BY <1>2, <1>3, <1>4 DEF Good

-----------------------------------------------------------------------------
(* The steps of a worker.                                                  *)

\* A worker in a section of job j, with its copy c.
Inside(w, j, c) ==
    /\ w \in Workers /\ j \in Jobs /\ c \in Records
    /\ pc[w] \notin {"idle", "create"} /\ at[w] = j /\ copy[w] = c
    /\ ~raced => /\ lock[j] = w /\ record[j] # None /\ record[j] \in Records
                 /\ Knows(w) /\ Told(j)

LEMMA InSection ==
    ASSUME IInv, Exclusive, NEW w \in Workers, pc[w] \notin {"idle", "create"},
           NEW j, j = at[w], NEW c, c = copy[w]
    PROVE  Inside(w, j, c)
<1>1. j \in Jobs /\ c \in Records
  BY DEF IInv, Working
<1>2. ~raced => lock[j] = w /\ record[j] # None /\ Knows(w) /\ Told(j)
  BY <1>1 DEF Exclusive, Holds
<1>3. record[j] # None => record[j] \in Records
  BY <1>1 DEF IInv, TypeOK
<1> QED
  BY <1>1, <1>2, <1>3 DEF Inside

LEMMA Functions ==
    ASSUME IInv
    PROVE  /\ record \in [Jobs -> Records \cup {None}]
           /\ approval \in [Jobs -> {"none", "requested", "approved", "executing", "confirmed",
                                     "ambiguous", "failed"}]
           /\ checkpoint \in [Jobs -> Checkpoints \cup {None}]
           /\ review \in [Jobs -> Tasks]
           /\ dave \in Workers \cup {None}
           /\ inferred \in [Jobs -> Nat]
           /\ cursor \in Nat
           /\ lock \in [Jobs -> Workers \cup {None, Orphan}]
           /\ pc \in [Workers -> Locations]
           /\ at \in [Workers -> Jobs \cup {None}]
           /\ copy \in [Workers -> Records \cup {None}]
           /\ wire \in [Jobs -> {"none", "request", "posted", "refused", "lost"}]
           /\ room \in Seq(Jobs \cup {"junk"}) /\ Len(room) \in Nat
           /\ dropped \in Nat
           /\ late \subseteq Jobs
           /\ faults \in 0 .. MaxFaults
           /\ arrived \in [Jobs -> Nat]
           /\ gets \in [Jobs -> Nat]
           /\ elsewhere \in Nat
           /\ raced \in BOOLEAN
BY DEF IInv, TypeOK, Tasks

\* The files of other jobs, and what is nobody's.
Elsewhere(j) ==
    /\ \A k \in Jobs \ {j} :
          /\ record'[k] = record[k] /\ approval'[k] = approval[k] /\ checkpoint'[k] = checkpoint[k]
          /\ wire'[k] = wire[k] /\ gets'[k] = gets[k]
    /\ UNCHANGED <<room, arrived, elsewhere, raced, late, dropped>>
    /\ record' \in [Jobs -> Records \cup {None}]
    /\ approval' \in [Jobs -> {"none", "requested", "approved", "executing", "confirmed",
                               "ambiguous", "failed"}]
    /\ checkpoint' \in [Jobs -> Checkpoints \cup {None}]
    /\ review' \in [Jobs -> Tasks]
    /\ dave' \in Workers \cup {None}
    /\ inferred' \in [Jobs -> Nat]
    /\ cursor' \in Nat
    /\ wire' \in [Jobs -> {"none", "request", "posted", "refused", "lost"}]
    /\ gets' \in [Jobs -> Nat]
    /\ faults' \in 0 .. MaxFaults

LEMMA LeavesAlone ==
    ASSUME IInv, NEW w, NEW j, NEW c, Inside(w, j, c), Leave(w), Elsewhere(j)
    PROVE  Alone(w, j) /\ TypeOK' /\ pc'[w] = "idle"
<1>1. /\ lock' = [lock EXCEPT ![j] = None]
      /\ pc' = [pc EXCEPT ![w] = "idle"]
      /\ at' = [at EXCEPT ![w] = None]
      /\ copy' = [copy EXCEPT ![w] = None]
      /\ w \in Workers /\ j \in Jobs /\ at[w] = j
  BY DEF Inside, Leave
<1>2. pc'[w] = "idle" /\ "idle" \in Locations
  BY <1>1, Functions DEF Locations
<1>3. Alone(w, j)
  BY <1>1, <1>2, Functions DEF Alone, Elsewhere
<1>4. TypeOK'
  BY <1>1, <1>2, Functions DEF TypeOK, Elsewhere, Tasks
<1> QED
  BY <1>2, <1>3, <1>4

LEMMA ProceedsAlone ==
    ASSUME IInv, NEW w, NEW j, NEW c, Inside(w, j, c), NEW d \in Records, NEW l \in Locations,
           l # "create", Proceed(w, d, l), Elsewhere(j)
    PROVE  /\ Alone(w, j) /\ TypeOK'
           /\ pc'[w] = l /\ copy'[w] = d /\ at'[w] = j /\ lock'[j] = lock[j]
<1>1. /\ lock' = lock
      /\ pc' = [pc EXCEPT ![w] = l]
      /\ at' = at
      /\ copy' = [copy EXCEPT ![w] = d]
      /\ w \in Workers /\ j \in Jobs /\ at[w] = j
  BY DEF Inside, Proceed
<1>2. pc'[w] = l /\ copy'[w] = d /\ at'[w] = j
  BY <1>1, Functions
<1>3. Alone(w, j)
  BY <1>1, <1>2, Functions DEF Alone, Elsewhere
<1>4. TypeOK'
  BY <1>1, <1>2, Functions DEF TypeOK, Elsewhere, Tasks
<1> QED
  BY <1>1, <1>2, <1>3, <1>4

\* A section ends, with t as the record: the approval, the request, the review
\* and what was read are left alone.
LEMMA Leaves ==
    ASSUME IInv, Exclusive, NEW w, NEW j, NEW c, Inside(w, j, c), Leave(w), Elsewhere(j),
           NEW t, record'[j] = t, cursor' = cursor,
           approval'[j] = approval[j], wire'[j] = wire[j], checkpoint'[j] = checkpoint[j],
           Reviews,
           gets'[j] \in {gets[j], gets[j] + 1},
           t = record[j] \/ (t \in Records /\ BackedNext(j, t)),
           ~raced => /\ Told(j)'
                     /\ t.since = record[j].since /\ t.link >= record[j].link
                     /\ record[j].state \in Terminal => t.state = record[j].state
                     /\ gets'[j] = gets[j] \/ (gets[j] = 0 /\ arrived[j] = 1)
    PROVE  Good
<1>1. Alone(w, j) /\ TypeOK' /\ pc'[w] = "idle"
  BY LeavesAlone
<1>2. raced' = raced
  BY DEF Elsewhere
<1>3. t \in Records => t # None
  BY FilesAssumption
<1>4. Sends(w, j)
  BY <1>1, <1>3 DEF Sends, Past
<1>5. Reads(w, j)
  BY <1>1 DEF Reads
<1>6. Keeps(w, j)
  BY <1>1 DEF Keeps
<1>7. ~raced => t \in Records /\ t # None /\ lock[j] = w
  BY <1>3 DEF Inside
<1>8. Sections(w, j)
  BY <1>1, <1>2, <1>7 DEF Sections, Holds
<1>9. Covers(w, j)
  BY <1>2, <1>7 DEF Covers
<1>10. Ends(w, j)
  BY <1>2 DEF Ends
<1> QED
  BY <1>1, <1>4, <1>5, <1>6, <1>8, <1>9, <1>10, WorkerStep

\* A section goes on to l, with t as the record and d as the copy.
LEMMA Proceeds ==
    ASSUME IInv, Exclusive, NEW w, NEW j, NEW c, Inside(w, j, c), Elsewhere(j),
           NEW d \in Records, NEW l \in Locations, Proceed(w, d, l), l \notin {"idle", "create"},
           NEW t, record'[j] = t,
           Sends(w, j), Reviews, Reads(w, j),
           t = record[j] \/ (t \in Records /\ BackedNext(j, t)),
           BackedNext(j, d),
           ~raced => /\ Told(j)' /\ Knows(w)'
                     /\ t.since = record[j].since /\ t.link >= record[j].link
                     /\ record[j].state \in Terminal => t.state = record[j].state
                     /\ cursor' = cursor \/ cursor' <= t.link
                     /\ gets'[j] = gets[j] \/ (gets[j] = 0 /\ arrived[j] = 1 /\ approval'[j] = approval[j])
    PROVE  Good
<1>1. /\ Alone(w, j) /\ TypeOK'
      /\ pc'[w] = l /\ copy'[w] = d /\ at'[w] = j /\ lock'[j] = lock[j]
  BY ProceedsAlone
<1>2. raced' = raced
  BY DEF Elsewhere
<1>3. t \in Records => t # None
  BY FilesAssumption
<1>6. Keeps(w, j)
  BY <1>1 DEF Keeps
<1>7. ~raced => t \in Records /\ t # None /\ lock[j] = w
  BY <1>3 DEF Inside
<1>8. Sections(w, j)
  BY <1>1, <1>2, <1>7 DEF Sections, Holds
<1>9. Covers(w, j)
  BY <1>2, <1>7 DEF Covers
<1>10. Ends(w, j)
  BY <1>2 DEF Ends
<1> QED
  BY <1>1, <1>6, <1>8, <1>9, <1>10, WorkerStep

LEMMA CopyBacked ==
    ASSUME IInv, NEW w, NEW j, NEW c, Inside(w, j, c), Elsewhere(j),
           \A k \in Jobs : review[k] \in Outcomes => review'[k] = review[k],
           gets'[j] \in {gets[j], gets[j] + 1},
           checkpoint[j] # None => checkpoint'[j] = checkpoint[j]
    PROVE  BackedNext(j, c)
<1>1. /\ j \in Jobs /\ c \in Records /\ Backed(j, c)
      /\ arrived' = arrived /\ room' = room
  BY DEF Inside, IInv, RecordsBacked, Elsewhere
<1>2. gets[j] \in Nat
  BY <1>1, Functions
<1>3. \A k \in Jobs : /\ review[k] \in Outcomes => review'[k] = review[k]
                      /\ gets[k] > 0 => gets'[k] > 0
                      /\ checkpoint[k] # None => checkpoint'[k] = checkpoint[k]
  BY <1>2 DEF Elsewhere
<1> QED
  BY <1>1, <1>3, StaysBacked

\* A step behind which Dave's tasks, and his runtime, are as they were.
LEMMA QuietReviews ==
    ASSUME IInv, NEW w \in Workers, UNCHANGED daves,
           pc[w] \notin Reviewing, pc'[w] \notin Reviewing,
           pc'[w] = "verdict" => review[at'[w]] \in Outcomes,
           \A v \in Workers \ {w} : pc'[v] = pc[v] /\ at'[v] = at[v]
    PROVE  Reviews
<1>1. review' = review /\ dave' = dave /\ inferred' = inferred
  OBVIOUS
<1>2. ASSUME NEW v \in Workers
      PROVE  /\ pc'[v] \in Reviewing <=> dave' = v
             /\ pc'[v] = "claimed" => review'[at'[v]] = "running"
             /\ pc'[v] = "infer" => review'[at'[v]] = "intended"
             /\ pc'[v] = "verdict" => review'[at'[v]] \in Outcomes
  <2>1. CASE v = w
    BY <1>1, <2>1 DEF IInv, ReviewsOnce, Reviewing
  <2>2. CASE v # w
    BY <1>1, <2>2 DEF IInv, ReviewsOnce
  <2> QED
    BY <2>1, <2>2
<1> QED
  BY <1>1, <1>2 DEF Reviews, ReviewsOnce, IInv

LEMMA QuietLeaves ==
    ASSUME IInv, NEW w, NEW j, NEW c, Inside(w, j, c), Leave(w), UNCHANGED daves,
           pc[w] \notin Reviewing
    PROVE  Reviews
<1>1. pc'[w] = "idle" /\ \A v \in Workers \ {w} : pc'[v] = pc[v] /\ at'[v] = at[v]
  BY Functions DEF Leave, Inside
<1>2. w \in Workers
  BY DEF Inside
<1> QED
  BY <1>1, <1>2, QuietReviews DEF Reviewing

LEMMA QuietProceeds ==
    ASSUME IInv, NEW w, NEW j, NEW c, Inside(w, j, c), NEW d, NEW l, Proceed(w, d, l),
           UNCHANGED daves, pc[w] \notin Reviewing, l \notin Reviewing,
           l = "verdict" => review[j] \in Outcomes
    PROVE  Reviews
<1>1. pc'[w] = l /\ at'[w] = j /\ \A v \in Workers \ {w} : pc'[v] = pc[v] /\ at'[v] = at[v]
  BY Functions DEF Proceed, Inside
<1>2. w \in Workers
  BY DEF Inside
<1> QED
  BY <1>1, <1>2, QuietReviews

\* A section ends with nothing changed: a step that throws, a sendTo that throws,
\* a read that is not due, an acknowledgement that is refused.
LEMMA LeavesFiles ==
    ASSUME IInv, Exclusive, NEW w, NEW j, NEW c, Inside(w, j, c), Leave(w),
           UNCHANGED <<files, world, history>>, faults' = faults \/ Fault,
           pc[w] \notin Reviewing
    PROVE  Good
<1>1. /\ UNCHANGED <<record, approval, checkpoint, daves, cursor, wire, room, dropped, late>>
      /\ UNCHANGED <<arrived, gets, elsewhere, raced>>
  BY DEF files, world, history
<1>2. faults' \in 0 .. MaxFaults
  BY Functions, OutboundWorkAssumption DEF Fault
<1>3. Elsewhere(j)
  BY <1>1, <1>2, Functions DEF Elsewhere
<1>4. ~raced => Told(j)'
  BY <1>1 DEF Inside, Told
<1>5. Reviews
  BY <1>1, QuietLeaves
<1>6. ~raced => record[j].link \in Nat
  BY DEF Inside, Records
<1> QED
  BY <1>1, <1>3, <1>4, <1>5, <1>6, Leaves

\* WriteAuthorized, Conclude, WriteAcked and WriteTimeout.
LEMMA WritesCopy ==
    ASSUME IInv, Exclusive, NEW w, NEW j, NEW c, Inside(w, j, c),
           pc[w] \in {"authorize", "conclude", "acked", "timeout"},
           Write(w, copy[w]), Leave(w),
           UNCHANGED <<approval, checkpoint, daves, cursor, world, faults, history>>
    PROVE  Good
<1>1. /\ record' = [record EXCEPT ![j] = c]
      /\ UNCHANGED <<approval, checkpoint, daves, cursor, wire, room, dropped, late, faults>>
      /\ UNCHANGED <<arrived, gets, elsewhere, raced>>
      /\ j \in Jobs /\ c \in Records
  BY DEF world, history, Inside, Write
<1>2. Elsewhere(j) /\ record'[j] = c
  BY <1>1, Functions DEF Elsewhere
<1>3. BackedNext(j, c)
  BY <1>1, <1>2, CopyBacked
<1>4. Reviews
  BY <1>1, QuietLeaves DEF Reviewing
<1>5. ASSUME ~raced
      PROVE  /\ c.since = record[j].since /\ c.link = record[j].link /\ c.reads = record[j].reads
             /\ c.state = record[j].state \/ record[j].state \notin Terminal
             /\ c.state \in {"PREPARED", "AUTHORIZED", "SENDING", "SENT", "AWAITING_RESPONSE"} =>
                   record[j].state \in {"PREPARED", "AUTHORIZED", "SENDING", "SENT", "AWAITING_RESPONSE"}
             /\ c.state \in {"PREPARED", "AUTHORIZED"} => record[j].state \in {"PREPARED", "AUTHORIZED"}
             /\ c.state = "DELIVERY_REJECTED" => wire[j] \in {"none", "refused"}
             /\ record[j].link \in Nat
    <2>1. Knows(w) /\ Told(j) /\ at[w] = j /\ copy[w] = c /\ record[j] \in Records /\ record[j] # None
      BY <1>5 DEF Inside
    <2>2. CASE pc[w] = "authorize"
      BY <2>1, <2>2 DEF Knows, Told, Records, Terminal
    <2>3. CASE pc[w] = "conclude"
      BY <2>1, <2>3 DEF Knows, Told, Records, Terminal
    <2>4. CASE pc[w] = "acked"
      BY <2>1, <2>4 DEF Knows, Told, Records, Terminal
    <2>5. CASE pc[w] = "timeout"
      BY <2>1, <2>5 DEF Knows, Told, Records, Terminal
    <2> QED
      BY <2>2, <2>3, <2>4, <2>5
<1>6. ~raced => Told(j)'
  <2>1. c # None
    BY <1>1, FilesAssumption
  <2>2. ~raced => Told(j) /\ record[j] # None
    BY DEF Inside
  <2> QED
    BY <1>1, <1>2, <1>5, <2>1, <2>2 DEF Told
<1> QED
  BY <1>1, <1>2, <1>3, <1>4, <1>5, <1>6, Leaves

\* A step that leaves record, cursor and history alone and goes on.
LEMMA GoesOn ==
    ASSUME IInv, Exclusive, NEW w, NEW j, NEW c, Inside(w, j, c), Elsewhere(j),
           NEW d \in Records, NEW l \in Locations, Proceed(w, d, l), l \notin {"idle", "create"},
           UNCHANGED <<record, cursor, gets>>,
           Sends(w, j), Reviews, Reads(w, j), BackedNext(j, d),
           ~raced => Knows(w)',
           wire'[j] = wire[j]
    PROVE  Good
<1>1. ~raced => Told(j)' /\ record[j].link \in Nat
  BY DEF Inside, Told, Records
<1> QED
  BY <1>1, Proceeds

\* What a step of send leaves alone.
LEMMA QuietReads ==
    ASSUME NEW w, NEW j, checkpoint' = checkpoint, gets' = gets, pc'[w] # "process"
    PROVE  Reads(w, j)
BY DEF Reads

\* Consume, ReserveThrows, TimedOut, Confirm and the part of Dispatch that throws:
\* the approval changes, and the copy.
LEMMA SpendsApproval ==
    ASSUME IInv, Exclusive, NEW w, NEW j, NEW c, Inside(w, j, c),
           pc[w] \in {"unlock", "dispatch", "await", "confirm", "sent", "awaiting"},
           NEW d \in Records, NEW l \in {"dispatch", "conclude", "sent"}, Proceed(w, d, l),
           NEW a \in {"executing", "confirmed", "ambiguous", "failed", approval[j]},
           approval' = [approval EXCEPT ![j] = a],
           UNCHANGED <<record, checkpoint, daves, cursor, world, history>>,
           faults' = faults \/ Fault,
           Follows(d, c),
           l = "dispatch" => approval[j] = "approved" /\ a = "executing",
           l = "sent" => pc[w] \in Past /\ a \notin Open,
           ~raced => Knows(w)'
    PROVE  Good
<1>1. /\ UNCHANGED <<record, checkpoint, daves, cursor, wire, room, dropped, late>>
      /\ UNCHANGED <<arrived, gets, elsewhere, raced>>
      /\ j \in Jobs /\ l \in Locations \ {"idle", "create"}
  BY DEF world, history, Inside, Locations
<1>2. faults' \in 0 .. MaxFaults
  BY Functions, OutboundWorkAssumption DEF Fault
<1>3. a \in {"none", "requested", "approved", "executing", "confirmed", "ambiguous", "failed"}
  BY <1>1, Functions
<1>4. approval'[j] = a
  BY <1>1, Functions
<1>5. Elsewhere(j)
  BY <1>1, <1>2, <1>3, Functions DEF Elsewhere
<1>6. pc'[w] = l
  BY <1>1, <1>5, ProceedsAlone
<1>7. Sends(w, j)
  BY <1>1, <1>4, <1>6 DEF Sends, Past, Open
<1>8. Reviews /\ Reads(w, j)
  BY <1>1, <1>6, QuietProceeds, QuietReads DEF Reviewing
<1>9. BackedNext(j, d)
  <2>1. BackedNext(j, c)
    BY <1>1, <1>5, CopyBacked
  <2> QED
    BY <2>1, FollowsBacked
<1> QED
  BY <1>1, <1>5, <1>7, <1>8, <1>9, GoesOn

LEMMA ConsumeStep ==
    ASSUME IInv, Exclusive, NEW w, NEW j, NEW c, Inside(w, j, c), Consume(w)
    PROVE  Good
<1>1. pc[w] = "unlock" /\ at[w] = j /\ copy[w] = c /\ c \in Records /\ j \in Jobs /\ w \in Workers
  BY DEF Consume, Inside
<1>2. CASE /\ Unchanged(w)
           /\ approval[j] = "approved"
           /\ approval' = [approval EXCEPT ![j] = "executing"]
           /\ Proceed(w, c, "dispatch")
           /\ UNCHANGED faults
  <2>1. UNCHANGED <<record, checkpoint, daves, cursor, world, history>>
    BY DEF Consume
  <2>2. Follows(c, c)
    BY DEF Follows
  <2>3. ASSUME ~raced PROVE Knows(w)'
    <3>1. Knows(w)
      BY <2>3 DEF Inside
    <3>2. pc'[w] = "dispatch" /\ at'[w] = j /\ copy'[w] = c /\ record' = record
      BY <1>1, <1>2, <2>1, Functions DEF Proceed
    <3> QED
      BY <1>1, <3>1, <3>2 DEF Knows
  <2> QED
    BY <1>1, <1>2, <2>1, <2>2, <2>3, SpendsApproval
<1>3. CASE /\ \/ (~Unchanged(w) \/ approval[j] # "approved") /\ UNCHANGED faults
              \/ Fault
           /\ Proceed(w, [c EXCEPT !.state = "DELIVERY_REJECTED"], "conclude")
           /\ UNCHANGED approval
  <2> DEFINE d == [c EXCEPT !.state = "DELIVERY_REJECTED"]
  <2>1. UNCHANGED <<record, checkpoint, daves, cursor, world, history>>
    BY DEF Consume
  <2>2. d \in Records
    BY <1>1 DEF Records, States
  <2>3. Follows(d, c)
    BY <1>1 DEF Follows, Records
  <2>4. approval' = [approval EXCEPT ![j] = approval[j]]
    BY <1>3, Functions
  <2>5. ASSUME ~raced PROVE Knows(w)'
    <3>1. Knows(w) /\ Told(j) /\ record[j] \in Records /\ record[j] # None
      BY <2>5 DEF Inside
    <3>2. pc'[w] = "conclude" /\ at'[w] = j /\ copy'[w] = d /\ record' = record /\ wire' = wire
      BY <1>1, <1>3, <2>1, Functions DEF Proceed, world
    <3>3. c = record[j] /\ c.state = "AUTHORIZED"
      BY <1>1, <3>1 DEF Knows
    <3>4. wire[j] = "none"
      BY <3>1, <3>3 DEF Told
    <3>5. d.state = "DELIVERY_REJECTED" /\ d.since = c.since /\ d.link = c.link /\ d.reads = c.reads
      BY <1>1 DEF Records
    <3> HIDE DEF d
    <3> QED
      BY <3>2, <3>3, <3>4, <3>5 DEF Knows
  <2> HIDE DEF d
  <2>6. (faults' = faults \/ Fault) /\ pc[w] = "unlock"
    BY <1>1, <1>3
  <2>7. Proceed(w, d, "conclude")
    BY <1>3 DEF d
  <2> QED
    BY <2>1, <2>2, <2>3, <2>4, <2>5, <2>6, <2>7, SpendsApproval
<1> QED
  BY <1>1, <1>2, <1>3 DEF Consume

LEMMA ReserveThrowsStep ==
    ASSUME IInv, Exclusive, NEW w, NEW j, NEW c, Inside(w, j, c), ReserveThrows(w)
    PROVE  Good
<1>1. pc[w] = "dispatch" /\ at[w] = j /\ copy[w] = c /\ c \in Records /\ j \in Jobs /\ w \in Workers
  BY DEF ReserveThrows, Inside
<1> DEFINE d == [c EXCEPT !.state = "DELIVERY_REJECTED"]
<1>2. /\ UNCHANGED <<record, checkpoint, daves, cursor, world, history>>
      /\ approval' = [approval EXCEPT ![j] = "failed"] /\ Fault
      /\ Proceed(w, d, "conclude")
  BY <1>1 DEF ReserveThrows
<1>3. /\ d \in Records
      /\ d.state = "DELIVERY_REJECTED" /\ d.since = c.since /\ d.link = c.link /\ d.reads = c.reads
  BY <1>1 DEF Records, States
<1>4. Follows(d, c)
  BY <1>1 DEF Follows, Records
<1> HIDE DEF d
<1>5. ASSUME ~raced PROVE Knows(w)'
  <2>1. Knows(w) /\ Told(j) /\ record[j] \in Records /\ record[j] # None
    BY <1>5 DEF Inside
  <2>2. pc'[w] = "conclude" /\ at'[w] = j /\ copy'[w] = d /\ record' = record /\ wire' = wire
    BY <1>1, <1>2, Functions DEF Proceed, world
  <2>3. c = record[j] /\ c.state = "AUTHORIZED"
    BY <1>1, <2>1 DEF Knows
  <2>4. wire[j] = "none"
    BY <2>1, <2>3 DEF Told
  <2> QED
    BY <1>3, <2>2, <2>3, <2>4 DEF Knows
<1> QED
  BY <1>1, <1>2, <1>3, <1>4, <1>5, SpendsApproval

\* GivesUp behind the POST.
LEMMA GivesUpStep ==
    ASSUME IInv, Exclusive, NEW w, NEW j, NEW c, Inside(w, j, c), pc[w] \in {"await", "confirm"},
           GivesUp(w), UNCHANGED <<record, checkpoint, daves, cursor, world, history>>,
           faults' = faults \/ Fault
    PROVE  Good
<1>1. at[w] = j /\ copy[w] = c /\ c \in Records /\ j \in Jobs /\ w \in Workers
  BY DEF Inside
<1> DEFINE d == [c EXCEPT !.state = "AMBIGUOUS_DELIVERY"]
<1>2. approval' = [approval EXCEPT ![j] = "ambiguous"] /\ Proceed(w, d, "conclude")
  BY <1>1 DEF GivesUp
<1>3. /\ d \in Records
      /\ d.state = "AMBIGUOUS_DELIVERY" /\ d.since = c.since /\ d.link = c.link /\ d.reads = c.reads
  BY <1>1 DEF Records, States
<1>4. Follows(d, c)
  BY <1>1 DEF Follows, Records
<1> HIDE DEF d
<1>5. ASSUME ~raced PROVE Knows(w)'
  <2>1. Knows(w)
    BY <1>5 DEF Inside
  <2>2. pc'[w] = "conclude" /\ at'[w] = j /\ copy'[w] = d /\ record' = record
    BY <1>1, <1>2, Functions DEF Proceed
  <2>3. c = record[j] /\ c.state = "SENDING"
    BY <1>1, <2>1 DEF Knows
  <2> QED
    BY <1>3, <2>2, <2>3 DEF Knows
<1> QED
  BY <1>2, <1>3, <1>4, <1>5, SpendsApproval

LEMMA ConfirmStep ==
    ASSUME IInv, Exclusive, NEW w, NEW j, NEW c, Inside(w, j, c), Confirm(w)
    PROVE  Good
<1>1. /\ pc[w] = "confirm" /\ at[w] = j /\ copy[w] = c /\ c \in Records /\ j \in Jobs /\ w \in Workers
      /\ UNCHANGED <<record, checkpoint, daves, cursor, world, history>>
  BY DEF Confirm, Inside
<1>2. CASE /\ approval' = [approval EXCEPT ![j] = "confirmed"]
           /\ Proceed(w, c, "sent")
           /\ UNCHANGED faults
  <2>1. Follows(c, c)
    BY DEF Follows
  <2>2. ASSUME ~raced PROVE Knows(w)'
    <3>1. Knows(w)
      BY <2>2 DEF Inside
    <3>2. pc'[w] = "sent" /\ at'[w] = j /\ copy'[w] = c /\ record' = record
      BY <1>1, <1>2, Functions DEF Proceed
    <3> QED
      BY <1>1, <3>1, <3>2 DEF Knows
  <2>3. pc[w] \in Past /\ "confirmed" \notin Open
    BY <1>1 DEF Past, Open
  <2> QED
    BY <1>1, <1>2, <2>1, <2>2, <2>3, SpendsApproval
<1>3. CASE Fault /\ GivesUp(w)
  BY <1>1, <1>3, GivesUpStep
<1> QED
  BY <1>1, <1>2, <1>3 DEF Confirm

LEMMA DispatchStep ==
    ASSUME IInv, Exclusive, NEW w, NEW j, NEW c, Inside(w, j, c), Dispatch(w)
    PROVE  Good
<1>1. /\ pc[w] = "dispatch" /\ at[w] = j /\ copy[w] = c /\ c \in Records /\ j \in Jobs /\ w \in Workers
      /\ UNCHANGED <<checkpoint, daves, cursor, room, dropped, late, arrived, gets, elsewhere, raced>>
  BY DEF Dispatch, Inside, history
<1>2. CASE \E n \in 0 .. 1 :
           /\ approval' = [approval EXCEPT ![j] = "ambiguous"]
           /\ Proceed(w, [c EXCEPT !.state = "AMBIGUOUS_DELIVERY", !.posts = n], "conclude")
           /\ UNCHANGED <<record, wire>> /\ (faults' = faults \/ Fault)
  <2>1. PICK n \in 0 .. 1 :
           /\ approval' = [approval EXCEPT ![j] = "ambiguous"]
           /\ Proceed(w, [c EXCEPT !.state = "AMBIGUOUS_DELIVERY", !.posts = n], "conclude")
           /\ UNCHANGED <<record, wire>> /\ (faults' = faults \/ Fault)
    BY <1>2
  <2> DEFINE d == [c EXCEPT !.state = "AMBIGUOUS_DELIVERY", !.posts = n]
  <2>2. /\ d \in Records
        /\ d.state = "AMBIGUOUS_DELIVERY" /\ d.since = c.since /\ d.link = c.link /\ d.reads = c.reads
    BY <1>1 DEF Records, States
  <2>3. Follows(d, c)
    BY <1>1 DEF Follows, Records
  <2>7. Proceed(w, d, "conclude")
    BY <2>1
  <2> HIDE DEF d
  <2>4. ASSUME ~raced PROVE Knows(w)'
    <3>1. Knows(w)
      BY <2>4 DEF Inside
    <3>2. pc'[w] = "conclude" /\ at'[w] = j /\ copy'[w] = d /\ record' = record
      BY <1>1, <2>1, <2>7, Functions DEF Proceed
    <3>3. c = record[j] /\ c.state = "AUTHORIZED"
      BY <1>1, <3>1 DEF Knows
    <3> QED
      BY <2>2, <3>2, <3>3 DEF Knows
  <2>5. UNCHANGED <<record, checkpoint, daves, cursor, world, history>>
    BY <1>1, <2>1 DEF world, history
  <2> QED
    BY <1>1, <2>1, <2>2, <2>3, <2>4, <2>5, <2>7, SpendsApproval
<1> DEFINE sending == [c EXCEPT !.state = "SENDING", !.posts = 1]
<1>3. CASE /\ approval[j] = "executing"
           /\ record' = [record EXCEPT ![j] = sending]
           /\ wire' = [wire EXCEPT ![j] = "request"]
           /\ Proceed(w, sending, "await")
           /\ UNCHANGED <<approval, faults>>
  <2>2. /\ sending \in Records /\ sending.state = "SENDING"
        /\ sending.since = c.since /\ sending.link = c.link /\ sending.reads = c.reads
    <3>1. 1 \in 0 .. 1 /\ "SENDING" \in States
      BY DEF States
    <3> QED
      BY <1>1, <3>1 DEF Records
  <2>3. Follows(sending, c)
    BY <1>1 DEF Follows, Records
  <2>s. Proceed(w, sending, "await") /\ record' = [record EXCEPT ![j] = sending]
    BY <1>3
  <2> HIDE DEF sending
  <2>4. Elsewhere(j) /\ record'[j] = sending /\ wire'[j] = "request"
    BY <1>1, <1>3, <2>s, <2>2, Functions DEF Elsewhere
  <2>5. "await" \in Locations \ {"idle", "create"}
    BY DEF Locations
  <2>6. pc'[w] = "await" /\ at'[w] = j /\ copy'[w] = sending
    BY <2>2, <2>4, <2>5, <2>s, ProceedsAlone
  <2>7. sending # None
    BY <2>2, FilesAssumption
  <2>8. Sends(w, j)
    BY <1>1, <1>3, <2>4, <2>6, <2>7 DEF Sends, Past, Open
  <2>9. Reviews /\ Reads(w, j)
    BY <1>1, <2>6, <2>s, QuietProceeds, QuietReads DEF Reviewing
  <2>10. BackedNext(j, sending)
    <3>1. BackedNext(j, c)
      BY <1>1, <2>4, CopyBacked
    <3> QED
      BY <2>3, <3>1, FollowsBacked
  <2>11. ASSUME ~raced
         PROVE  /\ Knows(w)' /\ Told(j)' /\ sending.since = record[j].since
                /\ sending.link >= record[j].link /\ record[j].state \notin Terminal
    <3>1. Knows(w) /\ Told(j) /\ record[j] \in Records /\ record[j] # None
      BY <2>11 DEF Inside
    <3>2. c = record[j] /\ c.state = "AUTHORIZED"
      BY <1>1, <3>1 DEF Knows
    <3>3. c.link = 0 /\ (c.reads = 0 => gets[j] = 0)
      BY <3>1, <3>2 DEF Told
    <3>4. Told(j)'
      BY <1>1, <2>2, <2>4, <2>7, <3>3 DEF Told
    <3>5. Knows(w)'
      BY <2>2, <2>4, <2>6 DEF Knows
    <3> QED
      BY <2>2, <3>2, <3>3, <3>4, <3>5 DEF Terminal
  <2> QED
    BY <1>1, <2>2, <2>4, <2>5, <2>8, <2>9, <2>10, <2>11, <2>s, Proceeds
<1>4. \/ \E n \in 0 .. 1 :
           /\ approval' = [approval EXCEPT ![j] = "ambiguous"]
           /\ Proceed(w, [c EXCEPT !.state = "AMBIGUOUS_DELIVERY", !.posts = n], "conclude")
           /\ UNCHANGED <<record, wire>> /\ (faults' = faults \/ Fault)
      \/ /\ approval[j] = "executing"
         /\ record' = [record EXCEPT ![j] = sending]
         /\ wire' = [wire EXCEPT ![j] = "request"]
         /\ Proceed(w, sending, "await")
         /\ UNCHANGED <<approval, faults>>
  BY <1>1 DEF Dispatch, Write
<1> QED
  BY <1>2, <1>3, <1>4

LEMMA AnsweredStep ==
    ASSUME IInv, Exclusive, NEW w, NEW j, NEW c, Inside(w, j, c), Answered(w)
    PROVE  Good
<1>1. /\ pc[w] = "await" /\ at[w] = j /\ copy[w] = c /\ c \in Records /\ j \in Jobs /\ w \in Workers
      /\ UNCHANGED <<checkpoint, daves, cursor, wire, room, dropped, late, faults>>
      /\ UNCHANGED <<arrived, gets, elsewhere, raced>>
  BY DEF Answered, Inside, history, world
<1>2. CASE /\ wire[j] = "refused"
           /\ approval' = [approval EXCEPT ![j] = "failed"]
           /\ Proceed(w, [c EXCEPT !.state = "DELIVERY_REJECTED"], "conclude")
           /\ UNCHANGED record
  <2> DEFINE d == [c EXCEPT !.state = "DELIVERY_REJECTED"]
  <2>2. /\ d \in Records
        /\ d.state = "DELIVERY_REJECTED" /\ d.since = c.since /\ d.link = c.link /\ d.reads = c.reads
    BY <1>1 DEF Records, States
  <2>3. Follows(d, c)
    BY <1>1 DEF Follows, Records
  <2>7. Proceed(w, d, "conclude")
    BY <1>2
  <2> HIDE DEF d
  <2>4. ASSUME ~raced PROVE Knows(w)'
    <3>1. Knows(w)
      BY <2>4 DEF Inside
    <3>2. pc'[w] = "conclude" /\ at'[w] = j /\ copy'[w] = d /\ record' = record
      BY <1>1, <1>2, <2>7, Functions DEF Proceed
    <3>3. c = record[j] /\ c.state = "SENDING"
      BY <1>1, <3>1 DEF Knows
    <3> QED
      BY <1>1, <1>2, <2>2, <3>2, <3>3 DEF Knows
  <2>5. UNCHANGED <<record, checkpoint, daves, cursor, world, history>>
    BY <1>1, <1>2 DEF world, history
  <2> QED
    BY <1>1, <1>2, <2>2, <2>3, <2>4, <2>5, <2>7, SpendsApproval
<1> DEFINE d == [c EXCEPT !.receipt = TRUE]
<1>3. CASE /\ wire[j] = "posted"
           /\ record' = [record EXCEPT ![j] = d]
           /\ Proceed(w, d, "confirm")
           /\ UNCHANGED approval
  <2>2. /\ d \in Records /\ d.state = c.state /\ d.verified = c.verified
        /\ d.since = c.since /\ d.link = c.link /\ d.reads = c.reads
    BY <1>1 DEF Records
  <2>s. Proceed(w, d, "confirm") /\ record' = [record EXCEPT ![j] = d]
    BY <1>3
  <2> HIDE DEF d
  <2>4. Elsewhere(j) /\ record'[j] = d
    BY <1>1, <1>3, <2>s, <2>2, Functions DEF Elsewhere
  <2>5. "confirm" \in Locations \ {"idle", "create"}
    BY DEF Locations
  <2>6. pc'[w] = "confirm" /\ at'[w] = j /\ copy'[w] = d
    BY <2>2, <2>4, <2>5, <2>s, ProceedsAlone
  <2>7. d # None
    BY <2>2, FilesAssumption
  <2>8. Sends(w, j)
    <3>1. approval[j] \notin Open
      BY <1>1 DEF IInv, SendsOnce, Past
    <3> QED
      BY <1>1, <1>3, <2>4, <2>6, <2>7, <3>1 DEF Sends, Past
  <2>9. Reviews /\ Reads(w, j)
    BY <1>1, <2>6, <2>s, QuietProceeds, QuietReads DEF Reviewing
  <2>10. BackedNext(j, d)
    <3>1. BackedNext(j, c)
      BY <1>1, <2>4, CopyBacked
    <3>2. arrived[j] = 1
      BY <1>1, <1>3 DEF IInv, SendsOnce
    <3> QED
      BY <1>1, <2>2, <3>1, <3>2 DEF BackedNext
  <2>11. ASSUME ~raced
         PROVE  /\ Knows(w)' /\ Told(j)' /\ d.since = record[j].since
                /\ d.link >= record[j].link /\ record[j].state \notin Terminal
    <3>1. Knows(w) /\ Told(j) /\ record[j] \in Records /\ record[j] # None
      BY <2>11 DEF Inside
    <3>2. c = record[j] /\ c.state = "SENDING"
      BY <1>1, <3>1 DEF Knows
    <3>3. c.link = 0 /\ (c.reads = 0 => gets[j] = 0)
      BY <3>1, <3>2 DEF Told
    <3>4. Told(j)'
      BY <1>1, <2>2, <2>4, <2>7, <3>2, <3>3 DEF Told
    <3>5. Knows(w)'
      BY <2>2, <2>4, <2>6, <3>2 DEF Knows
    <3> QED
      BY <2>2, <3>2, <3>3, <3>4, <3>5 DEF Terminal
  <2> QED
    BY <1>1, <1>3, <2>2, <2>4, <2>5, <2>8, <2>9, <2>10, <2>11, <2>s, Proceeds
<1> QED
  BY <1>1, <1>2, <1>3 DEF Answered, Write

LEMMA TimedOutStep ==
    ASSUME IInv, Exclusive, NEW w, NEW j, NEW c, Inside(w, j, c), TimedOut(w)
    PROVE  Good
<1>1. UNCHANGED <<record, checkpoint, daves, cursor, world, history>> /\ pc[w] = "await" /\ GivesUp(w)
  BY DEF TimedOut
<1>2. faults' = faults
  BY DEF TimedOut
<1> QED
  BY <1>1, <1>2, GivesUpStep

LEMMA WriteSentStep ==
    ASSUME IInv, Exclusive, NEW w, NEW j, NEW c, Inside(w, j, c), WriteSent(w)
    PROVE  Good
<1>1. /\ pc[w] \in {"sent", "awaiting"} /\ at[w] = j /\ copy[w] = c /\ c \in Records /\ j \in Jobs /\ w \in Workers
      /\ UNCHANGED <<approval, checkpoint, daves, cursor, wire, room, dropped, late>>
      /\ UNCHANGED <<arrived, gets, elsewhere, raced>>
  BY DEF WriteSent, Inside, history, world
<1> DEFINE l == IF pc[w] = "sent" THEN "SENT" ELSE "AWAITING_RESPONSE"
           d == [c EXCEPT !.state = l]
<1>2. /\ d \in Records /\ d.state = l /\ d.verified = c.verified /\ d.receipt = c.receipt
      /\ d.since = c.since /\ d.link = c.link /\ d.reads = c.reads
  BY <1>1 DEF Records, States
<1>3. Follows(d, c)
  BY <1>1 DEF Follows, Records
<1>4. ASSUME ~raced
      PROVE  /\ record[j] \in Records /\ record[j] # None
             /\ c = record[j] /\ c.state \in {"SENDING", "SENT"} /\ c.link = 0
             /\ c.reads = 0 => gets[j] = 0
  <2>1. Knows(w) /\ Told(j) /\ record[j] \in Records /\ record[j] # None
    BY <1>4 DEF Inside
  <2>2. c = record[j] /\ c.state \in {"SENDING", "SENT"}
    BY <1>1, <2>1 DEF Knows
  <2> QED
    BY <2>1, <2>2 DEF Told
<1>5. CASE /\ Fault
           /\ Proceed(w, [d EXCEPT !.state = "AMBIGUOUS_DELIVERY"], "conclude")
           /\ UNCHANGED record
  <2> DEFINE a == [d EXCEPT !.state = "AMBIGUOUS_DELIVERY"]
  <2>2. /\ a \in Records /\ a.state = "AMBIGUOUS_DELIVERY"
        /\ a.since = c.since /\ a.link = c.link /\ a.reads = c.reads
        /\ a.verified = c.verified /\ a.receipt = c.receipt
    <3> HIDE DEF d
    <3> QED
      BY <1>2 DEF Records, States
  <2>3. Follows(a, c)
    BY <2>2 DEF Follows
  <2>7. Proceed(w, a, "conclude")
    BY <1>5
  <2> HIDE DEF d, a
  <2>4. ASSUME ~raced PROVE Knows(w)'
    <3>2. pc'[w] = "conclude" /\ at'[w] = j /\ copy'[w] = a /\ record' = record
      BY <1>1, <1>5, <2>7, Functions DEF Proceed
    <3> QED
      BY <1>4, <2>2, <2>4, <3>2 DEF Knows
  <2>5. UNCHANGED <<record, checkpoint, daves, cursor, world, history>>
    BY <1>1, <1>5 DEF world, history
  <2>6. approval' = [approval EXCEPT ![j] = approval[j]]
    BY <1>1, Functions
  <2> QED
    BY <1>1, <1>5, <2>2, <2>3, <2>4, <2>5, <2>6, <2>7, SpendsApproval
<1>6. CASE /\ record' = [record EXCEPT ![j] = d]
           /\ IF l = "SENT" THEN Proceed(w, d, "awaiting") ELSE Leave(w)
           /\ UNCHANGED faults
  <2>s. /\ record' = [record EXCEPT ![j] = d] /\ UNCHANGED faults
        /\ pc[w] = "sent" => Proceed(w, d, "awaiting")
        /\ pc[w] = "awaiting" => Leave(w)
    BY <1>1, <1>6
  <2> HIDE DEF d
  <2>4. Elsewhere(j) /\ record'[j] = d
    BY <1>1, <2>s, <1>2, Functions DEF Elsewhere
  <2>7. d # None
    BY <1>2, FilesAssumption
  <2>8. BackedNext(j, d)
    <3>1. BackedNext(j, c)
      BY <1>1, <2>4, CopyBacked
    <3> QED
      BY <1>3, <3>1, FollowsBacked
  <2>9. ASSUME ~raced
        PROVE  /\ Told(j)' /\ d.since = record[j].since
               /\ d.link >= record[j].link /\ record[j].state \notin Terminal
    <3>1. d.state \in {"SENT", "AWAITING_RESPONSE"} /\ d.link = 0 /\ (d.reads = 0 => gets[j] = 0)
      BY <1>2, <1>4, <2>9
    <3>2. Told(j)'
      BY <1>1, <2>4, <2>7, <3>1 DEF Told
    <3> QED
      BY <1>2, <1>4, <2>9, <3>2 DEF Terminal
  <2>10. CASE pc[w] = "sent"
    <3>5. "awaiting" \in Locations \ {"idle", "create"}
      BY DEF Locations
    <3>6. pc'[w] = "awaiting" /\ at'[w] = j /\ copy'[w] = d
      BY <1>2, <2>4, <2>10, <2>s, <3>5, ProceedsAlone
    <3>7. Sends(w, j)
      <4>1. approval[j] \notin Open
        BY <1>1 DEF IInv, SendsOnce, Past
      <4> QED
        BY <1>1, <2>4, <2>7, <2>10, <3>6, <4>1 DEF Sends, Past
    <3>8. Reviews /\ Reads(w, j)
      BY <1>1, <2>10, <2>s, <3>6, QuietProceeds, QuietReads DEF Reviewing
    <3>9. ~raced => Knows(w)'
      BY <1>2, <2>4, <2>10, <3>6 DEF Knows
    <3> HIDE DEF l
    <3> QED
      BY <1>1, <1>2, <2>4, <2>8, <2>9, <2>10, <2>s, <3>5, <3>7, <3>8, <3>9, Proceeds
  <2>11. CASE pc[w] = "awaiting"
    <3>1. Leave(w)
      BY <2>11, <2>s
    <3>2. Reviews
      BY <1>1, <3>1, QuietLeaves DEF Reviewing
    <3> HIDE DEF l
    <3> QED
      BY <1>1, <1>2, <2>4, <2>8, <2>9, <3>1, <3>2, Leaves
  <2> QED
    BY <1>1, <2>10, <2>11
<1> QED
  BY <1>1, <1>5, <1>6 DEF WriteSent, Write

\* A step of receive or review: the record becomes t, the copy too, and it goes on to l.
LEMMA WritesOn ==
    ASSUME IInv, Exclusive, NEW w, NEW j, NEW c, Inside(w, j, c),
           NEW t \in Records, NEW l \in {"read", "link", "ack", "start", "verdict"},
           record' = [record EXCEPT ![j] = t], Proceed(w, t, l),
           UNCHANGED <<approval, checkpoint, daves, cursor, world, faults, history>>,
           pc[w] \notin Reviewing, l = "verdict" => review[j] \in Outcomes, BackedNext(j, t),
           ~raced => /\ Told(j)' /\ Knows(w)'
                     /\ t.since = record[j].since /\ t.link >= record[j].link
                     /\ record[j].state \notin Terminal
    PROVE  Good
<1>1. /\ UNCHANGED <<approval, checkpoint, daves, cursor, wire, room, dropped, late, faults>>
      /\ UNCHANGED <<arrived, gets, elsewhere, raced>>
      /\ j \in Jobs /\ l \in Locations \ {"idle", "create"}
  BY DEF world, history, Inside, Locations
<1>2. Elsewhere(j) /\ record'[j] = t
  BY <1>1, Functions DEF Elsewhere
<1>3. pc'[w] = l
  BY <1>1, <1>2, ProceedsAlone
<1>4. t # None
  BY FilesAssumption
<1>5. Sends(w, j) /\ Reads(w, j)
  BY <1>1, <1>2, <1>3, <1>4, QuietReads DEF Sends, Past
<1>6. Reviews
  BY <1>1, QuietProceeds DEF Reviewing
<1> QED
  BY <1>1, <1>2, <1>5, <1>6, Proceeds

\* What follows from the files that receive leaves alone.
LEMMA QuietFiles ==
    ASSUME IInv, NEW w, NEW j, NEW c, Inside(w, j, c), NEW t \in Records,
           record' = [record EXCEPT ![j] = t],
           UNCHANGED <<approval, checkpoint, daves, cursor, world, faults, history>>
    PROVE  Elsewhere(j) /\ record'[j] = t /\ BackedNext(j, c)
<1>1. /\ UNCHANGED <<approval, checkpoint, daves, cursor, wire, room, dropped, late, faults>>
      /\ UNCHANGED <<arrived, gets, elsewhere, raced>>
      /\ j \in Jobs
  BY DEF world, history, Inside
<1>2. Elsewhere(j) /\ record'[j] = t
  BY <1>1, Functions DEF Elsewhere
<1> QED
  BY <1>1, <1>2, CopyBacked

LEMMA ObserveStep ==
    ASSUME IInv, Exclusive, NEW w, NEW j, NEW c, Inside(w, j, c), Observe(w)
    PROVE  Good
<1>1. /\ pc[w] = "observe" /\ at[w] = j /\ copy[w] = c /\ c \in Records /\ j \in Jobs /\ w \in Workers
      /\ UNCHANGED <<approval, checkpoint, daves, cursor, world, faults, history>>
  BY DEF Observe, Inside
<1>2. CASE Leave(w) /\ UNCHANGED record
  <2>1. UNCHANGED <<files, world, history>> /\ faults' = faults
    BY <1>1, <1>2 DEF files
  <2> QED
    BY <1>1, <1>2, <2>1, LeavesFiles DEF Reviewing
<1>3. CASE checkpoint[j] # None /\ Proceed(w, c, "process") /\ UNCHANGED record
  <2>1. record' = [record EXCEPT ![j] = record[j]]
    BY <1>3, Functions
  <2>2. /\ UNCHANGED <<record, approval, checkpoint, daves, cursor, wire, room, dropped, late, faults>>
        /\ UNCHANGED <<arrived, gets, elsewhere, raced>>
    BY <1>1, <1>3 DEF world, history
  <2>3. Elsewhere(j)
    BY <2>2, Functions DEF Elsewhere
  <2>4. BackedNext(j, c)
    BY <2>2, <2>3, CopyBacked
  <2>5. "process" \in Locations \ {"idle", "create"}
    BY DEF Locations
  <2>6. pc'[w] = "process" /\ copy'[w] = c /\ at'[w] = j
    BY <1>1, <1>3, <2>3, <2>5, ProceedsAlone
  <2>7. Sends(w, j) /\ Reads(w, j)
    BY <1>3, <2>2, <2>6 DEF Sends, Past, Reads
  <2>9. Reviews
    BY <1>1, <1>3, <2>2, QuietProceeds DEF Reviewing
  <2>8. ASSUME ~raced PROVE Knows(w)'
    <3>1. Knows(w)
      BY <2>8 DEF Inside
    <3> QED
      BY <1>1, <2>2, <2>6, <3>1 DEF Knows
  <2> QED
    BY <1>1, <1>3, <2>2, <2>3, <2>4, <2>5, <2>7, <2>8, <2>9, GoesOn
<1>4. CASE c.reads = 0 /\ SpendRead(w)
  <2> DEFINE d == [c EXCEPT !.reads = 1]
  <2>1. /\ d \in Records /\ d.reads = 1 /\ d.state = c.state /\ d.receipt = c.receipt
        /\ d.link = c.link /\ d.since = c.since /\ d.verified = c.verified
    <3>1. 1 \in 0 .. 1
      OBVIOUS
    <3> QED
      BY <1>1, <3>1 DEF Records
  <2>2. record' = [record EXCEPT ![j] = d] /\ Proceed(w, d, "read")
    BY <1>1, <1>4 DEF SpendRead, Write
  <2>3. Follows(d, c)
    BY <2>1 DEF Follows
  <2> HIDE DEF d
  <2>4. Elsewhere(j) /\ record'[j] = d /\ BackedNext(j, c)
    <3>1. d \in Records /\ record' = [record EXCEPT ![j] = d]
      BY <2>1, <2>2
    <3>2. UNCHANGED <<approval, checkpoint, daves, cursor, world, faults, history>>
      BY <1>1
    <3> QED
      BY <3>1, <3>2, QuietFiles
  <2>5. BackedNext(j, d)
    BY <2>3, <2>4, FollowsBacked
  <2>6. pc'[w] = "read" /\ copy'[w] = d /\ at'[w] = j /\ wire' = wire /\ gets' = gets
    BY <1>1, <2>2, Functions DEF Proceed, world, history
  <2>7. d # None
    BY <2>1, FilesAssumption
  <2>8. ASSUME ~raced
        PROVE  /\ Told(j)' /\ Knows(w)' /\ d.since = record[j].since
               /\ d.link >= record[j].link /\ record[j].state \notin Terminal
    <3>1. Knows(w) /\ Told(j) /\ record[j] \in Records /\ record[j] # None
      BY <2>8 DEF Inside
    <3>2. c = record[j] /\ c.state = "AWAITING_RESPONSE" /\ c.receipt
      BY <1>1, <3>1 DEF Knows
    <3>3. c.link = 0 /\ gets[j] = 0
      BY <1>4, <3>1, <3>2 DEF Told
    <3>4. Told(j)'
      BY <2>1, <2>4, <2>6, <2>7, <3>2, <3>3 DEF Told
    <3>5. Knows(w)'
      BY <2>1, <2>4, <2>6, <3>2, <3>3 DEF Knows
    <3> QED
      BY <2>1, <3>2, <3>3, <3>4, <3>5 DEF Terminal
  <2> QED
    BY <1>1, <2>1, <2>2, <2>5, <2>8, WritesOn DEF Reviewing
<1> QED
  BY <1>1, <1>2, <1>3, <1>4 DEF Observe

LEMMA WindowsSound ==
    ASSUME IInv, NEW s \in Nat, NEW cp \in Windows(s)
    PROVE  cp \in Checkpoints /\ (cp.lo < cp.last => cp.last \in 1 .. Len(room))
<1> DEFINE lo == Later(s, dropped)
           hi == Later(lo, Len(room))
<1>1. cursor \in Nat /\ dropped \in Nat /\ Len(room) \in Nat
  BY Functions
<1>2. lo \in Nat
  BY <1>1 DEF Later
<1>3. hi \in Nat /\ (lo < hi => hi = Len(room) /\ hi > 0)
  BY <1>1, <1>2 DEF Later
<1>4. CASE cp = [cursor |-> cursor, lo |-> lo, last |-> hi]
  <2> HIDE DEF lo, hi
  <2> QED
    BY <1>1, <1>2, <1>3, <1>4 DEF Checkpoints
<1>5. CASE cp = [cursor |-> cursor, lo |-> s, last |-> s]
  <2> HIDE DEF lo, hi
  <2> QED
    BY <1>1, <1>5 DEF Checkpoints
<1>6. cp = [cursor |-> cursor, lo |-> lo, last |-> hi] \/ cp = [cursor |-> cursor, lo |-> s, last |-> s]
  BY DEF Windows
<1> HIDE DEF lo, hi
<1> QED
  BY <1>4, <1>5, <1>6

LEMMA ReadStep ==
    ASSUME IInv, Exclusive, NEW w, NEW j, NEW c, Inside(w, j, c), Read(w)
    PROVE  Good
<1>1. /\ pc[w] = "read" /\ at[w] = j /\ copy[w] = c /\ c \in Records /\ j \in Jobs /\ w \in Workers
      /\ UNCHANGED <<approval, daves, cursor, wire, room, dropped, late, faults>>
      /\ UNCHANGED <<arrived, elsewhere, raced>>
  BY DEF Read, Inside, world
<1>2. gets[j] \in Nat
  BY <1>1, Functions
<1>3. ASSUME ~raced
      PROVE  /\ c = record[j] /\ c.state = "AWAITING_RESPONSE" /\ c.receipt /\ c.reads = 1
             /\ c.link = 0 /\ gets[j] = 0 /\ arrived[j] = 1
  <2>1. Knows(w) /\ Told(j) /\ record[j] \in Records /\ record[j] # None
    BY <1>3 DEF Inside
  <2>2. c = record[j] /\ c.state = "AWAITING_RESPONSE" /\ c.receipt /\ c.reads = 1 /\ gets[j] = 0
    BY <1>1, <2>1 DEF Knows
  <2>3. c.link = 0
    BY <2>1, <2>2 DEF Told
  <2>4. arrived[j] = 1
    BY <1>1, <2>1, <2>2 DEF IInv, RecordsBacked, Backed
  <2> QED
    BY <2>2, <2>3, <2>4
<1>4. CASE /\ gets' = [gets EXCEPT ![j] = @ + 1]
           /\ checkpoint[j] = None
           /\ \E cp \in Windows(c.since) : checkpoint' = [checkpoint EXCEPT ![j] = cp]
           /\ Proceed(w, c, "process")
           /\ UNCHANGED record
  <2>1. PICK cp \in Windows(c.since) : checkpoint' = [checkpoint EXCEPT ![j] = cp]
    BY <1>4
  <2>2. cp \in Checkpoints /\ (cp.lo < cp.last => cp.last \in 1 .. Len(room))
    <3>1. c.since \in Nat
      BY <1>1 DEF Records
    <3> QED
      BY <3>1, WindowsSound
  <2>3. checkpoint'[j] = cp /\ gets'[j] = gets[j] + 1
    BY <1>1, <1>4, <2>1, Functions
  <2>4. Elsewhere(j)
    BY <1>1, <1>2, <1>4, <2>1, <2>2, Functions DEF Elsewhere
  <2>5. "process" \in Locations \ {"idle", "create"}
    BY DEF Locations
  <2>6. pc'[w] = "process" /\ copy'[w] = c /\ at'[w] = j
    BY <1>1, <1>4, <2>4, <2>5, ProceedsAlone
  <2>7. Reads(w, j)
    <3>1. cp # None
      BY <2>2, FilesAssumption
    <3> QED
      BY <1>2, <1>4, <2>2, <2>3, <2>6, <3>1 DEF Reads
  <2>8. Sends(w, j)
    BY <1>1, <1>4, <2>6 DEF Sends, Past
  <2>11. Reviews
    BY <1>1, <1>4, QuietProceeds DEF Reviewing
  <2>9. BackedNext(j, c)
    BY <1>1, <1>4, <2>3, <2>4, CopyBacked
  <2>10. ASSUME ~raced
         PROVE  Told(j)' /\ Knows(w)' /\ record[j].link >= record[j].link
    <3>1. Told(j) /\ record[j] # None
      BY <2>10 DEF Inside
    <3>2. Told(j)'
      BY <1>1, <1>3, <1>4, <2>10, <3>1 DEF Told
    <3>3. Knows(w)'
      BY <1>1, <1>3, <1>4, <2>6, <2>10 DEF Knows
    <3> QED
      BY <1>3, <2>10, <3>2, <3>3
  <2> QED
    BY <1>1, <1>3, <1>4, <2>3, <2>4, <2>5, <2>7, <2>8, <2>9, <2>10, <2>11, Proceeds
<1>5. CASE /\ gets' \in {gets, [gets EXCEPT ![j] = @ + 1]}
           /\ record' = [record EXCEPT ![j] = c]
           /\ Leave(w)
           /\ UNCHANGED checkpoint
  <2>1. gets'[j] \in {gets[j], gets[j] + 1} /\ gets' \in [Jobs -> Nat]
        /\ \A k \in Jobs \ {j} : gets'[k] = gets[k]
    <3>1. gets \in [Jobs -> Nat]
      BY Functions
    <3>2. CASE gets' = gets
      BY <1>1, <3>1, <3>2
    <3>3. CASE gets' = [gets EXCEPT ![j] = gets[j] + 1]
      BY <1>1, <1>2, <3>1, <3>3
    <3> QED
      BY <1>5, <3>2, <3>3
  <2>2. Elsewhere(j) /\ record'[j] = c
    BY <1>1, <1>5, <2>1, Functions DEF Elsewhere
  <2>3. BackedNext(j, c)
    BY <1>1, <1>5, <2>1, <2>2, CopyBacked
  <2>4. Reviews
    BY <1>1, <1>5, QuietLeaves DEF Reviewing
  <2>5. c # None
    BY <1>1, FilesAssumption
  <2>6. ~raced => Told(j)'
    BY <1>1, <1>3, <2>2, <2>5 DEF Told
  <2> QED
    BY <1>1, <1>3, <1>5, <2>1, <2>2, <2>3, <2>4, <2>6, Leaves
<1> QED
  BY <1>1, <1>4, <1>5 DEF Read, Write

\* What receive reads of the files, in its process step.
LEMMA ProcessStep ==
    ASSUME IInv, Exclusive, NEW w, NEW j, NEW c, Inside(w, j, c), Process(w)
    PROVE  Good
<1>1. /\ pc[w] = "process" /\ at[w] = j /\ copy[w] = c /\ c \in Records /\ j \in Jobs /\ w \in Workers
      /\ UNCHANGED <<approval, checkpoint, daves, cursor, world, faults, history>>
  BY DEF Process, Inside
<1>2. /\ wire' = wire /\ gets' = gets /\ room' = room /\ arrived' = arrived /\ checkpoint' = checkpoint
      /\ approval' = approval /\ UNCHANGED daves /\ cursor' = cursor /\ raced' = raced
  BY <1>1 DEF world, history
<1>3. ASSUME ~raced
      PROVE  /\ c = record[j] /\ c.state = "AWAITING_RESPONSE" /\ c.link = 0
             /\ c.reads = 0 => gets[j] = 0
  <2>1. Knows(w) /\ Told(j) /\ record[j] # None
    BY <1>3 DEF Inside
  <2>2. c = record[j] /\ c.state = "AWAITING_RESPONSE"
    BY <1>1, <2>1 DEF Knows
  <2> QED
    BY <2>1, <2>2 DEF Told
<1> DEFINE cp == checkpoint[j]
           refused == [c EXCEPT !.state = "INVALID_RESPONSE"]
<1>4. CASE Leave(w) /\ UNCHANGED record
  <2>1. UNCHANGED <<files, world, history>> /\ faults' = faults
    BY <1>1, <1>4 DEF files
  <2> QED
    BY <1>1, <1>4, <2>1, LeavesFiles DEF Reviewing
<1>5. refused \in Records /\ refused.state = "INVALID_RESPONSE" /\ refused.receipt = c.receipt
      /\ refused.verified = c.verified /\ refused.since = c.since /\ refused.link = c.link
      /\ refused.reads = c.reads
  BY <1>1 DEF Records, States
<1>6. CASE record' = [record EXCEPT ![j] = IF Unsafe(c, cp) THEN refused ELSE c] /\ Leave(w)
  <2> HIDE DEF refused, cp
  <2>1. PICK t : t \in {refused, c} /\ record' = [record EXCEPT ![j] = t] /\ Leave(w)
    BY <1>6
  <2>2. /\ t \in Records /\ t.since = c.since /\ t.link = c.link /\ t.reads = c.reads /\ t # None
        /\ t.state = c.state \/ t.state = "INVALID_RESPONSE"
    BY <1>1, <1>5, <2>1, FilesAssumption
  <2>3. Follows(t, c)
    BY <1>5, <2>1 DEF Follows
  <2>4. Elsewhere(j) /\ record'[j] = t /\ BackedNext(j, c)
    <3>1. UNCHANGED <<approval, checkpoint, daves, cursor, world, faults, history>>
      BY <1>1
    <3> QED
      BY <2>1, <2>2, <3>1, QuietFiles
  <2>5. BackedNext(j, t)
    BY <2>3, <2>4, FollowsBacked
  <2>6. Reviews
    BY <1>1, <2>1, QuietLeaves DEF Reviewing
  <2>7. ~raced => /\ Told(j)' /\ t.since = record[j].since /\ t.link >= record[j].link
                  /\ record[j].state \notin Terminal
    <3>1. ~raced => Told(j)'
      BY <1>2, <1>3, <2>2, <2>4 DEF Told
    <3> QED
      BY <1>3, <2>2, <3>1 DEF Terminal
  <2> QED
    BY <1>2, <2>1, <2>2, <2>4, <2>5, <2>6, <2>7, Leaves
<1>7. cp \in Checkpoints /\ gets[j] > 0 /\ (cp.lo < cp.last => cp.last \in 1 .. Len(room))
  BY <1>1, Functions DEF IInv, ReadsTrue
<1> DEFINE good == [c EXCEPT !.state = "RESPONSE_RECEIVED", !.link = cp.last, !.verified = TRUE]
           bad == [refused EXCEPT !.link = cp.last]
<1>8. CASE /\ cp.cursor = c.since /\ cp.lo < cp.last
           /\ ~Unsafe(c, cp) /\ Valid(j, cp.last)
           /\ SaveLink(w, good, "link")
  <2>1. cp.last \in Nat
    BY <1>7 DEF Checkpoints
  <2>2. /\ good \in Records /\ good.state = "RESPONSE_RECEIVED" /\ good.receipt = c.receipt
        /\ good.since = c.since /\ good.link = cp.last /\ good.reads = c.reads
    <3> HIDE DEF cp
    <3> QED
      BY <1>1, <2>1 DEF Records, States
  <2>3. record' = [record EXCEPT ![j] = good] /\ Proceed(w, good, "link")
    BY <1>1, <1>8 DEF SaveLink, Write
  <2> HIDE DEF good
  <2>4. Elsewhere(j) /\ record'[j] = good /\ BackedNext(j, c)
    <3>1. UNCHANGED <<approval, checkpoint, daves, cursor, world, faults, history>>
      BY <1>1
    <3> QED
      BY <2>2, <2>3, <3>1, QuietFiles
  <2>5. cp.lo = c.since /\ cp.last = c.since + 1
    <3>1. cp.lo \in Nat
      BY <1>7 DEF Checkpoints
    <3> HIDE DEF cp
    <3> QED
      BY <1>8, <2>1, <3>1 DEF Unsafe
  <2>6. cp = [cursor |-> c.since, lo |-> c.since, last |-> c.since + 1]
    <3> HIDE DEF cp
    <3> QED
      BY <1>7, <1>8, <2>5 DEF Checkpoints
  <2>7. c.since + 1 \in 1 .. Len(room) /\ room[c.since + 1] = j
    BY <1>7, <1>8, <2>5 DEF Valid
  <2>8. arrived[j] = 1
    BY <1>1, <2>7 DEF IInv, ReadsTrue
  <2>9. BackedNext(j, good)
    <3>1. checkpoint'[j] = cp
      BY <1>2
    <3> HIDE DEF cp
    <3> QED
      BY <1>2, <1>7, <2>2, <2>6, <2>7, <2>8, <3>1 DEF BackedNext
  <2>10. pc'[w] = "link" /\ copy'[w] = good /\ at'[w] = j
    BY <1>1, <2>3, Functions DEF Proceed
  <2>11. good # None
    BY <2>2, FilesAssumption
  <2>12. ASSUME ~raced
         PROVE  /\ Told(j)' /\ Knows(w)' /\ good.since = record[j].since
                /\ good.link >= record[j].link /\ record[j].state \notin Terminal
    <3>1. Told(j)'
      BY <1>2, <1>3, <2>2, <2>4, <2>11, <2>12 DEF Told
    <3>2. Knows(w)'
      BY <2>2, <2>4, <2>10 DEF Knows
    <3>3. good.link >= record[j].link
      BY <1>3, <2>1, <2>2, <2>12
    <3> QED
      BY <1>3, <2>2, <2>12, <3>1, <3>2, <3>3 DEF Terminal
  <2> QED
    BY <1>1, <2>2, <2>3, <2>9, <2>12, WritesOn DEF Reviewing
<1>9. CASE cp.lo < cp.last /\ SaveLink(w, bad, "ack")
  <2>1. cp.last \in Nat
    BY <1>7 DEF Checkpoints
  <2>2. /\ bad \in Records /\ bad.state = "INVALID_RESPONSE" /\ bad.receipt = c.receipt
        /\ bad.since = c.since /\ bad.link = cp.last /\ bad.reads = c.reads /\ bad.verified = c.verified
    <3> HIDE DEF cp, refused
    <3> QED
      BY <1>5, <2>1 DEF Records, States
  <2>3. record' = [record EXCEPT ![j] = bad] /\ Proceed(w, bad, "ack")
    BY <1>1, <1>9 DEF SaveLink, Write
  <2> HIDE DEF bad
  <2>4. Elsewhere(j) /\ record'[j] = bad /\ BackedNext(j, c)
    <3>1. UNCHANGED <<approval, checkpoint, daves, cursor, world, faults, history>>
      BY <1>1
    <3> QED
      BY <2>2, <2>3, <3>1, QuietFiles
  <2>5. Follows(bad, c)
    BY <2>2 DEF Follows
  <2>9. BackedNext(j, bad)
    BY <2>4, <2>5, FollowsBacked
  <2>10. pc'[w] = "ack" /\ copy'[w] = bad /\ at'[w] = j
    BY <1>1, <2>3, Functions DEF Proceed
  <2>11. bad # None
    BY <2>2, FilesAssumption
  <2>12. ASSUME ~raced
         PROVE  /\ Told(j)' /\ Knows(w)' /\ bad.since = record[j].since
                /\ bad.link >= record[j].link /\ record[j].state \notin Terminal
    <3>1. Told(j)'
      BY <1>2, <1>3, <2>2, <2>4, <2>11, <2>12 DEF Told
    <3>2. Knows(w)'
      BY <2>2, <2>4, <2>10 DEF Knows
    <3>3. bad.link >= record[j].link
      BY <1>3, <2>1, <2>2, <2>12
    <3> QED
      BY <1>3, <2>2, <2>12, <3>1, <3>2, <3>3 DEF Terminal
  <2> QED
    BY <1>1, <2>2, <2>3, <2>9, <2>12, WritesOn DEF Reviewing
<1>10. \/ Leave(w) /\ UNCHANGED record
       \/ record' = [record EXCEPT ![j] = IF Unsafe(c, cp) THEN refused ELSE c] /\ Leave(w)
       \/ /\ cp.cursor = c.since /\ cp.lo < cp.last
          /\ ~Unsafe(c, cp) /\ Valid(j, cp.last)
          /\ SaveLink(w, good, "link")
       \/ cp.lo < cp.last /\ SaveLink(w, bad, "ack")
  BY <1>1 DEF Process, Write
<1> HIDE DEF cp, refused, good, bad
<1> QED
  BY <1>4, <1>6, <1>8, <1>9, <1>10

LEMMA LinkStep ==
    ASSUME IInv, Exclusive, NEW w, NEW j, NEW c, Inside(w, j, c), Link(w)
    PROVE  Good
<1> DEFINE d == [c EXCEPT !.state = "REVIEW_PENDING"]
<1>1. /\ pc[w] = "link" /\ at[w] = j /\ copy[w] = c /\ c \in Records /\ j \in Jobs /\ w \in Workers
      /\ UNCHANGED <<approval, checkpoint, daves, cursor, world, faults, history>>
      /\ record' = [record EXCEPT ![j] = d] /\ Proceed(w, d, "ack")
  BY DEF Link, Inside, SaveLink, Write
<1>2. /\ d \in Records /\ d.state = "REVIEW_PENDING" /\ d.receipt = c.receipt /\ d.verified = c.verified
      /\ d.since = c.since /\ d.link = c.link /\ d.reads = c.reads
  BY <1>1 DEF Records, States
<1>s. d \in Records /\ record' = [record EXCEPT ![j] = d] /\ Proceed(w, d, "ack")
  BY <1>1, <1>2
<1> HIDE DEF d
<1>3. Follows(d, c)
  BY <1>2 DEF Follows
<1>u. UNCHANGED <<approval, checkpoint, daves, cursor, world, faults, history>>
  BY <1>1
<1>4. Elsewhere(j) /\ record'[j] = d /\ BackedNext(j, c)
  BY <1>s, <1>u, QuietFiles
<1>5. BackedNext(j, d)
  BY <1>3, <1>4, FollowsBacked
<1>6. pc'[w] = "ack" /\ copy'[w] = d /\ at'[w] = j /\ wire' = wire /\ gets' = gets
  BY <1>1, <1>s, <1>u, Functions DEF Proceed, world, history
<1>7. d # None
  BY <1>2, FilesAssumption
<1>8. ASSUME ~raced
      PROVE  /\ Told(j)' /\ Knows(w)' /\ d.since = record[j].since
             /\ d.link >= record[j].link /\ record[j].state \notin Terminal
  <2>1. Knows(w) /\ Told(j) /\ record[j] \in Records /\ record[j] # None
    BY <1>8 DEF Inside
  <2>2. c = record[j] /\ c.state = "RESPONSE_RECEIVED" /\ c.link \in Nat
    BY <1>1, <2>1 DEF Knows, Records
  <2>3. c.reads = 0 => gets[j] = 0
    BY <2>1, <2>2 DEF Told
  <2>4. Told(j)'
    BY <1>2, <1>4, <1>6, <1>7, <2>3 DEF Told
  <2>5. Knows(w)'
    BY <1>2, <1>4, <1>6 DEF Knows
  <2> QED
    BY <1>2, <2>2, <2>4, <2>5 DEF Terminal
<1> QED
  BY <1>1, <1>s, <1>u, <1>5, <1>8, WritesOn DEF Reviewing

LEMMA AcknowledgeStep ==
    ASSUME IInv, Exclusive, NEW w, NEW j, NEW c, Inside(w, j, c), Acknowledge(w)
    PROVE  Good
<1>1. /\ pc[w] \in {"ack", "reack"} /\ at[w] = j /\ copy[w] = c /\ c \in Records /\ j \in Jobs /\ w \in Workers
      /\ UNCHANGED <<record, approval, checkpoint, daves, wire, room, dropped, late, faults>>
      /\ UNCHANGED <<arrived, gets, elsewhere, raced>>
  BY DEF Acknowledge, Inside, world, history
<1>2. CASE Leave(w) /\ UNCHANGED cursor
  <2>1. UNCHANGED <<files, world, history>> /\ faults' = faults
    BY <1>1, <1>2 DEF files, world, history
  <2> QED
    BY <1>1, <1>2, <2>1, LeavesFiles DEF Reviewing
<1>3. CASE /\ Proceed(w, [c EXCEPT !.acked = TRUE], "acked")
           /\ cursor' \in {cursor, Later(cursor, c.link)}
  <2> DEFINE d == [c EXCEPT !.acked = TRUE]
  <2>1. /\ d \in Records /\ d.state = c.state /\ d.receipt = c.receipt /\ d.verified = c.verified
        /\ d.since = c.since /\ d.link = c.link /\ d.reads = c.reads
    BY <1>1 DEF Records
  <2>2. Follows(d, c)
    BY <2>1 DEF Follows
  <2>3. Proceed(w, d, "acked") /\ d = [c EXCEPT !.acked = TRUE]
    BY <1>3
  <2> HIDE DEF d
  <2>4. c.link \in Nat /\ cursor \in Nat
    BY <1>1, Functions DEF Records
  <2>5. cursor' \in Nat /\ (cursor' = cursor \/ cursor' <= c.link)
    BY <1>3, <2>4 DEF Later
  <2>6. Elsewhere(j)
    BY <1>1, <2>5, Functions DEF Elsewhere
  <2>7. "acked" \in Locations \ {"idle", "create"}
    BY DEF Locations
  <2>8. pc'[w] = "acked" /\ copy'[w] = d /\ at'[w] = j
    BY <2>1, <2>3, <2>6, <2>7, ProceedsAlone
  <2>9. Sends(w, j) /\ Reads(w, j)
    BY <1>1, <2>8, QuietReads DEF Sends, Past
  <2>12. Reviews
    BY <1>1, <2>3, QuietProceeds DEF Reviewing
  <2>10. BackedNext(j, d)
    <3>1. BackedNext(j, c)
      BY <1>1, <2>6, CopyBacked
    <3> QED
      BY <2>2, <3>1, FollowsBacked
  <2>11. ASSUME ~raced
         PROVE  /\ Told(j)' /\ Knows(w)' /\ c = record[j] /\ record[j].link >= record[j].link
    <3>1. Knows(w) /\ Told(j) /\ record[j] # None
      BY <2>11 DEF Inside
    <3>2. c = record[j]
      BY <1>1, <3>1 DEF Knows
    <3>3. Told(j)'
      BY <1>1, <3>1 DEF Told
    <3>4. Knows(w)'
      BY <1>1, <2>3, <2>8, <3>2 DEF Knows
    <3> QED
      BY <2>4, <3>2, <3>3, <3>4
  <2> QED
    BY <1>1, <2>1, <2>3, <2>5, <2>6, <2>7, <2>9, <2>10, <2>11, <2>12, Proceeds
<1> QED
  BY <1>1, <1>2, <1>3 DEF Acknowledge

LEMMA StartReviewStep ==
    ASSUME IInv, Exclusive, NEW w, NEW j, NEW c, Inside(w, j, c), StartReview(w)
    PROVE  Good
<1>1. PICK l \in {"start", "verdict"} : l = IF review[j] \in Outcomes THEN "verdict" ELSE "start"
  OBVIOUS
<1>2. /\ pc[w] = "review" /\ at[w] = j /\ copy[w] = c /\ j \in Jobs /\ c \in Records /\ w \in Workers
      /\ record' = [record EXCEPT ![j] = c] /\ Proceed(w, c, l)
      /\ UNCHANGED <<approval, checkpoint, daves, cursor, world, faults, history>>
  BY <1>1 DEF StartReview, Inside, Write
<1>3. record'[j] = c /\ BackedNext(j, c)
  BY <1>2, QuietFiles
<1>4. pc'[w] = l /\ copy'[w] = c /\ at'[w] = j /\ wire' = wire /\ gets' = gets
  BY <1>2, Functions DEF Proceed, world, history
<1>5. ASSUME ~raced
      PROVE  /\ Told(j)' /\ Knows(w)' /\ c.since = record[j].since
             /\ c.link >= record[j].link /\ record[j].state \notin Terminal
  <2>1. Knows(w) /\ Told(j) /\ record[j] # None
    BY <1>5 DEF Inside
  <2>2. c = record[j] /\ c.state = "REVIEW_PENDING" /\ c.link \in Nat
    BY <1>2, <2>1 DEF Knows, Records
  <2>3. Told(j)'
    BY <1>3, <1>4, <2>1, <2>2 DEF Told
  <2>4. Knows(w)'
    BY <1>1, <1>3, <1>4, <2>2 DEF Knows
  <2> QED
    BY <2>2, <2>3, <2>4 DEF Terminal
<1>6. pc[w] \notin Reviewing /\ (l = "verdict" => review[j] \in Outcomes)
  BY <1>1, <1>2 DEF Reviewing
<1> QED
  BY <1>2, <1>3, <1>5, <1>6, WritesOn

\* What the start of Dave's runtime does to his tasks.
LEMMA Recovery ==
    ASSUME IInv
    PROVE  /\ Recovered \in [Jobs -> Tasks]
           /\ \A k \in Jobs :
                 /\ review[k] \in Outcomes => Recovered[k] = review[k]
                 /\ Recovered[k] \in {"none", "pending", "running"} => inferred[k] = 0
<1>1. review \in [Jobs -> Tasks] /\ \A k \in Jobs : review[k] \in {"none", "pending", "running"} => inferred[k] = 0
  BY Functions DEF IInv, ReviewsOnce
<1> QED
  BY <1>1 DEF Recovered, Tasks, Outcomes

\* A worker has Dave's runtime, or takes it, or nobody has it; then it has it as
\* long as it is in it.
LEMMA DaveReviews ==
    ASSUME IInv, NEW w \in Workers, NEW j \in Jobs, dave \in {w, None},
           \A v \in Workers \ {w} : pc'[v] = pc[v] /\ at'[v] = at[v],
           pc'[w] = "idle" \/ at'[w] = j,
           dave' = IF pc'[w] \in Reviewing THEN w ELSE None,
           pc'[w] = "claimed" => review'[j] = "running",
           pc'[w] = "infer" => review'[j] = "intended",
           pc'[w] = "verdict" => review'[j] \in Outcomes,
           \A k \in Jobs :
              /\ review[k] \in Outcomes => review'[k] = review[k]
              /\ inferred'[k] \in {0, 1}
              /\ review'[k] \in {"none", "pending", "running"} => inferred'[k] = 0
    PROVE  Reviews
<1>2. ASSUME NEW v \in Workers
      PROVE  /\ pc'[v] \in Reviewing <=> dave' = v
             /\ pc'[v] = "claimed" => review'[at'[v]] = "running"
             /\ pc'[v] = "infer" => review'[at'[v]] = "intended"
             /\ pc'[v] = "verdict" => review'[at'[v]] \in Outcomes
  <2>1. CASE v = w
    BY <2>1, OutboundWorkAssumption DEF Reviewing
  <2>2. CASE v # w
    <3>1. pc[v] \notin Reviewing /\ dave' # v
      BY <2>2, OutboundWorkAssumption DEF IInv, ReviewsOnce
    <3>2. pc[v] = "verdict" => at[v] \in Jobs /\ review[at[v]] \in Outcomes
      BY DEF IInv, Working, ReviewsOnce
    <3> QED
      BY <2>2, <3>1, <3>2 DEF Reviewing
  <2> QED
    BY <2>1, <2>2
<1> QED
  BY <1>2 DEF Reviews, ReviewsOnce

\* Dave's runtime goes on with a review: only his tasks change.
LEMMA ReviewGoesOn ==
    ASSUME IInv, Exclusive, NEW w, NEW j, NEW c, Inside(w, j, c), pc[w] \in {"start"} \cup Reviewing,
           UNCHANGED <<record, approval, checkpoint, cursor, world, faults, history>>,
           NEW l \in {"verdict"} \cup Reviewing, Proceed(w, c, l),
           review' \in [Jobs -> Tasks], dave' \in Workers \cup {None}, inferred' \in [Jobs -> Nat],
           Reviews
    PROVE  Good
<1>1. /\ UNCHANGED <<record, approval, checkpoint, cursor, wire, room, dropped, late, faults>>
      /\ UNCHANGED <<arrived, gets, elsewhere, raced>>
      /\ j \in Jobs /\ c \in Records /\ at[w] = j /\ copy[w] = c /\ w \in Workers
      /\ l \in Locations \ {"idle", "create"}
  BY DEF world, history, Inside, Locations, Reviewing
<1>2. Elsewhere(j)
  BY <1>1, Functions DEF Elsewhere
<1>3. pc'[w] = l /\ copy'[w] = c /\ at'[w] = j
  BY <1>1, <1>2, ProceedsAlone
<1>5. Sends(w, j) /\ Reads(w, j)
  BY <1>1, <1>3, QuietReads DEF Sends, Past, Reviewing
<1>7. BackedNext(j, c)
  BY <1>1, <1>2, CopyBacked DEF Reviews
<1>8. ASSUME ~raced PROVE Knows(w)'
  <2>1. Knows(w)
    BY <1>8 DEF Inside
  <2> QED
    BY <1>1, <1>3, <2>1 DEF Knows, Reviewing
<1> QED
  BY <1>1, <1>2, <1>5, <1>7, <1>8, GoesOn

\* The runtime is closed, or was not had: the review throws.
LEMMA ReviewLeaves ==
    ASSUME IInv, Exclusive, NEW w, NEW j, NEW c, Inside(w, j, c), Leave(w),
           UNCHANGED <<record, approval, checkpoint, cursor, world, history>>,
           faults' = faults \/ Fault,
           review' \in [Jobs -> Tasks], dave' \in Workers \cup {None}, inferred' \in [Jobs -> Nat],
           Reviews
    PROVE  Good
<1>1. /\ UNCHANGED <<record, approval, checkpoint, cursor, wire, room, dropped, late>>
      /\ UNCHANGED <<arrived, gets, elsewhere, raced>>
      /\ j \in Jobs
  BY DEF world, history, Inside
<1>2. faults' \in 0 .. MaxFaults
  BY Functions, OutboundWorkAssumption DEF Fault
<1>3. Elsewhere(j)
  BY <1>1, <1>2, Functions DEF Elsewhere
<1>6. ~raced => Told(j)' /\ record[j].link \in Nat
  BY <1>1 DEF Inside, Told, Records
<1>7. ~raced => record[j].link >= record[j].link
  BY <1>6
<1> QED
  BY <1>1, <1>3, <1>6, <1>7, Leaves

LEMMA StartDaveStep ==
    ASSUME IInv, Exclusive, NEW w, NEW j, NEW c, Inside(w, j, c), StartDave(w)
    PROVE  Good
<1>1. /\ pc[w] = "start" /\ at[w] = j /\ copy[w] = c /\ j \in Jobs /\ w \in Workers
      /\ UNCHANGED <<record, approval, checkpoint, inferred, cursor, world, faults, history>>
  BY DEF StartDave, Inside
<1>2. review \in [Jobs -> Tasks] /\ dave \in Workers \cup {None} /\ inferred \in [Jobs -> Nat]
  BY Functions
<1>3. \A k \in Jobs : inferred[k] \in {0, 1}
  BY DEF IInv, ReviewsOnce
<1>4. CASE dave = None /\ dave' = w /\ review' = Recovered /\ Proceed(w, c, "dave")
  <2>1. /\ pc'[w] = "dave" /\ at' = at
        /\ \A v \in Workers \ {w} : pc'[v] = pc[v]
    BY <1>1, <1>4, Functions DEF Proceed
  <2>2. Reviews
    BY <1>1, <1>3, <1>4, <2>1, Recovery, DaveReviews DEF Reviewing
  <2> QED
    BY <1>1, <1>2, <1>4, <2>2, Recovery, ReviewGoesOn DEF Reviewing
<1>5. CASE review' = review /\ dave' = dave /\ Leave(w)
  <2>1. Reviews
    BY <1>1, <1>5, QuietLeaves DEF Reviewing
  <2> QED
    BY <1>1, <1>2, <1>5, <2>1, ReviewLeaves
<1>6. CASE dave = None /\ review' = Recovered /\ dave' = dave /\ Leave(w)
  <2>1. pc'[w] = "idle" /\ \A v \in Workers \ {w} : pc'[v] = pc[v] /\ at'[v] = at[v]
    BY <1>1, <1>6, Functions DEF Leave
  <2>2. Reviews
    BY <1>1, <1>3, <1>6, <2>1, Recovery, DaveReviews DEF Reviewing
  <2> QED
    BY <1>1, <1>2, <1>6, <2>2, Recovery, ReviewLeaves
<1> QED
  BY <1>1, <1>4, <1>5, <1>6 DEF StartDave

\* A step of the runtime behind its start, which sets the task of the job.
LEMMA SetsTask ==
    ASSUME IInv, NEW w \in Workers, NEW j \in Jobs, dave = w,
           \A v \in Workers \ {w} : pc'[v] = pc[v] /\ at'[v] = at[v],
           pc'[w] = "idle" \/ at'[w] = j,
           dave' = IF pc'[w] \in Reviewing THEN w ELSE None,
           review' \in [Jobs -> Tasks], \A k \in Jobs \ {j} : review'[k] = review[k],
           pc'[w] = "claimed" => review'[j] = "running",
           pc'[w] = "infer" => review'[j] = "intended",
           pc'[w] = "verdict" => review'[j] \in Outcomes,
           review[j] \in Outcomes => review'[j] = review[j],
           \/ inferred' = inferred
           \/ inferred' = [inferred EXCEPT ![j] = @ + 1] /\ inferred[j] = 0 /\ review'[j] = "intended",
           review'[j] \in {"none", "pending", "running"} => inferred[j] = 0
    PROVE  Reviews /\ inferred' \in [Jobs -> Nat]
<1>1. /\ review \in [Jobs -> Tasks] /\ inferred \in [Jobs -> Nat]
      /\ \A k \in Jobs : inferred[k] \in {0, 1}
                         /\ (review[k] \in {"none", "pending", "running"} => inferred[k] = 0)
  BY Functions DEF IInv, ReviewsOnce
<1>3. /\ inferred' \in [Jobs -> Nat] /\ inferred'[j] \in {0, 1}
      /\ \A k \in Jobs \ {j} : inferred'[k] = inferred[k]
      /\ inferred'[j] = inferred[j] \/ review'[j] = "intended"
  BY <1>1
<1>4. \A k \in Jobs :
         /\ review[k] \in Outcomes => review'[k] = review[k]
         /\ inferred'[k] \in {0, 1}
         /\ review'[k] \in {"none", "pending", "running"} => inferred'[k] = 0
  BY <1>1, <1>3
<1> QED
  BY <1>3, <1>4, DaveReviews

LEMMA DaveHas ==
    ASSUME IInv, NEW w, NEW j, NEW c, Inside(w, j, c), pc[w] \in Reviewing
    PROVE  /\ dave = w /\ w \in Workers /\ j \in Jobs /\ at[w] = j /\ copy[w] = c
           /\ review[j] \in Tasks
           /\ pc[w] = "claimed" => review[j] = "running" /\ inferred[j] = 0
           /\ pc[w] = "infer" => review[j] = "intended"
           /\ review[j] \in {"none", "pending"} => inferred[j] = 0
<1>1. w \in Workers /\ j \in Jobs /\ at[w] = j /\ copy[w] = c
  BY DEF Inside
<1>2. review[j] \in Tasks
  BY <1>1, Functions
<1>3. /\ dave = w
      /\ pc[w] = "claimed" => review[j] = "running" /\ inferred[j] = 0
      /\ pc[w] = "infer" => review[j] = "intended"
      /\ review[j] \in {"none", "pending"} => inferred[j] = 0
  BY <1>1 DEF IInv, ReviewsOnce
<1> QED
  BY <1>1, <1>2, <1>3

LEMMA TaskSet ==
    ASSUME IInv, NEW j \in Jobs, NEW t \in Tasks, review' = Set(j, t)
    PROVE  review' \in [Jobs -> Tasks] /\ review'[j] = t /\ \A k \in Jobs \ {j} : review'[k] = review[k]
BY Functions DEF Set

LEMMA TaskKept ==
    ASSUME IInv, NEW j \in Jobs, UNCHANGED review
    PROVE  /\ review' \in [Jobs -> Tasks] /\ review'[j] = review[j]
           /\ \A k \in Jobs \ {j} : review'[k] = review[k]
BY Functions

\* The runtime is closed, with the task as it was, or failed, or queued.
LEMMA DaveCloses ==
    ASSUME IInv, Exclusive, NEW w, NEW j, NEW c, Inside(w, j, c), pc[w] \in Reviewing,
           UNCHANGED <<record, approval, checkpoint, inferred, cursor, world, history>>,
           faults' = faults \/ Fault, CloseDave(w),
           review' \in [Jobs -> Tasks], \A k \in Jobs \ {j} : review'[k] = review[k],
           \/ review'[j] = review[j]
           \/ review'[j] = "failed" /\ review[j] \notin Outcomes
           \/ review'[j] = "pending" /\ review[j] = "none"
    PROVE  Good
<1>1. dave = w /\ w \in Workers /\ j \in Jobs /\ at[w] = j
  BY DaveHas
<1>2. /\ dave' = None /\ Leave(w) /\ pc'[w] = "idle"
      /\ \A v \in Workers \ {w} : pc'[v] = pc[v] /\ at'[v] = at[v]
  BY <1>1, Functions DEF CloseDave, Leave
<1>3. review'[j] \in {"none", "pending", "running"} => inferred[j] = 0
  BY <1>1 DEF IInv, ReviewsOnce
<1>4. review[j] \in Outcomes => review'[j] = review[j]
  BY DEF Outcomes
<1>5. Reviews /\ inferred' \in [Jobs -> Nat]
  BY <1>1, <1>2, <1>3, <1>4, SetsTask DEF Reviewing
<1> QED
  BY <1>1, <1>2, <1>5, ReviewLeaves

\* It goes on, and the task changes.
LEMMA DaveGoesOn ==
    ASSUME IInv, Exclusive, NEW w, NEW j, NEW c, Inside(w, j, c), pc[w] \in Reviewing,
           UNCHANGED <<record, approval, checkpoint, cursor, world, faults, history>>,
           NEW l \in {"claimed", "infer", "verdict"}, Proceed(w, c, l),
           dave' = IF l \in Reviewing THEN w ELSE None,
           review' \in [Jobs -> Tasks], \A k \in Jobs \ {j} : review'[k] = review[k],
           l = "claimed" => review'[j] = "running" /\ review[j] \in {"none", "pending"},
           l = "infer" => review'[j] = "intended" /\ review[j] = "running",
           l = "verdict" => review'[j] \in Outcomes /\ review[j] = "intended",
           \/ inferred' = inferred
           \/ inferred' = [inferred EXCEPT ![j] = @ + 1] /\ l = "infer"
    PROVE  Good
<1>1. dave = w /\ w \in Workers /\ j \in Jobs /\ at[w] = j
  BY DaveHas
<1>2. /\ pc'[w] = l /\ at'[w] = j
      /\ \A v \in Workers \ {w} : pc'[v] = pc[v] /\ at'[v] = at[v]
  BY <1>1, Functions DEF Proceed
<1>3. review[j] \in {"none", "pending", "running"} => inferred[j] = 0
  BY <1>1 DEF IInv, ReviewsOnce
<1>4. review[j] \notin Outcomes
  BY DEF Outcomes
<1>5. Reviews /\ inferred' \in [Jobs -> Nat]
  BY <1>1, <1>2, <1>3, <1>4, SetsTask DEF Reviewing, Outcomes
<1>6. dave' \in Workers \cup {None}
  BY <1>1
<1> QED
  BY <1>5, <1>6, ReviewGoesOn DEF Reviewing

LEMMA ClaimReviewStep ==
    ASSUME IInv, Exclusive, NEW w, NEW j, NEW c, Inside(w, j, c), ClaimReview(w)
    PROVE  Good
<1>1. /\ pc[w] = "dave" /\ pc[w] \in Reviewing
      /\ UNCHANGED <<record, approval, checkpoint, inferred, cursor, world, history>>
  BY DEF ClaimReview, Reviewing
<1>2. dave = w /\ w \in Workers /\ j \in Jobs /\ at[w] = j /\ copy[w] = c
      /\ (review[j] \in {"none", "pending"} => inferred[j] = 0)
  BY <1>1, DaveHas
<1>3. CASE /\ review[j] \in {"none", "pending"}
           /\ review' = Set(j, "running") /\ Proceed(w, c, "claimed")
           /\ UNCHANGED <<dave, faults>>
  <2>1. "running" \in Tasks
    BY DEF Tasks
  <2>2. /\ review' \in [Jobs -> Tasks] /\ review'[j] = "running"
        /\ \A k \in Jobs \ {j} : review'[k] = review[k]
    BY <1>2, <1>3, <2>1, TaskSet
  <2> QED
    BY <1>1, <1>2, <1>3, <2>2, DaveGoesOn DEF Reviewing
<1>4. CASE CloseDave(w) /\ UNCHANGED review /\ (faults' = faults \/ Fault)
  BY <1>1, <1>2, <1>4, TaskKept, DaveCloses
<1>5. CASE Fault /\ CloseDave(w) /\ review[j] = "none" /\ review' = Set(j, "pending")
  <2>1. "pending" \in Tasks
    BY DEF Tasks
  <2>2. /\ review' \in [Jobs -> Tasks] /\ review'[j] = "pending"
        /\ \A k \in Jobs \ {j} : review'[k] = review[k]
    BY <1>2, <1>5, <2>1, TaskSet
  <2> QED
    BY <1>1, <1>5, <2>2, DaveCloses
<1>6. CASE Fault /\ CloseDave(w) /\ review[j] # "none" /\ review' = Set(j, review[j])
  <2>1. /\ review' \in [Jobs -> Tasks] /\ review'[j] = review[j]
        /\ \A k \in Jobs \ {j} : review'[k] = review[k]
    BY <1>1, <1>2, <1>6, DaveHas, TaskSet
  <2> QED
    BY <1>1, <1>6, <2>1, DaveCloses
<1> QED
  BY <1>1, <1>2, <1>3, <1>4, <1>5, <1>6 DEF ClaimReview

LEMMA InferReviewStep ==
    ASSUME IInv, Exclusive, NEW w, NEW j, NEW c, Inside(w, j, c), InferReview(w)
    PROVE  Good
<1>1. /\ pc[w] = "claimed" /\ pc[w] \in Reviewing
      /\ UNCHANGED <<record, approval, checkpoint, cursor, world, history>>
  BY DEF InferReview, Reviewing
<1>2. dave = w /\ w \in Workers /\ j \in Jobs /\ at[w] = j /\ copy[w] = c
      /\ review[j] = "running" /\ inferred[j] = 0
  BY <1>1, DaveHas
<1>3. CASE /\ review' = Set(j, "intended") /\ inferred' = [inferred EXCEPT ![j] = @ + 1]
           /\ Proceed(w, c, "infer") /\ UNCHANGED <<dave, faults>>
  <2>1. "intended" \in Tasks
    BY DEF Tasks
  <2>2. /\ review' \in [Jobs -> Tasks] /\ review'[j] = "intended"
        /\ \A k \in Jobs \ {j} : review'[k] = review[k]
    BY <1>2, <1>3, <2>1, TaskSet
  <2> QED
    BY <1>1, <1>2, <1>3, <2>2, DaveGoesOn DEF Reviewing
<1>4. CASE CloseDave(w) /\ UNCHANGED <<review, inferred>> /\ Fault
  BY <1>1, <1>2, <1>4, TaskKept, DaveCloses
<1>5. CASE CloseDave(w) /\ review' = Set(j, "failed") /\ UNCHANGED <<inferred, faults>>
  <2>1. "failed" \in Tasks /\ review[j] \notin Outcomes
    BY <1>2 DEF Tasks, Outcomes
  <2>2. /\ review' \in [Jobs -> Tasks] /\ review'[j] = "failed"
        /\ \A k \in Jobs \ {j} : review'[k] = review[k]
    BY <1>2, <1>5, <2>1, TaskSet
  <2> QED
    BY <1>1, <1>5, <2>1, <2>2, DaveCloses
<1> QED
  BY <1>1, <1>2, <1>3, <1>4, <1>5 DEF InferReview

LEMMA FinishReviewStep ==
    ASSUME IInv, Exclusive, NEW w, NEW j, NEW c, Inside(w, j, c), FinishReview(w)
    PROVE  Good
<1>1. /\ pc[w] = "infer" /\ pc[w] \in Reviewing
      /\ UNCHANGED <<record, approval, checkpoint, inferred, cursor, world, history>>
  BY DEF FinishReview, Reviewing
<1>2. dave = w /\ w \in Workers /\ j \in Jobs /\ at[w] = j /\ copy[w] = c /\ review[j] = "intended"
  BY <1>1, DaveHas
<1>3. CASE /\ \E o \in Outcomes : review' = Set(j, o)
           /\ dave' = None /\ Proceed(w, c, "verdict") /\ UNCHANGED faults
  <2>1. PICK o \in Outcomes : review' = Set(j, o)
    BY <1>3
  <2>2. o \in Tasks
    BY DEF Tasks
  <2>3. /\ review' \in [Jobs -> Tasks] /\ review'[j] = o
        /\ \A k \in Jobs \ {j} : review'[k] = review[k]
    BY <1>2, <2>1, <2>2, TaskSet
  <2> QED
    BY <1>1, <1>2, <1>3, <2>3, DaveGoesOn DEF Reviewing
<1>4. CASE CloseDave(w) /\ UNCHANGED review /\ Fault
  BY <1>1, <1>2, <1>4, TaskKept, DaveCloses
<1>5. CASE CloseDave(w) /\ review' = Set(j, "failed") /\ UNCHANGED faults
  <2>1. "failed" \in Tasks /\ review[j] \notin Outcomes
    BY <1>2 DEF Tasks, Outcomes
  <2>2. /\ review' \in [Jobs -> Tasks] /\ review'[j] = "failed"
        /\ \A k \in Jobs \ {j} : review'[k] = review[k]
    BY <1>2, <1>5, <2>1, TaskSet
  <2> QED
    BY <1>1, <1>5, <2>1, <2>2, DaveCloses
<1> QED
  BY <1>1, <1>2, <1>3, <1>4, <1>5 DEF FinishReview

LEMMA WriteVerdictStep ==
    ASSUME IInv, Exclusive, NEW w, NEW j, NEW c, Inside(w, j, c), WriteVerdict(w)
    PROVE  Good
<1> DEFINE o == review[j]
           t == [c EXCEPT !.outcome = o, !.state = Verdict(o)]
<1>1. /\ pc[w] = "verdict" /\ at[w] = j /\ copy[w] = c /\ c \in Records /\ j \in Jobs /\ w \in Workers
      /\ UNCHANGED <<approval, checkpoint, daves, cursor, world, faults, history>>
      /\ record' = [record EXCEPT ![j] = t] /\ Leave(w)
  BY DEF WriteVerdict, Inside, Write
<1>2. o \in Outcomes
  BY <1>1 DEF IInv, ReviewsOnce
<1>3. /\ Verdict(o) \in {"SUCCESS", "REJECTED_RESULT", "REVISION_REQUIRED"}
      /\ Verdict(o) = "SUCCESS" => o = "VOUCH"
      /\ Verdict(o) = "REJECTED_RESULT" => o = "REJECT"
  BY <1>2 DEF Verdict, Outcomes
<1>4. /\ t \in Records /\ t.state = Verdict(o)
      /\ t.since = c.since /\ t.link = c.link /\ t.reads = c.reads
      /\ t.receipt = c.receipt /\ t.verified = c.verified
  <2> HIDE DEF o
  <2> QED
    BY <1>1, <1>2, <1>3 DEF Records, States
<1>s. record' = [record EXCEPT ![j] = t] /\ t \in Records
  BY <1>1, <1>4
<1> HIDE DEF t
<1>5. Elsewhere(j) /\ record'[j] = t /\ BackedNext(j, c)
  <2>1. UNCHANGED <<approval, checkpoint, daves, cursor, world, faults, history>>
    BY <1>1
  <2> QED
    BY <1>s, <2>1, QuietFiles
<1>6. review' = review /\ wire' = wire /\ gets' = gets
  BY <1>1 DEF world, history
<1>7. BackedNext(j, t)
  BY <1>3, <1>4, <1>5, <1>6 DEF BackedNext
<1>8. t # None
  BY <1>4, FilesAssumption
<1>9. ASSUME ~raced
      PROVE  /\ Told(j)' /\ t.since = record[j].since
             /\ t.link >= record[j].link /\ record[j].state \notin Terminal
  <2>1. Knows(w) /\ Told(j) /\ record[j] # None
    BY <1>9 DEF Inside
  <2>2. c = record[j] /\ c.state = "REVIEW_PENDING" /\ c.link \in Nat
    BY <1>1, <2>1 DEF Knows, Records
  <2>3. c.reads = 0 => gets[j] = 0
    BY <2>1, <2>2 DEF Told
  <2>4. Told(j)'
    BY <1>3, <1>4, <1>5, <1>6, <1>8, <2>3 DEF Told
  <2> QED
    BY <1>4, <2>2, <2>4 DEF Terminal
<1>10. Reviews /\ cursor' = cursor /\ approval' = approval /\ checkpoint' = checkpoint
  BY <1>1, QuietLeaves DEF Reviewing
<1> QED
  BY <1>1, <1>4, <1>5, <1>6, <1>7, <1>9, <1>10, Leaves

-----------------------------------------------------------------------------
(* Deaths, and the beginnings of operations.                               *)

LEMMA DieStep ==
    ASSUME IInv, Exclusive, NEW w \in Workers, Die(w)
    PROVE  Good
<1>1. /\ UNCHANGED <<record, approval, checkpoint, review, inferred, cursor, wire, room, dropped, late>>
      /\ UNCHANGED <<arrived, gets, elsewhere, raced>>
      /\ pc[w] # "idle" /\ Fault
      /\ pc' = [pc EXCEPT ![w] = "idle"] /\ at' = [at EXCEPT ![w] = None]
      /\ copy' = [copy EXCEPT ![w] = None]
      /\ dave' = (IF dave = w THEN None ELSE dave)
      /\ lock' = [k \in Jobs |-> IF lock[k] = w THEN Orphan ELSE lock[k]]
  BY DEF Die, world, history
<1>2. faults' \in 0 .. MaxFaults
  BY <1>1, Functions, OutboundWorkAssumption DEF Fault
<1>3. PICK j \in Jobs : j = at[w]
  BY <1>1 DEF IInv, Working
<1>4. pc'[w] = "idle" /\ "idle" \in Locations
  BY <1>1, Functions DEF Locations
<1>5. TypeOK'
  BY <1>1, <1>2, <1>4, Functions DEF TypeOK, Tasks
<1>6. Alone(w, j)
  BY <1>1, <1>3, <1>4, Functions DEF Alone
<1>7. Sends(w, j) /\ Reads(w, j) /\ Keeps(w, j) /\ Ends(w, j)
  BY <1>1, <1>4 DEF Sends, Past, Reads, Keeps, Ends
<1>10. Reviews
  <2>1. \A v \in Workers \ {w} : pc'[v] = pc[v] /\ at'[v] = at[v]
    BY <1>6 DEF Alone
  <2>2. ASSUME NEW v \in Workers
        PROVE  /\ pc'[v] \in Reviewing <=> dave' = v
               /\ pc'[v] = "claimed" => review'[at'[v]] = "running"
               /\ pc'[v] = "infer" => review'[at'[v]] = "intended"
               /\ pc'[v] = "verdict" => review'[at'[v]] \in Outcomes
    <3>1. CASE v = w
      BY <1>1, <1>4, <3>1, OutboundWorkAssumption DEF Reviewing
    <3>2. CASE v # w
      BY <1>1, <2>1, <3>2, OutboundWorkAssumption DEF IInv, ReviewsOnce
    <3> QED
      BY <3>1, <3>2
  <2> QED
    BY <1>1, <2>2 DEF Reviews, IInv, ReviewsOnce
<1>8. Sections(w, j)
  <2>1. ~raced => Told(j)'
    BY <1>1, <1>3 DEF Exclusive, Told
  <2> QED
    BY <1>1, <1>4, <2>1 DEF Sections, Holds
<1>9. Covers(w, j)
  <2>1. record[j] # None => record[j].link \in Nat
    BY Functions DEF Records
  <2> QED
    BY <1>1, <2>1 DEF Covers
<1> QED
  BY <1>5, <1>6, <1>7, <1>8, <1>9, <1>10, WorkerStep

LEMMA NewRecord ==
    ASSUME NEW s \in Nat
    PROVE  New(s) \in Records /\ New(s).since = s
BY DEF New, Records, States

LEMMA PrepareStep ==
    ASSUME IInv, Exclusive, NEW w \in Workers, NEW j \in Jobs, Prepare(w, j)
    PROVE  Good
<1>1. /\ UNCHANGED <<record, approval, checkpoint, daves, cursor, wire, room, dropped, late>>
      /\ UNCHANGED <<arrived, gets, elsewhere, raced, faults, lock>>
      /\ pc[w] = "idle"
      /\ pc' = [pc EXCEPT ![w] = "create"] /\ at' = [at EXCEPT ![w] = j]
      /\ copy' = [copy EXCEPT ![w] = New(cursor)]
  BY DEF Prepare, files, world, history
<1>2. New(cursor) \in Records /\ New(cursor).since = cursor
  BY Functions, NewRecord
<1>3. pc'[w] = "create" /\ at'[w] = j /\ copy'[w] = New(cursor) /\ "create" \in Locations
  BY <1>1, Functions DEF Locations
<1>4. TypeOK'
  BY <1>1, <1>2, <1>3, Functions DEF TypeOK, Tasks
<1>5. Alone(w, j)
  BY <1>1, <1>2, <1>3, Functions DEF Alone
<1>6. Sends(w, j) /\ Reads(w, j) /\ Ends(w, j)
  BY <1>1, <1>3 DEF Sends, Past, Reads, Ends
<1>10. Reviews
  BY <1>1, <1>3, <1>5, QuietReviews DEF Alone, Reviewing
<1>7. Keeps(w, j)
  BY <1>1, <1>3 DEF Keeps, BackedNext, New
<1>8. Sections(w, j)
  <2>1. ~raced => Told(j)'
    BY <1>1 DEF Exclusive, Told
  <2> QED
    BY <1>1, <1>3, <2>1 DEF Sections, Holds
<1>9. Covers(w, j)
  <2>1. record[j] # None => record[j].link \in Nat
    BY Functions DEF Records
  <2> QED
    BY <1>1, <2>1 DEF Covers
<1> QED
  BY <1>4, <1>5, <1>6, <1>7, <1>8, <1>9, <1>10, WorkerStep

LEMMA CreateStep ==
    ASSUME IInv, Exclusive, NEW w \in Workers, Create(w)
    PROVE  Good
<1>1. PICK j \in Jobs : j = at[w]
  BY DEF IInv, Working, Create
<1>2. PICK c \in Records : c = copy[w]
  BY DEF IInv, Working, Create
<1>3. PICK t : t = IF record[j] = None THEN c ELSE record[j]
  OBVIOUS
<1>4. /\ UNCHANGED <<checkpoint, daves, cursor, wire, room, dropped, late>>
      /\ UNCHANGED <<arrived, gets, elsewhere, raced>>
      /\ pc[w] = "create" /\ lock[j] \in {None, Orphan} /\ c = New(c.since)
      /\ record' = [record EXCEPT ![j] = t]
      /\ \/ approval' = [approval EXCEPT ![j] = IF @ = "none" THEN "requested" ELSE @] /\ UNCHANGED faults
         \/ Fault /\ UNCHANGED approval
      /\ pc' = [pc EXCEPT ![w] = "idle"] /\ at' = [at EXCEPT ![w] = None]
      /\ copy' = [copy EXCEPT ![w] = None] /\ lock' = [lock EXCEPT ![j] = None]
  BY <1>1, <1>2, <1>3 DEF Create, Leave, world, history, IInv, Working
<1>5. faults' \in 0 .. MaxFaults
  BY <1>4, Functions, OutboundWorkAssumption DEF Fault
<1>6. pc'[w] = "idle" /\ "idle" \in Locations /\ record'[j] = t
  BY <1>4, Functions DEF Locations
<1>7. t \in Records /\ t # None
  BY <1>2, <1>3, Functions, FilesAssumption
<1>8. /\ approval' \in [Jobs -> {"none", "requested", "approved", "executing", "confirmed",
                                 "ambiguous", "failed"}]
      /\ \A k \in Jobs \ {j} : approval'[k] = approval[k]
      /\ approval'[j] = approval[j] \/ (approval[j] = "none" /\ approval'[j] = "requested")
  <2>1. approval \in [Jobs -> {"none", "requested", "approved", "executing", "confirmed",
                               "ambiguous", "failed"}]
    BY Functions
  <2>2. CASE UNCHANGED approval
    BY <2>1, <2>2
  <2>3. CASE approval' = [approval EXCEPT ![j] = IF @ = "none" THEN "requested" ELSE @]
    BY <2>1, <2>3
  <2> QED
    BY <1>4, <2>2, <2>3
<1>9. TypeOK'
  BY <1>4, <1>5, <1>6, <1>7, <1>8, Functions DEF TypeOK, Tasks
<1>10. Alone(w, j)
  BY <1>1, <1>4, <1>6, <1>8, Functions DEF Alone
<1>11. Sends(w, j)
  BY <1>4, <1>6, <1>7, <1>8 DEF Sends, Past, Open
<1>12. Reviews /\ Reads(w, j)
  BY <1>4, <1>6, <1>10, QuietReviews DEF Alone, Reviewing, Reads
<1>13. Keeps(w, j)
  <2>1. CASE record[j] = None
    <3>1. c.receipt = FALSE /\ c.verified = FALSE /\ c.state = "PREPARED"
      BY <1>4 DEF New
    <3>2. BackedNext(j, c)
      BY <3>1 DEF BackedNext
    <3> QED
      BY <1>3, <1>6, <2>1, <3>2 DEF Keeps
  <2>2. CASE record[j] # None
    BY <1>3, <1>6, <2>2 DEF Keeps
  <2> QED
    BY <2>1, <2>2
<1>14. Sections(w, j)
  <2>1. ASSUME ~raced PROVE Told(j)'
    <3>1. Told(j)
      BY <2>1 DEF Exclusive
    <3>2. CASE record[j] # None
      BY <1>3, <1>4, <1>6, <3>1, <3>2 DEF Told
    <3>3. CASE record[j] = None
      <4>1. gets[j] = 0 /\ wire[j] = "none"
        BY <3>1, <3>3 DEF Told, IInv, SendsOnce
      <4>2. t = c /\ c.link = 0 /\ c.state = "PREPARED"
        BY <1>3, <1>4, <3>3 DEF New
      <4> QED
        BY <1>4, <1>6, <1>7, <4>1, <4>2 DEF Told
    <3> QED
      BY <3>2, <3>3
  <2>2. lock[j] \notin Workers
    BY <1>4, OutboundWorkAssumption
  <2> QED
    BY <1>4, <1>6, <2>1, <2>2 DEF Sections, Holds
<1>15. Covers(w, j)
  <2>1. t.link \in Nat
    BY <1>7 DEF Records
  <2> QED
    BY <1>3, <1>4, <1>6, <1>7, <2>1 DEF Covers
<1>16. Ends(w, j)
  BY <1>3, <1>4, <1>6 DEF Ends
<1> QED
  BY <1>9, <1>10, <1>11, <1>12, <1>13, <1>14, <1>15, <1>16, WorkerStep

\* An operation begins on the record of j, which becomes t; r is its copy.
LEMMA Enters ==
    ASSUME IInv, Exclusive, NEW w \in Workers, NEW j \in Jobs, record[j] # None,
           NEW r \in Records, NEW l \in {"authorize", "unlock", "reack", "observe", "timeout", "review"},
           Enter(w, j, r, l),
           NEW t \in Records, record' = [record EXCEPT ![j] = t],
           NEW a \in {approval[j], "approved"}, approval' = [approval EXCEPT ![j] = a],
           a = approval[j] \/ approval[j] \in {"none", "requested"},
           UNCHANGED <<checkpoint, daves, cursor, world, faults, arrived, gets, elsewhere>>,
           Follows(t, record[j]), Follows(r, record[j]),
           ~raced => /\ Told(j)' /\ (at'[w] = j /\ pc'[w] = l /\ copy'[w] = r => Knows(w)')
                     /\ t.link = record[j].link
                     /\ record[j].state \in Terminal => t.state = record[j].state
    PROVE  Good
<1>1. /\ UNCHANGED <<checkpoint, daves, cursor, wire, room, dropped, late, faults>>
      /\ UNCHANGED <<arrived, gets, elsewhere>>
      /\ pc[w] = "idle"
      /\ raced' = (raced \/ lock[j] \in Workers)
      /\ pc' = [pc EXCEPT ![w] = l] /\ at' = [at EXCEPT ![w] = j]
      /\ copy' = [copy EXCEPT ![w] = r] /\ lock' = [lock EXCEPT ![j] = w]
  BY DEF Enter, world
<1>2. /\ pc'[w] = l /\ at'[w] = j /\ copy'[w] = r /\ lock'[j] = w
      /\ record'[j] = t /\ approval'[j] = a
  BY <1>1, Functions
<1>3. l \in Locations /\ l \notin Past /\ l \notin {"idle", "create", "process", "verdict"} \cup Reviewing
  BY DEF Locations, Past, Reviewing
<1>4. a \in {"none", "requested", "approved", "executing", "confirmed", "ambiguous", "failed"}
  BY Functions
<1>5. t # None
  BY FilesAssumption
<1>6. TypeOK'
  <2>1. raced' \in BOOLEAN
    BY <1>1
  <2> QED
    BY <1>1, <1>3, <1>4, <2>1, Functions DEF TypeOK, Tasks
<1>7. Alone(w, j)
  BY <1>1, <1>2, <1>3, Functions DEF Alone
<1>8. Sends(w, j)
  BY <1>1, <1>2, <1>3, <1>5 DEF Sends, Past, Open
<1>9. Reviews /\ Reads(w, j)
  BY <1>1, <1>2, <1>3, <1>7, QuietReviews DEF Alone, Reviewing, Reads
<1>10. Keeps(w, j)
  <2>1. BackedNext(j, record[j])
    BY <1>7, <1>9, Persists
  <2> QED
    BY <1>2, <2>1, FollowsBacked DEF Keeps
<1>11. Sections(w, j)
  BY <1>1, <1>2, <1>5 DEF Sections, Holds
<1>12. Covers(w, j)
  <2>1. t.link \in Nat /\ t.since = record[j].since
    BY DEF Records, Follows
  <2>2. ~raced' => t.link = record[j].link
    BY <1>1
  <2>3. ~raced' => record'[j].link >= record[j].link
    BY <1>2, <2>1, <2>2
  <2> QED
    BY <1>1, <1>2, <1>5, <2>1, <2>3 DEF Covers
<1>13. Ends(w, j)
  BY <1>1, <1>2 DEF Ends
<1> QED
  BY <1>6, <1>7, <1>8, <1>9, <1>10, <1>11, <1>12, <1>13, WorkerStep

LEMMA OperationStep ==
    ASSUME IInv, Exclusive, NEW w \in Workers, NEW j \in Jobs, Operation(w, j)
    PROVE  Good
<1>1. CASE Prepare(w, j)
  BY <1>1, PrepareStep
<1> SUFFICES ASSUME record[j] # None,
                    Authorize(w, j) \/ Send(w, j) \/ Receive(w, j) \/ Timeout(w, j) \/ Review(w, j)
             PROVE  Good
  BY <1>1 DEF Operation
<1>2. record[j] \in Records /\ record[j].link \in Nat
  BY Functions DEF Records
<1>3. record' = record => record' = [record EXCEPT ![j] = record[j]]
  BY Functions
<1>4. approval' = approval => approval' = [approval EXCEPT ![j] = approval[j]]
  BY Functions
<1>5. Follows(record[j], record[j])
  BY DEF Follows
<1>6. ~raced => Told(j)
  BY DEF Exclusive
<1>7. CASE Authorize(w, j)
  <2> DEFINE r == [record[j] EXCEPT !.state = "AUTHORIZED"]
  <2>1. PICK q \in Records : q = r
    BY <1>2 DEF Records, States
  <2>2. /\ q.state = "AUTHORIZED" /\ q.receipt = record[j].receipt /\ q.verified = record[j].verified
        /\ q.since = record[j].since
    BY <1>2, <2>1 DEF Records
  <2>3. Follows(q, record[j])
    BY <2>2 DEF Follows
  <2>4. /\ Enter(w, j, q, "authorize") /\ record[j].state \in {"PREPARED", "AUTHORIZED"}
        /\ approval[j] \in {"none", "requested", "approved"}
        /\ approval' = [approval EXCEPT ![j] = "approved"]
        /\ record' = record /\ q = [record[j] EXCEPT !.state = "AUTHORIZED"]
        /\ UNCHANGED <<checkpoint, daves, cursor, world, faults, arrived, gets, elsewhere>>
    BY <1>7, <2>1 DEF Authorize
  <2>5. ~raced => Told(j)'
    BY <1>6, <2>4 DEF Told, world
  <2>6. at'[w] = j /\ pc'[w] = "authorize" /\ copy'[w] = q => Knows(w)'
    BY <2>4 DEF Knows
  <2> HIDE DEF r
  <2>7. /\ record' = [record EXCEPT ![j] = record[j]]
        /\ "approved" = approval[j] \/ approval[j] \in {"none", "requested"}
    BY <1>3, <2>4
  <2>8. PICK a \in {approval[j], "approved"} : a = "approved"
    OBVIOUS
  <2>9. approval' = [approval EXCEPT ![j] = a] /\ (a = approval[j] \/ approval[j] \in {"none", "requested"})
    BY <2>4, <2>7, <2>8
  <2>10. ASSUME ~raced
         PROVE  /\ Told(j)' /\ (at'[w] = j /\ pc'[w] = "authorize" /\ copy'[w] = q => Knows(w)')
                /\ record[j].link = record[j].link
                /\ record[j].state \in Terminal => record[j].state = record[j].state
    BY <2>5, <2>6, <2>10
  <2>11. /\ Enter(w, j, q, "authorize")
         /\ record' = [record EXCEPT ![j] = record[j]]
         /\ UNCHANGED <<checkpoint, daves, cursor, world, faults, arrived, gets, elsewhere>>
    BY <2>4, <2>7
  <2>12. record[j] \in Records
    BY <1>2
  <2> QED
    BY <1>5, <2>3, <2>9, <2>10, <2>11, <2>12, Enters
<1>8. CASE Send(w, j)
  <2>1. /\ Enter(w, j, record[j], "unlock") /\ record[j].state = "AUTHORIZED"
        /\ record' = record /\ approval' = approval
        /\ UNCHANGED <<checkpoint, daves, cursor, world, faults, arrived, gets, elsewhere>>
    BY <1>8 DEF Send, files
  <2>2. ~raced => Told(j)'
    BY <1>6, <2>1 DEF Told, world
  <2>3. at'[w] = j /\ pc'[w] = "unlock" /\ copy'[w] = record[j] => Knows(w)'
    BY <2>1 DEF Knows
  <2> QED
    BY <1>2, <1>3, <1>4, <1>5, <2>1, <2>2, <2>3, Enters
<1>9. CASE Timeout(w, j)
  <2>1. PICK q \in Records : q = [record[j] EXCEPT !.state = "NO_RESPONSE"]
    BY <1>2 DEF Records, States
  <2>2. /\ q.state = "NO_RESPONSE" /\ q.receipt = record[j].receipt /\ q.verified = record[j].verified
        /\ q.since = record[j].since
    BY <1>2, <2>1 DEF Records
  <2>3. Follows(q, record[j])
    BY <2>2 DEF Follows
  <2>4. /\ Enter(w, j, q, "timeout") /\ record[j].state = "AWAITING_RESPONSE"
        /\ record' = record /\ approval' = approval
        /\ UNCHANGED <<checkpoint, daves, cursor, world, faults, arrived, gets, elsewhere>>
    BY <1>9, <2>1 DEF Timeout, OverdueJob, files
  <2>5. ~raced => Told(j)'
    BY <1>6, <2>4 DEF Told, world
  <2>6. at'[w] = j /\ pc'[w] = "timeout" /\ copy'[w] = q => Knows(w)'
    BY <2>1, <2>4 DEF Knows
  <2> QED
    BY <1>2, <1>3, <1>4, <1>5, <2>3, <2>4, <2>5, <2>6, Enters
<1>10. CASE Review(w, j)
  <2>1. /\ Enter(w, j, record[j], "review") /\ record[j].state = "REVIEW_PENDING"
        /\ record' = record /\ approval' = approval
        /\ UNCHANGED <<checkpoint, daves, cursor, world, faults, arrived, gets, elsewhere>>
    BY <1>10 DEF Review, files
  <2>2. ~raced => Told(j)'
    BY <1>6, <2>1 DEF Told, world
  <2>3. at'[w] = j /\ pc'[w] = "review" /\ copy'[w] = record[j] => Knows(w)'
    BY <2>1 DEF Knows
  <2> QED
    BY <1>2, <1>3, <1>4, <1>5, <2>1, <2>2, <2>3, Enters
<1>11. CASE Receive(w, j)
  <2>1. UNCHANGED <<approval, checkpoint, daves, cursor, world, faults, arrived, gets, elsewhere>>
    BY <1>11 DEF Receive
  <2>2. CASE Enter(w, j, record[j], "reack") /\ UNCHANGED record
    <3>1. ~raced => Told(j)'
      BY <1>6, <2>1, <2>2 DEF Told, world
    <3>2. at'[w] = j /\ pc'[w] = "reack" /\ copy'[w] = record[j] => Knows(w)'
      BY <2>2 DEF Knows
    <3> QED
      BY <1>2, <1>3, <1>4, <1>5, <2>1, <2>2, <3>1, <3>2, Enters
  <2> DEFINE r == [record[j] EXCEPT !.state = "AWAITING_RESPONSE"]
  <2>3. CASE /\ record[j].state \in {"AWAITING_RESPONSE", "SENT"}
             /\ Enter(w, j, r, "observe") /\ record' = [record EXCEPT ![j] = r]
    <3>1. PICK q \in Records : q = r
      BY <1>2 DEF Records, States
    <3>2. /\ q.state = "AWAITING_RESPONSE" /\ q.receipt = record[j].receipt
          /\ q.verified = record[j].verified /\ q.since = record[j].since
          /\ q.link = record[j].link /\ q.reads = record[j].reads
      BY <1>2, <3>1 DEF Records
    <3>3. Follows(q, record[j])
      BY <3>2 DEF Follows
    <3>4. Enter(w, j, q, "observe") /\ record' = [record EXCEPT ![j] = q]
      BY <2>3, <3>1
    <3> HIDE DEF r
    <3>5. record'[j] = q /\ q # None
      BY <3>4, Functions, FilesAssumption
    <3>6. record[j].receipt
      BY <2>3, <3>4 DEF Enter, Readable
    <3>7. ASSUME ~raced
          PROVE  Told(j)'
      <4>1. q.link = 0 /\ (q.reads = 0 => gets[j] = 0)
        BY <1>6, <2>3, <3>2, <3>7 DEF Told
      <4> QED
        BY <2>1, <3>2, <3>5, <4>1 DEF Told, world
    <3>8. at'[w] = j /\ pc'[w] = "observe" /\ copy'[w] = q => Knows(w)'
      BY <3>2, <3>5, <3>6 DEF Knows
    <3>9. record[j].state \notin Terminal
      BY <2>3 DEF Terminal
    <3> QED
      BY <1>2, <1>4, <2>1, <3>2, <3>3, <3>4, <3>7, <3>8, <3>9, Enters
  <2> QED
    BY <1>11, <2>2, <2>3 DEF Receive
<1> QED
  BY <1>7, <1>8, <1>9, <1>10, <1>11

LEMMA StepStep ==
    ASSUME IInv, Exclusive, NEW w \in Workers, Step(w)
    PROVE  Good
<1>1. CASE Create(w)
  BY <1>1, CreateStep
<1>2. CASE Die(w)
  BY <1>2, DieStep
<1>3. CASE pc[w] \notin {"idle", "create"} /\ ~Die(w)
  <2>1. PICK j : j = at[w]
    OBVIOUS
  <2>2. PICK c : c = copy[w]
    OBVIOUS
  <2>3. Inside(w, j, c)
    BY <1>3, <2>1, <2>2, InSection
  <2>4. CASE SendRefused(w) \/ StepThrows(w)
    <3>1. Leave(w) /\ Fault /\ UNCHANGED <<files, world, history>>
      BY <2>4 DEF SendRefused, StepThrows
    <3>2. pc[w] \notin Reviewing
      BY <2>4 DEF SendRefused, StepThrows, Reviewing
    <3> QED
      BY <2>3, <3>1, <3>2, LeavesFiles
  <2>5. CASE WriteAuthorized(w) \/ Conclude(w) \/ WriteAcked(w) \/ WriteTimeout(w)
    <3>1. /\ pc[w] \in {"authorize", "conclude", "acked", "timeout"}
          /\ Write(w, copy[w]) /\ Leave(w)
          /\ UNCHANGED <<approval, checkpoint, daves, cursor, world, faults, history>>
      BY <2>5 DEF WriteAuthorized, Conclude, WriteAcked, WriteTimeout
    <3> QED
      BY <2>3, <3>1, WritesCopy
  <2>6. CASE Consume(w)
    BY <2>3, <2>6, ConsumeStep
  <2>7. CASE ReserveThrows(w)
    BY <2>3, <2>7, ReserveThrowsStep
  <2>8. CASE Dispatch(w)
    BY <2>3, <2>8, DispatchStep
  <2>9. CASE Answered(w)
    BY <2>3, <2>9, AnsweredStep
  <2>10. CASE TimedOut(w)
    BY <2>3, <2>10, TimedOutStep
  <2>11. CASE Confirm(w)
    BY <2>3, <2>11, ConfirmStep
  <2>12. CASE WriteSent(w)
    BY <2>3, <2>12, WriteSentStep
  <2>13. CASE Observe(w)
    BY <2>3, <2>13, ObserveStep
  <2>14. CASE Read(w)
    BY <2>3, <2>14, ReadStep
  <2>15. CASE Process(w)
    BY <2>3, <2>15, ProcessStep
  <2>16. CASE Link(w)
    BY <2>3, <2>16, LinkStep
  <2>17. CASE Acknowledge(w)
    BY <2>3, <2>17, AcknowledgeStep
  <2>18. CASE StartReview(w)
    BY <2>3, <2>18, StartReviewStep
  <2>19. CASE FinishReview(w)
    BY <2>3, <2>19, FinishReviewStep
  <2>20. CASE WriteVerdict(w)
    BY <2>3, <2>20, WriteVerdictStep
  <2>21. CASE StartDave(w)
    BY <2>3, <2>21, StartDaveStep
  <2>22. CASE ClaimReview(w)
    BY <2>3, <2>22, ClaimReviewStep
  <2>23. CASE InferReview(w)
    BY <2>3, <2>23, InferReviewStep
  <2> QED
    BY <1>1, <1>3, <2>4, <2>5, <2>6, <2>7, <2>8, <2>9, <2>10, <2>11, <2>12, <2>13, <2>14, <2>15,
       <2>16, <2>17, <2>18, <2>19, <2>20, <2>21, <2>22, <2>23 DEF Step
<1>4. pc[w] \in {"idle", "create"} => Create(w) \/ Die(w)
  BY DEF Step, Create, WriteAuthorized, SendRefused, Consume, ReserveThrows, Dispatch, Answered,
         TimedOut, Confirm, WriteSent, Conclude, Observe, Read, Process, Link, Acknowledge,
         WriteAcked, WriteTimeout, StartReview, StartDave, ClaimReview, InferReview, FinishReview,
         WriteVerdict, StepThrows
<1> QED
  BY <1>1, <1>2, <1>3, <1>4

-----------------------------------------------------------------------------
(* The service, the peer, and other readers.                               *)

LEMMA SameReviews ==
    ASSUME IInv, UNCHANGED <<daves, pc, at>>
    PROVE  Reviews
BY DEF IInv, ReviewsOnce, Reviews

\* Nobody's record changes: the request of one job may.
LEMMA WorldStep ==
    ASSUME IInv, Exclusive, TypeOK',
           Reviews,
           UNCHANGED <<record, approval, checkpoint, pc, at, copy, gets, raced, lock>>,
           \A k \in Jobs :
               \/ wire'[k] = wire[k] /\ arrived'[k] = arrived[k]
               \/ /\ wire[k] = "request" /\ wire'[k] \in {"posted", "refused", "lost"}
                  /\ arrived'[k] \in {0, 1}
                  /\ wire'[k] = "posted" => arrived'[k] = 1
                  /\ wire'[k] = "refused" => arrived'[k] = 0,
           Len(room') \in Nat /\ Len(room) <= Len(room'),
           \A i \in 1 .. Len(room) : room'[i] = room[i],
           \A i \in 1 .. Len(room') : room'[i] \in Jobs => arrived'[room'[i]] = 1,
           elsewhere' <= Len(room'),
           ~raced => NothingSkipped'
    PROVE  IInv' /\ Exclusive' /\ TerminalKept
<1>1. Len(room) \in Nat
  BY Functions
<1>2. Working'
  BY DEF IInv, Working
<1>3. SendsOnce'
  <2>1. ASSUME NEW k \in Jobs
        PROVE  /\ approval'[k] \in Open => wire'[k] = "none"
               /\ wire'[k] \in {"none", "request", "refused"} => arrived'[k] = 0
               /\ wire'[k] = "posted" => arrived'[k] = 1
               /\ arrived'[k] \in {0, 1}
               /\ record'[k] = None => wire'[k] = "none"
    BY DEF IInv, SendsOnce
  <2>2. ASSUME NEW v \in Workers, pc'[v] = "dispatch" PROVE wire'[at'[v]] = "none"
    BY <2>2 DEF IInv, SendsOnce, Working
  <2> QED
    BY <2>1, <2>2 DEF IInv, SendsOnce
<1>4. ReviewsOnce'
  BY DEF Reviews
<1>5. ReadsTrue'
  <2>1. ASSUME NEW k \in Jobs, checkpoint'[k] # None
        PROVE  /\ gets'[k] > 0
               /\ checkpoint'[k].lo < checkpoint'[k].last => checkpoint'[k].last \in 1 .. Len(room')
    BY <1>1, <2>1 DEF IInv, ReadsTrue
  <2> QED
    BY <2>1 DEF IInv, ReadsTrue
<1>6. ASSUME NEW k \in Jobs, NEW r \in Records, Backed(k, r) PROVE BackedNext(k, r)
  <2>1. arrived[k] = 1 => arrived'[k] = 1
    BY DEF IInv, SendsOnce
  <2>2. r.verified => r.since + 1 \in 1 .. Len(room') /\ room'[r.since + 1] = k
    <3>1. r.verified => r.since + 1 \in 1 .. Len(room) /\ room[r.since + 1] = k
      BY <1>6 DEF Backed
    <3> QED
      BY <1>1, <3>1
  <2>3. review[k] \in Outcomes => review'[k] = review[k]
    BY DEF Reviews
  <2> QED
    BY <1>6, <2>1, <2>2, <2>3 DEF Backed, BackedNext, Outcomes
<1>7. RecordsBacked'
  <2>1. ASSUME NEW k \in Jobs, record'[k] # None PROVE BackedNext(k, record'[k])
    BY <1>6, <2>1, Functions DEF IInv, RecordsBacked
  <2>2. ASSUME NEW v \in Workers, pc'[v] # "idle" PROVE BackedNext(at'[v], copy'[v])
    BY <1>6, <2>2 DEF IInv, RecordsBacked, Working
  <2> QED
    BY <2>1, <2>2 DEF RecordsBacked, Backed, BackedNext
<1>8. Exclusive'
  <2> SUFFICES ASSUME ~raced
               PROVE  (\A v \in Workers : Holds(v)') /\ (\A k \in Jobs : Told(k)') /\ NothingSkipped'
    BY DEF Exclusive
  <2>1. ASSUME NEW k \in Jobs PROVE Told(k)'
    BY DEF Exclusive, Told
  <2>2. ASSUME NEW v \in Workers PROVE Holds(v)'
    <3> SUFFICES ASSUME pc[v] \notin {"idle", "create"}
                 PROVE  lock'[at'[v]] = v /\ record'[at'[v]] # None /\ Knows(v)'
      BY DEF Holds
    <3>1. lock[at[v]] = v /\ record[at[v]] # None /\ Knows(v) /\ at[v] \in Jobs
      BY DEF Exclusive, Holds, IInv, Working
    <3>2. wire[at[v]] \in {"none", "refused"} => wire'[at[v]] = wire[at[v]]
      BY <3>1
    <3>3. Knows(v)'
      BY <3>1, <3>2 DEF Knows
    <3> QED
      BY <3>1, <3>3
  <2> QED
    BY <2>1, <2>2
<1>9. TerminalKept
  BY DEF TerminalKept
<1> QED
  BY <1>2, <1>3, <1>4, <1>5, <1>7, <1>8, <1>9 DEF IInv

LEMMA SameSkipped ==
    ASSUME IInv, Exclusive, UNCHANGED <<record, cursor, elsewhere, raced>>
    PROVE  ~raced => NothingSkipped'
BY DEF Exclusive, NothingSkipped

LEMMA AnswerStep ==
    ASSUME IInv, Exclusive, NEW j \in Jobs, Accept(j) \/ Refuse(j)
    PROVE  Good
<1>1. /\ UNCHANGED <<record, approval, checkpoint, daves, cursor, pc, at, copy, gets, raced, lock>>
      /\ UNCHANGED <<room, dropped, late, faults, elsewhere>>
      /\ wire[j] = "request"
  BY DEF Accept, Refuse, files, local, history
<1>2. arrived[j] = 0
  BY <1>1 DEF IInv, SendsOnce
<1>3. PICK a \in {"posted", "refused", "lost"} :
         /\ wire' = [wire EXCEPT ![j] = a]
         /\ \/ arrived' = arrived /\ a # "posted"
            \/ Accept(j) /\ a # "refused" /\ arrived' = [arrived EXCEPT ![j] = 1]
  BY <1>2 DEF Accept, Refuse, history
<1>4. \A k \in Jobs :
         \/ wire'[k] = wire[k] /\ arrived'[k] = arrived[k]
         \/ /\ wire[k] = "request" /\ wire'[k] \in {"posted", "refused", "lost"}
            /\ arrived'[k] \in {0, 1}
            /\ wire'[k] = "posted" => arrived'[k] = 1
            /\ wire'[k] = "refused" => arrived'[k] = 0
  BY <1>1, <1>2, <1>3, Functions
<1>5. TypeOK'
  BY <1>1, <1>3, Functions DEF TypeOK, Tasks
<1>6. \A k \in Jobs : arrived[k] = 1 => arrived'[k] = 1
  BY <1>2, <1>3, Functions
<1>7. IInv' /\ Exclusive' /\ TerminalKept
  <2>1. /\ Len(room') \in Nat /\ Len(room) <= Len(room') /\ elsewhere' <= Len(room')
        /\ \A i \in 1 .. Len(room) : room'[i] = room[i]
        /\ \A i \in 1 .. Len(room') : room'[i] \in Jobs => arrived'[room'[i]] = 1
    BY <1>1, <1>6, Functions DEF IInv, ReadsTrue
  <2> QED
    BY <1>1, <1>4, <1>5, <2>1, SameSkipped, SameReviews, WorldStep
<1>8. OneStep
  <2> DEFINE given == {k \in Jobs : approval[k] \notin {"none", "requested"}}
             givenNext == {k \in Jobs : approval'[k] \notin {"none", "requested"}}
  <2>1. givenNext = given
    BY <1>1
  <2>2. j \in given
    BY <1>1 DEF IInv, SendsOnce, Open
  <2> HIDE DEF given, givenNext
  <2>3. CASE arrived' = arrived
    BY <1>1, <2>1, <2>3 DEF OneStep, Exchange!vars, given, givenNext
  <2>4. CASE arrived' = [arrived EXCEPT ![j] = 1]
    <3>1. Exchange!Accept(j)
      BY <1>1, <1>2, <2>1, <2>2, <2>4 DEF Exchange!Accept, given, givenNext
    <3> QED
      BY <3>1 DEF OneStep, Exchange!Next
  <2> QED
    BY <1>3, <2>3, <2>4
<1> QED
  BY <1>7, <1>8 DEF Good

LEMMA QuietExchange ==
    ASSUME UNCHANGED <<approval, arrived, gets>>
    PROVE  OneStep
BY DEF OneStep, Exchange!vars

LEMMA PeerPostsStep ==
    ASSUME IInv, Exclusive, PeerPosts
    PROVE  Good
<1>1. /\ UNCHANGED <<record, approval, checkpoint, daves, cursor, pc, at, copy, gets, raced, lock>>
      /\ UNCHANGED <<wire, dropped, late, faults, arrived, elsewhere>>
  BY DEF PeerPosts, files, local, history
<1>2. PICK m \in {k \in Jobs : arrived[k] > 0} \cup {"junk"} : room' = Append(room, m)
  BY DEF PeerPosts
<1>3. room \in Seq(Jobs \cup {"junk"}) /\ Len(room) \in Nat
  BY Functions
<1>4. /\ Len(room') = Len(room) + 1 /\ room' \in Seq(Jobs \cup {"junk"})
      /\ \A i \in 1 .. Len(room) : room'[i] = room[i]
      /\ room'[Len(room) + 1] = m
  BY <1>2, <1>3
<1>5. TypeOK'
  BY <1>1, <1>4, Functions DEF TypeOK, Tasks
<1>6. ASSUME NEW i \in 1 .. Len(room'), room'[i] \in Jobs PROVE arrived'[room'[i]] = 1
  <2>1. CASE i \in 1 .. Len(room)
    BY <1>1, <1>4, <1>6, <2>1 DEF IInv, ReadsTrue
  <2>2. CASE i = Len(room) + 1
    <3>1. m \in Jobs /\ arrived[m] > 0
      BY <1>4, <1>6, <2>2, OutboundWorkAssumption
    <3>2. arrived[m] \in {0, 1}
      BY <3>1 DEF IInv, SendsOnce
    <3> QED
      BY <1>1, <1>4, <2>2, <3>1, <3>2
  <2> QED
    BY <1>3, <1>4, <2>1, <2>2
<1>7. elsewhere' <= Len(room')
  BY <1>1, <1>3, <1>4, Functions DEF IInv, ReadsTrue
<1>8. Len(room') \in Nat /\ Len(room) <= Len(room')
  BY <1>3, <1>4
<1> QED
  BY <1>1, <1>4, <1>5, <1>6, <1>7, <1>8, SameSkipped, SameReviews, QuietExchange, WorldStep DEF Good

\* What the service drops and which deadlines pass is no business of a record's.
LEMMA QuietStep ==
    ASSUME IInv, Exclusive,
           UNCHANGED <<record, approval, checkpoint, daves, cursor, pc, at, copy, gets, raced, lock>>,
           UNCHANGED <<wire, room, arrived, elsewhere>>,
           dropped' \in Nat, late' \subseteq Jobs, faults' \in 0 .. MaxFaults
    PROVE  Good
<1>1. TypeOK'
  BY Functions DEF TypeOK, Tasks
<1>2. /\ Len(room') \in Nat /\ Len(room) <= Len(room') /\ elsewhere' <= Len(room')
      /\ \A i \in 1 .. Len(room') : room'[i] \in Jobs => arrived'[room'[i]] = 1
  BY Functions DEF IInv, ReadsTrue
<1> QED
  BY <1>1, <1>2, SameSkipped, SameReviews, QuietExchange, WorldStep DEF Good

LEMMA ReadElsewhereStep ==
    ASSUME IInv, Exclusive, ReadElsewhere
    PROVE  Good
<1>1. /\ UNCHANGED <<record, approval, checkpoint, daves, pc, at, copy, gets, raced, lock>>
      /\ UNCHANGED <<wire, room, dropped, late, faults, arrived>>
      /\ cursor' = Len(room) /\ elsewhere' = Len(room)
  BY DEF ReadElsewhere, local, world
<1>2. TypeOK'
  BY <1>1, Functions DEF TypeOK, Tasks
<1>3. /\ Len(room') \in Nat /\ Len(room) <= Len(room') /\ elsewhere' <= Len(room')
      /\ \A i \in 1 .. Len(room') : room'[i] \in Jobs => arrived'[room'[i]] = 1
  BY <1>1, Functions DEF IInv, ReadsTrue
<1>4. NothingSkipped'
  BY <1>1, <1>3 DEF NothingSkipped
<1> QED
  BY <1>1, <1>2, <1>3, <1>4, SameReviews, QuietExchange, WorldStep DEF Good

\* Another process of Dave's: a review that it finds pending was not asked yet.
LEMMA DaveElsewhereStep ==
    ASSUME IInv, Exclusive, DaveElsewhere
    PROVE  Good
<1> DEFINE Kept(k) == /\ review[k] \in Outcomes => review'[k] = review[k]
                      /\ inferred'[k] \in {0, 1}
                      /\ review'[k] \in {"none", "pending", "running"} => inferred'[k] = 0
<1>1. /\ UNCHANGED <<record, approval, checkpoint, cursor, pc, at, copy, gets, raced, lock, dave>>
      /\ UNCHANGED <<wire, room, dropped, late, faults, arrived, elsewhere>>
      /\ dave = None
  BY DEF DaveElsewhere, local, world, history
<1>2. inferred \in [Jobs -> Nat] /\ \A k \in Jobs : inferred[k] \in {0, 1}
  BY Functions DEF IInv, ReviewsOnce
<1>3. review' \in [Jobs -> Tasks] /\ inferred' \in [Jobs -> Nat] /\ \A k \in Jobs : Kept(k)
  <2>1. CASE review' = Recovered /\ UNCHANGED inferred
    BY <1>2, <2>1, Recovery
  <2>2. ASSUME NEW j \in Jobs, Recovered[j] = "pending", NEW t \in Tasks,
               review' = [Recovered EXCEPT ![j] = t],
               inferred' = inferred \/ (inferred' = [inferred EXCEPT ![j] = @ + 1]
                                        /\ t \notin {"none", "pending", "running"})
        PROVE  review' \in [Jobs -> Tasks] /\ inferred' \in [Jobs -> Nat] /\ \A k \in Jobs : Kept(k)
    <3>1. inferred[j] = 0 /\ review[j] \notin Outcomes
      BY <2>2, Recovery DEF Outcomes
    <3>2. /\ review' \in [Jobs -> Tasks] /\ review'[j] = t
          /\ \A k \in Jobs \ {j} : review'[k] = Recovered[k]
      BY <2>2, Recovery
    <3>3. /\ inferred' \in [Jobs -> Nat] /\ inferred'[j] \in {0, 1}
          /\ \A k \in Jobs \ {j} : inferred'[k] = inferred[k]
          /\ inferred'[j] = 0 \/ t \notin {"none", "pending", "running"}
      BY <1>2, <2>2, <3>1
    <3> QED
      BY <1>2, <3>1, <3>2, <3>3, Recovery
  <2>3. \/ review' = Recovered /\ UNCHANGED inferred
        \/ \E j \in Jobs, t \in Tasks :
              /\ Recovered[j] = "pending" /\ review' = [Recovered EXCEPT ![j] = t]
              /\ \/ inferred' = inferred
                 \/ inferred' = [inferred EXCEPT ![j] = @ + 1] /\ t \notin {"none", "pending", "running"}
    BY DEF DaveElsewhere, Tasks, Outcomes
  <2> HIDE DEF Kept
  <2> QED
    BY <2>1, <2>2, <2>3
<1>4. Reviews
  <2>1. ASSUME NEW v \in Workers
        PROVE  /\ pc'[v] \in Reviewing <=> dave' = v
               /\ pc'[v] = "claimed" => review'[at'[v]] = "running"
               /\ pc'[v] = "infer" => review'[at'[v]] = "intended"
               /\ pc'[v] = "verdict" => review'[at'[v]] \in Outcomes
    <3>1. pc[v] \notin Reviewing
      BY <1>1, OutboundWorkAssumption DEF IInv, ReviewsOnce
    <3>2. pc[v] = "verdict" => at[v] \in Jobs /\ review[at[v]] \in Outcomes
      BY DEF IInv, Working, ReviewsOnce
    <3> QED
      BY <1>1, <1>3, <3>1, <3>2, OutboundWorkAssumption DEF Reviewing
  <2> QED
    BY <1>3, <2>1 DEF Reviews, ReviewsOnce
<1>5. TypeOK'
  BY <1>1, <1>3, Functions DEF TypeOK, Tasks
<1>6. /\ Len(room') \in Nat /\ Len(room) <= Len(room') /\ elsewhere' <= Len(room')
      /\ \A i \in 1 .. Len(room') : room'[i] \in Jobs => arrived'[room'[i]] = 1
  BY <1>1, Functions DEF IInv, ReadsTrue
<1> QED
  BY <1>1, <1>4, <1>5, <1>6, SameSkipped, QuietExchange, WorldStep DEF Good

-----------------------------------------------------------------------------
(* The theorems.                                                           *)

LEMMA Initially == Init => IInv /\ Exclusive /\ Exchange!Init
<1> SUFFICES ASSUME Init PROVE IInv /\ Exclusive /\ Exchange!Init
  OBVIOUS
<1>1. TypeOK
  <2>1. "idle" \in Locations /\ 0 \in 0 .. MaxFaults /\ <<>> \in Seq(Jobs \cup {"junk"})
    BY OutboundWorkAssumption DEF Locations
  <2> QED
    BY <2>1 DEF Init, TypeOK
<1>2. Working /\ SendsOnce /\ ReviewsOnce /\ ReadsTrue /\ RecordsBacked
  BY OutboundWorkAssumption DEF Init, Working, SendsOnce, ReviewsOnce, ReadsTrue, RecordsBacked, Past, Open, Reviewing
<1>3. Exclusive
  BY DEF Init, Exclusive, Holds, Told, NothingSkipped
<1>4. Exchange!Init
  BY DEF Init, Exchange!Init
<1> QED
  BY <1>1, <1>2, <1>3, <1>4 DEF IInv

LEMMA NextStep ==
    ASSUME IInv, Exclusive, [Next]_vars
    PROVE  Good
<1>1. CASE UNCHANGED vars
  <2>1. /\ UNCHANGED <<record, approval, checkpoint, daves, cursor, pc, at, copy, gets, raced, lock>>
        /\ UNCHANGED <<wire, room, arrived, elsewhere>>
        /\ dropped' \in Nat /\ late' \subseteq Jobs /\ faults' \in 0 .. MaxFaults
    BY <1>1, Functions DEF vars, files, local, world, history
  <2> QED
    BY <2>1, QuietStep
<1>2. CASE \E w \in Workers : Step(w)
  BY <1>2, StepStep
<1>3. CASE \E w \in Workers, j \in Jobs : Operation(w, j)
  BY <1>3, OperationStep
<1>4. CASE \E j \in Jobs : Accept(j) \/ Refuse(j)
  BY <1>4, AnswerStep
<1>5. CASE Drop \/ \E j \in Jobs : DeadlinePasses(j)
  <2>1. /\ UNCHANGED <<record, approval, checkpoint, daves, cursor, pc, at, copy, gets, raced, lock>>
        /\ UNCHANGED <<wire, room, arrived, elsewhere>>
        /\ dropped' \in Nat /\ late' \subseteq Jobs /\ faults' \in 0 .. MaxFaults
    BY <1>5, Functions DEF Drop, DeadlinePasses, files, local, history
  <2> QED
    BY <2>1, QuietStep
<1>6. CASE PeerPosts
  BY <1>6, PeerPostsStep
<1>7. CASE ReadElsewhere
  BY <1>7, ReadElsewhereStep
<1>8. CASE DaveElsewhere
  BY <1>8, DaveElsewhereStep
<1> QED
  BY <1>1, <1>2, <1>3, <1>4, <1>5, <1>6, <1>7, <1>8 DEF Next

LEMMA Invariance == Spec => [](IInv /\ Exclusive)
<1>1. IInv /\ Exclusive /\ [Next]_vars => (IInv /\ Exclusive)'
  BY NextStep DEF Good
<1> QED
  BY <1>1, Initially, PTL DEF Spec

\* Every variable has its type, whatever dies and whoever takes whose lock.
THEOREM TypeCorrect == Spec => []TypeOK
<1>1. IInv => TypeOK
  BY DEF IInv
<1> QED
  BY <1>1, Invariance, PTL

\* send and the approval's one use: no request is accepted twice; and the record
\* that send, authorize and receive leave is true of the service, unless the lock
\* of a live holder was taken.
THEOREM RecordsTellTheTruth == Spec => []VerdictsAreTrue
<1>1. IInv /\ Exclusive => VerdictsAreTrue
  <2> SUFFICES ASSUME IInv, Exclusive, NEW j \in Jobs
               PROVE  /\ arrived[j] <= 1
                      /\ record[j] # None /\ ~raced =>
                            /\ record[j].state = "DELIVERY_REJECTED" => arrived[j] = 0 /\ wire[j] # "request"
                            /\ record[j].state \in {"PREPARED", "AUTHORIZED"} => arrived[j] = 0
                            /\ record[j].receipt => arrived[j] = 1
    BY DEF VerdictsAreTrue
  <2>1. /\ arrived[j] \in {0, 1}
        /\ wire[j] \in {"none", "request", "refused"} => arrived[j] = 0
    BY DEF IInv, SendsOnce
  <2>2. record[j] # None /\ ~raced =>
           /\ record[j].state = "DELIVERY_REJECTED" => wire[j] \in {"none", "refused"}
           /\ record[j].state \in {"PREPARED", "AUTHORIZED"} => wire[j] = "none"
    BY DEF Exclusive, Told
  <2>3. record[j] # None => (record[j].receipt => arrived[j] = 1)
    BY DEF IInv, RecordsBacked, Backed
  <2> QED
    BY <2>1, <2>2, <2>3
<1> QED
  BY <1>1, Invariance, PTL

\* acknowledge and the linkage written before it: no message between the room and
\* the records is passed over, unless the lock of a live holder was taken.
THEOREM CursorSkipsNothing == Spec => []NothingSkipped
<1>1. Exclusive => NothingSkipped
  BY DEF Exclusive, NothingSkipped
<1> QED
  BY <1>1, Invariance, PTL

\* receive and review: a response on record is the retained answer of the peer,
\* alone in its window, a verdict is what Dave said, and he was asked about it once:
\* a review that is interrupted before the intent may run again, and one behind it
\* does not; also when the lock of a live holder was taken.
THEOREM ResponsesAreBacked == Spec => []ResponseIsBacked
<1>1. IInv => ResponseIsBacked
  BY DEF IInv, ReviewsOnce, RecordsBacked, Backed, ResponseIsBacked
<1> QED
  BY <1>1, Invariance, PTL

\* Every operation tests the state it begins in: no late answer, repetition or
\* restart reopens a job that is at its end.
THEOREM EndsAreFinal == Spec => TerminalStays
<1>1. IInv /\ Exclusive /\ [Next]_vars => [TerminalKept]_vars
  BY NextStep DEF Good
<1>2. [][TerminalKept]_vars => TerminalStays
  BY PTL DEF TerminalStays, TerminalKept
<1> QED
  BY <1>1, <1>2, Invariance, PTL DEF Spec

\* The coordinator implements one exchange: one request under a grant, one read
\* behind its acceptance; until the lock of a live holder is taken.
THEOREM ExchangesOnce == Spec => ImplementsOneExchange
<1>1. IInv /\ Exclusive /\ [Next]_vars => [Exchange!Next \/ raced']_(Exchange!vars)
  BY NextStep DEF Good, OneStep
<1> QED
  BY <1>1, Initially, Invariance, PTL DEF Spec, ImplementsOneExchange

=============================================================================
