---------------------------- MODULE InboxProofs ----------------------------
(***************************************************************************)
(* Proofs about Inbox for any calls, rooms, numbers of messages and        *)
(* mishaps.                                                                *)
(*                                                                         *)
(* As long as no call strayed, a call works on the room it owns, nobody    *)
(* else does, and its window is an interval that starts at the cursor: all *)
(* of it that is not left to do is taken.  As long as nothing was lost,    *)
(* rebound or counted anew, no cursor is ahead of its room, a complete     *)
(* answer begins with the next message, and a message gives one payload.   *)
(***************************************************************************)
EXTENDS Inbox, TLAPS, WellFoundedInduction

Inside == Places \ {"idle", "own"}
Peeked == {"get", "check", "enqueue", "journal", "nestack", "ack"}
Persisting == {"enqueue", "journal", "nestack", "ack"}

\* A call inside owns its room, and shares no room.
Exclusive ==
    /\ \A c \in Calls : pc[c] \in Inside => own[c] \in held[c]
    /\ \A c, d \in Calls : \A r \in Rooms : r \in held[c] /\ r \in held[d] => c = d

\* It observes and persists into that room, from its cursor on.
WindowsOwned ==
    ~strayed => \A c \in Calls :
        /\ pc[c] \in Peeked => win[c].room = own[c] /\ win[c].prev = cursor[own[c]]
        /\ kind[c] = "ingest" /\ pc[c] \in Persisting => into[c] = own[c]

\* A window has no holes.
WindowsWhole ==
    \A c \in Calls : \A p, x \in win[c].seqs : \A q \in Seqs :
        p <= q /\ q <= x => q \in win[c].seqs

\* What lies behind the cursor in the window is taken or left to do.
Progress ==
    \A c \in Calls : kind[c] = "ingest" /\ pc[c] \in Persisting =>
        /\ win[c].first = None \/ win[c].first <= win[c].prev + 1
        /\ win[c].seqs # {} => win[c].first \in win[c].seqs
        /\ todo[c] \subseteq win[c].seqs
        /\ \A q \in win[c].seqs \ todo[c] : Taken(into[c], q)
        /\ pc[c] = "journal" => todo[c] # {} /\ tasks[<<into[c], Min(todo[c])>>] # None
        /\ pc[c] \in {"nestack", "ack"} => todo[c] = {} /\ win[c].seqs # {}

\* Only an intake checks and persists; what it checks begins with the first message.
Checking ==
    \A c \in Calls :
        /\ pc[c] \in {"check", "enqueue", "journal"} => kind[c] = "ingest"
        /\ pc[c] = "check" =>
            \/ win[c].seqs = {} /\ win[c].first = None
            \/ win[c].first \in win[c].seqs

IInv ==
    /\ TypeOK /\ Exclusive /\ WindowsOwned /\ WindowsWhole /\ Progress /\ Checking
    /\ AcknowledgedIsTaken

-----------------------------------------------------------------------------
(* Least and greatest elements *)

Less == {ss \in Nat \X Nat : ss[1] < ss[2]}

LEMMA LessIsWellFounded == IsWellFoundedOn(Less, Nat)
BY NatLessThanWellFounded DEF OpToRel, Less

\* Min is a least element of a nonempty set of natural numbers.
LEMMA MinIsLeast ==
    ASSUME NEW S, S \subseteq Nat, S # {}
    PROVE  Min(S) \in S /\ \A y \in S : Min(S) <= y
<1>1. PICK x \in S : \A y \in S : ~ (<<y, x>> \in Less)
  BY LessIsWellFounded, WFMin
<1>2. \A y \in S : x <= y
  <2> SUFFICES ASSUME NEW y \in S PROVE x <= y
    OBVIOUS
  <2>1. x \in Nat /\ y \in Nat
    OBVIOUS
  <2>2. y < x => <<y, x>> \in Less
    BY <2>1 DEF Less
  <2> QED
    BY <1>1, <2>1, <2>2
<1> QED
  BY <1>2 DEF Min

\* Max is a greatest element of a nonempty bounded set of natural numbers.
LEMMA MaxIsGreatest ==
    ASSUME NEW n \in Nat, NEW S, S \subseteq 0 .. n, S # {}
    PROVE  Max(S) \in S /\ \A y \in S : Max(S) >= y
<1> DEFINE T == {n - y : y \in S}
<1>1. T \subseteq Nat /\ T # {}
  <2>1. \A y \in S : n - y \in Nat
    OBVIOUS
  <2> QED
    BY <2>1
<1>2. Min(T) \in T /\ \A t \in T : Min(T) <= t
  BY <1>1, MinIsLeast
<1>3. PICK x \in S : Min(T) = n - x
  BY <1>2
<1>4. \A y \in S : x >= y
  <2> SUFFICES ASSUME NEW y \in S PROVE x >= y
    OBVIOUS
  <2>1. n - y \in T /\ x \in Nat /\ y \in Nat
    OBVIOUS
  <2>2. n - x <= n - y
    BY <1>2, <1>3, <2>1
  <2> HIDE DEF T
  <2> QED
    BY <2>1, <2>2
<1> QED
  BY <1>4 DEF Max

\* Moving a cursor on: the greater of two numbers.
LEMMA MaxOfTwo ==
    ASSUME NEW a \in Nat, NEW b \in Nat
    PROVE  Max({a, b}) = IF a <= b THEN b ELSE a
<1>1. CASE a <= b
  <2>1. \A x \in {a, b} : (\A y \in {a, b} : x >= y) <=> x = b
    BY <1>1
  <2> QED
    BY <1>1, <2>1 DEF Max
<1>2. CASE ~(a <= b)
  <2>1. \A x \in {a, b} : (\A y \in {a, b} : x >= y) <=> x = a
    BY <1>2
  <2> QED
    BY <1>2, <2>1 DEF Max
<1> QED
  BY <1>1, <1>2

-----------------------------------------------------------------------------
(* Induction *)

\* What holds besides the types.
Rest ==
    /\ Exclusive /\ WindowsOwned /\ WindowsWhole /\ Progress /\ Checking
    /\ AcknowledgedIsTaken

\* A payload is not the missing one.
LEMMA PayloadsAreSome == \A p \in Payloads : p # None
BY InboxAssumption

\* A call that ends takes nothing from the others.
LEMMA Leaving ==
    ASSUME TypeOK, Rest, NEW c \in Calls, NEW reason, Stop(c, reason),
           UNCHANGED <<cursor, tasks, readTo>>, journal \subseteq journal',
           strayed => strayed'
    PROVE  Rest'
<1> USE InboxAssumption DEF Rest, Inside, Peeked, Persisting, Places, Stop, Goto
<1>1. Exclusive'
  BY DEF TypeOK, Exclusive
<1>2. WindowsOwned'
  BY DEF TypeOK, WindowsOwned
<1>3. WindowsWhole'
  BY DEF TypeOK, WindowsWhole, NoWindow
<1>4. Progress'
  BY DEF TypeOK, Progress, Taken
<1>5. Checking'
  BY DEF TypeOK, Checking
<1>6. AcknowledgedIsTaken'
  BY DEF TypeOK, AcknowledgedIsTaken, Taken
<1> QED
  BY <1>1, <1>2, <1>3, <1>4, <1>5, <1>6

\* What the others do changes nothing the calls have read.
LEMMA Apart ==
    ASSUME Rest, UNCHANGED <<cursor, tasks, journal, readTo, strayed, held, local>>
    PROVE  Rest'
BY DEF Rest, local, Exclusive, WindowsOwned, WindowsWhole, Progress, Checking,
    AcknowledgedIsTaken, Taken

\* The initial state satisfies the inductive invariant.
LEMMA Initial == Init => TypeOK /\ Rest
<1> SUFFICES ASSUME Init PROVE TypeOK /\ Rest
  OBVIOUS
<1> USE InboxAssumption
<1>1. /\ MaxSeq \in Nat /\ MaxMishaps \in Nat /\ MaxRuns \in Nat
      /\ 0 \in 0 .. MaxSeq /\ 0 \in 0 .. MaxMishaps /\ 0 \in 0 .. MaxRuns
      /\ 1 \in 1 .. MaxSeq + 1
  OBVIOUS
<1>2. NoWindow \in Windows
  BY <1>1 DEF NoWindow, Windows, Payloads
<1>3. TypeOK
  BY <1>1, <1>2, Zenon DEF Init, TypeOK, Places, Reasons
<1>4. \A r \in Rooms : cursor[r] = 0 /\ readTo[r] = 0
  BY DEF Init
<1>5. \A c \in Calls : pc[c] = "idle" /\ held[c] = {} /\ win[c].seqs = {}
  BY DEF Init, NoWindow
<1>6. Rest
  BY <1>4, <1>5 DEF Rest, Exclusive, WindowsOwned, WindowsWhole, Progress, Checking,
      AcknowledgedIsTaken, Inside, Peeked, Persisting, Places
<1> QED
  BY <1>3, <1>6

\* The types of what belongs to a call.
LocalOK ==
    /\ held \in [Calls -> SUBSET Rooms]
    /\ pc \in [Calls -> Places] /\ kind \in [Calls -> {"ingest", "read"}]
    /\ own \in [Calls -> Rooms] /\ into \in [Calls -> Rooms]
    /\ win \in [Calls -> Windows] /\ todo \in [Calls -> SUBSET Seqs]
    /\ stopped \in Reasons

\* A call that ends keeps them.
LEMMA StopTypes ==
    ASSUME LocalOK, NEW c \in Calls, NEW reason \in Reasons, Stop(c, reason)
    PROVE  LocalOK'
<1>1. NoWindow \in Windows
  BY InboxAssumption DEF NoWindow, Windows, Payloads
<1>2. FirstRoom \in Rooms
  BY InboxAssumption
<1> QED
  BY <1>1, <1>2 DEF LocalOK, Stop, Goto, Places

\* The types of the files, the service and the bounds.
SharedOK ==
    /\ mailbox \in Rooms /\ used \subseteq Rooms
    /\ lowest \in [Rooms -> 1 .. MaxSeq + 1]
    /\ highest \in [Rooms -> 0 .. MaxSeq]
    /\ epoch \in [Rooms -> Nat] /\ context \in Nat
    /\ cursor \in [Rooms -> 0 .. MaxSeq] /\ readTo \in [Rooms -> 0 .. MaxSeq]
    /\ tasks \in [Rooms \X Seqs -> Payloads \cup {None}]
    /\ journal \subseteq Rooms \X Seqs
    /\ torn \in BOOLEAN /\ strayed \in BOOLEAN
    /\ runs \in 0 .. MaxRuns /\ mishaps \in 0 .. MaxMishaps

\* A message that is left to do is one of the room.
LEMMA MinTyped ==
    ASSUME NEW S \in SUBSET Seqs, S # {}
    PROVE  Min(S) \in S /\ Min(S) \in Seqs
<1>1. S \subseteq Nat
  BY InboxAssumption DEF Seqs
<1> QED
  BY <1>1, MinIsLeast

\* What a call acknowledges lies in the room.
LEMMA ThroughTyped ==
    ASSUME LocalOK, NEW c \in Calls, kind[c] = "ingest" => win[c].seqs # {}
    PROVE  Through(c) \in 0 .. MaxSeq
<1>1. win[c].seqs \subseteq 0 .. MaxSeq /\ win[c].last \in 0 .. MaxSeq
  BY InboxAssumption DEF LocalOK, Windows, Seqs
<1> QED
  BY <1>1, MaxIsGreatest, InboxAssumption DEF Through

\* Every step keeps the types.
LEMMA TypesKept == TypeOK /\ Rest /\ [Next]_vars => TypeOK'
<1> SUFFICES ASSUME TypeOK, Rest, [Next]_vars PROVE LocalOK' /\ SharedOK'
  BY DEF TypeOK, LocalOK, SharedOK
<1>d. MaxSeq \in Nat /\ MaxRuns \in Nat /\ MaxMishaps \in Nat
  BY InboxAssumption
<1> USE <1>d DEF Goto, files, service, local, history
<1>0. LocalOK /\ SharedOK
  BY DEF TypeOK, LocalOK, SharedOK
<1>a. SharedOK /\ UNCHANGED <<files, service, history>> => SharedOK'
  BY DEF SharedOK
<1>b. ASSUME SharedOK, UNCHANGED <<files, service, runs, mishaps, readTo>>, NEW c \in Calls, Load(c)
      PROVE  SharedOK'
  BY <1>b DEF SharedOK, Load
<1>c. ASSUME NEW c \in Calls, End(c) PROVE LocalOK'
  BY <1>0, <1>c, StopTypes DEF End, Reasons
<1>1. ASSUME NEW c \in Calls, Begin(c) PROVE LocalOK' /\ SharedOK'
  BY <1>0, <1>1 DEF Begin, Places, LocalOK, SharedOK
<1>2. ASSUME NEW c \in Calls, Own(c) PROVE LocalOK' /\ SharedOK'
  <2>1. LocalOK'
    BY <1>0, <1>2, <1>c DEF Own, Places, LocalOK
  <2> QED
    BY <1>0, <1>2, <1>a, <2>1 DEF Own
<1>3. ASSUME NEW c \in Calls, NEW l \in Places, NEW m \in Places, Nest(c, l, m)
      PROVE  LocalOK' /\ SharedOK'
  <2>1. ASSUME Available(c, mailbox) PROVE LocalOK'
    <3>1. /\ pc' = [pc EXCEPT ![c] = m] /\ held' = [held EXCEPT ![c] = @ \cup {mailbox}]
          /\ UNCHANGED <<kind, own, win, todo, into, stopped>>
      BY <1>3, <2>1 DEF Nest
    <3>2. held[c] \cup {mailbox} \in SUBSET Rooms
      BY <1>0 DEF LocalOK, SharedOK
    <3>3. held' \in [Calls -> SUBSET Rooms] /\ pc' \in [Calls -> Places]
      BY <1>0, <3>1, <3>2 DEF LocalOK
    <3> QED
      BY <1>0, <3>1, <3>3 DEF LocalOK
  <2>2. LocalOK'
    BY <1>3, <1>c, <2>1 DEF Nest
  <2> QED
    BY <1>0, <1>3, <1>b, <2>2 DEF Nest
<1>4. ASSUME NEW c \in Calls, Observe(c) PROVE LocalOK' /\ SharedOK'
  <2>1. win' \in [Calls -> Windows]
    <3>1. win[c] \in Windows /\ mailbox \in Rooms /\ cursor[mailbox] \in 0 .. MaxSeq
      BY <1>0 DEF LocalOK, SharedOK
    <3>2. [[win[c] EXCEPT !.room = mailbox] EXCEPT !.prev = cursor[mailbox]] \in Windows
      BY <3>1 DEF Windows
    <3>3. win' = [win EXCEPT ![c] =
                    [[win[c] EXCEPT !.room = mailbox] EXCEPT !.prev = cursor[mailbox]]]
      BY <1>0, <1>4, <3>1 DEF Observe, LocalOK, Windows
    <3> QED
      BY <1>0, <3>2, <3>3 DEF LocalOK
  <2>2. LocalOK'
    BY <1>0, <1>4, <2>1 DEF Observe, Places, LocalOK
  <2> QED
    BY <1>0, <1>4, <1>b, <2>2 DEF Observe
<1>5. ASSUME NEW c \in Calls, Get(c) PROVE LocalOK' /\ SharedOK'
  <2>1. \A r \in Rooms : \A since \in Nat : Newest(r, since) \in SUBSET Seqs
    BY <1>0 DEF SharedOK, Newest, Seqs
  <2>2. win[c].room \in Rooms /\ win[c].prev \in 0 .. MaxSeq
    BY <1>0 DEF LocalOK, Windows
  <2>3. win' \in [Calls -> Windows]
    <3>1. PICK since \in {0, win[c].prev} :
            win' = [win EXCEPT ![c] =
                      [room |-> win[c].room, prev |-> win[c].prev,
                       first |-> IF Newest(win[c].room, since) = {} THEN None
                                 ELSE Min(Newest(win[c].room, since)),
                       last |-> highest[win[c].room], seqs |-> Newest(win[c].room, since),
                       payload |-> [epoch |-> epoch[win[c].room], context |-> context]]]
      BY <1>5 DEF Get
    <3>2. Newest(win[c].room, since) \in SUBSET Seqs
      BY <2>1, <2>2
    <3>3. Newest(win[c].room, since) # {} => Min(Newest(win[c].room, since)) \in Seqs
      BY <3>2, MinTyped
    <3>4. /\ highest[win[c].room] \in 0 .. MaxSeq /\ epoch[win[c].room] \in Nat
          /\ context \in Nat
      BY <1>0, <2>2 DEF SharedOK
    <3> QED
      BY <1>0, <2>2, <3>1, <3>2, <3>3, <3>4 DEF LocalOK, Windows, Payloads
  <2>4. LocalOK'
    BY <1>0, <1>5, <2>3 DEF Get, Places, LocalOK
  <2> QED
    BY <1>0, <1>5, <1>a, <2>4 DEF Get
<1>6. ASSUME NEW c \in Calls, Refuse(c) \/ NothingNew(c) PROVE LocalOK' /\ SharedOK'
  BY <1>0, <1>6, <1>a, <1>c DEF Refuse, NothingNew
<1>7. ASSUME NEW c \in Calls, Check(c) PROVE LocalOK' /\ SharedOK'
  <2>1. CASE Refusal(win[c]) = "none"
    <3>1. win[c].seqs \in SUBSET Seqs /\ mailbox \in Rooms
      BY <1>0 DEF LocalOK, SharedOK, Windows
    <3>2. LocalOK'
      BY <1>0, <1>7, <2>1, <3>1 DEF Check, Places, LocalOK
    <3> QED
      BY <1>0, <1>7, <1>b, <3>2 DEF Check
  <2>2. CASE Refusal(win[c]) # "none"
    <3>1. Refusal(win[c]) \in Reasons
      BY DEF Refusal, Reasons
    <3> QED
      BY <1>0, <1>7, <1>b, <2>2, <3>1, StopTypes DEF Check
  <2> QED
    BY <2>1, <2>2
<1>8. ASSUME NEW c \in Calls, Enqueue(c) PROVE LocalOK' /\ SharedOK'
  <2>1. LocalOK'
    BY <1>0, <1>8, StopTypes DEF Enqueue, Places, Reasons, LocalOK
  <2>2. tasks' \in [Rooms \X Seqs -> Payloads \cup {None}]
    <3>1. todo[c] \in SUBSET Seqs /\ win[c].payload \in Payloads
      BY <1>0 DEF LocalOK, Windows
    <3> QED
      BY <1>0, <1>8, <3>1 DEF Enqueue, SharedOK
  <2> QED
    BY <1>0, <1>8, <2>1, <2>2 DEF Enqueue, SharedOK
<1>9. ASSUME NEW c \in Calls, Journal(c) PROVE LocalOK' /\ SharedOK'
  <2>1. LocalOK'
    BY <1>0, <1>9, StopTypes DEF Journal, Places, Reasons, LocalOK
  <2>2. todo[c] # {} /\ into[c] \in Rooms /\ todo[c] \in SUBSET Seqs
    BY <1>0, <1>9 DEF Journal, Rest, Progress, Checking, Persisting, LocalOK
  <2>3. <<into[c], Min(todo[c])>> \in Rooms \X Seqs
    BY <2>2, MinTyped
  <2> QED
    BY <1>0, <1>9, <2>1, <2>3 DEF Journal, SharedOK
<1>10. ASSUME NEW c \in Calls, JournalFails(c) \/ Die(c) PROVE LocalOK' /\ SharedOK'
  <2>1. LocalOK'
    BY <1>10, <1>c DEF JournalFails, Die
  <2>2. mishaps' \in 0 .. MaxMishaps
    BY <1>0, <1>10 DEF JournalFails, Die, Mishap, SharedOK
  <2>3. /\ torn' \in BOOLEAN
        /\ UNCHANGED <<mailbox, used, cursor, tasks, journal, service, runs, strayed, readTo>>
    BY <1>0, <1>10 DEF JournalFails, Die, SharedOK
  <2> QED
    BY <1>0, <2>1, <2>2, <2>3 DEF SharedOK
<1>11. ASSUME NEW c \in Calls, Persisted(c) PROVE LocalOK' /\ SharedOK'
  BY <1>0, <1>11, <1>a, <1>c DEF Persisted, Places, LocalOK
<1>12. ASSUME NEW c \in Calls, Advance(c) PROVE LocalOK' /\ SharedOK'
  <2>1. Through(c) \in 0 .. MaxSeq
    BY <1>0, <1>12, ThroughTyped DEF Advance, Rest, Progress, Persisting
  <2>2. \A n \in 0 .. MaxSeq : Max({n, Through(c)}) \in 0 .. MaxSeq
    BY <2>1, MaxOfTwo
  <2>3. cursor' \in [Rooms -> 0 .. MaxSeq] /\ readTo' \in [Rooms -> 0 .. MaxSeq]
    BY <1>0, <1>12, <2>2 DEF Advance, SharedOK
  <2>4. LocalOK'
    BY <1>12, <1>c DEF Advance
  <2> QED
    BY <1>0, <1>12, <2>3, <2>4 DEF Advance, SharedOK, Load
<1>13. ASSUME NEW r \in Rooms, Post(r) \/ Expire(r) \/ Restart(r) PROVE LocalOK' /\ SharedOK'
  <2>1. LocalOK'
    BY <1>0, <1>13 DEF Post, Expire, Restart, LocalOK
  <2>2. SharedOK'
    <3>1. CASE Post(r)
      BY <1>0, <3>1 DEF Post, SharedOK
    <3>2. CASE Expire(r)
      BY <1>0, <3>2 DEF Expire, Mishap, SharedOK
    <3>3. CASE Restart(r)
      BY <1>0, <3>3 DEF Restart, Mishap, SharedOK
    <3> QED
      BY <1>13, <3>1, <3>2, <3>3
  <2> QED
    BY <2>1, <2>2
<1>14. ASSUME Rotate \/ Rebind PROVE LocalOK' /\ SharedOK'
  <2>1. LocalOK'
    BY <1>0, <1>14 DEF Rotate, Rebind, LocalOK
  <2>2. SharedOK'
    BY <1>0, <1>14 DEF Rotate, Rebind, Mishap, SharedOK
  <2> QED
    BY <2>1, <2>2
<1>15. CASE UNCHANGED vars
  BY <1>0, <1>15 DEF vars, LocalOK, SharedOK
<1> QED
  BY <1>1, <1>2, <1>3, <1>4, <1>5, <1>6, <1>7, <1>8, <1>9, <1>10, <1>11, <1>12, <1>13, <1>14,
     <1>15 DEF Next, CallStep, Acknowledge, Places

-----------------------------------------------------------------------------

\* Moving the cursor on: all that comes between is taken.
LEMMA Advancing ==
    ASSUME TypeOK, Rest, NEW c \in Calls, Advance(c)
    PROVE  Rest'
<1> USE DEF Goto
<1> DEFINE t == Through(c)
           r == mailbox
<1>1. /\ pc[c] = "ack" /\ Load(c) /\ End(c)
      /\ cursor' = [cursor EXCEPT ![r] = Max({cursor[r], t})]
      /\ readTo' = IF kind[c] = "read" THEN [readTo EXCEPT ![r] = Max({readTo[r], t})]
                   ELSE readTo
      /\ UNCHANGED <<tasks, journal>>
  BY DEF Advance
<1>2. (strayed => strayed') /\ (~strayed' => r = own[c])
  BY <1>1 DEF Load
<1>3. LocalOK /\ SharedOK /\ MaxSeq \in Nat
  BY InboxAssumption DEF TypeOK, LocalOK, SharedOK
<1>4. kind[c] = "ingest" => win[c].seqs # {}
  BY <1>1 DEF Rest, Progress, Persisting
<1>5. t \in 0 .. MaxSeq
  BY <1>3, <1>4, ThroughTyped
<1>6. r \in Rooms /\ cursor[r] \in 0 .. MaxSeq /\ readTo[r] \in 0 .. MaxSeq
  BY <1>3 DEF SharedOK
<1>7. /\ Max({cursor[r], t}) = IF cursor[r] <= t THEN t ELSE cursor[r]
      /\ Max({readTo[r], t}) = IF readTo[r] <= t THEN t ELSE readTo[r]
  BY <1>5, <1>6, MaxOfTwo
<1>8. ASSUME kind[c] = "ingest", ~strayed', NEW q \in cursor[r] + 1 .. t
      PROVE  Taken(r, q)
  <2>1. /\ win[c].prev = cursor[r] /\ into[c] = r
    BY <1>1, <1>2, <1>8 DEF Rest, WindowsOwned, Peeked, Persisting
  <2>2. /\ win[c].first \in win[c].seqs /\ todo[c] = {}
        /\ win[c].first = None \/ win[c].first <= win[c].prev + 1
        /\ \A x \in win[c].seqs : Taken(r, x)
    BY <1>1, <1>4, <1>8, <2>1 DEF Rest, Progress, Persisting
  <2>3. win[c].seqs \subseteq 0 .. MaxSeq /\ win[c].seqs \subseteq Seqs
    BY <1>3 DEF LocalOK, Windows, Seqs
  <2>4. t \in win[c].seqs
    BY <1>3, <1>4, <1>8, <2>3, MaxIsGreatest DEF Through
  <2>5. win[c].first # None
    BY <2>2, <2>3, InboxAssumption DEF Seqs
  <2>6. q \in Seqs /\ win[c].first <= q /\ q <= t
    <3>1. win[c].first \in Nat /\ win[c].first <= cursor[r] + 1
      BY <2>1, <2>2, <2>3, <2>5 DEF Seqs
    <3> HIDE DEF t, r
    <3> QED
      BY <1>3, <1>5, <1>6, <1>8, <3>1 DEF Seqs
  <2>7. q \in win[c].seqs
    BY <2>2, <2>4, <2>6 DEF Rest, WindowsWhole
  <2> QED
    BY <2>2, <2>7
<1> HIDE DEF t, r
<1>9. /\ pc'[c] = "idle" /\ held'[c] = {} /\ win'[c] = NoWindow /\ kind'[c] = "ingest"
      /\ \A d \in Calls \ {c} :
            /\ pc'[d] = pc[d] /\ held'[d] = held[d] /\ win'[d] = win[d] /\ kind'[d] = kind[d]
            /\ own'[d] = own[d] /\ into'[d] = into[d] /\ todo'[d] = todo[d]
  BY <1>1 DEF End, Stop, TypeOK
<1>10. Exclusive'
  BY <1>9 DEF Rest, Exclusive, Inside, Places
<1>11. WindowsOwned'
  <2> SUFFICES ASSUME ~strayed', NEW d \in Calls \ {c}
               PROVE  /\ pc[d] \in Peeked =>
                            win[d].room = own[d] /\ win[d].prev = cursor'[own[d]]
                      /\ kind[d] = "ingest" /\ pc[d] \in Persisting => into[d] = own[d]
    BY <1>9 DEF WindowsOwned, Peeked, Persisting
  <2>1. CASE pc[d] \in Peeked
    <3>1. own[c] \in held[c] /\ own[d] \in held[d] /\ own[d] \in Rooms /\ own[c] \in Rooms
      BY <1>1, <1>3, <2>1 DEF Rest, Exclusive, Inside, Places, Peeked, LocalOK
    <3>2. own[d] # r
      BY <1>2, <3>1 DEF Rest, Exclusive
    <3>3. cursor'[own[d]] = cursor[own[d]]
      BY <1>1, <1>3, <3>1, <3>2 DEF SharedOK
    <3> QED
      BY <1>2, <3>3 DEF Rest, WindowsOwned
  <2> QED
    BY <2>1 DEF Peeked, Persisting
<1>12. WindowsWhole'
  BY <1>9 DEF Rest, WindowsWhole, NoWindow
<1>13. Progress'
  BY <1>1, <1>9 DEF Rest, Progress, Persisting, Taken
<1>14. Checking'
  BY <1>9 DEF Rest, Checking
<1>15. AcknowledgedIsTaken'
  <2> SUFFICES ASSUME ~strayed', NEW s \in Rooms, NEW q \in readTo'[s] + 1 .. cursor'[s]
               PROVE  Taken(s, q)
    BY <1>1 DEF AcknowledgedIsTaken, Taken
  <2>1. \A p \in readTo[s] + 1 .. cursor[s] : Taken(s, p)
    BY <1>2 DEF Rest, AcknowledgedIsTaken
  <2>2. CASE s # r
    BY <1>1, <1>3, <2>1, <2>2 DEF SharedOK
  <2>3. CASE s = r /\ kind[c] = "read"
    <3>1. /\ cursor'[s] = IF cursor[r] <= t THEN t ELSE cursor[r]
          /\ readTo'[s] = IF readTo[r] <= t THEN t ELSE readTo[r]
      BY <1>1, <1>3, <1>6, <1>7, <2>3 DEF SharedOK
    <3>2. q \in readTo[s] + 1 .. cursor[s]
      BY <1>5, <1>6, <2>3, <3>1
    <3> QED
      BY <2>1, <3>2
  <2>4. CASE s = r /\ kind[c] # "read"
    <3>1. /\ cursor'[s] = IF cursor[r] <= t THEN t ELSE cursor[r]
          /\ readTo'[s] = readTo[r]
      BY <1>1, <1>3, <1>6, <1>7, <2>4 DEF SharedOK
    <3>2. kind[c] = "ingest"
      BY <1>3, <2>4 DEF LocalOK
    <3>3. q \in readTo[s] + 1 .. cursor[s] \/ q \in cursor[r] + 1 .. t
      BY <1>5, <1>6, <2>4, <3>1
    <3> QED
      BY <1>8, <2>1, <2>4, <3>2, <3>3
  <2> QED
    BY <2>2, <2>3, <2>4
<1> QED
  BY <1>10, <1>11, <1>12, <1>13, <1>14, <1>15 DEF Rest

\* Every step of a call preserves the rest.
LEMMA RestKept ==
    ASSUME TypeOK, Rest, NEW c \in Calls, CallStep(c)
    PROVE  Rest'
<1> USE InboxAssumption DEF Goto, files, service, local, history
<1>a. ASSUME NEW reason, Stop(c, reason), UNCHANGED <<cursor, tasks, readTo>>,
             journal \subseteq journal', strayed => strayed'
      PROVE  Rest'
  BY <1>a, Leaving
<1>b. Load(c) => (strayed => strayed') /\ (~strayed' => mailbox = own[c])
  BY DEF Load
<1>c. ASSUME NEW l, pc' = [pc EXCEPT ![c] = l], l \notin Peeked, Exclusive', strayed => strayed',
             UNCHANGED <<kind, own, win, todo, into, cursor, tasks, journal, readTo>>
      PROVE  Rest'
  BY <1>c DEF TypeOK, Rest, WindowsOwned, WindowsWhole, Progress, Checking,
      AcknowledgedIsTaken, Taken, Peeked, Persisting
<1>1. CASE Begin(c)
  BY <1>1 DEF TypeOK, Rest, Begin, Exclusive, WindowsOwned, WindowsWhole, Progress, Checking,
      AcknowledgedIsTaken, Taken, Inside, Peeked, Persisting, Places
<1>2. CASE Own(c)
  <2>1. CASE Available(c, own[c])
    <3>1. /\ pc[c] = "own" /\ pc' = [pc EXCEPT ![c] = "nest"]
          /\ held' = [held EXCEPT ![c] = {own[c]}]
          /\ UNCHANGED <<kind, own, win, todo, into, cursor, tasks, journal, readTo, strayed>>
      BY <1>2, <2>1 DEF Own
    <3>2. Exclusive'
      BY <2>1, <3>1 DEF TypeOK, Rest, Exclusive, Available, Inside, Places
    <3> QED
      BY <1>c, <3>1, <3>2 DEF TypeOK, Persisting, Peeked
  <2> QED
    BY <1>2, <1>a, <2>1 DEF Own, End
<1>3. ASSUME NEW l \in {"nest", "nestack"}, NEW m, m = (IF l = "nest" THEN "observe" ELSE "ack"),
             Nest(c, l, m), l = "nestack" => kind[c] = "ingest" \/ win[c].last > win[c].prev
      PROVE  Rest'
  <2>1. CASE Available(c, mailbox)
    <3>1. /\ pc[c] = l /\ pc' = [pc EXCEPT ![c] = m]
          /\ held' = [held EXCEPT ![c] = @ \cup {mailbox}]
          /\ UNCHANGED <<kind, own, win, todo, into, cursor, tasks, journal, readTo>>
          /\ Load(c)
      BY <1>3, <2>1 DEF Nest
    <3>2. Exclusive'
      <4>1. l \in Inside /\ own[c] \in held[c]
        BY <1>3, <3>1 DEF TypeOK, Rest, Exclusive, Inside, Places
      <4> QED
        BY <2>1, <3>1, <4>1 DEF TypeOK, Rest, Exclusive, Available, Inside, Places
    <3>3. CASE l = "nest"
      BY <1>b, <1>c, <1>3, <3>1, <3>2, <3>3 DEF TypeOK, Persisting, Peeked
    <3>4. CASE l = "nestack"
      <4>1. m = "ack"
        BY <1>3, <3>4
      <4>2. WindowsOwned'
        BY <1>b, <3>1, <3>4, <4>1 DEF TypeOK, Rest, WindowsOwned, Persisting, Peeked
      <4>3. WindowsWhole'
        BY <3>1 DEF Rest, WindowsWhole
      <4>4. Progress'
        BY <3>1, <3>4, <4>1 DEF TypeOK, Rest, Progress, Taken, Persisting
      <4>5. Checking'
        BY <3>1, <3>4, <4>1 DEF TypeOK, Rest, Checking
      <4>6. AcknowledgedIsTaken'
        BY <1>b, <3>1 DEF Rest, AcknowledgedIsTaken, Taken
      <4> QED
        BY <3>2, <4>2, <4>3, <4>4, <4>5, <4>6 DEF Rest
    <3> QED
      BY <1>3, <3>3, <3>4
  <2> QED
    BY <1>3, <1>a, <1>b, <2>1 DEF Nest, End
<1>4. CASE Observe(c)
  <2> DEFINE v == [win[c] EXCEPT !.room = mailbox, !.prev = cursor[mailbox]]
  <2>1. win[c] \in Windows /\ mailbox \in Rooms
    BY DEF TypeOK
  <2>2. /\ v.room = mailbox /\ v.prev = cursor[mailbox]
        /\ v.seqs = win[c].seqs
    BY <2>1 DEF Windows
  <2>3. /\ pc[c] = "observe" /\ pc' = [pc EXCEPT ![c] = "get"]
        /\ win' = [win EXCEPT ![c] = v]
        /\ UNCHANGED <<held, kind, own, todo, into, cursor, tasks, journal, readTo>>
        /\ Load(c)
    BY <1>4 DEF Observe, TypeOK
  <2> HIDE DEF v
  <2>4. Exclusive'
    BY <2>3 DEF TypeOK, Rest, Exclusive, Inside, Places
  <2>5. WindowsOwned'
    BY <1>b, <2>2, <2>3 DEF TypeOK, Rest, WindowsOwned, Persisting, Peeked
  <2>6. WindowsWhole'
    BY <2>2, <2>3 DEF TypeOK, Rest, WindowsWhole
  <2>7. Progress'
    BY <2>2, <2>3 DEF TypeOK, Rest, Progress, Taken, Persisting
  <2>8. Checking'
    BY <2>3 DEF TypeOK, Rest, Checking
  <2>9. AcknowledgedIsTaken'
    BY <1>b, <2>3 DEF Rest, AcknowledgedIsTaken, Taken
  <2> QED
    BY <2>4, <2>5, <2>6, <2>7, <2>8, <2>9 DEF Rest
<1>5. CASE Get(c)
  <2>1. PICK since \in {0, win[c].prev} :
          win' = [win EXCEPT ![c] =
                    [room |-> win[c].room, prev |-> win[c].prev,
                     first |-> IF Newest(win[c].room, since) = {} THEN None
                               ELSE Min(Newest(win[c].room, since)),
                     last |-> highest[win[c].room], seqs |-> Newest(win[c].room, since),
                     payload |-> [epoch |-> epoch[win[c].room], context |-> context]]]
    BY <1>5 DEF Get
  <2> DEFINE new == Newest(win[c].room, since)
  <2>2. /\ win[c].room \in Rooms /\ win[c].prev \in 0 .. MaxSeq /\ since \in Nat
        /\ lowest[win[c].room] \in 1 .. MaxSeq + 1 /\ highest[win[c].room] \in 0 .. MaxSeq
    <3>1. win[c] \in Windows
      BY DEF TypeOK
    <3>2. win[c].room \in Rooms /\ win[c].prev \in 0 .. MaxSeq
      BY <3>1 DEF Windows
    <3> QED
      BY <2>1, <3>2 DEF TypeOK
  <2>3. new \in SUBSET Seqs
    BY <2>2 DEF Newest, Seqs
  <2>4. \A p, x \in new : \A q \in Seqs : p <= q /\ q <= x => q \in new
    BY <2>2 DEF Newest, Seqs
  <2>5. new # {} => Min(new) \in new
    BY <2>3, MinTyped
  <2>6. /\ pc[c] = "get"
        /\ pc' = [pc EXCEPT ![c] = IF kind[c] = "ingest" THEN "check" ELSE "nestack"]
        /\ held' = [held EXCEPT ![c] = {own[c]}]
        /\ UNCHANGED <<kind, own, todo, into, cursor, tasks, journal, readTo, strayed>>
    BY <1>5 DEF Get
  <2>7. /\ win'[c].room = win[c].room /\ win'[c].prev = win[c].prev /\ win'[c].seqs = new
        /\ win'[c].first = IF new = {} THEN None ELSE Min(new)
        /\ \A d \in Calls \ {c} : win'[d] = win[d]
    BY <2>1 DEF TypeOK
  <2> HIDE DEF new
  <2>8. Exclusive'
    <3>1. own[c] \in held[c]
      BY <2>6 DEF Rest, Exclusive, Inside, Places
    <3> QED
      BY <2>6, <3>1 DEF TypeOK, Rest, Exclusive, Inside, Places
  <2>9. WindowsOwned'
    BY <2>6, <2>7 DEF TypeOK, Rest, WindowsOwned, Persisting, Peeked
  <2>10. WindowsWhole'
    BY <2>4, <2>7 DEF Rest, WindowsWhole
  <2>11. Progress'
    BY <2>6, <2>7 DEF TypeOK, Rest, Progress, Taken, Persisting
  <2>12. Checking'
    BY <2>5, <2>6, <2>7 DEF TypeOK, Rest, Checking
  <2>13. AcknowledgedIsTaken'
    BY <2>6 DEF Rest, AcknowledgedIsTaken, Taken
  <2> QED
    BY <2>8, <2>9, <2>10, <2>11, <2>12, <2>13 DEF Rest
<1>6. CASE Refuse(c) \/ NothingNew(c) \/ Die(c)
  BY <1>6, <1>a DEF Refuse, NothingNew, Die, End
<1>7. CASE Check(c)
  <2>1. CASE Refusal(win[c]) # "none"
    BY <1>7, <1>a, <1>b, <2>1 DEF Check
  <2>2. CASE Refusal(win[c]) = "none"
    <3>1. /\ pc[c] = "check" /\ pc' = [pc EXCEPT ![c] = "enqueue"]
          /\ into' = [into EXCEPT ![c] = mailbox] /\ todo' = [todo EXCEPT ![c] = win[c].seqs]
          /\ UNCHANGED <<held, kind, own, win, cursor, tasks, journal, readTo>>
          /\ Load(c)
      BY <1>7, <2>2 DEF Check
    <3>2. win[c].prev \in 0 .. MaxSeq /\ win[c].first \in Seqs \cup {None}
      <4>1. win[c] \in Windows
        BY DEF TypeOK
      <4> QED
        BY <4>1 DEF Windows
    <3>3. win[c].first = None \/ win[c].first <= win[c].prev + 1
      BY <2>2, <3>2 DEF Refusal, Gap, Seqs
    <3>4. Exclusive'
      BY <3>1 DEF TypeOK, Rest, Exclusive, Inside, Places
    <3>5. WindowsOwned'
      BY <1>b, <3>1 DEF TypeOK, Rest, WindowsOwned, Persisting, Peeked
    <3>6. WindowsWhole'
      BY <3>1 DEF Rest, WindowsWhole
    <3>7. Progress'
      BY <3>1, <3>3 DEF TypeOK, Rest, Progress, Checking, Taken, Persisting
    <3>8. Checking'
      BY <3>1 DEF TypeOK, Rest, Checking
    <3>9. AcknowledgedIsTaken'
      BY <1>b, <3>1 DEF Rest, AcknowledgedIsTaken, Taken
    <3> QED
      BY <3>4, <3>5, <3>6, <3>7, <3>8, <3>9 DEF Rest
  <2> QED
    BY <2>1, <2>2
<1>8. CASE Enqueue(c)
  <2> DEFINE k == <<into[c], Min(todo[c])>>
  <2>1. CASE ~SameInput(k, win[c].payload)
    BY <1>8, <1>a, <2>1 DEF Enqueue
  <2>2. CASE SameInput(k, win[c].payload)
    <3>1. /\ pc[c] = "enqueue" /\ todo[c] # {} /\ pc' = [pc EXCEPT ![c] = "journal"]
          /\ tasks' = [tasks EXCEPT ![k] = win[c].payload]
          /\ UNCHANGED <<held, kind, own, win, todo, into, cursor, journal, readTo, strayed>>
      BY <1>8, <2>2 DEF Enqueue
    <3>2. win[c].payload # None
      <4>1. win[c].payload \in Payloads
        BY DEF TypeOK, Windows
      <4> QED
        BY <4>1, PayloadsAreSome
    <3>3. k \in Rooms \X Seqs
      BY <3>1, MinTyped DEF TypeOK
    <3>4. \A r, q : Taken(r, q) => tasks'[<<r, q>>] # None /\ <<r, q>> \in journal'
      <4>1. \A j \in Rooms \X Seqs : tasks[j] # None => tasks'[j] # None
        BY <3>1, <3>2 DEF TypeOK
      <4>2. journal \subseteq Rooms \X Seqs
        BY DEF TypeOK
      <4> QED
        BY <3>1, <4>1, <4>2 DEF Taken
    <3>5. tasks'[k] # None /\ \A j \in Rooms \X Seqs : tasks[j] # None => tasks'[j] # None
      BY <3>1, <3>2, <3>3 DEF TypeOK
    <3> HIDE DEF k
    <3>6. Exclusive'
      BY <3>1 DEF TypeOK, Rest, Exclusive, Inside, Places
    <3>7. WindowsOwned'
      BY <3>1 DEF TypeOK, Rest, WindowsOwned, Persisting, Peeked
    <3>8. WindowsWhole'
      BY <3>1 DEF Rest, WindowsWhole
    <3>9. Progress'
      <4> SUFFICES ASSUME NEW d \in Calls, kind[d] = "ingest", pc'[d] \in Persisting
                   PROVE  /\ win[d].first = None \/ win[d].first <= win[d].prev + 1
                          /\ win[d].seqs # {} => win[d].first \in win[d].seqs
                          /\ todo[d] \subseteq win[d].seqs
                          /\ \A q \in win[d].seqs \ todo[d] : tasks'[<<into[d], q>>] # None /\ <<into[d], q>> \in journal'
                          /\ pc'[d] = "journal" =>
                                todo[d] # {} /\ tasks'[<<into[d], Min(todo[d])>>] # None
                          /\ pc'[d] \in {"nestack", "ack"} => todo[d] = {} /\ win[d].seqs # {}
        BY <3>1 DEF Progress, Taken
      <4>1. pc[d] \in Persisting /\ (d # c => pc'[d] = pc[d]) /\ (d = c => pc'[d] = "journal")
        BY <3>1 DEF TypeOK, Persisting
      <4>2. pc'[d] = "journal" => todo[d] # {} /\ tasks'[<<into[d], Min(todo[d])>>] # None
        <5>1. CASE d = c
          BY <3>1, <3>5, <5>1 DEF k
        <5>2. CASE d # c /\ pc[d] = "journal"
          <6>1. todo[d] # {} /\ tasks[<<into[d], Min(todo[d])>>] # None
            BY <5>2 DEF Rest, Progress, Persisting
          <6>2. <<into[d], Min(todo[d])>> \in Rooms \X Seqs
            BY <6>1, MinTyped DEF TypeOK
          <6> QED
            BY <3>5, <6>1, <6>2
        <5> QED
          BY <4>1, <5>1, <5>2
      <4> QED
        BY <3>4, <4>1, <4>2 DEF Rest, Progress
    <3>10. Checking'
      BY <3>1 DEF TypeOK, Rest, Checking
    <3>11. AcknowledgedIsTaken'
      BY <3>1, <3>4 DEF Rest, AcknowledgedIsTaken, Taken
    <3> QED
      BY <3>6, <3>7, <3>8, <3>9, <3>10, <3>11 DEF Rest
  <2> QED
    BY <2>1, <2>2
<1>9. CASE Journal(c)
  <2> DEFINE k == <<into[c], Min(todo[c])>>
  <2>1. CASE torn
    BY <1>9, <1>a, <2>1 DEF Journal
  <2>2. CASE ~torn
    <3>1. /\ pc[c] = "journal" /\ pc' = [pc EXCEPT ![c] = "enqueue"]
          /\ journal' = journal \cup {k}
          /\ todo' = [todo EXCEPT ![c] = todo[c] \ {Min(todo[c])}]
          /\ UNCHANGED <<held, kind, own, win, into, cursor, tasks, readTo, strayed>>
      BY <1>9, <2>2 DEF Journal
    <3>2. \A r, q : Taken(r, q) => tasks'[<<r, q>>] # None /\ <<r, q>> \in journal'
      BY <3>1 DEF Taken
    <3>3. kind[c] = "ingest"
      BY <3>1 DEF Rest, Checking
    <3>4. tasks'[k] # None /\ k \in journal'
      BY <3>1, <3>3 DEF Rest, Progress, Persisting, Taken
    <3>5. todo'[c] = todo[c] \ {Min(todo[c])} /\ \A d \in Calls \ {c} : todo'[d] = todo[d]
      BY <3>1 DEF TypeOK
    <3>6. pc'[c] = "enqueue" /\ \A d \in Calls \ {c} : pc'[d] = pc[d]
      BY <3>1 DEF TypeOK
    <3> HIDE DEF k
    <3>7. Exclusive'
      BY <3>1 DEF TypeOK, Rest, Exclusive, Inside, Places
    <3>8. WindowsOwned'
      BY <3>1 DEF TypeOK, Rest, WindowsOwned, Persisting, Peeked
    <3>9. WindowsWhole'
      BY <3>1 DEF Rest, WindowsWhole
    <3>10. Progress'
      <4> SUFFICES ASSUME NEW d \in Calls, kind[d] = "ingest", pc'[d] \in Persisting
                   PROVE  /\ win[d].first = None \/ win[d].first <= win[d].prev + 1
                          /\ win[d].seqs # {} => win[d].first \in win[d].seqs
                          /\ todo'[d] \subseteq win[d].seqs
                          /\ \A q \in win[d].seqs \ todo'[d] : tasks'[<<into[d], q>>] # None /\ <<into[d], q>> \in journal'
                          /\ pc'[d] = "journal" =>
                                todo'[d] # {} /\ tasks[<<into[d], Min(todo'[d])>>] # None
                          /\ pc'[d] \in {"nestack", "ack"} => todo'[d] = {} /\ win[d].seqs # {}
        BY <3>1 DEF Progress, Taken
      <4>1. pc[d] \in Persisting
        BY <3>1, <3>6 DEF Persisting
      <4>2. CASE d = c
        BY <3>2, <3>4, <3>5, <3>6, <4>1, <4>2 DEF Rest, Progress, k
      <4>3. CASE d # c
        BY <3>2, <3>5, <3>6, <4>1, <4>3 DEF Rest, Progress
      <4> QED
        BY <4>2, <4>3
    <3>11. Checking'
      BY <3>1, <3>3, <3>6 DEF Rest, Checking
    <3>12. AcknowledgedIsTaken'
      BY <3>1, <3>2 DEF Rest, AcknowledgedIsTaken, Taken
    <3> QED
      BY <3>7, <3>8, <3>9, <3>10, <3>11, <3>12 DEF Rest
  <2> QED
    BY <2>1, <2>2
<1>10. CASE JournalFails(c)
  BY <1>10, <1>a DEF JournalFails, End
<1>11. CASE Persisted(c)
  <2>1. CASE \E q \in win[c].seqs : q > win[c].prev
    <3>1. /\ pc[c] = "enqueue" /\ todo[c] = {} /\ pc' = [pc EXCEPT ![c] = "nestack"]
          /\ UNCHANGED <<held, kind, own, win, todo, into, cursor, tasks, journal, readTo, strayed>>
      BY <1>11, <2>1 DEF Persisted
    <3>2. win[c].seqs # {}
      BY <2>1
    <3>3. Exclusive'
      BY <3>1 DEF TypeOK, Rest, Exclusive, Inside, Places
    <3>4. WindowsOwned'
      BY <3>1 DEF TypeOK, Rest, WindowsOwned, Persisting, Peeked
    <3>5. Progress'
      BY <3>1, <3>2 DEF TypeOK, Rest, Progress, Taken, Persisting
    <3>6. WindowsWhole' /\ Checking' /\ AcknowledgedIsTaken'
      BY <3>1 DEF TypeOK, Rest, WindowsWhole, Checking, AcknowledgedIsTaken, Taken
    <3> QED
      BY <3>3, <3>4, <3>5, <3>6 DEF Rest
  <2> QED
    BY <1>11, <1>a, <2>1 DEF Persisted, End
<1>12. CASE Advance(c)
  BY <1>12, Advancing
<1> QED
  BY <1>1, <1>2, <1>3, <1>4, <1>5, <1>6, <1>7, <1>8, <1>9, <1>10, <1>11, <1>12
  DEF CallStep, Acknowledge

\* Every step preserves the invariant.
LEMMA Inductive == TypeOK /\ Rest /\ [Next]_vars => (TypeOK /\ Rest)'
<1> SUFFICES ASSUME TypeOK, Rest, [Next]_vars PROVE Rest'
  BY TypesKept
<1>1. ASSUME NEW c \in Calls, CallStep(c) PROVE Rest'
  BY <1>1, RestKept
<1>2. ASSUME NEW r \in Rooms, Post(r) \/ Expire(r) \/ Restart(r) PROVE Rest'
  BY <1>2, Apart DEF Post, Expire, Restart, files, history
<1>3. CASE Rotate \/ Rebind
  BY <1>3, Apart DEF Rotate, Rebind, files
<1>4. CASE UNCHANGED vars
  BY <1>4, Apart DEF vars, files, history
<1> QED
  BY <1>1, <1>2, <1>3, <1>4 DEF Next

LEMMA Invariance == Spec => [](TypeOK /\ Rest)
BY Initial, Inductive, PTL DEF Spec

\* The mailbox, cursor, task and journal files and the calls keep their types
\* (agent/runtime.ts, bridge.ts).
THEOREM TypeCorrect == Spec => []TypeOK
BY Invariance, PTL

\* Whatever the cursor leaves behind is a task and in the journal, for any number of
\* calls, rooms, messages, deaths and lost messages, as long as no rotation comes
\* into the middle of a call (persistInbox and acknowledgeInbox).
THEOREM AcknowledgedTaken == Spec => []AcknowledgedIsTaken
<1>1. Rest => AcknowledgedIsTaken
  BY DEF Rest
<1> QED
  BY <1>1, Invariance, PTL

\* No other call moves the cursor between persistInbox's comparison with it and its
\* acknowledgement.
THEOREM WindowCurrent == Spec => []WindowStaysCurrent
<1>1. Rest => WindowStaysCurrent
  BY DEF Rest, WindowsOwned, WindowStaysCurrent, Peeked, Persisting
<1> QED
  BY <1>1, Invariance, PTL

-----------------------------------------------------------------------------
(* Why an intake stops *)

\* No room was emptied and counted anew; the service has all messages and gives them
\* in one answer.
Fresh == \A r \in Rooms : epoch[r] = 0
Complete == \A r \in Rooms : lowest[r] = 1 /\ highest[r] <= Limit

Answered == Peeked \ {"get"}
FirstPayload == [epoch |-> 0, context |-> 0]

\* No cursor is ahead of its room, and no answer behind the cursor it was asked from.
CursorsBehind ==
    ~strayed /\ Fresh =>
        /\ \A r \in Rooms : cursor[r] <= highest[r]
        /\ \A c \in Calls : pc[c] \in Answered =>
            /\ win[c].prev <= win[c].last /\ win[c].last <= highest[win[c].room]
            /\ \A q \in win[c].seqs : q <= win[c].last

\* A complete answer begins with the next message.
AnswersUnbroken ==
    Fresh /\ Complete => \A c \in Calls :
        pc[c] = "check" => win[c].first = None \/ win[c].first <= win[c].prev + 1

\* The same message gives the same payload.
PayloadsAlike ==
    Fresh /\ context = 0 =>
        /\ \A k \in Rooms \X Seqs : tasks[k] \in {None, FirstPayload}
        /\ \A c \in Calls : win[c].payload = FirstPayload

Explained == CursorsBehind /\ AnswersUnbroken /\ PayloadsAlike /\ StopsForAReason

LEMMA ExplainedInitial == Init => Explained
<1> SUFFICES ASSUME Init PROVE Explained
  OBVIOUS
<1>1. CursorsBehind
  BY InboxAssumption DEF Init, CursorsBehind, Answered, Peeked
<1>2. AnswersUnbroken
  BY DEF Init, AnswersUnbroken
<1>3. PayloadsAlike
  BY DEF Init, PayloadsAlike, NoWindow, FirstPayload
<1>4. StopsForAReason
  BY DEF Init, StopsForAReason
<1> QED
  BY <1>1, <1>2, <1>3, <1>4 DEF Explained

\* What once was a reason stays one.
LEMMA ReasonsStay ==
    ASSUME TypeOK, [Next]_vars
    PROVE  /\ strayed => strayed'
           /\ torn => torn'
           /\ Fresh' => Fresh /\ \A r \in Rooms : highest[r] <= highest'[r]
           /\ Fresh' /\ Complete' => Complete
           /\ context' = 0 => context = 0
<1> USE InboxAssumption DEF files, service, local, history, vars
<1>0. /\ lowest \in [Rooms -> 1 .. MaxSeq + 1] /\ highest \in [Rooms -> 0 .. MaxSeq]
      /\ epoch \in [Rooms -> Nat] /\ context \in Nat
  BY DEF TypeOK
<1>1. strayed => strayed'
  BY DEF Next, CallStep, Begin, Own, Nest, Observe, Get, Refuse, Check, Enqueue, Journal,
     JournalFails, Persisted, NothingNew, Acknowledge, Advance, Die, Load, Post, Expire,
     Restart, Rotate, Rebind
<1>2. torn => torn'
  BY DEF Next, CallStep, Begin, Own, Nest, Observe, Get, Refuse, Check, Enqueue, Journal,
     JournalFails, Persisted, NothingNew, Acknowledge, Advance, Die, Load, Post, Expire,
     Restart, Rotate, Rebind
<1>3. CASE \E c \in Calls : CallStep(c)
  <2>1. UNCHANGED service
    BY <1>3 DEF CallStep, Begin, Own, Nest, Observe, Get, Refuse, Check, Enqueue, Journal,
       JournalFails, Persisted, NothingNew, Acknowledge, Advance, Die
  <2> QED
    BY <1>0, <1>1, <1>2, <2>1 DEF Fresh, Complete
<1>4. ASSUME NEW r \in Rooms, Post(r)
      PROVE  /\ Fresh' => Fresh /\ \A s \in Rooms : highest[s] <= highest'[s]
             /\ Complete' => Complete
             /\ context' = context
  BY <1>0, <1>4 DEF Post, Fresh, Complete
<1>5. ASSUME NEW r \in Rooms, Expire(r)
      PROVE  /\ Fresh' => Fresh /\ \A s \in Rooms : highest[s] <= highest'[s]
             /\ Complete' => Complete
             /\ context' = context
  BY <1>0, <1>5 DEF Expire, Fresh, Complete
<1>6. ASSUME NEW r \in Rooms, Restart(r) PROVE ~Fresh' /\ context' = context
  BY <1>0, <1>6 DEF Restart, Fresh
<1>7. CASE Rotate \/ Rebind
  BY <1>0, <1>1, <1>2, <1>7 DEF Rotate, Rebind, Fresh, Complete
<1>8. CASE UNCHANGED vars
  BY <1>0, <1>8 DEF Fresh, Complete
<1> QED
  <2>1. CASE \E r \in Rooms : Post(r) \/ Expire(r) \/ Restart(r)
    <3>1. PICK r \in Rooms : Post(r) \/ Expire(r) \/ Restart(r)
      BY <2>1
    <3>2. /\ Fresh' => Fresh /\ \A s \in Rooms : highest[s] <= highest'[s]
          /\ Fresh' /\ Complete' => Complete
          /\ context' = context
      <4>1. CASE Post(r)
        BY <1>4, <4>1
      <4>2. CASE Expire(r)
        BY <1>5, <4>2
      <4>3. CASE Restart(r)
        BY <1>6, <4>3
      <4> QED
        BY <3>1, <4>1, <4>2, <4>3
    <3> QED
      BY <1>1, <1>2, <3>2
  <2> QED
    BY <1>3, <1>7, <1>8, <2>1 DEF Next

\* The payload of a new window, and of a new task, is that of the others.
LEMMA AlikeKept ==
    ASSUME TypeOK, Rest, Explained, [Next]_vars, Fresh', context' = 0
    PROVE  PayloadsAlike'
<1> USE InboxAssumption DEF files, service, local, history, vars
<1>0. Fresh /\ context = 0 /\ PayloadsAlike
  BY ReasonsStay DEF Explained
<1>1. \A r \in Rooms : epoch[r] = 0
  BY <1>0 DEF Fresh
<1>2. /\ \A k \in Rooms \X Seqs : tasks[k] \in {None, FirstPayload}
      /\ \A c \in Calls : win[c].payload = FirstPayload
  BY <1>0 DEF PayloadsAlike
<1>3. \A d \in Calls : win'[d].payload = FirstPayload
  <2>1. ASSUME NEW c \in Calls, NEW reason, Stop(c, reason) PROVE \A d \in Calls : win'[d].payload = FirstPayload
    BY <1>2, <2>1 DEF Stop, TypeOK, NoWindow, FirstPayload
  <2>2. ASSUME NEW c \in Calls, CallStep(c) PROVE \A d \in Calls : win'[d].payload = FirstPayload
    <3>1. CASE Get(c)
      <4>1. win[c].room \in Rooms
        BY DEF TypeOK, Windows
      <4>2. win'[c].payload = [epoch |-> epoch[win[c].room], context |-> context]
        BY <3>1 DEF Get, TypeOK
      <4>3. \A d \in Calls \ {c} : win'[d] = win[d]
        BY <3>1 DEF Get, TypeOK
      <4> QED
        BY <1>0, <1>1, <1>2, <4>1, <4>2, <4>3 DEF FirstPayload
    <3>2. CASE Observe(c)
      <4>1. win[c] \in Windows /\ win \in [Calls -> Windows]
        BY DEF TypeOK
      <4>2. win'[c].payload = win[c].payload /\ \A d \in Calls \ {c} : win'[d] = win[d]
        BY <3>2, <4>1 DEF Observe, Windows
      <4> QED
        BY <1>2, <4>2
    <3>3. CASE UNCHANGED win
      BY <1>2, <3>3
    <3> QED
      BY <2>1, <2>2, <3>1, <3>2, <3>3 DEF CallStep, Begin, Own, Nest, Refuse, Check, Enqueue,
         Journal, JournalFails, Persisted, NothingNew, Acknowledge, Advance, Die, End
  <2> QED
    BY <1>2, <2>2 DEF Next, Post, Expire, Restart, Rotate, Rebind
<1>4. \A k \in Rooms \X Seqs : tasks'[k] \in {None, FirstPayload}
  <2>1. ASSUME NEW c \in Calls, Enqueue(c) PROVE \A k \in Rooms \X Seqs : tasks'[k] \in {None, FirstPayload}
    BY <1>2, <2>1 DEF Enqueue, TypeOK
  <2>2. ASSUME NEW c \in Calls, CallStep(c) PROVE Enqueue(c) \/ UNCHANGED tasks
    BY <2>2 DEF CallStep, Begin, Own, Nest, Refuse, Check, Get, Observe,
         Journal, JournalFails, Persisted, NothingNew, Acknowledge, Advance, Die
  <2> QED
    BY <1>2, <2>1, <2>2 DEF Next, Post, Expire, Restart, Rotate, Rebind
<1> QED
  BY <1>3, <1>4 DEF PayloadsAlike

\* An answer of a service that has every message begins where it was asked from.
LEMMA UnbrokenKept ==
    ASSUME TypeOK, Rest, Explained, [Next]_vars, Fresh', Complete'
    PROVE  AnswersUnbroken'
<1> USE InboxAssumption DEF files, service, local, history, vars
<1>0. Fresh /\ Complete /\ AnswersUnbroken
  BY ReasonsStay DEF Explained
<1> DEFINE Unbroken(w) == w.first = None \/ w.first <= w.prev + 1
<1>1. \A d \in Calls : pc[d] = "check" => Unbroken(win[d])
  BY <1>0 DEF AnswersUnbroken
<1>2. ASSUME NEW c \in Calls, Get(c) PROVE Unbroken(win'[c])
  <2>1. PICK since \in {0, win[c].prev} :
          win' = [win EXCEPT ![c] =
                    [room |-> win[c].room, prev |-> win[c].prev,
                     first |-> IF Newest(win[c].room, since) = {} THEN None
                               ELSE Min(Newest(win[c].room, since)),
                     last |-> highest[win[c].room], seqs |-> Newest(win[c].room, since),
                     payload |-> [epoch |-> epoch[win[c].room], context |-> context]]]
    BY <1>2 DEF Get
  <2> DEFINE new == Newest(win[c].room, since)
  <2>2. win[c].room \in Rooms /\ win[c].prev \in 0 .. MaxSeq
    BY DEF TypeOK, Windows
  <2>3. highest[win[c].room] \in 0 .. MaxSeq
    BY <2>2 DEF TypeOK
  <2>4. lowest[win[c].room] = 1 /\ highest[win[c].room] <= Limit
    BY <1>0, <2>2 DEF Complete
  <2>5. new = {q \in 1 .. highest[win[c].room] : q > since}
    BY <2>2, <2>3, <2>4 DEF Newest
  <2>6. new # {} => Min(new) <= since + 1
    <3> SUFFICES ASSUME new # {} PROVE Min(new) <= since + 1
      OBVIOUS
    <3>1. since + 1 \in new
      BY <2>2, <2>3, <2>5
    <3>2. new \subseteq Nat
      BY <2>3, <2>5
    <3> HIDE DEF new
    <3> QED
      BY <3>1, <3>2, MinIsLeast
  <2>7. new # {} => Min(new) \in Nat
    <3>1. new \subseteq Nat
      BY <2>3, <2>5
    <3> HIDE DEF new
    <3> QED
      BY <3>1, MinIsLeast
  <2>8. win'[c].prev = win[c].prev /\ win'[c].first = IF new = {} THEN None ELSE Min(new)
    BY <2>1 DEF TypeOK
  <2> HIDE DEF new
  <2> QED
    BY <2>1, <2>2, <2>6, <2>7, <2>8
<1>3. ASSUME NEW c \in Calls, CallStep(c), NEW d \in Calls, pc'[d] = "check"
      PROVE  (d = c /\ Get(c)) \/ (pc[d] = "check" /\ win'[d] = win[d])
  BY <1>3 DEF CallStep, Begin, Own, Nest, Refuse, Check, Get, Observe, Enqueue,
         Journal, JournalFails, Persisted, NothingNew, Acknowledge, Advance, Die, End, Stop, Goto, TypeOK
<1>4. ASSUME UNCHANGED <<pc, win>> PROVE AnswersUnbroken'
  BY <1>1, <1>4 DEF AnswersUnbroken
<1>5. ASSUME NEW c \in Calls, CallStep(c) PROVE AnswersUnbroken'
  BY <1>1, <1>2, <1>3, <1>5 DEF AnswersUnbroken
<1> QED
  BY <1>4, <1>5 DEF Next, Post, Expire, Restart, Rotate, Rebind

\* A window's numbers.
LEMMA WindowTyped ==
    ASSUME TypeOK, NEW c \in Calls
    PROVE  /\ win[c].prev \in Nat /\ win[c].last \in Nat /\ win[c].room \in Rooms
           /\ win[c].seqs \subseteq 0 .. MaxSeq
BY InboxAssumption DEF TypeOK, Windows, Seqs

\* An answer does not end before the cursor, nor after the last message of its room.
LEMMA BehindKept ==
    ASSUME TypeOK, Rest, Explained, [Next]_vars, ~strayed', Fresh'
    PROVE  CursorsBehind'
<1> USE InboxAssumption DEF files, service, local, history, vars
<1>0. /\ ~strayed /\ Fresh /\ CursorsBehind /\ WindowsOwned
      /\ \A r \in Rooms : highest[r] <= highest'[r]
  BY ReasonsStay DEF Explained, Rest
<1>t. TypeOK'
  BY TypesKept
<1> DEFINE Fits(w) == /\ w.prev <= w.last /\ w.last <= highest[w.room]
                      /\ \A q \in w.seqs : q <= w.last
<1>1. \A r \in Rooms : cursor[r] <= highest[r]
  BY <1>0 DEF CursorsBehind
<1>2. \A d \in Calls : pc[d] \in Answered => Fits(win[d])
  BY <1>0 DEF CursorsBehind
<1>r. \A r \in Rooms : /\ highest[r] \in Nat /\ highest'[r] \in Nat /\ cursor[r] \in Nat
                       /\ cursor'[r] \in Nat
  BY <1>t DEF TypeOK
<1>3. ASSUME NEW c \in Calls, Advance(c) PROVE \A r \in Rooms : cursor'[r] <= highest[r]
  <2>1. mailbox = own[c] /\ mailbox \in Rooms
    BY <1>3 DEF Advance, Load, TypeOK
  <2>2. win[c].room = own[c] /\ pc[c] \in Answered
    BY <1>0, <1>3 DEF Advance, WindowsOwned, Peeked, Answered
  <2>3. Fits(win[c])
    BY <1>2, <2>2
  <2>4. Through(c) <= highest[mailbox] /\ Through(c) \in Nat
    <3>1. CASE kind[c] = "ingest"
      <4>1. win[c].seqs # {} /\ win[c].seqs \subseteq 0 .. MaxSeq
        BY <1>3, <3>1, WindowTyped DEF Advance, Rest, Progress, Persisting
      <4>2. Max(win[c].seqs) \in win[c].seqs
        BY <4>1, MaxIsGreatest
      <4>3. /\ Max(win[c].seqs) \in Nat /\ Max(win[c].seqs) <= win[c].last
            /\ win[c].last <= highest[mailbox]
        BY <2>1, <2>2, <2>3, <4>1, <4>2
      <4> QED
        BY <1>r, <2>1, <3>1, <4>3, WindowTyped DEF Through
    <3>2. CASE kind[c] # "ingest"
      BY <2>1, <2>2, <2>3, <3>2, WindowTyped DEF Through
    <3> QED
      BY <3>1, <3>2
  <2>5. Max({cursor[mailbox], Through(c)}) <= highest[mailbox]
    BY <1>1, <1>r, <2>1, <2>4, MaxOfTwo
  <2>6. cursor' = [cursor EXCEPT ![mailbox] = Max({cursor[mailbox], Through(c)})]
    BY <1>3 DEF Advance
  <2> QED
    BY <1>1, <2>5, <2>6 DEF TypeOK
<1>4. ASSUME NEW c \in Calls, Get(c) PROVE Fits(win'[c])
  <2>1. PICK since \in {0, win[c].prev} :
          win' = [win EXCEPT ![c] =
                    [room |-> win[c].room, prev |-> win[c].prev,
                     first |-> IF Newest(win[c].room, since) = {} THEN None
                               ELSE Min(Newest(win[c].room, since)),
                     last |-> highest[win[c].room], seqs |-> Newest(win[c].room, since),
                     payload |-> [epoch |-> epoch[win[c].room], context |-> context]]]
    BY <1>4 DEF Get
  <2>2. win[c].room \in Rooms /\ highest[win[c].room] \in Nat
    BY <1>r, WindowTyped
  <2>3. \A q \in Newest(win[c].room, since) : q <= highest[win[c].room]
    <3>1. lowest[win[c].room] \in Nat
      BY <2>2 DEF TypeOK
    <3> QED
      BY <2>2, <3>1 DEF Newest
  <2>4. win[c].prev = cursor[win[c].room]
    BY <1>0, <1>4 DEF Get, WindowsOwned, Peeked
  <2>5. /\ win'[c].prev = win[c].prev /\ win'[c].last = highest[win[c].room]
        /\ win'[c].room = win[c].room /\ win'[c].seqs = Newest(win[c].room, since)
    BY <2>1 DEF TypeOK
  <2> QED
    BY <1>1, <2>2, <2>3, <2>4, <2>5
<1>5. ASSUME NEW c \in Calls, CallStep(c), NEW d \in Calls, pc'[d] \in Answered
      PROVE  (d = c /\ Get(c)) \/ (pc[d] \in Answered /\ win'[d] = win[d])
  BY <1>5 DEF CallStep, Begin, Own, Nest, Refuse, Check, Get, Observe, Enqueue,
         Journal, JournalFails, Persisted, NothingNew, Acknowledge, Advance, Die, End, Stop, Goto,
         TypeOK, Answered, Peeked
<1>6. ASSUME NEW c \in Calls, CallStep(c)
      PROVE  (\A r \in Rooms : cursor'[r] <= highest[r]) /\ UNCHANGED highest
  <2>1. (Advance(c) \/ UNCHANGED cursor) /\ UNCHANGED highest
    BY <1>6 DEF CallStep, Begin, Own, Nest, Refuse, Check, Get, Observe, Enqueue,
         Journal, JournalFails, Persisted, NothingNew, Acknowledge, Advance, Die
  <2> QED
    BY <1>1, <1>3, <2>1
<1>7. ASSUME UNCHANGED <<pc, win, cursor>> PROVE CursorsBehind'
  <2>1. \A r \in Rooms : cursor'[r] <= highest'[r]
    BY <1>0, <1>1, <1>7, <1>r
  <2>2. ASSUME NEW d \in Calls, pc'[d] \in Answered
        PROVE  win'[d].prev <= win'[d].last /\ win'[d].last <= highest'[win'[d].room]
               /\ \A q \in win'[d].seqs : q <= win'[d].last
    <3>1. Fits(win[d]) /\ win'[d] = win[d] /\ win[d].room \in Rooms /\ win[d].last \in Nat
      BY <1>2, <1>7, <2>2, WindowTyped
    <3> QED
      BY <1>0, <1>r, <3>1
  <2> QED
    BY <2>1, <2>2 DEF CursorsBehind
<1>8. ASSUME NEW c \in Calls, CallStep(c) PROVE CursorsBehind'
  <2>1. ASSUME NEW d \in Calls, pc'[d] \in Answered
        PROVE  win'[d].prev <= win'[d].last /\ win'[d].last <= highest'[win'[d].room]
               /\ \A q \in win'[d].seqs : q <= win'[d].last
    <3>1. Fits(win'[d])
      BY <1>2, <1>4, <1>5, <1>8, <2>1
    <3> QED
      BY <1>6, <1>8, <3>1
  <2>2. \A r \in Rooms : cursor'[r] <= highest'[r]
    BY <1>6, <1>8
  <2> QED
    BY <2>1, <2>2 DEF CursorsBehind
<1> QED
  BY <1>7, <1>8 DEF Next, Post, Expire, Restart, Rotate, Rebind

\* Each reason that is given is one.
LEMMA ReasonsGiven ==
    ASSUME TypeOK, Rest, Explained, [Next]_vars
    PROVE  StopsForAReason'
<1> USE InboxAssumption DEF files, service, local, history, vars
<1>s. /\ strayed => strayed'
      /\ torn => torn'
      /\ Fresh' => Fresh
      /\ Fresh' /\ Complete' => Complete
      /\ context' = 0 => context = 0
  BY ReasonsStay
<1>t. TypeOK /\ TypeOK'
  BY TypesKept
<1>n. \A r \in Rooms : epoch[r] \in Nat /\ lowest[r] \in 1 .. MaxSeq + 1 /\ highest[r] \in Nat
  BY DEF TypeOK
<1>m. \A r \in Rooms : epoch'[r] \in Nat /\ lowest'[r] \in 1 .. MaxSeq + 1 /\ highest'[r] \in Nat
  BY <1>t DEF TypeOK
<1>1. StopsForAReason <=>
        /\ stopped = "stale" => strayed
        /\ stopped = "epoch" => strayed \/ ~Fresh
        /\ stopped = "gap" => strayed \/ ~Fresh \/ ~Complete
        /\ stopped = "conflict" => strayed \/ ~Fresh \/ context > 0
        /\ stopped = "corrupt" => torn
  BY <1>n DEF StopsForAReason, Fresh, Complete
<1>2. StopsForAReason' <=>
        /\ stopped' = "stale" => strayed'
        /\ stopped' = "epoch" => strayed' \/ ~Fresh'
        /\ stopped' = "gap" => strayed' \/ ~Fresh' \/ ~Complete'
        /\ stopped' = "conflict" => strayed' \/ ~Fresh' \/ context' > 0
        /\ stopped' = "corrupt" => torn'
  BY <1>m DEF StopsForAReason, Fresh, Complete
<1>3. CASE UNCHANGED stopped \/ stopped' = "none"
  <2>1. context \in Nat /\ context' \in Nat
    BY <1>t DEF TypeOK
  <2> QED
    BY <1>1, <1>2, <1>3, <1>s, <2>1 DEF Explained
<1>4. ASSUME NEW c \in Calls, Check(c), Stop(c, Refusal(win[c])), Refusal(win[c]) # "none"
      PROVE  StopsForAReason'
  <2>1. stopped' = Refusal(win[c]) /\ strayed' = (strayed \/ mailbox # own[c]) /\ pc[c] = "check"
    BY <1>4 DEF Check, Stop, Load
  <2>2. win[c].prev \in Nat /\ win[c].last \in Nat
    BY WindowTyped
  <2>3. CASE strayed'
    BY <1>2, <2>1, <2>3 DEF Refusal
  <2>4. CASE ~strayed'
    <3>1. cursor[mailbox] = win[c].prev
      BY <1>s, <2>1, <2>4 DEF Rest, WindowsOwned, Peeked
    <3>2. win[c].last < win[c].prev => ~Fresh'
      BY <1>s, <2>1, <2>2, <2>4 DEF Explained, CursorsBehind, Answered, Peeked
    <3>3. Gap(win[c]) => ~Fresh' \/ ~Complete'
      <4>1. CASE ~(Fresh' /\ Complete')
        BY <4>1
      <4>2. CASE Fresh' /\ Complete'
        <5>1. win[c].first = None \/ win[c].first <= win[c].prev + 1
          BY <1>s, <2>1, <4>2 DEF Explained, AnswersUnbroken
        <5>2. win[c].first \in Nat \cup {None}
          BY DEF TypeOK, Windows, Seqs
        <5> QED
          BY <2>2, <5>1, <5>2 DEF Gap
      <4> QED
        BY <4>1, <4>2
    <3> QED
      BY <1>2, <2>1, <3>1, <3>2, <3>3 DEF Refusal
  <2> QED
    BY <2>3, <2>4
<1>5. ASSUME NEW c \in Calls, Enqueue(c), Stop(c, "conflict"),
             ~SameInput(<<into[c], Min(todo[c])>>, win[c].payload)
      PROVE  StopsForAReason'
  <2>1. stopped' = "conflict" /\ UNCHANGED <<epoch, context>> /\ todo[c] # {}
    BY <1>5 DEF Enqueue, Stop
  <2>2. <<into[c], Min(todo[c])>> \in Rooms \X Seqs
    BY <2>1, MinTyped DEF TypeOK
  <2>3. ~(Fresh /\ context = 0)
    <3> SUFFICES ASSUME Fresh, context = 0 PROVE FALSE
      OBVIOUS
    <3>1. /\ \A k \in Rooms \X Seqs : tasks[k] \in {None, FirstPayload}
          /\ win[c].payload = FirstPayload
      BY DEF Explained, PayloadsAlike
    <3> QED
      BY <1>5, <2>2, <3>1 DEF SameInput
  <2>4. context' \in Nat
    BY <1>t DEF TypeOK
  <2> QED
    BY <1>2, <1>s, <2>1, <2>3, <2>4
<1>6. ASSUME NEW c \in Calls, Journal(c), torn, Stop(c, "corrupt") PROVE StopsForAReason'
  BY <1>2, <1>6, <1>s DEF Stop
<1>7. ASSUME NEW c \in Calls, CallStep(c) PROVE StopsForAReason'
  <2>1. CASE Check(c) \/ Enqueue(c) \/ Journal(c)
    BY <1>3, <1>4, <1>5, <1>6, <2>1 DEF Check, Enqueue, Journal
  <2>2. CASE ~(Check(c) \/ Enqueue(c) \/ Journal(c))
    BY <1>3, <1>7, <2>2 DEF CallStep, Begin, Own, Nest, Refuse, Get, Observe,
       JournalFails, Persisted, NothingNew, Acknowledge, Advance, Die, End, Stop
  <2> QED
    BY <2>1, <2>2
<1> QED
  BY <1>3, <1>7 DEF Next, Post, Expire, Restart, Rotate, Rebind

LEMMA ExplainedInvariance == Spec => []Explained
<1>1. TypeOK /\ Rest /\ Explained /\ [Next]_vars => Explained'
  <2> SUFFICES ASSUME TypeOK, Rest, Explained, [Next]_vars PROVE Explained'
    OBVIOUS
  <2>1. CursorsBehind'
    BY BehindKept DEF CursorsBehind
  <2>2. AnswersUnbroken'
    BY UnbrokenKept DEF AnswersUnbroken
  <2>3. PayloadsAlike'
    BY AlikeKept DEF PayloadsAlike
  <2>4. StopsForAReason'
    BY ReasonsGiven
  <2> QED
    BY <2>1, <2>2, <2>3, <2>4 DEF Explained
<1> QED
  BY <1>1, ExplainedInitial, Invariance, PTL DEF Spec

\* An intake is refused only for something that really changed: the service lost
\* messages or counts anew, a contact was rebound, an append failed half-way or the
\* mailbox was rotated meanwhile; no death and no other call makes the intake's own
\* comparisons fail (persistInbox, LocalState.enqueue, ActivityJournal.append).
THEOREM StopsHaveReasons == Spec => []StopsForAReason
<1>1. Explained => StopsForAReason
  BY DEF Explained
<1> QED
  BY <1>1, ExplainedInvariance, PTL

=============================================================================
