------------------------------- MODULE Inbox -------------------------------
(***************************************************************************)
(* Receiving: AgentRuntime.ingestInbox with persistInbox, and the bridge's *)
(* readInbox, peekInbox and acknowledgeInbox, on the mailbox, cursor, task *)
(* and journal files (bridge.ts, cursors.ts, mailboxes.ts, context.ts,     *)
(* swarm/mailbox-owner.ts, agent/runtime.ts).                              *)
(*                                                                         *)
(* The mailbox file names one room at a time.  Every step that needs the   *)
(* room loads the file again; a call owns the room it loaded first, and    *)
(* for the time of a nested operation the one it finds then.  A rotation   *)
(* takes the lock of the mailbox file only.                                *)
(***************************************************************************)
EXTENDS Integers, FiniteSets, FiniteSetsExt

CONSTANTS
    Calls,       \* calls of ingestInbox and readInbox
    Rooms,       \* the room of a mailbox and its replacements
    FirstRoom,
    MaxSeq,      \* bound on the messages of a room
    Limit,       \* messages in one answer
    MaxRuns,     \* bound on the calls begun
    MaxMishaps,  \* bound on deaths, failed appends, rotations and changes of the service
    None

Seqs == 1 .. MaxSeq
Payloads == [epoch : Nat, context : Nat]

ASSUME InboxAssumption ==
    /\ FirstRoom \in Rooms
    /\ MaxSeq \in Nat /\ Limit \in Nat \ {0} /\ MaxRuns \in Nat /\ MaxMishaps \in Nat
    /\ None \notin Calls \cup Rooms \cup Nat \cup Payloads

VARIABLES
    mailbox,   \* the room in the mailbox file
    used,      \* the rooms it has named
    lowest, highest,  \* of each room: the messages the service retains
    epoch,     \* of each room: how often it was emptied and counted anew
    context,   \* changes of the contact of the sender, or of the host's objective
    cursor,    \* of each room
    tasks,     \* of each room and sequence number: the payload, or None
    journal,   \* the entries "inbound-persisted"
    torn,      \* is there a part of a line in the journal?
    held,      \* the rooms each call owns
    pc, kind, own, win, todo, into,
    stopped,   \* what the call that ended last found wrong
    runs, mishaps,
    strayed,   \* has a call found another room in the mailbox file than it owns?
    readTo     \* of each room: how far readInbox acknowledged it

files == <<mailbox, used, cursor, tasks, journal, torn>>
service == <<lowest, highest, epoch, context>>
local == <<pc, kind, own, win, todo, into, stopped>>
history == <<runs, mishaps, strayed, readTo>>
vars == <<files, service, held, local, history>>

Windows == [room : Rooms, prev : 0 .. MaxSeq, first : Seqs \cup {None}, last : 0 .. MaxSeq,
            seqs : SUBSET Seqs, payload : Payloads]
NoWindow == [room |-> FirstRoom, prev |-> 0, first |-> None, last |-> 0, seqs |-> {},
             payload |-> [epoch |-> 0, context |-> 0]]
Places == {"idle", "own", "nest", "observe", "get", "check", "enqueue", "journal",
           "nestack", "ack"}
Reasons == {"none", "stale", "epoch", "gap", "conflict", "corrupt"}

\* The files, the service and the calls keep their types.
TypeOK ==
    /\ mailbox \in Rooms /\ used \subseteq Rooms
    /\ lowest \in [Rooms -> 1 .. MaxSeq + 1]
    /\ highest \in [Rooms -> 0 .. MaxSeq]
    /\ epoch \in [Rooms -> Nat] /\ context \in Nat
    /\ cursor \in [Rooms -> 0 .. MaxSeq] /\ readTo \in [Rooms -> 0 .. MaxSeq]
    /\ tasks \in [Rooms \X Seqs -> Payloads \cup {None}]
    /\ journal \subseteq Rooms \X Seqs
    /\ torn \in BOOLEAN /\ strayed \in BOOLEAN
    /\ held \in [Calls -> SUBSET Rooms]
    /\ pc \in [Calls -> Places] /\ kind \in [Calls -> {"ingest", "read"}]
    /\ own \in [Calls -> Rooms] /\ into \in [Calls -> Rooms]
    /\ win \in [Calls -> Windows] /\ todo \in [Calls -> SUBSET Seqs]
    /\ stopped \in Reasons
    /\ runs \in 0 .. MaxRuns /\ mishaps \in 0 .. MaxMishaps

Init ==
    /\ mailbox = FirstRoom /\ used = {FirstRoom}
    /\ lowest = [r \in Rooms |-> 1] /\ highest = [r \in Rooms |-> 0]
    /\ epoch = [r \in Rooms |-> 0] /\ context = 0
    /\ cursor = [r \in Rooms |-> 0] /\ readTo = cursor
    /\ tasks = [k \in Rooms \X Seqs |-> None] /\ journal = {}
    /\ torn = FALSE /\ strayed = FALSE
    /\ held = [c \in Calls |-> {}]
    /\ pc = [c \in Calls |-> "idle"] /\ kind = [c \in Calls |-> "ingest"]
    /\ own = [c \in Calls |-> FirstRoom] /\ into = own
    /\ win = [c \in Calls |-> NoWindow] /\ todo = [c \in Calls |-> {}]
    /\ stopped = "none"
    /\ runs = 0 /\ mishaps = 0

-----------------------------------------------------------------------------
(* Ownership *)

Goto(c, l) == pc' = [pc EXCEPT ![c] = l]

\* The call throws: what it owns is released.
Stop(c, reason) ==
    /\ Goto(c, "idle")
    /\ stopped' = reason
    /\ held' = [held EXCEPT ![c] = {}]
    /\ kind' = [kind EXCEPT ![c] = "ingest"]
    /\ own' = [own EXCEPT ![c] = FirstRoom]
    /\ into' = [into EXCEPT ![c] = FirstRoom]
    /\ win' = [win EXCEPT ![c] = NoWindow]
    /\ todo' = [todo EXCEPT ![c] = {}]

\* It returns, or throws for a reason that is none of its own.
End(c) == Stop(c, "none")

\* The owner lock of the room is absent, dead, or the call's own.
Available(c, r) == \A d \in Calls \ {c} : r \notin held[d]

Mishap == mishaps < MaxMishaps /\ mishaps' = mishaps + 1

\* The file is loaded once more.
Load(c) == strayed' = (strayed \/ mailbox # own[c])

Begin(c) ==
    /\ pc[c] = "idle" /\ runs < MaxRuns
    /\ runs' = runs + 1
    /\ \E k \in {"ingest", "read"} : kind' = [kind EXCEPT ![c] = k]
    /\ own' = [own EXCEPT ![c] = mailbox]
    /\ Goto(c, "own")
    /\ UNCHANGED <<files, service, held, win, todo, into, stopped, mishaps, strayed, readTo>>

Own(c) ==
    /\ pc[c] = "own"
    /\ IF Available(c, own[c])
       THEN /\ held' = [held EXCEPT ![c] = {own[c]}]
            /\ Goto(c, "nest")
            /\ UNCHANGED <<kind, own, win, todo, into, stopped>>
       ELSE End(c)
    /\ UNCHANGED <<files, service, history>>

\* peekInbox and acknowledgeInbox own the room they find, besides.
Nest(c, here, there) ==
    /\ pc[c] = here
    /\ IF Available(c, mailbox)
       THEN /\ held' = [held EXCEPT ![c] = @ \cup {mailbox}]
            /\ Goto(c, there)
            /\ UNCHANGED <<kind, own, win, todo, into, stopped>>
       ELSE End(c)
    /\ Load(c)
    /\ UNCHANGED <<files, service, runs, mishaps, readTo>>

-----------------------------------------------------------------------------
(* Peeking *)

Observe(c) ==
    /\ pc[c] = "observe"
    /\ win' = [win EXCEPT ![c].room = mailbox, ![c].prev = cursor[mailbox]]
    /\ Load(c)
    /\ Goto(c, "get")
    /\ UNCHANGED <<files, service, held, kind, own, todo, into, stopped, runs, mishaps, readTo>>

\* The service returns the newest messages after a number.
Newest(r, since) ==
    {q \in lowest[r] .. highest[r] : q > since /\ q > highest[r] - Limit}

\* A GET from the cursor, or from the start; then the contacts are looked up.
Get(c) ==
    /\ pc[c] = "get"
    /\ \E since \in {0, win[c].prev} :
          LET r == win[c].room
              new == Newest(r, since)
          IN  win' = [win EXCEPT ![c] =
                        [room |-> r, prev |-> win[c].prev,
                         first |-> IF new = {} THEN None ELSE Min(new),
                         last |-> highest[r], seqs |-> new,
                         payload |-> [epoch |-> epoch[r], context |-> context]]]
    /\ held' = [held EXCEPT ![c] = {own[c]}]
    /\ IF kind[c] = "ingest"
       THEN Goto(c, "check")
       ELSE Goto(c, "nestack")
    /\ UNCHANGED <<files, service, kind, own, todo, into, stopped, history>>

\* The GET fails, or the host's validate or afterPersist throws, or a stop was requested.
Refuse(c) ==
    /\ pc[c] \in {"get", "check", "nestack"}
    /\ pc[c] # "get" => kind[c] = "ingest"
    /\ End(c)
    /\ UNCHANGED <<files, service, history>>

-----------------------------------------------------------------------------
(* persistInbox *)

\* Messages the service no longer has are not missed.
MutGap(w) == FALSE

Gap(w) == w.first # None /\ w.first > w.prev + 1

\* A cursor that moved since, a room that was counted anew, or missing messages.
Refusal(w) ==
    IF cursor[mailbox] # w.prev THEN "stale"
    ELSE IF w.last < w.prev THEN "epoch"
    ELSE IF Gap(w) THEN "gap"
    ELSE "none"

\* Any of them stops the intake before anything is persisted.
Check(c) ==
    /\ pc[c] = "check"
    /\ IF Refusal(win[c]) = "none"
       THEN /\ into' = [into EXCEPT ![c] = mailbox]
            /\ todo' = [todo EXCEPT ![c] = win[c].seqs]
            /\ Goto(c, "enqueue")
            /\ UNCHANGED <<held, kind, own, win, stopped>>
       ELSE Stop(c, Refusal(win[c]))
    /\ Load(c)
    /\ UNCHANGED <<files, service, runs, mishaps, readTo>>

\* A task with the key is taken for another one.
MutSameInput(k, p) == tasks[k] = None

\* The key is new, or was used with the same input.
SameInput(k, p) == tasks[k] \in {None, p}

\* The first of the remaining messages becomes a task, unless it is one already; a
\* task with the same key and another payload stops the intake.
Enqueue(c) ==
    /\ pc[c] = "enqueue" /\ todo[c] # {}
    /\ LET k == <<into[c], Min(todo[c])>>
       IN  IF SameInput(k, win[c].payload)
           THEN /\ tasks' = [tasks EXCEPT ![k] = win[c].payload]
                /\ Goto(c, "journal")
                /\ UNCHANGED <<held, kind, own, win, todo, into, stopped>>
           ELSE Stop(c, "conflict") /\ UNCHANGED tasks
    /\ UNCHANGED <<mailbox, used, cursor, journal, torn, service, history>>

\* The journal is read before every append, and no line of it may be invalid.
Journal(c) ==
    /\ pc[c] = "journal"
    /\ IF torn
       THEN Stop(c, "corrupt") /\ UNCHANGED journal
       ELSE /\ journal' = journal \cup {<<into[c], Min(todo[c])>>}
            /\ todo' = [todo EXCEPT ![c] = @ \ {Min(@)}]
            /\ Goto(c, "enqueue")
            /\ UNCHANGED <<held, kind, own, win, into, stopped>>
    /\ UNCHANGED <<mailbox, used, cursor, tasks, torn, service, history>>

\* The append fails half-way (a full disk).
JournalFails(c) ==
    /\ pc[c] = "journal" /\ ~torn
    /\ Mishap
    /\ torn' = TRUE
    /\ End(c)
    /\ UNCHANGED <<mailbox, used, cursor, tasks, journal, service, runs, strayed, readTo>>

\* All messages are persisted: the highest is what will be acknowledged, if it is new.
Persisted(c) ==
    /\ pc[c] = "enqueue" /\ todo[c] = {}
    /\ IF \E q \in win[c].seqs : q > win[c].prev
       THEN /\ Goto(c, "nestack")
            /\ UNCHANGED <<held, kind, own, win, todo, into, stopped>>
       ELSE End(c)
    /\ UNCHANGED <<files, service, history>>

-----------------------------------------------------------------------------
(* Acknowledging *)

\* readInbox acknowledges the last message of the room.
Through(c) == IF kind[c] = "ingest" THEN Max(win[c].seqs) ELSE win[c].last

Advance(c) ==
    /\ pc[c] = "ack"
    /\ cursor' = [cursor EXCEPT ![mailbox] = Max({@, Through(c)})]
    /\ readTo' = IF kind[c] = "read"
                 THEN [readTo EXCEPT ![mailbox] = Max({@, Through(c)})]
                 ELSE readTo
    /\ Load(c)
    /\ End(c)
    /\ UNCHANGED <<mailbox, used, tasks, journal, torn, service, runs, mishaps>>

\* readInbox returns at once if there is nothing new.
NothingNew(c) ==
    /\ pc[c] = "nestack" /\ kind[c] = "read" /\ win[c].last <= win[c].prev
    /\ End(c)
    /\ UNCHANGED <<files, service, history>>

Acknowledge(c) ==
    \/ /\ kind[c] = "ingest" \/ win[c].last > win[c].prev
       /\ Nest(c, "nestack", "ack")
    \/ Advance(c)

\* The process dies; its owner locks can be taken over.
Die(c) ==
    /\ pc[c] # "idle"
    /\ Mishap
    /\ End(c)
    /\ UNCHANGED <<files, service, runs, strayed, readTo>>

CallStep(c) ==
    \/ Begin(c) \/ Own(c) \/ Nest(c, "nest", "observe") \/ Observe(c) \/ Get(c) \/ Refuse(c)
    \/ Check(c) \/ Enqueue(c) \/ Journal(c) \/ JournalFails(c) \/ Persisted(c)
    \/ NothingNew(c) \/ Acknowledge(c) \/ Die(c)

-----------------------------------------------------------------------------
(* Others *)

Post(r) ==
    /\ r \in used /\ highest[r] < MaxSeq
    /\ highest' = [highest EXCEPT ![r] = @ + 1]
    /\ UNCHANGED <<files, lowest, epoch, context, held, local, history>>

\* mailbox:rotate
Rotate ==
    /\ Mishap
    /\ \E r \in Rooms \ used : mailbox' = r /\ used' = used \cup {r}
    /\ UNCHANGED <<cursor, tasks, journal, torn, service, held, local, runs, strayed, readTo>>

\* A contact with the sender's DID is added or renamed.
Rebind ==
    /\ Mishap
    /\ context' = context + 1
    /\ UNCHANGED <<files, lowest, highest, epoch, held, local, runs, strayed, readTo>>

\* The service drops the oldest message of a room,
Expire(r) ==
    /\ lowest[r] <= highest[r]
    /\ Mishap
    /\ lowest' = [lowest EXCEPT ![r] = @ + 1]
    /\ UNCHANGED <<files, highest, epoch, context, held, local, runs, strayed, readTo>>

\* or all of them, and counts anew.
Restart(r) ==
    /\ highest[r] > 0
    /\ Mishap
    /\ lowest' = [lowest EXCEPT ![r] = 1]
    /\ highest' = [highest EXCEPT ![r] = 0]
    /\ epoch' = [epoch EXCEPT ![r] = @ + 1]
    /\ UNCHANGED <<files, context, held, local, runs, strayed, readTo>>

Next ==
    \/ \E c \in Calls : CallStep(c)
    \/ \E r \in Rooms : Post(r) \/ Expire(r) \/ Restart(r)
    \/ Rotate \/ Rebind

Spec == Init /\ [][Next]_vars

-----------------------------------------------------------------------------

Taken(r, q) == tasks[<<r, q>>] # None /\ <<r, q>> \in journal

\* AGENT-ARCHITECTURE.md, "advance the cursor only through the highest successfully
\* persisted message": what is acknowledged is a task and in the journal, however
\* many calls die, overlap and find messages dropped, unless readInbox took it or a
\* rotation came into the middle of a call.
AcknowledgedIsTaken ==
    ~strayed => \A r \in Rooms : \A q \in readTo[r] + 1 .. cursor[r] : Taken(r, q)

\* The cursor a call compared its window with stays until the call moves it.
WindowStaysCurrent ==
    ~strayed => \A c \in Calls :
        kind[c] = "ingest" /\ pc[c] \in {"enqueue", "journal", "nestack", "ack"} =>
            cursor[into[c]] = win[c].prev

\* An intake that is repeated stops only for something that changed since: the
\* service lost messages or counts anew, the contact was rebound, an append failed
\* half-way, or the mailbox was rotated meanwhile.  It never stops because of what a
\* death or a concurrent call left.
StopsForAReason ==
    LET Anew == \E r \in Rooms : epoch[r] > 0
        Missing == \E r \in Rooms : lowest[r] > 1 \/ highest[r] > Limit
    IN  /\ stopped = "stale" => strayed
        /\ stopped = "epoch" => strayed \/ Anew
        /\ stopped = "gap" => strayed \/ Anew \/ Missing
        /\ stopped = "conflict" => strayed \/ Anew \/ context > 0
        /\ stopped = "corrupt" => torn

=============================================================================
