-------------------------- MODULE InferenceLedger --------------------------
(***************************************************************************)
(* AccountedInferenceProvider.infer and the ledger it keeps in a file      *)
(* (agent/inference-accounting.ts): calls of any number of processes plan, *)
(* reserve and intend an attempt under the file lock, call the provider    *)
(* without it, and settle under it again.                                  *)
(*                                                                         *)
(* An attempt is the hash of its context and request identifier: two calls *)
(* with the same ones are the same attempt.  Each scope has one bound on   *)
(* the number of attempts and one on an amount; a usage limit is such an   *)
(* amount whose bill is always final.                                      *)
(***************************************************************************)
EXTENDS Naturals, FiniteSets

CONSTANTS
    Calls,        \* calls of infer
    Attempts,
    Task, Agent, Job,   \* of each attempt; a task belongs to one agent and job
    MaxAttempts,  \* of each scope
    Ceiling,      \* of each scope: what may be spent
    Reserve,      \* of each scope: what an attempt is taken to cost at most
    MaxCost,      \* bound on what the provider charges
    MaxFailures,  \* bound on calls that die or fail to write
    None

Scopes == {"session", "agent", "job"}
Amounts == 0 .. MaxCost

ASSUME InferenceLedgerAssumption ==
    /\ {MaxAttempts, Ceiling, Reserve} \subseteq [Scopes -> Nat]
    /\ \A s \in Scopes : 0 < Reserve[s] /\ Reserve[s] <= Ceiling[s]
    /\ \A a, b \in Attempts : Task[a] = Task[b] => Agent[a] = Agent[b] /\ Job[a] = Job[b]
    /\ None \notin Attempts \cup Calls \cup Nat
    /\ MaxCost \in Nat /\ MaxFailures \in Nat

VARIABLES
    state,     \* of each attempt in the ledger file
    spent,     \* the amount reported for it, None if unknown
    final,     \* is the bill conclusive?
    holder,    \* the call that has the file lock
    phase,     \* where each call is
    attempt,   \* its attempt
    answer,    \* what the provider, or the timer, answered it
    dispatches,\* how often the provider was called for the attempt
    cost,      \* what it charges for it, whether it answers or not
    failures

ledger == <<state, spent, final>>
world == <<dispatches, cost>>
ledgerVars == <<ledger, holder, phase, attempt, answer, world, failures>>

Settled == {"succeeded", "failed", "ambiguous"}
Unresolved == {"planned", "reserved", "running", "ambiguous"}
States == {"absent", "cancelled"} \cup Settled \cup Unresolved
Answers == [outcome : Settled, spent : Amounts \cup {None}, final : BOOLEAN]
NoAnswer == [outcome |-> "ambiguous", spent |-> None, final |-> TRUE]

\* The ledger, the lock and the calls keep their types.
LedgerTypeOK ==
    /\ state \in [Attempts -> States]
    /\ spent \in [Attempts -> Amounts \cup {None}]
    /\ final \in [Attempts -> BOOLEAN]
    /\ holder \in Calls \cup {None}
    /\ phase \in [Calls -> {"idle", "decide", "intend", "dispatch", "inflight", "settle", "over"}]
    /\ attempt \in [Calls -> Attempts \cup {None}]
    /\ answer \in [Calls -> Answers]
    /\ dispatches \in [Attempts -> Nat]
    /\ cost \in [Attempts -> Amounts]
    /\ failures \in 0 .. MaxFailures

LedgerInit ==
    /\ state = [a \in Attempts |-> "absent"]
    /\ spent = [a \in Attempts |-> None]
    /\ final = [a \in Attempts |-> TRUE]
    /\ holder = None
    /\ phase = [c \in Calls |-> "idle"]
    /\ attempt = [c \in Calls |-> None]
    /\ answer = [c \in Calls |-> NoAnswer]
    /\ dispatches = [a \in Attempts |-> 0]
    /\ cost = [a \in Attempts |-> 0]
    /\ failures = 0

-----------------------------------------------------------------------------
(* Budgets *)

\* matching: the attempts that share a bucket of scope s with a.
Bucket(a, s) ==
    {b \in Attempts : \/ s = "session"
                      \/ s = "agent" /\ Agent[b] = Agent[a]
                      \/ s = "job" /\ Job[b] = Job[a]}

\* What the attempts of S come to.  A sum of naturals is the number of its units,
\* which, unlike a fold, needs no induction to reason about.
Units(amount, S) == UNION {{b} \X (1 .. amount[b]) : b \in S}
Total(amount, S) == Cardinality(Units(amount, S))

\* A reported amount replaces the reservation.
MutCharge(b, s) == IF spent[b] = None THEN Reserve[s] ELSE spent[b]

\* A reported amount replaces the reservation, unless more may still be charged.
Charge(b, s) ==
    IF \/ spent[b] = None
       \/ spent[b] < Reserve[s] /\ (~final[b] \/ state[b] \in Unresolved)
    THEN Reserve[s]
    ELSE spent[b]

WithinBudget(a) ==
    \A s \in Scopes :
        LET prior == {b \in Bucket(a, s) \ {a} : state[b] \notin {"absent", "cancelled"}}
            charged == Total([b \in prior |-> Charge(b, s)], prior)
        IN  Cardinality(prior) < MaxAttempts[s] /\ charged + Reserve[s] <= Ceiling[s]

-----------------------------------------------------------------------------
(* infer *)

Proceed(c, l) == phase' = [phase EXCEPT ![c] = l]

\* The call returns or throws.
End(c) ==
    /\ Proceed(c, "over")
    /\ attempt' = [attempt EXCEPT ![c] = None]
    /\ answer' = [answer EXCEPT ![c] = NoAnswer]

Record(a, s) == state' = [state EXCEPT ![a] = s]

\* Only the identifier of the attempt is looked for.
MutRefused(a) == state[a] # "absent"

\* Spent already, or an attempt of its task is unresolved.
Refused(a) ==
    \/ state[a] # "absent"
    \/ \E b \in Attempts : Task[b] = Task[a] /\ state[b] \in Unresolved

\* The ledger is locked and read, and the attempt is in it before anything else.
Plan(c, a) ==
    /\ phase[c] = "idle" /\ holder = None
    /\ IF Refused(a)
       THEN End(c) /\ UNCHANGED <<state, holder>>
       ELSE /\ Record(a, "planned")
            /\ holder' = c
            /\ attempt' = [attempt EXCEPT ![c] = a]
            /\ Proceed(c, "decide")
            /\ UNCHANGED answer
    /\ UNCHANGED <<spent, final, world, failures>>

Decide(c) ==
    /\ phase[c] = "decide"
    /\ IF WithinBudget(attempt[c])
       THEN Record(attempt[c], "reserved") /\ Proceed(c, "intend") /\ UNCHANGED <<holder, attempt, answer>>
       ELSE Record(attempt[c], "cancelled") /\ End(c) /\ holder' = None
    /\ UNCHANGED <<spent, final, world, failures>>

\* A dispatch whose intent is not written.
MutIntend(c) ==
    /\ phase[c] = "intend"
    /\ Proceed(c, "dispatch")
    /\ holder' = None
    /\ UNCHANGED <<ledger, attempt, answer, world, failures>>

\* The intent to dispatch is durable, and the lock is released.
Intend(c) ==
    /\ phase[c] = "intend"
    /\ Record(attempt[c], "running")
    /\ Proceed(c, "dispatch")
    /\ holder' = None
    /\ UNCHANGED <<spent, final, attempt, answer, world, failures>>

\* The provider is called; what it will charge is not known here.
Dispatch(c) ==
    /\ phase[c] = "dispatch"
    /\ dispatches' = [dispatches EXCEPT ![attempt[c]] = @ + 1]
    /\ \E m \in Amounts : cost' = [cost EXCEPT ![attempt[c]] = m]
    /\ Proceed(c, "inflight")
    /\ UNCHANGED <<ledger, holder, attempt, answer, failures>>

\* A provider may leave the amount out, or report a part of a bill that is pending.
Return(c) ==
    /\ phase[c] = "inflight"
    /\ \E r \in Answers :
          /\ r.spent # None => r.spent <= cost[attempt[c]]
          /\ r.spent # None /\ r.final => r.spent = cost[attempt[c]]
          /\ answer' = [answer EXCEPT ![c] = r]
    /\ Proceed(c, "settle")
    /\ UNCHANGED <<ledger, holder, attempt, world, failures>>

\* beforeDispatch or the provider throws, or the timer comes first: a later
\* answer is ignored.
Unanswered(c) ==
    /\ phase[c] \in {"dispatch", "inflight"}
    /\ answer' = [answer EXCEPT ![c] = NoAnswer]
    /\ Proceed(c, "settle")
    /\ UNCHANGED <<ledger, holder, attempt, world, failures>>

\* The answer is written down, as ambiguous if it exceeds a reservation.
Settle(c) ==
    /\ phase[c] = "settle" /\ holder = None
    /\ state[attempt[c]] = "running"
    /\ LET r == answer[c]
           exceeds == r.spent # None /\ \E s \in Scopes : r.spent > Reserve[s]
       IN  /\ Record(attempt[c], IF exceeds THEN "ambiguous" ELSE r.outcome)
           /\ spent' = [spent EXCEPT ![attempt[c]] = r.spent]
           /\ final' = [final EXCEPT ![attempt[c]] = r.final]
    /\ End(c)
    /\ UNCHANGED <<holder, world, failures>>

\* The process dies, or the ledger cannot be locked or written: the call ends, and
\* the attempt stays as it was written last.
Fail(c) ==
    /\ phase[c] \notin {"idle", "over"}
    /\ failures < MaxFailures
    /\ failures' = failures + 1
    /\ holder' = IF holder = c THEN None ELSE holder
    /\ End(c)
    /\ UNCHANGED <<ledger, world>>

LedgerNext ==
    \E c \in Calls :
        \/ \E a \in Attempts : Plan(c, a)
        \/ Decide(c) \/ Intend(c) \/ Dispatch(c) \/ Return(c) \/ Unanswered(c)
        \/ Settle(c) \/ Fail(c)

LedgerSpec == LedgerInit /\ [][LedgerNext]_ledgerVars

-----------------------------------------------------------------------------

\* INFERENCE-ACCOUNTING.md, "An existing attempt ID is never dispatched twice":
\* whoever repeats the call after whatever failure.  And the ledger shows every
\* dispatch: without a running intent, and when cancelled, nothing was called.
DispatchedOnceAsRecorded ==
    \A a \in Attempts :
        dispatches[a] <= IF state[a] \in {"running"} \cup Settled THEN 1 ELSE 0

\* "A new request ID for the same agent/session/job/task cannot bypass an
\* unresolved prior attempt": the provider never works, or may have worked, on two
\* attempts of one task whose outcomes are both open.
OneUnresolvedPerTask ==
    \A a, b \in Attempts :
        state[a] \in Unresolved /\ state[b] \in Unresolved /\ Task[a] = Task[b] => a = b

\* What was really charged stays within every bucket's budget, reported or not, if
\* no attempt costs more than the scope reserves for it.
BudgetHolds ==
    \A a \in Attempts, s \in Scopes :
        LET called == {b \in Bucket(a, s) : dispatches[b] > 0}
        IN  (\A b \in called : cost[b] <= Reserve[s]) =>
                /\ Cardinality(called) <= MaxAttempts[s]
                /\ Total(cost, called) <= Ceiling[s]

=============================================================================
