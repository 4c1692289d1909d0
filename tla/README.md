# Signed agent bridge: models, checks and proofs

This directory holds TLA+ specifications of the signed agent bridge: a local
agent runtime (`src/src/agent`), the peer sessions and external exchanges built on it
(`src/src/swarm`), the signing boundary in front of the Technocore
service (`src/src/bridge.ts`, `src/src/transport.ts`), and the stores both rest on.
Every definition is a translation of the TypeScript named in `PROJECT.json`
("map"); the service, the network, the operating system and the operator are
environment.

## 1. The system

| component | state | operations | hard behaviour |
|---|---|---|---|
| file lock (`fs-safe.ts`) | one lock file per state file | `withFileLock`, `atomicWriteFile` | stealing after 30 s, crash of a holder, unlink of somebody else's file |
| nonce store (`nonce-store.ts`) | `nonces.json` | `reserve` | clock going back, crash between write and use, 19-digit limit |
| runtime lock (`agent/runtime-lock.ts`) | lock record, guard file | `acquire`, `release` | dead holders, reused process numbers, release without the guard |
| approvals (`agent/approvals.ts`) | one record per action | `propose`, `grant`, `consume`, `finish` | spending a grant exactly once, whoever asks and whatever dies |
| bridge and transport | contacts, approvals, nonces, one HTTP exchange | `sendTo`, `sendSignedToRoom`, `sendSigned`, `sendSignedMessage` | lost, late and repeated requests; truth of the recorded verdict |
| inbox (`bridge.ts`, `cursors.ts`, `mailboxes.ts`) | cursor, mailbox | peek, persist, acknowledge, rotate | crash between persist and acknowledge, gaps, concurrent readers |
| agent state (`agent/state-store.ts`) | `state.json`: tasks, queue, checkpoints | enqueue, claim, checkpoint, finish, retry, recover | what a restart may replay |
| agent runtime (`agent/runtime.ts`) | one claimed task | `start`, `run`, `runOnce`, executions, `close` | failure of any step, operator racing the loop |
| journal, memory | `journal.jsonl`, `memory.json` | `append`, `put` | torn lines, failure after a task update |
| inference accounting | ledger of attempts | plan, reserve, dispatch, settle | late answers, budgets, crash in between |
| identity store | primary, candidate, rollback, marker, backup files | `create`, `migrate`, `restore`, `unlock` | crash between two renames |
| peer session (`swarm/supervisor.ts`, `session-state.ts`, `session-policy.ts`) | `session.json`: tasks, effects, jobs, budgets, lifecycle | `open`, `submit`, `approveExternal`, `delegate`, `step`, `run`, `pause`, `continueSession`, `stop` | persist before I/O, halting on any doubt, reopening what a dead session left |
| routers (`swarm/router.ts`, `external.ts`) | tasks of the agents, `external-proposals/` | `delegate`, `reconcile`, `classify`, `approve` | the same message met twice |
| external delivery (`swarm/external-delivery.ts`) | `external-deliveries/`, an approval | prepare, authorize, send | crash between approval, record and POST; budget shared with the session |
| outbound external work (`swarm/outbound-external-work.ts`) | `jobs/`, `intake/`, an approval, the shared cursor | prepare, authorize, send, receive, timeout, review | a lock that is stolen during a slow POST, one read, checkpoint before cursor |
| external bootstrap (`swarm/external-bootstrap.ts`, `bootstrap-files.ts`) | `records/`, `observations/`, `proposals/`, a room cursor | prepare, authorize, send, receive, timeout, proposal | expiry behind the intent, partial and lost observations, a room that restarts |
| rehearsal | eight-step graph, reconciliation records | prepare, send, receive, work, observe, apply | halt and one-shot reconciliation |
| dashboard controller | one session, one operation in progress | request, perform, submit, close | overlapping requests, stop racing the loop |
| discovery | observation log | discover, append | read-only |

How they interact: the runtime calls the state store for every change of a task
and the bridge for every send; the bridge calls the approval store, then the
nonce store, then the transport; the nonce, contact, cursor, mailbox, state,
memory, journal and ledger files are each behind a file lock; a runtime, a mailbox reader and
an approval record are each behind a runtime lock.  A peer session owns the runtimes
of its peers and runs one operation at a time; it sends through the bridge and hands
received messages to the task queues of its agents.  Deliveries, outbound jobs and
handshakes are operations of processes of their own, on records of their own; a
delivery reads the record of a session that has stopped.  Nothing else is shared: all
coordination between processes goes through files.

What makes each part correct:

- file lock: one call at a time inside a section, and every waiter gets an answer;
- nonce store: no nonce twice, and none used before it is durable;
- runtime lock: one live holder, and no refusal without one;
- approvals, bridge and transport: one approval, at most one message, exactly the
  granted one, and records and reports that tell the truth about the service;
- runtime and state store: no external effect twice, replay only of untouched
  tasks, no task left behind, outcomes final and backed by evidence.
- inbox: what the cursor passes is a task and in the journal, and an intake that is
  repeated stops only for something that changed;
- inference accounting: no attempt billed twice, no second attempt behind an open one,
  and real costs within each budget;
- identity store: the DID and the key survive any interruption, the plaintext goes last;
- peer session: a signed effect goes out once over all processes that serve a session,
  and the record owns up to it; delegated work is proposed, done and handed back once
  and in that order; a completed job was computed and received; jobs do not stay open;
- external delivery: one response, for finished work, within the session's budget;
- outbound work and bootstrap: one request and one read behind it, verdicts that are
  true of the service, a cursor that passes only what is on record, silence concluded
  only from a whole observation, acceptance only from the one signed answer.

## 2. Plan

Components are ordered by how much of the system rests on them.

| # | module | models | composed with | state |
|---|---|---|---|---|
| 1 | `FileLock`, `NonceStore` | `fs-safe.ts`, `nonce-store.ts` | `NonceStore` extends `FileLock`, implements `NonceCounter` | checked, proved |
| 2 | `RuntimeLock` | `agent/runtime-lock.ts` | its callers take it as one step | checked, proved |
| 3 | `SignedSend` | `bridge.ts` (sending), `agent/approvals.ts`, `transport.ts` (POST) | implements `ApprovedEffect` | checked, proved |
| 4 | `AgentRuntime` | `agent/runtime.ts`, `agent/state-store.ts` | uses what `ApprovedEffect` promises | checked, proved |
| 5 | `IdentityMigration` | `identity.ts` | under one `FileLock` section | checked, proved |
| 6 | `InferenceLedger` | `agent/inference-accounting.ts` | under `FileLock` sections | checked, proved |
| 7 | `Inbox` | `bridge.ts` (reading), `cursors.ts`, `mailboxes.ts`, `swarm/mailbox-owner.ts`, `runtime.ts` (intake) | file locks as single steps | checked, proved |
| 8 | `PeerSession` | `swarm/supervisor.ts`, `session-state.ts`, `session-policy.ts`, the two routers | implements `Delegation` | checked, proved |
| 9 | `ExternalDelivery` | `swarm/external-delivery.ts` | extends `PeerSession`, both run together | checked, proved |
| 10 | `OutboundWork` | `swarm/outbound-external-work.ts` | implements `OneExchange`; its lock is the stealable one of `FileLock` | checked, proved |
| 11 | `ExternalBootstrap` | `swarm/external-bootstrap.ts`, `swarm/bootstrap-files.ts` | implements `OneExchange` | checked, proved |
| 12 | `Rehearsal`, `Dashboard`, `Discovery` | see section 7 | | not modelled |

Abstract specifications: `NonceCounter` (a reservation is one step), `ApprovedEffect`
(at most one effect, exactly the granted one, true verdicts), `Delegation` (delegated
work goes out, is done and comes back once, in that order), `OneExchange` (one granted
request, one read behind it).  The last is implemented by two modules.

Nothing that a passing run checks is left to prove but the liveness properties, which stay
with TLC (section 5).

## 3. The modules

Conventions.  One action is one step between two points where another process, an
await or a death can come in; an action's name is the code's, or what the code does
there.  `pc` says where a call is, unless said otherwise.  A call that dies leaves its
files as they are.  An operation on one file under `withFileLock` is a single step in
the modules above `FileLock`, because `NonceStore` shows that such a section is one,
with the exception named in section 6.  Definitions called `Mut...` stand next to the
definition they alter; no specification refers to them: each is a slip that one of the
properties tells apart from the code.

**FileLock** (`withFileLock`).  A member of `Procs` is one call.  `lock` is the call
that created the file now at the path, `stale` whether that file's age exceeds
`STALE_LOCK_MS`.  A waiter judges (`exists`), then unlinks in a later step (`steal`);
a holder unlinks at the end whatever is at the path.  Either unlink may throw, which the
code swallows: `UnlinkFails`, and for a waiter `StealFails`, which goes round without a look
at the deadline.  `Age` lets a live holder
outlast the 30 s when `SlowHolders`.  `raced` is history: an unlink took the file
of another call's live section.

**NonceStore** extends it with `reserve`: compute the larger of previous + 1 and the
clock, write atomically, return.  `Date.now()` is anything up to `MaxClock` and may go
back; `MaxNonce` is the 19-digit limit.  **NonceCounter** is the same as one step.

**RuntimeLock** (`AgentRuntimeLock`).  A caller is one `acquire` and the lock it
returns; processes die and are spawned, and `Pid` gives processes their numbers, so
that a dead process's number can come back.  The guard file is separate state;
`release` does not take it, as in the code.  Any file operation may throw (`FileError`):
the record is then absent, torn, or complete with nobody to hold it (`LeftBehind`), and the
guard may stay.

**SignedSend** (`sendTo`, `sendSignedToRoom`, `sendSigned`, the approval store, the
signed POST).  A call resolves the contact, proposes or finds the approval, consumes
it, reserves a nonce, sends, and finishes the record.  `Rebind` is the operator
changing the contact meanwhile.  `wire` is the exchange in flight; the service
accepts rising nonces per room, answers 429, refuses, or answers something
unreadable, and requests and answers may be late or lost.  **ApprovedEffect** is what
the boundary promises; `SignedSend` implements it by the mapping at its end.

**AgentRuntime** (`AgentRuntime` over `AgentStateStore`).  `status`, `possible`,
`attempts`, `queue`, `active` are `state.json`; `record` is the approval record;
`stored` is `memory.json`; `sent` and `effects` are what is under way and what has
happened outside.  `Start`/`Recover` is a restart with `recoverTasks`; `ClaimNext`,
`ExecuteLocal`, `IntendInference`, `Infer`, `CheckApproval`, `ConsumeApproval`,
`Dispatch`, `SendReturns`, `SendFails`, `StoreResult`, `ConfirmEffect`, `Conclude` are
the awaits of `runOnce` and its executions; `StepThrows` is any local step that
throws, with what `runOnce` makes of it.  `Stop`, `Close` and `Die` end a process.

**IdentityMigration** (`IdentityStore`; its specification is `MigrationSpec`).  `file`
is what is at the primary, candidate, rollback and backup paths: a key and the seal
over it; `marker` the `.migration.json`; `stage` is where an operation is.  Each
rename, write and unlink is a step, and recovery is modelled branch by branch.

**InferenceLedger** (`AccountedInferenceProvider`; its specification is `LedgerSpec`, and
`phase` is where a call is).  A call plans, reserves and intends
an attempt under the lock, calls the provider without it and settles under it.
`dispatches` and `cost` are the provider's own truth; the ledger has `state`, `spent`,
`final`.  Scopes are the session, the agent and the job.

**Inbox** (`ingestInbox`, `readInbox`, `peekInbox`, `acknowledgeInbox`).  A call owns
the room it loaded (`held`, `own`), and every nested operation loads the mailbox
file again, as in the code.  `win` is the window peeked, `todo` what is left of it to
persist.  The service drops old messages, adds new ones and may count a room anew
(`epoch`); the operator rotates the mailbox and rebinds contacts.

**PeerSession** (`SwarmSessionSupervisor`).  `mem` is the session object and `disk` the
file that `save` writes; an operation is the code from one save to the next, and since
`serial` runs one at a time, one `pc` serves the process.  Every save either happens or
throws, and then the change stays in `mem` and the operation's catch block decides: most
halt the session, and that save may fail as well.  `step` is split into what it finds to
do: flows of the operator (`AdvanceFlow`), a receipt (`Receive` to `Ack`), a message owed
(`Prepare` to `Finish`), a task to work on (`Run` to `Record`), a scheduled look at a room
(`ScheduledIntake`); two saves that follow each other are two actions (`Complete` is the
second).  The session peers and their fixed scheduling order are left open: any due peer
may be served.  `tasks` is the list of a job's tasks and `flow` the roles its operator asked
for; as in the code a flow goes on while the first is shorter than the second, and is at its
end when both are as long (`FlowDue`, `Completed`), whoever has delegated the tasks: the host
may do so in any job (`Delegate`), and `Needs` are the tasks that a task waits for besides
its parent.  `runtime` is what the agents' own task files say, all that a reopened
session learns of interrupted work; `legacy` is the file that the external router keeps.
An offline session has its rooms in the process, so they end with it, and a room that has
lost its history answers with the cursor it is asked for; only an offline session can be
reopened, and only one in configured mode hears from outside, so `Propose` and `Resume`
exclude each other.  `Offers` are what it hears: a proposal, and the same one with other
content, which `Classified` takes for a conflicting replay.  `Stop` covers `stop()` from every cause.

**ExternalDelivery** extends it with the process that answers an outside proposal when
the session has stopped: record, approval and POST are three places, and each await
between them a step.  `Attempts` counts the session's posts and those of all deliveries.

**Delegation** is what both promise of a task: proposed, computed, answered, once each.

**OutboundWork** (`OutboundExternalWorkCoordinator`).  A worker is a process; each
operation takes the file lock of its job, reads the record into `copy`, and writes the
whole copy.  Where an operation may take 30 seconds (unlocking a key, a POST, a GET, an
inference) its lock may be taken by another worker, and `raced` records that it was.
`checkpoint` is the retained window of the one read, `elsewhere` how far `inbox:read`
has taken the shared cursor.  A review runs a task in a runtime of Dave's, whose lock it
holds (`dave`): `StartDave` recovers his tasks or throws, `ClaimReview` queues and claims the
task, `InferReview` announces the inference and makes it, `FinishReview` settles the task; a
review that was interrupted before the announcement runs again, here or in another process
(`DaveElsewhere`).  That Dave has one runtime is taken from `RuntimeLock`.

**ExternalBootstrap** (`ExternalBootstrapCoordinator`).  Every operation holds the runtime
lock of its record, so a handshake has one operation under way.  The checkpoint of the
observation passes through three files (`stage`: partial, candidate, final), and a later
call takes up what an earlier one left (`Recover`, `Pending`), or finds that it cannot read
it and calls the handshake ambiguous.  The service may drop
messages, or count the room anew, and is taken to report its generation when it does.

**OneExchange** is what these two promise of a job.

The `MC...` modules only give constants their values and symmetries.

## 4. What is checked

| run | instance | what it shows |
|---|---|---|
| `NonceStore_crash` | 3 calls, 1 fault, 1 poll, clock 0..1, nonces 0..2, slow holders, fair | until a live lock is unlinked, each step is a step of `NonceCounter`; every call returns but one that can never unlink a stale file |
| `NonceStore_stealrace` | 3 calls, 1 fault, no slow holder | finding: two waiters that judged one dead holder's file stale end up in the section together |
| `RuntimeLock_crash` | 4 callers, 3 processes (two callers share one) and a foreign program, reused numbers, 2 file operations that throw, fair | a live holder's record survives; a refusal has a reason; every acquire returns |
| `SignedSend_retry` | 3 calls of one action, two to a contact that two rooms are bound to in turn, one to the public room, 1 repeat after 429 | true records and reports; `ApprovedEffect` is implemented: one message per approval, exactly the granted one |
| `AgentRuntime_crash` | a send, an inference with two attempts and a local task, 1 failing step, 1 death or stop, fair | no effect twice, only untouched tasks are replayed, successes backed, outcomes final, the queue drains |
| `IdentityMigration_crash` | 2 keys, 2 passphrases, 2 backup paths, 3 deaths, 1 damaged file, fair | the key survives, the plaintext goes last, reports are true, rerunning completes |
| `InferenceLedger_budget` | 3 calls, 4 attempts of 3 tasks in 2 agents and jobs, costs 0..2, 1 call that dies | no attempt is dispatched twice or past an open one; real costs stay within each bucket |
| `Inbox_crash` | 2 calls, 2 rooms, 3 messages, answers of 2, 2 runs, 2 mishaps | what the cursor passes is taken; an intake stops only for a change |
| `PeerSession_reopen` | a job of three tasks over two peers, with a flow of two roles or none, the last task depending on both others, and one from outside whose proposal is posted again with other content, 2 processes, 1 scheduled intake, 2 disturbances (deaths, failing steps, the expiry, pause and continue files), a delivery process, fair | effects go out once and are owned up to, completion is backed by work, cursors by records, a response by a finished job; `Delegation` is implemented; jobs settle |
| `OutboundWork_oneshot` | one job, 2 workers, slow holders, 2 messages, 1 death or failing step | one request, true verdicts, no message passed unread, responses backed and Dave asked once, terminal states final, `OneExchange` implemented |
| `ExternalBootstrap_crash` | one handshake, 3 messages, 1 restart of the room, 2 deaths or failing steps | records can be read, verdicts and silence are true, the cursor moves over retained windows, acceptance is backed, `OneExchange` implemented |
| `OutboundWork_unreadable` | one job, one worker, 1 message, 1 fault | finding: a record is written that can never be read again |

Why the bounds are enough.  The hazards are races of two actors around one that dies
or is slow: three calls give a dead one and two that judge it (`NonceStore`), four
callers a holder, a second caller of the same process, another process and one that
inherits its number (`RuntimeLock`), three sends a winner, a competitor and a late
one.  One fault is enough where a fault is followed by recovery from durable state
and the recovery itself is then undisturbed; where recovery can be interrupted as
well, the bound is higher (three deaths of a migration, two mishaps of an intake, two
faults of a session, of a handshake and of the runtime lock's files).  A chain of three tasks is the shortest in
which a task waits for work that was itself delegated, and it fills the budget of four
posts that a response from outside would need as well.
A clock that has the two values 0 and 1 can stand still, advance and go back.  Two
attempts of one task, a third task in the same job and one in another fill each
bucket to its limit and leave one beside it; three messages and answers of two
give a window that does not reach the end.  Two workers are a slow holder and its
thief; two messages are the answer and one that does not belong.  The bounds are the
constants `Max...`, each used only in the guard of an environment action or of the
input it bounds; `MaxNonce`, `MaxAttempts`, `MaxRounds`, `Ceiling`, `Reserve`, `Limit`,
`Limits` and `MaxRetries` are limits of the code or of its policy.

Deadlock is checked for the identity migration only: everywhere else calls come to
an end and the environment is bounded, so the system may stop.  Symmetry is used
only in runs without liveness and where no property names a single call.

Fairness.  All of it is weak fairness of a live process's next step, which Node's
event loop grants to a pending continuation: `CallStep(c)` in `NonceStore`,
`AcquireStep` and `ReleaseStep` in `RuntimeLock`, `RuntimeStep` in
`AgentRuntime`, `Process` in `PeerSession` (its run loop and the operation it has begun;
requests have a timeout, so the absence of an answer is a step of the process).
`WF(Start)` in `AgentRuntime` and `SF` of `BeginMigrate` in `IdentityMigration`
say that the operator starts a stopped runtime again, and reruns an interrupted
migration with each passphrase and backup, as README.md tells them to; strong
because other operations on the identity come between.  Deaths, failing steps, the
clock, the service, and the operator's other commands are never forced.

## 5. What is proved

For every value of the constants, from the assumptions named with them: types; that the
markers such as `Nobody` or `None`, which stand for an absent file or lock, are none of the
values they mark (`FilesAssumption`, `SessionsAssumption`, `RecordsAssumption`); for the ledger that a task belongs
to one agent and job; for a session that a task belongs to the job of its parent and sits at another peer,
that what a task needs includes its parent and stays within its job, and that flows are
sequences of peers (`PeerSessionAssumption`).

| module | theorem | property |
|---|---|---|
| `StoreProofs` on `NonceStore` | `TypeCorrect`, `Serialized`, `NoncesUnique`, `Durable`, `StepsAreAtomic`, `ImplementsCounter` | `TypeOK`, `SerializedUnlessRaced`, `NoncesUniqueUnlessRaced`, `DurableBeforeUse`, `AtomicUnlessRaced`, refinement of `NonceCounter` |
| `StoreProofs` on `IdentityMigration` | `MigrationTypeCorrect`, `SameDid`, `KeySurvives`, `TruthfulReports`, `PlaintextGoesLast` | all but `MigrationCompletes` |
| `StoreProofs` on `InferenceLedger` | `LedgerTypeCorrect`, `DispatchedOnce`, `UnresolvedBlocks`, `BudgetsHold` | types, `DispatchedOnceAsRecorded`, `OneUnresolvedPerTask`, `BudgetHolds` |
| `RuntimeLockProofs` | `TypeCorrect`, `MutuallyExclusive`, `HolderKeepsRecord`, `RefusalsHaveReasons` | `TypeOK`, `Exclusive`, `RecordSurvives`, `RefusedForAReason` |
| `SignedSendProofs` | `TypeCorrect`, `AtMostOnce`, `OnlyGranted`, `TrueVerdicts`, `TrueReports`, `SendIsOneShot` | `TypeOK`, at most one message, `VerdictsAreTrue`, `ReportsAreTrue`, `ImplementsOneShot` (refinement of `ApprovedEffect`) |
| `AgentRuntimeProofs` | `TypeCorrect`, `OneEffect`, `ReplayIsSafe`, `NothingLeftRunning`, `OutcomesAreFinal`, `SuccessBacked`, `FailedSends` | `TypeOK`, `AtMostOneEffect`, `ReplayableIsUntouched`, `NoTaskLeftRunning`, `SettledStays`, `SuccessIsBacked`, `FailedSendUnlessFault` |
| `InboxProofs` | `TypeCorrect`, `AcknowledgedTaken`, `WindowCurrent`, `StopsHaveReasons` | `TypeOK`, `AcknowledgedIsTaken`, `WindowStaysCurrent`, `StopsForAReason` |
| `PeerSessionProofs` | `EffectsOnce`, `CompletedJobsAreBacked`, `AcknowledgementsAreRecorded`, `DelegatesOnce` | `EffectsAreAccounted` with the types, `CompletedIsBacked`, `AcknowledgedIsRecorded`, `ImplementsDelegation` |
| `PeerSessionProofs` on `ExternalDelivery` | `DeliveriesAreBacked`, `SystemIsSafe`, `SystemDelegatesOnce` | `DeliveryIsBacked`, and the four session properties with the delivery process beside the session (`System`) |
| `OutboundWorkProofs` | `TypeCorrect`, `RecordsTellTheTruth`, `CursorSkipsNothing`, `ResponsesAreBacked`, `EndsAreFinal`, `ExchangesOnce` | `TypeOK`, `VerdictsAreTrue`, `NothingSkipped`, `ResponseIsBacked`, `TerminalStays`, `ImplementsOneExchange` |
| `ExternalBootstrapProofs` | `RecordsAreReadable`, `VerdictsTellTheTruth`, `SilenceIsObserved`, `CursorHasEvidence`, `AcceptanceIsBacked`, `BootstrapsOnce` | `StoredIsReadable`, `VerdictsAreTrue`, `NoResponseIsComplete`, `CursorBehindEvidence`, `AcceptedIsBacked`, `ImplementsOneExchange` |

The three stores are proved about in one module, and their names are kept apart for it.

The arguments.

- Nonce store: being in the section means having created the file at the path
  (`HolderOwnsFile`), until an unlink has taken a live holder's; so nobody writes
  between a call's read and its write, and a computed nonce is still above the
  stored one (`ComputedIsFresh`).  `NoncesUniqueUnlessRaced` alone is not inductive:
  it says nothing of the nonces that are computed and not written yet.
- Runtime lock: the guard serializes acquires (`GuardOwned`), a caller with
  something to run is in a live process (`LiveHosts`), and a record is removed only
  when no live process has its number, which its holder's process has
  (`OwnersRecorded`, `ViewStable`).  A refusal is an inspection, made with the guard; the
  record it reads belongs to a dead process, to a caller that has the lock by then, or to one
  that threw and whose process lives on (`LiveRecordsOwned`).
- Signed send: a consumed approval is held by one call at most (`HoldersMatch`,
  `OneHolder`), only such a call can have a request on the wire (`WiresMatch`), and
  the record is executing for as long as the wire may still change what it will say
  (`SettledMatch`).  Each step is then a step of `ApprovedEffect` or a stutter.
- Agent runtime: an intent log.  The checkpoint of the running task says "possible"
  before anything can leave (`IntentLogged`), the current task is untouched until
  the call (`CurrentUntouched`), and what has no logged intent is untouched
  (`UnloggedUntouched`).  The location of the current task says what evidence it has by
  then (`CurrentBacked`), which is what success is concluded from; and a send whose
  failure is about to be written is untouched, unless a local step threw (`GivenUpUntouched`).
- Identity: the proof follows the plaintext.  Until an encrypted primary was opened
  it is in the primary or the rollback file, so the place is never vacant
  (`SomewherePrimary`, `OpenedFirst`), and a backup is there before it moves
  (`BackedFirst`).
- Ledger: an attempt enters once, so one call at most works on it
  (`OneCallPerAttempt`) and agrees with the state it wrote last (`CallsAgree`).  Budgets
  are sums over attempts, and a sum is not reached by induction here: `Total` is the number
  of `Units`, the pairs of an attempt and one unit of its amount, so what the proof needs of
  a sum are facts about cardinalities (`TotalMonotonic`, `TotalWithOneMore`).  A reported
  amount was charged, and was all of it if the bill is final (`BillsAreTrue`); so an
  admission counts no earlier attempt below what the provider charged, unless that is more
  than the reservation.  What is invariant is that all admitted attempts fit, the dispatched
  ones at their real cost and the others at their reservation (`AdmittedFits`);
  `BudgetHolds` alone speaks of what was dispatched and not of what is about to be.
- Inbox: as long as no call strayed, a call works on the room it owns and nobody
  else does (`Exclusive`, `WindowsOwned`), its window is an interval that starts at
  the cursor (`WindowsWhole`, `Checking`), and all of it that is not left to do is
  taken (`Progress`).  An intake's comparisons fail for a reason because, without one, no
  cursor is ahead of its room (`CursorsBehind`), a complete answer begins with the next
  message (`AnswersUnbroken`) and the same message gives the same payload (`PayloadsAlike`);
  and what is a reason stays one.
- Peer session: again an intent log, kept twice.  Both sessions, in memory and on disk,
  are true of the wire (`RecordsAccounted`): absent or prepared was never sent, failed was
  refused or never sent; and a POST is under way only behind a "sending" in both
  (`IntentFirst`).  Almost every step writes a session that follows the one in memory
  (`Follows`: it calls nothing absent, prepared or failed that the other did not), so a
  save that throws, or a death between two saves, leaves one of two sessions that are
  both true.  `EffectsAreAccounted` alone speaks of the disk only, and a halt writes what is
  in memory.  That no root is owed a result (`Accounted`) keeps every message that is
  prepared one between two tasks.
- Completion, cursors and `Delegation`: one more predicate of a session, which both have to
  satisfy: what it says is so (`Sound`), of the work that was computed and the agents' task
  files (`TrueIn`), of its jobs (`CompletionsIn`) and of what was read from the rooms
  (`ReadInto`).  It holds of the copy in memory and of the file after every save that fails,
  because a change of session either says nothing new (`Grows`) or says what has just become
  true.  A cursor moves one step behind the save, so "read" reaches to the message that is
  being acknowledged (`behind`).  That nothing is done twice needs the converse as well: what
  is not read yet is neither known as received nor computed (`AheadIsNew`), and what is in a
  room was accepted once and went there (`RoomsTrue`).
- Delivery: `DeliveryIsBacked` says nothing of a POST that is about to begin, nor of what
  the session may still do to the record that the delivery has read.  Of the session one
  needs more than its own proof gave: it has counted each POST before it begins (`Counted`),
  a completed job has its root (`Rooted`), and a record that says stopped has no process, nor
  one that can be opened when it has an outside job (`DInv`).  A change of session again
  leaves, in memory and on disk, one that may stand for its predecessor (`Heir`); and once a
  job may be answered, the session's file no longer changes (`Frozen`).  Of the delivery: what its
  operation knows at each location (`OperationFits`), what a record says of approval and POST
  (`RecordsBacked`), and that every POST begun or about to begin is in a record that counts
  it, within what the session left (`WithinLimits`).
- Outbound work: two invariants, since a stolen lock breaks one of them only.  (That Dave is
  asked once rests on his task and not on the record: an announced inference is never taken
  for one that may be made again, `ReviewsOnce`.)  Whatever two
  workers do to one record, the approval is used and Dave is asked once, and each record
  and each worker's copy is backed by what was sent and read (`IInv`): copies are stale but
  never false.  Until a live lock is taken, a worker in a section knows how its copy differs
  from the record (`Knows`), and the record tells how far the exchange is (`Told`).  From
  that come the verdicts, the cursor, final states and the one read.  `StoredIsReadable` is
  false here, which is the finding of `OutboundWork_unreadable`.
- Bootstrap: one operation at a time, so a step is about one handshake (`Touches`) and the
  invariant is a statement about each: of approval, POST and arrival (`Sending`), of what
  the record on disk says of them (`Stands`) and of the retained observation (`Observed`),
  and of what the operation under way knows at each location (`Informed`).  A death leaves
  the files, so `Stands` and `Observed` never mention the operation.

Several of these are proved only: `SerializedUnlessRaced`, `NoncesUniqueUnlessRaced` and
`DurableBeforeUse` of the nonce store, mutual exclusion of runtime-lock holders, the
`AtMostOnce` and `OnlyGranted` of a send, `NoTaskLeftRunning`, the unchanging DID, the
current window of an intake, and the type invariants.  Runs that checked them would
repeat what the theorems say.

Only model-checked: liveness (`CallsReturn`, `AcquireReturns`, `QueueDrains`,
`MigrationCompletes`, `JobsSettle`), which the prover does not reach.

## 6. Where the code and its documents differ

- README.md says the lock files serialize the updates.  A waiter unlinks a stale
  lock in a later step than it judged it (fs-safe.ts:133-134), so a second waiter
  removes the first one's fresh file (`NonceStore_stealrace`).  Every property of
  the lock and the nonce store is therefore stated "unless raced", and the models
  above them inherit that exception.
- `withFileLock` ends a wait after 5 seconds (`LOCK_TIMEOUT_MS`), but tests the deadline only
  when the file is fresh: a stale file whose unlink keeps failing is tried again for ever
  (fs-safe.ts:133-135, `StealFails`; `CallsReturn` excepts that call).
- THREAT-MODEL.md says a possible effect becomes ambiguous.  A local step that throws
  after the message was accepted makes the task failed, without effect,
  which is why `FailedSendUnlessFault` has its condition; the approval record still tells the truth.
- AGENT-ARCHITECTURE.md says the cursor advances only through persisted messages.
  `acknowledgeInbox` loads the mailbox once more and a rotation does not take the
  room's ownership, so the new room's cursor can be advanced by the old room's
  number (a call that strayed, in
  `AcknowledgedIsTaken`).
- AGENT-ARCHITECTURE.md calls re-ingestion after a crash safe.  The payload of the
  task holds the contact's name as it was looked up; a contact added in between
  makes the same message a conflicting input and every later intake stops there
  (`StopsForAReason` names it).
- AGENT-ARCHITECTURE.md calls the runtime lock recoverable after a dead process.  If
  its number is in use again, the lock is refused until that process ends
  (`NumberReused` in `RefusedForAReason`).  And if sync or close throws behind the write of
  the record, or the unlink of a release fails, the record of a live process stays although
  nobody holds the lock (runtime-lock.ts:90-95, 108-110): later acquires are refused until
  that process ends (`LeftBehind`).

- OUTBOUND-EXTERNAL-WORK.md gives `SENDING -> DELIVERY_REJECTED` and lists that state
  among those an operator reads.  When the approval or the nonce refuses before the
  dispatch, the catch block writes it with no POST on record, and `validateStored`
  refuses every such record (`OutboundWork_unreadable`).
- The lock of an outbound job is held across the unlocking of a key and a POST, longer
  than the age at which `withFileLock` takes it.  The thief sees a durable `SENDING` and
  sends nothing, but the slow holder then writes its old copy over the newer record.
  Verdicts and final states of `OutboundWork` are stated "unless raced"; the one request
  is not, and holds.
- PEER-SESSIONS.md says ambiguous work is blocked.  `delegateOwned` sets its job to running
  whatever it was, so a job that waits for its operator over a broken task is running again
  and never closes (`Planned`; `JobsSettle` excepts it as `Broken`).
- PEER-SESSIONS.md says a flow runs its roles, and that a job completes when its work and
  deliveries have.  Both are decided by counting the job's tasks (supervisor.ts:374, 584),
  and the host may add to them.  With a flow of two roles, one host's task before the second
  role completes the job without it, and one behind it leaves the job open for ever
  (`JobsSettle` excepts it as `Overrun`).
  `CompletedIsBacked` therefore says of a flow what the code ensures: as many tasks as roles.
- A proposal from outside whose file says approved, but whose job could not be made,
  cannot be approved again (`ApproveExternal`, `RootExternal`).

## 7. What is not modelled

- Rehearsal: a scripted exchange of eight messages over the runtimes, sends and intakes
  of `AgentRuntime`, `SignedSend` and `Inbox`, with records of its own for halt,
  observation and one-shot application.  Its reconciliation is the next candidate.
- Dashboard controller: it forwards requests to a session or a runtime; what races there
  are the operations of `PeerSession` and `AgentRuntime`.  Discovery: observations appended
  under a file lock; their contradiction of a handshake is `Contradict`.
- Of the peer session: `observeRetained` and effect reconciliation, which write a later
  observation beside an effect that is already settled and decide nothing; the routers'
  methods that no session calls; the parsing, hashing and signature of a policy, which is
  taken to be valid; the order in which peers are served.
- Of what a session hears: messages that do not parse, have no verified sender or ask for what
  no peer may do.  They leave a rejected record behind (supervisor.ts:467-469, 507, 523) that
  nothing reads again.  Of an outside job: the limit on its tasks (`maxTasks`), which only
  refuses a delegation more.
- Of Dave's runtime in an outbound review: the corners of its lock (`RuntimeLock`) and the
  rest of his queue (`AgentRuntime`).
- Of the external exchanges: the contents of requests, evidence and reviews; a response
  is the right one, the wrong one or no one's.
- Pure I/O, presentation and argument parsing: the dashboard's server and page, the
  command lines, diagnostics and redaction have no state of their own.
- Cryptography and formats: a signature is what the service checks, a sealed file is
  a key and its seal; prompts, schemas and message texts are data.
- Reads of a room from the service: one step that answers or fails; its retries
  only delay it.
- The mock transport and the demonstrations, except as the reference for what the
  service does with nonces.
- Memory search, evidence export and role validation read what the modelled
  operations wrote and change nothing.
- The durability of a rename against power loss: a crash is the death of a process.
