----------------------------- MODULE StoreProofs -----------------------------
(***************************************************************************)
(* Proofs about the three private stores that are read, changed and        *)
(* written back under a file lock: IdentityMigration, InferenceLedger and  *)
(* NonceStore, each for every value of its constants.                      *)
(*                                                                         *)
(* The identity store.  The argument follows the plaintext: until an       *)
(* encrypted primary has been opened, the plaintext is in the primary or   *)
(* in the rollback file, so the place is never vacant; and a backup is     *)
(* there before the plaintext moves, so that one damaged file does not     *)
(* cost the key.                                                           *)
(*                                                                         *)
(* The inference ledger.  An attempt enters the ledger once, so one call   *)
(* at most works on it, and that call's place agrees with the state it     *)
(* wrote last.  What follows a death is then decided by the ledger alone.  *)
(* A budget is kept because what is admitted is counted at its reservation *)
(* until its bill is known to be all of it.                                *)
(*                                                                         *)
(* The nonce store.  Until an unlink has removed a live holder's file,     *)
(* being inside the section means having created the file at the path;     *)
(* from that, a computed nonce is still above the stored counter when it   *)
(* is written, and every returned nonce at or below it.                    *)
(***************************************************************************)
EXTENDS IdentityMigration, InferenceLedger, NonceStore, FiniteSetTheorems, TLAPS
-----------------------------------------------------------------------------
(* The identity store and its migration *)

Backed == \E b \in Backups : Holds(file[b])

\* A rollback is plaintext and a candidate encrypted; both, and the primary,
\* belong to the identity there was.
FilesBelong ==
    /\ file["rollback"] # NoFile => Plaintext(file["rollback"])
    /\ file["candidate"] # NoFile => Encrypted(file["candidate"])
    /\ Legacy => \A p \in Artifacts \cup {"primary"} :
                    file[p] # NoFile => file[p].key = origin
    /\ \A p \in Paths : Plaintext(file[p]) => Legacy /\ p \in {"primary", "rollback"}

\* The plaintext exists, or the primary is encrypted.
SomewherePrimary ==
    Legacy /\ file["primary"] = NoFile => file["rollback"] # NoFile

\* Where the files of a migration are at each of its steps.
Staged ==
    /\ stage \in {"backup", "candidate", "mark", "move", "unmark", "undone"} =>
          Plaintext(file["primary"]) /\ file["rollback"] = NoFile
    /\ stage \in {"markMoved", "install", "putBack"} =>
          file["primary"] = NoFile /\ file["rollback"] # NoFile
    /\ stage \in {"mark", "move", "markMoved", "install"} => file["candidate"] # NoFile
    /\ stage \in {"reopen", "markInstalled", "verify", "markVerified", "finish"} =>
          Encrypted(file["primary"]) /\ file["rollback"] # NoFile
    /\ stage \in {"dropRollback", "dropCandidate", "dropMarker", "check", "forget", "done"} =>
          file["primary"] # NoFile

\* The rollback goes after the primary has been opened.
OpenedFirst ==
    Legacy /\ stage \in {"markVerified", "finish", "dropRollback"} => Opens(file["primary"], origin)

\* The backup is there before the plaintext leaves the primary file.
BackedFirst ==
    Legacy /\ damages = 0
    /\ (\/ file["candidate"] # NoFile
        \/ ~Plaintext(file["primary"])
        \/ stage \in {"candidate", "mark", "move"}) => Backed

\* Once no plaintext is left, at most one of primary and backups is damaged.
EncryptedCopies ==
    Legacy /\ ~Plaintext(file["primary"]) /\ file["rollback"] = NoFile =>
        /\ damages = 0 => Holds(file["primary"])
        /\ damages <= 1 => Holds(file["primary"]) \/ Backed

\* What the call has opened so far with its passphrase.
Checked ==
    /\ stage \in {"candidate", "mark", "move"} => Opens(file[backup], file["primary"].key)
    /\ stage \in {"markMoved", "install", "markInstalled", "verify", "markVerified", "finish"} =>
          Opens(file[backup], file["rollback"].key)
    /\ stage \in {"markVerified", "finish"} => Opens(file["primary"], file["rollback"].key)
    /\ stage \in {"dropRollback", "dropCandidate", "dropMarker", "check", "forget", "done"} =>
          Opens(file["primary"], file["primary"].key)
    /\ stage \in {"forget", "done"} => Opens(file[backup], file["primary"].key)

\* What is gone again.
Cleared ==
    /\ stage \in {"markInstalled", "verify", "markVerified", "finish", "dropMarker", "check",
               "forget", "done"} => file["candidate"] = NoFile
    /\ stage \in {"dropCandidate", "dropMarker", "check", "forget", "done"} =>
          file["rollback"] = NoFile
    /\ stage \in {"check", "done"} => ~marker

MigrationIInv ==
    /\ MigrationTypeOK /\ FilesBelong /\ SomewherePrimary /\ Staged /\ Checked /\ Cleared
    /\ OpenedFirst /\ BackedFirst /\ EncryptedCopies

-----------------------------------------------------------------------------

\* The initial state satisfies the inductive invariant.
LEMMA MigrationInitial == MigrationInit => MigrationIInv
<1> SUFFICES ASSUME MigrationInit PROVE MigrationIInv
  OBVIOUS
<1> USE IdentityAssumption DEF MigrationInit, Legacy, Plaintext, Encrypted, Artifacts, Paths
<1>1. MigrationTypeOK
  <2>1. 0 \in 0 .. MaxDeaths /\ 0 \in 0 .. MaxDamages
    OBVIOUS
  <2>2. marker \in BOOLEAN
    OBVIOUS
  <2> QED
    BY <2>1, <2>2 DEF MigrationTypeOK
<1>2. Legacy => file["primary"] = [key |-> origin, seal |-> Plain] /\ Plaintext(file["primary"])
  <2>1. origin \in Keys => [key |-> origin, seal |-> Plain] \in Files
    BY DEF Files, Seals
  <2> QED
    BY <2>1
<1>3. ~Legacy => file["primary"] = NoFile
  OBVIOUS
<1> QED
  BY <1>1, <1>2, <1>3 DEF MigrationIInv, FilesBelong, SomewherePrimary, Staged, Checked, Cleared, OpenedFirst, BackedFirst,
     EncryptedCopies

\* Where the files are after one of them has been renamed, written or removed.
LEMMA Moved ==
    ASSUME MigrationTypeOK, NEW from \in Paths, NEW to \in Paths, from # to,
           file' = [file EXCEPT ![to] = file[from], ![from] = NoFile]
    PROVE  /\ file' \in [Paths -> Files \cup {NoFile}]
           /\ file'[to] = file[from] /\ file'[from] = NoFile
           /\ \A p \in Paths \ {from, to} : file'[p] = file[p]
BY DEF MigrationTypeOK

LEMMA Placed ==
    ASSUME MigrationTypeOK, NEW p \in Paths, NEW f \in Files \cup {NoFile}, Place(p, f)
    PROVE  /\ file' \in [Paths -> Files \cup {NoFile}]
           /\ file'[p] = f
           /\ \A q \in Paths \ {p} : file'[q] = file[q]
BY DEF MigrationTypeOK, Place

\* Every step preserves it: one case per action.
LEMMA MigrationInductive == MigrationIInv /\ [MigrationNext]_migrationVars => MigrationIInv'
<1> SUFFICES ASSUME MigrationIInv, [MigrationNext]_migrationVars PROVE MigrationIInv'
  OBVIOUS
<1> USE IdentityAssumption DEF MigrationIInv, MigrationTypeOK, FilesBelong, SomewherePrimary, Staged, Checked, Cleared, OpenedFirst,
    BackedFirst, EncryptedCopies, Legacy, Plaintext, Encrypted, Holds, Opens, Backed, rest,
    Artifacts, Paths, Recovering, Migrating
<1>1. ASSUME NEW p \in Passphrases, NEW b \in Backups, BeginMigrate(p, b) PROVE MigrationIInv'
  BY <1>1 DEF BeginMigrate
<1>2. CASE Create \/ Restore
  <2>1. PICK f \in Files : /\ Place("primary", f) /\ Encrypted(f) /\ file["rollback"] = NoFile
                           /\ file["primary"] = NoFile
                           /\ stage' = "idle" /\ UNCHANGED <<marker, rest>>
    <3>1. CASE Create
      <4>1. PICK k \in Keys, q \in Passphrases : Place("primary", [key |-> k, seal |-> q])
        BY <3>1 DEF Create
      <4>2. [key |-> k, seal |-> q] \in Files
        BY DEF Files, Seals
      <4> QED
        BY <3>1, <4>1, <4>2 DEF Create, Vacant
    <3>2. CASE Restore
      <4>1. PICK b \in Backups : Encrypted(file[b]) /\ Place("primary", file[b])
        BY <3>2 DEF Restore
      <4> QED
        BY <3>2, <4>1 DEF Restore, Vacant
    <3> QED
      BY <1>2, <3>1, <3>2
  <2> QED
    BY <2>1, Placed
<1>3. CASE Die
  BY <1>3 DEF Die, Throw
<1>4. ASSUME NEW p \in Paths, Damage(p) PROVE MigrationIInv'
  BY <1>4 DEF Damage, Place, Files, Seals
<1>5. CASE RecoverEncrypted
  BY <1>5 DEF RecoverEncrypted, LeftoversAgree, Throw
<1>6. CASE RecoverUnreadable
  <2>1. CASE UNCHANGED file /\ stage' = "idle" /\ UNCHANGED <<marker, rest>>
    BY <2>1
  <2>2. CASE /\ Place("primary", NoFile) /\ stage' = "putBack" /\ UNCHANGED <<marker, rest>>
             /\ Plaintext(file["rollback"])
             /\ Encrypted(file["primary"])
    <3>1. file["primary"] # NoFile /\ file["rollback"] # NoFile
      BY <2>2
    <3>2. /\ file' \in [Paths -> Files \cup {NoFile}]
          /\ file'["primary"] = NoFile
          /\ \A q \in Paths \ {"primary"} : file'[q] = file[q]
      BY <2>2, Placed
    <3>3. \A b \in Backups : file'[b] = file[b]
      BY <3>2
    <3>4. MigrationTypeOK' /\ FilesBelong'
      BY <2>2, <3>2
    <3>5. OpenedFirst' /\ BackedFirst' /\ EncryptedCopies'
      BY <2>2, <3>1, <3>2, <3>3
    <3> QED
      BY <2>2, <3>1, <3>2, <3>4, <3>5
  <2> QED
    BY <1>6, <2>1, <2>2 DEF RecoverUnreadable, Throw
<1>7. CASE RecoverPlaintext
  BY <1>7 DEF RecoverPlaintext, Throw
<1>8. CASE RecoverMoved
  <2>1. CASE UNCHANGED <<file, marker, rest>> /\ stage' = "idle"
    BY <2>1
  <2>2. CASE /\ file' = [file EXCEPT !["primary"] = file["rollback"], !["rollback"] = NoFile]
             /\ Plaintext(file["rollback"])
             /\ stage' = "unmark" /\ UNCHANGED <<marker, rest>>
    BY <2>2, Moved
  <2>3. CASE /\ file' = [file EXCEPT !["primary"] = file["candidate"], !["candidate"] = NoFile]
             /\ Plaintext(file["rollback"])
             /\ Opens(file["candidate"], file["rollback"].key)
             /\ stage' = "reopen" /\ UNCHANGED <<marker, rest>>
    <3>1. file["primary"] = NoFile
      BY <1>8 DEF RecoverMoved
    <3> QED
      BY <2>3, <3>1, Moved
  <2> QED
    BY <1>8, <2>1, <2>2, <2>3 DEF RecoverMoved, MoveFile, Throw
<1>9. ASSUME NEW l, NEW after, VerifyPrimary(l, after),
             <<l, after>> \in {<<"reopen", "dropRollback">>, <<"verify", "markVerified">>}
      PROVE  MigrationIInv'
  BY <1>9 DEF VerifyPrimary, Throw
<1>10. CASE CheckBackup
  BY <1>10 DEF CheckBackup, Throw
<1>11. CASE MoveFile("putBack", "rollback", "primary", "undone")
  <2>1. CASE UNCHANGED <<file, marker, rest>> /\ stage' = "idle"
    BY <2>1
  <2>2. CASE /\ file' = [file EXCEPT !["primary"] = file["rollback"], !["rollback"] = NoFile]
             /\ stage = "putBack" /\ stage' = "undone" /\ UNCHANGED <<marker, rest>>
    BY <2>2, Moved
  <2> QED
    BY <1>11, <2>1, <2>2 DEF MoveFile, Throw
<1>12. CASE MoveFile("move", "primary", "rollback", "markMoved")
  <2>1. CASE UNCHANGED <<file, marker, rest>> /\ stage' = "idle"
    BY <2>1
  <2>2. CASE /\ file' = [file EXCEPT !["rollback"] = file["primary"], !["primary"] = NoFile]
             /\ stage = "move" /\ stage' = "markMoved" /\ UNCHANGED <<marker, rest>>
    BY <2>2, Moved
  <2> QED
    BY <1>12, <2>1, <2>2 DEF MoveFile, Throw
<1>13. CASE MoveFile("install", "candidate", "primary", "markInstalled")
  <2>1. CASE UNCHANGED <<file, marker, rest>> /\ stage' = "idle"
    BY <2>1
  <2>2. CASE /\ file' = [file EXCEPT !["primary"] = file["candidate"], !["candidate"] = NoFile]
             /\ stage = "install" /\ stage' = "markInstalled" /\ UNCHANGED <<marker, rest>>
    BY <2>2, Moved
  <2> QED
    BY <1>13, <2>1, <2>2 DEF MoveFile, Throw
<1>14. ASSUME NEW l, NEW after, WriteMarker(l, after),
              <<l, after>> \in {<<"mark", "move">>, <<"markMoved", "install">>,
                               <<"markInstalled", "verify">>, <<"markVerified", "finish">>}
       PROVE  MigrationIInv'
  BY <1>14 DEF WriteMarker
<1>15. ASSUME NEW l, NEW after, DropMarker(l, after),
              <<l, after>> \in {<<"undone", "idle">>, <<"unmark", "backup">>,
                               <<"dropMarker", "check">>, <<"forget", "done">>}
       PROVE  MigrationIInv'
  BY <1>15 DEF DropMarker
<1>16. CASE DropFile("dropRollback", "rollback", "dropCandidate")
  BY <1>16 DEF DropFile, Place
<1>17. CASE DropFile("dropCandidate", "candidate", "dropMarker")
  BY <1>17 DEF DropFile, Place
<1>18. CASE DropFile("finish", "rollback", "forget")
  BY <1>18 DEF DropFile, Place
<1>19. CASE PrepareFile("backup", backup, "candidate")
  <2>1. stage = "backup" /\ Plaintext(file["primary"]) /\ UNCHANGED <<marker, rest>>
    BY <1>19 DEF PrepareFile, Throw
  <2>2. CASE UNCHANGED file /\ stage' = "idle"
    BY <2>1, <2>2
  <2>3. CASE UNCHANGED file /\ Opens(file[backup], file["primary"].key) /\ stage' = "candidate"
    BY <2>1, <2>3
  <2>4. CASE Place(backup, [key |-> file["primary"].key, seal |-> pass]) /\ stage' = "candidate"
    <3>1. [key |-> file["primary"].key, seal |-> pass] \in Files
      BY <2>1 DEF Files, Seals
    <3> QED
      BY <2>1, <2>4, <3>1, Placed
  <2> QED
    BY <1>19, <2>2, <2>3, <2>4 DEF PrepareFile, Throw
<1>20. CASE PrepareFile("candidate", "candidate", "mark")
  <2>1. stage = "candidate" /\ Plaintext(file["primary"]) /\ UNCHANGED <<marker, rest>>
    BY <1>20 DEF PrepareFile, Throw
  <2>2. CASE UNCHANGED file /\ stage' = "idle"
    BY <2>1, <2>2
  <2>3. CASE UNCHANGED file /\ Opens(file["candidate"], file["primary"].key) /\ stage' = "mark"
    BY <2>1, <2>3
  <2>4. CASE Place("candidate", [key |-> file["primary"].key, seal |-> pass]) /\ stage' = "mark"
    <3>1. [key |-> file["primary"].key, seal |-> pass] \in Files
      BY <2>1 DEF Files, Seals
    <3> QED
      BY <2>1, <2>4, <3>1, Placed
  <2> QED
    BY <1>20, <2>2, <2>3, <2>4 DEF PrepareFile, Throw
<1>21. CASE UNCHANGED migrationVars
  BY <1>21 DEF migrationVars
<1> QED
  BY <1>1, <1>2, <1>3, <1>4, <1>5, <1>6, <1>7, <1>8, <1>9, <1>10, <1>11, <1>12, <1>13, <1>14,
     <1>15, <1>16, <1>17, <1>18, <1>19, <1>20, <1>21 DEF MigrationNext, RecoverStep, MigrateStep

\* The inductive invariant holds in every reachable state.
LEMMA MigrationInvariance == MigrationSpec => []MigrationIInv
BY MigrationInitial, MigrationInductive, PTL DEF MigrationSpec

\* The files, the marker, the operation and the bounds keep their types.
THEOREM MigrationTypeCorrect == MigrationSpec => []MigrationTypeOK
<1>1. MigrationIInv => MigrationTypeOK
  BY DEF MigrationIInv
<1> QED
  BY <1>1, MigrationInvariance, PTL

\* However migrations are interrupted, rerun and mixed with create and restore,
\* the primary file holds the key of the identity that was there.
THEOREM SameDid == MigrationSpec => []DidPreserved
<1>1. MigrationIInv => DidPreserved
  BY DEF MigrationIInv, FilesBelong, DidPreserved
<1> QED
  BY <1>1, MigrationInvariance, PTL

\* One damaged encrypted file does not cost the key at any moment.
THEOREM KeySurvives == MigrationSpec => []KeyNeverLost
<1>1. MigrationIInv => KeyNeverLost
  <2> SUFFICES ASSUME MigrationIInv, Legacy, damages <= 1
               PROVE  \E p \in Paths : Holds(file[p])
    BY DEF KeyNeverLost
  <2> USE DEF MigrationIInv, FilesBelong, Plaintext, Holds, Paths, Artifacts
  <2>1. CASE Plaintext(file["primary"])
    BY <2>1, IdentityAssumption
  <2>2. CASE file["rollback"] # NoFile
    BY <2>2, IdentityAssumption
  <2>3. CASE ~Plaintext(file["primary"]) /\ file["rollback"] = NoFile
    BY <2>3 DEF EncryptedCopies, Backed
  <2> QED
    BY <2>1, <2>2, <2>3
<1> QED
  BY <1>1, MigrationInvariance, PTL

\* A reported migration is complete: the identity and the backup of this call
\* open, and nothing is left over.
THEOREM TruthfulReports == MigrationSpec => []ReportsAreTrue
<1>1. MigrationIInv => ReportsAreTrue
  BY DEF MigrationIInv, Checked, Cleared, ReportsAreTrue, Artifacts
<1> QED
  BY <1>1, MigrationInvariance, PTL

\* The last plaintext copy goes only after the installed identity has been opened
\* to the exact DID.
THEOREM PlaintextGoesLast == MigrationSpec => PlaintextOutlivesDoubt
<1> DEFINE Good == /\ Opens(file["primary"], origin)
                   /\ damages = 0 => \E b \in Backups : Holds(file[b])
<1>1. MigrationIInv /\ [MigrationNext]_migrationVars => [HasPlaintext /\ ~HasPlaintext' => Good]_migrationVars
  <2> SUFFICES ASSUME MigrationIInv, MigrationNext, HasPlaintext, ~HasPlaintext' PROVE Good
    OBVIOUS
  <2>1. PICK q \in {"primary", "rollback"} : Plaintext(file[q]) /\ ~Plaintext(file'[q]) /\ Legacy
    BY DEF MigrationIInv, FilesBelong, HasPlaintext, Paths, Plaintext
  <2> USE IdentityAssumption DEF MigrationIInv, MigrationTypeOK, Plaintext, Encrypted, Artifacts, Paths
  <2>2. ~UNCHANGED file
    BY <2>1
  <2>3. ASSUME NEW from \in Paths, NEW to \in Paths, NEW l, NEW after, from # to,
               MoveFile(l, from, to, after)
        PROVE  FALSE
    <3>1. file' = [file EXCEPT ![to] = file[from], ![from] = NoFile] /\ file[to] = NoFile
      BY <2>2, <2>3 DEF MoveFile, Throw
    <3>2. file'[IF q = from THEN to ELSE q] = file[q]
      BY <2>1, <2>3, <3>1, Moved
    <3> QED
      BY <2>1, <3>2 DEF HasPlaintext
  <2>4. ASSUME NEW p \in Paths, NEW f, Place(p, f), p # q
        PROVE  FALSE
    BY <2>1, <2>4 DEF Place
  <2>5. CASE DropFile("finish", "rollback", "forget") \/ DropFile("dropRollback", "rollback", "dropCandidate")
    BY <2>1, <2>5 DEF DropFile, OpenedFirst, BackedFirst, Backed, Opens
  <2>6. CASE DropFile("dropCandidate", "candidate", "dropMarker")
    BY <2>4, <2>6 DEF DropFile
  <2>7. CASE Create \/ Restore
    BY <2>1, <2>7 DEF Create, Restore, Vacant
  <2>8. CASE RecoverUnreadable
    BY <2>1, <2>2, <2>4, <2>8 DEF RecoverUnreadable, Throw
  <2>9. ASSUME NEW p \in Paths, Damage(p) PROVE FALSE
    BY <2>1, <2>4, <2>9 DEF Damage
  <2>10. ASSUME NEW p \in Paths, NEW l, NEW after, PrepareFile(l, p, after) PROVE FALSE
    BY <2>1, <2>2, <2>4, <2>10 DEF PrepareFile, Throw
  <2>11. ASSUME RecoverMoved PROVE FALSE
    BY <2>2, <2>3, <2>11 DEF RecoverMoved, Throw
  <2>12. ~RecoverEncrypted /\ ~RecoverPlaintext /\ ~CheckBackup /\ ~Die
    BY <2>2 DEF RecoverEncrypted, RecoverPlaintext, CheckBackup, Die, Throw
  <2>13. \A l, after : ~VerifyPrimary(l, after) /\ ~DropMarker(l, after) /\ ~WriteMarker(l, after)
    BY <2>2 DEF VerifyPrimary, DropMarker, WriteMarker, Throw
  <2>14. \A p, b : ~BeginMigrate(p, b)
    BY <2>2 DEF BeginMigrate
  <2> QED
    BY <2>3, <2>5, <2>6, <2>7, <2>8, <2>9, <2>10, <2>11, <2>12, <2>13, <2>14
       DEF MigrationNext, RecoverStep, MigrateStep
<1> QED
  BY <1>1, MigrationInvariance, PTL DEF MigrationSpec, PlaintextOutlivesDoubt

-----------------------------------------------------------------------------
(* The inference ledger *)

Working == {"decide", "intend", "dispatch", "inflight", "settle"}

\* A working call has an attempt of its own, in the state it wrote last.
CallsAgree ==
    \A c \in Calls :
        phase[c] \in Working =>
            /\ attempt[c] \in Attempts
            /\ phase[c] = "decide" => state[attempt[c]] = "planned"
            /\ phase[c] = "intend" => state[attempt[c]] = "reserved"
            /\ phase[c] \in {"dispatch", "inflight", "settle"} => state[attempt[c]] = "running"
            /\ phase[c] \in {"decide", "intend", "dispatch"} => dispatches[attempt[c]] = 0

OneCallPerAttempt ==
    \A c, d \in Calls :
        phase[c] \in Working /\ phase[d] \in Working /\ attempt[c] = attempt[d] => c = d

\* Only the holder of the file lock is between two writes of its transaction.
HolderDecides == \A c \in Calls : phase[c] \in {"decide", "intend"} => holder = c

LedgerIInv ==
    /\ LedgerTypeOK /\ CallsAgree /\ OneCallPerAttempt /\ HolderDecides
    /\ DispatchedOnceAsRecorded /\ OneUnresolvedPerTask

-----------------------------------------------------------------------------

\* The initial state satisfies the inductive invariant.
LEMMA LedgerInitial == LedgerInit => LedgerIInv
BY InferenceLedgerAssumption DEF LedgerInit, LedgerIInv, LedgerTypeOK, CallsAgree, OneCallPerAttempt, HolderDecides,
    DispatchedOnceAsRecorded, OneUnresolvedPerTask, States, Settled, Unresolved, Working,
    Answers, NoAnswer, Amounts

\* Every step preserves it: one case per action.
LEMMA LedgerInductive == LedgerIInv /\ [LedgerNext]_ledgerVars => LedgerIInv'
<1> SUFFICES ASSUME LedgerIInv, [LedgerNext]_ledgerVars PROVE LedgerIInv'
  OBVIOUS
<1> USE InferenceLedgerAssumption DEF LedgerIInv, LedgerTypeOK, CallsAgree, OneCallPerAttempt, HolderDecides,
    DispatchedOnceAsRecorded, OneUnresolvedPerTask, States, Settled, Unresolved, Working,
    Proceed, End, Record, ledger, world
<1>0. NoAnswer \in Answers
  BY DEF NoAnswer, Answers
<1>1. ASSUME NEW c \in Calls, NEW a \in Attempts, Plan(c, a) PROVE LedgerIInv'
  <2>1. CASE Refused(a)
    <3>1. /\ phase' = [phase EXCEPT ![c] = "over"] /\ attempt' = [attempt EXCEPT ![c] = None]
          /\ answer' = [answer EXCEPT ![c] = NoAnswer]
          /\ UNCHANGED <<state, holder, spent, final, dispatches, cost, failures>>
      BY <1>1, <2>1 DEF Plan
    <3> QED
      BY <1>0, <3>1
  <2>2. CASE ~Refused(a)
    <3>1. /\ state' = [state EXCEPT ![a] = "planned"] /\ holder' = c /\ holder = None
          /\ attempt' = [attempt EXCEPT ![c] = a] /\ phase' = [phase EXCEPT ![c] = "decide"]
          /\ UNCHANGED <<answer, spent, final, dispatches, cost, failures>>
      BY <1>1, <2>2 DEF Plan
    <3>2. /\ state[a] = "absent"
          /\ \A b \in Attempts : Task[b] = Task[a] => state[b] \notin Unresolved
      BY <2>2 DEF Refused
    <3>3. dispatches[a] = 0
      BY <3>2
    <3>4. \A d \in Calls : phase[d] \in Working => attempt[d] # a
      BY <3>2
    <3>5. LedgerTypeOK'
      BY <3>1
    <3>6. CallsAgree' /\ OneCallPerAttempt'
      BY <3>1, <3>3, <3>4
    <3>7. HolderDecides'
      BY <3>1
    <3>8. DispatchedOnceAsRecorded' /\ OneUnresolvedPerTask'
      BY <3>1, <3>2, <3>3
    <3> QED
      BY <3>5, <3>6, <3>7, <3>8
  <2> QED
    BY <2>1, <2>2
<1>2. ASSUME NEW c \in Calls, Decide(c) PROVE LedgerIInv'
  <2>0. /\ attempt[c] \in Attempts /\ state[attempt[c]] = "planned"
        /\ dispatches[attempt[c]] = 0 /\ holder = c
    BY <1>2 DEF Decide
  <2>1. CASE WithinBudget(attempt[c])
    <3>1. /\ state' = [state EXCEPT ![attempt[c]] = "reserved"]
          /\ phase' = [phase EXCEPT ![c] = "intend"]
          /\ UNCHANGED <<attempt, answer, holder, spent, final, dispatches, cost, failures>>
      BY <1>2, <2>1 DEF Decide
    <3> QED
      BY <2>0, <3>1
  <2>2. CASE ~WithinBudget(attempt[c])
    <3>1. /\ state' = [state EXCEPT ![attempt[c]] = "cancelled"] /\ holder' = None
          /\ phase' = [phase EXCEPT ![c] = "over"] /\ attempt' = [attempt EXCEPT ![c] = None]
          /\ answer' = [answer EXCEPT ![c] = NoAnswer]
          /\ UNCHANGED <<spent, final, dispatches, cost, failures>>
      BY <1>2, <2>2 DEF Decide
    <3>2. \A d \in Calls : phase[d] \in {"decide", "intend"} => d = c
      BY <2>0
    <3> QED
      BY <1>0, <2>0, <3>1, <3>2
  <2> QED
    BY <2>1, <2>2
<1>3. ASSUME NEW c \in Calls, Intend(c) PROVE LedgerIInv'
  BY <1>3 DEF Intend
<1>4. ASSUME NEW c \in Calls, Dispatch(c) PROVE LedgerIInv'
  BY <1>4 DEF Dispatch
<1>5. ASSUME NEW c \in Calls, Return(c) PROVE LedgerIInv'
  BY <1>5 DEF Return
<1>6. ASSUME NEW c \in Calls, Unanswered(c) PROVE LedgerIInv'
  BY <1>0, <1>6 DEF Unanswered
<1>7. ASSUME NEW c \in Calls, Settle(c) PROVE LedgerIInv'
  <2>1. answer[c].outcome \in Settled /\ answer[c].spent \in Amounts \cup {None}
        /\ answer[c].final \in BOOLEAN
    BY DEF Answers
  <2> QED
    BY <1>0, <1>7, <2>1 DEF Settle
<1>8. ASSUME NEW c \in Calls, Fail(c) PROVE LedgerIInv'
  BY <1>0, <1>8 DEF Fail
<1>9. CASE UNCHANGED ledgerVars
  BY <1>9 DEF ledgerVars
<1> QED
  BY <1>1, <1>2, <1>3, <1>4, <1>5, <1>6, <1>7, <1>8, <1>9 DEF LedgerNext

\* The inductive invariant holds in every reachable state.
LEMMA LedgerInvariance == LedgerSpec => []LedgerIInv
BY LedgerInitial, LedgerInductive, PTL DEF LedgerSpec

\* The ledger, the lock and the calls keep their types.
THEOREM LedgerTypeCorrect == LedgerSpec => []LedgerTypeOK
<1>1. LedgerIInv => LedgerTypeOK
  BY DEF LedgerIInv
<1> QED
  BY <1>1, LedgerInvariance, PTL

\* No attempt is dispatched twice, and none without a durable intent, whichever
\* calls repeat it and die.
THEOREM DispatchedOnce == LedgerSpec => []DispatchedOnceAsRecorded
<1>1. LedgerIInv => DispatchedOnceAsRecorded
  BY DEF LedgerIInv
<1> QED
  BY <1>1, LedgerInvariance, PTL

\* No attempt of a task is planned while another one of it is unresolved.
THEOREM UnresolvedBlocks == LedgerSpec => []OneUnresolvedPerTask
<1>1. LedgerIInv => OneUnresolvedPerTask
  BY DEF LedgerIInv
<1> QED
  BY <1>1, LedgerInvariance, PTL

-----------------------------------------------------------------------------
(* The budgets of the inference ledger *)

\* The attempts that were let through the budget.
Admitted(a, s) == {b \in Bucket(a, s) : state[b] \notin {"absent", "planned", "cancelled"}}

\* What an attempt costs, or is taken to cost as long as it was not dispatched.
Paid(s) == [b \in Attempts |-> IF dispatches[b] > 0 THEN cost[b] ELSE Reserve[s]]

Modest(s, S) == \A b \in S : dispatches[b] > 0 => cost[b] <= Reserve[s]

\* Every bucket's admitted attempts fit, and the ledger is never infinite.
AdmittedFits ==
    /\ IsFiniteSet({b \in Attempts : state[b] # "absent"})
    /\ \A a \in Attempts, s \in Scopes :
          /\ Cardinality(Admitted(a, s)) <= MaxAttempts[s]
          /\ Modest(s, Admitted(a, s)) => Total(Paid(s), Admitted(a, s)) <= Ceiling[s]

\* A reported amount was charged, and is all of it if the bill is final.
TrueBill(b, m, conclusive) ==
    m # None => m \in Amounts /\ dispatches[b] > 0 /\ m <= cost[b] /\ (conclusive => m = cost[b])

BillsAreTrue ==
    /\ \A b \in Attempts : /\ TrueBill(b, spent[b], final[b])
                           /\ state[b] \notin Settled => spent[b] = None
    /\ \A c \in Calls :
          /\ phase[c] = "inflight" => dispatches[attempt[c]] > 0
          /\ phase[c] = "settle" => TrueBill(attempt[c], answer[c].spent, answer[c].final)

\* The units of finitely many amounts are finitely many.
LEMMA UnitsFinite ==
    ASSUME NEW S, IsFiniteSet(S), NEW n \in Nat, NEW amount, \A b \in S : amount[b] \in 0 .. n
    PROVE  IsFiniteSet(Units(amount, S))
<1>1. IsFiniteSet(S \X (1 .. n))
  <2>1. IsFiniteSet(1 .. n)
    BY FS_Interval
  <2> QED
    BY <2>1, FS_Product
<1>2. Units(amount, S) \in SUBSET (S \X (1 .. n))
  <2> SUFFICES ASSUME NEW b \in S, NEW u \in {b} \X (1 .. amount[b])
               PROVE  u \in S \X (1 .. n)
    BY DEF Units
  <2> QED
    OBVIOUS
<1> QED
  BY <1>1, <1>2, FS_Subset

\* A total grows with the set and with the amounts.
LEMMA TotalMonotonic ==
    ASSUME NEW S, NEW T, IsFiniteSet(T), S \subseteq T,
           NEW n \in Nat, NEW f, NEW g, \A b \in T : g[b] \in 0 .. n,
           \A b \in S : f[b] \in Nat /\ f[b] <= g[b]
    PROVE  Total(f, S) \in Nat /\ Total(g, T) \in Nat /\ Total(f, S) <= Total(g, T)
<1>1. Units(f, S) \in SUBSET Units(g, T)
  <2> SUFFICES ASSUME NEW b \in S, NEW u \in {b} \X (1 .. f[b])
               PROVE  u \in Units(g, T)
    BY DEF Units
  <2>1. b \in T /\ g[b] \in Nat
    OBVIOUS
  <2>2. u \in {b} \X (1 .. g[b])
    BY <2>1
  <2> QED
    BY <2>1, <2>2 DEF Units
<1>2. IsFiniteSet(Units(g, T))
  BY UnitsFinite
<1> QED
  BY <1>1, <1>2, FS_Subset, FS_CardinalityType DEF Total

\* An amount has as many units as it says.
LEMMA UnitsOfOne ==
    ASSUME NEW a, NEW m \in Nat
    PROVE  IsFiniteSet({a} \X (1 .. m)) /\ Cardinality({a} \X (1 .. m)) = m
<1>1. IsFiniteSet(1 .. m) /\ Cardinality(1 .. m) = IF 1 > m THEN 0 ELSE m - 1 + 1
  <2>1. 1 \in Int /\ m \in Int
    OBVIOUS
  <2> QED
    BY <2>1, FS_Interval
<1>2. Cardinality(1 .. m) = m
  BY <1>1
<1>3. IsFiniteSet({a}) /\ Cardinality({a}) = 1
  BY FS_Singleton
<1>4. /\ IsFiniteSet({a} \X (1 .. m))
      /\ Cardinality({a} \X (1 .. m)) = Cardinality({a}) * Cardinality(1 .. m)
  BY <1>1, <1>3, FS_Product
<1>5. 1 * m = m
  OBVIOUS
<1> QED
  BY <1>2, <1>3, <1>4, <1>5

\* One more element adds its amount at most.
LEMMA TotalWithOneMore ==
    ASSUME NEW S, IsFiniteSet(S), NEW a, NEW n \in Nat, NEW f, \A b \in S \cup {a} : f[b] \in 0 .. n
    PROVE  /\ Total(f, S \cup {a}) <= Total(f, S) + f[a]
           /\ Total(f, S \cup {a}) \in Nat /\ Total(f, S) \in Nat
<1>1. Units(f, S \cup {a}) = Units(f, S) \cup ({a} \X (1 .. f[a]))
  BY DEF Units
<1>2. IsFiniteSet(Units(f, S)) /\ Cardinality(Units(f, S)) \in Nat
  <2>1. IsFiniteSet(Units(f, S))
    BY UnitsFinite
  <2> QED
    BY <2>1, FS_CardinalityType
<1>3. IsFiniteSet({a} \X (1 .. f[a])) /\ Cardinality({a} \X (1 .. f[a])) = f[a]
  <2>1. f[a] \in Nat
    OBVIOUS
  <2> QED
    BY <2>1, UnitsOfOne
<1>4. /\ IsFiniteSet(Units(f, S) \cap ({a} \X (1 .. f[a])))
      /\ Cardinality(Units(f, S) \cap ({a} \X (1 .. f[a]))) \in Nat
  <2>1. IsFiniteSet(Units(f, S) \cap ({a} \X (1 .. f[a])))
    BY <1>2, FS_Intersection
  <2> QED
    BY <2>1, FS_CardinalityType
<1>5. Cardinality(Units(f, S) \cup ({a} \X (1 .. f[a])))
        = Cardinality(Units(f, S)) + Cardinality({a} \X (1 .. f[a]))
            - Cardinality(Units(f, S) \cap ({a} \X (1 .. f[a])))
  BY <1>2, <1>3, FS_Union
<1>6. f[a] \in Nat
  OBVIOUS
<1>7. \A x, y, z \in Nat : x + y - z <= x + y
  OBVIOUS
<1>8. Cardinality(Units(f, S) \cup ({a} \X (1 .. f[a]))) \in Nat
  <2>1. IsFiniteSet(Units(f, S) \cup ({a} \X (1 .. f[a])))
    BY <1>2, <1>3, FS_Union
  <2> QED
    BY <2>1, FS_CardinalityType
<1> QED
  BY <1>1, <1>2, <1>3, <1>4, <1>5, <1>6, <1>7, <1>8 DEF Total

\* The ledger's bills stay true: an attempt is charged for one dispatch, before its
\* answer.
LEMMA BillsInductive == LedgerIInv /\ BillsAreTrue /\ [LedgerNext]_ledgerVars => BillsAreTrue'
<1> SUFFICES ASSUME LedgerIInv, BillsAreTrue, [LedgerNext]_ledgerVars PROVE BillsAreTrue'
  OBVIOUS
<1> USE InferenceLedgerAssumption DEF LedgerIInv, LedgerTypeOK, CallsAgree, BillsAreTrue, TrueBill,
    Proceed, End, Record, ledger, world, Working
<1>0. NoAnswer.spent = None /\ NoAnswer \in Answers
  BY DEF NoAnswer, Answers, Amounts, Settled
<1>1. ASSUME NEW c \in Calls, NEW a \in Attempts, Plan(c, a) PROVE BillsAreTrue'
  BY <1>0, <1>1 DEF Plan, Refused, Settled
<1>2. ASSUME NEW c \in Calls, Decide(c) PROVE BillsAreTrue'
  BY <1>0, <1>2 DEF Decide, Settled
<1>3. ASSUME NEW c \in Calls, Intend(c) PROVE BillsAreTrue'
  BY <1>3 DEF Intend, Settled
<1>4. ASSUME NEW c \in Calls, Dispatch(c) PROVE BillsAreTrue'
  <2>1. attempt[c] \in Attempts /\ state[attempt[c]] = "running" /\ dispatches[attempt[c]] = 0
    BY <1>4 DEF Dispatch
  <2>2. \A d \in Calls : phase[d] = "settle" => attempt[d] \in Attempts /\ attempt[d] # attempt[c]
    BY <1>4 DEF Dispatch, OneCallPerAttempt
  <2>3. /\ dispatches' = [dispatches EXCEPT ![attempt[c]] = @ + 1]
        /\ \A b \in Attempts \ {attempt[c]} : cost'[b] = cost[b]
        /\ phase' = [phase EXCEPT ![c] = "inflight"]
        /\ UNCHANGED <<state, spent, final, attempt, answer>>
    BY <1>4 DEF Dispatch
  <2>4. \A b \in Attempts \ {attempt[c]} : dispatches'[b] = dispatches[b] /\ cost'[b] = cost[b]
    BY <2>3
  <2>5. spent[attempt[c]] = None
    BY <2>1 DEF Settled
  <2> QED
    BY <2>1, <2>2, <2>3, <2>4, <2>5
<1>5. ASSUME NEW c \in Calls, Return(c) PROVE BillsAreTrue'
  <2>1. attempt[c] \in Attempts
    BY <1>5 DEF Return
  <2>2. PICK r \in Answers : /\ r.spent # None => r.spent <= cost[attempt[c]]
                             /\ r.spent # None /\ r.final => r.spent = cost[attempt[c]]
                             /\ answer' = [answer EXCEPT ![c] = r]
    BY <1>5 DEF Return
  <2>3. TrueBill(attempt[c], r.spent, r.final)
    BY <1>5, <2>1, <2>2 DEF Return, Answers
  <2> QED
    BY <1>5, <2>1, <2>2, <2>3 DEF Return
<1>6. ASSUME NEW c \in Calls, Unanswered(c) PROVE BillsAreTrue'
  BY <1>0, <1>6 DEF Unanswered
<1>7. ASSUME NEW c \in Calls, Settle(c) PROVE BillsAreTrue'
  <2>1. answer[c].outcome \in Settled /\ answer[c].spent \in Amounts \cup {None}
        /\ answer[c].final \in BOOLEAN /\ attempt[c] \in Attempts
    BY <1>7 DEF Answers, Settle
  <2>2. TrueBill(attempt[c], answer[c].spent, answer[c].final)
    BY <1>7 DEF Settle
  <2>3. /\ spent' = [spent EXCEPT ![attempt[c]] = answer[c].spent]
        /\ final' = [final EXCEPT ![attempt[c]] = answer[c].final]
        /\ phase' = [phase EXCEPT ![c] = "over"]
        /\ attempt' = [attempt EXCEPT ![c] = None]
        /\ answer' = [answer EXCEPT ![c] = NoAnswer]
        /\ UNCHANGED <<dispatches, cost>>
    BY <1>7 DEF Settle
  <2>4. state'[attempt[c]] \in Settled /\ \A b \in Attempts \ {attempt[c]} : state'[b] = state[b]
    BY <1>7, <2>1 DEF Settle, Settled
  <2> QED
    BY <2>1, <2>2, <2>3, <2>4
<1>8. ASSUME NEW c \in Calls, Fail(c) PROVE BillsAreTrue'
  BY <1>0, <1>8 DEF Fail
<1>9. CASE UNCHANGED ledgerVars
  BY <1>9 DEF ledgerVars
<1> QED
  BY <1>1, <1>2, <1>3, <1>4, <1>5, <1>6, <1>7, <1>8, <1>9 DEF LedgerNext

\* An admitted attempt is charged at least what it costs.
LEMMA ChargeCovers ==
    ASSUME LedgerIInv, BillsAreTrue, NEW b \in Attempts, NEW s \in Scopes,
           dispatches[b] > 0 => cost[b] <= Reserve[s]
    PROVE  /\ Charge(b, s) \in 0 .. MaxCost + Reserve[s]
           /\ Paid(s)[b] \in Nat
           /\ Paid(s)[b] <= Charge(b, s)
<1> USE InferenceLedgerAssumption DEF LedgerIInv, LedgerTypeOK
<1>1. Reserve[s] \in Nat /\ MaxCost \in Nat
  OBVIOUS
<1>2. spent[b] \in Amounts \cup {None} /\ cost[b] \in Amounts /\ dispatches[b] \in Nat
  OBVIOUS
<1>3. spent[b] # None => /\ dispatches[b] > 0 /\ spent[b] <= cost[b]
                         /\ final[b] => spent[b] = cost[b]
  BY DEF BillsAreTrue, TrueBill
<1>4. Paid(s)[b] = IF dispatches[b] > 0 THEN cost[b] ELSE Reserve[s]
  BY DEF Paid
<1>5. CASE spent[b] = None
  BY <1>1, <1>2, <1>4, <1>5 DEF Charge, Amounts
<1>6. CASE spent[b] # None /\ spent[b] < Reserve[s] /\ (~final[b] \/ state[b] \in Unresolved)
  BY <1>1, <1>2, <1>3, <1>4, <1>6 DEF Charge, Amounts
<1>7. CASE spent[b] # None /\ ~(spent[b] < Reserve[s] /\ (~final[b] \/ state[b] \in Unresolved))
  <2>1. Charge(b, s) = spent[b]
    BY <1>7 DEF Charge
  <2>2. final[b] => spent[b] = cost[b]
    BY <1>3, <1>7
  <2>3. cost[b] <= spent[b]
    BY <1>1, <1>2, <1>3, <1>7, <2>2 DEF Amounts
  <2> QED
    BY <1>1, <1>2, <1>3, <1>4, <1>7, <2>1, <2>3 DEF Amounts
<1> QED
  BY <1>5, <1>6, <1>7

\* The same admitted attempts still fit if none is paid more.
LEMMA StillFits ==
    ASSUME LedgerIInv, AdmittedFits, dispatches' \in [Attempts -> Nat], cost' \in [Attempts -> Amounts],
           \A b \in Attempts :
               /\ state'[b] \in {"absent", "planned", "cancelled"}
                     <=> state[b] \in {"absent", "planned", "cancelled"}
               /\ \/ dispatches'[b] = dispatches[b] /\ cost'[b] = cost[b]
                  \/ dispatches[b] = 0 /\ dispatches'[b] > 0,
           IsFiniteSet({b \in Attempts : state'[b] # "absent"})
    PROVE  AdmittedFits'
<1> USE InferenceLedgerAssumption DEF LedgerIInv, LedgerTypeOK
<1> SUFFICES ASSUME NEW a \in Attempts, NEW s \in Scopes
             PROVE  /\ Cardinality(Admitted(a, s)') <= MaxAttempts[s]
                    /\ Modest(s, Admitted(a, s))' => Total(Paid(s)', Admitted(a, s)') <= Ceiling[s]
  BY DEF AdmittedFits, Total, Units
<1> DEFINE S == Admitted(a, s)'
           T == Admitted(a, s)
<1>1. S = T /\ T \subseteq Attempts
  BY DEF Admitted, Bucket
<1>2. IsFiniteSet(T)
  <2>1. T \in SUBSET {b \in Attempts : state[b] # "absent"}
    BY DEF Admitted, Bucket
  <2> QED
    BY <2>1, FS_Subset DEF AdmittedFits
<1>3. Cardinality(S) = Cardinality(T)
  BY <1>1
<1>4. MaxAttempts[s] \in Nat /\ Ceiling[s] \in Nat /\ Reserve[s] \in Nat
  OBVIOUS
<1>5. Cardinality(T) <= MaxAttempts[s] /\ (Modest(s, T) => Total(Paid(s), T) <= Ceiling[s])
  BY DEF AdmittedFits
<1>6. ASSUME Modest(s, Admitted(a, s))' PROVE Total(Paid(s)', S) <= Ceiling[s]
  <2>0. MaxCost + Reserve[s] \in Nat
    BY <1>4
  <2>1. S \subseteq T /\ \A b \in S : Paid(s)'[b] \in Nat /\ Paid(s)'[b] <= Paid(s)[b]
    <3> SUFFICES ASSUME NEW b \in S PROVE Paid(s)'[b] \in Nat /\ Paid(s)'[b] <= Paid(s)[b]
      BY <1>1
    <3>1. b \in Attempts /\ state'[b] \notin {"absent", "planned", "cancelled"}
      BY <1>1 DEF Admitted
    <3>2. /\ dispatches'[b] > 0 => cost'[b] <= Reserve[s]
          /\ dispatches'[b] \in Nat /\ cost'[b] \in Nat /\ dispatches[b] \in Nat /\ cost[b] \in Nat
      BY <1>6, <3>1 DEF Modest, Amounts
    <3> HIDE DEF S
    <3> QED
      BY <1>4, <3>1, <3>2 DEF Paid
  <2>2. \A b \in T : Paid(s)[b] \in 0 .. MaxCost + Reserve[s]
    BY <1>1, <1>4 DEF Paid, Amounts
  <2>3. Modest(s, T)
    BY <1>1, <1>6 DEF Modest
  <2> HIDE DEF S, T
  <2>4. Total(Paid(s)', S) \in Nat /\ Total(Paid(s), T) \in Nat /\ Total(Paid(s)', S) <= Total(Paid(s), T)
    BY <1>2, <2>0, <2>1, <2>2, TotalMonotonic
  <2> QED
    BY <1>4, <1>5, <2>3, <2>4
<1> QED
  BY <1>3, <1>4, <1>5, <1>6

\* An attempt that is let through fits its buckets, and is in no other.
LEMMA AdmissionFits ==
    ASSUME LedgerIInv, BillsAreTrue, AdmittedFits, NEW x \in Attempts, state[x] = "planned",
           dispatches[x] = 0, WithinBudget(x), state' = [state EXCEPT ![x] = "reserved"],
           UNCHANGED <<dispatches, cost>>
    PROVE  AdmittedFits'
<1> USE InferenceLedgerAssumption DEF LedgerIInv, LedgerTypeOK
<1>1. IsFiniteSet({b \in Attempts : state'[b] # "absent"})
  <2>1. {b \in Attempts : state'[b] # "absent"} = {b \in Attempts : state[b] # "absent"}
    OBVIOUS
  <2> QED
    BY <2>1 DEF AdmittedFits
<1>2. ASSUME NEW a \in Attempts, NEW s \in Scopes
      PROVE  /\ Cardinality(Admitted(a, s)') <= MaxAttempts[s]
             /\ Modest(s, Admitted(a, s))' => Total(Paid(s)', Admitted(a, s)') <= Ceiling[s]
  <2> DEFINE T == Admitted(a, s)
             prior == {b \in Bucket(x, s) \ {x} : state[b] \notin {"absent", "cancelled"}}
             charge == [b \in prior |-> Charge(b, s)]
             paid == Paid(s)
  <2>0. /\ MaxAttempts[s] \in Nat /\ Ceiling[s] \in Nat /\ Reserve[s] \in Nat
        /\ MaxCost + Reserve[s] \in Nat
    OBVIOUS
  <2>1. paid' = paid
    BY DEF Paid
  <2>2. CASE x \notin Bucket(a, s)
    <3>1. Admitted(a, s)' = T
      BY <2>2 DEF Admitted, Bucket
    <3>2. Modest(s, Admitted(a, s))' <=> Modest(s, T)
      BY <3>1 DEF Modest
    <3> QED
      BY <2>1, <3>1, <3>2 DEF AdmittedFits
  <2>3. CASE x \in Bucket(a, s)
    <3>1. Admitted(a, s)' = T \cup {x}
      BY <2>3 DEF Admitted, Bucket
    <3>2. x \notin T /\ T \subseteq prior /\ prior \subseteq Attempts
      BY <2>3 DEF Admitted, Bucket
    <3>3. IsFiniteSet(prior) /\ IsFiniteSet(T)
      <4>1. prior \in SUBSET {b \in Attempts : state[b] # "absent"}
        BY DEF Bucket
      <4>2. IsFiniteSet(prior)
        BY <4>1, FS_Subset DEF AdmittedFits
      <4> HIDE DEF T, prior
      <4> QED
        BY <3>2, <4>2, FS_Subset
    <3>4. /\ Cardinality(prior) < MaxAttempts[s]
          /\ Total(charge, prior) + Reserve[s] <= Ceiling[s]
      BY DEF WithinBudget
    <3>5. \A b \in Attempts : paid[b] \in 0 .. MaxCost + Reserve[s]
      BY <2>0 DEF Paid, Amounts
    <3>6. paid[x] = Reserve[s]
      BY DEF Paid
    <3>7. Cardinality(T \cup {x}) <= MaxAttempts[s]
      <4> HIDE DEF T, prior
      <4>1. Cardinality(T) <= Cardinality(prior) /\ Cardinality(T) \in Nat /\ Cardinality(prior) \in Nat
        BY <3>2, <3>3, FS_Subset, FS_CardinalityType
      <4>2. Cardinality(T \cup {x}) = Cardinality(T) + 1
        BY <3>2, <3>3, FS_AddElement
      <4> QED
        BY <2>0, <3>4, <4>1, <4>2
    <3>8. ASSUME Modest(s, Admitted(a, s))' PROVE Total(paid, T \cup {x}) <= Ceiling[s]
      <4>1. \A b \in prior : charge[b] \in 0 .. MaxCost + Reserve[s]
        <5> SUFFICES ASSUME NEW b \in prior PROVE Charge(b, s) \in 0 .. MaxCost + Reserve[s]
          OBVIOUS
        <5>1. b \in Attempts
          BY <3>2
        <5> QED
          BY <2>0, <5>1 DEF Charge, Amounts
      <4>2. \A b \in T : paid[b] \in Nat /\ paid[b] <= charge[b]
        <5> SUFFICES ASSUME NEW b \in T PROVE paid[b] \in Nat /\ paid[b] <= Charge(b, s)
          BY <3>2
        <5>1. b \in Attempts /\ (dispatches[b] > 0 => cost[b] <= Reserve[s])
          BY <3>1, <3>2, <3>8 DEF Modest
        <5> HIDE DEF T
        <5> QED
          BY <5>1, ChargeCovers
      <4> HIDE DEF T, prior, charge, paid
      <4>3. Total(paid, T) \in Nat /\ Total(charge, prior) \in Nat /\ Total(paid, T) <= Total(charge, prior)
        BY <2>0, <3>2, <3>3, <4>1, <4>2, TotalMonotonic
      <4>4. \A b \in T \cup {x} : paid[b] \in 0 .. MaxCost + Reserve[s]
        BY <3>2, <3>5
      <4>5. /\ Total(paid, T \cup {x}) <= Total(paid, T) + Reserve[s]
            /\ Total(paid, T \cup {x}) \in Nat
        <5>1. PICK n \in Nat : n = MaxCost + Reserve[s]
          BY <2>0
        <5>2. \A b \in T \cup {x} : paid[b] \in 0 .. n
          BY <4>4, <5>1
        <5>3. Total(paid, T \cup {x}) <= Total(paid, T) + paid[x] /\ Total(paid, T \cup {x}) \in Nat
          BY <3>3, <5>2, TotalWithOneMore
        <5> QED
          BY <3>6, <5>3
      <4> QED
        BY <2>0, <3>4, <4>3, <4>5
    <3> QED
      BY <2>1, <3>1, <3>7, <3>8
  <2> QED
    BY <2>2, <2>3
<1>3. \A a \in Attempts, s \in Scopes : Total(Paid(s), Admitted(a, s))' = Total(Paid(s)', Admitted(a, s)')
  BY DEF Total, Units
<1> QED
  BY <1>1, <1>2, <1>3 DEF AdmittedFits

\* Every step keeps the admitted attempts within their budgets: only a decision
\* admits one, and a dispatch replaces the reservation by a cost.
LEMMA AdmittedInductive ==
    LedgerIInv /\ BillsAreTrue /\ AdmittedFits /\ [LedgerNext]_ledgerVars => AdmittedFits'
<1> SUFFICES ASSUME LedgerIInv, BillsAreTrue, AdmittedFits, [LedgerNext]_ledgerVars PROVE AdmittedFits'
  OBVIOUS
<1> USE InferenceLedgerAssumption DEF LedgerIInv, LedgerTypeOK, CallsAgree,
    Proceed, End, Record, ledger, world, Working
<1> DEFINE Closed == {"absent", "planned", "cancelled"}
           known == {b \in Attempts : state[b] # "absent"}
<1>0. IsFiniteSet(known)
  BY DEF AdmittedFits
<1>1. ASSUME known' = known, dispatches' = dispatches, cost' = cost,
             \A b \in Attempts : state'[b] \in Closed <=> state[b] \in Closed
      PROVE  AdmittedFits'
  BY <1>0, <1>1, StillFits
<1>2. ASSUME NEW c \in Calls, NEW a \in Attempts, Plan(c, a) PROVE AdmittedFits'
  <2>1. CASE Refused(a)
    BY <1>1, <1>2, <2>1 DEF Plan
  <2>2. CASE ~Refused(a)
    <3>1. state' = [state EXCEPT ![a] = "planned"] /\ state[a] = "absent" /\ UNCHANGED <<dispatches, cost>>
      BY <1>2, <2>2 DEF Plan, Refused
    <3>2. known' = known \cup {a}
      BY <3>1
    <3>3. IsFiniteSet(known')
      <4>1. IsFiniteSet(known \cup {a})
        <5> HIDE DEF known
        <5> QED
          BY <1>0, FS_AddElement
      <4> QED
        BY <3>2, <4>1
    <3> QED
      BY <3>1, <3>3, StillFits
  <2> QED
    BY <2>1, <2>2
<1>3. ASSUME NEW c \in Calls, Decide(c) PROVE AdmittedFits'
  <2>1. attempt[c] \in Attempts /\ state[attempt[c]] = "planned" /\ dispatches[attempt[c]] = 0
    BY <1>3 DEF Decide
  <2>2. CASE WithinBudget(attempt[c])
    <3>1. state' = [state EXCEPT ![attempt[c]] = "reserved"] /\ UNCHANGED <<dispatches, cost>>
      BY <1>3, <2>2 DEF Decide
    <3> QED
      BY <2>1, <2>2, <3>1, AdmissionFits
  <2>3. CASE ~WithinBudget(attempt[c])
    <3>1. state' = [state EXCEPT ![attempt[c]] = "cancelled"] /\ UNCHANGED <<dispatches, cost>>
      BY <1>3, <2>3 DEF Decide
    <3> QED
      BY <1>1, <2>1, <3>1
  <2> QED
    BY <2>2, <2>3
<1>4. ASSUME NEW c \in Calls, Intend(c) PROVE AdmittedFits'
  BY <1>1, <1>4 DEF Intend
<1>5. ASSUME NEW c \in Calls, Dispatch(c) PROVE AdmittedFits'
  <2>1. attempt[c] \in Attempts /\ dispatches[attempt[c]] = 0
    BY <1>5 DEF Dispatch
  <2>2. /\ dispatches' = [dispatches EXCEPT ![attempt[c]] = @ + 1]
        /\ \E m \in Amounts : cost' = [cost EXCEPT ![attempt[c]] = m]
        /\ state' = state
    BY <1>5 DEF Dispatch
  <2>3. IsFiniteSet({b \in Attempts : state'[b] # "absent"})
    BY <1>0, <2>2
  <2>4. dispatches' \in [Attempts -> Nat] /\ cost' \in [Attempts -> Amounts]
    BY <2>1, <2>2
  <2> QED
    BY <2>1, <2>2, <2>3, <2>4, StillFits
<1>6. ASSUME NEW c \in Calls, Return(c) \/ Unanswered(c) \/ Fail(c) PROVE AdmittedFits'
  BY <1>1, <1>6 DEF Return, Unanswered, Fail
<1>7. ASSUME NEW c \in Calls, Settle(c) PROVE AdmittedFits'
  <2>1. attempt[c] \in Attempts /\ state[attempt[c]] = "running"
    BY <1>7 DEF Settle
  <2>2. PICK o \in Settled : state' = [state EXCEPT ![attempt[c]] = o]
    BY <1>7 DEF Settle, Answers, Settled
  <2>3. UNCHANGED <<dispatches, cost>>
    BY <1>7 DEF Settle
  <2> QED
    BY <1>1, <2>1, <2>2, <2>3 DEF Settled
<1>8. CASE UNCHANGED ledgerVars
  BY <1>1, <1>8 DEF ledgerVars
<1> QED
  BY <1>2, <1>3, <1>4, <1>5, <1>6, <1>7, <1>8 DEF LedgerNext

\* The initial ledger is empty.
LEMMA BudgetInitial == LedgerInit => BillsAreTrue /\ AdmittedFits
<1> SUFFICES ASSUME LedgerInit PROVE BillsAreTrue /\ AdmittedFits
  OBVIOUS
<1> USE InferenceLedgerAssumption DEF LedgerInit
<1>1. BillsAreTrue
  BY DEF BillsAreTrue, TrueBill
<1>2. {b \in Attempts : state[b] # "absent"} = {} /\ \A a \in Attempts, s \in Scopes : Admitted(a, s) = {}
  BY DEF Admitted, Bucket
<1>3. \A s \in Scopes : Total(Paid(s), {}) = 0
  <2>1. \A s \in Scopes : Units(Paid(s), {}) = {}
    BY DEF Units
  <2> QED
    BY <2>1, FS_EmptySet DEF Total
<1>4. \A s \in Scopes : MaxAttempts[s] \in Nat /\ Ceiling[s] \in Nat
  OBVIOUS
<1>5. Cardinality({}) = 0 /\ IsFiniteSet({})
  BY FS_EmptySet
<1>6. \A n \in Nat : 0 <= n
  OBVIOUS
<1>7. ASSUME NEW a \in Attempts, NEW s \in Scopes
      PROVE  /\ Cardinality(Admitted(a, s)) <= MaxAttempts[s]
             /\ Total(Paid(s), Admitted(a, s)) <= Ceiling[s]
  <2> HIDE DEF LedgerInit
  <2> QED
    BY <1>2, <1>3, <1>4, <1>5, <1>6
<1> QED
  BY <1>1, <1>2, <1>5, <1>7 DEF AdmittedFits

\* What the provider really charges stays within every bucket's budget, whatever
\* is reported and whichever calls die.
THEOREM BudgetsHold == LedgerSpec => []BudgetHolds
<1>1. LedgerIInv /\ AdmittedFits => BudgetHolds
  <2> SUFFICES ASSUME LedgerIInv, AdmittedFits, NEW a \in Attempts, NEW s \in Scopes,
                      \A b \in {d \in Bucket(a, s) : dispatches[d] > 0} : cost[b] <= Reserve[s]
               PROVE  /\ Cardinality({b \in Bucket(a, s) : dispatches[b] > 0}) <= MaxAttempts[s]
                      /\ Total(cost, {b \in Bucket(a, s) : dispatches[b] > 0}) <= Ceiling[s]
    BY DEF BudgetHolds
  <2> USE InferenceLedgerAssumption DEF LedgerIInv, LedgerTypeOK
  <2> DEFINE called == {b \in Bucket(a, s) : dispatches[b] > 0}
             T == Admitted(a, s)
             paid == Paid(s)
  <2>1. called \subseteq T /\ T \subseteq Attempts
    BY DEF Admitted, Bucket, DispatchedOnceAsRecorded, Settled
  <2>2. IsFiniteSet(T)
    <3>1. T \in SUBSET {b \in Attempts : state[b] # "absent"}
      BY DEF Admitted, Bucket
    <3> QED
      BY <3>1, FS_Subset DEF AdmittedFits
  <2>3. Modest(s, T)
    BY DEF Modest, Admitted
  <2>4. Cardinality(T) <= MaxAttempts[s] /\ Total(paid, T) <= Ceiling[s]
    BY <2>3 DEF AdmittedFits
  <2>5. /\ MaxAttempts[s] \in Nat /\ Ceiling[s] \in Nat /\ Reserve[s] \in Nat
        /\ MaxCost + Reserve[s] \in Nat
    OBVIOUS
  <2>6. \A b \in T : paid[b] \in 0 .. MaxCost + Reserve[s]
    BY <2>1, <2>5 DEF Paid, Amounts
  <2>7. \A b \in called : cost[b] \in Nat /\ cost[b] <= paid[b]
    BY <2>1 DEF Paid, Amounts
  <2> HIDE DEF called, T, paid
  <2>8. Cardinality(called) <= Cardinality(T) /\ Cardinality(called) \in Nat /\ Cardinality(T) \in Nat
    BY <2>1, <2>2, FS_Subset, FS_CardinalityType
  <2>9. Total(cost, called) \in Nat /\ Total(paid, T) \in Nat /\ Total(cost, called) <= Total(paid, T)
    BY <2>1, <2>2, <2>5, <2>6, <2>7, TotalMonotonic
  <2>10. Cardinality(called) <= MaxAttempts[s] /\ Total(cost, called) <= Ceiling[s]
    BY <2>4, <2>5, <2>8, <2>9
  <2> QED
    BY <2>10 DEF called
<1> QED
  BY <1>1, BudgetInitial, BillsInductive, AdmittedInductive, LedgerInvariance, PTL DEF LedgerSpec

-----------------------------------------------------------------------------
(* The nonce store *)

HolderOwnsFile == ~raced => \A p \in Procs : InSection(p) => lock = p

ComputedIsFresh ==
    ~raced => \A p \in Procs : pc[p] = "computed" => next[p] > stored

IInv ==
    /\ TypeOK
    /\ HolderOwnsFile
    /\ ComputedIsFresh
    /\ DurableBeforeUse
    /\ NoncesUniqueUnlessRaced

USE DEF Section, Ended, Locations, InSection, Unset

\* The candidate is above what was read, whatever the clock says.
LEMMA NextNonceAbove ==
    ASSUME NEW previous \in Int, NEW clock \in Int
    PROVE  NextNonce(previous, clock) > previous /\ NextNonce(previous, clock) \in Int
  BY DEF NextNonce

\* Every variable keeps its type along every step.
LEMMA TypeStep == TypeOK /\ [Next]_vars => TypeOK'
  <1> SUFFICES ASSUME TypeOK, [Next]_vars PROVE TypeOK'
    OBVIOUS
  <1> USE FileLockAssumption, NonceAssumption DEF TypeOK, LockTypeOK, NonceTypeOK
  <1>1. ASSUME NEW p \in Procs, LockStep(p), UNCHANGED nonceVars PROVE TypeOK'
    <2> USE <1>1 DEF Goto, nonceVars
    <2>1. CASE Enter(p) \/ Exists(p) \/ FoundStale(p)
      BY <2>1 DEF Enter, Exists, FoundStale
    <2>2. CASE Created(p)
      BY <2>2 DEF Created
    <2>3. CASE FoundFresh(p)
      BY <2>3 DEF FoundFresh, PollAgain, TimeOut
    <2>4. CASE Steal(p) \/ StealFails(p)
      BY <2>4 DEF Steal, StealFails, Unlink, UnlinkFails
    <2>5. CASE Release(p)
      BY <2>5 DEF Release, Unlink, UnlinkFails
    <2> QED BY <2>1, <2>2, <2>3, <2>4, <2>5 DEF LockStep
  <1>2. ASSUME NEW p \in Procs, Compute(p) PROVE TypeOK'
    <2>1. PICK clock \in 0 .. MaxClock :
            LET candidate == NextNonce(stored, clock)
            IN  IF candidate <= MaxNonce
                THEN next' = [next EXCEPT ![p] = candidate] /\ Goto(p, "computed")
                ELSE Goto(p, "abort") /\ UNCHANGED next
      BY <1>2 DEF Compute
    <2>2. stored \in Int /\ clock \in Int /\ stored >= -1
      OBVIOUS
    <2>3. NextNonce(stored, clock) \in Int /\ NextNonce(stored, clock) > stored
      BY <2>2, NextNonceAbove
    <2> QED BY <1>2, <2>1, <2>2, <2>3 DEF Compute, Goto
  <1>3. ASSUME NEW p \in Procs, Write(p) PROVE TypeOK'
    BY <1>3 DEF Write, Persist, Goto
  <1>4. ASSUME NEW p \in Procs, OperationThrows(p) PROVE TypeOK'
    BY <1>4 DEF OperationThrows, Goto, nonceVars
  <1>5. ASSUME Age, UNCHANGED nonceVars PROVE TypeOK'
    BY <1>5 DEF Age, nonceVars
  <1>6. ASSUME NEW p \in Procs, Crash(p), UNCHANGED nonceVars PROVE TypeOK'
    BY <1>6 DEF Crash, Goto, nonceVars
  <1>7. ASSUME NEW p \in Procs, CreatedNotWritten(p), UNCHANGED nonceVars PROVE TypeOK'
    <2> USE <1>7 DEF CreatedNotWritten, Goto, nonceVars
    <2>1. faults' \in 0 .. MaxFaults
      OBVIOUS
    <2>2. pc' \in [Procs -> Locations]
      OBVIOUS
    <2> QED BY <2>1, <2>2
  <1>8. CASE UNCHANGED vars
    BY <1>8 DEF vars, lockVars, nonceVars
  <1> QED
    BY <1>1, <1>2, <1>3, <1>4, <1>5, <1>6, <1>7, <1>8
       DEF Next, CallStep, LockEnvironment

LEMMA TypeInit == Init => TypeOK
  <1> SUFFICES ASSUME Init PROVE TypeOK
    OBVIOUS
  <1> USE FileLockAssumption, NonceAssumption DEF Init
  <1>1. LockTypeOK
    <2> USE DEF LockInit
    <2>1. lock \in Procs \cup {Nobody} /\ stale \in BOOLEAN /\ raced \in BOOLEAN
      OBVIOUS
    <2>2. pc \in [Procs -> Locations]
      OBVIOUS
    <2>3. waits \in [Procs -> 0 .. MaxWaits] /\ faults \in 0 .. MaxFaults
      OBVIOUS
    <2> QED BY <2>1, <2>2, <2>3 DEF LockTypeOK
  <1>2. Unset \in -1 .. MaxNonce
    OBVIOUS
  <1>3. NonceTypeOK
    BY <1>2 DEF NonceTypeOK
  <1> QED BY <1>1, <1>3 DEF TypeOK

\* The variables stay within their types.
THEOREM TypeCorrect == Spec => []TypeOK
  BY TypeInit, TypeStep, PTL DEF Spec

-----------------------------------------------------------------------------

\* A step of the lock protocol leaves the counter and the nonces alone, and
\* an unlink that leaves raced false has removed no live holder's file.
LEMMA LockStepKeeps ==
    ASSUME IInv, TypeOK', UNCHANGED nonceVars, NEW p \in Procs,
           LockStep(p) \/ Crash(p) \/ CreatedNotWritten(p)
    PROVE  IInv'
  <1> SUFFICES ASSUME ~raced' PROVE IInv'
    BY DEF IInv, HolderOwnsFile, ComputedIsFresh, DurableBeforeUse, NoncesUniqueUnlessRaced
  <1> USE DEF IInv, TypeOK, LockTypeOK, NonceTypeOK, nonceVars, Goto
  <1>1. ~raced
    BY DEF LockStep, Enter, Created, Exists, FoundStale, FoundFresh, Steal, StealFails,
           Release, Unlink, UnlinkFails, Crash, CreatedNotWritten
  <1>2. HolderOwnsFile'
    <2> USE <1>1, FileLockAssumption DEF HolderOwnsFile
    <2>1. CASE Enter(p) \/ Exists(p) \/ FoundStale(p) \/ Crash(p)
      BY <2>1 DEF Enter, Exists, FoundStale, Crash
    <2>2. CASE Created(p) \/ CreatedNotWritten(p)
      BY <2>2 DEF Created, CreatedNotWritten, Creatable
    <2>3. CASE FoundFresh(p)
      BY <2>3 DEF FoundFresh, PollAgain, TimeOut
    <2>4. CASE Steal(p) \/ StealFails(p) \/ Release(p)
      BY <2>4 DEF Steal, StealFails, Release, Unlink, UnlinkFails
    <2> QED BY <2>1, <2>2, <2>3, <2>4 DEF LockStep
  <1>3. \A q \in Procs : pc'[q] = "computed" => pc[q] = "computed"
    BY DEF LockStep, Enter, Created, Exists, FoundStale, FoundFresh, PollAgain, TimeOut,
           Steal, StealFails, Release, Unlink, UnlinkFails, Crash, CreatedNotWritten
  <1> QED
    BY <1>1, <1>2, <1>3 DEF ComputedIsFresh, DurableBeforeUse, NoncesUniqueUnlessRaced

LEMMA ComputeKeeps ==
    ASSUME IInv, TypeOK', NEW p \in Procs, Compute(p)
    PROVE  IInv'
  <1> USE DEF IInv, TypeOK, LockTypeOK, NonceTypeOK, Goto
  <1>1. PICK clock \in 0 .. MaxClock :
          LET candidate == NextNonce(stored, clock)
          IN  IF candidate <= MaxNonce
              THEN next' = [next EXCEPT ![p] = candidate] /\ Goto(p, "computed")
              ELSE Goto(p, "abort") /\ UNCHANGED next
    BY DEF Compute
  <1>2. NextNonce(stored, clock) > stored
    BY NextNonceAbove, NonceAssumption
  <1>3. HolderOwnsFile'
    BY <1>1 DEF Compute, HolderOwnsFile
  <1>4. ComputedIsFresh'
    BY <1>1, <1>2 DEF Compute, ComputedIsFresh
  <1> QED
    BY <1>3, <1>4 DEF Compute, DurableBeforeUse, NoncesUniqueUnlessRaced

LEMMA WriteKeeps ==
    ASSUME IInv, TypeOK', NEW p \in Procs, Write(p)
    PROVE  IInv' /\ (~raced => stored' >= stored)
  <1> USE DEF IInv, TypeOK, LockTypeOK, NonceTypeOK, Goto, Write, Persist
  <1>1. HolderOwnsFile'
    BY DEF HolderOwnsFile
  <1>2. ~raced => stored' > stored
    BY DEF ComputedIsFresh
  <1>3. ComputedIsFresh'
    BY DEF ComputedIsFresh, HolderOwnsFile
  <1>4. DurableBeforeUse'
    BY <1>2 DEF DurableBeforeUse
  <1>5. NoncesUniqueUnlessRaced'
    <2> SUFFICES ASSUME ~raced, NEW q \in Procs, NEW r \in Procs,
                        result'[q] # Unset, result'[q] = result'[r]
                 PROVE  q = r
      BY DEF NoncesUniqueUnlessRaced
    <2>1. result'[p] > stored
      BY DEF ComputedIsFresh
    <2>2. \A s \in Procs \ {p} : result'[s] = result[s] /\ result[s] <= stored
      BY DEF DurableBeforeUse
    <2>3. CASE q = p \/ r = p
      BY <2>1, <2>2, <2>3
    <2>4. CASE q # p /\ r # p
      BY <2>2, <2>4 DEF NoncesUniqueUnlessRaced
    <2> QED BY <2>3, <2>4
  <1> QED BY <1>1, <1>2, <1>3, <1>4, <1>5

\* The invariant is preserved by every step, and no step lowers the counter.
LEMMA InductiveStep ==
    IInv /\ [Next]_vars => IInv' /\ (~raced => stored' >= stored)
  <1> SUFFICES ASSUME IInv, [Next]_vars
               PROVE  IInv' /\ (~raced => stored' >= stored)
    OBVIOUS
  <1>0. TypeOK' /\ stored \in Int
    BY TypeStep DEF IInv, TypeOK, NonceTypeOK
  <1>1. ASSUME NEW p \in Procs, UNCHANGED nonceVars,
               LockStep(p) \/ Crash(p) \/ CreatedNotWritten(p)
        PROVE  IInv' /\ (~raced => stored' >= stored)
    BY <1>0, <1>1, LockStepKeeps DEF nonceVars
  <1>2. ASSUME NEW p \in Procs, Compute(p)
        PROVE  IInv' /\ (~raced => stored' >= stored)
    BY <1>0, <1>2, ComputeKeeps DEF Compute
  <1>3. ASSUME NEW p \in Procs, Write(p)
        PROVE  IInv' /\ (~raced => stored' >= stored)
    BY <1>0, <1>3, WriteKeeps
  <1>4. ASSUME NEW p \in Procs, OperationThrows(p)
        PROVE  IInv' /\ (~raced => stored' >= stored)
    BY <1>0, <1>4
       DEF OperationThrows, Goto, nonceVars, IInv, HolderOwnsFile, ComputedIsFresh,
           DurableBeforeUse, NoncesUniqueUnlessRaced, TypeOK, LockTypeOK
  <1>5. ASSUME Age \/ UNCHANGED lockVars, UNCHANGED nonceVars
        PROVE  IInv' /\ (~raced => stored' >= stored)
    BY <1>0, <1>5
       DEF Age, lockVars, nonceVars, IInv, HolderOwnsFile, ComputedIsFresh,
           DurableBeforeUse, NoncesUniqueUnlessRaced
  <1> QED
    BY <1>1, <1>2, <1>3, <1>4, <1>5 DEF Next, CallStep, LockEnvironment, vars

LEMMA InductiveInit == Init => IInv
  BY TypeInit
     DEF Init, LockInit, IInv, HolderOwnsFile, ComputedIsFresh, DurableBeforeUse,
         NoncesUniqueUnlessRaced

LEMMA Invariance == Spec => []IInv
  BY InductiveInit, InductiveStep, PTL DEF Spec

\* Sections of the file lock never overlap until an unlink by path has removed
\* a live holder's lock file (fs-safe.ts, the steal and the finally block).
THEOREM Serialized == Spec => []SerializedUnlessRaced
  <1>1. IInv => SerializedUnlessRaced
    BY DEF IInv, HolderOwnsFile, SerializedUnlessRaced, MutualExclusion
  <1> QED BY <1>1, Invariance, PTL

\* Under the same condition NonceStore.reserve never returns a nonce twice.
THEOREM NoncesUnique == Spec => []NoncesUniqueUnlessRaced
  <1>1. IInv => NoncesUniqueUnlessRaced
    BY DEF IInv
  <1> QED BY <1>1, Invariance, PTL

\* A returned nonce is covered by the durable counter, so that a crash after
\* the reservation can only leave a gap.
THEOREM Durable == Spec => []DurableBeforeUse
  <1>1. IInv => DurableBeforeUse
    BY DEF IInv
  <1> QED BY <1>1, Invariance, PTL

-----------------------------------------------------------------------------

\* A call reserves once.
NotYetReserved == \A p \in Procs : pc[p] \in {"idle", "open", "exists", "steal", "locked", "computed"} => result[p] = Unset

LEMMA NotYetInit == Init => NotYetReserved
  BY DEF Init, NotYetReserved

LEMMA NotYetStep == TypeOK /\ NotYetReserved /\ [Next]_vars => NotYetReserved'
  <1> SUFFICES ASSUME TypeOK, NotYetReserved, [Next]_vars PROVE NotYetReserved'
    OBVIOUS
  <1> USE DEF TypeOK, LockTypeOK, NonceTypeOK, NotYetReserved, Goto, nonceVars
  <1>1. ASSUME NEW p \in Procs, LockStep(p), UNCHANGED nonceVars PROVE NotYetReserved'
    BY <1>1 DEF LockStep, Enter, Created, Exists, FoundStale, FoundFresh, PollAgain,
                TimeOut, Steal, StealFails, Release, Unlink, UnlinkFails
  <1>2. ASSUME NEW p \in Procs, Compute(p) PROVE NotYetReserved'
    BY <1>2 DEF Compute
  <1>3. ASSUME NEW p \in Procs, Write(p) \/ OperationThrows(p) PROVE NotYetReserved'
    BY <1>3 DEF Write, Persist, OperationThrows
  <1>4. ASSUME LockEnvironment, UNCHANGED nonceVars PROVE NotYetReserved'
    BY <1>4 DEF LockEnvironment, Age, Crash, CreatedNotWritten
  <1>5. CASE UNCHANGED vars
    BY <1>5 DEF vars, lockVars
  <1> QED BY <1>1, <1>2, <1>3, <1>4, <1>5 DEF Next, CallStep

\* Until a live lock is unlinked, a write of nonces.json is a reservation of the
\* atomic counter and every other step a stutter.
LEMMA StepReserves ==
    ASSUME IInv, NotYetReserved, ~raced, [Next]_vars
    PROVE  [Promise!Next]_<<stored, result>>
  <1> USE DEF IInv, TypeOK, LockTypeOK, NonceTypeOK
  <1>1. ASSUME NEW p \in Procs, Write(p) PROVE Promise!Next
    <2>1. next[p] > stored /\ next[p] \in Int /\ result[p] = -1
      BY <1>1 DEF ComputedIsFresh, NotYetReserved, Write
    <2>2. Promise!Reserve(p)
      BY <1>1, <2>1 DEF Write, Persist, Promise!Reserve
    <2> QED BY <2>2 DEF Promise!Next
  <1>2. ASSUME NEW p \in Procs, Compute(p) \/ OperationThrows(p)
        PROVE  UNCHANGED <<stored, result>>
    BY <1>2 DEF Compute, OperationThrows, nonceVars
  <1>3. CASE UNCHANGED nonceVars
    BY <1>3 DEF nonceVars
  <1> QED BY <1>1, <1>2, <1>3 DEF Next, CallStep, vars, nonceVars

\* Every step before such a race is atomic: the durable counter rises, even when
\* the clock goes back, and its new value is handed out once.
THEOREM StepsAreAtomic == Spec => AtomicUnlessRaced
  <1>1. IInv /\ NotYetReserved /\ [Next]_vars => [~raced => Promise!Next]_<<stored, result>>
    BY StepReserves
  <1> QED
    BY <1>1, NotYetInit, NotYetStep, InductiveInit, InductiveStep, Invariance, PTL
       DEF Spec, AtomicUnlessRaced, IInv

\* Behaviours without such a race implement the atomic counter.
THEOREM ImplementsCounter == Spec /\ [](~raced) => ReservesAtomically
  <1>1. Init => Promise!Init
    BY DEF Init, Promise!Init, Unset
  <1> QED
    BY <1>1, StepReserves, NotYetInit, NotYetStep, InductiveInit, InductiveStep, Invariance, PTL
       DEF Spec, ReservesAtomically, Promise!Spec, IInv

=============================================================================
