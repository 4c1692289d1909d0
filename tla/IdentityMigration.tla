------------------------- MODULE IdentityMigration -------------------------
(***************************************************************************)
(* IdentityStore of identity.ts: create, restore and migrate of one named  *)
(* identity, with the recovery migrate begins with.                        *)
(*                                                                         *)
(* Every operation that writes holds the file lock of the primary file     *)
(* (see FileLock), so one operation runs at a time.  It may die between    *)
(* any two changes of the directory; the operator then runs any operation, *)
(* with any passphrase and any backup path.  Files appear and move         *)
(* atomically.                                                             *)
(*                                                                         *)
(* A file is the key it holds, which determines the DID, and its seal:     *)
(* Plain for version 1, the passphrase of an encrypted version 2 file, or  *)
(* Broken for one whose ciphertext no passphrase opens any more.           *)
(***************************************************************************)
EXTENDS Naturals

CONSTANTS
    Keys,
    Passphrases,
    Plain, Broken,
    Backups,       \* paths given as the encrypted backup
    NoFile, NoKey,
    MaxDeaths,     \* bound on deaths inside an operation
    MaxDamages     \* bound on encrypted files damaged

Seals == Passphrases \cup {Plain, Broken}
Files == [key : Keys, seal : Seals]

ASSUME IdentityAssumption ==
    /\ Plain \notin Passphrases /\ Broken \notin Passphrases /\ Plain # Broken
    /\ NoKey \notin Keys
    /\ Backups \cap {"primary", "candidate", "rollback"} = {}
    /\ NoFile \notin Files
    /\ MaxDeaths \in Nat /\ MaxDamages \in Nat

VARIABLES
    file,     \* what is at each path
    marker,   \* is there a .migration.json?
    stage,    \* where the operation that holds the lock is
    pass,     \* its passphrase
    backup,   \* its backup path
    origin,   \* the key of the plaintext identity there was before, or NoKey
    deaths,
    damages

rest == <<pass, backup, origin, deaths, damages>>
migrationVars == <<file, marker, stage, rest>>

Artifacts == {"candidate", "rollback"}
Paths == Artifacts \cup {"primary"} \cup Backups

Recovering == {"recover", "putBack", "undone", "reopen", "unmark",
               "dropRollback", "dropCandidate", "dropMarker", "check"}
Migrating == {"backup", "candidate", "mark", "move", "markMoved", "install",
              "markInstalled", "verify", "markVerified", "finish", "forget"}

\* Paths hold identity files, and the operation is at a location of its own.
MigrationTypeOK ==
    /\ file \in [Paths -> Files \cup {NoFile}]
    /\ marker \in BOOLEAN
    /\ stage \in {"idle", "done"} \cup Recovering \cup Migrating
    /\ pass \in Passphrases
    /\ backup \in Backups
    /\ origin \in Keys \cup {NoKey}
    /\ deaths \in 0 .. MaxDeaths
    /\ damages \in 0 .. MaxDamages

Plaintext(f) == f # NoFile /\ f.seal = Plain
Encrypted(f) == f # NoFile /\ f.seal # Plain

\* decryptIdentity with the operation's passphrase, then ensureSameDid.
Opens(f, key) == Encrypted(f) /\ f.seal = pass /\ f.key = key

\* A plaintext identity or none; a backup path may hold the backup of another
\* identity that had this name.
MigrationInit ==
    /\ origin \in Keys \cup {NoKey}
    /\ file \in [Paths -> Files \cup {NoFile}]
    /\ file["primary"] = IF origin = NoKey THEN NoFile ELSE [key |-> origin, seal |-> Plain]
    /\ \A p \in Artifacts : file[p] = NoFile
    /\ \A b \in Backups : file[b] # NoFile => file[b].seal \in Passphrases
    /\ marker = FALSE
    /\ stage = "idle"
    /\ pass \in Passphrases
    /\ backup \in Backups
    /\ deaths = 0
    /\ damages = 0

-----------------------------------------------------------------------------
(* Changes of the directory *)

\* The operation throws and the lock is released.
Throw == stage' = "idle" /\ UNCHANGED <<file, marker>>

\* A file appears or disappears.
Place(p, f) == file' = [file EXCEPT ![p] = f]

\* renameWithoutReplace: an existing destination is an error.
MoveFile(l, from, to, next) ==
    /\ stage = l
    /\ IF file[to] = NoFile
       THEN /\ file' = [file EXCEPT ![to] = file[from], ![from] = NoFile]
            /\ stage' = next
            /\ UNCHANGED marker
       ELSE Throw
    /\ UNCHANGED rest

DropFile(l, p, next) ==
    /\ stage = l
    /\ Place(p, NoFile)
    /\ stage' = next
    /\ UNCHANGED <<marker, rest>>

WriteMarker(l, next) ==
    /\ stage = l
    /\ marker' = TRUE
    /\ stage' = next
    /\ UNCHANGED <<file, rest>>

DropMarker(l, next) ==
    /\ stage = l
    /\ marker' = FALSE
    /\ stage' = next
    /\ UNCHANGED <<file, rest>>

-----------------------------------------------------------------------------
(* create and restore *)

Vacant ==
    /\ file["primary"] = NoFile
    /\ ~marker /\ \A p \in Artifacts : file[p] = NoFile

\* The key is new: no file holds it.
Create ==
    /\ stage \in {"idle", "done"}
    /\ Vacant
    /\ \E k \in Keys, p \in Passphrases :
          /\ \A q \in Paths : file[q] # NoFile => file[q].key # k
          /\ Place("primary", [key |-> k, seal |-> p])
    /\ stage' = "idle"
    /\ UNCHANGED <<marker, rest>>

\* The backup opens before and after it is written.
Restore ==
    /\ stage \in {"idle", "done"}
    /\ Vacant
    /\ \E b \in Backups :
          /\ Encrypted(file[b]) /\ file[b].seal # Broken
          /\ Place("primary", file[b])
    /\ stage' = "idle"
    /\ UNCHANGED <<marker, rest>>

-----------------------------------------------------------------------------
(* recoverLocked *)

\* migrate is given its passphrase and backup path, and gets the lock.
BeginMigrate(p, b) ==
    /\ stage \in {"idle", "done"}
    /\ pass' = p
    /\ backup' = b
    /\ stage' = "recover"
    /\ UNCHANGED <<file, marker, origin, deaths, damages>>

\* What is left beside an encrypted primary has to agree with it.
LeftoversAgree(key) ==
    /\ file["rollback"] # NoFile =>
          Plaintext(file["rollback"]) /\ file["rollback"].key = key
    /\ file["candidate"] # NoFile => Opens(file["candidate"], key)

RecoverEncrypted ==
    /\ stage = "recover"
    /\ Encrypted(file["primary"]) /\ file["primary"].seal = pass
    /\ IF LeftoversAgree(file["primary"].key)
       THEN stage' = "dropRollback" /\ UNCHANGED <<file, marker>>
       ELSE Throw
    /\ UNCHANGED rest

\* An encrypted primary that does not open is put aside as .failed-v2 for the
\* plaintext rollback, if the backup opens to the same key.
RecoverUnreadable ==
    /\ stage = "recover"
    /\ Encrypted(file["primary"]) /\ file["primary"].seal # pass
    /\ IF Plaintext(file["rollback"]) /\ Opens(file[backup], file["rollback"].key)
       THEN Place("primary", NoFile) /\ stage' = "putBack" /\ UNCHANGED marker
       ELSE Throw
    /\ UNCHANGED rest

\* A candidate left behind is taken for a conflict.
MutRecoverPlaintext ==
    /\ stage = "recover"
    /\ Plaintext(file["primary"])
    /\ IF \A p \in Artifacts : file[p] = NoFile
       THEN marker' = FALSE /\ stage' = "backup" /\ UNCHANGED file
       ELSE Throw
    /\ UNCHANGED rest

RecoverPlaintext ==
    /\ stage = "recover"
    /\ Plaintext(file["primary"])
    /\ IF file["rollback"] = NoFile
       THEN /\ marker' = (marker /\ file["candidate"] # NoFile)
            /\ stage' = "backup"
            /\ UNCHANGED file
       ELSE Throw
    /\ UNCHANGED rest

\* The process died between the two renames.
RecoverMoved ==
    /\ file["primary"] = NoFile
    /\ IF ~Plaintext(file["rollback"])
       THEN stage = "recover" /\ Throw /\ UNCHANGED rest
       ELSE IF file["candidate"] = NoFile
       THEN MoveFile("recover", "rollback", "primary", "unmark")
       ELSE IF Opens(file["candidate"], file["rollback"].key)
       THEN MoveFile("recover", "candidate", "primary", "reopen")
       ELSE stage = "recover" /\ Throw /\ UNCHANGED rest

\* What was installed is opened before the rollback goes.
MutVerifyPrimary(l, next) ==
    /\ stage = l
    /\ stage' = next
    /\ UNCHANGED <<file, marker, rest>>

VerifyPrimary(l, next) ==
    /\ stage = l
    /\ IF Opens(file["primary"], file["rollback"].key)
       THEN stage' = next /\ UNCHANGED <<file, marker>>
       ELSE Throw
    /\ UNCHANGED rest

-----------------------------------------------------------------------------
(* migrate *)

\* An identity that is encrypted already: is the backup good?
MutCheckBackup ==
    /\ stage = "check"
    /\ IF Encrypted(file[backup]) THEN stage' = "done" /\ UNCHANGED <<file, marker>> ELSE Throw
    /\ UNCHANGED rest

CheckBackup ==
    /\ stage = "check"
    /\ IF Opens(file[backup], file["primary"].key)
       THEN stage' = "done" /\ UNCHANGED <<file, marker>>
       ELSE Throw
    /\ UNCHANGED rest

\* An existing file that is kept and never opened.
MutPrepareFile(l, p, next) ==
    /\ stage = l
    /\ IF file[p] = NoFile
       THEN Place(p, [key |-> file["primary"].key, seal |-> pass])
       ELSE UNCHANGED file
    /\ stage' = next
    /\ UNCHANGED <<marker, rest>>

\* The backup and the candidate: an existing file has to open to the same key.
PrepareFile(l, p, next) ==
    /\ stage = l
    /\ IF file[p] = NoFile
       THEN /\ Place(p, [key |-> file["primary"].key, seal |-> pass])
            /\ stage' = next
            /\ UNCHANGED marker
       ELSE IF Opens(file[p], file["primary"].key)
       THEN stage' = next /\ UNCHANGED <<file, marker>>
       ELSE Throw
    /\ UNCHANGED rest

RecoverStep ==
    \/ RecoverEncrypted \/ RecoverUnreadable \/ RecoverPlaintext \/ RecoverMoved
    \/ MoveFile("putBack", "rollback", "primary", "undone")
    \/ DropMarker("undone", "idle")
    \/ DropMarker("unmark", "backup")
    \/ VerifyPrimary("reopen", "dropRollback")
    \/ DropFile("dropRollback", "rollback", "dropCandidate")
    \/ DropFile("dropCandidate", "candidate", "dropMarker")
    \/ DropMarker("dropMarker", "check")
    \/ CheckBackup

MigrateStep ==
    \/ PrepareFile("backup", backup, "candidate")
    \/ PrepareFile("candidate", "candidate", "mark")
    \/ WriteMarker("mark", "move")
    \/ MoveFile("move", "primary", "rollback", "markMoved")
    \/ WriteMarker("markMoved", "install")
    \/ MoveFile("install", "candidate", "primary", "markInstalled")
    \/ WriteMarker("markInstalled", "verify")
    \/ VerifyPrimary("verify", "markVerified")
    \/ WriteMarker("markVerified", "finish")
    \/ DropFile("finish", "rollback", "forget")
    \/ DropMarker("forget", "done")

-----------------------------------------------------------------------------

\* The process dies, or a file operation of it throws.
Die ==
    /\ stage \notin {"idle", "done"}
    /\ deaths < MaxDeaths
    /\ deaths' = deaths + 1
    /\ Throw
    /\ UNCHANGED <<pass, backup, origin, damages>>

\* An encrypted file turns out to be unreadable: between operations, or when the
\* installed one is about to be opened.
Damage(p) ==
    /\ stage \in {"idle", "done"} \/ (stage = "verify" /\ p = "primary")
    /\ Encrypted(file[p]) /\ file[p].seal # Broken
    /\ damages < MaxDamages
    /\ damages' = damages + 1
    /\ Place(p, [file[p] EXCEPT !.seal = Broken])
    /\ stage' = IF stage = "done" THEN "idle" ELSE stage
    /\ UNCHANGED <<marker, pass, backup, origin, deaths>>

MigrationNext ==
    \/ \E p \in Passphrases, b \in Backups : BeginMigrate(p, b)
    \/ RecoverStep \/ MigrateStep
    \/ Create \/ Restore \/ Die
    \/ \E p \in Paths : Damage(p)

\* An operation that runs goes on; the operator reruns an interrupted migration
\* and comes round to every passphrase and backup path used so far.
MigrationFairness ==
    /\ WF_migrationVars(RecoverStep \/ MigrateStep)
    /\ \A p \in Passphrases, b \in Backups : SF_migrationVars(BeginMigrate(p, b) /\ stage = "idle")

MigrationSpec == MigrationInit /\ [][MigrationNext]_migrationVars
MigrationFairSpec == MigrationSpec /\ MigrationFairness

-----------------------------------------------------------------------------

Legacy == origin # NoKey
Holds(f) == f # NoFile /\ f.key = origin /\ f.seal # Broken

\* README.md, "with exact DID preservation": whatever was interrupted and rerun,
\* the primary file of a plaintext identity only ever holds that identity's key.
DidPreserved == Legacy /\ file["primary"] # NoFile => file["primary"].key = origin

\* As long as one encrypted file at most is damaged, the key is in some file that
\* can be opened: between any two steps, and after the migration as well.
KeyNeverLost == Legacy /\ damages <= 1 => \E p \in Paths : Holds(file[p])

HasPlaintext == \E p \in Paths : Plaintext(file[p])

\* README.md, "deletes the rollback only after the installed identity decrypts to
\* the exact original DID": the last plaintext copy goes when the primary opens
\* with the passphrase given, and a backup was made of it.
PlaintextOutlivesDoubt ==
    [][HasPlaintext /\ ~HasPlaintext' =>
          /\ Opens(file["primary"], origin)
          /\ damages = 0 => \E b \in Backups : Holds(file[b])]_migrationVars

\* migrate reports success, migrated or found migrated, only when the identity
\* and the backup named in this call open with the passphrase of this call, and
\* nothing of a migration is left.
ReportsAreTrue ==
    stage = "done" =>
        /\ Opens(file["primary"], file["primary"].key)
        /\ Opens(file[backup], file["primary"].key)
        /\ ~marker /\ \A p \in Artifacts : file[p] = NoFile

\* README.md, "Rerun the same migration command after an interrupted migration":
\* a plaintext identity whose backup paths were free is encrypted in the end, as
\* long as no file is damaged.
MigrationCompletes ==
    Legacy /\ (\A b \in Backups : file[b] = NoFile) =>
        <>[](\/ Encrypted(file["primary"]) /\ ~marker /\ \A p \in Artifacts : file[p] = NoFile
            \/ damages > 0)

=============================================================================
