------------------------------ MODULE Database ------------------------------
(***************************************************************************)
(* The database file and the processes that open it: the commands of ecdb  *)
(* that change or read it, and the server, which migrates the file when it *)
(* opens it.  ecdb "assumes it is the only process touching the database", *)
(* and the server is stopped for it, so one process has the file at a time *)
(* - but it may be a build that knows fewer migrations or more, and it may *)
(* be killed at any step.                                                  *)
(*                                                                         *)
(* SQLite and sqlitemigration are external: a transaction and VACUUM are   *)
(* atomic, VACUUM INTO is not; Migrate refuses a file with another         *)
(* application_id, and applies each missing migration in a transaction     *)
(* that also sets user_version.  SQLite drops a journal or a WAL it finds  *)
(* beside an empty file, so the sidecar files are left out.                *)
(***************************************************************************)
EXTENDS Naturals

CONSTANTS
  Builds,           \* the builds of ec and ecdb in use
  ExpectedVersion,  \* build -> the number of migrations it knows
  Rows,             \* what an admin or the server may store
  TimeBound,        \* seconds during which backups are taken
  None, Directory, Torn

ASSUME DatabaseAssumption ==
  /\ ExpectedVersion \in [Builds -> Nat \ {0}]
  /\ TimeBound \in Nat \ {0}

VARIABLES
  file,     \* at ec.db: None, something that is not a regular file, or a database
  backups,  \* second -> the backup named for it
  now,
  proc,     \* the process that has the file
  exit      \* how the last process that was not killed ended

vars == <<file, backups, now, proc, exit>>

Commands ==
  {"create", "admin", "migrate", "serve", "backup", "compact", "verify"}

(* wal: the journal mode the header asks for. *)
DatabaseFile ==
  [app : {"unset", "ec", "foreign"}, version : Nat, rows : SUBSET Rows, wal : BOOLEAN]

Backup == [stamp : Nat, copy : DatabaseFile]

Process ==
  [cmd : Commands, build : Builds, overwrite : BOOLEAN,
   pc : {"start", "remove", "build", "appID", "migrations", "open", "copy", "copying"},
   dest : 0 .. TimeBound]

Outcome == [cmd : Commands, build : Builds, ok : BOOLEAN]

ASSUME NoneIsNoValue ==
  /\ Directory # None /\ {None, Directory} \intersect DatabaseFile = {}
  /\ {None, Torn} \intersect Backup = {}
  /\ None \notin Process /\ None \notin Outcome

Regular == file \notin {None, Directory}

(* application_id is ours, another program's, or not set: an empty file. *)
IsEC == Regular /\ file.app = "ec"

Expected == ExpectedVersion[proc.build]

Blank == [app |-> "unset", version |-> 0, rows |-> {}, wal |-> FALSE]

Stored(v) ==
  UNION {{[app |-> "ec", version |-> v, rows |-> {}, wal |-> w],
          [app |-> "foreign", version |-> v, rows |-> Rows, wal |-> w]} : w \in BOOLEAN}

Init ==
  /\ file \in {None, Directory} \union Stored(0) \union Stored(1)
  /\ backups = [t \in 1 .. TimeBound |-> None]
  /\ now = 1 /\ proc = None /\ exit = None

Start(c, b, o) ==
  /\ proc = None
  /\ proc' = [cmd |-> c, build |-> b, overwrite |-> o, pc |-> "start", dest |-> 0]
  /\ exit' = None
  /\ UNCHANGED <<file, backups, now>>

-----------------------------------------------------------------------------
At(cmds, pc) == proc # None /\ proc.cmd \in cmds /\ proc.pc = pc

Goto(pc) == proc' = [proc EXCEPT !.pc = pc] /\ UNCHANGED exit

Exit(ok) ==
  /\ proc' = None
  /\ exit' = [cmd |-> proc.cmd, build |-> proc.build, ok |-> ok]

(* Mutant of CreateStat: --overwrite is forgotten. *)
CreateStatReplaces ==
  /\ At({"create"}, "start")
  /\ IF file = None THEN Goto("build")
     ELSE IF Regular THEN Goto("remove")
     ELSE Exit(FALSE)
  /\ UNCHANGED <<file, backups, now>>

(* cmdCreate's checks: a database is in the way unless --overwrite, anything else
   is in any case. *)
CreateStat ==
  /\ At({"create"}, "start")
  /\ IF file = None THEN Goto("build")
     ELSE IF Regular /\ proc.overwrite THEN Goto("remove")
     ELSE Exit(FALSE)
  /\ UNCHANGED <<file, backups, now>>

RemoveDB ==
  /\ At({"create"}, "remove")
  /\ file' = None
  /\ Goto("build")
  /\ UNCHANGED <<backups, now>>

(* store.Create: its own check, and the new, empty file. *)
CreateFile ==
  /\ At({"create"}, "build")
  /\ IF file = None
     THEN file' = Blank /\ Goto("appID")
     ELSE Exit(FALSE) /\ UNCHANGED file
  /\ UNCHANGED <<backups, now>>

(* OpenPersistent's pool asks for WAL on every connection, and so before anybody has
   looked at whose database it is. *)
Journaled == IF proc.cmd = "migrate" THEN file ELSE [file EXCEPT !.wal = TRUE]

(* Mutant of OpenExisting: the path is looked up, but not what is there. *)
OpenExistingAnything ==
  /\ At({"admin", "migrate", "serve"}, "start")
  /\ IF file # None
     THEN Goto("appID") /\ file' = IF Regular THEN Journaled ELSE file
     ELSE Exit(FALSE) /\ UNCHANGED file
  /\ UNCHANGED <<backups, now>>

(* store.MigrateUp and store.OpenPersistent: never a new file. *)
OpenExisting ==
  /\ At({"admin", "migrate", "serve"}, "start")
  /\ IF Regular
     THEN Goto("appID") /\ file' = Journaled
     ELSE Exit(FALSE) /\ UNCHANGED file
  /\ UNCHANGED <<backups, now>>

(* sqlitemigration.Migrate: the application_id first. *)
EnsureAppID ==
  /\ At(Commands, "appID")
  /\ IF file.app = "foreign"
     THEN Exit(FALSE) /\ UNCHANGED file
     ELSE file' = [file EXCEPT !.app = "ec"] /\ Goto("migrations")
  /\ UNCHANGED <<backups, now>>

Migration ==
  /\ At(Commands, "migrations") /\ file.version < Expected
  /\ file' = [file EXCEPT !.version = @ + 1]
  /\ UNCHANGED <<backups, now, proc, exit>>

(* Mutant of Migrated: MigrateUp trusts the library with the version. *)
MigratedTrusted ==
  /\ At(Commands, "migrations") /\ file.version >= Expected
  /\ IF proc.cmd \in {"serve", "admin"} /\ file.version # Expected THEN Exit(FALSE)
     ELSE IF proc.cmd \in {"admin", "serve"} THEN Goto("open")
     ELSE Exit(TRUE)
  /\ UNCHANGED <<file, backups, now>>

(* Mutant of Migrated: openPool trusts the library with the version. *)
MigratedOpened ==
  /\ At(Commands, "migrations") /\ file.version >= Expected
  /\ IF proc.cmd = "migrate" /\ file.version # Expected THEN Exit(FALSE)
     ELSE IF proc.cmd \in {"admin", "serve"} THEN Goto("open")
     ELSE Exit(TRUE)
  /\ UNCHANGED <<file, backups, now>>

(* Migrate returns; it does nothing to a file that is ahead, so MigrateUp and
   openPool look at the version again.  Create need not. *)
Migrated ==
  /\ At(Commands, "migrations") /\ file.version >= Expected
  /\ IF proc.cmd # "create" /\ file.version # Expected THEN Exit(FALSE)
     ELSE IF proc.cmd \in {"admin", "serve"} THEN Goto("open")
     ELSE Exit(TRUE)
  /\ UNCHANGED <<file, backups, now>>

(* cmdAdminCreate's account, whose e-mail may be taken. *)
InsertAdmin(r) ==
  /\ At({"admin"}, "open")
  /\ file' = [file EXCEPT !.rows = @ \union {r}]
  /\ Exit(r \notin file.rows)
  /\ UNCHANGED <<backups, now>>

(* Any write of the server while it runs, and its stop. *)
ServerWrites(r) ==
  /\ At({"serve"}, "open") /\ r \notin file.rows
  /\ file' = [file EXCEPT !.rows = @ \union {r}]
  /\ UNCHANGED <<backups, now, proc, exit>>

ServerStops ==
  /\ At({"serve"}, "open")
  /\ Exit(TRUE)
  /\ UNCHANGED <<file, backups, now>>

-----------------------------------------------------------------------------
(* Mutant of Verified: any version the build can read. *)
VerifiedReadable == IsEC /\ file.version <= Expected

(* store.Verify: the version must match exactly. *)
Verified == IsEC /\ file.version = Expected

VerifyFile ==
  /\ At({"verify"}, "start")
  /\ Exit(Verified)
  /\ UNCHANGED <<file, backups, now>>

(* The name is fixed when the database has been verified; --version-stamp adds
   the build's version to it. *)
BackupVerify ==
  /\ At({"backup"}, "start")
  /\ IF Verified
     THEN proc' = [proc EXCEPT !.pc = "copy", !.dest = now] /\ UNCHANGED exit
     ELSE Exit(FALSE)
  /\ UNCHANGED <<file, backups, now>>

Free(t) == backups[t] = None

(* VACUUM INTO refuses a name that exists, and then writes the copy. *)
VacuumInto ==
  /\ At({"backup"}, "copy")
  /\ IF Free(proc.dest)
     THEN backups' = [backups EXCEPT ![proc.dest] = Torn] /\ Goto("copying")
     ELSE Exit(FALSE) /\ UNCHANGED backups
  /\ UNCHANGED <<file, now>>

Copied ==
  /\ At({"backup"}, "copying")
  /\ backups' = [backups EXCEPT ![proc.dest] =
                   [stamp |-> Expected, copy |-> [file EXCEPT !.wal = FALSE]]]
  /\ Exit(TRUE)
  /\ UNCHANGED <<file, now>>

(* cmdCompact: VACUUM in place, for any version, changes neither schema nor data. *)
Compact ==
  /\ At({"compact"}, "start")
  /\ Exit(IsEC)
  /\ UNCHANGED <<file, backups, now>>

-----------------------------------------------------------------------------
Killed ==
  /\ proc # None /\ proc' = None
  /\ UNCHANGED <<file, backups, now, exit>>

Tick ==
  /\ now < TimeBound /\ now' = now + 1
  /\ UNCHANGED <<file, backups, proc, exit>>

Next ==
  \/ \E c \in Commands, b \in Builds, o \in BOOLEAN : Start(c, b, o)
  \/ CreateStat \/ RemoveDB \/ CreateFile
  \/ OpenExisting \/ EnsureAppID \/ Migration \/ Migrated
  \/ \E r \in Rows : InsertAdmin(r) \/ ServerWrites(r)
  \/ ServerStops
  \/ VerifyFile \/ BackupVerify \/ VacuumInto \/ Copied \/ Compact
  \/ Killed \/ Tick

Spec == Init /\ [][Next]_vars

-----------------------------------------------------------------------------
TypeOK ==
  /\ file \in {None, Directory} \union DatabaseFile
  /\ backups \in [1 .. TimeBound -> {None, Torn} \union Backup]
  /\ now \in 1 .. TimeBound
  /\ proc \in Process \union {None}
  /\ exit \in Outcome \union {None}
  /\ proc # None /\ proc.pc \in {"appID", "migrations", "open", "copy", "copying"} => Regular

OutOfBounds == Regular /\ proc # None /\ (file.app = "foreign" \/ file.version > Expected)

Contents(f) == <<f.app, f.version, f.rows>>

(* A build never changes what is in a database that is not its own: one with a
   newer schema than it knows, after a rollback, or another program's.  The journal
   mode in its header is not safe from an open, the rest is; only create --overwrite
   touches it, and that removes the file. *)
ForeignAndNewerUntouched ==
  [][OutOfBounds =>
       \/ Regular' /\ Contents(file') = Contents(file)
       \/ file' = None /\ proc.overwrite]_vars

(* What has been stored stays stored: the schema never goes back, no row is lost
   to a migration, a restart, a crash or a create without --overwrite, and a
   finished backup is never replaced. *)
NothingLost ==
  [][/\ Regular =>
          \/ /\ file' \notin {None, Directory}
             /\ file.version <= file'.version /\ file.rows \subseteq file'.rows
          \/ file' = None /\ At({"create"}, "remove") /\ proc.overwrite
     /\ \A t \in 1 .. TimeBound :
          backups[t] \notin {None, Torn} => backups'[t] = backups[t]]_vars

(* A finished backup holds a whole database of exactly the schema version its
   name is stamped with. *)
StampsAreTrue ==
  \A t \in 1 .. TimeBound :
    backups[t] \notin {None, Torn} =>
      backups[t].copy.app = "ec" /\ backups[t].copy.version = backups[t].stamp

(* When a command that promises a current database reports success there is one,
   whatever earlier commands of either build did and wherever they were killed. *)
SuccessMeansCurrent ==
  exit # None /\ exit.ok /\ exit.cmd # "compact" =>
    IsEC /\ file.version = ExpectedVersion[exit.build]
=============================================================================
