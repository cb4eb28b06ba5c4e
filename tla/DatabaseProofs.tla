--------------------------- MODULE DatabaseProofs ---------------------------
(* What TLAPS proves of Database, for any builds, rows and number of seconds. *)
EXTENDS Database, TLAPS

Current == IsEC /\ file.version = Expected

(* What a process has found out about the file by the time it is at a given step; it
   stays true because no other process has the file. *)
Knows ==
  /\ proc.pc = "remove" => proc.overwrite
  /\ proc.pc = "migrations" => file.app = "ec"
  /\ proc.pc \in {"appID", "migrations"} /\ proc.cmd = "create" => file.version <= Expected
  /\ proc.pc \in {"open", "copy", "copying"} => Current
  /\ proc.pc \in {"copy", "copying"} => proc.dest \in 1 .. TimeBound
  /\ proc.pc = "copying" => backups[proc.dest] = Torn

(* A file without an application_id has no schema: it is one that create has just
   made. *)
BlankIsEmpty == Regular /\ file.app = "unset" => file.version = 0

IInv ==
  /\ TypeOK
  /\ BlankIsEmpty
  /\ proc # None => Knows /\ exit = None
  /\ StampsAreTrue
  /\ SuccessMeansCurrent

-----------------------------------------------------------------------------
LEMMA FileType ==
  ASSUME TypeOK, Regular
  PROVE  file \in DatabaseFile
  BY DEF TypeOK, Regular

LEMMA ProcType ==
  ASSUME TypeOK, proc # None
  PROVE  proc \in Process /\ Expected \in Nat
  BY DatabaseAssumption DEF TypeOK, Process, Expected

LEMMA InitInv == Init => IInv
  <1> SUFFICES ASSUME Init PROVE IInv
    OBVIOUS
  <1>1. Stored(0) \union Stored(1) \subseteq DatabaseFile
    BY DEF Stored, DatabaseFile
  <1>2. now \in 1 .. TimeBound
    BY DatabaseAssumption DEF Init
  <1>3. \A f \in Stored(0) \union Stored(1) : f.app # "unset"
    BY DEF Stored
  <1> QED
    BY <1>1, <1>2, <1>3
    DEF Init, IInv, TypeOK, BlankIsEmpty, Regular, StampsAreTrue, SuccessMeansCurrent

Places == {"start", "remove", "build", "appID", "migrations", "open", "copy", "copying"}

(* Steps that leave the file and the backups alone and move the process on. *)
LEMMA GotoInv ==
  ASSUME IInv, proc # None, UNCHANGED <<file, backups, now>>, NEW pc \in Places, Goto(pc),
         Knows', pc \in {"appID", "migrations", "open", "copy", "copying"} => Regular
  PROVE  IInv'
  <1>1. proc' \in Process /\ proc'.pc = pc
    BY ProcType DEF IInv, Goto, Process, Places
  <1>2. TypeOK'
    BY <1>1 DEF IInv, TypeOK, Regular, Goto
  <1> QED
    BY <1>2
    DEF IInv, BlankIsEmpty, Regular, StampsAreTrue, SuccessMeansCurrent, IsEC, Goto

(* Steps that end the process and leave the file and the backups alone. *)
LEMMA ExitInv ==
  ASSUME IInv, proc # None, UNCHANGED <<file, backups, now>>, NEW ok \in BOOLEAN, Exit(ok),
         ok /\ proc.cmd # "compact" => Current
  PROVE  IInv'
  <1>1. exit' \in Outcome /\ exit'.ok = ok /\ exit'.cmd = proc.cmd
          /\ exit'.build = proc.build
    BY ProcType DEF IInv, Exit, Process, Outcome
  <1>2. TypeOK'
    BY <1>1 DEF IInv, TypeOK, Exit
  <1>3. SuccessMeansCurrent'
    BY <1>1 DEF SuccessMeansCurrent, Current, Expected, IsEC, Regular
  <1> QED
    BY <1>2, <1>3 DEF IInv, BlankIsEmpty, Regular, StampsAreTrue, Exit


(* create has started: nobody else has the file, so it is still what it was when it was
   looked at. *)
LEMMA CreateInv ==
  ASSUME IInv, CreateStat \/ RemoveDB \/ CreateFile
  PROVE  IInv'
  <1>1. proc # None /\ proc.cmd = "create" /\ proc \in Process /\ Expected \in Nat
    BY ProcType DEF IInv, CreateStat, RemoveDB, CreateFile, At
  <1>2. CASE CreateStat
    <2>1. CASE file = None \/ (Regular /\ proc.overwrite)
      <3> DEFINE pc == IF file = None THEN "build" ELSE "remove"
      <3>1. Goto(pc) /\ UNCHANGED <<file, backups, now>>
        BY <1>2, <2>1 DEF CreateStat
      <3>2. Knows'
        BY <1>1, <2>1, <3>1 DEF Goto, Knows, Process
      <3> QED BY <1>1, <3>1, <3>2, GotoInv DEF Places
    <2>2. CASE file # None /\ ~(Regular /\ proc.overwrite)
      BY <1>1, <1>2, <2>2, ExitInv DEF CreateStat
    <2> QED BY <2>1, <2>2
  <1>3. CASE RemoveDB
    <2>1. proc' = [proc EXCEPT !.pc = "build"] /\ exit' = exit /\ file' = None
            /\ UNCHANGED <<backups, now>>
      BY <1>3 DEF RemoveDB, Goto
    <2>2. proc' \in Process /\ proc'.pc = "build"
      BY <1>1, <2>1 DEF Process
    <2>3. TypeOK'
      BY <2>1, <2>2 DEF IInv, TypeOK
    <2> QED
      BY <1>1, <2>1, <2>2, <2>3
      DEF IInv, BlankIsEmpty, Regular, StampsAreTrue, SuccessMeansCurrent, Knows
  <1>4. CASE CreateFile
    <2>1. CASE file = None
      <3>1. proc' = [proc EXCEPT !.pc = "appID"] /\ exit' = exit /\ file' = Blank
              /\ UNCHANGED <<backups, now>>
        BY <1>4, <2>1 DEF CreateFile, Goto
      <3>2. /\ proc' \in Process /\ proc'.pc = "appID"
            /\ proc'.build = proc.build /\ proc'.cmd = "create"
        BY <1>1, <3>1 DEF Process
      <3>3. file' \in DatabaseFile /\ file'.version = 0
        BY <3>1 DEF Blank, DatabaseFile
      <3>4. TypeOK'
        BY <3>1, <3>2, <3>3, NoneIsNoValue DEF IInv, TypeOK, Regular
      <3>5. Knows'
        BY <1>1, <3>2, <3>3 DEF Knows, Expected
      <3> QED
        BY <1>1, <3>1, <3>2, <3>3, <3>4, <3>5
        DEF IInv, BlankIsEmpty, Regular, StampsAreTrue, SuccessMeansCurrent
    <2>2. CASE file # None
      BY <1>1, <1>4, <2>2, ExitInv DEF CreateFile
    <2> QED BY <2>1, <2>2
  <1> QED BY <1>2, <1>3, <1>4

LEMMA JournaledIs ==
  ASSUME file \in DatabaseFile
  PROVE  Journaled \in DatabaseFile /\ Contents(Journaled) = Contents(file)
         /\ Journaled.app = file.app /\ Journaled.version = file.version
         /\ Journaled.rows = file.rows
  BY DEF Journaled, DatabaseFile, Contents

(* Opening and migrating: the version grows up to the build's and no further. *)
LEMMA MigrateInv ==
  ASSUME IInv, OpenExisting \/ EnsureAppID \/ Migration \/ Migrated
  PROVE  IInv'
  <1>1. proc # None /\ proc \in Process /\ Expected \in Nat /\ Knows /\ exit = None
    BY ProcType DEF IInv, OpenExisting, EnsureAppID, Migration, Migrated, At
  <1>2. CASE OpenExisting
    <2>1. CASE Regular
      <3>1. /\ file' = Journaled /\ proc' = [proc EXCEPT !.pc = "appID"]
            /\ UNCHANGED <<backups, now, exit>> /\ proc.cmd # "create"
            /\ file \in DatabaseFile
        BY <1>2, <2>1, FileType DEF OpenExisting, At, Goto, IInv
      <3>2. /\ proc' \in Process /\ proc'.pc = "appID" /\ proc'.cmd = proc.cmd
            /\ proc'.build = proc.build
        BY <1>1, <3>1 DEF Process
      <3>3. file' \in DatabaseFile /\ file'.app = file.app /\ file'.version = file.version
        BY <3>1, JournaledIs
      <3>4. TypeOK'
        BY <3>1, <3>2, <3>3, NoneIsNoValue DEF IInv, TypeOK, Regular
      <3>5. Knows'
        BY <1>1, <3>1, <3>2 DEF Knows
      <3> QED
        BY <1>1, <2>1, <3>1, <3>2, <3>3, <3>4, <3>5
        DEF IInv, BlankIsEmpty, Regular, StampsAreTrue, SuccessMeansCurrent
    <2>2. CASE ~Regular
      BY <1>1, <1>2, <2>2, ExitInv DEF OpenExisting
    <2> QED BY <2>1, <2>2
  <1>3. CASE EnsureAppID
    <2>1. proc.pc = "appID" /\ Regular /\ file \in DatabaseFile
      BY <1>1, <1>3, FileType DEF EnsureAppID, At, IInv, TypeOK
    <2>2. CASE file.app = "foreign"
      BY <1>1, <1>3, <2>2, ExitInv DEF EnsureAppID
    <2>3. CASE file.app # "foreign"
      <3>1. /\ file' = [file EXCEPT !.app = "ec"] /\ proc' = [proc EXCEPT !.pc = "migrations"]
            /\ UNCHANGED <<backups, now, exit>>
        BY <1>3, <2>3 DEF EnsureAppID, Goto
      <3>2. /\ proc' \in Process /\ proc'.pc = "migrations"
            /\ proc'.build = proc.build /\ proc'.cmd = proc.cmd
        BY <1>1, <3>1 DEF Process
      <3>3. file' \in DatabaseFile /\ file'.app = "ec" /\ file'.version = file.version
        BY <2>1, <3>1 DEF DatabaseFile
      <3>4. TypeOK'
        BY <3>1, <3>2, <3>3, NoneIsNoValue DEF IInv, TypeOK, Regular
      <3>5. Knows'
        BY <1>1, <2>1, <3>2, <3>3 DEF Knows, Expected
      <3> QED
        BY <1>1, <3>1, <3>2, <3>3, <3>4, <3>5
        DEF IInv, BlankIsEmpty, Regular, StampsAreTrue, SuccessMeansCurrent
    <2> QED BY <2>2, <2>3
  <1>4. CASE Migration
    <2>1. /\ proc.pc = "migrations" /\ file.version < Expected
          /\ file' = [file EXCEPT !.version = @ + 1] /\ UNCHANGED <<backups, now, proc, exit>>
          /\ file \in DatabaseFile /\ file.app = "ec"
      BY <1>1, <1>4, FileType DEF Migration, At, IInv, TypeOK, Knows
    <2>2. file' \in DatabaseFile /\ file'.app = "ec" /\ file'.version = file.version + 1
      BY <2>1 DEF DatabaseFile
    <2>3. file'.version <= Expected
      BY <1>1, <2>1, <2>2 DEF DatabaseFile
    <2>4. TypeOK'
      BY <2>1, <2>2, NoneIsNoValue DEF IInv, TypeOK, Regular
    <2>5. Knows'
      BY <1>1, <2>1, <2>2, <2>3 DEF Knows, Expected
    <2> QED
      BY <1>1, <2>1, <2>2, <2>4, <2>5
      DEF IInv, BlankIsEmpty, Regular, StampsAreTrue, SuccessMeansCurrent
  <1>5. CASE Migrated
    <2>1. /\ proc.pc = "migrations" /\ file.version >= Expected /\ file.app = "ec"
          /\ Regular /\ file \in DatabaseFile /\ UNCHANGED <<file, backups, now>>
      BY <1>1, <1>5, FileType DEF Migrated, At, IInv, TypeOK, Knows
    <2>2. CASE proc.cmd # "create" /\ file.version # Expected
      BY <1>1, <1>5, <2>1, <2>2, ExitInv DEF Migrated
    <2>3. CASE ~(proc.cmd # "create" /\ file.version # Expected)
      <3>1. Current
        BY <1>1, <2>1, <2>3 DEF Knows, Current, IsEC, DatabaseFile
      <3>2. CASE proc.cmd \in {"admin", "serve"}
        <4>1. Goto("open")
          BY <1>5, <2>3, <3>2 DEF Migrated
        <4>2. Knows'
          BY <1>1, <2>1, <3>1, <4>1
          DEF Goto, Knows, Process, Current, IsEC, Regular, Expected
        <4> QED BY <1>1, <2>1, <4>1, <4>2, GotoInv DEF Places
      <3>3. CASE proc.cmd \notin {"admin", "serve"}
        BY <1>1, <1>5, <2>1, <2>3, <3>1, <3>3, ExitInv DEF Migrated
      <3> QED BY <3>2, <3>3
    <2> QED BY <2>2, <2>3
  <1> QED BY <1>2, <1>3, <1>4, <1>5

(* A row stored by a process that has the database open. *)
LEMMA RowInv ==
  ASSUME IInv, NEW r \in Rows, InsertAdmin(r) \/ ServerWrites(r)
  PROVE  IInv'
  <1>1. /\ proc # None /\ proc \in Process /\ Knows /\ proc.pc = "open"
        /\ Current /\ file \in DatabaseFile /\ UNCHANGED <<backups, now>>
        /\ file' = [file EXCEPT !.rows = @ \union {r}]
    BY ProcType, FileType DEF IInv, InsertAdmin, ServerWrites, At, Knows, Current, IsEC
  <1>2. file' \in DatabaseFile /\ file'.app = file.app /\ file'.version = file.version
    BY <1>1 DEF DatabaseFile
  <1>3. IsEC' /\ file'.version = Expected /\ Regular'
    BY <1>1, <1>2, NoneIsNoValue DEF Current, IsEC, Regular
  <1>4. CASE InsertAdmin(r)
    <2>1. /\ proc' = None /\ exit' \in Outcome
          /\ exit'.build = proc.build
      BY <1>1, <1>4 DEF InsertAdmin, Exit, Outcome, Process
    <2>2. TypeOK'
      BY <1>1, <1>2, <2>1 DEF IInv, TypeOK
    <2> QED
      BY <1>1, <1>2, <1>3, <2>1, <2>2
      DEF IInv, BlankIsEmpty, IsEC, Regular, StampsAreTrue, SuccessMeansCurrent, Expected
  <1>5. CASE ServerWrites(r)
    <2>1. UNCHANGED <<proc, exit>> /\ exit = None
      BY <1>1, <1>5 DEF ServerWrites, IInv
    <2>2. TypeOK'
      BY <1>1, <1>2, <1>3, <2>1 DEF IInv, TypeOK
    <2>3. Knows'
      BY <1>1, <1>2, <1>3, <2>1 DEF Knows, Current, Expected
    <2> QED
      BY <1>1, <1>2, <1>3, <2>1, <2>2, <2>3
      DEF IInv, BlankIsEmpty, IsEC, Regular, StampsAreTrue, SuccessMeansCurrent
  <1> QED BY <1>4, <1>5

(* The commands that only look, and the server's stop. *)
LEMMA LookInv ==
  ASSUME IInv, ServerStops \/ VerifyFile \/ Compact
  PROVE  IInv'
  <1>1. proc # None /\ Knows
    BY DEF IInv, ServerStops, VerifyFile, Compact, At
  <1>2. CASE ServerStops
    BY <1>1, <1>2, ExitInv DEF ServerStops, At, Knows
  <1>3. CASE VerifyFile
    BY <1>1, <1>3, ExitInv DEF VerifyFile, Verified, IsEC, Current
  <1>4. CASE Compact
    BY <1>1, <1>4, ExitInv DEF Compact, IsEC, At
  <1> QED BY <1>2, <1>3, <1>4

(* A backup: the database it copies is the one that was verified. *)
LEMMA BackupInv ==
  ASSUME IInv, BackupVerify \/ VacuumInto \/ Copied
  PROVE  IInv'
  <1>1. /\ proc # None /\ proc \in Process /\ Expected \in Nat /\ Knows /\ exit = None
        /\ UNCHANGED <<file, now>>
    BY ProcType DEF IInv, BackupVerify, VacuumInto, Copied, At
  <1>2. CASE BackupVerify
    <2>1. CASE Verified
      <3>1. proc' = [proc EXCEPT !.pc = "copy", !.dest = now] /\ UNCHANGED <<exit, backups>>
        BY <1>2, <2>1 DEF BackupVerify
      <3>2. /\ proc' \in Process /\ proc'.pc = "copy" /\ proc'.dest \in 1 .. TimeBound
            /\ proc'.build = proc.build
        <4> DEFINE atCopy == [proc EXCEPT !.pc = "copy"]
        <4>1. atCopy \in Process /\ atCopy.pc = "copy" /\ atCopy.build = proc.build
          BY <1>1 DEF Process
        <4>2. proc' = [atCopy EXCEPT !.dest = now] /\ now \in 1 .. TimeBound
          BY <3>1 DEF IInv, TypeOK
        <4> HIDE DEF atCopy
        <4> QED BY <4>1, <4>2, DatabaseAssumption DEF Process
      <3>3. Current /\ Regular
        BY <2>1 DEF Verified, Current, IsEC
      <3>4. TypeOK'
        BY <1>1, <3>1, <3>2, <3>3 DEF IInv, TypeOK, Regular
      <3>5. Knows'
        BY <1>1, <3>2, <3>3 DEF Knows, Current, IsEC, Regular, Expected
      <3> QED
        BY <1>1, <3>1, <3>4, <3>5
        DEF IInv, BlankIsEmpty, Regular, StampsAreTrue, SuccessMeansCurrent
    <2>2. CASE ~Verified
      BY <1>1, <1>2, <2>2, ExitInv DEF BackupVerify
    <2> QED BY <2>1, <2>2
  <1>3. CASE VacuumInto
    <2>1. proc.pc = "copy" /\ Current /\ proc.dest \in 1 .. TimeBound
      BY <1>1, <1>3 DEF VacuumInto, At, Knows
    <2>2. CASE Free(proc.dest)
      <3>1. /\ backups' = [backups EXCEPT ![proc.dest] = Torn]
            /\ proc' = [proc EXCEPT !.pc = "copying"] /\ UNCHANGED exit
        BY <1>3, <2>2 DEF VacuumInto, Goto
      <3>2. /\ proc' \in Process /\ proc'.pc = "copying" /\ proc'.dest = proc.dest
            /\ proc'.build = proc.build
        BY <1>1, <3>1 DEF Process
      <3>3. backups'[proc.dest] = Torn
        BY <2>1, <3>1 DEF IInv, TypeOK
      <3>4. TypeOK'
        BY <1>1, <2>1, <3>1, <3>2 DEF IInv, TypeOK, Regular, Current, IsEC
      <3>5. Knows'
        BY <1>1, <2>1, <3>2, <3>3 DEF Knows, Current, IsEC, Regular, Expected
      <3>6. StampsAreTrue'
        BY <3>1 DEF IInv, TypeOK, StampsAreTrue
      <3> QED
        BY <1>1, <3>1, <3>4, <3>5, <3>6
        DEF IInv, BlankIsEmpty, Regular, SuccessMeansCurrent
    <2>3. CASE ~Free(proc.dest)
      BY <1>1, <1>3, <2>3, ExitInv DEF VacuumInto
    <2> QED BY <2>2, <2>3
  <1>4. CASE Copied
    <2>1. /\ Current /\ proc.dest \in 1 .. TimeBound /\ file \in DatabaseFile
      BY <1>1, <1>4, FileType DEF Copied, At, Knows, Current, IsEC, IInv
    <2> DEFINE copy == [stamp |-> Expected, copy |-> [file EXCEPT !.wal = FALSE]]
    <2>2. /\ backups' = [backups EXCEPT ![proc.dest] = copy]
          /\ proc' = None /\ exit' = [cmd |-> proc.cmd, build |-> proc.build, ok |-> TRUE]
      BY <1>4 DEF Copied, Exit
    <2>3. copy \in Backup
      BY <1>1, <2>1 DEF Backup, DatabaseFile
    <2>4. exit' \in Outcome /\ exit'.build = proc.build
      BY <1>1, <2>2 DEF Outcome, Process
    <2>5. TypeOK'
      BY <1>1, <2>1, <2>2, <2>3, <2>4 DEF IInv, TypeOK
    <2>6. StampsAreTrue'
      <3> SUFFICES ASSUME NEW t \in 1 .. TimeBound, backups'[t] \notin {None, Torn}
                   PROVE  backups'[t].copy.app = "ec"
                            /\ backups'[t].copy.version = backups'[t].stamp
        BY DEF StampsAreTrue
      <3>1. CASE t = proc.dest
        BY <2>1, <2>2, <3>1 DEF IInv, TypeOK, Current, IsEC, DatabaseFile
      <3>2. CASE t # proc.dest
        BY <2>2, <3>2 DEF IInv, TypeOK, StampsAreTrue
      <3> QED BY <3>1, <3>2
    <2>7. SuccessMeansCurrent'
      BY <1>1, <2>1, <2>4 DEF SuccessMeansCurrent, Current, IsEC, Regular, Expected
    <2> QED
      BY <1>1, <2>2, <2>5, <2>6, <2>7 DEF IInv, BlankIsEmpty, Regular
  <1> QED BY <1>2, <1>3, <1>4

LEMMA OutsideInv ==
  ASSUME IInv,
         \/ \E c \in Commands, b \in Builds, o \in BOOLEAN : Start(c, b, o)
         \/ Killed \/ Tick \/ UNCHANGED vars
  PROVE  IInv'
  <1>1. CASE \E c \in Commands, b \in Builds, o \in BOOLEAN : Start(c, b, o)
    <2>1. PICK c \in Commands, b \in Builds, o \in BOOLEAN : Start(c, b, o)
      BY <1>1
    <2>2. proc' \in Process /\ proc'.pc = "start" /\ exit' = None /\ UNCHANGED <<file, backups, now>>
      BY <2>1, DatabaseAssumption DEF Start, Process
    <2>3. TypeOK'
      BY <2>2 DEF IInv, TypeOK, Regular
    <2> QED
      BY <2>2, <2>3
      DEF IInv, BlankIsEmpty, Regular, StampsAreTrue, SuccessMeansCurrent, Knows
  <1>2. CASE Killed
    BY <1>2
    DEF Killed, IInv, TypeOK, BlankIsEmpty, Regular, StampsAreTrue, SuccessMeansCurrent, IsEC
  <1>3. CASE Tick
    <2>1. now' \in 1 .. TimeBound
      BY <1>3, DatabaseAssumption DEF Tick, IInv, TypeOK
    <2>2. TypeOK' /\ (proc # None => Knows' /\ exit' = None)
      BY <1>3, <2>1
      DEF Tick, IInv, TypeOK, Regular, Knows, Current, IsEC, Expected
    <2> QED
      BY <1>3, <2>2
      DEF Tick, IInv, BlankIsEmpty, Regular, StampsAreTrue, SuccessMeansCurrent, IsEC
  <1>4. CASE UNCHANGED vars
    <2>1. TypeOK' /\ (proc # None => Knows' /\ exit' = None)
      BY <1>4 DEF vars, IInv, TypeOK, Regular, Knows, Current, IsEC, Expected
    <2> QED
      BY <1>4, <2>1
      DEF vars, IInv, BlankIsEmpty, Regular, StampsAreTrue, SuccessMeansCurrent, IsEC
  <1> QED BY <1>1, <1>2, <1>3, <1>4

LEMMA Inductive == IInv /\ [Next]_vars => IInv'
  BY CreateInv, MigrateInv, RowInv, LookInv, BackupInv, OutsideInv DEF Next

LEMMA Invariant == Spec => []IInv
  BY InitInv, Inductive, PTL DEF Spec

-----------------------------------------------------------------------------
(* The file is absent, something else, or a database, a process that works on it has
   found it to be one, and backups are whole or marked as torn. *)
THEOREM TypeCorrect == Spec => []TypeOK
  <1>1. IInv => TypeOK
    BY DEF IInv
  <1> QED BY <1>1, Invariant, PTL

(* A finished backup is of exactly the version its name is stamped with. *)
THEOREM BackupsAreStamped == Spec => []StampsAreTrue
  <1>1. IInv => StampsAreTrue
    BY DEF IInv
  <1> QED BY <1>1, Invariant, PTL

(* A command that reports success leaves a current database behind. *)
THEOREM SuccessIsTrue == Spec => []SuccessMeansCurrent
  <1>1. IInv => SuccessMeansCurrent
    BY DEF IInv
  <1> QED BY <1>1, Invariant, PTL

-----------------------------------------------------------------------------
(* The steps that change the file: create's removal and its new file, the open, which
   changes only the header, and those of a process that has found the database to be one
   of its own or made it so. *)
LEMMA FileSteps ==
  ASSUME IInv, [Next]_vars
  PROVE  \/ UNCHANGED file
         \/ At({"create"}, "remove") /\ proc # None /\ file' = None /\ proc.overwrite
         \/ file = None
         \/ Regular /\ file' \in DatabaseFile /\ Contents(file') = Contents(file)
         \/ /\ Regular /\ file.app # "foreign" /\ file.version <= Expected
            /\ file' \in DatabaseFile
            /\ file.version <= file'.version /\ file.rows \subseteq file'.rows
  <1>1. CASE RemoveDB
    BY <1>1 DEF RemoveDB, At, IInv, Knows
  <1>2. CASE CreateFile
    BY <1>2 DEF CreateFile
  <1>3. CASE EnsureAppID
    <2>1. Regular /\ file \in DatabaseFile
      BY <1>3, FileType DEF EnsureAppID, At, IInv, TypeOK
    <2>2. CASE file.app = "ec" \/ file.app = "foreign"
      <3>1. UNCHANGED file
        BY <1>3, <2>1, <2>2 DEF EnsureAppID, DatabaseFile
      <3> QED BY <3>1
    <2>3. CASE file.app = "unset"
      <3>1. file' = [file EXCEPT !.app = "ec"] /\ file.version = 0
        BY <1>3, <2>1, <2>3 DEF EnsureAppID, IInv, BlankIsEmpty
      <3>2. Expected \in Nat
        BY <1>3, ProcType DEF EnsureAppID, At, IInv
      <3>3. /\ file' \in DatabaseFile /\ file.version <= file'.version
            /\ file.rows \subseteq file'.rows /\ file.version <= Expected
        BY <2>1, <3>1, <3>2 DEF DatabaseFile
      <3> QED BY <2>1, <2>3, <3>3
    <2> QED BY <2>1, <2>2, <2>3 DEF DatabaseFile
  <1>4. CASE Migration
    <2>1. /\ Regular /\ file \in DatabaseFile /\ file.app = "ec" /\ Expected \in Nat
          /\ file.version < Expected /\ file' = [file EXCEPT !.version = @ + 1]
      BY <1>4, FileType, ProcType DEF Migration, At, IInv, TypeOK, Knows
    <2>2. /\ file' \in DatabaseFile /\ file.version <= file'.version
          /\ file.rows \subseteq file'.rows /\ file.version <= Expected
      BY <2>1 DEF DatabaseFile
    <2> QED BY <2>1, <2>2
  <1>5. CASE \E r \in Rows : InsertAdmin(r) \/ ServerWrites(r)
    <2>1. PICK r \in Rows : InsertAdmin(r) \/ ServerWrites(r)
      BY <1>5
    <2>2. /\ Current /\ Regular /\ file \in DatabaseFile /\ Expected \in Nat
          /\ file' = [file EXCEPT !.rows = @ \union {r}]
      BY <2>1, FileType, ProcType
      DEF InsertAdmin, ServerWrites, At, IInv, Knows, Current, IsEC
    <2>3. /\ file' \in DatabaseFile /\ file.version <= file'.version
          /\ file.rows \subseteq file'.rows
      BY <2>2 DEF DatabaseFile
    <2> QED BY <2>2, <2>3 DEF Current, IsEC
  <1>6. CASE OpenExisting
    <2>1. CASE Regular
      BY <1>6, <2>1, FileType, JournaledIs DEF OpenExisting, IInv
    <2>2. CASE ~Regular
      BY <1>6, <2>2 DEF OpenExisting
    <2> QED BY <2>1, <2>2
  <1>7. CASE ~RemoveDB /\ ~CreateFile /\ ~EnsureAppID /\ ~Migration /\ ~OpenExisting
               /\ ~(\E r \in Rows : InsertAdmin(r) \/ ServerWrites(r))
    <2>1. UNCHANGED file
      BY <1>7
      DEF Next, Start, CreateStat, Migrated, ServerStops, VerifyFile,
          BackupVerify, VacuumInto, Copied, Compact, Killed, Tick, vars
    <2> QED BY <2>1
  <1> QED BY <1>1, <1>2, <1>3, <1>4, <1>5, <1>6, <1>7

(* A finished backup is what it is: VACUUM INTO takes a free name, and what it fills
   in is its own torn file. *)
LEMMA BackupSteps ==
  ASSUME IInv, [Next]_vars, NEW t \in 1 .. TimeBound, backups[t] \notin {None, Torn}
  PROVE  backups'[t] = backups[t]
  <1>1. CASE VacuumInto
    BY <1>1 DEF VacuumInto, Free, IInv, TypeOK
  <1>2. CASE Copied
    <2>1. proc.dest \in 1 .. TimeBound /\ backups[proc.dest] = Torn
      BY <1>2 DEF Copied, At, IInv, Knows
    <2> QED BY <1>2, <2>1 DEF Copied, IInv, TypeOK
  <1>3. CASE ~VacuumInto /\ ~Copied
    BY <1>3
    DEF Next, Start, CreateStat, RemoveDB, CreateFile, OpenExisting, EnsureAppID,
        Migration, Migrated, InsertAdmin, ServerWrites, ServerStops, VerifyFile,
        BackupVerify, Compact, Killed, Tick, vars
  <1> QED BY <1>1, <1>2, <1>3

(* No build changes a database that is another program's or has a newer schema, beyond its
   journal mode. *)
THEOREM OthersAreLeftAlone == Spec => ForeignAndNewerUntouched
  <1>1. ASSUME IInv, [Next]_vars
        PROVE  [OutOfBounds =>
                  \/ Regular' /\ Contents(file') = Contents(file)
                  \/ file' = None /\ proc.overwrite]_vars
    <2> SUFFICES ASSUME OutOfBounds
                 PROVE  \/ Regular' /\ Contents(file') = Contents(file)
                        \/ file' = None /\ proc.overwrite
      OBVIOUS
    <2>1. /\ file # None /\ Expected \in Nat /\ file.version \in Nat
          /\ file.app = "foreign" \/ file.version > Expected
      BY <1>1, FileType, ProcType DEF OutOfBounds, Regular, IInv, DatabaseFile
    <2>2. CASE UNCHANGED file
      BY <2>2 DEF OutOfBounds, Regular
    <2>3. CASE file' \in DatabaseFile /\ Contents(file') = Contents(file)
      BY <2>3, NoneIsNoValue DEF Regular
    <2> QED BY <1>1, <2>1, <2>2, <2>3, FileSteps
  <1> QED BY <1>1, Invariant, PTL DEF Spec, ForeignAndNewerUntouched

(* Versions and rows only grow, unless the file is removed on request, and finished
   backups stay. *)
THEOREM WhatIsStoredStays == Spec => NothingLost
  <1> DEFINE Kept ==
        /\ Regular =>
             \/ /\ file' \notin {None, Directory}
                /\ file.version <= file'.version /\ file.rows \subseteq file'.rows
             \/ file' = None /\ At({"create"}, "remove") /\ proc.overwrite
        /\ \A t \in 1 .. TimeBound :
             backups[t] \notin {None, Torn} => backups'[t] = backups[t]
  <1>1. ASSUME IInv, [Next]_vars PROVE [Kept]_vars
    <2>1. ASSUME Regular
          PROVE  \/ /\ file' \notin {None, Directory}
                    /\ file.version <= file'.version /\ file.rows \subseteq file'.rows
                 \/ file' = None /\ At({"create"}, "remove") /\ proc.overwrite
      <3>1. file \in DatabaseFile /\ file.version \in Nat /\ file # None
        BY <1>1, <2>1, FileType DEF IInv, DatabaseFile, Regular
      <3>2. CASE UNCHANGED file
        BY <2>1, <3>1, <3>2 DEF Regular
      <3>3. CASE file' \in DatabaseFile /\ file.version <= file'.version
                   /\ file.rows \subseteq file'.rows
        BY <3>3, NoneIsNoValue
      <3>4. CASE file' \in DatabaseFile /\ Contents(file') = Contents(file)
        BY <3>1, <3>4, NoneIsNoValue DEF Contents
      <3> QED BY <1>1, <3>1, <3>2, <3>3, <3>4, FileSteps
    <2>2. \A t \in 1 .. TimeBound :
            backups[t] \notin {None, Torn} => backups'[t] = backups[t]
      BY <1>1, BackupSteps
    <2> QED BY <2>1, <2>2
  <1> QED BY <1>1, Invariant, PTL DEF Spec, NothingLost
=============================================================================
