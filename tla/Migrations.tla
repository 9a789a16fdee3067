------------------------------ MODULE Migrations ------------------------------
(***************************************************************************)
(* The start of a server: the container runs the database bootstrap        *)
(* (scripts/database-bootstrap.ts), which brings the schema to the last    *)
(* version, and serves only if it succeeds; it is restarted when it stops. *)
(*                                                                         *)
(* A statement that changes the schema (DDL) commits by itself, so the     *)
(* runner (scripts/mysql-migration-runner.ts) journals it before and after *)
(* and finds out from the schema what an interrupted one did. A statement  *)
(* that changes data (DML) commits together with its journal row.          *)
(*                                                                         *)
(* Statements are numbered in the order of the files, the baseline (the    *)
(* schema at version Base, the seed, and a row "baseline_001_N") first; a  *)
(* database with that row skips the files up to Base. The checksums of the *)
(* files do not change.                                                    *)
(***************************************************************************)
EXTENDS Integers, Sequences

CONSTANTS
    Runner,       \* server containers
    Kind,         \* Kind[i]: what ddlState can tell of statement i
    Like,         \* Like[i]: an earlier statement ddlState takes for i, or 0
    Undone,       \* Undone[i]: the later statement that changes what i made, or 0
    FileOf,       \* FileOf[i]: version of the file statement i belongs to
    Base,         \* the last version the baseline stands for
    Marker,       \* the statement of the baseline that records its version
    MaxFaults,    \* bound on crashes and failing statements
    None

Statements == DOMAIN Kind
Version == {FileOf[i] : i \in Statements}
Baseline == 0

(***************************************************************************)
(* "DDL": its objects are there or not. "MODIFY": before it the column is  *)
(* there with another type, which proves nothing. "OPAQUE": never as the   *)
(* runner expects it (049: the type it parses is no type). "DML": not in   *)
(* the schema at all.                                                      *)
(***************************************************************************)
StatementKind == {"DDL", "MODIFY", "OPAQUE", "DML"}

ASSUME MigrationsAssumption ==
    /\ None \notin Runner
    /\ MaxFaults \in Nat
    /\ Kind \in Seq(StatementKind) /\ Kind # <<>>
    /\ FileOf \in [Statements -> Nat] /\ Base \in Nat
    /\ FileOf[1] = Baseline
    /\ \A i, j \in Statements : i < j => FileOf[i] <= FileOf[j]
    /\ Kind[1] = "DDL"                      \* CREATE TABLE schema_migrations
    /\ Marker \in Statements /\ Kind[Marker] = "DML" /\ FileOf[Marker] = Baseline
    /\ Like \in [Statements -> Statements \union {0}]
    /\ Undone \in [Statements -> Statements \union {0}]
    /\ \A i \in Statements :
          /\ Kind[i] \in {"OPAQUE", "DML"} \/ FileOf[i] = Baseline => Like[i] = 0
          /\ Like[i] # 0 => Like[i] < i /\ FileOf[Like[i]] # Baseline
          /\ Like[i] # 0 => (FileOf[i] <= Base <=> FileOf[Like[i]] <= Base)
          /\ Undone[i] # 0 => i < Undone[i]
          /\ FileOf[i] = Baseline => Kind[i] \in {"DDL", "DML"} /\ Undone[i] = 0

JournalStatus == {"none", "RUNNING", "APPLIED", "FAILED_PARTIAL"}

VARIABLES
    times,        \* how often each statement took effect on the database
    journal,      \* schema_migration_steps: status of each statement
    hasJournal,   \* whether the table schema_migration_steps exists
    recorded,     \* schema_migrations: versions recorded
    foreign,      \* whether the database has tables of somebody else
    lock,         \* GET_LOCK('lca:migrations:...')
    runner,       \* where each container is
    faults

database == <<times, journal, hasJournal, recorded, foreign>>
vars == <<times, journal, hasJournal, recorded, foreign, lock, runner, faults>>

(***************************************************************************)
(* "off": stopped, to be restarted. at is the statement the script of its  *)
(* file is at; seen, the journal rows read when that script started; tables*)
(* what the first query found; applied, the versions it considers done.    *)
(***************************************************************************)
Off == [pc |-> "off", at |-> 1, seen |-> [i \in Statements |-> "none"],
        tables |-> "EMPTY", applied |-> {}]

Phase == {"off", "classify", "journal", "check", "versions", "pick", "step",
          "ddl", "dml", "record", "admin", "serving"}

Holder(r) == runner[r].pc \notin {"off", "serving"}
HasVersions == times[1] > 0
First(v) == CHOOSE i \in Statements :
                FileOf[i] = v /\ \A j \in Statements : FileOf[j] = v => i <= j
LastOf(i) == i + 1 \notin Statements \/ FileOf[i + 1] # FileOf[i]

Took(i) == i \in Statements /\ times[i] > 0

(***************************************************************************)
(* Objects are recognised by their names (056, 058: DROP INDEX x, ADD      *)
(* UNIQUE KEY x is SATISFIED by the index there was before), columns by    *)
(* their type as it is now (064: ADD COLUMN c NULL, then MODIFY c NOT NULL)*)
(***************************************************************************)
ddlState(i) ==
    IF Kind[i] # "OPAQUE" /\ (Took(i) \/ Took(Like[i])) /\ ~Took(Undone[i]) THEN "SATISFIED"
    ELSE IF Kind[i] = "DDL" /\ ~Took(i) /\ ~Took(Like[i]) THEN "ABSENT"
    ELSE "AMBIGUOUS"

\* brought to its version by the old files, one by one, and not by the baseline
FileByFile == \E v \in recorded : Baseline < v /\ v <= Base

\* what version v did is in the schema, though its statements were not executed
Represented(v) ==
    \/ Baseline \in recorded /\ Baseline < v /\ v <= Base
    \/ FileByFile /\ v = Baseline

(***************************************************************************)
(* A database is empty, or belongs to somebody else, or was brought to     *)
(* version v without this runner (no step journal then): by the old files, *)
(* or from a baseline.                                                     *)
(***************************************************************************)
Init ==
    /\ \/ recorded = {} /\ foreign \in BOOLEAN
       \/ \E v \in Version :
             /\ \/ recorded = {u \in Version : Baseline < u /\ u <= v} /\ FileByFile
                \/ recorded = {u \in Version : u = Baseline \/ (Base < u /\ u <= v)}
             /\ foreign = FALSE
    /\ times = [i \in Statements |->
                   IF FileOf[i] \in recorded \/ (i = 1 /\ recorded # {}) THEN 1 ELSE 0]
    /\ journal = [i \in Statements |-> "none"]
    /\ hasJournal = FALSE
    /\ lock = None
    /\ runner = [r \in Runner |-> Off]
    /\ faults = 0

-------------------------------------------------------------------------------
(* bootstrapDatabase: lock, classification, baseline                       *)

Goto(r, pc) == runner' = [runner EXCEPT ![r].pc = pc]

\* an error ends the process; its connection, and with it the lock, is closed
Throw(r) == runner' = [runner EXCEPT ![r] = Off] /\ lock' = None

\* Mutant: the runner does not wait for the lock.
StartUnlocked(r) ==
    /\ runner[r].pc = "off"
    /\ lock' = r
    /\ Goto(r, "classify")
    /\ UNCHANGED <<database, faults>>

\* `restart: unless-stopped`, then GET_LOCK (a timeout only restarts again)
Start(r) ==
    /\ runner[r].pc = "off"
    /\ lock = None
    /\ lock' = r
    /\ Goto(r, "classify")
    /\ UNCHANGED <<database, faults>>

\* Mutant: an interrupted baseline is taken for somebody else's database.
ClassifyInterrupted(r) ==
    /\ runner[r].pc = "classify"
    /\ \/ /\ HasVersions
          /\ runner' = [runner EXCEPT ![r].pc = "journal",
                 ![r].tables = IF hasJournal THEN "JOURNALLED" ELSE "VERSIONED"]
          /\ UNCHANGED lock
       \/ /\ ~HasVersions /\ ~hasJournal /\ ~foreign
          /\ runner' = [runner EXCEPT ![r].pc = "journal", ![r].tables = "EMPTY"]
          /\ UNCHANGED lock
       \/ ~HasVersions /\ (hasJournal \/ foreign) /\ Throw(r)
    /\ UNCHANGED <<database, faults>>

\* an interrupted baseline (journal, no schema_migrations) counts as empty
Classify(r) ==
    /\ runner[r].pc = "classify"
    /\ \/ /\ HasVersions
          /\ runner' = [runner EXCEPT ![r].pc = "journal",
                 ![r].tables = IF hasJournal THEN "JOURNALLED" ELSE "VERSIONED"]
          /\ UNCHANGED lock
       \/ /\ ~HasVersions /\ (hasJournal \/ ~foreign)
          /\ runner' = [runner EXCEPT ![r].pc = "journal", ![r].tables = "EMPTY"]
          /\ UNCHANGED lock
       \/ ~HasVersions /\ ~hasJournal /\ foreign /\ Throw(r)
    /\ UNCHANGED <<database, faults>>

\* CREATE TABLE IF NOT EXISTS schema_migration_steps
EnsureJournal(r) ==
    /\ runner[r].pc = "journal"
    /\ hasJournal' = TRUE
    /\ Goto(r, "check")
    /\ UNCHANGED <<times, journal, recorded, foreign, lock, faults>>

BaselineRows(status) ==
    {i \in Statements : FileOf[i] = Baseline /\ journal[i] \in status}

\* Mutant: a database with a version is never looked at again.
BaselineTrusted == FALSE

\* a baseline whose journal was begun and is not all APPLIED is resumed
BaselineIncomplete ==
    /\ BaselineRows(JournalStatus \ {"none"}) # {}
    /\ BaselineRows({"APPLIED"}) # BaselineRows(JournalStatus)

CheckBaseline(r) ==
    LET w == runner[r] IN
    /\ w.pc = "check"
    /\ runner' = [runner EXCEPT ![r] =
           IF w.tables = "EMPTY" \/ (w.tables = "JOURNALLED" /\ BaselineIncomplete)
           THEN [w EXCEPT !.pc = "step", !.at = First(Baseline), !.seen = journal]
           ELSE [w EXCEPT !.pc = "versions"]]
    /\ UNCHANGED <<database, lock, faults>>

ReadVersions(r) ==
    /\ runner[r].pc = "versions"
    /\ runner' = [runner EXCEPT ![r].pc = "pick", ![r].applied = recorded]
    /\ UNCHANGED <<database, lock, faults>>

\* consolidatedBaselineVersion, shouldApplyMigration
Pending(r) ==
    LET applied == runner[r].applied IN
    {v \in Version : v > (IF Baseline \in applied THEN Base ELSE Baseline) /\ v \notin applied}

\* the files in order; executeResilientMigration reads the journal of its file
PickFile(r) ==
    /\ runner[r].pc = "pick"
    /\ \/ \E v \in Pending(r) :
            /\ \A u \in Pending(r) : v <= u
            /\ runner' = [runner EXCEPT ![r].pc = "step", ![r].at = First(v),
                                        ![r].seen = journal]
       \/ Pending(r) = {} /\ Goto(r, "admin")
    /\ UNCHANGED <<database, lock, faults>>

-------------------------------------------------------------------------------
(* executeResilientMigration                                               *)

\* after statement `at`: the next one of the file, or the end of the script
Done(r) ==
    LET i == runner[r].at IN
    runner' = [runner EXCEPT ![r] =
        IF ~LastOf(i) THEN [@ EXCEPT !.pc = "step", !.at = i + 1]
        ELSE [@ EXCEPT !.pc = "record"]]

AtStep(r, previous) ==
    runner[r].pc = "step" /\ runner[r].seen[runner[r].at] \in previous

SkipApplied(r) ==
    LET i == runner[r].at IN
    /\ AtStep(r, {"APPLIED"})
    /\ Kind[i] = "DML" \/ ddlState(i) = "SATISFIED"
    /\ Done(r)
    /\ UNCHANGED <<database, lock, faults>>

\* MIGRATION_FAILED_PARTIAL, MIGRATION_SCHEMA_DIVERGED: somebody must intervene
Blocked(i, previous) ==
    \/ previous = "FAILED_PARTIAL"
    \/ previous = "APPLIED" /\ Kind[i] # "DML" /\ ddlState(i) # "SATISFIED"
    \/ previous = "RUNNING" /\ Kind[i] # "DML" /\ ddlState(i) = "AMBIGUOUS"

Refuse(r) ==
    /\ runner[r].pc = "step"
    /\ Blocked(runner[r].at, runner[r].seen[runner[r].at])
    /\ Throw(r)
    /\ UNCHANGED <<database, faults>>

\* "RECOVERED" and "ALREADY SATISFIED", the latter even of a statement that was
\* never executed, when ddlState takes an earlier one for it
Adopt(r) ==
    LET i == runner[r].at IN
    /\ AtStep(r, {"none", "RUNNING"})
    /\ Kind[i] # "DML" /\ ddlState(i) = "SATISFIED"
    /\ journal' = [journal EXCEPT ![i] = "APPLIED"]
    /\ Done(r)
    /\ UNCHANGED <<times, hasJournal, recorded, foreign, lock, faults>>

BeginDdl(r) ==
    LET i == runner[r].at IN
    /\ AtStep(r, {"none", "RUNNING"})
    /\ Kind[i] # "DML" /\ ddlState(i) # "SATISFIED"
    /\ ~Blocked(i, runner[r].seen[i])
    /\ journal' = [journal EXCEPT ![i] = "RUNNING"]
    /\ Goto(r, "ddl")
    /\ UNCHANGED <<times, hasJournal, recorded, foreign, lock, faults>>

TakeEffect(i) ==
    /\ times' = [times EXCEPT ![i] = @ + 1]
    /\ recorded' = IF i = Marker THEN recorded \union {FileOf[i]} ELSE recorded

ExecuteDdl(r) ==
    LET i == runner[r].at IN
    /\ runner[r].pc = "ddl" /\ times[i] = 0
    /\ TakeEffect(i)
    /\ UNCHANGED <<journal, hasJournal, foreign, lock, runner, faults>>

JournalDdl(r) ==
    LET i == runner[r].at IN
    /\ runner[r].pc = "ddl" /\ times[i] > 0
    /\ journal' = [journal EXCEPT ![i] = "APPLIED"]
    /\ Done(r)
    /\ UNCHANGED <<times, hasJournal, recorded, foreign, lock, faults>>

\* the statement, or the journal update after it, fails: markFailed
FailDdl(r) ==
    /\ runner[r].pc = "ddl" /\ faults < MaxFaults
    /\ journal' = [journal EXCEPT ![runner[r].at] = "FAILED_PARTIAL"]
    /\ Throw(r)
    /\ faults' = faults + 1
    /\ UNCHANGED <<times, hasJournal, recorded, foreign>>

\* one transaction: journal RUNNING, statement, journal APPLIED
BeginDml(r) ==
    /\ AtStep(r, {"none", "RUNNING"})
    /\ Kind[runner[r].at] = "DML"
    /\ Goto(r, "dml")
    /\ UNCHANGED <<database, lock, faults>>

CommitDml(r) ==
    LET i == runner[r].at IN
    /\ runner[r].pc = "dml"
    /\ TakeEffect(i)
    /\ journal' = [journal EXCEPT ![i] = "APPLIED"]
    /\ Done(r)
    /\ UNCHANGED <<hasJournal, foreign, lock, faults>>

\* an error, or conflicts found by assertMigrationPreflight: rollback
FailDml(r) ==
    /\ runner[r].pc = "dml" /\ faults < MaxFaults
    /\ Throw(r)
    /\ faults' = faults + 1
    /\ UNCHANGED database

\* every DDL of the file is verified again before the version is recorded
\* (MIGRATION_POSTCONDITION_FAILED)
Record(r) ==
    LET v == FileOf[runner[r].at]
        verified == \A i \in Statements :
                        FileOf[i] = v /\ Kind[i] # "DML" => ddlState(i) = "SATISFIED" IN
    /\ runner[r].pc = "record"
    /\ \/ /\ ~verified
          /\ Throw(r)
          /\ UNCHANGED recorded
       \/ /\ verified /\ v = Baseline
          /\ Goto(r, "versions")
          /\ UNCHANGED <<recorded, lock>>
       \/ /\ verified /\ v # Baseline
          /\ recorded' = recorded \union {v}
          /\ runner' = [runner EXCEPT ![r].pc = "pick",
                                      ![r].applied = @ \union {v}]
          /\ UNCHANGED lock
    /\ UNCHANGED <<times, journal, hasJournal, foreign, faults>>

\* ensureSystemPermissionAdministration, RELEASE_LOCK, then the server listens
Serve(r) ==
    /\ runner[r].pc = "admin"
    /\ lock' = None
    /\ Goto(r, "serving")
    /\ UNCHANGED <<database, faults>>

(***************************************************************************)
(* The process or its connection dies. An open transaction is rolled back  *)
(* and the lock freed; a DDL under way runs to its end first, or not at all*)
(* (both are behaviours of ExecuteDdl followed by Crash).                  *)
(***************************************************************************)
Crash(r) ==
    /\ runner[r].pc # "off" /\ faults < MaxFaults
    /\ faults' = faults + 1
    /\ runner' = [runner EXCEPT ![r] = Off]
    /\ lock' = IF lock = r THEN None ELSE lock
    /\ UNCHANGED database

Statement(r) ==
    \/ SkipApplied(r) \/ Refuse(r) \/ Adopt(r)
    \/ BeginDdl(r) \/ ExecuteDdl(r) \/ JournalDdl(r)
    \/ BeginDml(r) \/ CommitDml(r)

Advance(r) ==
    \/ Start(r) \/ Classify(r) \/ EnsureJournal(r) \/ CheckBaseline(r)
    \/ ReadVersions(r) \/ PickFile(r) \/ Statement(r) \/ Record(r) \/ Serve(r)

Fault(r) == FailDdl(r) \/ FailDml(r) \/ Crash(r)

\* everything serves: nothing is left to do
AllServe == (\A r \in Runner : runner[r].pc = "serving") /\ UNCHANGED vars

Next == (\E r \in Runner : Advance(r) \/ Fault(r)) \/ AllServe

Spec == Init /\ [][Next]_vars

\* containers are restarted and run; a waiter of GET_LOCK is served in turn
FairSpec == Spec /\ \A r \in Runner : SF_vars(Advance(r))

-------------------------------------------------------------------------------
(* Properties                                                              *)

\* Tables, journal, lock and containers keep their types.
TypeOK ==
    /\ times \in [Statements -> {0, 1}]
    /\ journal \in [Statements -> JournalStatus]
    /\ hasJournal \in BOOLEAN /\ foreign \in BOOLEAN
    /\ recorded \subseteq Version
    /\ lock \in Runner \union {None}
    /\ runner \in [Runner -> [pc : Phase, at : Statements,
                              seen : [Statements -> JournalStatus],
                              tables : {"EMPTY", "VERSIONED", "JOURNALLED"},
                              applied : SUBSET Version]]
    /\ faults \in 0..MaxFaults

\* statement i is in effect, or its version is represented, or it was taken for
\* done because an earlier statement made an object of the same name
InPlace(i) == times[i] = 1 \/ Represented(FileOf[i]) \/ Took(Like[i])

(***************************************************************************)
(* A server only listens on a schema that is as complete as the runner can *)
(* tell: whatever was interrupted before, every version is recorded or     *)
(* represented, and no statement is missing but one whose object an earlier*)
(* statement had made under the same name (bootstrapDatabase ran to its    *)
(* end).                                                                   *)
(***************************************************************************)
ServesComplete ==
    (\E r \in Runner : runner[r].pc = "serving") =>
        /\ \A v \in Version : v \in recorded \/ Represented(v)
        /\ \A i \in Statements : InPlace(i)

(***************************************************************************)
(* What the comment of the runner says: a DDL is adopted without being     *)
(* executed only when its postcondition is entirely satisfied, so a server *)
(* listens on a schema on which every statement was executed. It is not so.*)
(***************************************************************************)
ServesExecuted ==
    (\E r \in Runner : runner[r].pc = "serving") =>
        \A i \in Statements : times[i] = 1 \/ Represented(FileOf[i])

\* Crashes, restarts and concurrent runners upgrade the database like one run.
Ordered == INSTANCE Upgrade
ImplementsUpgrade == Ordered!Spec

\* what no restart gets over: the runner asks for an intervention
Stuck ==
    \/ foreign
    \/ \E i \in Statements :
          \/ journal[i] = "FAILED_PARTIAL"
          \/ /\ FileOf[i] \notin recorded
             /\ Kind[i] # "DML" /\ journal[i] # "none" /\ ddlState(i) = "AMBIGUOUS"

(***************************************************************************)
(* However often it is interrupted, a server is finally up, unless a DDL   *)
(* failed, or the runner began one and the schema does not tell whether it *)
(* was executed: it was interrupted, or its effect does not look as        *)
(* ddlState expects it (`restart: unless-stopped`, recovery in ddlState).  *)
(***************************************************************************)
EventuallyServes == <>[](Stuck \/ \A r \in Runner : runner[r].pc = "serving")
===============================================================================
