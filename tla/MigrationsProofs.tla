---------------------------- MODULE MigrationsProofs ----------------------------
(***************************************************************************)
(* What Migrations guarantees for every number of containers, statements,  *)
(* files, crashes and failures.                                            *)
(*                                                                         *)
(* The inductive invariant IInv says that whoever is past GET_LOCK has it  *)
(* (Mutex), what the journal and the recorded versions prove of the        *)
(* database (JournalSound, RecordSound), and what a container knows at     *)
(* each phase (RunnerSound): all statements before the one it is at are in *)
(* place, the journal rows it read are still those of the statements to    *)
(* come, and it never executes a file that somebody applied by hand, or    *)
(* that the way the database was made represents.                          *)
(***************************************************************************)
EXTENDS Migrations, SequenceTheorems, FiniteSetTheorems, WellFoundedInduction, TLAPS

Mutex == \A r \in Runner : Holder(r) => lock = r

\* in effect, and not by a journalled run
ByHand(i) == times[i] = 1 /\ journal[i] = "none"

JournalSound ==
    /\ hasJournal \/ \A i \in Statements : journal[i] = "none"
    /\ \A i \in Statements :
          /\ journal[i] = "APPLIED" => InPlace(i)
          /\ Kind[i] = "DML" => journal[i] \in {"none", "APPLIED"}
          /\ ByHand(i) => \/ /\ FileOf[i] \in recorded
                             /\ \A j \in Statements : FileOf[j] = FileOf[i] => ByHand(j)
                          \/ FileByFile /\ FileOf[i] = Baseline

\* the baseline was not run on a database made by the old files
OldSound ==
    FileByFile => /\ times[1] = 1
                  /\ \A i \in Statements : FileOf[i] = Baseline => journal[i] = "none"

Complete(v) == \A i \in Statements : FileOf[i] <= v => InPlace(i)

RecordSound ==
    /\ \A v \in recorded : v # Baseline => Complete(v)
    /\ times[Marker] = 1 => Baseline \in recorded

AllDone ==
    /\ \A v \in Version : v \in recorded \/ Represented(v)
    /\ \A i \in Statements : InPlace(i)

\* what a container has classified
ClassSound(w) ==
    /\ w.tables = "EMPTY" => times[1] = 0
    /\ w.tables = "VERSIONED" => Complete(Baseline)
    /\ w.tables = "JOURNALLED" => times[1] = 1

\* what a container knows in the middle of a file
FileSound(w) ==
    /\ \A j \in Statements : j < w.at => InPlace(j)
    /\ \A j \in Statements : FileOf[j] = FileOf[w.at] => ~ByHand(j)
    /\ ~Represented(FileOf[w.at])
    /\ FileOf[w.at] # Baseline => w.applied = recorded /\ FileOf[w.at] \notin recorded
    /\ w.pc # "record" =>
           \A j \in Statements : w.at < j /\ FileOf[j] = FileOf[w.at] => w.seen[j] = journal[j]
    /\ w.pc = "step" => w.seen[w.at] = journal[w.at]
    /\ w.pc = "ddl" => journal[w.at] = "RUNNING" /\ Kind[w.at] # "DML"
    /\ w.pc = "dml" => journal[w.at] = "none"
    /\ w.pc = "record" => InPlace(w.at) /\ LastOf(w.at)

RunnerSound(w) ==
    /\ w.pc \in {"journal", "check"} => ClassSound(w)
    /\ w.pc \notin {"off", "classify", "journal", "serving"} => hasJournal
    /\ w.pc \in {"versions", "pick"} => Complete(Baseline)
    /\ w.pc = "pick" => w.applied = recorded
    /\ w.pc \in {"step", "ddl", "dml", "record"} => FileSound(w)
    /\ w.pc \in {"admin", "serving"} => AllDone

IInv ==
    /\ TypeOK
    /\ Mutex
    /\ JournalSound
    /\ OldSound
    /\ RecordSound
    /\ \A r \in Runner : RunnerSound(runner[r])

-----------------------------------------------------------------------------
(* Statements and files.                                                   *)

LEMMA Files ==
  /\ 1 \in Statements /\ FileOf[1] = 0 /\ Baseline = 0 /\ Baseline \in Version
  /\ \A i \in Statements : i \in Nat /\ 1 <= i /\ FileOf[i] \in Nat /\ FileOf[i] \in Version
  /\ \A i, j \in Statements : i < j => FileOf[i] <= FileOf[j]
  /\ \A i \in Statements : Kind[i] \in StatementKind
  /\ Marker \in Statements /\ Kind[Marker] = "DML" /\ FileOf[Marker] = 0
  /\ \A v \in Version : v \in Nat
  /\ None \notin Runner
  <1>1. Kind \in Seq(StatementKind) /\ Kind # << >>
    BY MigrationsAssumption
  <1>2. Statements = 1..Len(Kind) /\ Len(Kind) \in Nat /\ Len(Kind) # 0
    BY <1>1, LenProperties, EmptySeq DEF Statements
  <1>3. \A i \in Statements : Kind[i] \in StatementKind
    BY <1>1, <1>2, ElementOfSeq
  <1>4. /\ FileOf \in [Statements -> Nat] /\ FileOf[1] = Baseline /\ None \notin Runner
        /\ \A i, j \in Statements : i < j => FileOf[i] <= FileOf[j]
        /\ Marker \in Statements /\ Kind[Marker] = "DML" /\ FileOf[Marker] = Baseline
    BY MigrationsAssumption
  <1> QED BY <1>2, <1>3, <1>4 DEF Version, Baseline

LEMMA NextOfFile ==
  ASSUME NEW i \in Statements, ~LastOf(i)
  PROVE  i + 1 \in Statements /\ FileOf[i + 1] = FileOf[i]
  BY DEF LastOf

LEMMA LastOfFile ==
  ASSUME NEW i \in Statements, LastOf(i), NEW j \in Statements, FileOf[j] <= FileOf[i]
  PROVE  j <= i
  <1>1. Statements = 1..Len(Kind) /\ Len(Kind) \in Nat
    BY MigrationsAssumption, LenProperties DEF Statements
  <1> SUFFICES ASSUME i < j PROVE FALSE
    BY Files
  <1>2. i + 1 \in Statements /\ (i + 1 < j \/ i + 1 = j) /\ i < i + 1
    BY <1>1
  <1>3. FileOf[i + 1] # FileOf[i] /\ FileOf[i] <= FileOf[i + 1] /\ FileOf[i + 1] <= FileOf[j]
    BY <1>2, Files DEF LastOf
  <1> QED BY <1>2, <1>3, Files

LEMMA FirstOfFile ==
  ASSUME NEW v \in Version
  PROVE  /\ First(v) \in Statements /\ FileOf[First(v)] = v
         /\ \A j \in Statements : FileOf[j] = v => First(v) <= j
  <1> DEFINE T == {i \in Statements : FileOf[i] = v}
             Below == {0..i : i \in T}
  <1>1. T \subseteq Nat /\ T # {}
    BY Files DEF Version
  <1>2. Below \subseteq FiniteSubsetsOf(Nat) /\ Below # {}
    <2>1. \A i \in T : 0..i \in SUBSET Nat /\ IsFiniteSet(0..i)
      BY <1>1, FS_Interval
    <2>2. \A b \in Below : b \in FiniteSubsetsOf(Nat)
      BY <2>1 DEF FiniteSubsetsOf
    <2>3. \E b : b \in Below
      BY <1>1
    <2> QED BY <2>2, <2>3
  <1>3. PICK b \in Below : \A c \in Below : <<c, b>> \notin StrictSubsetOrdering(Nat)
    <2> HIDE DEF Below
    <2>1. IsWellFoundedOn(StrictSubsetOrdering(Nat), FiniteSubsetsOf(Nat))
      BY FS_StrictSubsetOrderingWellFounded
    <2> QED BY <1>2, <2>1, WFMin
  <1>4. PICK i \in T : b = 0..i
    OBVIOUS
  <1>5. ASSUME NEW j \in T, j < i PROVE FALSE
    <2>1. 0..j \in Below /\ i \in Nat /\ j \in Nat
      BY <1>1
    <2>2. 0..j \subseteq 0..i /\ 0..j # 0..i
      <3>1. i \in 0..i /\ i \notin 0..j
        BY <2>1, <1>5
      <3>2. \A k \in 0..j : k \in 0..i
        BY <2>1, <1>5
      <3> QED BY <3>1, <3>2
    <2>3. 0..j \in SUBSET Nat /\ 0..i \in SUBSET Nat
      BY <2>1
    <2>4. <<0..j, 0..i>> \in StrictSubsetOrdering(Nat)
      BY <2>2, <2>3 DEF StrictSubsetOrdering
    <2> QED BY <1>3, <1>4, <2>1, <2>4
  <1>6. \E k \in Statements : FileOf[k] = v /\ \A j \in Statements : FileOf[j] = v => k <= j
    <2>1. \A j \in T : i <= j
      BY <1>1, <1>4, <1>5
    <2> QED BY <1>4, <2>1
  <1> QED BY <1>6 DEF First

LEMMA FirstStatement == First(Baseline) = 1
  BY FirstOfFile, Files

LEMMA BaseVersion == Base \in Nat
  BY MigrationsAssumption

LEMMA MarkerNotFirst == Marker # 1
  <1>1. Kind[1] = "DDL" /\ Kind[Marker] = "DML"
    BY MigrationsAssumption
  <1> QED BY <1>1

\* in the baseline no statement is taken for another one
LEMMA NotTaken ==
  ASSUME NEW i \in Statements, FileOf[i] = Baseline \/ Kind[i] = "DML"
  PROVE  ~Took(Like[i])
  <1>1. Like[i] = 0
    BY MigrationsAssumption
  <1> QED BY <1>1, Files DEF Took

LEMMA StaysRepresented ==
  ASSUME NEW v, Represented(v), recorded \subseteq recorded'
  PROVE  Represented(v)'
  <1>1. FileByFile => FileByFile'
    BY DEF FileByFile
  <1> QED BY <1>1 DEF Represented

\* what is in place stays in place
LEMMA StaysInPlace ==
  ASSUME NEW i \in Statements, InPlace(i), times \in [Statements -> {0, 1}],
         \A j \in Statements : times[j] = 1 => times'[j] = 1,
         recorded \subseteq recorded'
  PROVE  InPlace(i)'
  <1>1. times[i] = 1 => times'[i] = 1
    OBVIOUS
  <1>2. Represented(FileOf[i]) => Represented(FileOf[i])'
    BY StaysRepresented
  <1>3. ASSUME Took(Like[i]) PROVE Took(Like[i])'
    <2>1. Like[i] \in Statements /\ times[Like[i]] > 0 /\ times[Like[i]] \in {0, 1}
      BY <1>3 DEF Took
    <2>2. times'[Like[i]] = 1
      BY <2>1
    <2> QED BY <2>1, <2>2 DEF Took
  <1> QED BY <1>1, <1>2, <1>3 DEF InPlace

\* what is said of the database as long as it stays as it is
LEMMA SameDatabase ==
  ASSUME UNCHANGED database
  PROVE  /\ \A i \in Statements : (InPlace(i)' <=> InPlace(i)) /\ (ByHand(i)' <=> ByHand(i))
         /\ \A v \in Version : (Represented(v)' <=> Represented(v)) /\ (Complete(v)' <=> Complete(v))
         /\ FileByFile' <=> FileByFile
  BY DEF database, InPlace, ByHand, Represented, Complete, FileByFile, Took

-----------------------------------------------------------------------------
(* What a step leaves as it was.                                           *)

RunnerRow == [pc : Phase, at : Statements, seen : [Statements -> JournalStatus],
              tables : {"EMPTY", "VERSIONED", "JOURNALLED"}, applied : SUBSET Version]

LEMMA Rows ==
  ASSUME TypeOK, NEW r \in Runner
  PROVE  /\ runner[r] \in RunnerRow
         /\ runner[r].at \in Statements /\ runner[r].pc \in Phase
         /\ runner[r].seen \in [Statements -> JournalStatus] /\ runner[r].applied \subseteq Version
  BY DEF TypeOK, RunnerRow

LEMMA OffRow == Off \in RunnerRow
  BY Files DEF Off, RunnerRow, Phase, JournalStatus

\* container r goes on as w
LEMMA Moved ==
  ASSUME TypeOK, NEW r \in Runner, NEW w \in RunnerRow, runner' = [runner EXCEPT ![r] = w]
  PROVE  /\ runner' \in [Runner -> RunnerRow] /\ runner'[r] = w
         /\ \A s \in Runner : s # r => runner'[s] = runner[s]
  BY DEF TypeOK, RunnerRow

LEMMA SamePlace ==
  ASSUME TypeOK, NEW r \in Runner, UNCHANGED runner
  PROVE  /\ runner' \in [Runner -> RunnerRow]
         /\ \A s \in Runner : s # r => runner'[s] = runner[s]
  BY DEF TypeOK, RunnerRow

\* what a container knows stays true of a database that stays as it is
LEMMA SameRow ==
  ASSUME TypeOK, UNCHANGED database, NEW r \in Runner, RunnerSound(runner[r]), runner'[r] = runner[r]
  PROVE  RunnerSound(runner[r])'
  <1> DEFINE w == runner[r]
  <1>1. /\ \A i \in Statements : (InPlace(i)' <=> InPlace(i)) /\ (ByHand(i)' <=> ByHand(i))
        /\ \A v \in Version : (Represented(v)' <=> Represented(v)) /\ (Complete(v)' <=> Complete(v))
    BY SameDatabase
  <1>2. w.at \in Statements /\ FileOf[w.at] \in Version /\ Baseline \in Version
    BY Rows, Files
  <1>3. /\ times' = times /\ journal' = journal /\ hasJournal' = hasJournal
        /\ recorded' = recorded /\ runner'[r] = w
    BY DEF database
  <1>4. ClassSound(w) => ClassSound(runner[r])'
    BY <1>1, <1>2, <1>3 DEF ClassSound
  <1>5. FileSound(w) => FileSound(runner[r])'
    BY <1>1, <1>2, <1>3 DEF FileSound
  <1>6. AllDone => AllDone'
    BY <1>1, <1>3 DEF AllDone
  <1> QED BY <1>1, <1>2, <1>3, <1>4, <1>5, <1>6 DEF RunnerSound

\* the others have not the lock: they are off, or they serve
LEMMA Solo ==
  ASSUME IInv, NEW r \in Runner, TypeOK', JournalSound', OldSound', RecordSound',
         \A s \in Runner : s # r => runner'[s] = runner[s],
         RunnerSound(runner[r])',
         Holder(r)' => lock' = r,
         lock' = lock \/ lock = r \/ lock = None,
         Holder(r) \/ UNCHANGED database,
         recorded \subseteq recorded',
         \A i \in Statements : times[i] = 1 => times'[i] = 1
  PROVE  IInv'
  <1>1. Mutex'
    <2> SUFFICES ASSUME NEW s \in Runner, s # r, Holder(s)' PROVE lock' = s
      BY DEF Mutex
    <2>1. Holder(s) /\ lock = s
      BY DEF IInv, Mutex, Holder
    <2> QED BY <2>1, Files
  <1>2. ASSUME NEW s \in Runner, s # r PROVE RunnerSound(runner[s])'
    <2>1. runner'[s] = runner[s] /\ RunnerSound(runner[s])
      BY <1>2 DEF IInv
    <2>2. CASE Holder(r)
      <3>1. lock = r /\ ~Holder(s)
        BY <1>2, <2>2 DEF IInv, Mutex
      <3>2. runner[s].pc \in {"off", "serving"}
        BY <3>1 DEF Holder
      <3>3. ASSUME AllDone PROVE AllDone'
        <4>1. times \in [Statements -> {0, 1}]
          BY DEF IInv, TypeOK
        <4>2. \A i \in Statements : InPlace(i)'
          BY <3>3, <4>1, StaysInPlace DEF AllDone
        <4>3. \A v \in Version : v \in recorded' \/ Represented(v)'
          BY <3>3, StaysRepresented DEF AllDone
        <4> QED BY <4>2, <4>3 DEF AllDone
      <3> QED BY <2>1, <3>2, <3>3 DEF RunnerSound
    <2>3. CASE UNCHANGED database
      BY <2>1, <2>3, SameRow DEF IInv
    <2> QED BY <2>2, <2>3
  <1> QED BY <1>1, <1>2 DEF IInv

LEMMA SameFacts ==
  ASSUME TypeOK, UNCHANGED database
  PROVE  (JournalSound => JournalSound') /\ (OldSound => OldSound') /\ (RecordSound => RecordSound')
  <1>1. /\ \A i \in Statements : (InPlace(i)' <=> InPlace(i)) /\ (ByHand(i)' <=> ByHand(i))
        /\ \A v \in Version : Complete(v)' <=> Complete(v)
        /\ FileByFile' <=> FileByFile
    BY SameDatabase
  <1>2. /\ times' = times /\ journal' = journal /\ hasJournal' = hasJournal
        /\ recorded' = recorded /\ recorded \subseteq Version
    BY DEF database, TypeOK
  <1>3. JournalSound => JournalSound'
    BY <1>1, <1>2 DEF JournalSound
  <1>4. OldSound => OldSound'
    BY <1>1, <1>2 DEF OldSound
  <1>5. RecordSound => RecordSound'
    BY <1>1, <1>2 DEF RecordSound
  <1> QED BY <1>3, <1>4, <1>5

\* the database stays as it is
LEMMA Calm ==
  ASSUME IInv, NEW r \in Runner, UNCHANGED database,
         runner' \in [Runner -> RunnerRow],
         \A s \in Runner : s # r => runner'[s] = runner[s],
         RunnerSound(runner[r])',
         lock' \in Runner \cup {None}, Holder(r)' => lock' = r,
         lock' = lock \/ lock = r \/ lock = None,
         faults' \in 0..MaxFaults
  PROVE  IInv'
  <1>1. TypeOK'
    BY DEF IInv, TypeOK, database, RunnerRow
  <1>2. JournalSound' /\ OldSound' /\ RecordSound'
    BY SameFacts DEF IInv
  <1> QED BY <1>1, <1>2, Solo DEF database

\* the process ends
LEMMA ThrowStep ==
  ASSUME IInv, NEW r \in Runner, UNCHANGED database,
         runner' = [runner EXCEPT ![r] = Off],
         lock' = (IF lock = r THEN None ELSE lock) \/ (Holder(r) /\ lock' = None),
         faults' \in 0..MaxFaults
  PROVE  IInv'
  <1>1. TypeOK /\ lock \in Runner \cup {None}
    BY DEF IInv, TypeOK
  <1>2. /\ runner' \in [Runner -> RunnerRow] /\ runner'[r] = Off
        /\ \A s \in Runner : s # r => runner'[s] = runner[s]
    BY <1>1, OffRow, Moved
  <1>3. ~Holder(r)'
    BY <1>2 DEF Holder, Off
  <1>4. RunnerSound(runner[r])'
    BY <1>2 DEF RunnerSound, Off
  <1>5. lock' = lock \/ lock = r \/ lock = None
    BY DEF IInv, Mutex
  <1> QED BY <1>1, <1>2, <1>3, <1>4, <1>5, Calm

-----------------------------------------------------------------------------
(* Lock, classification, baseline.                                         *)

LEMMA StartStep ==
  ASSUME IInv, NEW r \in Runner, Start(r)
  PROVE  IInv'
  <1> DEFINE w == [runner[r] EXCEPT !.pc = "classify"]
  <1>1. TypeOK /\ faults \in 0..MaxFaults
    BY DEF IInv, TypeOK
  <1>2. w \in RunnerRow /\ w.pc = "classify"
    BY <1>1, Rows DEF RunnerRow, Phase
  <1>3. runner' = [runner EXCEPT ![r] = w] /\ UNCHANGED <<database, faults>> /\ lock' = r /\ lock = None
    BY DEF Start, Goto
  <1> HIDE DEF w
  <1>4. /\ runner' \in [Runner -> RunnerRow] /\ runner'[r] = w
        /\ \A s \in Runner : s # r => runner'[s] = runner[s]
    BY <1>1, <1>2, <1>3, Moved
  <1>5. RunnerSound(runner[r])'
    BY <1>2, <1>4 DEF RunnerSound
  <1> QED BY <1>1, <1>3, <1>4, <1>5, Calm

LEMMA ClassifyStep ==
  ASSUME IInv, NEW r \in Runner, Classify(r)
  PROVE  IInv'
  <1>1. TypeOK /\ faults \in 0..MaxFaults /\ lock \in Runner \cup {None} /\ times[1] \in {0, 1}
    BY Files DEF IInv, TypeOK
  <1>2. UNCHANGED <<database, faults>> /\ runner[r].pc = "classify" /\ Holder(r) /\ lock = r
    BY DEF Classify, Holder, IInv, Mutex
  <1>3. CASE Throw(r)
    BY <1>1, <1>2, <1>3, ThrowStep DEF Throw
  <1>4. ASSUME NEW tables \in {"EMPTY", "VERSIONED", "JOURNALLED"},
               runner' = [runner EXCEPT ![r].pc = "journal", ![r].tables = tables],
               UNCHANGED lock,
               tables = "EMPTY" => times[1] = 0,
               tables = "VERSIONED" => times[1] = 1 /\ ~hasJournal,
               tables = "JOURNALLED" => times[1] = 1
        PROVE  IInv'
    <2> DEFINE w == [runner[r] EXCEPT !.pc = "journal", !.tables = tables]
    <2>1. w \in RunnerRow /\ w.pc = "journal" /\ w.tables = tables
      BY <1>1, Rows DEF RunnerRow, Phase
    <2>2. runner' = [runner EXCEPT ![r] = w]
      BY <1>4
    <2> HIDE DEF w
    <2>3. /\ runner' \in [Runner -> RunnerRow] /\ runner'[r] = w
          /\ \A s \in Runner : s # r => runner'[s] = runner[s]
      BY <1>1, <2>1, <2>2, Moved
    <2>4. tables = "VERSIONED" => Complete(Baseline)
      <3> SUFFICES ASSUME tables = "VERSIONED", NEW i \in Statements, FileOf[i] <= Baseline
                   PROVE  InPlace(i)
        BY DEF Complete
      <3>1. ByHand(1) /\ FileOf[i] = FileOf[1] /\ FileOf[i] = Baseline
        BY <1>4, Files DEF IInv, JournalSound, ByHand
      <3>2. ByHand(i) \/ FileByFile
        BY <3>1, Files DEF IInv, JournalSound
      <3> QED BY <3>1, <3>2 DEF ByHand, InPlace, Represented
    <2>5. runner'[r].pc = "journal" /\ runner'[r].tables = tables
      BY <2>1, <2>3
    <2>6. RunnerSound(runner[r])'
      BY <1>2, <1>4, <2>4, <2>5, SameDatabase, Files DEF RunnerSound, ClassSound, database
    <2> QED BY <1>1, <1>2, <1>4, <2>3, <2>6, Calm
  <1>5. CASE /\ HasVersions
             /\ runner' = [runner EXCEPT ![r].pc = "journal",
                    ![r].tables = IF hasJournal THEN "JOURNALLED" ELSE "VERSIONED"]
             /\ UNCHANGED lock
    <2> DEFINE tables == IF hasJournal THEN "JOURNALLED" ELSE "VERSIONED"
    <2>1. times[1] = 1
      BY <1>1, <1>5 DEF HasVersions
    <2>2. /\ tables \in {"EMPTY", "VERSIONED", "JOURNALLED"} /\ tables # "EMPTY"
          /\ tables = "VERSIONED" => ~hasJournal
      BY Zenon
    <2>3. runner' = [runner EXCEPT ![r].pc = "journal", ![r].tables = tables] /\ UNCHANGED lock
      BY <1>5
    <2> HIDE DEF tables
    <2> QED BY <1>4, <2>1, <2>2, <2>3
  <1>6. CASE /\ ~HasVersions
             /\ runner' = [runner EXCEPT ![r].pc = "journal", ![r].tables = "EMPTY"]
             /\ UNCHANGED lock
    <2>1. times[1] = 0
      BY <1>1, <1>6 DEF HasVersions
    <2> QED BY <1>4, <1>6, <2>1
  <1> QED BY <1>3, <1>5, <1>6 DEF Classify

LEMMA EnsureJournalStep ==
  ASSUME IInv, NEW r \in Runner, EnsureJournal(r)
  PROVE  IInv'
  <1> DEFINE w == [runner[r] EXCEPT !.pc = "check"]
  <1>1. TypeOK /\ runner[r].pc = "journal" /\ RunnerSound(runner[r])
    BY DEF IInv, EnsureJournal
  <1>2. w \in RunnerRow /\ w.pc = "check" /\ w.tables = runner[r].tables
    BY <1>1, Rows DEF RunnerRow, Phase
  <1>3. /\ runner' = [runner EXCEPT ![r] = w] /\ hasJournal' = TRUE
        /\ UNCHANGED <<times, journal, recorded, foreign, lock, faults>>
    BY DEF EnsureJournal, Goto
  <1> HIDE DEF w
  <1>4. /\ runner' \in [Runner -> RunnerRow] /\ runner'[r] = w
        /\ \A s \in Runner : s # r => runner'[s] = runner[s]
    BY <1>1, <1>2, <1>3, Moved
  <1>5. runner'[r].pc = "check" /\ runner'[r].tables = runner[r].tables
    BY <1>2, <1>4
  <1>6. RunnerSound(runner[r])'
    BY <1>1, <1>3, <1>5 DEF RunnerSound, ClassSound, Complete, InPlace, Represented, FileByFile, Took
  <1>7. TypeOK'
    BY <1>1, <1>3, <1>4 DEF TypeOK, RunnerRow
  <1>8. JournalSound' /\ OldSound' /\ RecordSound'
    BY <1>3 DEF IInv, JournalSound, OldSound, RecordSound, Complete, ByHand, InPlace, Represented,
            FileByFile, Took
  <1>9. Holder(r) /\ lock' = r
    BY <1>1, <1>3 DEF Holder, IInv, Mutex
  <1> QED BY <1>3, <1>4, <1>6, <1>7, <1>8, <1>9, Solo

\* the baseline is only run on a database that nobody made by hand
LEMMA BaselineToRun ==
  ASSUME IInv, times[1] = 0 \/ BaselineIncomplete
  PROVE  /\ ~Represented(Baseline)
         /\ \A j \in Statements : FileOf[j] = Baseline => ~ByHand(j)
  <1>1. ~FileByFile
    <2> SUFFICES ASSUME FileByFile PROVE FALSE
      OBVIOUS
    <2>1. times[1] = 1 /\ \A i \in Statements : FileOf[i] = Baseline => journal[i] = "none"
      BY DEF IInv, OldSound
    <2>2. BaselineRows(JournalStatus \ {"none"}) = {}
      BY <2>1 DEF BaselineRows
    <2> QED BY <2>1, <2>2 DEF BaselineIncomplete
  <1>2. ASSUME NEW j \in Statements, FileOf[j] = Baseline, ByHand(j) PROVE FALSE
    <2>1. \A i \in Statements : FileOf[i] = Baseline => ByHand(i)
      BY <1>1, <1>2 DEF IInv, JournalSound
    <2>2. CASE times[1] = 0
      BY <2>1, <2>2, Files DEF ByHand
    <2>3. CASE BaselineIncomplete
      BY <2>1, <2>3 DEF BaselineIncomplete, BaselineRows, ByHand
    <2> QED BY <2>2, <2>3
  <1> QED BY <1>1, <1>2, Files DEF Represented

LEMMA BaselineDone ==
  ASSUME IInv, times[1] = 1, ~BaselineIncomplete
  PROVE  Complete(Baseline)
  <1> SUFFICES ASSUME NEW i \in Statements, FileOf[i] = Baseline PROVE InPlace(i)
    BY Files DEF Complete
  <1>1. journal \in [Statements -> JournalStatus]
    BY DEF IInv, TypeOK
  <1>2. CASE journal[1] = "none" /\ BaselineRows(JournalStatus \ {"none"}) = {}
    <2>1. ByHand(1)
      BY <1>2 DEF ByHand
    <2>2. ByHand(i) \/ FileByFile
      BY <2>1, Files DEF IInv, JournalSound
    <2> QED BY <2>2 DEF ByHand, InPlace, Represented
  <1>3. CASE BaselineRows({"APPLIED"}) = BaselineRows(JournalStatus)
    <2>1. i \in BaselineRows(JournalStatus)
      BY <1>1 DEF BaselineRows
    <2>2. journal[i] = "APPLIED"
      BY <1>3, <2>1 DEF BaselineRows
    <2> QED BY <2>2 DEF IInv, JournalSound
  <1>4. BaselineRows(JournalStatus \ {"none"}) = {} => journal[1] = "none"
    BY <1>1, Files DEF BaselineRows
  <1> QED BY <1>2, <1>3, <1>4 DEF BaselineIncomplete

LEMMA CheckBaselineStep ==
  ASSUME IInv, NEW r \in Runner, CheckBaseline(r)
  PROVE  IInv'
  <1> DEFINE resume == runner[r].tables = "EMPTY" \/ (runner[r].tables = "JOURNALLED" /\ BaselineIncomplete)
  <1>1. TypeOK /\ runner[r].pc = "check" /\ RunnerSound(runner[r]) /\ faults \in 0..MaxFaults
    BY DEF IInv, TypeOK, CheckBaseline
  <1>2. UNCHANGED <<database, lock, faults>> /\ Holder(r) /\ lock = r
    BY <1>1 DEF CheckBaseline, Holder, IInv, Mutex
  <1>3. ClassSound(runner[r]) /\ hasJournal /\ runner[r] \in RunnerRow /\ journal \in [Statements -> JournalStatus]
    BY <1>1, Rows DEF RunnerSound, TypeOK
  <1>4. CASE resume
    <2> DEFINE w == [runner[r] EXCEPT !.pc = "step", !.at = First(Baseline), !.seen = journal]
    <2>1. w \in RunnerRow /\ w.pc = "step" /\ w.at = 1 /\ w.seen = journal
      BY <1>3, FirstStatement, Files DEF RunnerRow, Phase
    <2>2. runner' = [runner EXCEPT ![r] = w]
      BY <1>4 DEF CheckBaseline
    <2> HIDE DEF w
    <2>3. /\ runner' \in [Runner -> RunnerRow] /\ runner'[r] = w
          /\ \A s \in Runner : s # r => runner'[s] = runner[s]
      BY <1>1, <2>1, <2>2, Moved
    <2>4. runner'[r].pc = "step" /\ runner'[r].at = 1 /\ runner'[r].seen = journal
      BY <2>1, <2>3
    <2>5. ~Represented(FileOf[1]) /\ \A j \in Statements : FileOf[j] = FileOf[1] => ~ByHand(j)
      BY <1>3, <1>4, BaselineToRun, Files DEF ClassSound
    <2>6. \A j \in Statements : ~(j < 1)
      BY Files
    <2>7. ~Represented(FileOf[1])' /\ \A j \in Statements : FileOf[j] = FileOf[1] => ~ByHand(j)'
      BY <1>2, <2>5, SameDatabase, Files
    <2>8. RunnerSound(runner[r])'
      BY <1>2, <1>3, <2>4, <2>6, <2>7, Files DEF RunnerSound, FileSound, database
    <2> QED BY <1>1, <1>2, <2>3, <2>8, Calm
  <1>5. CASE ~resume
    <2> DEFINE w == [runner[r] EXCEPT !.pc = "versions"]
    <2>1. w \in RunnerRow /\ w.pc = "versions"
      BY <1>3 DEF RunnerRow, Phase
    <2>2. runner' = [runner EXCEPT ![r] = w]
      BY <1>5 DEF CheckBaseline
    <2> HIDE DEF w
    <2>3. /\ runner' \in [Runner -> RunnerRow] /\ runner'[r] = w
          /\ \A s \in Runner : s # r => runner'[s] = runner[s]
      BY <1>1, <2>1, <2>2, Moved
    <2>4. runner[r].tables \in {"EMPTY", "VERSIONED", "JOURNALLED"}
      BY <1>3 DEF RunnerRow
    <2>5. Complete(Baseline)
      BY <1>3, <1>5, <2>4, BaselineDone DEF ClassSound
    <2>6. runner'[r].pc = "versions"
      BY <2>1, <2>3
    <2>7. RunnerSound(runner[r])'
      BY <1>2, <1>3, <2>5, <2>6, SameDatabase, Files DEF RunnerSound, database
    <2> QED BY <1>1, <1>2, <2>3, <2>7, Calm
  <1> QED BY <1>4, <1>5

LEMMA ReadVersionsStep ==
  ASSUME IInv, NEW r \in Runner, ReadVersions(r)
  PROVE  IInv'
  <1> DEFINE w == [runner[r] EXCEPT !.pc = "pick", !.applied = recorded]
  <1>1. TypeOK /\ runner[r].pc = "versions" /\ RunnerSound(runner[r]) /\ faults \in 0..MaxFaults
    BY DEF IInv, TypeOK, ReadVersions
  <1>2. UNCHANGED <<database, lock, faults>> /\ Holder(r) /\ lock = r
    BY <1>1 DEF ReadVersions, Holder, IInv, Mutex
  <1>3. w \in RunnerRow /\ w.pc = "pick" /\ w.applied = recorded
    BY <1>1, Rows DEF RunnerRow, Phase, TypeOK
  <1>4. runner' = [runner EXCEPT ![r] = w]
    BY DEF ReadVersions
  <1> HIDE DEF w
  <1>5. /\ runner' \in [Runner -> RunnerRow] /\ runner'[r] = w
        /\ \A s \in Runner : s # r => runner'[s] = runner[s]
    BY <1>1, <1>3, <1>4, Moved
  <1>6. runner'[r].pc = "pick" /\ runner'[r].applied = recorded
    BY <1>3, <1>5
  <1>7. RunnerSound(runner[r])'
    BY <1>1, <1>2, <1>6, SameDatabase, Files DEF RunnerSound, database
  <1> QED BY <1>1, <1>2, <1>5, <1>7, Calm

\* the first file that is not recorded starts on a complete database
LEMMA Picked ==
  ASSUME IInv, NEW r \in Runner, Complete(Baseline), runner[r].applied = recorded,
         NEW v \in Pending(r), \A u \in Pending(r) : v <= u,
         NEW j \in Statements
  PROVE  /\ j < First(v) => InPlace(j)
         /\ FileOf[j] = v => ~ByHand(j)
         /\ ~Represented(v)
  <1>1. /\ v \in Version /\ v > Baseline /\ v \notin recorded /\ v \in Nat
        /\ Baseline \in recorded => v > Base
    BY Files, MigrationsAssumption DEF Pending
  <1>2. First(v) \in Statements /\ FileOf[First(v)] = v
        /\ \A i \in Statements : FileOf[i] = v => First(v) <= i
    BY <1>1, FirstOfFile
  <1>3. FileOf[j] = v => ~ByHand(j)
    BY <1>1, Files DEF IInv, JournalSound
  <1>4. ASSUME j < First(v) PROVE InPlace(j)
    <2>1. FileOf[j] \in Version /\ FileOf[j] <= v /\ FileOf[j] # v /\ FileOf[j] \in Nat
      BY <1>2, <1>4, Files
    <2>2. CASE FileOf[j] = Baseline
      BY <2>2, Files DEF Complete
    <2>3. CASE FileOf[j] # Baseline
      <3>1. FileOf[j] \notin Pending(r)
        BY <1>1, <2>1
      <3>2. FileOf[j] \in recorded \/ (Baseline \in recorded /\ FileOf[j] <= Base)
        BY <2>1, <2>3, <3>1, Files, MigrationsAssumption DEF Pending
      <3>3. CASE FileOf[j] \in recorded
        BY <2>1, <2>3, <3>3 DEF IInv, RecordSound, Complete
      <3>4. CASE Baseline \in recorded /\ FileOf[j] <= Base
        BY <2>1, <2>3, <3>4, Files DEF InPlace, Represented
      <3> QED BY <3>2, <3>3, <3>4
    <2> QED BY <2>2, <2>3
  <1>5. ~Represented(v)
    BY <1>1, Files, MigrationsAssumption DEF Represented
  <1> QED BY <1>3, <1>4, <1>5

LEMMA NothingPending ==
  ASSUME IInv, NEW r \in Runner, Complete(Baseline), runner[r].applied = recorded,
         Pending(r) = {}
  PROVE  AllDone
  <1>1. ASSUME NEW v \in Version, v # Baseline PROVE v \in recorded \/ Represented(v)
    <2>1. v > Baseline /\ v \in Nat
      BY <1>1, Files
    <2>2. v \notin Pending(r)
      OBVIOUS
    <2>3. v \in recorded \/ (Baseline \in recorded /\ v <= Base)
      BY <1>1, <2>1, <2>2, MigrationsAssumption DEF Pending
    <2> QED BY <2>1, <2>3 DEF Represented
  <1>2. Baseline \in recorded \/ Represented(Baseline)
    <2>1. InPlace(Marker) /\ ~Took(Like[Marker])
      BY Files, NotTaken DEF Complete
    <2> QED BY <2>1, Files DEF InPlace, IInv, RecordSound
  <1>3. ASSUME NEW i \in Statements PROVE InPlace(i)
    <2>1. FileOf[i] \in Version /\ FileOf[i] <= FileOf[i]
      BY Files
    <2>2. CASE FileOf[i] = Baseline
      BY <2>1, <2>2 DEF Complete
    <2>3. CASE FileOf[i] # Baseline /\ FileOf[i] \in recorded
      BY <2>1, <2>3 DEF Complete, IInv, RecordSound
    <2>4. CASE Represented(FileOf[i])
      BY <2>4 DEF InPlace
    <2> QED BY <1>1, <2>1, <2>2, <2>3, <2>4
  <1> QED BY <1>1, <1>2, <1>3 DEF AllDone

LEMMA PickFileStep ==
  ASSUME IInv, NEW r \in Runner, PickFile(r)
  PROVE  IInv'
  <1>1. TypeOK /\ runner[r].pc = "pick" /\ RunnerSound(runner[r]) /\ faults \in 0..MaxFaults
    BY DEF IInv, TypeOK, PickFile
  <1>2. UNCHANGED <<database, lock, faults>> /\ Holder(r) /\ lock = r
    BY <1>1 DEF PickFile, Holder, IInv, Mutex
  <1>3. /\ hasJournal /\ Complete(Baseline) /\ runner[r].applied = recorded
        /\ runner[r] \in RunnerRow /\ journal \in [Statements -> JournalStatus]
    BY <1>1, Rows DEF RunnerSound, TypeOK
  <1>4. ASSUME NEW v \in Pending(r), \A u \in Pending(r) : v <= u,
               runner' = [runner EXCEPT ![r].pc = "step", ![r].at = First(v), ![r].seen = journal]
        PROVE  IInv'
    <2> DEFINE w == [runner[r] EXCEPT !.pc = "step", !.at = First(v), !.seen = journal]
    <2>1. v \in Version /\ v > Baseline /\ v \notin recorded
      BY <1>3, Files, MigrationsAssumption DEF Pending
    <2>2. First(v) \in Statements /\ FileOf[First(v)] = v
      BY <2>1, FirstOfFile
    <2>3. /\ w \in RunnerRow /\ w.pc = "step" /\ w.at = First(v) /\ w.seen = journal
          /\ w.applied = runner[r].applied
      BY <1>3, <2>2 DEF RunnerRow, Phase
    <2>4. runner' = [runner EXCEPT ![r] = w]
      BY <1>4
    <2> HIDE DEF w
    <2>5. /\ runner' \in [Runner -> RunnerRow] /\ runner'[r] = w
          /\ \A s \in Runner : s # r => runner'[s] = runner[s]
      BY <1>1, <2>3, <2>4, Moved
    <2>6. /\ runner'[r].pc = "step" /\ runner'[r].at = First(v) /\ runner'[r].seen = journal
          /\ runner'[r].applied = recorded
      BY <1>3, <2>3, <2>5
    <2>7. \A j \in Statements : /\ j < First(v) => InPlace(j)
                                /\ FileOf[j] = v => ~ByHand(j)
                                /\ ~Represented(v)
      BY <1>3, <1>4, Picked
    <2>8. /\ \A j \in Statements : j < runner'[r].at => InPlace(j)'
          /\ \A j \in Statements : FileOf[j] = FileOf[runner'[r].at] => ~ByHand(j)'
      <3>1. runner'[r].at = First(v) /\ FileOf[runner'[r].at] = v
        BY <2>2, <2>6
      <3> QED BY <1>2, <2>7, <3>1, SameDatabase
    <2>9. FileSound(runner[r])'
      <3>1. ~Represented(v)' /\ FileOf[runner'[r].at] = v
        BY <1>2, <2>1, <2>2, <2>6, <2>7, SameDatabase, Files
      <3>2. ~Represented(FileOf[runner[r].at])'
        BY <3>1 DEF Represented, FileByFile
      <3> QED BY <1>2, <2>1, <2>2, <2>6, <2>8, <3>2 DEF FileSound, database
    <2>10. RunnerSound(runner[r])'
      BY <1>2, <1>3, <2>6, <2>9 DEF RunnerSound, database
    <2> QED BY <1>1, <1>2, <2>5, <2>10, Calm
  <1>5. CASE Pending(r) = {} /\ Goto(r, "admin")
    <2> DEFINE w == [runner[r] EXCEPT !.pc = "admin"]
    <2>1. w \in RunnerRow /\ w.pc = "admin"
      BY <1>3 DEF RunnerRow, Phase
    <2>2. runner' = [runner EXCEPT ![r] = w]
      BY <1>5 DEF Goto
    <2> HIDE DEF w
    <2>3. /\ runner' \in [Runner -> RunnerRow] /\ runner'[r] = w
          /\ \A s \in Runner : s # r => runner'[s] = runner[s]
      BY <1>1, <2>1, <2>2, Moved
    <2>4. AllDone
      BY <1>3, <1>5, NothingPending
    <2>5. runner'[r].pc = "admin"
      BY <2>1, <2>3
    <2>6. RunnerSound(runner[r])'
      BY <1>2, <1>3, <2>4, <2>5, SameDatabase DEF RunnerSound, AllDone, database
    <2> QED BY <1>1, <1>2, <2>3, <2>6, Calm
  <1> QED BY <1>4, <1>5 DEF PickFile

LEMMA ServeStep ==
  ASSUME IInv, NEW r \in Runner, Serve(r)
  PROVE  IInv'
  <1> DEFINE w == [runner[r] EXCEPT !.pc = "serving"]
  <1>1. TypeOK /\ runner[r].pc = "admin" /\ RunnerSound(runner[r]) /\ faults \in 0..MaxFaults
    BY DEF IInv, TypeOK, Serve
  <1>2. UNCHANGED <<database, faults>> /\ lock' = None /\ lock = r
    BY <1>1 DEF Serve, Holder, IInv, Mutex
  <1>3. w \in RunnerRow /\ w.pc = "serving"
    BY <1>1, Rows DEF RunnerRow, Phase
  <1>4. runner' = [runner EXCEPT ![r] = w]
    BY DEF Serve, Goto
  <1> HIDE DEF w
  <1>5. /\ runner' \in [Runner -> RunnerRow] /\ runner'[r] = w
        /\ \A s \in Runner : s # r => runner'[s] = runner[s]
    BY <1>1, <1>3, <1>4, Moved
  <1>6. runner'[r].pc = "serving"
    BY <1>3, <1>5
  <1>7. RunnerSound(runner[r])' /\ ~Holder(r)'
    BY <1>1, <1>2, <1>6, SameDatabase DEF RunnerSound, AllDone, database, Holder
  <1> QED BY <1>1, <1>2, <1>5, <1>7, Calm

LEMMA CrashStep ==
  ASSUME IInv, NEW r \in Runner, Crash(r)
  PROVE  IInv'
  <1>1. faults' \in 0..MaxFaults
    BY MigrationsAssumption DEF IInv, TypeOK, Crash
  <1> QED BY <1>1, ThrowStep DEF Crash

-----------------------------------------------------------------------------
(* executeResilientMigration. In the middle of a file container r holds the *)
(* lock and has what it needs of its row.                                   *)

LEMMA InFile ==
  ASSUME IInv, NEW r \in Runner, runner[r].pc \in {"step", "ddl", "dml", "record"}
  PROVE  /\ TypeOK /\ Holder(r) /\ lock = r /\ hasJournal /\ FileSound(runner[r])
         /\ runner[r] \in RunnerRow /\ runner[r].at \in Statements
         /\ runner[r].seen \in [Statements -> JournalStatus]
         /\ faults \in 0..MaxFaults
  BY Rows DEF IInv, TypeOK, RunnerSound, Holder, Mutex

\* the statement a container is at is journalled, or takes effect, or both
Touched(i) ==
    /\ \A j \in Statements : j # i => journal'[j] = journal[j] /\ times'[j] = times[j]
    /\ journal'[i] # "none"
    /\ journal'[i] = "APPLIED" => times'[i] = 1 \/ Took(Like[i])
    /\ Kind[i] = "DML" => journal'[i] = "APPLIED"
    /\ times[i] = 1 => times'[i] = 1
    /\ \/ recorded' = recorded /\ (i = Marker => times' = times)
       \/ i = Marker /\ recorded' = recorded \cup {Baseline}
    /\ UNCHANGED <<hasJournal, foreign>>

LEMMA TouchedSound ==
  ASSUME IInv, NEW r \in Runner, runner[r].pc \in {"step", "ddl", "dml"},
         NEW i, i = runner[r].at, Touched(i),
         times' \in [Statements -> {0, 1}]
  PROVE  /\ JournalSound' /\ OldSound' /\ RecordSound' /\ recorded \subseteq recorded'
         /\ \A j \in Statements : times[j] = 1 => times'[j] = 1
         /\ \A j \in Statements : InPlace(j) => InPlace(j)'
         /\ FileOf[i] # Baseline => recorded' = recorded
         /\ \A j \in Statements : FileOf[j] = FileOf[i] => ~ByHand(j)'
         /\ ~Represented(FileOf[i])'
         /\ journal'[i] = "APPLIED" => InPlace(i)'
  <1>1. i \in Statements /\ hasJournal /\ FileSound(runner[r]) /\ times \in [Statements -> {0, 1}]
    BY InFile DEF TypeOK
  <1>2. /\ \A j \in Statements : FileOf[j] = FileOf[i] => ~ByHand(j)
        /\ ~Represented(FileOf[i])
    BY <1>1 DEF FileSound
  <1>3. Touched(i)
    OBVIOUS
  <1>4. \A j \in Statements : times[j] = 1 => times'[j] = 1
    BY <1>1, <1>3 DEF Touched
  <1>5. recorded \subseteq recorded' /\ (FileOf[i] # Baseline => recorded' = recorded)
    BY <1>1, <1>3, Files DEF Touched
  <1>10. \A j \in Statements : InPlace(j) => InPlace(j)'
    BY <1>1, <1>4, <1>5, StaysInPlace
  <1>11. FileByFile' <=> FileByFile
    <2>1. recorded' = recorded \/ recorded' = recorded \cup {Baseline}
      BY <1>3 DEF Touched
    <2>2. ~(Baseline < Baseline)
      BY Files
    <2> QED BY <2>1, <2>2 DEF FileByFile
  <1>12. ~Represented(FileOf[i])'
    BY <1>1, <1>2, <1>5, <1>11, Files DEF Represented
  <1>13. ASSUME journal'[i] = "APPLIED" PROVE InPlace(i)'
    <2>1. CASE times'[i] = 1
      BY <2>1 DEF InPlace
    <2>2. CASE Took(Like[i])
      <3>1. InPlace(i)
        BY <2>2 DEF InPlace
      <3> QED BY <1>1, <1>10, <3>1
    <2> QED BY <1>3, <1>13, <2>1, <2>2 DEF Touched
  <1>6. \A j \in Statements : FileOf[j] = FileOf[i] => ~ByHand(j)'
    BY <1>1, <1>2, <1>3 DEF Touched, ByHand
  <1>7. \A j \in Statements : FileOf[j] # FileOf[i] => (ByHand(j)' <=> ByHand(j))
    BY <1>1, <1>3 DEF Touched, ByHand
  <1>8. JournalSound'
    <2>1. hasJournal'
      BY <1>1, <1>3 DEF Touched
    <2> SUFFICES ASSUME NEW j \in Statements
                 PROVE  /\ journal'[j] = "APPLIED" => InPlace(j)'
                        /\ Kind[j] = "DML" => journal'[j] \in {"none", "APPLIED"}
                        /\ ByHand(j)' =>
                              \/ /\ FileOf[j] \in recorded'
                                 /\ \A k \in Statements : FileOf[k] = FileOf[j] => ByHand(k)'
                              \/ FileByFile' /\ FileOf[j] = Baseline
      BY <2>1 DEF JournalSound
    <2>2. journal'[j] = "APPLIED" => InPlace(j)'
      BY <1>1, <1>3, <1>10, <1>13 DEF Touched, IInv, JournalSound
    <2>3. Kind[j] = "DML" => journal'[j] \in {"none", "APPLIED"}
      BY <1>1, <1>3 DEF Touched, IInv, JournalSound
    <2>4. ASSUME ByHand(j)'
          PROVE  \/ /\ FileOf[j] \in recorded'
                    /\ \A k \in Statements : FileOf[k] = FileOf[j] => ByHand(k)'
                 \/ FileByFile' /\ FileOf[j] = Baseline
      <3>1. FileOf[j] # FileOf[i] /\ ByHand(j)
        BY <1>6, <1>7, <2>4
      <3>2. \/ FileOf[j] \in recorded /\ \A k \in Statements : FileOf[k] = FileOf[j] => ByHand(k)
            \/ FileByFile /\ FileOf[j] = Baseline
        BY <3>1 DEF IInv, JournalSound
      <3> QED BY <1>5, <1>7, <1>11, <3>1, <3>2
    <2> QED BY <2>2, <2>3, <2>4
  <1>9. RecordSound'
    <2>1. ASSUME NEW v \in recorded', v # Baseline PROVE Complete(v)'
      <3>1. v \in recorded /\ Complete(v)
        BY <1>3, <2>1 DEF Touched, IInv, RecordSound
      <3> QED BY <1>10, <3>1 DEF Complete
    <2>2. times'[Marker] = 1 => Baseline \in recorded'
      BY <1>1, <1>3, Files DEF Touched, IInv, RecordSound
    <2> QED BY <2>1, <2>2 DEF RecordSound
  <1>14. OldSound'
    <2> SUFFICES ASSUME FileByFile
                 PROVE  /\ times'[1] = 1
                        /\ \A j \in Statements : FileOf[j] = Baseline => journal'[j] = "none"
      BY <1>11 DEF OldSound
    <2>1. /\ times[1] = 1
          /\ \A j \in Statements : FileOf[j] = Baseline => journal[j] = "none"
      BY DEF IInv, OldSound
    <2>2. FileOf[i] # Baseline
      BY <1>2 DEF Represented
    <2> QED BY <1>1, <1>3, <1>4, <2>1, <2>2, Files DEF Touched
  <1> QED BY <1>4, <1>5, <1>6, <1>8, <1>9, <1>10, <1>12, <1>13, <1>14

\* the next statement of the file, or its end
LEMMA DoneSound ==
  ASSUME IInv, NEW r \in Runner, runner[r].pc \in {"step", "ddl", "dml"}, Done(r),
         NEW i, i = runner[r].at,
         hasJournal', InPlace(i)',
         \A j \in Statements : InPlace(j) => InPlace(j)',
         \A j \in Statements : j # i => journal'[j] = journal[j],
         ~Represented(FileOf[i])',
         FileOf[i] # Baseline => recorded' = recorded,
         \A j \in Statements : FileOf[j] = FileOf[i] => ~ByHand(j)'
  PROVE  /\ runner' \in [Runner -> RunnerRow] /\ RunnerSound(runner[r])' /\ Holder(r)'
         /\ \A s \in Runner : s # r => runner'[s] = runner[s]
  <1>1. TypeOK /\ i \in Statements /\ FileSound(runner[r]) /\ runner[r] \in RunnerRow
    BY InFile
  <1>2. /\ \A j \in Statements : j < i => InPlace(j)'
        /\ \A j \in Statements : i < j /\ FileOf[j] = FileOf[i] => runner[r].seen[j] = journal'[j]
        /\ FileOf[i] # Baseline => runner[r].applied = recorded' /\ FileOf[i] \notin recorded'
    BY <1>1, Files DEF FileSound
  <1>3. /\ InPlace(i)' /\ ~Represented(FileOf[i])'
        /\ \A j \in Statements : FileOf[j] = FileOf[i] => ~ByHand(j)'
    OBVIOUS
  <1>4. CASE ~LastOf(i)
    <2> DEFINE w == [runner[r] EXCEPT !.pc = "step", !.at = i + 1]
    <2>1. i + 1 \in Statements /\ FileOf[i + 1] = FileOf[i]
      BY <1>1, <1>4, NextOfFile
    <2>2. /\ w \in RunnerRow /\ w.pc = "step" /\ w.at = i + 1
          /\ w.seen = runner[r].seen /\ w.applied = runner[r].applied
      BY <1>1, <2>1 DEF RunnerRow, Phase
    <2>3. runner' = [runner EXCEPT ![r] = w]
      BY <1>4 DEF Done
    <2> HIDE DEF w
    <2>4. /\ runner' \in [Runner -> RunnerRow] /\ runner'[r] = w
          /\ \A s \in Runner : s # r => runner'[s] = runner[s]
      BY <1>1, <2>2, <2>3, Moved
    <2>5. /\ runner'[r].pc = "step" /\ runner'[r].at = i + 1
          /\ runner'[r].seen = runner[r].seen /\ runner'[r].applied = runner[r].applied
      BY <2>2, <2>4
    <2>6. /\ \A j \in Statements : j < i + 1 => InPlace(j)'
          /\ \A j \in Statements : i + 1 <= j /\ FileOf[j] = FileOf[i + 1] =>
                 runner[r].seen[j] = journal'[j]
          /\ runner[r].seen[i + 1] = journal'[i + 1]
      BY <1>1, <1>2, <1>3, <2>1, Files
    <2>9. ~Represented(FileOf[runner[r].at])'
      BY <1>3, <2>1, <2>5 DEF Represented, FileByFile
    <2>7. FileSound(runner[r])'
      BY <1>2, <1>3, <2>1, <2>5, <2>6, <2>9, Files DEF FileSound
    <2>8. RunnerSound(runner[r])' /\ Holder(r)'
      BY <2>5, <2>7 DEF RunnerSound, Holder
    <2> QED BY <2>4, <2>8
  <1>5. CASE LastOf(i)
    <2> DEFINE w == [runner[r] EXCEPT !.pc = "record"]
    <2>1. /\ w \in RunnerRow /\ w.pc = "record" /\ w.at = i /\ w.applied = runner[r].applied
      BY <1>1 DEF RunnerRow, Phase
    <2>2. runner' = [runner EXCEPT ![r] = w]
      BY <1>5 DEF Done
    <2> HIDE DEF w
    <2>3. /\ runner' \in [Runner -> RunnerRow] /\ runner'[r] = w
          /\ \A s \in Runner : s # r => runner'[s] = runner[s]
      BY <1>1, <2>1, <2>2, Moved
    <2>4. runner'[r].pc = "record" /\ runner'[r].at = i /\ runner'[r].applied = runner[r].applied
      BY <2>1, <2>3
    <2>7. ~Represented(FileOf[runner[r].at])' /\ InPlace(runner[r].at)'
      BY <1>3, <2>4 DEF Represented, FileByFile, InPlace
    <2>5. FileSound(runner[r])'
      BY <1>2, <1>3, <1>5, <2>4, <2>7 DEF FileSound, LastOf
    <2>6. RunnerSound(runner[r])' /\ Holder(r)'
      BY <2>4, <2>5 DEF RunnerSound, Holder
    <2> QED BY <2>3, <2>6
  <1> QED BY <1>4, <1>5

LEMMA StatementDone ==
  ASSUME IInv, NEW r \in Runner, runner[r].pc \in {"step", "ddl", "dml"},
         NEW i, i = runner[r].at, Touched(i), Done(r), journal'[i] = "APPLIED",
         times' \in [Statements -> {0, 1}], journal' \in [Statements -> JournalStatus],
         UNCHANGED <<lock, faults>>
  PROVE  IInv'
  <1>1. TypeOK /\ i \in Statements /\ lock = r /\ hasJournal
    BY InFile
  <1>2. /\ JournalSound' /\ OldSound' /\ RecordSound' /\ recorded \subseteq recorded'
        /\ \A j \in Statements : times[j] = 1 => times'[j] = 1
        /\ \A j \in Statements : InPlace(j) => InPlace(j)'
        /\ FileOf[i] # Baseline => recorded' = recorded
        /\ \A j \in Statements : FileOf[j] = FileOf[i] => ~ByHand(j)'
        /\ ~Represented(FileOf[i])' /\ InPlace(i)'
    BY TouchedSound
  <1>3. /\ hasJournal' /\ UNCHANGED foreign /\ recorded' \subseteq Version
        /\ \A j \in Statements : j # i => journal'[j] = journal[j]
    BY <1>1, Files DEF Touched, TypeOK
  <1>4. /\ runner' \in [Runner -> RunnerRow] /\ RunnerSound(runner[r])' /\ Holder(r)'
        /\ \A s \in Runner : s # r => runner'[s] = runner[s]
    BY <1>2, <1>3, DoneSound
  <1>5. hasJournal' \in BOOLEAN /\ foreign' \in BOOLEAN
    BY <1>1, <1>3 DEF TypeOK, Touched
  <1>6. TypeOK'
    BY <1>1, <1>3, <1>4, <1>5 DEF TypeOK, RunnerRow
  <1>7. Holder(r) /\ lock' = r
    BY <1>1, InFile
  <1> QED BY <1>2, <1>4, <1>6, <1>7, Solo

LEMMA SkipAppliedStep ==
  ASSUME IInv, NEW r \in Runner, SkipApplied(r)
  PROVE  IInv'
  <1> PICK i : i = runner[r].at
    OBVIOUS
  <1>1. runner[r].pc = "step" /\ runner[r].seen[i] = "APPLIED" /\ Done(r)
        /\ UNCHANGED <<database, lock, faults>>
    BY DEF SkipApplied, AtStep
  <1>2. /\ TypeOK /\ i \in Statements /\ lock = r /\ hasJournal /\ FileSound(runner[r])
        /\ faults \in 0..MaxFaults
    BY <1>1, InFile
  <1>3. InPlace(i)
    BY <1>1, <1>2 DEF FileSound, IInv, JournalSound
  <1>4. /\ \A j \in Statements : FileOf[j] = FileOf[i] => ~ByHand(j)'
        /\ \A j \in Statements : InPlace(j) => InPlace(j)'
        /\ ~Represented(FileOf[i])' /\ InPlace(i)'
    BY <1>1, <1>2, <1>3, SameDatabase, Files DEF FileSound
  <1>5. /\ hasJournal' /\ recorded' = recorded
        /\ \A j \in Statements : j # i => journal'[j] = journal[j]
    BY <1>1, <1>2 DEF database
  <1>6. /\ runner' \in [Runner -> RunnerRow] /\ RunnerSound(runner[r])' /\ Holder(r)'
        /\ \A s \in Runner : s # r => runner'[s] = runner[s]
    BY <1>1, <1>4, <1>5, DoneSound
  <1> QED BY <1>1, <1>2, <1>6, Calm

LEMMA AdoptStep ==
  ASSUME IInv, NEW r \in Runner, Adopt(r)
  PROVE  IInv'
  <1> PICK i : i = runner[r].at
    OBVIOUS
  <1>1. /\ runner[r].pc = "step" /\ Kind[i] # "DML" /\ ddlState(i) = "SATISFIED" /\ Done(r)
        /\ journal' = [journal EXCEPT ![i] = "APPLIED"]
        /\ UNCHANGED <<times, hasJournal, recorded, foreign, lock, faults>>
    BY DEF Adopt, AtStep
  <1>2. TypeOK /\ i \in Statements
    BY <1>1, InFile
  <1>3. times[i] = 1 \/ Took(Like[i])
    <2>1. Took(i) \/ Took(Like[i])
      BY <1>1 DEF ddlState
    <2> QED BY <1>2, <2>1 DEF Took, TypeOK
  <1>4. Touched(i)
    BY <1>1, <1>2, <1>3 DEF Touched, TypeOK
  <1>5. /\ times' \in [Statements -> {0, 1}] /\ journal' \in [Statements -> JournalStatus]
        /\ journal'[i] = "APPLIED"
    BY <1>1, <1>2 DEF TypeOK, JournalStatus
  <1> QED BY <1>1, <1>4, <1>5, StatementDone

LEMMA JournalDdlStep ==
  ASSUME IInv, NEW r \in Runner, JournalDdl(r)
  PROVE  IInv'
  <1> PICK i : i = runner[r].at
    OBVIOUS
  <1>1. /\ runner[r].pc = "ddl" /\ times[i] > 0 /\ Done(r)
        /\ journal' = [journal EXCEPT ![i] = "APPLIED"]
        /\ UNCHANGED <<times, hasJournal, recorded, foreign, lock, faults>>
    BY DEF JournalDdl
  <1>2. TypeOK /\ i \in Statements
    BY <1>1, InFile
  <1>3. times[i] = 1
    BY <1>1, <1>2 DEF TypeOK
  <1>4. Touched(i)
    BY <1>1, <1>2, <1>3 DEF Touched, TypeOK
  <1>5. /\ times' \in [Statements -> {0, 1}] /\ journal' \in [Statements -> JournalStatus]
        /\ journal'[i] = "APPLIED"
    BY <1>1, <1>2 DEF TypeOK, JournalStatus
  <1> QED BY <1>1, <1>4, <1>5, StatementDone

\* a data statement has not been executed by anybody
LEMMA FreshDml ==
  ASSUME IInv, NEW r \in Runner, runner[r].pc = "dml"
  PROVE  times[runner[r].at] = 0
  BY InFile DEF FileSound, ByHand, TypeOK

LEMMA CommitDmlStep ==
  ASSUME IInv, NEW r \in Runner, CommitDml(r)
  PROVE  IInv'
  <1> PICK i : i = runner[r].at
    OBVIOUS
  <1>1. /\ runner[r].pc = "dml" /\ TakeEffect(i) /\ Done(r)
        /\ journal' = [journal EXCEPT ![i] = "APPLIED"]
        /\ UNCHANGED <<hasJournal, foreign, lock, faults>>
    BY DEF CommitDml
  <1>2. TypeOK /\ i \in Statements /\ times[i] = 0
    BY <1>1, InFile, FreshDml
  <1>3. times' = [times EXCEPT ![i] = 1]
    BY <1>1, <1>2 DEF TakeEffect
  <1>4. times' \in [Statements -> {0, 1}] /\ journal' \in [Statements -> JournalStatus]
        /\ times'[i] = 1 /\ journal'[i] = "APPLIED"
    BY <1>1, <1>2, <1>3 DEF TypeOK, JournalStatus
  <1>5. \/ recorded' = recorded /\ i # Marker
        \/ i = Marker /\ recorded' = recorded \cup {Baseline}
    BY <1>1, Files DEF TakeEffect
  <1>6. Touched(i)
    BY <1>1, <1>2, <1>3, <1>4, <1>5 DEF Touched, TypeOK
  <1> QED BY <1>1, <1>4, <1>6, StatementDone

LEMMA BeginDmlStep ==
  ASSUME IInv, NEW r \in Runner, BeginDml(r)
  PROVE  IInv'
  <1> DEFINE w == [runner[r] EXCEPT !.pc = "dml"]
             i == runner[r].at
  <1>1. /\ runner[r].pc = "step" /\ runner[r].seen[i] \in {"none", "RUNNING"} /\ Kind[i] = "DML"
        /\ runner' = [runner EXCEPT ![r] = w] /\ UNCHANGED <<database, lock, faults>>
    BY DEF BeginDml, AtStep, Goto
  <1>2. /\ TypeOK /\ i \in Statements /\ lock = r /\ hasJournal /\ FileSound(runner[r])
        /\ faults \in 0..MaxFaults /\ runner[r] \in RunnerRow
    BY <1>1, InFile
  <1>3. journal[i] = "none"
    BY <1>1, <1>2 DEF FileSound, IInv, JournalSound
  <1>4. /\ w \in RunnerRow /\ w.pc = "dml" /\ w.at = i
        /\ w.seen = runner[r].seen /\ w.applied = runner[r].applied
    BY <1>2 DEF RunnerRow, Phase
  <1> HIDE DEF w
  <1>5. /\ runner' \in [Runner -> RunnerRow] /\ runner'[r] = w
        /\ \A s \in Runner : s # r => runner'[s] = runner[s]
    BY <1>1, <1>2, <1>4, Moved
  <1>6. /\ runner'[r].pc = "dml" /\ runner'[r].at = i
        /\ runner'[r].seen = runner[r].seen /\ runner'[r].applied = runner[r].applied
    BY <1>4, <1>5
  <1>7. FileSound(runner[r])'
    <2>1. /\ \A j \in Statements : InPlace(j) => InPlace(j)'
          /\ \A j \in Statements : ByHand(j)' <=> ByHand(j)
      BY <1>1, SameDatabase
    <2>2. ~Represented(FileOf[runner[r].at])'
      BY <1>1, <1>2, <1>6 DEF FileSound, Represented, FileByFile, database
    <2> QED BY <1>1, <1>2, <1>3, <1>6, <2>1, <2>2 DEF FileSound, database
  <1>8. RunnerSound(runner[r])' /\ Holder(r)'
    BY <1>1, <1>2, <1>6, <1>7 DEF RunnerSound, Holder, database
  <1> QED BY <1>1, <1>2, <1>5, <1>8, Calm

LEMMA BeginDdlStep ==
  ASSUME IInv, NEW r \in Runner, BeginDdl(r)
  PROVE  IInv'
  <1> DEFINE w == [runner[r] EXCEPT !.pc = "ddl"]
  <1> PICK i : i = runner[r].at
    OBVIOUS
  <1>1. /\ runner[r].pc = "step" /\ Kind[i] # "DML"
        /\ journal' = [journal EXCEPT ![i] = "RUNNING"]
        /\ runner' = [runner EXCEPT ![r] = w]
        /\ UNCHANGED <<times, hasJournal, recorded, foreign, lock, faults>>
    BY DEF BeginDdl, AtStep, Goto
  <1>2. /\ TypeOK /\ i \in Statements /\ lock = r /\ Holder(r) /\ hasJournal
        /\ FileSound(runner[r]) /\ runner[r] \in RunnerRow
    BY <1>1, InFile
  <1>3. /\ w \in RunnerRow /\ w.pc = "ddl" /\ w.at = i
        /\ w.seen = runner[r].seen /\ w.applied = runner[r].applied
    BY <1>2 DEF RunnerRow, Phase
  <1> HIDE DEF w
  <1>4. /\ runner' \in [Runner -> RunnerRow] /\ runner'[r] = w
        /\ \A s \in Runner : s # r => runner'[s] = runner[s]
    BY <1>1, <1>2, <1>3, Moved
  <1>5. /\ runner'[r].pc = "ddl" /\ runner'[r].at = i
        /\ runner'[r].seen = runner[r].seen /\ runner'[r].applied = runner[r].applied
    BY <1>3, <1>4
  <1>6. /\ journal'[i] = "RUNNING" /\ \A j \in Statements : j # i => journal'[j] = journal[j]
        /\ journal' \in [Statements -> JournalStatus]
    BY <1>1, <1>2 DEF TypeOK, JournalStatus
  <1>7. Touched(i)
    BY <1>1, <1>2, <1>6 DEF Touched
  <1>8. /\ JournalSound' /\ OldSound' /\ RecordSound'
        /\ \A j \in Statements : InPlace(j) => InPlace(j)'
        /\ \A j \in Statements : FileOf[j] = FileOf[i] => ~ByHand(j)'
        /\ ~Represented(FileOf[i])'
    BY <1>1, <1>2, <1>7, TouchedSound DEF TypeOK
  <1>9. \A j \in Statements : i < j => journal'[j] = journal[j]
    BY <1>2, <1>6, Files
  <1>13. ~Represented(FileOf[runner[r].at])'
    BY <1>5, <1>8 DEF Represented, FileByFile
  <1>10. FileSound(runner[r])'
    BY <1>1, <1>2, <1>5, <1>6, <1>8, <1>9, <1>13 DEF FileSound
  <1>11. RunnerSound(runner[r])' /\ Holder(r)'
    BY <1>1, <1>2, <1>5, <1>10 DEF RunnerSound, Holder
  <1>12. TypeOK'
    BY <1>1, <1>2, <1>4, <1>6 DEF TypeOK, RunnerRow
  <1> QED BY <1>1, <1>2, <1>4, <1>8, <1>11, <1>12, Solo

LEMMA ExecuteDdlStep ==
  ASSUME IInv, NEW r \in Runner, ExecuteDdl(r)
  PROVE  IInv'
  <1> PICK i : i = runner[r].at
    OBVIOUS
  <1>1. /\ runner[r].pc = "ddl" /\ times[i] = 0 /\ TakeEffect(i)
        /\ UNCHANGED <<journal, hasJournal, foreign, lock, runner, faults>>
    BY DEF ExecuteDdl
  <1>2. /\ TypeOK /\ i \in Statements /\ lock = r /\ Holder(r) /\ hasJournal
        /\ FileSound(runner[r]) /\ runner[r] \in RunnerRow
    BY <1>1, InFile
  <1>3. journal[i] = "RUNNING" /\ Kind[i] # "DML" /\ i # Marker
    BY <1>1, <1>2, Files DEF FileSound
  <1>4. times' = [times EXCEPT ![i] = 1] /\ recorded' = recorded
    BY <1>1, <1>2, <1>3 DEF TakeEffect
  <1>5. /\ times' \in [Statements -> {0, 1}] /\ times'[i] = 1
        /\ \A j \in Statements : j # i => times'[j] = times[j]
    BY <1>2, <1>4 DEF TypeOK
  <1>6. Touched(i)
    BY <1>1, <1>2, <1>3, <1>4, <1>5 DEF Touched
  <1>7. /\ JournalSound' /\ OldSound' /\ RecordSound'
        /\ \A j \in Statements : times[j] = 1 => times'[j] = 1
        /\ \A j \in Statements : InPlace(j) => InPlace(j)'
        /\ \A j \in Statements : FileOf[j] = FileOf[i] => ~ByHand(j)'
        /\ ~Represented(FileOf[i])'
    BY <1>1, <1>5, <1>6, TouchedSound
  <1>12. ~Represented(FileOf[runner[r].at])'
    BY <1>1, <1>7 DEF Represented, FileByFile
  <1>8. FileSound(runner[r])'
    BY <1>1, <1>2, <1>3, <1>4, <1>7, <1>12 DEF FileSound
  <1>9. RunnerSound(runner[r])' /\ Holder(r)'
    BY <1>1, <1>2, <1>8 DEF RunnerSound, Holder
  <1>10. TypeOK'
    BY <1>1, <1>2, <1>4, <1>5 DEF TypeOK
  <1>11. \A s \in Runner : s # r => runner'[s] = runner[s]
    BY <1>1
  <1> QED BY <1>1, <1>2, <1>4, <1>7, <1>9, <1>10, <1>11, Solo

LEMMA FailDdlStep ==
  ASSUME IInv, NEW r \in Runner, FailDdl(r)
  PROVE  IInv'
  <1> PICK i : i = runner[r].at
    OBVIOUS
  <1>1. /\ runner[r].pc = "ddl" /\ journal' = [journal EXCEPT ![i] = "FAILED_PARTIAL"]
        /\ runner' = [runner EXCEPT ![r] = Off] /\ lock' = None
        /\ faults < MaxFaults /\ faults' = faults + 1
        /\ UNCHANGED <<times, hasJournal, recorded, foreign>>
    BY DEF FailDdl, Throw
  <1>2. /\ TypeOK /\ i \in Statements /\ lock = r /\ Holder(r)
        /\ FileSound(runner[r]) /\ runner[r] \in RunnerRow
    BY <1>1, InFile
  <1>3. Kind[i] # "DML"
    BY <1>1, <1>2 DEF FileSound
  <1>4. /\ runner' \in [Runner -> RunnerRow] /\ runner'[r] = Off
        /\ \A s \in Runner : s # r => runner'[s] = runner[s]
    BY <1>1, <1>2, OffRow, Moved
  <1>5. Touched(i)
    BY <1>1, <1>2, <1>3 DEF Touched, TypeOK
  <1>6. JournalSound' /\ OldSound' /\ RecordSound'
    BY <1>1, <1>2, <1>5, TouchedSound DEF TypeOK
  <1>7. RunnerSound(runner[r])' /\ ~Holder(r)'
    BY <1>4 DEF RunnerSound, Holder, Off
  <1>8. journal' \in [Statements -> JournalStatus] /\ faults' \in 0..MaxFaults
    BY <1>1, <1>2, MigrationsAssumption DEF TypeOK, JournalStatus
  <1>9. TypeOK'
    BY <1>1, <1>2, <1>4, <1>8 DEF TypeOK, RunnerRow
  <1> QED BY <1>1, <1>2, <1>4, <1>6, <1>7, <1>9, Solo

LEMMA RefuseStep ==
  ASSUME IInv, NEW r \in Runner, Refuse(r)
  PROVE  IInv'
  <1>1. Holder(r) /\ faults' \in 0..MaxFaults
    BY DEF Refuse, Holder, IInv, TypeOK
  <1> QED BY <1>1, ThrowStep DEF Refuse, Throw

LEMMA FailDmlStep ==
  ASSUME IInv, NEW r \in Runner, FailDml(r)
  PROVE  IInv'
  <1>1. Holder(r) /\ faults' \in 0..MaxFaults
    BY MigrationsAssumption DEF FailDml, Holder, IInv, TypeOK
  <1> QED BY <1>1, ThrowStep DEF FailDml, Throw

\* at the end of a script every statement up to its end is in effect
LEMMA FileComplete ==
  ASSUME IInv, NEW r \in Runner, runner[r].pc = "record"
  PROVE  Complete(FileOf[runner[r].at]) /\ Complete(Baseline)
  <1> DEFINE i == runner[r].at
  <1>1. i \in Statements /\ FileSound(runner[r])
    BY InFile
  <1>2. LastOf(i) /\ InPlace(i) /\ \A j \in Statements : j < i => InPlace(j)
    BY <1>1 DEF FileSound
  <1> HIDE DEF i
  <1>3. \A j \in Statements : FileOf[j] <= FileOf[i] => j <= i
    BY <1>1, <1>2, LastOfFile
  <1>4. \A j \in Statements : FileOf[j] <= FileOf[i] => InPlace(j)
    BY <1>1, <1>2, <1>3, Files
  <1>5. Complete(FileOf[i])
    BY <1>4 DEF Complete
  <1>6. Complete(Baseline)
    BY <1>1, <1>4, Files DEF Complete
  <1> QED BY <1>5, <1>6 DEF i

\* recording a file does not change how the database was made
LEMMA RecordedOld ==
  ASSUME IInv, NEW r \in Runner, runner[r].pc = "record",
         NEW v, v = FileOf[runner[r].at], v # Baseline, recorded' = recorded \cup {v}
  PROVE  FileByFile' <=> FileByFile
  <1>1. /\ runner[r].at \in Statements /\ FileSound(runner[r])
        /\ v \in Nat /\ Complete(Baseline) /\ Baseline < v
    BY InFile, FileComplete, Files
  <1>2. CASE v <= Base
    <2>1. Baseline \notin recorded
      BY <1>1, <1>2 DEF FileSound, Represented
    <2>2. InPlace(Marker) /\ ~Took(Like[Marker])
      BY <1>1, Files, NotTaken DEF Complete
    <2>3. FileByFile
      BY <2>1, <2>2, Files DEF InPlace, Represented, IInv, RecordSound
    <2>4. FileByFile'
      BY <2>3 DEF FileByFile
    <2> QED BY <2>3, <2>4
  <1>3. CASE ~(v <= Base)
    BY <1>3 DEF FileByFile
  <1> QED BY <1>2, <1>3

LEMMA RecordStep ==
  ASSUME IInv, NEW r \in Runner, Record(r)
  PROVE  IInv'
  <1> PICK v : v = FileOf[runner[r].at]
    OBVIOUS
  <1>1. runner[r].pc = "record" /\ UNCHANGED <<times, journal, hasJournal, foreign, faults>>
    BY DEF Record
  <1>2. /\ TypeOK /\ lock = r /\ Holder(r) /\ hasJournal /\ faults \in 0..MaxFaults
        /\ FileSound(runner[r]) /\ runner[r] \in RunnerRow /\ runner[r].at \in Statements
    BY <1>1, InFile
  <1>3. Complete(v) /\ Complete(Baseline) /\ v \in Version
    BY <1>1, <1>2, FileComplete, Files
  <1>6. CASE Throw(r) /\ UNCHANGED recorded
    BY <1>1, <1>2, <1>6, ThrowStep DEF Throw, database
  <1>4. CASE v = Baseline /\ Goto(r, "versions") /\ UNCHANGED <<recorded, lock>>
    <2> DEFINE w == [runner[r] EXCEPT !.pc = "versions"]
    <2>1. w \in RunnerRow /\ w.pc = "versions"
      BY <1>2 DEF RunnerRow, Phase
    <2>2. runner' = [runner EXCEPT ![r] = w]
      BY <1>4 DEF Goto
    <2> HIDE DEF w
    <2>3. /\ runner' \in [Runner -> RunnerRow] /\ runner'[r] = w
          /\ \A s \in Runner : s # r => runner'[s] = runner[s]
      BY <1>2, <2>1, <2>2, Moved
    <2>4. runner'[r].pc = "versions"
      BY <2>1, <2>3
    <2>6. UNCHANGED database
      BY <1>1, <1>4 DEF database
    <2>5. RunnerSound(runner[r])'
      BY <1>1, <1>2, <1>3, <2>4, <2>6, SameDatabase, Files DEF RunnerSound
    <2> QED BY <1>1, <1>2, <1>4, <2>3, <2>5, Calm DEF database
  <1>5. CASE /\ v # Baseline
             /\ recorded' = recorded \cup {v}
             /\ runner' = [runner EXCEPT ![r].pc = "pick", ![r].applied = @ \cup {v}]
             /\ UNCHANGED lock
    <2> DEFINE w == [runner[r] EXCEPT !.pc = "pick", !.applied = @ \cup {v}]
    <2>1. w \in RunnerRow /\ w.pc = "pick" /\ w.applied = runner[r].applied \cup {v}
      BY <1>2, <1>3 DEF RunnerRow, Phase
    <2>2. runner' = [runner EXCEPT ![r] = w]
      BY <1>5
    <2> HIDE DEF w
    <2>3. /\ runner' \in [Runner -> RunnerRow] /\ runner'[r] = w
          /\ \A s \in Runner : s # r => runner'[s] = runner[s]
      BY <1>2, <2>1, <2>2, Moved
    <2>4. runner[r].applied = recorded
      BY <1>2, <1>5 DEF FileSound
    <2>5. runner'[r].pc = "pick" /\ runner'[r].applied = recorded'
      BY <1>5, <2>1, <2>3, <2>4
    <2>9. TypeOK'
      BY <1>1, <1>2, <1>3, <1>5, <2>3 DEF TypeOK, RunnerRow
    <2>10. \A i \in Statements : InPlace(i) => InPlace(i)'
      BY <1>1, <1>2, <1>5, StaysInPlace DEF TypeOK
    <2>11. Complete(v)' /\ Complete(Baseline)'
      BY <1>3, <2>10 DEF Complete
    <2>12. FileByFile' <=> FileByFile
      BY <1>1, <1>5, RecordedOld
    <2>13. \A i \in Statements : ByHand(i)' <=> ByHand(i)
      BY <1>1 DEF ByHand
    <2>6. RunnerSound(runner[r])' /\ Holder(r)'
      BY <1>1, <1>2, <2>5, <2>11 DEF RunnerSound, Holder
    <2>7. JournalSound' /\ OldSound'
      BY <1>1, <1>5, <2>10, <2>12, <2>13 DEF IInv, JournalSound, OldSound
    <2>8. RecordSound'
      <3>1. \A u \in recorded : u # Baseline => Complete(u)'
        BY <2>10 DEF IInv, RecordSound, Complete
      <3> QED BY <1>1, <1>5, <2>11, <3>1 DEF IInv, RecordSound
    <2> QED BY <1>1, <1>2, <1>5, <2>3, <2>6, <2>7, <2>8, <2>9, Solo
  <1> QED BY <1>4, <1>5, <1>6 DEF Record

LEMMA Stutter ==
  ASSUME IInv, UNCHANGED vars
  PROVE  IInv'
  <1>1. TypeOK' /\ Mutex'
    BY DEF IInv, vars, database, TypeOK, Mutex, Holder
  <1>2. JournalSound' /\ OldSound' /\ RecordSound'
    BY SameFacts DEF IInv, vars, database
  <1>3. ASSUME NEW r \in Runner PROVE RunnerSound(runner[r])'
    <2>1. TypeOK /\ RunnerSound(runner[r]) /\ runner'[r] = runner[r] /\ UNCHANGED database
      BY DEF IInv, vars, database
    <2> QED BY <2>1, SameRow
  <1> QED BY <1>1, <1>2, <1>3 DEF IInv

(***************************************************************************)
(* The databases a server may start on: without any version, made by the   *)
(* old files, or made from a baseline.                                     *)
(***************************************************************************)
LEMMA InitialVersions ==
  ASSUME Init
  PROVE  /\ recorded \subseteq Version
         /\ \A i \in Statements : times[i] = 1 <=> FileOf[i] \in recorded \/ (i = 1 /\ recorded # {})
         /\ times \in [Statements -> {0, 1}]
         /\ \A v \in recorded : v # Baseline => Complete(v)
         /\ \/ recorded = {}
            \/ FileByFile /\ Baseline \notin recorded
            \/ Baseline \in recorded /\ ~FileByFile
  <1>1. /\ \A i \in Statements : times[i] = 1 <=> FileOf[i] \in recorded \/ (i = 1 /\ recorded # {})
        /\ times \in [Statements -> {0, 1}]
    BY DEF Init
  <1>2. CASE recorded = {}
    BY <1>1, <1>2
  <1>3. ASSUME NEW v \in Version, FileByFile,
               recorded = {u \in Version : Baseline < u /\ u <= v}
        PROVE  /\ recorded \subseteq Version /\ Baseline \notin recorded
               /\ \A u \in recorded : Complete(u)
    <2>1. recorded \subseteq Version /\ Baseline \notin recorded
      BY <1>3, Files
    <2>2. ASSUME NEW u \in recorded, NEW i \in Statements, FileOf[i] <= u PROVE InPlace(i)
      <3>1. u \in Nat /\ u <= v /\ v \in Nat /\ FileOf[i] \in Nat /\ FileOf[i] \in Version
        BY <1>3, <2>2, Files
      <3>2. CASE FileOf[i] = Baseline
        BY <1>3, <3>2 DEF InPlace, Represented
      <3>3. CASE FileOf[i] # Baseline
        <4>1. Baseline < FileOf[i] /\ FileOf[i] <= v
          BY <2>2, <3>1, <3>3, Files
        <4>2. FileOf[i] \in recorded
          BY <1>3, <3>1, <4>1
        <4> QED BY <1>1, <4>2 DEF InPlace
      <3> QED BY <3>2, <3>3
    <2> QED BY <2>1, <2>2 DEF Complete
  <1>4. ASSUME NEW v \in Version,
               recorded = {u \in Version : u = Baseline \/ (Base < u /\ u <= v)}
        PROVE  /\ recorded \subseteq Version /\ Baseline \in recorded /\ ~FileByFile
               /\ \A u \in recorded : Complete(u)
    <2>1. recorded \subseteq Version /\ Baseline \in recorded
      BY <1>4, Files
    <2>2. ~FileByFile
      BY <1>4, Files, BaseVersion DEF FileByFile
    <2>3. ASSUME NEW u \in recorded, NEW i \in Statements, FileOf[i] <= u PROVE InPlace(i)
      <3>1. /\ u \in Nat /\ v \in Nat /\ (u = Baseline \/ u <= v) /\ FileOf[i] \in Nat
            /\ FileOf[i] \in Version /\ Base \in Nat
        BY <1>4, <2>3, Files, BaseVersion
      <3>2. CASE FileOf[i] = Baseline \/ Base < FileOf[i]
        <4>1. FileOf[i] = Baseline \/ FileOf[i] <= v
          BY <2>3, <3>1, Files
        <4>2. FileOf[i] \in recorded
          BY <1>4, <3>1, <3>2, <4>1
        <4> QED BY <1>1, <4>2 DEF InPlace
      <3>3. CASE Baseline < FileOf[i] /\ FileOf[i] <= Base
        BY <2>1, <3>3 DEF InPlace, Represented
      <3> QED BY <3>1, <3>2, <3>3, Files
    <2> QED BY <2>1, <2>2, <2>3 DEF Complete
  <1> QED BY <1>1, <1>2, <1>3, <1>4 DEF Init

LEMMA Initially == Init => IInv
  <1> SUFFICES ASSUME Init PROVE IInv
    OBVIOUS
  <1>1. /\ recorded \subseteq Version
        /\ \A i \in Statements : times[i] = 1 <=> FileOf[i] \in recorded \/ (i = 1 /\ recorded # {})
        /\ times \in [Statements -> {0, 1}]
        /\ \A v \in recorded : v # Baseline => Complete(v)
        /\ \/ recorded = {}
           \/ FileByFile /\ Baseline \notin recorded
           \/ Baseline \in recorded /\ ~FileByFile
    BY InitialVersions
  <1>2. /\ \A i \in Statements : journal[i] = "none"
        /\ journal \in [Statements -> JournalStatus]
    BY DEF Init, JournalStatus
  <1>3. \A r \in Runner : runner[r] = Off
    BY DEF Init
  <1>4. TypeOK
    <2>1. runner \in [Runner -> RunnerRow]
      BY OffRow DEF Init
    <2>2. hasJournal \in BOOLEAN /\ foreign \in BOOLEAN
      BY DEF Init
    <2>3. lock \in Runner \cup {None} /\ faults \in 0..MaxFaults
      BY MigrationsAssumption DEF Init
    <2> QED BY <1>1, <1>2, <2>1, <2>2, <2>3 DEF TypeOK, RunnerRow
  <1>5. Mutex
    BY <1>3 DEF Mutex, Holder, Off
  <1>6. JournalSound
    <2> SUFFICES ASSUME NEW i \in Statements, ByHand(i)
                 PROVE  \/ /\ FileOf[i] \in recorded
                           /\ \A j \in Statements : FileOf[j] = FileOf[i] => ByHand(j)
                        \/ FileByFile /\ FileOf[i] = Baseline
      BY <1>2 DEF JournalSound
    <2>1. FileOf[i] \in recorded \/ (i = 1 /\ recorded # {})
      BY <1>1 DEF ByHand
    <2>2. CASE FileOf[i] \in recorded
      BY <1>1, <1>2, <2>2 DEF ByHand
    <2>3. CASE FileOf[i] \notin recorded
      BY <1>1, <2>1, <2>3, Files
    <2> QED BY <2>2, <2>3
  <1>7. RecordSound
    <2>1. Marker # 1
      BY MarkerNotFirst
    <2> QED BY <1>1, <2>1, Files DEF RecordSound
  <1>9. OldSound
    <2>1. FileByFile => recorded # {}
      BY DEF FileByFile
    <2> QED BY <1>1, <1>2, <2>1, Files DEF OldSound
  <1>8. ASSUME NEW r \in Runner PROVE RunnerSound(runner[r])
    <2>1. runner[r].pc = "off"
      BY <1>3 DEF Off
    <2> QED BY <2>1 DEF RunnerSound
  <1> QED BY <1>4, <1>5, <1>6, <1>7, <1>8, <1>9 DEF IInv

LEMMA Inductive == IInv /\ [Next]_vars => IInv'
  <1> SUFFICES ASSUME IInv, [Next]_vars PROVE IInv'
    OBVIOUS
  <1>1. ASSUME NEW r \in Runner, Statement(r) PROVE IInv'
    BY <1>1, SkipAppliedStep, RefuseStep, AdoptStep, BeginDdlStep, ExecuteDdlStep,
       JournalDdlStep, BeginDmlStep, CommitDmlStep DEF Statement
  <1>2. ASSUME NEW r \in Runner, Advance(r) PROVE IInv'
    BY <1>1, <1>2, StartStep, ClassifyStep, EnsureJournalStep, CheckBaselineStep,
       ReadVersionsStep, PickFileStep, RecordStep, ServeStep DEF Advance
  <1>3. ASSUME NEW r \in Runner, Fault(r) PROVE IInv'
    BY <1>3, FailDdlStep, FailDmlStep, CrashStep DEF Fault
  <1> QED BY <1>2, <1>3, Stutter DEF Next, AllServe

-----------------------------------------------------------------------------
(* Theorems                                                                *)

(***************************************************************************)
(* IInv always holds: what the runner concludes from lock, journal, schema *)
(* and recorded versions is true, whatever was interrupted before.         *)
(***************************************************************************)
THEOREM Invariance == Spec => []IInv
  BY Initially, Inductive, PTL DEF Spec

\* Tables, journal, lock and containers keep their types; in particular no
\* statement takes effect twice (times is 0 or 1).
THEOREM TypeCorrect == Spec => []TypeOK
  <1>1. IInv => TypeOK
    BY DEF IInv
  <1> QED BY <1>1, Invariance, PTL

(***************************************************************************)
(* A server only listens when every version is recorded or represented by  *)
(* the way the database was made, and every statement is in effect, or     *)
(* belongs to a represented version, or was taken for done because of an   *)
(* earlier one that ddlState does not tell from it (056, 058).             *)
(***************************************************************************)
THEOREM Serving == Spec => []ServesComplete
  <1>1. IInv => ServesComplete
    BY DEF IInv, RunnerSound, AllDone, ServesComplete
  <1> QED BY <1>1, Invariance, PTL

\* the abstract and the detailed view of what is in place
LEMMA SameView ==
  ASSUME TypeOK
  PROVE  /\ \A v \in Nat : Ordered!Represented(v) <=> Represented(v)
         /\ \A i \in Statements : Ordered!InPlace(i) <=> InPlace(i)
  <1>1. ASSUME NEW v \in Nat PROVE Ordered!Represented(v) <=> Represented(v)
    <2>1. Baseline = 0
      BY Files
    <2> QED BY <1>1, <2>1, BaseVersion DEF Ordered!Represented, Represented, FileByFile
  <1>2. ASSUME NEW i \in Statements PROVE Ordered!InPlace(i) <=> InPlace(i)
    <2>1. Took(Like[i]) <=> Like[i] \in Statements /\ times[Like[i]] = 1
      BY DEF Took, TypeOK
    <2>2. Ordered!Represented(FileOf[i]) <=> Represented(FileOf[i])
      BY <1>1, Files
    <2> QED BY <2>1, <2>2 DEF Ordered!InPlace, InPlace
  <1> QED BY <1>1, <1>2

LEMMA UpgradeInit == Init => Ordered!Init
  <1> SUFFICES ASSUME Init PROVE Ordered!Init
    OBVIOUS
  <1>1. TypeOK
    BY Initially DEF IInv
  <1>2. /\ recorded \subseteq Version
        /\ \A i \in Statements : times[i] = 1 <=> FileOf[i] \in recorded \/ (i = 1 /\ recorded # {})
        /\ \A v \in recorded : v # Baseline => Complete(v)
    BY InitialVersions
  <1>3. \A v \in recorded : Complete(v)
    <2>1. ASSUME Baseline \in recorded, NEW i \in Statements, FileOf[i] <= Baseline PROVE InPlace(i)
      <3>1. FileOf[i] = Baseline
        BY <2>1, Files
      <3> QED BY <1>2, <2>1, <3>1 DEF InPlace
    <2>2. Baseline \in recorded => Complete(Baseline)
      BY <2>1 DEF Complete
    <2> QED BY <1>2, <2>2
  <1>4. ASSUME NEW i \in Statements, NEW j \in Statements, i < j, times[j] = 1 PROVE InPlace(i)
    <2>1. FileOf[j] \in recorded /\ FileOf[i] <= FileOf[j]
      BY <1>2, <1>4, Files
    <2> QED BY <1>3, <2>1 DEF Complete
  <1>5. /\ \A v \in recorded : Ordered!Complete(v)
        /\ \A i, j \in Statements : i < j /\ times[j] = 1 => Ordered!InPlace(i)
    BY <1>1, <1>3, <1>4, SameView DEF Ordered!Complete, Complete
  <1> QED BY <1>1, <1>2, <1>5 DEF Ordered!Init, Version, TypeOK

\* a statement of a journalled run
LEMMA Applied ==
  ASSUME IInv, NEW r \in Runner, runner[r].pc \in {"ddl", "dml"},
         NEW i, i = runner[r].at, times[i] = 0, TakeEffect(i)
  PROVE  Ordered!Next
  <1>1. TypeOK /\ i \in Statements /\ FileSound(runner[r]) /\ FileOf[i] \in Nat
    BY InFile, Files
  <1>2. ~Represented(FileOf[i]) /\ \A j \in Statements : j < i => InPlace(j)
    BY <1>1 DEF FileSound
  <1>3. ~Ordered!Represented(FileOf[i]) /\ \A j \in Statements : j < i => Ordered!InPlace(j)
    BY <1>1, <1>2, SameView
  <1>4. times' = [times EXCEPT ![i] = 1]
    BY DEF TakeEffect
  <1>5. recorded' = IF i = Marker THEN recorded \cup {FileOf[i]} ELSE recorded
    BY DEF TakeEffect
  <1>6. Ordered!Apply(i)
    BY <1>3, <1>4, <1>5 DEF Ordered!Apply
  <1> QED BY <1>1, <1>6 DEF Ordered!Next

LEMMA Recorded ==
  ASSUME IInv, NEW r \in Runner, Record(r)
  PROVE  Ordered!Next \/ UNCHANGED <<times, recorded>>
  <1> PICK v : v = FileOf[runner[r].at]
    OBVIOUS
  <1>1. runner[r].pc = "record" /\ UNCHANGED times
    BY DEF Record
  <1>2. /\ TypeOK /\ runner[r].at \in Statements /\ FileSound(runner[r]) /\ Complete(v)
        /\ v \in Nat
    BY <1>1, InFile, FileComplete, Files
  <1>3. CASE UNCHANGED recorded
    BY <1>1, <1>3
  <1>4. CASE recorded' = recorded \cup {v}
    <2>1. ~Represented(v)
      BY <1>2 DEF FileSound
    <2>2. Ordered!Complete(v) /\ ~Ordered!Represented(v)
      BY <1>2, <2>1, SameView DEF Ordered!Complete, Complete
    <2>3. Ordered!Record(v)
      BY <1>1, <1>4, <2>2 DEF Ordered!Record
    <2>4. v \in {FileOf[i] : i \in Statements}
      BY <1>2
    <2> QED BY <2>3, <2>4 DEF Ordered!Next
  <1> QED BY <1>3, <1>4 DEF Record

LEMMA UpgradeStep == IInv /\ [Next]_vars => [Ordered!Next]_<<times, recorded>>
  <1> SUFFICES ASSUME IInv, [Next]_vars PROVE Ordered!Next \/ UNCHANGED <<times, recorded>>
    OBVIOUS
  <1>1. ASSUME NEW r \in Runner, ExecuteDdl(r) PROVE Ordered!Next
    BY <1>1, Applied DEF ExecuteDdl
  <1>2. ASSUME NEW r \in Runner, CommitDml(r) PROVE Ordered!Next
    BY <1>2, Applied, FreshDml DEF CommitDml
  <1>3. ASSUME NEW r \in Runner, Statement(r) PROVE Ordered!Next \/ UNCHANGED <<times, recorded>>
    BY <1>1, <1>2, <1>3 DEF Statement, SkipApplied, Refuse, Adopt, BeginDdl, JournalDdl, BeginDml,
       database
  <1>4. ASSUME NEW r \in Runner, Advance(r) PROVE Ordered!Next \/ UNCHANGED <<times, recorded>>
    BY <1>3, <1>4, Recorded DEF Advance, Start, Classify, EnsureJournal, CheckBaseline,
       ReadVersions, PickFile, Serve, database
  <1>5. ASSUME NEW r \in Runner, Fault(r) PROVE UNCHANGED <<times, recorded>>
    BY <1>5 DEF Fault, FailDdl, FailDml, Crash, database
  <1> QED BY <1>4, <1>5 DEF Next, AllServe, vars, database

(***************************************************************************)
(* Containers that start together, crash and are restarted bring the       *)
(* database forward as one uninterrupted upgrade would: every statement    *)
(* once, in the order of the files, a version recorded when its file and   *)
(* the earlier ones are complete; but for the versions the database        *)
(* represents, and the statements an earlier one is taken for.             *)
(***************************************************************************)
THEOREM UpgradeImplemented == Spec => ImplementsUpgrade
  BY UpgradeInit, UpgradeStep, Invariance, PTL DEF Spec, ImplementsUpgrade, Ordered!Spec

=============================================================================
