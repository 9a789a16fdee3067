------------------------------- MODULE Upgrade --------------------------------
(***************************************************************************)
(* What an upgrade of the database promises, whoever runs it and however   *)
(* often it is interrupted: every statement of the migration files takes   *)
(* effect once, in the order of the files, and a version is recorded once  *)
(* its file, and every earlier one, is complete. Left out are the files    *)
(* that the way the database was made represents (the old files after the  *)
(* baseline, the baseline after the old files), and a statement may be left*)
(* out that an earlier one is taken for.                                   *)
(***************************************************************************)
EXTENDS Integers

CONSTANTS
    Statements,   \* 1 .. number of statements, all files in order
    FileOf,       \* the version each statement belongs to
    Like,         \* the earlier statement each one may be taken for, or 0
    Baseline,     \* the version of the baseline
    Base,         \* the last version the baseline stands for
    Marker        \* the statement of the baseline that records its version

VARIABLES
    times,        \* how often each statement took effect
    recorded      \* versions in schema_migrations

\* what version v did is there without its statements
Represented(v) ==
    \/ v # Baseline /\ v <= Base /\ Baseline \in recorded
    \/ v = Baseline /\ \E u \in recorded : Baseline < u /\ u <= Base

InPlace(i) ==
    \/ times[i] = 1
    \/ Represented(FileOf[i])
    \/ Like[i] \in Statements /\ times[Like[i]] = 1

Complete(v) == \A i \in Statements : FileOf[i] <= v => InPlace(i)

Init ==
    /\ times \in [Statements -> {0, 1}]
    /\ \A i, j \in Statements : i < j /\ times[j] = 1 => InPlace(i)
    /\ recorded \subseteq {FileOf[i] : i \in Statements}
    /\ \A v \in recorded : Complete(v)

Apply(i) ==
    /\ times[i] = 0 /\ ~Represented(FileOf[i])
    /\ \A j \in Statements : j < i => InPlace(j)
    /\ times' = [times EXCEPT ![i] = 1]
    /\ recorded' = IF i = Marker THEN recorded \union {FileOf[i]} ELSE recorded

Record(v) ==
    /\ Complete(v) /\ ~Represented(v)
    /\ recorded' = recorded \union {v}
    /\ UNCHANGED times

Next ==
    \/ \E i \in Statements : Apply(i)
    \/ \E v \in {FileOf[i] : i \in Statements} : Record(v)

Spec == Init /\ [][Next]_<<times, recorded>>
===============================================================================
