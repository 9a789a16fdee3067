---------------------------- MODULE MCMigrations ------------------------------
(***************************************************************************)
(* As few statements as hold every kind of the shipped files: a baseline of*)
(* three statements; old files with, in their order, a statement the runner*)
(* cannot recognise (049), one it takes an earlier one for (056) and one   *)
(* that is changed later in its file (064); and two files after the        *)
(* baseline, with a MODIFY, data and, as a future file may, an index       *)
(* replaced under its name.                                                *)
(***************************************************************************)
EXTENDS Migrations

CONSTANTS c1, c2

MCKind == <<"DDL", "DML", "DML", "DDL", "OPAQUE", "DDL", "DDL", "MODIFY",
            "MODIFY", "DML", "DDL", "DDL", "DML">>
MCFileOf == <<0, 0, 0, 1, 2, 3, 4, 4, 5, 5, 6, 6, 6>>
MCLike == <<0, 0, 0, 0, 0, 4, 0, 0, 0, 0, 0, 11, 0>>
MCUndone == <<0, 0, 0, 0, 0, 0, 8, 0, 0, 0, 0, 0, 0>>
===============================================================================
