--------------------------- MODULE SchemaUpgrades ---------------------------
(***************************************************************************)
(* Starting the backend on whatever database it finds: init_db and         *)
(* _apply_schema_upgrades of app/database.py.                              *)
(*                                                                         *)
(* A release of the code knows the first so many upgrades of an            *)
(* append-only list, and its models have the columns these add.  The       *)
(* process may stop between any two statements, and the next start may be  *)
(* of a newer or an older release.  One process at a time, as              *)
(* docs/deployment.md requires.                                            *)
(*                                                                         *)
(* A DDL statement is durable at once, with all that was pending, where    *)
(* the database commits implicitly (MySQL), and in SQLite as long as no    *)
(* transaction is open: its driver opens one at the first INSERT.          *)
(***************************************************************************)
EXTENDS Integers, Sequences

CONSTANTS
  Tables,      \* the tables of the models
  Upgrades,    \* SCHEMA_UPGRADES: upgrade i adds column i to Upgrades[i]
  MaxStops     \* bound: how often the process stops

ASSUME SchemaAssumption == Upgrades \in Seq(Tables) /\ MaxStops \in Nat

Versions == 1 .. Len(Upgrades)

VARIABLES
  exists, columns, recorded,   \* the tables, the upgraded columns there are,
                               \* and schema_upgrades, as the connection has them
  kept,                        \* the same as a stop would leave them
  pending,                     \* a transaction is open
  implicit,                    \* the database commits before and after DDL
  phase,                       \* where the start is, see Phases
  release,                     \* how many upgrades the running code knows
  next,                        \* the upgrade the loop is at
  stops

schema_vars == <<exists, columns, recorded, kept, pending, implicit, phase,
                 release, next, stops>>

(* create: in create_all.  check, alter, record: in the loop over the      *)
(* upgrades.  failed: a statement raised, the application does not start.  *)
Phases == {"down", "create", "check", "alter", "record", "serving", "failed"}

ColumnsOf(t, r) == {i \in 1 .. r : Upgrades[i] = t}
Database(e, c, x) == [exists |-> e, columns |-> c, recorded |-> x]

(* A DDL statement has changed the tables to e and the columns to c.       *)
Ddl(e, c) ==
  /\ exists' = e
  /\ columns' = c
  /\ IF implicit \/ ~pending
       THEN kept' = Database(e, c, recorded) /\ pending' = FALSE
       ELSE UNCHANGED <<kept, pending>>
  /\ UNCHANGED recorded

(* Wrong on purpose: starts before the first upgrade.                      *)
BootFromZero(r) ==
  /\ phase = "down"
  /\ phase' = "create"
  /\ release' = r
  /\ next' = 0
  /\ UNCHANGED <<exists, columns, recorded, kept, pending, implicit, stops>>

Boot(r) ==
  /\ phase = "down"
  /\ phase' = "create"
  /\ release' = r
  /\ next' = 1
  /\ UNCHANGED <<exists, columns, recorded, kept, pending, implicit, stops>>

(* create_all creates the tables that are missing and alters none.         *)
CreateTable(t) ==
  /\ phase = "create"
  /\ t \notin exists
  /\ Ddl(exists \cup {t}, columns \cup ColumnsOf(t, release))
  /\ UNCHANGED <<implicit, phase, release, next, stops>>

Created ==
  /\ phase = "create"
  /\ exists = Tables
  /\ phase' = "check"
  /\ UNCHANGED <<exists, columns, recorded, kept, pending, implicit, release, next, stops>>

(* Wrong on purpose: takes create_all to have brought every table up.      *)
CheckTrusting ==
  /\ phase = "check" /\ next <= release
  /\ IF next \in recorded
       THEN next' = next + 1 /\ UNCHANGED phase
       ELSE phase' = "record" /\ UNCHANGED next
  /\ UNCHANGED <<exists, columns, recorded, kept, pending, implicit, release, stops>>

(* Wrong on purpose: the column is not looked for.                         *)
CheckRecordOnly ==
  /\ phase = "check" /\ next <= release
  /\ IF next \in recorded
       THEN next' = next + 1 /\ UNCHANGED phase
       ELSE phase' = "alter" /\ UNCHANGED next
  /\ UNCHANGED <<exists, columns, recorded, kept, pending, implicit, release, stops>>

(* Wrong on purpose: break instead of continue.                            *)
CheckBreaking ==
  /\ phase = "check" /\ next <= release
  /\ IF next \in recorded
       THEN next' = release + 1 /\ UNCHANGED phase
       ELSE /\ phase' = IF next \in columns THEN "record" ELSE "alter"
            /\ UNCHANGED next
  /\ UNCHANGED <<exists, columns, recorded, kept, pending, implicit, release, stops>>

(* A recorded upgrade is passed over; otherwise its column is looked for.  *)
(* The inspector caches the columns it has read, and is cleared after      *)
(* every ALTER.                                                            *)
Check ==
  /\ phase = "check" /\ next <= release
  /\ IF next \in recorded
       THEN next' = next + 1 /\ UNCHANGED phase
       ELSE /\ phase' = IF next \in columns THEN "record" ELSE "alter"
            /\ UNCHANGED next
  /\ UNCHANGED <<exists, columns, recorded, kept, pending, implicit, release, stops>>

(* ADD COLUMN fails on a column that is there.                             *)
Alter ==
  /\ phase = "alter"
  /\ IF next \in columns
       THEN /\ phase' = "failed"
            /\ UNCHANGED <<exists, columns, recorded, kept, pending>>
       ELSE phase' = "record" /\ Ddl(exists, columns \cup {next})
  /\ UNCHANGED <<implicit, release, next, stops>>

(* The version is the primary key of schema_upgrades.                      *)
Record ==
  /\ phase = "record"
  /\ IF next \in recorded
       THEN phase' = "failed" /\ UNCHANGED <<recorded, pending, next>>
       ELSE /\ phase' = "check"
            /\ recorded' = recorded \cup {next}
            /\ pending' = TRUE
            /\ next' = next + 1
  /\ UNCHANGED <<exists, columns, kept, implicit, release, stops>>

(* The end of engine.begin(): COMMIT, and the application serves.          *)
Finish ==
  /\ phase = "check" /\ next > release
  /\ phase' = "serving"
  /\ kept' = Database(exists, columns, recorded)
  /\ pending' = FALSE
  /\ UNCHANGED <<exists, columns, recorded, implicit, release, next, stops>>

(* The process stops, and an open transaction is rolled back.              *)
Stop ==
  /\ phase # "down" /\ stops < MaxStops
  /\ stops' = stops + 1
  /\ phase' = "down"
  /\ exists' = kept.exists /\ columns' = kept.columns /\ recorded' = kept.recorded
  /\ pending' = FALSE
  /\ UNCHANGED <<kept, implicit, release, next>>

(* Nothing, or tables of releases before the upgrades were recorded, with  *)
(* any of the columns added by hand as docs/deployment.md describes.       *)
Init ==
  /\ exists \in SUBSET Tables
  /\ columns \in SUBSET {i \in Versions : Upgrades[i] \in exists}
  /\ recorded = {}
  /\ kept = Database(exists, columns, recorded)
  /\ pending = FALSE
  /\ implicit \in BOOLEAN
  /\ phase = "down"
  /\ release = 0 /\ next = 1 /\ stops = 0

Next == \/ \E r \in 0 .. Len(Upgrades) : Boot(r)
        \/ \E t \in Tables : CreateTable(t)
        \/ Created \/ Check \/ Alter \/ Record \/ Finish \/ Stop

Spec == Init /\ [][Next]_schema_vars

-----------------------------------------------------------------------------
(***************************************************************************)
(* Properties                                                              *)
(***************************************************************************)

(* Type invariant.                                                         *)
TypeOK ==
  /\ exists \subseteq Tables
  /\ {columns, recorded} \subseteq SUBSET Versions
  /\ kept \in [exists : SUBSET Tables, columns : SUBSET Versions,
               recorded : SUBSET Versions]
  /\ {pending, implicit} \subseteq BOOLEAN
  /\ phase \in Phases
  /\ release \in 0 .. Len(Upgrades)
  /\ next \in 1 .. Len(Upgrades) + 1
  /\ stops \in 0 .. MaxStops

(* The upgrade a database has recorded is never looked at again, so its    *)
(* column must be there: in what the connection has and in what a stop     *)
(* would leave, whichever statements had been committed by then.           *)
RecordedHasColumn ==
  recorded \subseteq columns /\ kept.recorded \subseteq kept.columns

(* "Idempotent and safe" (init_db): no start fails, on whatever an earlier *)
(* start, of any release, left half-done.                                  *)
StartsClean == phase # "failed"

(* An application that serves has every column its models name, and they   *)
(* are committed.                                                          *)
ServesConforming ==
  phase = "serving" => /\ kept.exists = Tables
                       /\ 1 .. release \subseteq kept.columns

(* What StartsClean and ServesConforming need to be inductive: a column    *)
(* has its table, and the loop has passed no upgrade whose column is       *)
(* missing.                                                                *)
Behind == {i \in 1 .. release : i < next}
LoopInv ==
  /\ phase \in {"check", "alter", "record"} =>
       exists = Tables /\ Behind \subseteq columns
  /\ phase \in {"alter", "record"} => next <= release /\ next \notin recorded
  /\ phase = "alter" => next \notin columns
  /\ phase = "record" => next \in columns
  /\ ~pending => kept = Database(exists, columns, recorded)
  /\ phase \in {"down", "create"} => ~pending
  /\ phase = "create" => next = 1
SchemaInv == TypeOK /\ RecordedHasColumn /\ StartsClean /\ ServesConforming /\ LoopInv
=============================================================================
