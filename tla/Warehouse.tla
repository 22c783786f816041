----------------------------- MODULE Warehouse -----------------------------
(***************************************************************************)
(* The DuckDB file every other part reads, and scripts/make_warehouse.py,  *)
(* the separate process that replaces it: unlink the file, let             *)
(* duckdb.connect create a new one under its write lock, fill it table by  *)
(* table, close.  Nothing tells the API process that this is going on.     *)
(*                                                                         *)
(* A stamp stands for the size and modification time of one file version.  *)
(* The file the builder creates and the file its close() leaves behind     *)
(* have different stamps.                                                  *)
(***************************************************************************)
EXTENDS Integers

CONSTANT MaxStamp   \* bound: the last stamp a rebuild may produce

ASSUME MaxStampAssumption == MaxStamp \in Nat

VARIABLES
    present,   \* does a file exist at db_path?
    stamp,     \* stamp of the newest file version created so far
    tables,    \* tables[s]: how many tables the file with stamp s holds
    builder    \* where make_warehouse.main stands

warehouseVars == <<present, stamp, tables, builder>>

Stamps == 0..MaxStamp

\* dim_customers, dim_products, fact_orders, in the order they are written.
TableCount == 3

WarehouseTypeOK ==
    /\ present \in BOOLEAN
    /\ stamp \in Stamps
    /\ tables \in [Stamps -> 0..TableCount]
    /\ builder \in {"idle", "unlinked", "filling"}

WarehouseInit ==
    /\ present = TRUE
    /\ stamp = 0
    /\ tables = [s \in Stamps |-> IF s = 0 THEN TableCount ELSE 0]
    /\ builder = "idle"

\* db_path.unlink(missing_ok=True); a rebuild needs two more stamps.
Unlink ==
    /\ builder = "idle"
    /\ stamp + 2 <= MaxStamp
    /\ builder' = "unlinked"
    /\ present' = FALSE
    /\ UNCHANGED <<stamp, tables>>

\* con = duckdb.connect(str(db_path)): a new, empty, locked file.
Create ==
    /\ builder = "unlinked"
    /\ builder' = "filling"
    /\ present' = TRUE
    /\ stamp' = stamp + 1
    /\ UNCHANGED tables

\* One round of the loop: CREATE TABLE name AS SELECT ...
CreateTable ==
    /\ builder = "filling"
    /\ tables[stamp] < TableCount
    /\ tables' = [tables EXCEPT ![stamp] = @ + 1]
    /\ UNCHANGED <<present, stamp, builder>>

\* con.close(): the tables reach the main file and the lock is released.
CloseBuild ==
    /\ builder = "filling"
    /\ tables[stamp] = TableCount
    /\ builder' = "idle"
    /\ stamp' = stamp + 1
    /\ tables' = [tables EXCEPT ![stamp + 1] = TableCount]
    /\ UNCHANGED present

\* The script dies: the operating system drops its lock, what it has
\* written so far stays.
CrashBuild ==
    /\ builder # "idle"
    /\ builder' = "idle"
    /\ UNCHANGED <<present, stamp, tables>>

BuilderStep == Unlink \/ Create \/ CreateTable \/ CloseBuild \/ CrashBuild

\* A read-only connect finds a file nobody holds the write lock on.
Readable == present /\ builder # "filling"

---------------------------------------------------------------------------
\* memory.fingerprint: the cache key of the file on disk now, or the key of
\* a missing file.
MissingKey == -1

Keys == Stamps \cup {MissingKey}

\* Fault: the key leaves out size and modification time.
fingerprint_PathOnly == IF present THEN 0 ELSE MissingKey

fingerprint == IF present THEN stamp ELSE MissingKey
=============================================================================
