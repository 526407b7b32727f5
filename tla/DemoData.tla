------------------------------ MODULE DemoData ------------------------------
(***************************************************************************)
(* scripts/demo/seed_bigquery.py, run by seed_demo_data of the setup       *)
(* wizard: every table is dropped, created and filled again on each run.   *)
(* The wizard ignores how the script ends (check=False).                   *)
(***************************************************************************)
EXTENDS SetupWizard

CONSTANT NumTables  \* the demo tables, seeded in this order

ASSUME TablesAssumption == NumTables \in Nat \ {0}

VARIABLES
  tables,  \* tables[i]: the i-th demo table is missing, empty or full
  row,     \* the table the script is at, 0 when it does not run
  seeded   \* history: every table has been full at once

dataVars == <<tables, row, seeded>>
Full == {i \in 1 .. NumTables : tables[i] = "full"}

DataInit ==
  /\ tables = [i \in 1 .. NumTables |-> "missing"]
  /\ row = 0
  /\ seeded = FALSE

(* ensure_dataset, then the first table.                                   *)
EnsureDataset ==
  /\ Step("dataset") /\ row = 0
  /\ fixed' = fixed \cup {"dataset"}
  /\ row' = 1 /\ at' = "drop"
  /\ UNCHANGED <<made, used, knows, env, program, held, answers, warned, kept, spared, faults, runs>>
  /\ UNCHANGED <<tables, seeded>>

(* Mutant: all tables are dropped before the first is filled.              *)
DropAllTables ==
  /\ Step("drop")
  /\ tables' = [i \in 1 .. NumTables |-> IF i < row THEN tables[i] ELSE "missing"]
  /\ at' = "create"
  /\ UNCHANGED <<cloudVars, env, program, held, answers, warned, kept, spared, faults, runs, row, seeded>>

(* seed_table: delete_table, create_table, insert_rows_json.               *)
DropTable ==
  /\ Step("drop")
  /\ tables' = [tables EXCEPT ![row] = "missing"]
  /\ at' = "create"
  /\ UNCHANGED <<cloudVars, env, program, held, answers, warned, kept, spared, faults, runs, row, seeded>>

CreateTable ==
  /\ Step("create")
  /\ tables' = [tables EXCEPT ![row] = "empty"]
  /\ at' = "insert"
  /\ UNCHANGED <<cloudVars, env, program, held, answers, warned, kept, spared, faults, runs, row, seeded>>

NextTable ==
  IF row = NumTables
    THEN row' = 0 /\ at' = After("dataset")
    ELSE row' = row + 1 /\ at' = "drop"

(* Rows that are refused are printed; the script goes on.                  *)
InsertRows ==
  /\ Step("insert")
  /\ \/ tables' = [tables EXCEPT ![row] = "full"] /\ UNCHANGED faults
     \/ Fault /\ UNCHANGED tables
  /\ seeded' = (seeded \/ \A i \in 1 .. NumTables : tables'[i] = "full")
  /\ NextTable
  /\ UNCHANGED <<cloudVars, env, program, held, answers, warned, kept, spared, runs>>

(* The script ends at any call that raises, the wizard goes on.            *)
SeedingFails ==
  /\ \E s \in {"dataset", "drop", "create", "insert"} : Step(s)
  /\ Fault
  /\ row' = 0 /\ at' = After("dataset")
  /\ UNCHANGED <<cloudVars, env, program, held, answers, warned, kept, spared, runs, tables, seeded>>

(* Ctrl-C reaches script and wizard alike.                                 *)
SeedingCut == Interrupted /\ row' = 0 /\ UNCHANGED <<tables, seeded>>

SeedNext ==
  \/ EnsureDataset \/ DropTable \/ CreateTable \/ InsertRows
  \/ SeedingFails \/ SeedingCut
=============================================================================
