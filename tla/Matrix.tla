------------------------------- MODULE Matrix -------------------------------
(***************************************************************************)
(* The integrity matrix: run_plans.py --matrix-cell runs the reps of one    *)
(* cell that are not yet on record, each against the cell's own ERP, appends *)
(* a line per rep and rewrites the cell's block of the report; an           *)
(* invocation may die anywhere and be started again, by hand or by          *)
(* resume_matrix.py, which takes the cells in turn.                         *)
(*                                                                          *)
(* An arm is what tells evidence apart: the model, the suffix of            *)
(* MATRIX_EVIDENCE_SUFFIX and the engine, the first two as the words of     *)
(* their names (none for the baseline model and for no suffix).             *)
(***************************************************************************)
EXTENDS Naturals, FiniteSets, ResultFile

CONSTANTS
  Arms,         \* arms that are run: [model, suffix, pg]
  Cells,        \* cells; "control" is the one that books appointments
  Reps,         \* --repeat of every invocation
  SlotCycle,    \* how many different slots there are, 10 in the code
  Order,        \* the cells of resume_matrix.py, in turn
  Plain,        \* what a Postgres name keeps of a word: no dot, no hyphen
  MaxStarts     \* bound on the number of invocations

VARIABLES
  files,      \* the JSONL of each evidence name
  erps,       \* the keys with an open request or a booking, per database
  reports,    \* the report of each evidence name: [torn, blocks]
  snapshots,  \* the SQLite copies of Postgres databases: [state, keys]
  job,        \* the invocation in progress
  driver,     \* how many cells resume_matrix.py has been through
  finished,   \* the arms and cells of which an invocation returned 0
  ended,      \* those of which the last one did
  starts      \* invocations so far

matrixVars == <<files, erps, reports, snapshots, job, driver, finished, ended, starts>>

-----------------------------------------------------------------------------
(* Names.                                                                   *)

Suffixed(arm) == arm.model \o arm.suffix

(* _matrix_evidence_paths: model, then suffix, then engine. *)
Evidence(arm) == Suffixed(arm) \o (IF arm.pg THEN <<"pg">> ELSE <<>>)

(* _matrix_erp_path and _matrix_pg_db_name. *)
Database(arm, cell) ==
  IF arm.pg
  THEN [engine |-> "postgres",
        name |-> <<cell>> \o [i \in DOMAIN Suffixed(arm) |-> Plain[Suffixed(arm)[i]]]]
  ELSE [engine |-> "sqlite", name |-> <<cell>> \o Suffixed(arm)]

(* The code joins the words of a name and tells apart only arms whose words *)
(* do not run together (model "a-b" and model "a" with suffix "b" are one)  *)
(* and, on Postgres, do not differ in punctuation only.                     *)
ASSUME ArmsApart ==
  /\ \A a, b \in Arms : Evidence(a) = Evidence(b) => a = b
  /\ \A a, b \in Arms, c, d \in Cells : Database(a, c) = Database(b, d) => a = b /\ c = d

ASSUME MatrixAssumption ==
  /\ Reps \in Nat /\ SlotCycle \in Nat \ {0} /\ MaxStarts \in Nat
  /\ Order \in Seq(Cells)

Names == {Evidence(a) : a \in Arms}
Databases == {Database(a, c) : a \in Arms, c \in Cells}

(* _matrix_request: what a rep asks the ERP for, by the customer's email or *)
(* by the slot, which recur after SlotCycle rounds.                         *)
Key(cell, rep) ==
  IF cell = "control" THEN <<"slot", (rep - 1) % SlotCycle>> ELSE <<"email", rep>>

-----------------------------------------------------------------------------
NoReport == [torn |-> FALSE, blocks |-> [c \in {} |-> {}]]
Idle == [at |-> "idle"]

(* A copy: no file, one without rows, or all of the rows. *)
NoCopy == [state |-> "missing", keys |-> {}]
EmptyCopy == [state |-> "empty", keys |-> {}]
WholeCopy(keys) == [state |-> "whole", keys |-> keys]

MatrixInit ==
  /\ files = [n \in Names |-> NoFile]
  /\ erps = [d \in Databases |-> {}]
  /\ reports = [n \in Names |-> NoReport]
  /\ snapshots = [d \in Databases |-> NoCopy]
  /\ job = Idle /\ driver = 0 /\ finished = {} /\ ended = {} /\ starts = 0

Lines(file, cell) == {i \in DOMAIN file.lines : file.lines[i].cell = cell}
OfCell(file, cell) == {r \in Records(file) : r.cell = cell}
DoneReps(file, cell) == {r.rep : r \in OfCell(file, cell)}

\* Mutant: a cell that is not complete starts from scratch.
IsFirstRunIncomplete(file, cell) == Cardinality(DoneReps(file, cell)) < Reps

IsFirstRun(file, cell) == OfCell(file, cell) = {}

MyFile == files[Evidence(job.arm)]
MyErp  == Database(job.arm, job.cell)

(* An invocation reads the records, and starts the ERP from scratch if the  *)
(* cell has none.                                                           *)
Start(arm, cell, driven) ==
  /\ job = Idle /\ starts < MaxStarts
  /\ starts' = starts + 1
  /\ LET file == files[Evidence(arm)]
     IN  IF Readable(file)
         THEN /\ job' = [at |-> "reps", arm |-> arm, cell |-> cell, driven |-> driven,
                         done |-> DoneReps(file, cell), record |-> {}]
              /\ erps' = IF IsFirstRun(file, cell)
                         THEN [erps EXCEPT ![Database(arm, cell)] = {}] ELSE erps
              /\ UNCHANGED driver
         ELSE UNCHANGED <<job, erps>> /\ driver' = IF driven THEN 0 ELSE driver
  /\ ended' = ended \ {<<arm, cell>>}
  /\ UNCHANGED <<files, reports, snapshots, finished>>

StartByHand == \E arm \in Arms, cell \in Cells : Start(arm, cell, FALSE)

(* resume_matrix.py: the baseline arm's next cell, if the last returned 0.  *)
BaselineArm(arm) == arm = [model |-> <<>>, suffix |-> <<>>, pg |-> FALSE]

StartDriven ==
  /\ driver < Len(Order)
  /\ \E arm \in Arms : BaselineArm(arm) /\ Start(arm, Order[driver + 1], TRUE)

-----------------------------------------------------------------------------
\* Mutant: a rep that failed does not count as recorded.
MissingFailed(file, cell, done) ==
  (1..Reps) \ {r \in done : \E l \in OfCell(file, cell) : l.rep = r /\ l.status = "completed"}

Missing(file, cell, done) == (1..Reps) \ done

NextRep ==
  LET left == Missing(MyFile, job.cell, job.done)
  IN  CHOOSE r \in left : \A s \in left : r <= s

(* One rep.  Its row is made, and a step may still fail after that; the ERP *)
(* refuses because the key is taken; or the execution fails before it, be   *)
(* it by an exhausted quota.  Whatever handle() returns will be recorded    *)
(* (a refused rep, too, only as a failed one).                              *)
Execute ==
  /\ job.at = "reps" /\ Missing(MyFile, job.cell, job.done) # {}
  /\ LET key == Key(job.cell, NextRep)
         Ends(status) ==
           job' = [job EXCEPT !.at = "append",
                     !.record = {[cell |-> job.cell, rep |-> NextRep, status |-> status]}]
     IN  \/ /\ key \notin erps[MyErp]
            /\ erps' = [erps EXCEPT ![MyErp] = @ \union {key}]
            /\ Ends("completed") \/ Ends("failed")
         \/ /\ key \in erps[MyErp]
            /\ Ends("refused") /\ UNCHANGED erps
         \/ Ends("failed") /\ UNCHANGED erps
  /\ UNCHANGED <<files, reports, snapshots, driver, finished, ended, starts>>

(* _append_matrix_record *)
AppendRecord ==
  /\ job.at = "append"
  /\ \E record \in job.record :
       /\ files' = [files EXCEPT ![Evidence(job.arm)] = Appended(@, record)]
       /\ job' = [job EXCEPT !.at = "reps", !.done = @ \union {record.rep}, !.record = {}]
  /\ UNCHANGED <<erps, reports, snapshots, driver, finished, ended, starts>>

-----------------------------------------------------------------------------
(* _aggregate_matrix_cell and _inspect_matrix_erp, for one cell. *)
Block(file, arm, cell) ==
  [n |-> Cardinality(Lines(file, cell)),
   completed |-> Cardinality({i \in Lines(file, cell) : file.lines[i].status = "completed"}),
   rows |-> Cardinality(erps[Database(arm, cell)])]

\* Mutant: the report is written anew.
MergedAlone(blocks, new) == new

(* _write_matrix_cell_report: the other cells' blocks are kept. *)
Merged(blocks, new) ==
  [c \in DOMAIN blocks \union DOMAIN new |-> IF c \in DOMAIN new THEN new[c] ELSE blocks[c]]

WithBlocks(arm, cells, file) ==
  [reports EXCEPT ![Evidence(arm)].blocks =
     Merged(@, [c \in cells |-> Block(file, arm, c)])]

Truncated(arm) == [reports EXCEPT ![Evidence(arm)].torn = TRUE]

Returns(code) ==
  /\ job' = Idle
  /\ LET mine == IF code = 0 THEN {<<job.arm, job.cell>>} ELSE {}
     IN  finished' = finished \union mine /\ ended' = ended \union mine
  /\ driver' = IF ~job.driven THEN driver ELSE IF code = 0 THEN driver + 1 ELSE 0

ReturnCode == IF Cardinality(Lines(MyFile, job.cell)) >= Reps THEN 0 ELSE 1

(* The records are read again and the report is rewritten; then, on         *)
(* Postgres, the tables are copied to the snapshot.                         *)
Report ==
  /\ job.at = "reps" /\ Missing(MyFile, job.cell, job.done) = {}
  /\ IF Readable(MyFile) /\ ~reports[Evidence(job.arm)].torn
     THEN /\ reports' = WithBlocks(job.arm, {job.cell}, MyFile)
          /\ IF job.arm.pg
             THEN job' = [job EXCEPT !.at = "export"] /\ UNCHANGED <<finished, ended, driver>>
             ELSE Returns(ReturnCode)
     ELSE Returns(1) /\ UNCHANGED reports
  /\ UNCHANGED <<files, erps, snapshots, starts>>

(* _matrix_export_pg_snapshot: the old copy is deleted, a new one gets its  *)
(* tables, each of which is there at once; ...                              *)
BeginExport ==
  /\ job.at = "export"
  /\ \E copy \in {NoCopy, EmptyCopy} : snapshots' = [snapshots EXCEPT ![MyErp] = copy]
  /\ job' = [job EXCEPT !.at = "copy"]
  /\ UNCHANGED <<files, erps, reports, driver, finished, ended, starts>>

\* Mutant: the rows are inserted, and the connection is closed.
NotCommitted ==
  /\ job.at = "copy"
  /\ snapshots' = [snapshots EXCEPT ![MyErp] = EmptyCopy]
  /\ Returns(ReturnCode)
  /\ UNCHANGED <<files, erps, reports, starts>>

(* ... and its rows, those that were read before, in one transaction. *)
CommitExport ==
  /\ job.at = "copy"
  /\ snapshots' = [snapshots EXCEPT ![MyErp] = WholeCopy(erps[MyErp])]
  /\ Returns(ReturnCode)
  /\ UNCHANGED <<files, erps, reports, starts>>

(* --matrix-report-only, by hand or after the last cell: every cell on      *)
(* record.  It never looks at Postgres evidence.                            *)
ReportOnly ==
  /\ job = Idle
  /\ \E arm \in Arms :
       /\ ~arm.pg
       /\ \/ starts < MaxStarts /\ starts' = starts + 1 /\ UNCHANGED driver
          \/ driver = Len(Order) /\ BaselineArm(arm) /\ driver' = 0 /\ UNCHANGED starts
       /\ LET file == files[Evidence(arm)]
          IN  IF Readable(file) /\ Records(file) # {} /\ ~reports[Evidence(arm)].torn
              THEN reports' \in {WithBlocks(arm, {r.cell : r \in Records(file)}, file),
                                 Truncated(arm)}
              ELSE UNCHANGED reports
  /\ UNCHANGED <<files, erps, snapshots, job, finished, ended>>

-----------------------------------------------------------------------------
(* The invocation ends by an exception or is killed: before the line of an  *)
(* execution that took place, within the line, while the report is open, or *)
(* with the copy missing or empty.                                          *)
Stops ==
  /\ job # Idle
  /\ job' = Idle
  /\ driver' = IF job.driven THEN 0 ELSE driver
  /\ UNCHANGED <<erps, snapshots, finished, ended, starts>>

Dies == Stops /\ UNCHANGED <<files, reports>>

DiesInAppend ==
  /\ job.at = "append" /\ Stops
  /\ \E record \in job.record : \E file \in TornAppends(MyFile, record) :
       files' = [files EXCEPT ![Evidence(job.arm)] = file]
  /\ UNCHANGED reports

DiesInReport ==
  /\ job.at = "reps" /\ Missing(MyFile, job.cell, job.done) = {} /\ Stops
  /\ reports' = Truncated(job.arm)
  /\ UNCHANGED files

-----------------------------------------------------------------------------
(* The row of a rep that is recorded as completed is in the database its    *)
(* cell is judged by: a resumed cell never starts from scratch, and no      *)
(* other cell or arm does it in its place.                                  *)
CompletedInErp ==
  \A arm \in Arms, cell \in Cells :
    \A r \in OfCell(files[Evidence(arm)], cell) :
      r.status = "completed" => Key(cell, r.rep) \in erps[Database(arm, cell)]

(* Where an invocation returned 0 the report, if it can be read, has the    *)
(* cell's block with every rep, whichever cells were run and interrupted    *)
(* in between, and the rows of the completed ones.                          *)
FinishedMeansReported ==
  \A f \in finished :
    LET report == reports[Evidence(f[1])]
    IN  ~report.torn =>
          /\ f[2] \in DOMAIN report.blocks
          /\ report.blocks[f[2]].n >= Reps
          /\ report.blocks[f[2]].rows >= report.blocks[f[2]].completed

(* A copy with rows has those of its database, and where the last           *)
(* invocation on Postgres returned 0 there is one; but one of a finished    *)
(* cell that is started again and killed may leave none, or one without     *)
(* rows, where there was one.                                               *)
CopiesTrue ==
  \A arm \in Arms, cell \in Cells :
    LET copy == snapshots[Database(arm, cell)]
    IN  /\ copy.state = "whole" => copy.keys = erps[Database(arm, cell)]
        /\ arm.pg /\ <<arm, cell>> \in ended => copy.state = "whole"

(* "Already-recorded (cell, rep) pairs are skipped -- safe to stop and      *)
(* resume": as long as the slots do not recur, no rep is measured against   *)
(* what an interrupted attempt of its own has left behind.                  *)
ResumeSafe ==
  Reps <= SlotCycle => \A n \in Names : \A r \in Records(files[n]) : r.status # "refused"
=============================================================================
