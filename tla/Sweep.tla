------------------------------- MODULE Sweep --------------------------------
(***************************************************************************)
(* The selection sweep: selection_sweep.py asks a model for the plan of     *)
(* every intent over catalogs of growing size, writes a line per answer and *)
(* goes on, in a later invocation, where its budget or a crash stopped it.  *)
(***************************************************************************)
EXTENDS Integers, FiniteSets, ResultFile

CONSTANTS
  Bank,         \* the plans, in the order catalogs grow
  Ambiguous,    \* intents with several right answers: [id, acceptable]
  Nones,        \* intents that no plan serves
  Sizes,        \* the catalog sizes, gone through upwards
  Models,       \* labels of models
  Answers,      \* what a model may answer: plans, "none", anything else
  SweepReps,    \* --reps
  Budgets,      \* values of --max-calls
  Recorded,     \* what selection_sweep.jsonl may hold at first, as checked out
  MaxSweeps     \* bound on the number of invocations

ASSUME SweepAssumption ==
  /\ Sizes \subseteq 1..Len(Bank)
  /\ Budgets \subseteq Nat /\ SweepReps \in Nat /\ MaxSweeps \in Nat

VARIABLES
  sweepFile,    \* selection_sweep.jsonl
  sweepJob,     \* the invocation in progress
  sweepReport,  \* selection_sweep_report.json: by model and size
  sweeps        \* invocations so far

sweepVars == <<sweepFile, sweepJob, sweepReport, sweeps>>

-----------------------------------------------------------------------------
(* The points, in order: a clear one per plan, the ambiguous intents, and   *)
(* the intents no plan serves.                                              *)

Catalog(n) == SubSeq(Bank, 1, n)
Point(id, kind, acceptable) == [id |-> id, kind |-> kind, acceptable |-> acceptable]

Points ==
  [i \in DOMAIN Bank |-> Point(Bank[i], "clear", {Bank[i]})]
    \o [i \in DOMAIN Ambiguous |-> Point(Ambiguous[i].id, "ambiguous", Ambiguous[i].acceptable)]
    \o [i \in DOMAIN Nones |-> Point(Nones[i], "none", {"none"})]

(* The numbers of the points of a catalog: those all of whose answers it    *)
(* offers, and those no plan serves.                                        *)
PointsForSize(n) ==
  {k \in DOMAIN Points :
     Points[k].kind = "none" \/ Points[k].acceptable \subseteq ToSet(Catalog(n))}

(* The ids of plans and intents are different names. *)
ASSUME PointsApart == \A j, k \in DOMAIN Points : Points[j].id = Points[k].id => j = k

Correct(point, chosen) == chosen \in point.acceptable
FormatViolation(n, chosen) == chosen \notin ToSet(Catalog(n)) \union {"none"}

SizePoints == [n \in Sizes |-> PointsForSize(n)]

Agenda(reps) ==
  {item \in [rep : 1..reps, size : Sizes, nr : DOMAIN Points] :
     item.nr \in SizePoints[item.size]}

(* The order of the nested loops: reps, sizes, points. *)
Before(a, b) ==
  \/ a.rep < b.rep
  \/ a.rep = b.rep /\ a.size < b.size
  \/ a.rep = b.rep /\ a.size = b.size /\ a.nr < b.nr

Foremost(items) == {item \in items : \A other \in items \ {item} : Before(item, other)}

SweepAgenda == Agenda(SweepReps)

KeyOf(model, item) ==
  [model |-> model, rep |-> item.rep, size |-> item.size, intent |-> Points[item.nr].id]

(* _load_existing *)
KeyOfRecord(r) == [model |-> r.model, rep |-> r.rep, size |-> r.size, intent |-> r.point.id]

Keys(file) == {KeyOfRecord(r) : r \in Records(file)}

(* The items of an agenda that are not yet on record. *)
Due(agenda, model, keys) == {item \in agenda : KeyOf(model, item) \notin keys}

(* _build_report: by model and catalog size. *)
Stats(records) ==
  [n |-> Cardinality(records),
   correct |-> Cardinality({r \in records : r.correct}),
   violations |-> Cardinality({r \in records : r.violation})]

ReportOn(file) ==
  [group \in {<<r.model, r.size>> : r \in Records(file)} |->
     Stats({r \in Records(file) : <<r.model, r.size>> = group})]

-----------------------------------------------------------------------------
SweepIdle == [at |-> "idle"]
NoStats == [group \in {} |-> {}]

(* What is checked out is a file of whole records, none of them twice.      *)
ASSUME RecordedAssumption ==
  \A file \in Recorded :
    /\ file \in [lines : Seq(Records(file)), state : FileStates]
    /\ \A i, j \in DOMAIN file.lines :
         KeyOfRecord(file.lines[i]) = KeyOfRecord(file.lines[j]) => i = j

SweepInit ==
  /\ sweepFile \in Recorded /\ sweepJob = SweepIdle /\ sweepReport = NoStats /\ sweeps = 0

StartSweep ==
  /\ sweepJob = SweepIdle /\ sweeps < MaxSweeps /\ Readable(sweepFile)
  /\ \E model \in Models, budget \in Budgets :
       sweepJob' = [at |-> "points", model |-> model, budget |-> budget, made |-> 0,
                    keys |-> Keys(sweepFile)]
  /\ sweeps' = sweeps + 1
  /\ UNCHANGED <<sweepFile, sweepReport>>

Unmeasured == Due(SweepAgenda, sweepJob.model, sweepJob.keys)

MorePoints == Unmeasured # {} /\ sweepJob.made < sweepJob.budget

(* _run_point, and the line is written and flushed. *)
Answered(item, model, chosen) ==
  [model |-> model, rep |-> item.rep, size |-> item.size, point |-> Points[item.nr],
   correct |-> Correct(Points[item.nr], chosen), violation |-> FormatViolation(item.size, chosen)]

RunPoint ==
  /\ sweepJob.at = "points" /\ MorePoints
  /\ \E chosen \in Answers, item \in Foremost(Unmeasured) :
       /\ sweepFile' = Appended(sweepFile, Answered(item, sweepJob.model, chosen))
       /\ sweepJob' = [sweepJob EXCEPT !.made = @ + 1,
                                       !.keys = @ \union {KeyOf(sweepJob.model, item)}]
  /\ UNCHANGED <<sweepReport, sweeps>>

(* The process dies: by an exception of the client or a signal, before the  *)
(* line of an answer or within it.                                          *)
SweepDies ==
  /\ sweepJob # SweepIdle
  /\ sweepJob' = SweepIdle
  /\ \/ UNCHANGED sweepFile
     \/ /\ MorePoints
        /\ \E chosen \in Answers, item \in Foremost(Unmeasured) :
             sweepFile' \in TornAppends(sweepFile, Answered(item, sweepJob.model, chosen))
  /\ UNCHANGED <<sweepReport, sweeps>>

(* No point is left or the budget is used up; the report is made from the   *)
(* file, if it can be read and is not empty.  --report-only is this alone.  *)
Reported ==
  sweepReport' = IF Readable(sweepFile) /\ Records(sweepFile) # {} THEN ReportOn(sweepFile)
                 ELSE sweepReport

EndSweep ==
  /\ sweepJob.at = "points" /\ ~MorePoints
  /\ sweepJob' = SweepIdle /\ Reported
  /\ UNCHANGED <<sweepFile, sweeps>>

ReportSweep ==
  /\ sweepJob = SweepIdle /\ Reported
  /\ UNCHANGED <<sweepFile, sweepJob, sweeps>>
=============================================================================
