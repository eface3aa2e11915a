------------------------------ MODULE Baseline ------------------------------
(***************************************************************************)
(* The embedding baseline: embedding_baseline.py calibrates a threshold tau *)
(* on a set of its own and freezes it in an artifact; a later run chooses,  *)
(* for each point of the sweep, the plan whose embedding is nearest to the  *)
(* intent's, or none below tau.  Texts that were embedded are cached.       *)
(*                                                                          *)
(* A similarity is a natural number; a text is the id of a plan or intent.  *)
(***************************************************************************)
EXTENDS Sweep

CONSTANTS
  Nearness,     \* the similarity of an intent's text to a plan's, Nearness[intent][plan]
  CalBank,      \* the plans of the calibration set, in order
  CalPoints,    \* its points
  Grids,        \* thresholds to scan, each in ascending order
  EmbeddingModels,
  EvalReps,     \* --reps of a run
  MaxCalibrations,  \* bound on the number of calibrations
  MaxEvals      \* bound on the number of runs

VARIABLES
  artifact,     \* the calibration artifact: missing, torn, or [id, model, tau]
  calibrations, \* calibrations so far; their number is the hash of the artifact
  cache,        \* the embeddings on disk
  tornCache,    \* cached texts whose file is incomplete
  evalFile,     \* embedding_baseline.jsonl
  evalJob,      \* the run in progress
  evalReport,   \* embedding_baseline_report.json
  evals         \* runs so far

baselineVars == <<artifact, calibrations, cache, tornCache, evalFile, evalJob, evalReport, evals>>

-----------------------------------------------------------------------------
(* The first plan of greatest similarity: a later one has to exceed it. *)
Nearest(intent, plans) ==
  LET near(i) == Nearness[intent][plans[i]]
      best == CHOOSE i \in DOMAIN plans :
                \A j \in DOMAIN plans : IF j < i THEN near(j) < near(i) ELSE near(j) <= near(i)
  IN  [plan |-> plans[best], similarity |-> near(best)]

ChosenAt(tau, intent, plans) ==
  LET nearest == Nearest(intent, plans)
  IN  IF nearest.similarity >= tau THEN nearest.plan ELSE "none"

(* _evaluate_tau: the points that are answered rightly. *)
EvaluateTau(tau) ==
  Cardinality({p \in CalPoints : Correct(p, ChosenAt(tau, p.id, CalBank))})

(* cmd_calibrate scans the grid upwards and keeps what exceeds the best.    *)
BestTau(grid) ==
  FoldLeft(LAMBDA best, tau : IF EvaluateTau(tau) > EvaluateTau(best) THEN tau ELSE best,
           grid[1], grid)

NoArtifact == [at |-> "missing"]
Torn == [at |-> "torn"]
EvalIdle == [at |-> "idle"]

BaselineInit ==
  /\ artifact = NoArtifact /\ calibrations = 0 /\ cache = {} /\ tornCache = {}
  /\ evalFile = NoFile /\ evalJob = EvalIdle /\ evalReport = NoStats /\ evals = 0

(* A calibration overwrites the artifact, also while a run is in progress.  *)
(* Its texts are none of the sweep's and are left out of the cache.         *)
Calibrate ==
  /\ calibrations < MaxCalibrations
  /\ calibrations' = calibrations + 1
  /\ \E model \in EmbeddingModels, grid \in Grids :
       artifact' \in {[at |-> "frozen", id |-> calibrations', model |-> model,
                      tau |-> BestTau(grid)], Torn}
  /\ UNCHANGED <<cache, tornCache, evalFile, evalJob, evalReport, evals>>

-----------------------------------------------------------------------------
(* What a run asks for before it embeds anything.                           *)

(* _assert_dataset_matches_recorded: the sweep's file is there, is not      *)
(* empty, and has only points that are generated today.                     *)
DatasetMatches ==
  /\ Readable(sweepFile) /\ Records(sweepFile) # {}
  /\ \A r \in Records(sweepFile) :
       r.size \in Sizes /\ r.point \in {Points[k] : k \in SizePoints[r.size]}

\* Mutant: a run starts whatever its output was measured with.
AnyCalibration(file, id) == TRUE

(* _assert_calibration_unchanged *)
CalibrationUnchanged(file, id) == \A r \in Records(file) : r.calibration = id

(* A run with any other model than the artifact's is refused, too. *)
StartEval ==
  /\ evalJob = EvalIdle /\ evals < MaxEvals
  /\ artifact.at = "frozen" /\ DatasetMatches
  /\ Readable(evalFile) /\ CalibrationUnchanged(evalFile, artifact.id)
  /\ \E budget \in Budgets :
       evalJob' = [at |-> "points", model |-> artifact.model, calibration |-> artifact.id,
                   tau |-> artifact.tau, budget |-> budget, made |-> 0, keys |-> Keys(evalFile)]
  /\ evals' = evals + 1
  /\ UNCHANGED <<artifact, calibrations, cache, tornCache, evalFile, evalReport>>

EvalAgenda == Agenda(EvalReps)

Unevaluated == Due(EvalAgenda, evalJob.model, evalJob.keys)

(* The budget is looked at before a point, which may then embed as many     *)
(* texts as the cache lacks.                                                *)
MoreEvals == Unevaluated # {} /\ evalJob.made < evalJob.budget

Texts(item) ==
  <<<<"intent", Points[item.nr].id>>>> \o [i \in 1..item.size |-> <<"plan", Bank[i]>>]

Cached(texts) == {<<evalJob.model, text>> : text \in texts}

Evaluated(item) ==
  LET point == Points[item.nr]
      chosen == ChosenAt(evalJob.tau, point.id, Catalog(item.size))
  IN  [model |-> evalJob.model, rep |-> item.rep, size |-> item.size, point |-> point,
       correct |-> Correct(point, chosen), violation |-> FormatViolation(item.size, chosen),
       tau |-> evalJob.tau, calibration |-> evalJob.calibration]

RunEvalPoint ==
  /\ evalJob.at = "points" /\ MoreEvals
  /\ \E item \in Foremost(Unevaluated) :
       LET needed == Cached(ToSet(Texts(item)))
       IN  /\ needed \intersect tornCache = {}
           /\ cache' = cache \union needed
           /\ evalFile' = Appended(evalFile, Evaluated(item))
           /\ evalJob' = [evalJob EXCEPT !.made = @ + Cardinality(needed \ cache),
                                         !.keys = @ \union {KeyOf(evalJob.model, item)}]
  /\ UNCHANGED <<artifact, calibrations, tornCache, evalReport, evals>>

(* The run dies with some of a point's texts embedded and the last of them  *)
(* written or half written; when it reads a text that was half written; or  *)
(* within the line.                                                         *)
EvalDies ==
  /\ evalJob # EvalIdle
  /\ evalJob' = EvalIdle
  /\ \/ UNCHANGED <<cache, tornCache, evalFile>>
     \/ /\ MoreEvals
        /\ \E item \in Foremost(Unevaluated) : \E n \in 1..Len(Texts(item)) :
             LET embedded == Cached(ToSet(SubSeq(Texts(item), 1, n)))
                 last == Cached({Texts(item)[n]})
             IN  /\ embedded \intersect tornCache = {}
                 /\ cache' = cache \union embedded
                 /\ \/ tornCache' = tornCache \union (last \ cache) /\ UNCHANGED evalFile
                    \/ UNCHANGED <<tornCache, evalFile>>
                    \/ /\ n = Len(Texts(item)) /\ UNCHANGED tornCache
                       /\ evalFile' \in TornAppends(evalFile, Evaluated(item))
  /\ UNCHANGED <<artifact, calibrations, evalReport, evals>>

EvalReported ==
  evalReport' = IF Readable(evalFile) /\ Records(evalFile) # {} THEN ReportOn(evalFile)
                ELSE evalReport

EndEval ==
  /\ evalJob.at = "points" /\ ~MoreEvals
  /\ evalJob' = EvalIdle /\ EvalReported
  /\ UNCHANGED <<artifact, calibrations, cache, tornCache, evalFile, evals>>

(* run --report-only goes through the same checks but for the last.         *)
ReportEval ==
  /\ evalJob = EvalIdle /\ artifact.at = "frozen" /\ DatasetMatches
  /\ EvalReported
  /\ UNCHANGED <<artifact, calibrations, cache, tornCache, evalFile, evalJob, evals>>

(* The operator, told to start a fresh output file, puts the old one away.  *)
StartAfresh ==
  /\ evalJob = EvalIdle /\ evalFile # NoFile
  /\ evalFile' = NoFile
  /\ UNCHANGED <<artifact, calibrations, cache, tornCache, evalJob, evalReport, evals>>

-----------------------------------------------------------------------------
(* What embedding_baseline.jsonl holds is one experiment, however often the *)
(* run was stopped, the threshold calibrated anew in between or during it,  *)
(* or a point of the sweep measured under another wording: all its records  *)
(* carry one artifact's hash and tau, and none disagrees with the sweep on  *)
(* what the right answers to its point are.                                 *)
OneExperiment ==
  /\ \A a, b \in Records(evalFile) : a.calibration = b.calibration /\ a.tau = b.tau
  /\ \A r \in Records(evalFile), s \in Records(sweepFile) :
       r.size = s.size /\ r.point.id = s.point.id => r.point = s.point
=============================================================================
