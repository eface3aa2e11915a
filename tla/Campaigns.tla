----------------------------- MODULE Campaigns ------------------------------
(***************************************************************************)
(* The measurement campaigns of scripts/: the integrity matrix; and the     *)
(* selection sweep with the embedding baseline, which reads the sweep's     *)
(* file.  The two share nothing, so a behaviour is of one or the other.     *)
(***************************************************************************)
EXTENDS Matrix, Baseline

VARIABLE campaign

campaignVars == <<campaign, matrixVars, sweepVars, baselineVars>>

CampaignsInit ==
  /\ campaign \in {"matrix", "selection"}
  /\ MatrixInit /\ SweepInit /\ BaselineInit
  /\ campaign = "matrix" => sweepFile = NoFile

(* A step of one campaign leaves the others alone. *)
InMatrix(Step) ==
  campaign = "matrix" /\ Step /\ UNCHANGED <<campaign, sweepVars, baselineVars>>
InSweep(Step) ==
  campaign = "selection" /\ Step /\ UNCHANGED <<campaign, matrixVars, baselineVars>>
InBaseline(Step) ==
  campaign = "selection" /\ Step /\ UNCHANGED <<campaign, matrixVars, sweepVars>>

CampaignsNext ==
  \/ InMatrix(StartByHand) \/ InMatrix(StartDriven) \/ InMatrix(Execute)
  \/ InMatrix(AppendRecord) \/ InMatrix(Report) \/ InMatrix(BeginExport)
  \/ InMatrix(CommitExport) \/ InMatrix(ReportOnly)
  \/ InMatrix(Dies) \/ InMatrix(DiesInAppend) \/ InMatrix(DiesInReport)
  \/ InSweep(StartSweep) \/ InSweep(RunPoint) \/ InSweep(SweepDies) \/ InSweep(EndSweep)
  \/ InSweep(ReportSweep)
  \/ InBaseline(Calibrate) \/ InBaseline(StartEval) \/ InBaseline(RunEvalPoint)
  \/ InBaseline(EvalDies) \/ InBaseline(EndEval) \/ InBaseline(ReportEval)
  \/ InBaseline(StartAfresh)

CampaignsSpec == CampaignsInit /\ [][CampaignsNext]_campaignVars

(* However often a campaign is interrupted and resumed, no rep of a cell    *)
(* and no point of a catalog is counted twice in its evidence.              *)
NoneTwice(file, Id(_)) ==
  \A i, j \in DOMAIN file.lines : Id(file.lines[i]) = Id(file.lines[j]) => i = j

MeasuredOnce ==
  /\ \A n \in Names : NoneTwice(files[n], LAMBDA r : <<r.cell, r.rep>>)
  /\ NoneTwice(sweepFile, KeyOfRecord) /\ NoneTwice(evalFile, KeyOfRecord)
=============================================================================
