SPECIFICATION CampaignsSpec
CONSTANTS
  Arms <- MCArms
  Cells <- MCCells
  Reps = 2
  SlotCycle = 2
  Order <- MCOrder
  Plain <- MCPlain
  MaxStarts = 3
  Bank <- MCBank
  Ambiguous <- MCAmbiguous
  Nones <- MCNones
  Sizes <- MCSizes
  Models = {"gemini"}
  Answers <- MCAnswers
  SweepReps = 1
  Budgets <- MCBudgets
  Recorded <- MCRecorded
  MaxSweeps = 2
  Nearness <- MCNearness
  CalBank <- MCCalBank
  CalPoints <- MCCalPoints
  Grids <- MCGrids
  EmbeddingModels = {"embedding-001"}
  EvalReps = 1
  MaxCalibrations = 2
  MaxEvals = 2
INVARIANT ResumeSafe
CHECK_DEADLOCK FALSE
