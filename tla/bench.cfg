SPECIFICATION BenchSpec
CONSTANTS
  k1 = k1
  k2 = k2
  Keys = {k1, k2}
  NoKey = NoKey
  Moves = 3
  Starts = 2
  Refusals = 1
  Cards = 2
  PfKeys <- Found
  PfPlans <- Plans
  WzSerials = {k1, k2}
  WzHolders = {a}
  Versions <- Procedures
  Offering <- Offerings
  WzRuns = 1
  WzTries = 2
SYMMETRY Symmetry
INVARIANTS ResetIsAsAgreed PlanComesTrue
PROPERTIES WizardKeepsItsWord
CHECK_DEADLOCK FALSE
