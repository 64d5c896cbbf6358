CONSTANTS
  Horizon = 5
  FallBack = 3
  Shift = 3
  Label <- MCLabel
  Triggers <- MCTriggers
  MaxRules = 2
  MaxCatchup = 2
  RepeatWindow = 3
  MaxEdited = 1
  MaxFaults = 1
SPECIFICATION FairSpec
INVARIANTS TypeOK PunctualOnceRuns OneOutcome
PROPERTIES NoRefire NoLabelRepeat OnceSettles
