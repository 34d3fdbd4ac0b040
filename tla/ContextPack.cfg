SPECIFICATION Spec
CONSTANTS
  PackInputs <- MCInputs
  Needs = {1, 2, 3, 4}
  ItemCost = 2
  ReasonCost = 1
  LinkCost = 1
  OmissionCost = 1
  MissingCost = 2
  MaxItems = 2
  MaxExcerpts = 2
  MaxItemContent = 2
  MaxContent = 3
  MinEvidence = 1
INVARIANTS NoNeedGivenUp ReadyIsShown LoopEnds
