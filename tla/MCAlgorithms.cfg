SPECIFICATION AlgSpec
CONSTANTS
  PAGE_SIZE = 33
  Sizes <- SmallSizes
  Tables = {"r", "s", "t"}
  ColLists <- SmallColLists
  ColNames = {"a"}
  Values = {0, 1}
  MaxTabs = 3
  MaxConds = 2
INVARIANTS BytesAreTheSet LoopFindsNext RecordsFitThePage PlanAssertionsHold ScansAreTheWhereClause NamesResolved
CHECK_DEADLOCK FALSE
