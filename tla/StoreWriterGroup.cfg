SPECIFICATION Spec
CONSTANTS
  Sources = {s1}
  MaxRows = 2
  MaxReqs = 3
  MaxVal = 2
  MaxOpens = 2
  RunsPerOpen = 1
INVARIANTS
  TypeOK
  AnswersAreTrue
PROPERTIES
  NeverRegresses
CHECK_DEADLOCK FALSE
