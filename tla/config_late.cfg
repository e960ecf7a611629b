SPECIFICATION Spec
CONSTANTS
  Words = {"x", "y"}
  Sources <- LateSources

CHECK_DEADLOCK FALSE
INVARIANTS BracketsDecide
