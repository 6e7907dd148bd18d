CONSTANTS
  Cases <- NarrowF32ToF16
  Directions <- RoundDirections
INIT Init
NEXT Next
\* The conversion finishes once both casts have run.
CHECK_DEADLOCK FALSE
INVARIANTS
  RoundsInNormalRange
