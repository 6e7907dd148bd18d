CONSTANTS
  Cases <- NarrowF32DenormToE5M2
  Directions <- RoundDirections
INIT Init
NEXT Next
\* The conversion finishes once both casts have run.
CHECK_DEADLOCK FALSE
INVARIANTS
  TruncatesExactly
