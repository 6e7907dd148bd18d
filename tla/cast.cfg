CONSTANTS
  Cases <- CastCases
  Directions <- RoundDirections
INIT Init
NEXT Next
\* The conversion finishes once both casts have run.
CHECK_DEADLOCK FALSE
INVARIANTS
  TypeOK
  NaNStaysNaN
  WidenNarrowRoundTrip
  DenormBounded
  TruncatesExactly
