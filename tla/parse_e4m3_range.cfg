CONSTANT
  Cases <- E4M3Cases
INIT Init
NEXT Next
\* A parse reads one literal and stops.
CHECK_DEADLOCK FALSE
INVARIANTS
  ParseInRangeTruncates
