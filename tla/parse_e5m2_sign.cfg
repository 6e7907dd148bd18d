CONSTANT
  Cases <- E5M2Cases
INIT Init
NEXT Next
\* A parse reads one literal and stops.
CHECK_DEADLOCK FALSE
INVARIANTS
  ParseSaturatesWithSign
