CONSTANTS
  MaxArgs = 3
  ClientBytes <- MCBytes
  Arg <- MCArg
SPECIFICATION Spec
INVARIANTS
  MapFailureAnswered
