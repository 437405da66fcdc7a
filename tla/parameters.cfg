CONSTANTS
  MaxInfo = 2
  MaxMessage = 4
  LengthModulus = 6
  MaxRewrites = 1
  Lists <- MCLists
  Readable <- MCReadable
  Stale <- MCStale
SPECIFICATION Spec
INVARIANTS
  PathInv
  FaultsExact
  RefusalsExact
  ServesRegistered
  ArgumentsExact
  SizesExact
  StackExact
