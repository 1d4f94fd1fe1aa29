SPECIFICATION FairSpec
CONSTANTS
  Families = {"openai", "anthropic", "mock"}
  MaxTokens = 2
  MaxDeltas = 2
  InPrice = 3
  CachedPrice = 1
  OutPrice = 5
CHECK_DEADLOCK FALSE
INVARIANT TypeOK
INVARIANT ChargedWhole
INVARIANT OneResponse
PROPERTY Settled
