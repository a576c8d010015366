SPECIFICATION Spec
CONSTANTS
  loop = loop
  Callers <- OneCaller
  Threshold = 3
  Window = 3
  Cooldown = 2
  MutationsEnabled = TRUE
  MaxTime = 5
INVARIANT FailuresHaltMutations
