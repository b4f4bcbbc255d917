SPECIFICATION Spec
CONSTANTS
  w1 = w1
  w2 = w2
  w3 = w3
  Writes = {w1, w2, w3}
  Backends = {"postgres", "mysql", "sqlite"}
  Accesses = {"write", "read", "sandbox"}
  MaxBatch = 2
SYMMETRY Symmetry
INVARIANT TypeOK
INVARIANT ApplyAllOrNothing
INVARIANT AppliedIsSaved
INVARIANT SandboxDiscardsApplied
INVARIANT ExplainDiscards
INVARIANT ReadOnlyKeepsOut
INVARIANT FlagTracksServer
PROPERTY ImplementsAtomicBatches
