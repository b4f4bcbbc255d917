SPECIFICATION TasksSpec
CONSTANTS
  w1 = w1
  w2 = w2
  w3 = w3
  Writes = {w1, w2, w3}
  Backends = {"postgres", "mysql", "sqlite"}
  Accesses = {"write", "read", "sandbox"}
  MaxBatch = 2
  MaxTasks = 3
  Hits = 2
  Batches = 2
SYMMETRY Symmetry
CHECK_DEADLOCK FALSE
INVARIANT BulkAsReported
INVARIANT OpenShown
