SPECIFICATION OrphanSpec
CONSTANTS
  Cells = {c1, c2, c3}
  SpawnTimeout = 2
  Grace = 4
  Latency = 2
INVARIANTS
  SparesLiveCells
