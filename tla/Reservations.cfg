SPECIFICATION Spec
CONSTANTS
  c1 = c1  c2 = c2  p1 = p1  p2 = p2  w1 = w1  w2 = w2
  r1 = r1  r2 = r2  k1 = k1
  NoCell = NoCell  NoConf = NoConf  NoPool = NoPool  Nobody = Nobody
  Cells = {c1, c2}
  Confs = {w1, w2}
  Pools <- OnePool
  Configs <- OnePoolConfigs
  FallbackPool <- OnePoolFallback
  Requests = {r1, r2}
  Conns = {k1}
  Loops = {"idle"}
  Destroyers = {}
  OrphanLoop = FALSE
  CanStop = FALSE
  CanRestart = FALSE
  Excludes = TRUE
  MarksFailed = TRUE
  ProbesFail = TRUE
  KillsFail = TRUE
INVARIANTS
  IInv
  ReservationsBounded
  LastURLCurrent
SYMMETRY ConfSymmetry
