CONSTANTS
  Managed <- ThreeFiles
  Runtime = {"compose", "hostPorts"}
  Users = {"u1", "u2"}
  Tokens = {"t1", "t2"}
  Names = {"p", "q", "x"}
  NoName = ""
  Confs = {"w1", "w2"}
  Texts = {"us", " US", "usa"}
  Folded <- Spelling
  Codes = {"us"}
  Setups <- SomeSetups
  Services = {a, b, c}
  External = {x}
  MaxListed = 2
  e1 = e1  e2 = e2  e3 = e3
  Endpoints <- ThreeEndpoints
  Liars <- OneEndpoint
SPECIFICATION ProceduresSpec
INVARIANTS InitDelivers BootedServes CheckedBoots OrderRespected CyclesFound LeakNeverPasses
PROPERTY OperatorKept
CHECK_DEADLOCK FALSE
