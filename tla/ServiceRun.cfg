CONSTANTS
    Conns = {}
    Loops = {"health"}
SPECIFICATION SFairSpec
INVARIANTS SendersNeverBlock NoPassAfterClose
PROPERTIES PortsReleased FailureEndsRun
CHECK_DEADLOCK FALSE
