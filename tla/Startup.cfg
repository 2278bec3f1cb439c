CONSTANTS
  a = a
  b = b
  c = c
  Services = {a, b, c}
  Groups <- ThreeServices
  Notifiers = {a}
  Allowed = {c}
  MaxRetries <- RetryOnce
  StartupFails = TRUE
SPECIFICATION FairSpec
INVARIANTS NoSendAfterClose AppNoSendAfterClose StopsInReverse FailureReported
  GroupsStartReady HooksAfterServices
PROPERTIES FailureEndsApp SignalEndsApp
CHECK_DEADLOCK FALSE
