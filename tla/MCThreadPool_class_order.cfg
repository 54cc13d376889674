\* Spec 8.1: ordered items of one class start in submission order.
CONSTANTS
  NoEnv = NoEnv
  EnvThreadpoolSize <- MCEnvThreadpoolSize
  OrdClasses <- MCOrdClasses
  Cookies <- MCCookies
  MaxItems = 2
  DrainedBeforeShutdown = TRUE
  ReuseMemory = FALSE

SPECIFICATION Spec

INVARIANT SameClassStartsInOrder

CHECK_DEADLOCK FALSE
