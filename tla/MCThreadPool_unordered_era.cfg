\* Spec 5: a barrier waits for the unordered items submitted before it.
CONSTANTS
  NoEnv = NoEnv
  EnvThreadpoolSize <- MCEnvThreadpoolSize
  OrdClasses <- MCOrdClasses
  Cookies <- MCCookies
  MaxItems = 3
  DrainedBeforeShutdown = TRUE
  ReuseMemory = FALSE

SPECIFICATION Spec

INVARIANT BarrierCompletesEra

CHECK_DEADLOCK FALSE
