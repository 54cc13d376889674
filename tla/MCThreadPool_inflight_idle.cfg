\* Spec 8.3: in_flight is zero whenever the planner is in NOTHING.
CONSTANTS
  NoEnv = NoEnv
  EnvThreadpoolSize <- MCEnvThreadpoolSize
  OrdClasses <- MCOrdClasses
  Cookies <- MCCookies
  MaxItems = 2
  DrainedBeforeShutdown = TRUE
  ReuseMemory = FALSE

SPECIFICATION Spec

INVARIANT InFlightZeroWhenIdle

CHECK_DEADLOCK FALSE
