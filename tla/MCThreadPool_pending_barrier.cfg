\* pool_fini after every callback ran, with a barrier still queued.
CONSTANTS
  NoEnv = NoEnv
  EnvThreadpoolSize <- MCEnvThreadpoolSize
  OrdClasses <- MCOrdClasses
  Cookies <- MCCookies
  MaxItems = 2
  DrainedBeforeShutdown = FALSE
  ReuseMemory = FALSE

SPECIFICATION Spec

PROPERTY PlannerTransitionsLegal

CHECK_DEADLOCK FALSE
