\* pool_cleanup signals the planner without the pool mutex.
CONSTANTS
  NoEnv = NoEnv
  EnvThreadpoolSize <- MCEnvThreadpoolSize
  OrdClasses <- MCOrdClasses
  Cookies <- MCCookies
  MaxItems = 1
  DrainedBeforeShutdown = TRUE
  ReuseMemory = FALSE

SPECIFICATION Spec

PROPERTY ShutdownCompletes

CHECK_DEADLOCK FALSE
