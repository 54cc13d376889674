\* Safety of the pool under every interleaving of planner, workers and loop.
CONSTANTS
  NoEnv = NoEnv
  EnvThreadpoolSize <- MCEnvThreadpoolSize
  OrdClasses <- MCOrdClasses
  Cookies <- MCCookies
  MaxItems = 4
  DrainedBeforeShutdown = TRUE
  ReuseMemory = FALSE

SPECIFICATION Spec

INVARIANT TypeOK
INVARIANT InFlightAccounting
INVARIANT ActiveWsAccounting
 
INVARIANT OrderedClassFifo

\* pool_fini ends every behaviour: all threads joined, nothing is enabled.
CHECK_DEADLOCK FALSE
