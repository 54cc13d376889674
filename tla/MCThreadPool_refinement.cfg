\* The pool implements the abstract WorkPool, fairness included.
CONSTANTS
  NoEnv = NoEnv
  EnvThreadpoolSize <- MCEnvThreadpoolSize
  OrdClasses <- MCOrdClasses
  Cookies <- MCCookies
  MaxItems = 3
  DrainedBeforeShutdown = TRUE
  ReuseMemory = FALSE

SPECIFICATION Spec

PROPERTY ImplementsWorkPool

\* pool_fini ends every behaviour: all threads joined, nothing is enabled.
CHECK_DEADLOCK FALSE
