\* Two connections, each on its own database: the PRE of pool_work_submit.
CONSTANTS
  NoEnv = NoEnv
  EnvThreadpoolSize <- MCEnvThreadpoolSize
  OrdClasses <- MCOrdClasses
  Cookies <- MCCookies
  Conns <- MCConns
  ConnDb <- MCTwoDbs
  MaxItems = 2
  DrainedBeforeShutdown = TRUE
  ReuseMemory = FALSE

SPECIFICATION GwSpec

INVARIANT PreRespected

\* Once MaxItems items are submitted and done, no step is enabled.
CHECK_DEADLOCK FALSE
