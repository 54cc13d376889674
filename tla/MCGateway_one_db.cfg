\* Two connections on one database, with OPENs, protocol errors and the
\* leader's barriers, over pool_work_t memory that is reused.
CONSTANTS
  NoEnv = NoEnv
  EnvThreadpoolSize <- MCEnvThreadpoolSize
  OrdClasses <- MCOrdClasses
  Cookies <- MCCookies
  Conns <- MCConns
  ConnDb <- MCOneDb
  MaxItems = 3
  DrainedBeforeShutdown = TRUE
  ReuseMemory = TRUE

SPECIFICATION GwSpec

INVARIANT InFlightAccounting
PROPERTY RequestsAnswered

\* Once MaxItems items are submitted and done, no step is enabled.
CHECK_DEADLOCK FALSE
