\* One write of another leader, then two of this node, with duplicate and
\* replayed on_commit deliveries and one restart: the leader's resumed
\* statement writes at its entry's index while on_commit lags behind.
CONSTANTS
  t1 = t1
  t2 = t2
  o1 = o1
  NoTx = NoTx
  Txs <- MCTxs
  OtherTxs <- MCOtherTxs
  MaxRestarts = 1

SPECIFICATION Spec

INVARIANT WalIsLogPrefix

\* Once every write is decided and delivered, only stuttering is left.
CHECK_DEADLOCK FALSE
