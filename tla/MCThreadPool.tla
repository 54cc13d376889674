---------------------------- MODULE MCThreadPool ----------------------------
(***************************************************************************)
(* Model-checking instance of ThreadPool: two workers (the smallest pool   *)
(* in which ordered and unordered items run side by side), two ordered     *)
(* classes (so the o_prev precondition and the barrier between classes     *)
(* matter) and cookies that reach both workers.                            *)
(***************************************************************************)
EXTENDS ThreadPool

MCEnvThreadpoolSize == 2
MCOrdClasses        == {WT_ORD1, WT_ORD1 + 1}
MCCookies           == {0, 1}

=============================================================================
