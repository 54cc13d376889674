----------------------------- MODULE MCGateway -----------------------------
(***************************************************************************)
(* Model-checking instance of Gateway: a pool of two workers and two       *)
(* connections (so two requests can be in the pool at once and reach both *)
(* workers), either on one database or on two.                            *)
(***************************************************************************)
EXTENDS Gateway

MCEnvThreadpoolSize == 2
MCOrdClasses        == {WT_ORD1, WT_ORD1 + 1}
MCCookies           == {0, 1}
MCConns             == {0, 1}

\* Both connections have opened the same database.
MCOneDb  == [c \in MCConns |-> WT_ORD1]

\* Connection c has opened database WT_ORD1 + c.
MCTwoDbs == [c \in MCConns |-> WT_ORD1 + c]

=============================================================================
