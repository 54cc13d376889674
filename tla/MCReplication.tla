---------------------------- MODULE MCReplication ----------------------------
(***************************************************************************)
(* Model-checking instance of Replication: two writes of this node and one *)
(* of another leader (so the log can mix both, in either order), and one   *)
(* restart (enough for a replay over entries already applied).             *)
(***************************************************************************)
EXTENDS Replication

CONSTANTS t1, t2, o1

MCTxs      == {t1, t2}
MCOtherTxs == {o1}

=============================================================================
