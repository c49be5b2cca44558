----------------------------- MODULE MCPooledLock -----------------------------
(* Two runs, another session and a pool of three connections. *)
EXTENDS PooledLock

MCConnections == <<"c1", "c2", "c3">>

=============================================================================
