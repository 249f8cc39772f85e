---------------------------- MODULE MCMigrations ----------------------------
(***************************************************************************)
(* Instance of Migrations for TLC: a build, the one it replaced, and a     *)
(* fork whose second migration is another.                                 *)
(***************************************************************************)
EXTENDS Migrations, TLC

MCEmbedded == [current |-> <<"s1", "s2", "s3">>, older |-> <<"s1">>, fork |-> <<"s1", "t2">>]
MCBuilds == DOMAIN MCEmbedded
MCSymmetry == Permutations(Procs)
=============================================================================
