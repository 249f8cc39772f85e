--------------------------- MODULE MCCatalogLock ---------------------------
(***************************************************************************)
(* Instance of CatalogLock for TLC: three processes, such as a manager and *)
(* two commands, and one inode more than processes, so that a new file can *)
(* always be created.  The processes come and go for ever.                 *)
(***************************************************************************)
EXTENDS CatalogLock, TLC

MCSymmetry == Permutations(Procs) \cup Permutations(Inodes)
=============================================================================
