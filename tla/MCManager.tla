----------------------------- MODULE MCManager -----------------------------
(***************************************************************************)
(* Instance of Manager for TLC: one page with up to two inventory          *)
(* requests at once, of which it has cancelled all but one, and a manager  *)
(* that starts and ends for ever.                                          *)
(***************************************************************************)
EXTENDS Manager, TLC

MCSymmetry == Permutations(Fetches)
=============================================================================
