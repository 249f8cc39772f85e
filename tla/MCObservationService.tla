----------------------- MODULE MCObservationService -----------------------
(***************************************************************************)
(* Instance of ObservationService for TLC: the schedule and two requests,  *)
(* which come again and again, so that a scan can be led by any of them,   *)
(* joined by the others, and be followed by another before a joiner wakes. *)
(*                                                                         *)
(* With two done channels a scan may begin while a joiner of the one       *)
(* before it has still to wake; a third, of the runs that look for a       *)
(* violation, lets another begin after that.  Their requests are alike,    *)
(* and so are their channels.                                              *)
(***************************************************************************)
EXTENDS ObservationService, TLC

MCSymmetry == Permutations(Requests) \cup Permutations(Chans)
=============================================================================
