------------------------------- MODULE MCScan -------------------------------
(***************************************************************************)
(* Instance of Scan for TLC.  Two Publications, of two objects and of one; *)
(* while the second is not managed its object is unclaimed.  The versions  *)
(* differ from the accepted one in one respect each, so that each of the   *)
(* three requests is the only one that can tell.                           *)
(***************************************************************************)
EXTENDS Scan

Original == [size |-> 1, etag |-> "e", modified |-> 1, meta |-> "m", body |-> "b"]
Replaced == [Original EXCEPT !.size = 2, !.etag = "f", !.body = "c", !.modified = 2]
Redone == [Original EXCEPT !.modified = 3]                  \* the HEAD tells, by time
Timeless == [Original EXCEPT !.modified = 0]                \* the HEAD tells, by no time
Rotten == [Original EXCEPT !.body = "c", !.modified = 2]    \* only the GET tells

MCKeys == 1..3
MCPublications == 1..2
MCManifest == <<[k \in 1..2 |-> Original], [k \in {3} |-> Original]>>

MCVersions ==
    <<{Original, Redone, Replaced, Rotten}, {Original, Timeless}, {Original, Replaced}>>
=============================================================================
