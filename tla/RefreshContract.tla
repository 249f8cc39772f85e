-------------------------- MODULE RefreshContract --------------------------
(***************************************************************************)
(* What observe.Service promises the callers of Refresh, with no mutex, no *)
(* channel and no schedule (the doc comments of Service and Refresh in     *)
(* internal/observe/service.go):                                           *)
(*                                                                         *)
(*   - one scan at a time; a caller that finds one joins it instead of     *)
(*     queueing another;                                                   *)
(*   - whoever leads a scan is told that scan's outcome;                   *)
(*   - whoever joins is told the outcome of a scan that ended after the    *)
(*     call, and never an older one.                                       *)
(***************************************************************************)
CONSTANTS
    Callers,    \* goroutines that call Refresh
    NoCaller,   \* no scan is in flight
    Outcomes    \* how a scan ends

VARIABLES
    leader,     \* the caller whose scan is in flight
    phase,      \* phase[c]: what Refresh is doing for c
    may,        \* may[c]: the outcomes a joined c may be told
    answer      \* answer[c]: what an answered c was told

vars == <<leader, phase, may, answer>>

Init ==
    /\ leader = NoCaller
    /\ phase = [c \in Callers |-> "out"]
    /\ may = [c \in Callers |-> {}]
    /\ answer = [c \in Callers |-> {}]

Lead(c) ==
    /\ phase[c] = "out" /\ leader = NoCaller
    /\ leader' = c
    /\ phase' = [phase EXCEPT ![c] = "leading"]
    /\ UNCHANGED <<may, answer>>

Join(c) ==
    /\ phase[c] = "out" /\ leader # NoCaller
    /\ phase' = [phase EXCEPT ![c] = "joined"]
    /\ UNCHANGED <<leader, may, answer>>

\* The scan ends: its leader is answered, and everyone who has joined a scan
\* and not been answered yet may be told its outcome.
End(c, o) ==
    /\ leader = c
    /\ leader' = NoCaller
    /\ phase' = [phase EXCEPT ![c] = "answered"]
    /\ answer' = [answer EXCEPT ![c] = {o}]
    /\ may' = [d \in Callers |-> IF phase[d] = "joined" THEN may[d] \cup {o} ELSE may[d]]

Answer(c, o) ==
    /\ phase[c] = "joined" /\ o \in may[c]
    /\ phase' = [phase EXCEPT ![c] = "answered"]
    /\ answer' = [answer EXCEPT ![c] = {o}]
    /\ may' = [may EXCEPT ![c] = {}]
    /\ UNCHANGED leader

Leave(c) ==
    /\ phase[c] = "answered"
    /\ phase' = [phase EXCEPT ![c] = "out"]
    /\ answer' = [answer EXCEPT ![c] = {}]
    /\ UNCHANGED <<leader, may>>

Next ==
    \E c \in Callers :
        \/ Lead(c) \/ Join(c) \/ Leave(c)
        \/ \E o \in Outcomes : End(c, o) \/ Answer(c, o)

\* The scan in flight ends, and every joined caller that may be answered is.
Fairness ==
    \A c \in Callers :
        /\ WF_vars(\E o \in Outcomes : End(c, o))
        /\ WF_vars(\E o \in Outcomes : Answer(c, o))

Spec == Init /\ [][Next]_vars /\ Fairness

=============================================================================
