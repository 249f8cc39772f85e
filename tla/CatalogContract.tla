-------------------------- MODULE CatalogContract --------------------------
(***************************************************************************)
(* What the catalog of accepted records promises, whatever runs against    *)
(* it: an operation is accepted once and for good, as one batch, beside    *)
(* which nothing clashes; and whoever is told of its success is told the   *)
(* result on record.  How a batch comes about, who asks for it, and who    *)
(* dies meanwhile are the business of module Adoption.                     *)
(***************************************************************************)
CONSTANTS
    OperationIDs,
    Clash(_, _)     \* two rows cannot both be managed

VARIABLES publications, operations, told

contract == <<publications, operations, told>>

Success(o, record) == <<o, record.digest, record.result>>

Init == publications = {} /\ operations = <<>> /\ told = {}

\* The batch is what the operation has as its result: every row of it is new.
AcceptOnce(o) ==
    /\ o \notin DOMAIN operations
    /\ DOMAIN operations' = DOMAIN operations \cup {o}
    /\ \A p \in DOMAIN operations : operations'[p] = operations[p]
    /\ LET rows == operations'[o].result
       IN  /\ rows # {} /\ rows \cap publications = {}
           /\ publications' = publications \cup rows
           /\ \A r \in rows, s \in publications' : r # s => ~Clash(r, s) /\ ~Clash(s, r)
    /\ UNCHANGED told

\* A result is told, for the first time or again.
Tell(o) ==
    /\ o \in DOMAIN operations
    /\ told' = told \cup {Success(o, operations[o])}
    /\ UNCHANGED <<publications, operations>>

Next == \E o \in OperationIDs : AcceptOnce(o) \/ Tell(o)

Spec == Init /\ [][Next]_contract

(***************************************************************************)
(* What a reader of the catalog may conclude                               *)
(***************************************************************************)

\* docs/adr/0001: no two accepted rows clash.
NeverClash == \A r, s \in publications : r # s => ~Clash(r, s)

\* commit.go:89-100: whoever was told of a success was told what is on record.
ToldIsDurable ==
    \A t \in told : t[1] \in DOMAIN operations /\ t = Success(t[1], operations[t[1]])

\* Accepted records are immutable: no step changes or withdraws one.
AcceptedForGood ==
    [][/\ publications \subseteq publications'
       /\ \A o \in DOMAIN operations :
             o \in DOMAIN operations' /\ operations'[o] = operations[o]]_contract

=============================================================================
