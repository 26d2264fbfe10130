------------------------------ MODULE Delivery ------------------------------
(***************************************************************************)
(* What `pc ul` promises of each file, whatever the network does: one new   *)
(* version for each time it was sealed, no more; one result; and a file     *)
(* that is reported as uploaded is on the server.                           *)
(***************************************************************************)
EXTENDS Naturals

CONSTANTS Files, Seals

VARIABLES
    sealed,     \* how often each file was sealed
    versions,   \* how many versions of it the server took
    result      \* what was reported

dvars == <<sealed, versions, result>>

DInit == /\ sealed = [f \in Files |-> 0] /\ versions = [f \in Files |-> 0]
         /\ result \in [Files -> {"pending", "skipped"}]

Seal(f) == /\ result[f] = "pending" /\ sealed[f] < Seals
           /\ sealed' = [sealed EXCEPT ![f] = @ + 1]
           /\ UNCHANGED <<versions, result>>

\* A version can arrive after its file was reported as failed.
Arrive(f) == /\ versions[f] < sealed[f]
             /\ versions' = [versions EXCEPT ![f] = @ + 1]
             /\ UNCHANGED <<sealed, result>>

Report(f, r) == /\ result[f] = "pending"
                /\ r = "uploaded" => versions[f] > 0
                /\ result' = [result EXCEPT ![f] = r]
                /\ UNCHANGED <<sealed, versions>>

DNext == \E f \in Files : \/ Seal(f) \/ Arrive(f)
                          \/ \E r \in {"uploaded", "failed", "skipped"} : Report(f, r)
DSpec == DInit /\ [][DNext]_dvars
=============================================================================
