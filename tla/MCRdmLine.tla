----------------------------- MODULE MCRdmLine -----------------------------
(***************************************************************************)
(* RdmLine on a small instance: identifiers of two bytes, up to four       *)
(* devices, of which two are neighbours, so that the search goes to its    *)
(* full depth, one is the last identifier of all, and two (23 and 4101)    *)
(* can drown each other so that what is left is the answer of a third that *)
(* is not there; a line that does damage twice; and just enough requests   *)
(* for a sweep without faults.                                             *)
(***************************************************************************)
EXTENDS RdmLine, TLC

MCHalf == [n \in 1..Capacity |-> (UidMax + 1) \div 2^(n - 1)]

=============================================================================
