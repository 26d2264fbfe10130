------------------------------- MODULE Absent -------------------------------
(* The value of a field that holds nothing, shared by the modules of the     *)
(* client.                                                                   *)
CONSTANT None
=============================================================================
