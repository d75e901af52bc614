------------------------------ MODULE MCFdTable ------------------------------
(* Instances of FdTable for TLC.                                            *)
EXTENDS FdTable
==============================================================================
