------------------------------ MODULE TornFiles ------------------------------
(* A file that is not there, and what a write that was cut short leaves.    *)

CONSTANTS None, Torn

ASSUME TornFilesAssumption == None # Torn
=============================================================================
