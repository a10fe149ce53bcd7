------------------------------- MODULE Build -------------------------------
(***************************************************************************)
(* The build of the program, which readers and writers share.              *)
(***************************************************************************)

VARIABLE throws     \* MEMORYPACK_HAS_EXCEPTIONS
=============================================================================
