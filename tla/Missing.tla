------------------------------ MODULE Missing ------------------------------
(***************************************************************************)
(* The value of a field, parameter or reference that has none: None, null, *)
(* undefined or an absent key in the code.  The modules that MCPlatform    *)
(* puts together share it.                                                 *)
(***************************************************************************)
CONSTANT None
=============================================================================
