---------------------------- MODULE MCAdminBridge ----------------------------
(* Model-checking instances of AdminBridge. *)
EXTENDS AdminBridge

\* Two chunk sizes, so that a change in the middle of a recording shows.
TwoSizes == {1, 2}
OneSize  == {1}

Everything    == AdminOps
Recording     == {"start", "list", "chunk"}
Deleting      == {"start", "stop", "list", "delete"}
=============================================================================
