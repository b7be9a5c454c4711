---------------------------- MODULE MCLimitedRun ----------------------------
(***************************************************************************)
(* LimitedRun with a child and a grandchild.                               *)
(***************************************************************************)
EXTENDS LimitedRun

CONSTANTS child, grandchild

MCDescendants == {child, grandchild}
=============================================================================
