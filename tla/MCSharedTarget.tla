--------------------------- MODULE MCSharedTarget ---------------------------
(***************************************************************************)
(* SharedTarget with hooks that may be built before or after another one   *)
(* is installed.  The hooks are interchangeable.  Calls only read the code *)
(* and do not meet: one of them shows what all of them do.                 *)
(***************************************************************************)
EXTENDS SharedTarget, TLC

TheHeadStarts == {1, 3}
Symmetry == Permutations(Hooks)
=============================================================================
