--------------------------- MODULE MCHookRetarget ---------------------------
(***************************************************************************)
(* HookRetarget with two target functions, between which the hook moves.   *)
(***************************************************************************)
EXTENDS HookRetarget
=============================================================================
