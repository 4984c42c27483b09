----------------------------- MODULE MCHookInst -----------------------------
(***************************************************************************)
(* HookInst on small sets of calls and controllers, which the              *)
(* configurations name.                                                    *)
(***************************************************************************)
EXTENDS HookInst
=============================================================================
