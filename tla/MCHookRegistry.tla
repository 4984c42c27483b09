--------------------------- MODULE MCHookRegistry ---------------------------
(***************************************************************************)
(* HookRegistry with hooks that exist from the start and one that a module *)
(* loaded later may create under a name that is taken or is not.           *)
(***************************************************************************)
EXTENDS HookRegistry, TLC

CONSTANTS h1, h2, h3

TwoHooks == <<h1, h2>>
OneHook == <<h1>>

\* h2 and h3 are both called "b".
Names == (h1 :> "a") @@ (h2 :> "b") @@ (h3 :> "b")
=============================================================================
