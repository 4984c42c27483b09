------------------------------ MODULE HookLife ------------------------------
(***************************************************************************)
(* What one hook promises (include/ztour/hook_inst.h:26-39, and            *)
(* README.md:55, "Guaranteed-safe blocking hook removal (waits for hook to *)
(* be unused during removal)", as far as the code keeps it).               *)
(* One thread at a time turns the hook over; no call gets into the detour  *)
(* over an original head, unless it took the jump before; the flag follows *)
(* the head, but for a head that a failed write has torn; and between      *)
(* restoring the head and the end of an uninstall there is a moment with   *)
(* no call inside.  There are no bytes, no mutex and no gate here:         *)
(* HookInst is shown to implement this, and so is every hook of            *)
(* HookRegistry.                                                           *)
(***************************************************************************)
CONSTANTS Calls,        \* activations of the target function
          Controllers,  \* threads that install and uninstall
          NoThread

VARIABLES
  head,       \* what a call that arrives meets: "original", "jump" or "torn"
  installed,  \* what is_installed() answers
  owner,      \* the thread that turns the hook over
  phase,      \* ... and how far it is
  coming,     \* the calls on their way to the detour
  inside      \* the calls in the detour

vars == <<head, installed, owner, phase, coming, inside>>

Init == /\ head = "original" /\ installed = FALSE
        /\ owner = NoThread /\ phase = "idle"
        /\ coming = {} /\ inside = {}

-----------------------------------------------------------------------------
Begin(k) == /\ owner = NoThread /\ phase = "idle"
            /\ owner' = k /\ phase' = "begun"
            /\ UNCHANGED <<head, installed, coming, inside>>

Release == owner' = NoThread /\ phase' = "idle"

\* The write fails: the head is what it was, or torn, and the flag untouched.
Fail == /\ phase = "begun"
        /\ head' \in {head, "torn"}
        /\ Release
        /\ UNCHANGED <<installed, coming, inside>>

\* The head is turned over; only an uninstall has to wait after it.
Rewrite == /\ phase = "begun"
           /\ head' = IF installed THEN "original" ELSE "jump"
           /\ phase' = IF installed THEN "drain" ELSE "done"
           /\ UNCHANGED <<installed, owner, coming, inside>>

Drained == /\ phase = "drain"
           /\ inside = {}
           /\ phase' = "done"
           /\ UNCHANGED <<head, installed, owner, coming, inside>>

End == /\ phase = "done"
       /\ installed' = (head = "jump")
       /\ Release
       /\ UNCHANGED <<head, coming, inside>>

-----------------------------------------------------------------------------
Take(c) == /\ head # "original"
           /\ c \notin coming \cup inside
           /\ coming' = coming \cup {c}
           /\ UNCHANGED <<head, installed, owner, phase, inside>>

\* From the jump into the detour, in one step or two.
Enter(c) == /\ c \in coming \/ head # "original"
            /\ c \notin inside
            /\ coming' = coming \ {c}
            /\ inside' = inside \cup {c}
            /\ UNCHANGED <<head, installed, owner, phase>>

Leave(c) == /\ c \in inside
            /\ inside' = inside \ {c}
            /\ UNCHANGED <<head, installed, owner, phase, coming>>

-----------------------------------------------------------------------------
Next == \/ \E k \in Controllers : Begin(k)
        \/ Fail \/ Rewrite \/ Drained \/ End
        \/ \E c \in Calls : Take(c) \/ Enter(c) \/ Leave(c)

Spec == Init /\ [][Next]_vars
=============================================================================
