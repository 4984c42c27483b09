---------------------------- MODULE DrainBarrier ----------------------------
(***************************************************************************)
(* What the call gate of a hook promises (src/atomic_call_gate.h:4-5, "A   *)
(* struct for tracking how many calls are active, and enabling waiting for *)
(* all calls to cease"): calls enter and leave, and a wait ends only in a  *)
(* moment at which no call is inside.  There is no counter, no mutex and   *)
(* no condition variable here; CallGate is shown to implement this.        *)
(***************************************************************************)
CONSTANTS Calls,     \* activations of a detour function
          Waiters    \* threads that may wait for the gate to drain

VARIABLES inside,    \* the calls that have entered and not left
          waiting    \* the threads whose wait has begun and not ended

vars == <<inside, waiting>>

Init == inside = {} /\ waiting = {}

Enter(c) == /\ c \notin inside
            /\ inside' = inside \cup {c}
            /\ UNCHANGED waiting

Leave(c) == /\ c \in inside
            /\ inside' = inside \ {c}
            /\ UNCHANGED waiting

BeginWait(w) == /\ w \notin waiting
                /\ waiting' = waiting \cup {w}
                /\ UNCHANGED inside

EndWait(w) == /\ w \in waiting
              /\ inside = {}
              /\ waiting' = waiting \ {w}
              /\ UNCHANGED inside

Next == \/ \E c \in Calls : Enter(c) \/ Leave(c)
        \/ \E w \in Waiters : BeginWait(w) \/ EndWait(w)

Spec == Init /\ [][Next]_vars

\* A gate that stays empty lets every waiter go.
FairSpec == Spec /\ \A w \in Waiters : WF_vars(EndWait(w))
=============================================================================
