---------------------------- MODULE MCInnerBuild ----------------------------
(***************************************************************************)
(* InnerBuild with every head of up to three instructions from a small set, *)
(* a jump table entry that leads to the head, and one that leads to that   *)
(* entry.                                                                  *)
(***************************************************************************)
EXTENDS InnerBuild, TLC

I(l, k, b, d) == [len |-> l, kind |-> k, bits |-> b, disp |-> d]

Samples == {I(1, "plain", 8, 0), I(4, "plain", 8, 0), I(15, "plain", 8, 0),
            I(7, "memory", 32, 10), I(6, "memory", 32, -100),
            I(2, "branch", 8, 30), I(5, "branch", 32, 20), I(5, "jump", 32, 7)}

Head0 == 100
Entry == 80   \* jumps to the head
Entry2 == 60  \* jumps to Entry
Tables == (Entry :> I(5, "jump", 32, Head0 - Entry - 5))
          @@ (Entry2 :> I(5, "jump", 32, Entry - Entry2 - 5))

\* One, two and three instructions in a row; what follows does not decode.
One(i) == Head0 :> i
Two(i, j) == One(i) @@ (Head0 + i.len :> j)
Three(i, j, k) == Two(i, j) @@ (Head0 + i.len + j.len :> k)
TheMemories == {Tables} \cup {Tables @@ One(i) : i \in Samples}
               \cup {Tables @@ Two(i, j) : i, j \in Samples}
               \cup {Tables @@ Three(i, j, k) : i, j, k \in Samples}
ThePointers == {Head0, Entry, Entry2}

\* A page below the code, one above, and one out of reach for some operands.
ThePages == {10, 300, 500}
=============================================================================
