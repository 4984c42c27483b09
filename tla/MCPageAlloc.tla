---------------------------- MODULE MCPageAlloc -----------------------------
(***************************************************************************)
(* PageAlloc in an address space of ten pages of two bytes.                *)
(***************************************************************************)
EXTENDS PageAlloc

\* 1 << e
Powers == [e \in 0..MaxExponent |-> 2^e]
=============================================================================
