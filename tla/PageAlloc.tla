----------------------------- MODULE PageAlloc ------------------------------
(***************************************************************************)
(* memory::alloc_page_near (src/memory.cpp): the search for a free page    *)
(* near a target function, while other threads map and unmap pages, and    *)
(* the relative jump from the target into that page, which                 *)
(* Encoder::encode_rel_jmp refuses if it does not fit 32 bits.             *)
(***************************************************************************)
EXTENDS Integers

CONSTANTS
  AddrLimit,      \* uintptr_t is 0..AddrLimit - 1; 2^64 in the code
  PageSize,       \* memory::page_size()
  MaxSearchDist,  \* MAX_SEARCH_DIST, 1'000'000'000 in the code
  StepEvery,      \* iterations before the step doubles, 100 in the code
  MaxExponent,    \* 16 in the code
  MaxFactor,      \* max_step_size_factor, 100 in the code
  Shifted,        \* Shifted[e] is uintptr_t(1) << e
  RelMax,         \* the largest int32_t
  NearAddrs,      \* the addresses that a page is wanted near of
  NoPage          \* nullptr

RelJmpSize == 5   \* Encoder::REL_JMP_SIZE

\* encode_rel_jmp: the offset counts from the end of the jump.
RelJmpEncodes(from, to) == to - (from + RelJmpSize) \in (-RelMax - 1)..RelMax

ASSUME AddressAssumption ==
  /\ PageSize \in Nat \ {0}
  /\ AddrLimit \in Nat /\ AddrLimit % PageSize = 0
  /\ NearAddrs \subseteq 0..(AddrLimit - 1)
  /\ NoPage \notin Int

ASSUME SearchAssumption ==
  /\ MaxSearchDist \in Nat \ {0} /\ StepEvery \in Nat \ {0}
  /\ MaxExponent \in Nat /\ MaxFactor \in Nat \ {0}
  /\ Shifted \in [0..MaxExponent -> Nat \ {0}] /\ Shifted[0] = 1

\* 1'000'000'000 + 4096 + 5 < 2^31
ASSUME JumpAssumption ==
  RelMax \in Nat /\ MaxSearchDist + PageSize + RelJmpSize <= RelMax

VARIABLES
  near,    \* near_ptr
  free,    \* the pages of the process that are not mapped
  dist,    \* cur_search_dist
  iter,    \* iter
  pc,      \* "below" and "above": is_above; "advance": the end of the body
  page,    \* the page found
  stayed   \* history: the pages that have been free since the search began

vars == <<near, free, dist, iter, pc, page, stayed>>

Smaller(m, n) == IF m <= n THEN m ELSE n

\* base & ~(page_size - 1), page_size being a power of two
Align(addr) == addr - (addr % PageSize)
Base == Align(near)

\* Page 0 is never given out (vm.mmap_min_addr).
Pages == {p \in 1..(AddrLimit - 1) : p % PageSize = 0}

Init == /\ near \in NearAddrs
        /\ free \in SUBSET Pages
        /\ dist = 0 /\ iter = 0
        /\ pc = "below"
        /\ page = NoPage
        /\ stayed = free

-----------------------------------------------------------------------------
\* Unsigned sums and differences wrap, which the code detects by comparing.
Target(side) == IF side = "above" THEN (Base + dist) % AddrLimit
                                  ELSE (Base - dist) % AddrLimit

\* Faulty variant of Wraps: overflow is not detected.
NeverWraps(side) == FALSE

Wraps(side) == IF side = "above" THEN Target(side) < Base ELSE Target(side) > Base

\* try_alloc_page_at: mmap with MAP_FIXED_NOREPLACE, which takes the page at
\* this address if it is free and fails otherwise.
Probe(side) ==
  /\ pc = side
  /\ ~Wraps(side)
  /\ Target(side) \in free
  /\ page' = Target(side)
  /\ free' = free \ {Target(side)}
  /\ pc' = "found"
  /\ UNCHANGED <<near, dist, iter, stayed>>

\* Faulty variant of AfterSide: the loop over is_above does not advance.
RepeatAbove == [below |-> "above", above |-> "above"]

AfterSide == [below |-> "above", above |-> "advance"]

PassOver(side) ==
  /\ pc = side
  /\ Wraps(side) \/ Target(side) \notin free
  /\ pc' = AfterSide[side]
  /\ UNCHANGED <<near, free, dist, iter, page, stayed>>

-----------------------------------------------------------------------------
Exponent == Smaller(iter \div StepEvery, MaxExponent)

\* Faulty variant of StepSize: the first doubling comes at once.
StepTooSoon ==
  PageSize * Smaller(Shifted[Smaller(1 + iter \div StepEvery, MaxExponent)], MaxFactor)

StepSize == PageSize * Smaller(Shifted[Exponent], MaxFactor)

\* Faulty variant of Advance: the distance is tested before it grows.
AdvanceUnchecked ==
  /\ pc = "advance"
  /\ dist' = dist + StepSize
  /\ iter' = iter + 1
  /\ pc' = IF dist < MaxSearchDist THEN "below" ELSE "failed"
  /\ UNCHANGED <<near, free, page, stayed>>

Advance ==
  /\ pc = "advance"
  /\ dist' = dist + StepSize
  /\ iter' = iter + 1
  /\ pc' = IF dist' < MaxSearchDist THEN "below" ELSE "failed"
  /\ UNCHANGED <<near, free, page, stayed>>

Search == Probe("below") \/ PassOver("below") \/ Probe("above") \/ PassOver("above") \/ Advance

-----------------------------------------------------------------------------
\* Other threads map and unmap pages while the search runs.
Searching == pc \notin {"found", "failed"}

OtherMaps == /\ Searching
             /\ \E p \in free : free' = free \ {p} /\ stayed' = stayed \ {p}
             /\ UNCHANGED <<near, dist, iter, pc, page>>

OtherUnmaps == /\ Searching
               /\ \E p \in Pages \ free : free' = free \cup {p}
               /\ UNCHANGED <<near, dist, iter, pc, page, stayed>>

Next == Search \/ OtherMaps \/ OtherUnmaps

Spec == Init /\ [][Next]_vars

\* The searching thread keeps running.
FairSpec == Spec /\ WF_vars(Search)

-----------------------------------------------------------------------------
Abs(n) == IF n < 0 THEN -n ELSE n

(***************************************************************************)
(* Types, and the bound of the search: no page is tried at a distance of   *)
(* MaxSearchDist or more.                                                  *)
(***************************************************************************)
TypeOK ==
  /\ near \in NearAddrs
  /\ free \subseteq Pages /\ stayed \subseteq Pages
  /\ dist \in Nat /\ iter \in Nat
  /\ pc \in {"below", "above", "advance", "found", "failed"}
  /\ page \in Pages \cup {NoPage}
  /\ page # NoPage <=> pc = "found"
  /\ pc # "failed" => dist < MaxSearchDist

(***************************************************************************)
(* install() can always reach the trampoline: the 32 bit jump from the     *)
(* target to any byte of the page found does not make encode_rel_jmp throw.*)
(***************************************************************************)
JumpAlwaysEncodes ==
  pc = "found" =>
    \A offset \in 0..(PageSize - 1) : RelJmpEncodes(near, page + offset)

(***************************************************************************)
(* Near the target the search misses nothing: a page that was free all the *)
(* time, no more than StepEvery pages away, is not passed over for one     *)
(* further away, nor by failing.                                           *)
(***************************************************************************)
NearPagesNotSkipped ==
  \A p \in stayed :
    LET d == Abs(p - Base) IN
    d <= StepEvery * PageSize /\ d < MaxSearchDist =>
      /\ pc # "failed"
      /\ pc = "found" => Abs(page - Base) <= d

(***************************************************************************)
(* The search comes to an end, whatever other threads do.                  *)
(***************************************************************************)
SearchEnds == <>(pc \in {"found", "failed"})
=============================================================================
