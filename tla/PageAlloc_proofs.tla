-------------------------- MODULE PageAlloc_proofs --------------------------
(***************************************************************************)
(* Proofs about the search for a page: for any page size, address space,   *)
(* table of steps and behaviour of the other threads, the page found is    *)
(* within reach of a 32 bit jump.                                          *)
(***************************************************************************)
EXTENDS PageAlloc, TLAPS

\* The page found is no farther away than the search went.
InReach ==
  pc = "found" => page - Base <= dist /\ Base - page <= dist

PageInv == TypeOK /\ InReach

-----------------------------------------------------------------------------
\* The base of the search is the beginning of the page of near_ptr.
LEMMA BaseBelowNear ==
  ASSUME near \in NearAddrs
  PROVE  /\ Base \in Int
         /\ near \in Int /\ near < AddrLimit
         /\ Base >= 0 /\ Base <= near /\ near - Base < PageSize
<1>1. near \in 0..(AddrLimit - 1) /\ PageSize \in Nat \ {0} /\ AddrLimit \in Nat
  BY AddressAssumption
<1>2. near % PageSize \in 0..(PageSize - 1) /\ near % PageSize <= near
  BY <1>1
<1>3. QED  BY <1>1, <1>2 DEF Base, Align

\* A target that has not wrapped is at most dist away from the base.
LEMMA TargetInReach ==
  ASSUME near \in NearAddrs, dist \in Nat, NEW side \in {"below", "above"}, ~Wraps(side)
  PROVE  /\ Target(side) \in Int
         /\ Target(side) - Base <= dist /\ Base - Target(side) <= dist
<1>1. AddrLimit \in Nat \ {0} /\ Base \in Int /\ Base >= 0 /\ Base < AddrLimit
  BY BaseBelowNear, AddressAssumption
<1>2. CASE side = "above"
  <2>1. Base + dist \in Int /\ Base + dist >= 0
    BY <1>1
  <2>2. (Base + dist) % AddrLimit \in Int /\ (Base + dist) % AddrLimit <= Base + dist
    BY <1>1, <2>1
  <2>3. QED  BY <1>1, <1>2, <2>2 DEF Wraps, Target
<1>3. CASE side = "below"
  <2>1. Base - dist \in Int /\ Base - dist < AddrLimit
    BY <1>1
  <2>2. (Base - dist) % AddrLimit \in Int /\ (Base - dist) % AddrLimit >= Base - dist
    BY <1>1, <2>1
  <2>3. QED  BY <1>1, <1>3, <2>2 DEF Wraps, Target
<1>4. QED  BY <1>2, <1>3

-----------------------------------------------------------------------------
\* The step is a positive number of bytes, whatever the iteration.
LEMMA StepIsPositive ==
  ASSUME iter \in Nat
  PROVE  StepSize \in Nat \ {0}
<1>1. iter \div StepEvery \in Nat
  BY SearchAssumption
<1>2. Exponent \in 0..MaxExponent
  BY <1>1, SearchAssumption DEF Exponent, Smaller
<1>3. Smaller(Shifted[Exponent], MaxFactor) \in Nat \ {0}
  BY <1>2, SearchAssumption DEF Smaller
<1>4. QED  BY <1>3, AddressAssumption DEF StepSize

LEMMA PageInvInit == Init => PageInv
<1> SUFFICES ASSUME Init PROVE PageInv
  OBVIOUS
<1> USE DEF Init
<1>1. TypeOK
  BY SearchAssumption, AddressAssumption DEF TypeOK, Pages
<1>2. QED  BY <1>1 DEF PageInv, InReach

LEMMA PageInvStep == PageInv /\ [Next]_vars => PageInv'
<1> SUFFICES ASSUME PageInv, [Next]_vars PROVE PageInv'
  OBVIOUS
<1> USE DEF PageInv
<1>1. ASSUME NEW side \in {"below", "above"}, Probe(side) PROVE PageInv'
  <2>1. /\ page' = Target(side) /\ pc' = "found" /\ free' \subseteq free
        /\ UNCHANGED <<near, dist, iter, stayed>>
    BY <1>1 DEF Probe
  <2>2. page' \in Pages /\ dist < MaxSearchDist
    BY <1>1 DEF Probe, TypeOK
  <2>3. page' # NoPage
    BY <2>2, AddressAssumption DEF Pages
  <2>4. TypeOK'
    BY <2>1, <2>2, <2>3 DEF TypeOK
  <2>5. page' - Base <= dist /\ Base - page' <= dist
    BY <1>1, <2>1, TargetInReach DEF Probe, TypeOK
  <2>6. InReach'
    BY <2>1, <2>5 DEF InReach, Base
  <2>7. QED  BY <2>4, <2>6
<1>2. ASSUME NEW side \in {"below", "above"}, PassOver(side) PROVE PageInv'
  BY <1>2 DEF PassOver, AfterSide, TypeOK, InReach
<1>3. CASE Advance
  <2>1. dist' \in Nat /\ iter' \in Nat
    BY <1>3, StepIsPositive DEF Advance, TypeOK
  <2>2. QED  BY <1>3, <2>1 DEF Advance, TypeOK, InReach
<1>4. CASE OtherMaps \/ OtherUnmaps
  BY <1>4 DEF OtherMaps, OtherUnmaps, Searching, TypeOK, InReach
<1>5. CASE UNCHANGED vars
  BY <1>5 DEF vars, TypeOK, InReach, Base
<1>6. QED  BY <1>1, <1>2, <1>3, <1>4, <1>5 DEF Next, Search

(***************************************************************************)
(* Types and the bound of the search.                                      *)
(***************************************************************************)
THEOREM SearchBounded == Spec => []TypeOK
<1>1. PageInv => TypeOK  BY DEF PageInv
<1>2. QED  BY <1>1, PageInvInit, PageInvStep, PTL DEF Spec

(***************************************************************************)
(* Whatever page alloc_page_near finds, encode_rel_jmp encodes the jump of *)
(* install() from the target to the trampoline in it.                      *)
(***************************************************************************)
THEOREM JumpCorrect == Spec => []JumpAlwaysEncodes
<1>1. PageInv => JumpAlwaysEncodes
  <2> SUFFICES ASSUME PageInv, pc = "found", NEW offset \in 0..(PageSize - 1)
               PROVE  RelJmpEncodes(near, page + offset)
    BY DEF JumpAlwaysEncodes
  <2>1. /\ page \in Int /\ dist \in Nat /\ dist < MaxSearchDist
        /\ page - Base <= dist /\ Base - page <= dist
    BY DEF PageInv, TypeOK, InReach, Pages
  <2>2. /\ Base \in Int /\ near \in Int
        /\ Base <= near /\ near - Base < PageSize
    BY BaseBelowNear DEF PageInv, TypeOK
  <2>3. QED
    BY <2>1, <2>2, AddressAssumption, SearchAssumption, JumpAssumption
       DEF RelJmpEncodes, RelJmpSize
<1>2. QED  BY <1>1, PageInvInit, PageInvStep, PTL DEF Spec

-----------------------------------------------------------------------------
(* Near the target.                                                        *)

Distance(p) == Abs(p - Base)
\* The pages the search may not pass over.
Near(p) == Distance(p) <= StepEvery * PageSize /\ Distance(p) < MaxSearchDist

\* The first StepEvery steps are one page each.
StepsOK ==
  /\ iter < StepEvery => dist = iter * PageSize
  /\ iter >= StepEvery => dist >= StepEvery * PageSize

\* Where a page that stayed free may be, seen from the search.
Ahead(p) ==
  /\ pc = "below" => Distance(p) >= dist
  /\ pc = "above" => Distance(p) > dist \/ p = Base + dist
  /\ pc = "advance" => Distance(p) > dist
  /\ pc = "found" => Distance(page) <= Distance(p)
  /\ pc # "failed"

NearInv ==
  /\ PageInv /\ StepsOK /\ stayed \subseteq free \cup {page}
  /\ pc \notin {"found", "failed"} => stayed \subseteq free
  /\ \A p \in stayed : Near(p) => Ahead(p)

\* Numbers of whole pages.
LEMMA WholePages ==
  ASSUME NEW k \in Nat, NEW m \in Int, m * PageSize > k * PageSize
  PROVE  m * PageSize >= (k + 1) * PageSize
<1>1. PageSize \in Nat \ {0}
  BY AddressAssumption
<1>2. m > k
  <2>1. SUFFICES ASSUME m <= k  PROVE m * PageSize <= k * PageSize
    BY <1>1
  <2>2. k - m \in Nat /\ (k - m) * PageSize >= 0
    BY <1>1, <2>1
  <2>3. k * PageSize = m * PageSize + (k - m) * PageSize
    BY <1>1
  <2>4. QED  BY <1>1, <2>2, <2>3
<1>3. m - (k + 1) \in Nat /\ (m - (k + 1)) * PageSize >= 0
  BY <1>1, <1>2
<1>4. m * PageSize = (k + 1) * PageSize + (m - (k + 1)) * PageSize
  BY <1>1
<1>5. QED  BY <1>1, <1>3, <1>4

LEMMA Division ==
  ASSUME NEW p \in Int, NEW q \in Nat \ {0}
  PROVE  \E m \in Int : p - (p % q) = m * q
<1>1. p \div q \in Int
  OBVIOUS
<1>2. p = q * (p \div q) + (p % q)
  BY SMTT(30)
<1>3. q * (p \div q) = (p \div q) * q /\ q * (p \div q) \in Int /\ p % q \in Int
  BY <1>1
<1>4. p - (p % q) = (p \div q) * q
  BY <1>2, <1>3
<1>5. QED  BY <1>1, <1>4

LEMMA WholeDistance ==
  ASSUME near \in NearAddrs, NEW p \in Pages
  PROVE  /\ p \in Int /\ Distance(p) \in Nat
         /\ \E m \in Int : Distance(p) = m * PageSize
<1>1. PageSize \in Nat \ {0} /\ p \in Int /\ p % PageSize = 0 /\ near \in Int /\ Base \in Int
  BY AddressAssumption, BaseBelowNear DEF Pages
<1>2. PICK a \in Int : p = a * PageSize
  <2>1. \E m \in Int : p - (p % PageSize) = m * PageSize
    BY <1>1, Division
  <2>2. QED  BY <1>1, <2>1
<1>3. PICK b \in Int : Base = b * PageSize
  BY <1>1, Division DEF Base, Align
<1>4. p - Base = (a - b) * PageSize /\ Base - p = (b - a) * PageSize
  BY <1>1, <1>2, <1>3
<1>5. Distance(p) \in Nat
  BY <1>1 DEF Distance, Abs
<1>6. Distance(p) = p - Base \/ Distance(p) = Base - p
  BY <1>1 DEF Distance, Abs
<1>7. a - b \in Int /\ b - a \in Int
  OBVIOUS
<1>8. \E m \in Int : Distance(p) = m * PageSize
  BY <1>4, <1>6, <1>7, Zenon
<1>9. QED  BY <1>1, <1>5, <1>8

\* Steps near the target.
LEMMA NearSteps ==
  ASSUME iter \in Nat, iter < StepEvery
  PROVE  StepSize = PageSize
<1>1. iter \div StepEvery = 0
  BY SearchAssumption
<1>2. Exponent = 0
  BY <1>1, SearchAssumption DEF Exponent, Smaller
<1>3. QED  BY <1>2, SearchAssumption, AddressAssumption DEF StepSize, Smaller

\* The page at a distance is the target of the search at that distance.
LEMMA TargetIsPage ==
  ASSUME near \in NearAddrs, dist \in Nat, NEW p \in Pages, NEW side \in {"below", "above"},
         side = "below" => p = Base - dist,
         side = "above" => p = Base + dist
  PROVE  Target(side) = p /\ ~Wraps(side)
<1>1. /\ AddrLimit \in Nat \ {0} /\ p \in 0..(AddrLimit - 1) /\ Base \in Int
  BY BaseBelowNear, AddressAssumption DEF Pages
<1>2. p % AddrLimit = p
  BY <1>1
<1>3. CASE side = "below"
  BY <1>1, <1>2, <1>3 DEF Target, Wraps
<1>4. CASE side = "above"
  BY <1>1, <1>2, <1>4 DEF Target, Wraps
<1>5. QED  BY <1>3, <1>4

LEMMA NearInvInit == Init => NearInv
<1> SUFFICES ASSUME Init  PROVE NearInv
  OBVIOUS
<1>1. StepsOK
  BY SearchAssumption, AddressAssumption DEF Init, StepsOK
<1>2. ASSUME NEW p \in stayed  PROVE Ahead(p)
  <2>1. p \in Pages /\ near \in NearAddrs
    BY <1>2 DEF Init
  <2>2. QED  BY <2>1, WholeDistance DEF Init, Ahead
<1>3. QED  BY <1>1, <1>2, PageInvInit DEF NearInv, Init

\* A page found is as near as the search went.
LEMMA ProbeKeepsNear ==
  ASSUME NearInv, NEW side \in {"below", "above"}, Probe(side)
  PROVE  NearInv'
<1>1. /\ pc = side /\ page' = Target(side) /\ pc' = "found" /\ free' = free \ {Target(side)}
      /\ UNCHANGED <<near, dist, iter, stayed>>
  BY DEF Probe
<1>2. PageInv'
  BY PageInvStep DEF NearInv, Next, Search
<1>3. StepsOK' /\ stayed' \subseteq free' \cup {page'}
  BY <1>1 DEF NearInv, StepsOK
<1>4. /\ Base \in Int /\ dist \in Nat /\ Target(side) \in Int
      /\ Target(side) - Base <= dist /\ Base - Target(side) <= dist
  BY TargetInReach, BaseBelowNear DEF Probe, NearInv, PageInv, TypeOK
<1>5. ASSUME NEW p \in stayed, Near(p)  PROVE Ahead(p)'
  <2>1. p \in Int /\ Distance(p) \in Nat /\ Ahead(p)
    BY <1>5, WholeDistance DEF NearInv, PageInv, TypeOK
  <2>2. Distance(p) >= dist
    BY <1>1, <1>4, <2>1 DEF Ahead, Distance, Abs
  <2>3. Distance(page') <= Distance(p)
    BY <1>1, <1>4, <2>1, <2>2 DEF Distance, Abs
  <2>4. Distance(p)' = Distance(p) /\ Distance(page)' = Distance(page')
    BY <1>1 DEF Distance, Base
  <2>5. QED  BY <1>1, <2>3, <2>4 DEF Ahead
<1>6. \A p \in stayed : Near(p)' <=> Near(p)
  BY <1>1 DEF Near, Distance, Base
<1>7. QED  BY <1>1, <1>2, <1>3, <1>5, <1>6 DEF NearInv

\* What is passed over is not free, or not there.
LEMMA PassOverKeepsNear ==
  ASSUME NearInv, NEW side \in {"below", "above"}, PassOver(side)
  PROVE  NearInv'
<1>1. /\ pc = side
      /\ Wraps(side) \/ Target(side) \notin free
      /\ pc' = IF side = "below" THEN "above" ELSE "advance"
      /\ UNCHANGED <<near, free, dist, iter, page, stayed>>
  BY DEF PassOver, AfterSide
<1>2. PageInv'
  BY PageInvStep DEF NearInv, Next, Search
<1>3. StepsOK' /\ stayed' \subseteq free'
  BY <1>1 DEF NearInv, StepsOK
<1>4. ASSUME NEW p \in stayed, Near(p)  PROVE Ahead(p)'
  <2>1. /\ p \in Pages /\ p \in free /\ p \in Int /\ Distance(p) \in Nat /\ Ahead(p)
        /\ near \in NearAddrs /\ dist \in Nat /\ Base \in Int
    BY <1>1, <1>4, WholeDistance, BaseBelowNear DEF NearInv, PageInv, TypeOK
  <2>2. Distance(p)' = Distance(p) /\ Base' = Base
    BY <1>1 DEF Distance, Base
  <2>3. CASE side = "below"
    <3>1. p # Base - dist
      BY <1>1, <2>1, <2>3, TargetIsPage
    <3>2. Distance(p) >= dist
      BY <1>1, <2>1, <2>3 DEF Ahead
    <3>3. Distance(p) > dist \/ p = Base + dist
      BY <2>1, <3>1, <3>2 DEF Distance, Abs
    <3>4. QED  BY <1>1, <2>2, <2>3, <3>3 DEF Ahead
  <2>4. CASE side = "above"
    <3>1. p # Base + dist
      BY <1>1, <2>1, <2>4, TargetIsPage
    <3>2. QED  BY <1>1, <2>1, <2>2, <2>4, <3>1 DEF Ahead
  <2>5. QED  BY <2>3, <2>4
<1>5. \A p \in stayed : Near(p)' <=> Near(p)
  BY <1>1 DEF Near, Distance, Base
<1>6. QED  BY <1>1, <1>2, <1>3, <1>4, <1>5 DEF NearInv

\* The next step is one page, or the search is past the near ones.
LEMMA AdvanceKeepsNear ==
  ASSUME NearInv, Advance
  PROVE  NearInv'
<1>1. /\ pc = "advance" /\ dist' = dist + StepSize /\ iter' = iter + 1
      /\ pc' = IF dist' < MaxSearchDist THEN "below" ELSE "failed"
      /\ UNCHANGED <<near, free, page, stayed>>
      /\ iter \in Nat /\ dist \in Nat /\ near \in NearAddrs /\ stayed \subseteq Pages
      /\ StepSize \in Nat
  BY StepIsPositive DEF Advance, NearInv, PageInv, TypeOK
<1>2. PageInv'
  BY PageInvStep DEF NearInv, Next, Search
<1>3. PageSize \in Nat \ {0} /\ StepEvery \in Nat \ {0} /\ StepEvery * PageSize \in Nat
  BY AddressAssumption, SearchAssumption
<1>4. CASE iter < StepEvery
  <2>1. dist = iter * PageSize /\ dist' = (iter + 1) * PageSize
    BY <1>1, <1>3, <1>4, NearSteps DEF NearInv, StepsOK
  <2>2. iter + 1 >= StepEvery => iter + 1 = StepEvery
    BY <1>1, <1>3, <1>4
  <2>3. StepsOK'
    BY <1>1, <1>3, <2>1, <2>2 DEF StepsOK
  <2>4. ASSUME NEW p \in stayed, Near(p)  PROVE Ahead(p)'
    <3>1. Distance(p) > dist /\ Distance(p) < MaxSearchDist
      BY <1>1, <2>4 DEF NearInv, Ahead, Near
    <3>2. PICK m \in Int : Distance(p) = m * PageSize
      BY <1>1, WholeDistance
    <3>3. Distance(p) >= dist'
      BY <1>1, <2>1, <3>1, <3>2, WholePages
    <3>4. Distance(p)' = Distance(p) /\ Distance(p) \in Nat /\ dist' \in Nat
      BY <1>1, WholeDistance DEF Distance, Base
    <3>5. QED  BY <1>1, <3>1, <3>3, <3>4, SearchAssumption DEF Ahead
  <2>5. \A p \in stayed : Near(p)' <=> Near(p)
    BY <1>1 DEF Near, Distance, Base
  <2>6. QED  BY <1>1, <1>2, <2>3, <2>4, <2>5 DEF NearInv
<1>5. CASE iter >= StepEvery
  <2>1. dist >= StepEvery * PageSize
    BY <1>5 DEF NearInv, StepsOK
  <2>2. StepsOK'
    BY <1>1, <1>3, <1>5, <2>1 DEF StepsOK
  <2>3. ASSUME NEW p \in stayed  PROVE ~Near(p)
    <3>1. Near(p) => Distance(p) > dist
      BY <1>1, <2>3 DEF NearInv, Ahead
    <3>2. Distance(p) \in Nat
      BY <1>1, <2>3, WholeDistance
    <3>3. QED  BY <1>1, <1>3, <2>1, <3>1, <3>2 DEF Near
  <2>4. \A p \in stayed : Near(p)' <=> Near(p)
    BY <1>1 DEF Near, Distance, Base
  <2>5. QED  BY <1>1, <1>2, <2>2, <2>3, <2>4 DEF NearInv
<1>6. QED  BY <1>1, <1>3, <1>4, <1>5

(***************************************************************************)
(* The inductive invariant of a search that misses nothing: a page that    *)
(* stayed free near the target is still ahead of it.                       *)
(***************************************************************************)
THEOREM NearInvariant == Spec => []NearInv
<1>1. NearInv /\ [Next]_vars => NearInv'
  <2> SUFFICES ASSUME NearInv, [Next]_vars  PROVE NearInv'
    OBVIOUS
  <2>1. ASSUME OtherMaps \/ OtherUnmaps  PROVE NearInv'
    <3>1. /\ pc \notin {"found", "failed"} /\ stayed' \subseteq stayed /\ stayed' \subseteq free'
          /\ UNCHANGED <<near, dist, iter, pc, page>>
      BY <2>1 DEF OtherMaps, OtherUnmaps, Searching, NearInv
    <3>2. PageInv'
      BY <2>1, PageInvStep DEF NearInv, Next
    <3>3. \A p \in stayed : (Near(p)' <=> Near(p)) /\ (Ahead(p)' <=> Ahead(p))
      BY <3>1 DEF Near, Ahead, Distance, Base
    <3>4. QED  BY <3>1, <3>2, <3>3 DEF NearInv, StepsOK
  <2>2. ASSUME UNCHANGED vars  PROVE NearInv'
    <3>1. UNCHANGED <<near, free, dist, iter, pc, page, stayed>>
      BY <2>2 DEF vars
    <3>2. PageInv'
      BY PageInvStep DEF NearInv
    <3>3. \A p \in stayed : (Near(p)' <=> Near(p)) /\ (Ahead(p)' <=> Ahead(p))
      BY <3>1 DEF Near, Ahead, Distance, Base
    <3>4. QED  BY <3>1, <3>2, <3>3 DEF NearInv, StepsOK
  <2>3. QED
    BY <2>1, <2>2, ProbeKeepsNear, PassOverKeepsNear, AdvanceKeepsNear DEF Next, Search
<1>2. QED  BY <1>1, NearInvInit, PTL DEF Spec

(***************************************************************************)
(* A page that stayed free within StepEvery pages of the target is not     *)
(* passed over for one further away, nor by failing.                       *)
(***************************************************************************)
THEOREM NothingNearMissed == Spec => []NearPagesNotSkipped
<1>1. NearInv => NearPagesNotSkipped
  BY DEF NearInv, NearPagesNotSkipped, Near, Ahead, Distance
<1>2. QED  BY <1>1, NearInvariant, PTL

-----------------------------------------------------------------------------
\* What the search has before it: three steps for each distance.
SearchLeft ==
  IF Searching THEN 3 * (MaxSearchDist - dist)
                      + [below |-> 2, above |-> 1, advance |-> 0][pc]
               ELSE 0

(***************************************************************************)
(* Every step of the search leaves less of it, and nothing that the other  *)
(* threads do with their pages sends it back.                              *)
(***************************************************************************)
SearchAdvances ==
  [][SearchLeft' \in Nat /\ (SearchLeft' < SearchLeft \/ UNCHANGED <<dist, iter, pc, page>>)]_vars

(***************************************************************************)
(* Why the search ends: each of its steps leaves less before it, and what  *)
(* is left is a natural number.                                            *)
(***************************************************************************)
THEOREM SearchBoundedSteps == Spec => SearchAdvances /\ [](SearchLeft \in Nat)
<1> DEFINE Advances == \/ SearchLeft' < SearchLeft
                       \/ UNCHANGED <<dist, iter, pc, page>>
<1>1. PageInv => /\ SearchLeft \in Nat
                 /\ Searching => /\ dist \in Nat /\ dist < MaxSearchDist
                                 /\ pc \in {"below", "above", "advance"}
  BY SearchAssumption DEF PageInv, TypeOK, Searching, SearchLeft
<1>2. PageInv /\ [Next]_vars => PageInv' /\ SearchLeft' \in Nat
  <2>1. PageInv' => SearchLeft' \in Nat
    BY SearchAssumption DEF PageInv, TypeOK, Searching, SearchLeft
  <2>2. QED  BY <2>1, PageInvStep
<1>3. PageInv /\ [Next]_vars => [Advances]_vars
  <2> SUFFICES ASSUME PageInv, Next  PROVE Advances
    OBVIOUS
  <2>1. ASSUME NEW side \in {"below", "above"}, Probe(side)  PROVE SearchLeft' < SearchLeft
    <3>1. Searching /\ ~Searching'
      BY <2>1 DEF Probe, Searching
    <3>2. SearchLeft' = 0 /\ SearchLeft > 0
      BY <1>1, <2>1, <3>1, SearchAssumption DEF SearchLeft, Probe
    <3>3. QED  BY <3>2
  <2>2. ASSUME NEW side \in {"below", "above"}, PassOver(side)  PROVE SearchLeft' < SearchLeft
    BY <1>1, <2>2, SearchAssumption DEF PassOver, AfterSide, Searching, SearchLeft
  <2>3. CASE Advance
    <3>1. StepSize \in Nat \ {0}
      BY StepIsPositive DEF PageInv, TypeOK
    <3>2. /\ Searching /\ SearchLeft = 3 * (MaxSearchDist - dist)
          /\ dist \in Nat /\ dist < MaxSearchDist
      BY <1>1, <2>3, SearchAssumption DEF Advance, Searching, SearchLeft
    <3>3. dist' = dist + StepSize
      BY <2>3 DEF Advance
    <3>4. CASE pc' = "below"
      <4>1. SearchLeft' = 3 * (MaxSearchDist - dist') + 2
        BY <3>4 DEF Searching, SearchLeft
      <4>2. QED  BY <3>1, <3>2, <3>3, <4>1, SearchAssumption
    <3>5. CASE pc' = "failed"
      <4>1. SearchLeft' = 0
        BY <3>5 DEF Searching, SearchLeft
      <4>2. QED  BY <3>2, <4>1, SearchAssumption
    <3>6. QED  BY <2>3, <3>4, <3>5 DEF Advance
  <2>4. CASE OtherMaps \/ OtherUnmaps
    BY <2>4 DEF OtherMaps, OtherUnmaps
  <2>5. QED  BY <2>1, <2>2, <2>3, <2>4 DEF Next, Search
<1>4. QED  BY <1>1, <1>2, <1>3, PageInvInit, PTL DEF Spec, SearchAdvances
=============================================================================
