------------------------ MODULE HookRetarget_proofs ------------------------
(***************************************************************************)
(* Proofs about the lifetime of HookInst::Inner, for any number of calls,  *)
(* target functions and replacements.                                      *)
(***************************************************************************)
EXTENDS HookRetarget, FiniteSetTheorems, TLAPS

(***************************************************************************)
(* What holds however long a call takes to be counted.                     *)
(***************************************************************************)
Points == {"caller", "hop", "entry", "counting", "guarded", "detour", "original",
           "uncounting", "notify"}

CallTyped ==
  call \in [Calls -> [at : Points, func : Funcs \cup {NoFunc}, via : Inners \cup {NoInner},
                      ref : Inners \cup {NoInner}, orig : Inners \cup {NoInner}]]
Referring(c) == call[c].at \in {"counting", "guarded", "detour", "original", "uncounting", "notify"}
CallsOK == CallTyped /\ \A c \in Calls : Referring(c) => call[c].ref \in Inners

\* The Inner that is built or destroyed is never the one the hook has.
OtherOK ==
  /\ ctl.pc \in {"map", "write", "publish", "swap", "destroy"} =>
       /\ ctl.other \in Inners /\ ctl.other # current
       /\ ~inner[ctl.other].installed
  /\ ctl.pc \in {"map", "write", "publish"} => inner[ctl.other].life = "building"
  /\ ctl.pc = "write" => inner[ctl.other].page = "mapped"
  /\ ctl.pc = "map" => inner[ctl.other].page = "none"
  /\ ctl.pc \in {"map", "write"} => inner[ctl.other].target # NoFunc
  /\ ctl.pc = "publish" =>
       (inner[ctl.other].page = "mapped" <=> inner[ctl.other].target # NoFunc)
  /\ ctl.pc \in {"swap", "destroy"} => inner[ctl.other].life = "live"

\* The hook has a live Inner; its flag and the heads go together.
HeadsOK ==
  /\ inner[current].life = "live"
  /\ inner[current].installed => ctl.pc \in {"idle", "drain"} /\ inner[current].target # NoFunc
  /\ ctl.pc = "drain" => inner[current].installed
  /\ \A f \in Funcs : head[f] # NoInner =>
       /\ ctl.pc = "idle" /\ head[f] = current
       /\ inner[current].installed /\ inner[current].target = f

\* Whose original _original_ptr is.
OriginalOf(g) == IF inner[g].target = NoFunc THEN NoInner ELSE g
OriginalOK ==
  IF ctl.pc = "swap" THEN originalPtr = OriginalOf(ctl.other)
                     ELSE originalPtr = OriginalOf(current)

LifeInv == TypeOK /\ CallsOK /\ OtherOK /\ HeadsOK /\ OriginalOK

-----------------------------------------------------------------------------
LEMMA LifeInvInit == Init => LifeInv
<1> SUFFICES ASSUME Init  PROVE LifeInv
  OBVIOUS
<1>1. PICK f \in Funcs \cup {NoFunc} :
        /\ inner = [g \in Inners |->
             IF g # 1 THEN Blank
             ELSE [Blank EXCEPT !.target = f, !.life = "live",
                                !.page = IF f = NoFunc THEN "none" ELSE "mapped"]]
        /\ current = 1
        /\ originalPtr = IF f = NoFunc THEN NoInner ELSE 1
        /\ head = [g \in Funcs |-> NoInner]
        /\ ctl = [pc |-> "idle", other |-> NoInner]
        /\ call = [c \in Calls |-> [at |-> "caller", func |-> NoFunc, via |-> NoInner,
                                    ref |-> NoInner, orig |-> NoInner]]
        /\ fault = "none" /\ late = {} /\ exposed = FALSE
  BY DEF Init
<1>2. 1 \in Inners /\ NoInner \notin Inners
  BY RetargetAssumption DEF Inners, NoInner
<1>3. inner[1].target = f /\ inner[1].life = "live" /\ ~inner[1].installed
  BY <1>1, <1>2 DEF Blank
<1>4. TypeOK
  BY <1>1, <1>2 DEF TypeOK, Blank
<1>5. CallsOK
  BY <1>1 DEF CallsOK, CallTyped, Referring, Points
<1>6. OtherOK /\ HeadsOK /\ OriginalOK
  BY <1>1, <1>2, <1>3 DEF OtherOK, HeadsOK, OriginalOK, OriginalOf
<1>7. QED  BY <1>4, <1>5, <1>6 DEF LifeInv

\* Installing and uninstalling.
LEMMA InstallKeepsLife ==
  ASSUME LifeInv, Install \/ Unpatch \/ Drain
  PROVE  LifeInv'
<1> USE DEF LifeInv, TypeOK, CtlAt, Running, CtlGoto, Uncounted, history
<1>1. current \in Inners /\ NoInner \notin Inners
  BY RetargetAssumption DEF Inners, NoInner
<1>2. CASE Install
  <2>1. TypeOK' /\ CallsOK'
    BY <1>1, <1>2 DEF Install, CallsOK, CallTyped, Referring
  <2>2. OtherOK' /\ HeadsOK' /\ OriginalOK'
    BY <1>1, <1>2 DEF Install, OtherOK, HeadsOK, OriginalOK, OriginalOf
  <2>3. QED  BY <2>1, <2>2
<1>3. CASE Unpatch
  <2>1. TypeOK' /\ CallsOK'
    BY <1>1, <1>3 DEF Unpatch, CallsOK, CallTyped, Referring
  <2>2. OtherOK' /\ HeadsOK' /\ OriginalOK'
    BY <1>1, <1>3 DEF Unpatch, OtherOK, HeadsOK, OriginalOK, OriginalOf
  <2>3. QED  BY <2>1, <2>2
<1>4. CASE Drain
  <2>0. inner' = [inner EXCEPT ![current].installed = FALSE] /\ call' = call
    BY <1>4 DEF Drain
  <2>1. CallsOK'
    BY <2>0 DEF CallsOK, CallTyped, Referring
  <2>3. TypeOK'
    <3>1. /\ ctl' = [ctl EXCEPT !.pc = "idle"]
          /\ UNCHANGED <<current, originalPtr, head, fault, exposed>>
          /\ late' \in SUBSET Calls
      BY <1>4 DEF Drain
    <3>2. /\ \A g \in Inners : /\ inner'[g].life = inner[g].life /\ inner'[g].page = inner[g].page
                              /\ inner'[g].target = inner[g].target
          /\ inner' \in [Inners -> [target : Funcs \cup {NoFunc}, installed : BOOLEAN,
                                  active : Nat, page : {"none", "mapped", "freed"},
                                  life : {"none", "building", "live", "destroyed"}]]
      BY <1>1, <2>0
    <3>3. QED  BY <3>1, <3>2
  <2>2. OtherOK' /\ HeadsOK' /\ OriginalOK'
    BY <1>1, <1>4 DEF Drain, OtherOK, HeadsOK, OriginalOK, OriginalOf
  <2>4. QED  BY <2>1, <2>2, <2>3
<1>5. QED  BY <1>2, <1>3, <1>4

\* Changing the target.
LEMMA ChangeKeepsLife ==
  ASSUME LifeInv, BeginChange \/ MapPage \/ PublishOriginal \/ SwapInner
  PROVE  LifeInv'
<1> USE DEF LifeInv, TypeOK, CtlAt, Running, CtlGoto, Uncounted, history
<1>1. current \in Inners /\ NoInner \notin Inners
  BY RetargetAssumption DEF Inners, NoInner
<1>2. CASE BeginChange
  <2>1. PICK f \in Funcs \cup {NoFunc}, g \in Inners :
          /\ inner[g].life = "none"
          /\ inner' = [inner EXCEPT ![g] = [Blank EXCEPT !.target = f, !.life = "building"]]
          /\ ctl' = [pc |-> IF f = NoFunc THEN "publish" ELSE "map", other |-> g]
    BY <1>2 DEF BeginChange
  <2>2. g # current
    BY <2>1 DEF HeadsOK
  <2>3. TypeOK' /\ CallsOK'
    BY <1>1, <1>2, <2>1 DEF BeginChange, CallsOK, CallTyped, Referring, Blank
  <2>4. OtherOK' /\ HeadsOK' /\ OriginalOK'
    BY <1>1, <1>2, <2>1, <2>2 DEF BeginChange, OtherOK, HeadsOK, OriginalOK, OriginalOf, Blank
  <2>5. QED  BY <2>3, <2>4
<1>3. CASE MapPage
  <2>0. ctl.other \in Inners /\ ctl.other # current
    BY <1>3 DEF MapPage, OtherOK
  <2>1. CallsOK'
    BY <1>3 DEF MapPage, CallsOK, CallTyped, Referring
  <2>3. TypeOK'
    BY <1>1, <1>3, <2>0 DEF MapPage, OtherOK
  <2>2. OtherOK' /\ HeadsOK' /\ OriginalOK'
    BY <1>1, <1>3 DEF MapPage, OtherOK, HeadsOK, OriginalOK, OriginalOf
  <2>4. QED  BY <2>1, <2>2, <2>3
<1>4. CASE PublishOriginal
  <2>1. TypeOK' /\ CallsOK'
    BY <1>1, <1>4 DEF PublishOriginal, CallsOK, CallTyped, Referring, OtherOK
  <2>2. OtherOK' /\ HeadsOK' /\ OriginalOK'
    BY <1>1, <1>4 DEF PublishOriginal, OtherOK, HeadsOK, OriginalOK, OriginalOf
  <2>3. QED  BY <2>1, <2>2
<1>5. CASE SwapInner
  <2>1. TypeOK' /\ CallsOK'
    BY <1>1, <1>5 DEF SwapInner, CallsOK, CallTyped, Referring, OtherOK
  <2>2. OtherOK' /\ HeadsOK' /\ OriginalOK'
    BY <1>1, <1>5 DEF SwapInner, OtherOK, HeadsOK, OriginalOK, OriginalOf
  <2>3. QED  BY <2>1, <2>2
<1>6. QED  BY <1>2, <1>3, <1>4, <1>5

\* A destruction, of a half-built Inner or of the old one.
LEMMA DestroyKeepsLife ==
  ASSUME LifeInv, WriteCode \/ DestroyOld
  PROVE  LifeInv'
<1> USE DEF LifeInv, TypeOK, CtlAt, Running, CtlGoto, Uncounted, history
<1>1. current \in Inners /\ NoInner \notin Inners
  BY RetargetAssumption DEF Inners, NoInner
<1>2. CASE WriteCode /\ ctl'.pc = "publish"
  BY <1>1, <1>2 DEF WriteCode, CallsOK, CallTyped, Referring, OtherOK, HeadsOK, OriginalOK, OriginalOf
<1>3. CASE (WriteCode /\ ctl'.pc # "publish") \/ DestroyOld
  <2>1. /\ ctl.pc \in {"write", "destroy"} /\ ctl' = [ctl EXCEPT !.pc = "idle"]
        /\ Destroy(ctl.other) /\ UNCHANGED <<current, originalPtr, head, call, late, exposed>>
    BY <1>3 DEF WriteCode, DestroyOld
  <2>2. ctl.other \in Inners /\ ctl.other # current /\ ctl'.pc = "idle"
    BY <2>1 DEF OtherOK
  <2>3. TypeOK' /\ CallsOK'
    BY <1>1, <2>1, <2>2 DEF Destroy, CallsOK, CallTyped, Referring
  <2>4. OtherOK' /\ HeadsOK' /\ OriginalOK'
    BY <1>1, <2>1, <2>2 DEF Destroy, OtherOK, HeadsOK, OriginalOK, OriginalOf
  <2>5. QED  BY <2>3, <2>4
<1>4. QED  BY <1>2, <1>3

\* A call changes nothing of an Inner but the counter of its gate.
LEMMA CallTouches ==
  ASSUME LifeInv, NEW c \in Calls, CallStep(c)
  PROVE  /\ UNCHANGED <<current, originalPtr, head, ctl, exposed>>
         /\ late' = late \/ (late' = late \ {c} /\ call'[c].at = "caller")
         /\ fault' \in {"none", "freedCode", "useAfterFree"}
         /\ \/ inner' = inner
            \/ \E g \in Inners : inner' = [inner EXCEPT ![g].active = @ + 1]
            \/ \E g \in Inners : inner[g].active > 0 /\ inner' = [inner EXCEPT ![g].active = @ - 1]
         /\ CallsOK'
<1> USE DEF CallAt, Running, Fail, history, ReturnFrom
<1>1. /\ current \in Inners /\ originalPtr \in Inners \cup {NoInner}
      /\ head \in [Funcs -> Inners \cup {NoInner}]
      /\ CallsOK
  BY DEF LifeInv, TypeOK
<1>2. CASE Arrive(c)
  <2>1. PICK f \in Funcs : call' = [call EXCEPT ![c] = [at |-> "hop", func |-> f, via |-> head[f],
                                             ref |-> NoInner, orig |-> NoInner]]
    BY <1>2 DEF Arrive
  <2>2. head[f] \in Inners \cup {NoInner}
    BY <1>1
  <2>3. CallTyped'
    BY <1>1, <2>1, <2>2 DEF CallsOK, CallTyped, Points
  <2>4. \A d \in Calls : Referring(d)' => call'[d].ref \in Inners
    BY <1>1, <2>1 DEF CallsOK, CallTyped, Referring
  <2>5. QED  BY <1>2, <2>3, <2>4 DEF Arrive, CallsOK
<1>3. CASE Hop(c) \/ CallOriginal(c) \/ Notify(c)
  BY <1>1, <1>3 DEF Hop, CallOriginal, Notify, CallsOK, CallTyped, Referring, Points
<1>4. CASE LoadInner(c) \/ LoadOriginal(c) \/ LoadInnerAgain(c)
  BY <1>1, <1>4 DEF LoadInner, LoadOriginal, LoadInnerAgain, CallsOK, CallTyped, Referring, Points
<1>5. CASE Count(c)
  <2>1. call[c].ref \in Inners
    BY <1>1, <1>5 DEF Count, CallsOK, Referring
  <2>2. CallsOK'
    BY <1>1, <1>5, <2>1 DEF Count, CallsOK, CallTyped, Referring, Points
  <2>3. QED  BY <1>5, <2>1, <2>2 DEF Count
<1>6. CASE Uncount(c)
  <2>1. call[c].ref \in Inners
    BY <1>1, <1>6 DEF Uncount, CallsOK, Referring
  <2>2. CallsOK'
    BY <1>1, <1>6, <2>1 DEF Uncount, CallsOK, CallTyped, Referring, Points
  <2>3. late' = late \/ (late' = late \ {c} /\ call'[c].at = "caller")
    BY <1>1, <1>6 DEF Uncount, CallsOK, CallTyped
  <2>4. QED  BY <1>6, <2>1, <2>2, <2>3 DEF Uncount
<1>7. QED  BY <1>2, <1>3, <1>4, <1>5, <1>6 DEF CallStep

LEMMA CallKeepsLife ==
  ASSUME LifeInv, NEW c \in Calls, CallStep(c)
  PROVE  LifeInv'
<1>1. /\ UNCHANGED <<current, originalPtr, head, ctl, exposed>>
      /\ late' \subseteq late
      /\ fault' \in {"none", "freedCode", "useAfterFree"}
      /\ CallsOK'
  BY CallTouches
<1>2. /\ inner' \in [Inners -> [target : Funcs \cup {NoFunc}, installed : BOOLEAN,
                               active : Nat, page : {"none", "mapped", "freed"},
                               life : {"none", "building", "live", "destroyed"}]]
      /\ \A g \in Inners : /\ inner'[g].target = inner[g].target
                           /\ inner'[g].installed = inner[g].installed
                           /\ inner'[g].page = inner[g].page
                           /\ inner'[g].life = inner[g].life
  <2> USE DEF LifeInv, TypeOK
  <2>1. CASE inner' = inner
    BY <2>1
  <2>2. ASSUME NEW g \in Inners, inner' = [inner EXCEPT ![g].active = @ + 1]  PROVE <1>2!1 /\ <1>2!2
    BY <2>2
  <2>3. ASSUME NEW g \in Inners, inner[g].active > 0, inner' = [inner EXCEPT ![g].active = @ - 1]
        PROVE  <1>2!1 /\ <1>2!2
    <3>1. inner[g].active - 1 \in Nat
      BY <2>3
    <3>2. QED  BY <2>3, <3>1
  <2>4. QED  BY <2>1, <2>2, <2>3, CallTouches
<1>3. TypeOK'
  BY <1>1, <1>2 DEF LifeInv, TypeOK
<1>4. current \in Inners
  BY DEF LifeInv, TypeOK
<1>5. OtherOK'
  BY <1>1, <1>2, <1>4 DEF LifeInv, OtherOK
<1>6. HeadsOK'
  BY <1>1, <1>2, <1>4 DEF LifeInv, HeadsOK
<1>7. OriginalOK'
  <2>1. ctl.pc = "swap" => ctl.other \in Inners
    BY DEF LifeInv, OtherOK
  <2>2. QED  BY <1>1, <1>2, <1>4, <2>1 DEF LifeInv, OriginalOK, OriginalOf
<1>8. QED  BY <1>1, <1>3, <1>5, <1>6, <1>7 DEF LifeInv

\* No controller step changes a call, and no step changes a call but its own.
LEMMA LifeInvStep == LifeInv /\ [Next]_vars => LifeInv'
<1> SUFFICES ASSUME LifeInv, [Next]_vars  PROVE LifeInv'
  OBVIOUS
<1>1. CASE ControllerStep
  BY <1>1, InstallKeepsLife, ChangeKeepsLife, DestroyKeepsLife DEF ControllerStep
<1>2. CASE \E c \in Calls : CallStep(c)
  BY <1>2, CallKeepsLife
<1>3. CASE UNCHANGED vars
  BY <1>3 DEF vars, history, LifeInv, TypeOK, CallsOK, CallTyped, Referring, OtherOK, HeadsOK, OriginalOK,
              OriginalOf
<1>4. QED  BY <1>1, <1>2, <1>3 DEF Next

THEOREM LifeInvariant == Spec => []LifeInv
BY LifeInvInit, LifeInvStep, PTL DEF Spec

(***************************************************************************)
(* Types, and the life of the pages of all Inner objects.                  *)
(***************************************************************************)
THEOREM RetargetTypeCorrect == Spec => []TypeOK
<1>1. LifeInv => TypeOK  BY DEF LifeInv
<1>2. QED  BY <1>1, LifeInvariant, PTL

(***************************************************************************)
(* No sequence of install, uninstall and change_target_func leaves a jump  *)
(* to an Inner that is gone, however late calls are counted.               *)
(***************************************************************************)
THEOREM HeadsCorrect == Spec => []InstalledHeadIsLive
<1>1. LifeInv => InstalledHeadIsLive
  BY DEF LifeInv, HeadsOK, InstalledHeadIsLive
<1>2. QED  BY <1>1, LifeInvariant, PTL

(***************************************************************************)
(* Between two operations the original pointer belongs to the target.      *)
(***************************************************************************)
THEOREM OriginalCorrect == Spec => []OriginalOfCurrent
<1>1. LifeInv => OriginalOfCurrent
  BY DEF LifeInv, OriginalOK, OriginalOf, OriginalOfCurrent
<1>2. QED  BY <1>1, LifeInvariant, PTL

-----------------------------------------------------------------------------
(***************************************************************************)
(* What holds unless a target was changed under a late call.               *)
(***************************************************************************)
Counted == {c \in Calls : call[c].at \in {"guarded", "detour", "original", "uncounting"}}

\* A call on its way either finds the hook installed, or an uninstall() has
\* left it behind; all that it has read belongs to the Inner the hook still
\* has, which has a target.
InFlight ==
  \A c \in Calls : call[c].at # "caller" =>
    /\ ctl.pc \in {"idle", "drain"} /\ (inner[current].installed \/ c \in late)
    /\ inner[current].target # NoFunc
    /\ call[c].func = inner[current].target /\ call[c].via = current
    /\ call[c].at \in {"counting", "uncounting", "notify"} => call[c].ref = current
    /\ call[c].at \in {"detour", "original"} => call[c].orig = current

\* The gate of that Inner counts the calls, and every other gate counts none.
GatesOK ==
  \A g \in Inners : inner[g].active = IF g = current THEN Cardinality(Counted) ELSE 0

\* As long as nobody was exposed; and what holds in any case.
Unexposed == InFlight /\ GatesOK /\ fault \in {"none", "invalidFree"}
FlightInv == LifeInv /\ (~exposed => Unexposed)

\* Between the counts: finite sets of calls.
LEMMA CountedFinite == IsFiniteSet(Counted) /\ Cardinality(Counted) \in Nat
<1>1. IsFiniteSet(Counted)
  BY RetargetAssumption, FS_Subset DEF Counted
<1>2. QED  BY <1>1, FS_CardinalityType

LEMMA FlightInvInit == Init => FlightInv
<1> SUFFICES ASSUME Init  PROVE FlightInv
  OBVIOUS
<1>1. \A c \in Calls : call[c].at = "caller"
  BY DEF Init
<1>2. Counted = {} /\ Cardinality(Counted) = 0
  <2>1. Counted = {}
    BY <1>1 DEF Counted
  <2>2. QED  BY <2>1, FS_EmptySet
<1>3. \A g \in Inners : inner[g].active = 0
  BY DEF Init, Blank
<1>4. Unexposed
  BY <1>1, <1>2, <1>3 DEF Unexposed, InFlight, GatesOK, Init
<1>5. QED  BY <1>4, LifeInvInit DEF FlightInv

\* Whoever is in flight when the flag is cleared is a latecomer.
LEMMA DrainedIsLate ==
  ASSUME LifeInv, Unexposed, Drain
  PROVE  \A c \in Calls : call[c].at # "caller" => c \in late'
<1>1. Counted = {}
  <2>1. inner[current].active = 0 /\ current \in Inners
    BY DEF Drain, LifeInv, TypeOK
  <2>2. Cardinality(Counted) = 0
    BY <2>1 DEF Unexposed, GatesOK
  <2>3. QED  BY <2>2, CountedFinite, FS_EmptySet
<1>2. late' = Uncounted
  BY DEF Drain
<1>3. \A c \in Calls : call[c].at \in Points
  BY DEF LifeInv, CallsOK, CallTyped
<1>4. QED  BY <1>1, <1>2, <1>3 DEF Counted, Uncounted, Points

LEMMA ControllerKeepsFlight ==
  ASSUME LifeInv, Unexposed, ~exposed', ControllerStep
  PROVE  Unexposed'
<1> USE DEF CtlAt, Running, CtlGoto
<1>1. /\ current \in Inners /\ TypeOK /\ InFlight /\ GatesOK /\ OtherOK /\ HeadsOK
      /\ fault \in {"none", "invalidFree"}
  BY DEF LifeInv, TypeOK, Unexposed
<1>2. CASE Install \/ Unpatch \/ Drain
  <2>1. /\ \A g \in Inners : inner'[g].active = inner[g].active
        /\ current' = current /\ call' = call /\ fault' = fault
        /\ inner'[current].target = inner[current].target
        /\ ctl'.pc \in {"idle", "drain"}
    BY <1>1, <1>2 DEF Install, Unpatch, Drain, TypeOK
  <2>2. Counted' = Counted
    BY <2>1 DEF Counted
  <2>3. \A c \in Calls : call[c].at # "caller" => inner'[current].installed \/ c \in late'
    <3>1. CASE Install \/ Unpatch
      <4>1. late' = late /\ (inner[current].installed => inner'[current].installed)
        BY <1>1, <3>1 DEF Install, Unpatch, TypeOK, history
      <4>2. QED  BY <1>1, <4>1 DEF InFlight
    <3>2. CASE Drain
      BY <3>2, DrainedIsLate
    <3>3. QED  BY <1>2, <3>1, <3>2
  <2>4. InFlight'
    BY <1>1, <2>1, <2>3 DEF InFlight
  <2>5. QED  BY <1>1, <2>1, <2>2, <2>4 DEF GatesOK, Unexposed
\* In the other steps no call is in flight, and every gate counts none.
<1>3. CASE BeginChange \/ MapPage \/ WriteCode \/ PublishOriginal \/ SwapInner \/ DestroyOld
  <2>1. \A c \in Calls : call[c].at = "caller"
    <3>1. CASE BeginChange
      <4>1. ~inner[current].installed /\ late = {}
        BY <3>1 DEF BeginChange
      <4>2. QED  BY <1>1, <4>1 DEF InFlight
    <3>2. CASE MapPage \/ WriteCode \/ PublishOriginal \/ SwapInner \/ DestroyOld
      <4>1. ctl.pc \notin {"idle", "drain"}
        BY <3>2 DEF MapPage, WriteCode, PublishOriginal, SwapInner, DestroyOld
      <4>2. QED  BY <1>1, <4>1 DEF InFlight
    <3>3. QED  BY <1>3, <3>1, <3>2
  <2>2. call' = call
    BY <1>3 DEF BeginChange, MapPage, WriteCode, PublishOriginal, SwapInner, DestroyOld
  <2>3. Counted = {} /\ Counted' = {} /\ Cardinality(Counted) = 0 /\ Cardinality(Counted') = 0
    <3>1. Counted = {} /\ Counted' = {}
      BY <2>1, <2>2 DEF Counted
    <3>2. QED  BY <3>1, FS_EmptySet
  <2>4. \A g \in Inners : inner[g].active = 0
    BY <1>1, <2>3 DEF GatesOK
  <2>5. /\ \A g \in Inners : inner'[g].active = 0
        /\ fault' \in {"none", "invalidFree"}
    <3> USE <2>4, <1>1 DEF TypeOK
    <3>1. CASE BeginChange
      BY <3>1 DEF BeginChange, Blank
    <3>2. CASE MapPage
      BY <3>2 DEF MapPage, OtherOK
    <3>3. CASE WriteCode \/ DestroyOld
      <4>1. ctl.other \in Inners
        BY <3>3 DEF WriteCode, DestroyOld, OtherOK
      <4>2. QED  BY <3>3, <4>1 DEF WriteCode, DestroyOld, Destroy
    <3>4. CASE PublishOriginal \/ SwapInner
      BY <3>4 DEF PublishOriginal, SwapInner, OtherOK
    <3>5. QED  BY <1>3, <3>1, <3>2, <3>3, <3>4
  <2>6. QED  BY <2>1, <2>2, <2>3, <2>5 DEF InFlight, GatesOK, Unexposed
<1>4. QED  BY <1>2, <1>3 DEF ControllerStep

\* A call on its way meets the Inner that the hook has, alive and with a page.
LEMMA CallMeetsCurrent ==
  ASSUME LifeInv, Unexposed, NEW c \in Calls, call[c].at # "caller"
  PROVE  /\ current \in Inners /\ current # NoInner
         /\ inner[current].life = "live" /\ inner[current].page = "mapped"
         /\ ctl.pc \in {"idle", "drain"} /\ originalPtr = current
<1>1. /\ current \in Inners /\ current # NoInner /\ inner[current].life = "live"
      /\ ctl.pc \in {"idle", "drain"}
  BY RetargetAssumption DEF Unexposed, LifeInv, TypeOK, HeadsOK, InFlight, Inners, NoInner
<1>2. inner[current].target # NoFunc
  BY DEF Unexposed, InFlight
<1>3. inner[current].page = "mapped"
  BY <1>1, <1>2 DEF LifeInv, TypeOK
<1>4. originalPtr = current
  BY <1>1, <1>2 DEF LifeInv, OriginalOK, OriginalOf
<1>5. QED  BY <1>1, <1>3, <1>4

\* What is counted changes with the counter.
LEMMA CountedAfter ==
  ASSUME NEW c \in Calls, CallTyped, CallTyped',
         \A d \in Calls \ {c} : call'[d].at = call[d].at
  PROVE  /\ c \in Counted /\ c \in Counted' => Cardinality(Counted') = Cardinality(Counted)
         /\ c \notin Counted /\ c \notin Counted' => Cardinality(Counted') = Cardinality(Counted)
         /\ c \notin Counted /\ c \in Counted' => Cardinality(Counted') = Cardinality(Counted) + 1
         /\ c \in Counted /\ c \notin Counted' => Cardinality(Counted') = Cardinality(Counted) - 1
<1>1. \A d \in Calls \ {c} : d \in Counted <=> d \in Counted'
  BY DEF Counted
<1>2. Counted \subseteq Calls /\ Counted' \subseteq Calls
  BY DEF Counted
<1>3. (c \in Counted <=> c \in Counted') => Counted' = Counted
  BY <1>1, <1>2
<1>4. c \notin Counted /\ c \in Counted' => Cardinality(Counted') = Cardinality(Counted) + 1
  <2>1. c \notin Counted /\ c \in Counted' => Counted' = Counted \cup {c}
    BY <1>1, <1>2
  <2>2. QED  BY <2>1, CountedFinite, FS_AddElement
<1>5. c \in Counted /\ c \notin Counted' => Cardinality(Counted') = Cardinality(Counted) - 1
  <2>1. c \in Counted /\ c \notin Counted' => Counted' = Counted \ {c}
    BY <1>1, <1>2
  <2>2. QED  BY <2>1, CountedFinite, FS_RemoveElement
<1>6. QED  BY <1>3, <1>4, <1>5

LEMMA CallKeepsFlight ==
  ASSUME LifeInv, Unexposed, NEW c \in Calls, CallStep(c)
  PROVE  Unexposed'
<1> USE DEF CallAt, Running, Fail, ReturnFrom
<1>1. /\ LifeInv /\ LifeInv' /\ CallTyped /\ CallTyped' /\ current \in Inners
      /\ inner \in [Inners -> [target : Funcs \cup {NoFunc}, installed : BOOLEAN,
                              active : Nat, page : {"none", "mapped", "freed"},
                              life : {"none", "building", "live", "destroyed"}]]
  BY CallKeepsLife DEF LifeInv, TypeOK, CallsOK
<1>2. /\ UNCHANGED <<current, originalPtr, head, ctl>>
      /\ \A d \in Calls : call'[d].at # "caller" /\ d \in late => d \in late'
  BY CallTouches
<1>3. CASE Arrive(c)
  <2>1. PICK f \in Funcs : /\ call[c].at = "caller" /\ head[f] # NoInner
                           /\ call' = [call EXCEPT ![c] = [at |-> "hop", func |-> f, via |-> head[f],
                                             ref |-> NoInner, orig |-> NoInner]]
                           /\ inner' = inner /\ fault' = fault
    BY <1>3 DEF Arrive
  <2>2. /\ ctl.pc = "idle" /\ head[f] = current
        /\ inner[current].installed /\ inner[current].target = f /\ f # NoFunc
    BY <1>1, <2>1, RetargetAssumption DEF LifeInv, HeadsOK
  <2>3. /\ call'[c].at = "hop" /\ call'[c].func = f /\ call'[c].via = current
        /\ \A d \in Calls \ {c} : call'[d] = call[d]
    BY <1>1, <2>1, <2>2 DEF CallTyped
  <2>4. InFlight'
    <3>1. SUFFICES ASSUME NEW d \in Calls, call'[d].at # "caller"
                   PROVE  /\ ctl.pc \in {"idle", "drain"}
                          /\ inner[current].installed \/ d \in late
                          /\ inner[current].target # NoFunc
                          /\ call'[d].func = inner[current].target /\ call'[d].via = current
                          /\ call'[d].at \in {"counting", "uncounting", "notify"} =>
                               call'[d].ref = current
                          /\ call'[d].at \in {"detour", "original"} => call'[d].orig = current
      BY <1>2, <2>1 DEF InFlight
    <3>2. CASE d = c
      BY <2>2, <2>3, <3>2
    <3>3. CASE d # c
      BY <2>3, <3>1, <3>3 DEF Unexposed, InFlight
    <3>4. QED  BY <3>2, <3>3
  <2>5. GatesOK'
    BY <1>1, <1>2, <2>1, <2>3, CountedAfter DEF Unexposed, GatesOK, Counted
  <2>6. QED  BY <2>1, <2>4, <2>5 DEF Unexposed
<1>4. CASE ~Arrive(c)
  <2>1. /\ call[c].at # "caller" /\ fault = "none"
        /\ call[c].via = current
        /\ call[c].at \in {"counting", "uncounting", "notify"} => call[c].ref = current
        /\ call[c].at \in {"detour", "original"} => call[c].orig = current
        /\ inner[current].life = "live" /\ inner[current].page = "mapped"
        /\ originalPtr = current /\ current # NoInner
    <3>1. call[c].at # "caller" /\ fault = "none"
      BY <1>4 DEF CallStep, Hop, LoadInner, Count, LoadOriginal, CallOriginal,
                  LoadInnerAgain, Uncount, Notify
    <3>2. QED  BY <3>1, CallMeetsCurrent DEF Unexposed, InFlight
  \* The call keeps what it has read, and stays counted or becomes so.
  <2>2. /\ fault' = "none"
        /\ call'[c].func = call[c].func /\ call'[c].via = call[c].via
        /\ call'[c].at \in {"counting", "uncounting", "notify"} => call'[c].ref = current
        /\ call'[c].at \in {"detour", "original"} => call'[c].orig = current
        /\ \A d \in Calls \ {c} : call'[d] = call[d]
        /\ \/ inner' = inner /\ (c \in Counted <=> c \in Counted')
           \/ /\ inner' = [inner EXCEPT ![current].active = @ + 1]
              /\ c \notin Counted /\ c \in Counted'
           \/ /\ inner' = [inner EXCEPT ![current].active = @ - 1]
              /\ c \in Counted /\ c \notin Counted'
    <3> USE <1>1, <2>1 DEF CallTyped, Counted
    <3>1. CASE Hop(c)
      BY <3>1 DEF Hop
    <3>2. CASE LoadInner(c)
      BY <3>2 DEF LoadInner
    <3>3. CASE Count(c)
      BY <3>3 DEF Count
    <3>4. CASE LoadOriginal(c)
      BY <3>4 DEF LoadOriginal
    <3>5. CASE CallOriginal(c)
      BY <3>5 DEF CallOriginal
    <3>6. CASE LoadInnerAgain(c)
      BY <3>6 DEF LoadInnerAgain
    <3>7. CASE Uncount(c)
      <4>1. inner[current].active > 0
        <5>1. c \in Counted
          BY <3>7 DEF Uncount
        <5>2. Cardinality(Counted) # 0
          BY <5>1, CountedFinite, FS_EmptySet
        <5>3. QED  BY <5>2, CountedFinite DEF Unexposed, GatesOK
      <4>2. QED  BY <3>7, <4>1 DEF Uncount
    <3>8. CASE Notify(c)
      BY <3>8 DEF Notify
    <3>9. QED  BY <1>4, <3>1, <3>2, <3>3, <3>4, <3>5, <3>6, <3>7, <3>8 DEF CallStep
  <2>3. inner'[current].installed = inner[current].installed
        /\ inner'[current].target = inner[current].target
    BY <1>1, <2>2
  <2>4. InFlight'
    BY <1>2, <2>1, <2>2, <2>3 DEF Unexposed, InFlight
  <2>5. GatesOK'
    <3>1. /\ inner' = inner => Cardinality(Counted') = Cardinality(Counted)
          /\ \/ inner' = inner
             \/ /\ inner' = [inner EXCEPT ![current].active = @ + 1]
                /\ Cardinality(Counted') = Cardinality(Counted) + 1
             \/ /\ inner' = [inner EXCEPT ![current].active = @ - 1]
                /\ Cardinality(Counted') = Cardinality(Counted) - 1
      BY <1>1, <2>2, CountedAfter
    <3>2. QED  BY <1>1, <1>2, <3>1 DEF Unexposed, GatesOK
  <2>6. QED  BY <2>2, <2>4, <2>5 DEF Unexposed
<1>5. QED  BY <1>3, <1>4

\* Once somebody was exposed nothing more is promised.
LEMMA ExposedForGood == LifeInv /\ [Next]_vars /\ exposed => exposed'
<1> SUFFICES ASSUME LifeInv, [Next]_vars, exposed  PROVE exposed'
  OBVIOUS
<1>1. CASE ControllerStep
  BY <1>1 DEF ControllerStep, Install, Unpatch, Drain, BeginChange, MapPage, WriteCode,
              PublishOriginal, SwapInner, DestroyOld, history
<1>2. CASE \E c \in Calls : CallStep(c)
  BY <1>2, CallTouches
<1>3. QED  BY <1>1, <1>2 DEF Next, vars, history

LEMMA FlightInvStep == FlightInv /\ [Next]_vars => FlightInv'
<1> SUFFICES ASSUME FlightInv, [Next]_vars  PROVE FlightInv'
  OBVIOUS
<1>1. LifeInv'
  BY LifeInvStep DEF FlightInv
<1>2. SUFFICES ASSUME ~exposed'  PROVE Unexposed'
  BY <1>1 DEF FlightInv
<1>3. LifeInv /\ Unexposed
  BY <1>2, ExposedForGood DEF FlightInv
<1>4. CASE UNCHANGED vars
  BY <1>3, <1>4 DEF vars, history, Unexposed, InFlight, GatesOK, Counted
<1>5. QED  BY <1>2, <1>3, <1>4, ControllerKeepsFlight, CallKeepsFlight DEF Next

THEOREM FlightInvariant == Spec => []FlightInv
BY FlightInvInit, FlightInvStep, PTL DEF Spec

(***************************************************************************)
(* Unless change_target_func is called under a call that an uninstall()    *)
(* has left behind, no call ever meets a page that was released or an      *)
(* Inner that was destroyed: for any number of calls and of changes.       *)
(***************************************************************************)
THEOREM CallsNeverStale == Spec => []NoStaleUse
<1>1. FlightInv => NoStaleUse  BY DEF FlightInv, Unexposed, NoStaleUse
<1>2. QED  BY <1>1, FlightInvariant, PTL

(***************************************************************************)
(* ... and each calls the original of the function that was called.        *)
(***************************************************************************)
THEOREM OriginalsMatch == Spec => []CallsOwnOriginal
<1>1. FlightInv => CallsOwnOriginal
  BY DEF FlightInv, Unexposed, InFlight, CallsOwnOriginal, OwnOriginals
<1>2. QED  BY <1>1, FlightInvariant, PTL
=============================================================================
