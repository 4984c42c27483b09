---------------------------- MODULE HookRetarget ----------------------------
(***************************************************************************)
(* The lifetime of HookInst::Inner: its construction (src/                 *)
(* hook_inst_inner.cpp), its replacement by change_target_func and its     *)
(* destruction, while calls go through the page, the gate and the original *)
(* pointer of the Inner they find.                                         *)
(*                                                                         *)
(* One thread controls the hook, so that access_mutex is never contended.  *)
(* A fault is behaviour that C++ leaves undefined or that ends the         *)
(* process; the model stops there.                                         *)
(***************************************************************************)
EXTENDS Integers, FiniteSets

CONSTANTS
  Funcs, NoFunc,   \* target functions, and nullptr
  Calls,           \* activations of target functions
  MaxInners        \* bound: the Inner objects built over time

NoInner == 0
Inners == 1..MaxInners

ASSUME RetargetAssumption ==
  /\ NoFunc \notin Funcs
  /\ MaxInners \in Nat \ {0}
  /\ IsFiniteSet(Calls)

VARIABLES
  inner,        \* target, flag, gate counter, code page and life of each Inner
  current,      \* _inner
  originalPtr,  \* _original_ptr: the Inner into whose page it points
  head,         \* the Inner to whose page the head of each target jumps
  ctl,          \* the controller: its place and the other Inner it works on
  call,         \* each call: its place, function and the Inners it has read
  fault,
  late,         \* history: the calls that the last uninstall() left in the
                \* hook's code, less those that have left it since
  exposed       \* history: has a change of the target begun under a late call?

history == <<late, exposed>>
vars == <<inner, current, originalPtr, head, ctl, call, fault, history>>

Blank == [target |-> NoFunc, installed |-> FALSE, active |-> 0,
          page |-> "none", life |-> "none"]

\* Static initialisation has built one Inner, for a function or for nullptr.
Init ==
  \E f \in Funcs \cup {NoFunc} :
    /\ inner = [g \in Inners |->
         IF g # 1 THEN Blank
         ELSE [Blank EXCEPT !.target = f, !.life = "live",
                            !.page = IF f = NoFunc THEN "none" ELSE "mapped"]]
    /\ current = 1
    /\ originalPtr = IF f = NoFunc THEN NoInner ELSE 1
    /\ head = [g \in Funcs |-> NoInner]
    /\ ctl = [pc |-> "idle", other |-> NoInner]
    /\ call = [c \in Calls |-> [at |-> "caller", func |-> NoFunc, via |-> NoInner,
                                ref |-> NoInner, orig |-> NoInner]]
    /\ fault = "none"
    /\ late = {} /\ exposed = FALSE

Running == fault = "none"
CtlAt(pc) == Running /\ ctl.pc = pc
CtlGoto(pc) == ctl' = [ctl EXCEPT !.pc = pc]

-----------------------------------------------------------------------------
(* install() and uninstall().                                              *)

Install ==
  /\ CtlAt("idle")
  /\ ~inner[current].installed /\ inner[current].target # NoFunc
  /\ head' = [head EXCEPT ![inner[current].target] = current]
  /\ inner' = [inner EXCEPT ![current].installed = TRUE]
  /\ UNCHANGED <<current, originalPtr, ctl, call, fault, history>>

Unpatch ==
  /\ CtlAt("idle")
  /\ inner[current].installed
  /\ head' = [head EXCEPT ![inner[current].target] = NoInner]
  /\ CtlGoto("drain")
  /\ UNCHANGED <<inner, current, originalPtr, call, fault, history>>

\* The calls that are in the hook's code and not counted by its gate.
Uncounted == {c \in Calls : call[c].at \in {"hop", "entry", "counting", "notify"}}

\* Faulty variant of Drain: uninstall() does not wait.
DrainNothing ==
  /\ CtlAt("drain")
  /\ inner' = [inner EXCEPT ![current].installed = FALSE]
  /\ CtlGoto("idle")
  /\ late' = Uncounted
  /\ UNCHANGED <<current, originalPtr, head, call, fault, exposed>>

\* uninstall() waits for the gate, and for no call that the gate does not count.
Drain ==
  /\ CtlAt("drain")
  /\ inner[current].active = 0
  /\ inner' = [inner EXCEPT ![current].installed = FALSE]
  /\ CtlGoto("idle")
  /\ late' = Uncounted
  /\ UNCHANGED <<current, originalPtr, head, call, fault, exposed>>

-----------------------------------------------------------------------------
(* change_target_func().                                                   *)

\* Faulty variant of BeginChange: the flag is not looked at.
BeginChangeInstalled ==
  /\ CtlAt("idle")
  /\ \E f \in Funcs \cup {NoFunc}, g \in Inners :
       /\ inner[g].life = "none"
       /\ \A other \in Inners : other < g => inner[other].life # "none"
       /\ inner' = [inner EXCEPT ![g] = [Blank EXCEPT !.target = f, !.life = "building"]]
       /\ ctl' = [pc |-> IF f = NoFunc THEN "publish" ELSE "map", other |-> g]
  /\ exposed' = (exposed \/ late # {})
  /\ UNCHANGED <<current, originalPtr, head, call, fault, late>>

\* Faulty variant of BeginChange: the target is changed in the Inner there is.
BeginChangeInPlace ==
  /\ CtlAt("idle")
  /\ ~inner[current].installed
  /\ \E f \in Funcs \cup {NoFunc} : inner' = [inner EXCEPT ![current].target = f]
  /\ UNCHANGED <<current, originalPtr, head, ctl, call, fault, history>>

\* It throws if the hook is installed; otherwise a new Inner is built.
BeginChange ==
  /\ CtlAt("idle")
  /\ ~inner[current].installed
  /\ \E f \in Funcs \cup {NoFunc}, g \in Inners :
       /\ inner[g].life = "none"
       /\ \A other \in Inners : other < g => inner[other].life # "none"
       /\ inner' = [inner EXCEPT ![g] = [Blank EXCEPT !.target = f, !.life = "building"]]
       /\ ctl' = [pc |-> IF f = NoFunc THEN "publish" ELSE "map", other |-> g]
  /\ exposed' = (exposed \/ late # {})
  /\ UNCHANGED <<current, originalPtr, head, call, fault, late>>

\* alloc_page_near finds a page, or throws and leaves nothing behind.
MapPage ==
  /\ CtlAt("map")
  /\ \/ /\ inner' = [inner EXCEPT ![ctl.other].page = "mapped"]
        /\ CtlGoto("write")
     \/ /\ inner' = [inner EXCEPT ![ctl.other].life = "destroyed"]
        /\ CtlGoto("idle")
  /\ UNCHANGED <<current, originalPtr, head, call, fault, history>>

(***************************************************************************)
(* The members of an Inner are destroyed: first the code page, whose       *)
(* memory came from mmap and goes to std::free.  glibc may abort, or take  *)
(* the page for a chunk of its own.  Then the gate, whose assertion throws *)
(* out of a destructor.                                                    *)
(***************************************************************************)
Destroy(g) ==
  \/ /\ inner[g].page = "mapped"
     /\ fault' = "invalidFree"
     /\ UNCHANGED inner
  \/ /\ inner' = [inner EXCEPT ![g].life = "destroyed",
                               ![g].page = IF @ = "mapped" THEN "freed" ELSE @]
     /\ fault' = IF inner[g].active = 0 THEN "none" ELSE "gateInUse"

\* Faulty variant of WriteCode: the original pointer is set before the code
\* has been written.
WriteCodeLate ==
  /\ CtlAt("write")
  /\ originalPtr' = ctl.other
  /\ \/ CtlGoto("publish") /\ UNCHANGED <<inner, fault>>
     \/ CtlGoto("idle") /\ Destroy(ctl.other)
  /\ UNCHANGED <<current, head, call, history>>

\* Decoding, relocating and writing the code succeed, or one of them throws
\* and the half-built Inner is destroyed.
WriteCode ==
  /\ CtlAt("write")
  /\ \/ CtlGoto("publish") /\ UNCHANGED <<inner, fault>>
     \/ CtlGoto("idle") /\ Destroy(ctl.other)
  /\ UNCHANGED <<current, originalPtr, head, call, history>>

\* *output_original_func is assigned at the end of the constructor.
PublishOriginal ==
  /\ CtlAt("publish")
  /\ originalPtr' = IF inner[ctl.other].target = NoFunc THEN NoInner ELSE ctl.other
  /\ inner' = [inner EXCEPT ![ctl.other].life = "live"]
  /\ CtlGoto("swap")
  /\ UNCHANGED <<current, head, call, fault, history>>

\* _inner takes the new Inner before the old one is destroyed.
SwapInner ==
  /\ CtlAt("swap")
  /\ current' = ctl.other
  /\ ctl' = [pc |-> "destroy", other |-> current]
  /\ UNCHANGED <<inner, originalPtr, head, call, fault, history>>

DestroyOld ==
  /\ CtlAt("destroy")
  /\ Destroy(ctl.other)
  /\ CtlGoto("idle")
  /\ UNCHANGED <<current, originalPtr, head, call, history>>

ControllerStep ==
  \/ Install \/ Unpatch \/ Drain
  \/ BeginChange \/ MapPage \/ WriteCode \/ PublishOriginal \/ SwapInner \/ DestroyOld

-----------------------------------------------------------------------------
(* Calls.                                                                  *)

\* The call returns, and is nobody's latecomer any more.
ReturnFrom(c) == call' = [call EXCEPT ![c].at = "caller"] /\ late' = late \ {c}

CallAt(c, at) == Running /\ call[c].at = at
Fail(why) == fault' = why /\ UNCHANGED <<inner, current, originalPtr, head, ctl, call, history>>

Arrive(c) ==
  \E f \in Funcs :
    /\ CallAt(c, "caller")
    /\ head[f] # NoInner
    /\ call' = [call EXCEPT ![c] = [at |-> "hop", func |-> f, via |-> head[f],
                                    ref |-> NoInner, orig |-> NoInner]]
    /\ UNCHANGED <<inner, current, originalPtr, head, ctl, fault, history>>

\* The trampoline in the code page leads to the generated function.
Hop(c) ==
  /\ CallAt(c, "hop")
  /\ IF inner[call[c].via].page = "mapped"
       THEN /\ call' = [call EXCEPT ![c].at = "entry"]
            /\ UNCHANGED <<inner, current, originalPtr, head, ctl, fault, history>>
       ELSE Fail("freedCode")

\* The ScopeGuard reads _inner, and then counts the call at its gate.
LoadInner(c) ==
  /\ CallAt(c, "entry")
  /\ call' = [call EXCEPT ![c].at = "counting", ![c].ref = current]
  /\ UNCHANGED <<inner, current, originalPtr, head, ctl, fault, history>>

Count(c) ==
  /\ CallAt(c, "counting")
  /\ IF inner[call[c].ref].life = "live"
       THEN /\ inner' = [inner EXCEPT ![call[c].ref].active = @ + 1]
            /\ call' = [call EXCEPT ![c].at = "guarded"]
            /\ UNCHANGED <<current, originalPtr, head, ctl, fault, history>>
       ELSE Fail("useAfterFree")

\* ctx.call_original is set from _original_ptr.
LoadOriginal(c) ==
  /\ CallAt(c, "guarded")
  /\ call' = [call EXCEPT ![c].at = "detour", ![c].orig = originalPtr]
  /\ UNCHANGED <<inner, current, originalPtr, head, ctl, fault, history>>

CallOriginal(c) ==
  /\ CallAt(c, "detour")
  /\ IF call[c].orig # NoInner /\ inner[call[c].orig].page = "mapped"
       THEN /\ call' = [call EXCEPT ![c].at = "original"]
            /\ UNCHANGED <<inner, current, originalPtr, head, ctl, fault, history>>
       ELSE Fail("freedCode")

\* The user's code is over, with or without a call of the original; the
\* destructor of the ScopeGuard reads _inner again.
LoadInnerAgain(c) ==
  /\ CallAt(c, "detour") \/ CallAt(c, "original")
  /\ call' = [call EXCEPT ![c].at = "uncounting", ![c].ref = current]
  /\ UNCHANGED <<inner, current, originalPtr, head, ctl, fault, history>>

\* An exit at a gate that counts no call would wrap its counter.
Uncount(c) ==
  /\ CallAt(c, "uncounting")
  /\ IF inner[call[c].ref].life = "live" /\ inner[call[c].ref].active > 0
       THEN /\ inner' = [inner EXCEPT ![call[c].ref].active = @ - 1]
            /\ IF inner[call[c].ref].active = 1
                 THEN call' = [call EXCEPT ![c].at = "notify"] /\ UNCHANGED late
                 ELSE ReturnFrom(c)
            /\ UNCHANGED <<current, originalPtr, head, ctl, fault, exposed>>
       ELSE Fail("useAfterFree")

\* The last call to leave locks the mutex of the gate it has left.
Notify(c) ==
  /\ CallAt(c, "notify")
  /\ IF inner[call[c].ref].life = "live"
       THEN /\ ReturnFrom(c)
            /\ UNCHANGED <<inner, current, originalPtr, head, ctl, fault, exposed>>
       ELSE Fail("useAfterFree")

CallStep(c) ==
  \/ Arrive(c) \/ Hop(c) \/ LoadInner(c) \/ Count(c) \/ LoadOriginal(c)
  \/ CallOriginal(c) \/ LoadInnerAgain(c) \/ Uncount(c) \/ Notify(c)

-----------------------------------------------------------------------------
Next == ControllerStep \/ \E c \in Calls : CallStep(c)

Spec == Init /\ [][Next]_vars

-----------------------------------------------------------------------------
(***************************************************************************)
(* Types, and the life of the pages: a page belongs to an Inner with a     *)
(* target and is there while that Inner lives.                             *)
(***************************************************************************)
TypeOK ==
  /\ inner \in [Inners -> [target : Funcs \cup {NoFunc}, installed : BOOLEAN,
                           active : Nat, page : {"none", "mapped", "freed"},
                           life : {"none", "building", "live", "destroyed"}]]
  /\ current \in Inners
  /\ originalPtr \in Inners \cup {NoInner}
  /\ head \in [Funcs -> Inners \cup {NoInner}]
  /\ ctl \in [pc : {"idle", "drain", "map", "write", "publish", "swap", "destroy"},
              other : Inners \cup {NoInner}]
  /\ fault \in {"none", "invalidFree", "gateInUse", "freedCode", "useAfterFree"}
  /\ late \in SUBSET Calls /\ exposed \in BOOLEAN
  /\ \A g \in Inners :
       inner[g].life = "live" => (inner[g].page = "mapped" <=> inner[g].target # NoFunc)

(***************************************************************************)
(* A patched head always leads into the page of the Inner that the hook    *)
(* has now, which was built for that very function and counts as           *)
(* installed: no sequence of install, uninstall and change_target_func,    *)
(* completed or failed, leaves a jump to an Inner that is gone.            *)
(***************************************************************************)
InstalledHeadIsLive ==
  \A f \in Funcs : head[f] # NoInner =>
    /\ head[f] = current
    /\ inner[current].life = "live" /\ inner[current].installed
    /\ inner[current].target = f

(***************************************************************************)
(* Between two operations the detour's original pointer belongs to the     *)
(* target the hook has, also when a change of the target failed half way.  *)
(***************************************************************************)
OriginalOfCurrent ==
  ctl.pc = "idle" /\ Running =>
    originalPtr = IF inner[current].target = NoFunc THEN NoInner ELSE current

(***************************************************************************)
(* As long as change_target_func is not called while a call that an        *)
(* uninstall() did not know of is still in the hook's code, no call        *)
(* executes a page that was released, touches a gate that was destroyed,   *)
(* or finds its gate destroyed under it.  For all other calls the wait in  *)
(* uninstall() and the check of the flag in change_target_func are enough, *)
(* although a ScopeGuard reads _inner twice; latecomers are harmless while *)
(* the hook keeps its target, and when it is installed again.              *)
(***************************************************************************)
NoStaleUse == ~exposed => fault \in {"none", "invalidFree"}

(***************************************************************************)
(* ... and the original that a detour calls is the function that was       *)
(* called.                                                                 *)
(***************************************************************************)
OwnOriginals ==
  \A c \in Calls : call[c].at = "original" => inner[call[c].orig].target = call[c].func

CallsOwnOriginal == ~exposed => OwnOriginals

(***************************************************************************)
(* README.md:55, "Guaranteed-safe blocking hook removal (waits for hook to *)
(* be unused during removal)", for a hook that is removed in order to move *)
(* it: whatever is called runs its own original, without exception.  A     *)
(* call that uninstall() did not wait for loads the original of the new    *)
(* target while the new Inner is published.                                *)
(***************************************************************************)
EveryCallItsOriginal == OwnOriginals

(***************************************************************************)
(* README.md:41, "Change a hook's target functions after initializing a    *)
(* hook": a change that got as far as a complete new Inner releases no     *)
(* memory that the allocator does not own.                                 *)
(***************************************************************************)
ChangeReleasesOwnMemory ==
  fault = "invalidFree" => inner[ctl.other].life = "building"
=============================================================================
