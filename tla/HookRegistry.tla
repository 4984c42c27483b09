---------------------------- MODULE HookRegistry ----------------------------
(***************************************************************************)
(* The list of all hooks and the public operations that use it: hooks are  *)
(* created (HookInst::_create), swept by install_all_hooks and             *)
(* uninstall_all_hooks, found by name, and installed and uninstalled one   *)
(* by one, by several threads and also from inside detours.                *)
(*                                                                         *)
(* A thread is inside at most one detour, and entering it and being        *)
(* counted are one step here: HookInst has what lies between, and the      *)
(* calls that a torn head sends astray.  Waiting for the calls of a hook   *)
(* is the EndWait of DrainBarrier, which CallGate is shown to implement.   *)
(***************************************************************************)
EXTENDS Integers, Sequences

CONSTANTS
  Threads, NoThread,
  Hooks, NoHook,
  InitialInsts,    \* the hooks that static initialisation has created
  HasTarget,       \* the hooks with a target function
  NameOf,          \* the name of each hook
  DetoursCallApi,  \* do detours call the operations of the library?
  MaxOps           \* bound: the operations that one thread starts

ASSUME RegistryAssumption ==
  /\ NoThread \notin Threads
  /\ NoHook \notin Hooks
  /\ InitialInsts \in Seq(Hooks)
  /\ \A i, j \in DOMAIN InitialInsts :
       NameOf[InitialInsts[i]] = NameOf[InitialInsts[j]] => i = j
  /\ HasTarget \subseteq Hooks
  /\ DOMAIN NameOf = Hooks
  /\ DetoursCallApi \in BOOLEAN
  /\ MaxOps \in Nat

VARIABLES
  insts,          \* g_hook_insts
  registryMutex,  \* the owner of its mutex
  isInstalled,    \* _is_installed of each hook
  head,           \* the first bytes of each target: "original", "jump", "torn"
  accessMutex,    \* the owner of each access_mutex
  inDetour,       \* the hook in whose detour each thread is
  th,             \* the operation each thread runs, or has run last
  reached         \* history: the hooks that were in the state a sweep wants,
                  \* at some moment of the sweep

vars == <<insts, registryMutex, isInstalled, head, accessMutex, inDetour, th, reached>>

Listed == {insts[i] : i \in DOMAIN insts}
Bytes == {"original", "jump", "torn"}

Init == /\ insts = InitialInsts
        /\ registryMutex = NoThread
        /\ isInstalled = [h \in Hooks |-> FALSE]
        /\ head = [h \in Hooks |-> "original"]
        /\ accessMutex = [h \in Hooks |-> NoThread]
        /\ inDetour = [t \in Threads |-> NoHook]
        /\ th = [t \in Threads |-> [pc |-> "idle", op |-> "none", hook |-> NoHook,
                                    todo |-> <<>>, outcome |-> "none", ops |-> 0]]
        /\ reached = [t \in Threads |-> {}]

-----------------------------------------------------------------------------
Sweeping(t) == th[t].op \in {"installAll", "uninstallAll"}
Installing(t) == th[t].op \in {"install", "installAll"}

At(t, pc) == th[t].pc = pc
Goto(t, pc) == th' = [th EXCEPT ![t].pc = pc]
End(t, outcome) == th' = [th EXCEPT ![t].pc = "idle", ![t].outcome = outcome]

\* The guard of the registry and the lock of a hook are released as scopes
\* end, by a return as by an exception.
Throw(t, why) ==
  /\ End(t, why)
  /\ registryMutex' = IF registryMutex = t THEN NoThread ELSE registryMutex

-----------------------------------------------------------------------------
(* Operations begin.                                                       *)

Call(t, op, h, pc) ==
  /\ At(t, "idle")
  /\ th[t].ops < MaxOps
  /\ inDetour[t] # NoHook => DetoursCallApi
  /\ th' = [th EXCEPT ![t] = [pc |-> pc, op |-> op, hook |-> h, todo |-> <<>>,
                              outcome |-> "none", ops |-> @.ops + 1]]
  /\ UNCHANGED <<insts, registryMutex, isInstalled, head, accessMutex, inDetour, reached>>

CallSweep(t) == \E op \in {"installAll", "uninstallAll"} : Call(t, op, NoHook, "lockRegistry")
CallFind(t) == Call(t, "find", NoHook, "lockRegistry")
CallOne(t) == \E h \in Listed, op \in {"install", "uninstall"} : Call(t, op, h, "lockAccess")

\* The Inner is built before the lock is taken and touches no other hook.
CallCreate(t) ==
  \E h \in Hooks \ Listed :
    /\ \A u \in Threads : At(u, "idle") \/ th[u].hook # h
    /\ Call(t, "create", h, "lockRegistry")

-----------------------------------------------------------------------------
(* The registry.                                                           *)

AfterLock(t) == [installAll |-> "sweep", uninstallAll |-> "sweep",
                 create |-> "checkName", find |-> "copy"][th[t].op]

\* Faulty variant of LockRegistry: the list is used without its lock.
UseUnlocked(t) ==
  /\ At(t, "lockRegistry")
  /\ th' = [th EXCEPT ![t].pc = AfterLock(t), ![t].todo = insts]
  /\ reached' = [reached EXCEPT ![t] = {h \in Hooks : isInstalled[h] = Installing(t)}]
  /\ UNCHANGED <<insts, registryMutex, isInstalled, head, accessMutex, inDetour>>

\* Inner::all_insts().  A sweep iterates over what the list holds now.
LockRegistry(t) ==
  /\ At(t, "lockRegistry")
  /\ registryMutex = NoThread
  /\ registryMutex' = t
  /\ th' = [th EXCEPT ![t].pc = AfterLock(t), ![t].todo = insts]
  /\ reached' = [reached EXCEPT ![t] = {h \in Hooks : isInstalled[h] = Installing(t)}]
  /\ UNCHANGED <<insts, isInstalled, head, accessMutex, inDetour>>

\* all_hook_insts() returns a copy; names are compared without the lock.
Copy(t) ==
  /\ At(t, "copy")
  /\ End(t, "done")
  /\ registryMutex' = NoThread
  /\ UNCHANGED <<insts, isInstalled, head, accessMutex, inDetour, reached>>

CheckName(t) ==
  /\ At(t, "checkName")
  /\ IF \E g \in Listed : NameOf[g] = NameOf[th[t].hook]
       THEN Throw(t, "nameExists")
       ELSE Goto(t, "push") /\ UNCHANGED registryMutex
  /\ UNCHANGED <<insts, isInstalled, head, accessMutex, inDetour, reached>>

Push(t) ==
  /\ At(t, "push")
  /\ insts' = Append(insts, th[t].hook)
  /\ End(t, "done")
  /\ registryMutex' = NoThread
  /\ UNCHANGED <<isInstalled, head, accessMutex, inDetour, reached>>

-----------------------------------------------------------------------------
(* set_all_hooks_installed.                                                *)

\* Faulty variant of Visit: a hook is only left in the state the sweep wants.
VisitUntilDone(t) ==
  /\ At(t, "sweep")
  /\ th[t].todo # <<>>
  /\ LET h == Head(th[t].todo) IN
       th' = [th EXCEPT ![t].pc = IF isInstalled[h] # Installing(t) THEN "lockAccess" ELSE "sweep",
                        ![t].hook = h,
                        ![t].todo = IF isInstalled[h] # Installing(t) THEN @ ELSE Tail(@)]
  /\ UNCHANGED <<insts, registryMutex, isInstalled, head, accessMutex, inDetour, reached>>

\* The flag of the next hook is read without its access_mutex.
Visit(t) ==
  /\ At(t, "sweep")
  /\ th[t].todo # <<>>
  /\ LET h == Head(th[t].todo) IN
       th' = [th EXCEPT ![t].pc = IF isInstalled[h] # Installing(t) THEN "lockAccess" ELSE "sweep",
                        ![t].hook = h,
                        ![t].todo = Tail(@)]
  /\ UNCHANGED <<insts, registryMutex, isInstalled, head, accessMutex, inDetour, reached>>

\* Faulty variant of EndSweep: the guard outlives the loop.
EndSweepLocked(t) ==
  /\ At(t, "sweep")
  /\ th[t].todo = <<>>
  /\ End(t, "done")
  /\ UNCHANGED <<insts, registryMutex, isInstalled, head, accessMutex, inDetour, reached>>

EndSweep(t) ==
  /\ At(t, "sweep")
  /\ th[t].todo = <<>>
  /\ End(t, "done")
  /\ registryMutex' = NoThread
  /\ UNCHANGED <<insts, isInstalled, head, accessMutex, inDetour, reached>>

-----------------------------------------------------------------------------
(* install() and uninstall() of the hook at hand.                          *)

\* The exception a check of the two functions throws, in the order of the code.
Objection(t) ==
  LET h == th[t].hook IN
  IF Installing(t)
    THEN IF isInstalled[h] THEN "alreadyInstalled"
         ELSE IF h \notin HasTarget THEN "noTarget" ELSE "none"
    ELSE IF isInstalled[h] THEN "none" ELSE "notInstalled"

\* Faulty variant of LockAccess: a sweep trusts the flag that it has read.
LockAccessTrusting(t) ==
  /\ At(t, "lockAccess")
  /\ accessMutex[th[t].hook] = NoThread
  /\ IF Sweeping(t) \/ Objection(t) = "none"
       THEN /\ Goto(t, "write")
            /\ accessMutex' = [accessMutex EXCEPT ![th[t].hook] = t]
            /\ UNCHANGED registryMutex
       ELSE Throw(t, Objection(t)) /\ UNCHANGED accessMutex
  /\ UNCHANGED <<insts, isInstalled, head, inDetour, reached>>

LockAccess(t) ==
  /\ At(t, "lockAccess")
  /\ accessMutex[th[t].hook] = NoThread
  /\ IF Objection(t) = "none"
       THEN /\ Goto(t, "write")
            /\ accessMutex' = [accessMutex EXCEPT ![th[t].hook] = t]
            /\ UNCHANGED registryMutex
       ELSE Throw(t, Objection(t)) /\ UNCHANGED accessMutex
  /\ UNCHANGED <<insts, isInstalled, head, inDetour, reached>>

UnlockAccess(t) == accessMutex' = [accessMutex EXCEPT ![th[t].hook] = NoThread]

\* What is written over the head: the jump, or the original bytes.
Wanted(t) == IF Installing(t) THEN "jump" ELSE "original"

Write(t) ==
  /\ At(t, "write")
  /\ head' = [head EXCEPT ![th[t].hook] = Wanted(t)]
  /\ Goto(t, IF Installing(t) THEN "flag" ELSE "drain")
  /\ UNCHANGED <<insts, registryMutex, isInstalled, accessMutex, inDetour, reached>>

\* The head stays what it was, or is torn by a write that broke off.
TearOrKeep(h) == \E bytes \in {head[h], "torn"} : head' = [head EXCEPT ![h] = bytes]

\* Faulty variant of WriteFails: the lock of the hook is leaked.
WriteFailsLocked(t) ==
  /\ At(t, "write")
  /\ Throw(t, "writeFailed")
  /\ TearOrKeep(th[t].hook)
  /\ UNCHANGED <<insts, isInstalled, accessMutex, inDetour, reached>>

WriteFails(t) ==
  /\ At(t, "write")
  /\ Throw(t, "writeFailed")
  /\ UnlockAccess(t)
  /\ TearOrKeep(th[t].hook)
  /\ UNCHANGED <<insts, isInstalled, inDetour, reached>>

\* uninstall() waits until no call of the hook is active.
Drain(t) ==
  /\ At(t, "drain")
  /\ \A u \in Threads : inDetour[u] # th[t].hook
  /\ Goto(t, "flag")
  /\ UNCHANGED <<insts, registryMutex, isInstalled, head, accessMutex, inDetour, reached>>

\* _is_installed is assigned; a sweep goes on, another operation returns.
SetFlag(t) ==
  LET h == th[t].hook IN
  /\ At(t, "flag")
  /\ isInstalled' = [isInstalled EXCEPT ![h] = Installing(t)]
  /\ reached' = [u \in Threads |-> IF Sweeping(u) /\ Installing(u) = Installing(t)
                                     THEN reached[u] \cup {h} ELSE reached[u]]
  /\ UnlockAccess(t)
  /\ IF Sweeping(t) THEN Goto(t, "sweep") ELSE End(t, "done")
  /\ UNCHANGED <<insts, registryMutex, head, inDetour>>

-----------------------------------------------------------------------------
(* Calls of the target functions.                                          *)

\* Over a torn head only those calls count that it leads to the detour.
EnterDetour(t) ==
  \E h \in Hooks :
    /\ At(t, "idle")
    /\ inDetour[t] = NoHook
    /\ head[h] # "original"
    /\ inDetour' = [inDetour EXCEPT ![t] = h]
    /\ UNCHANGED <<insts, registryMutex, isInstalled, head, accessMutex, th, reached>>

LeaveDetour(t) ==
  /\ At(t, "idle")
  /\ inDetour[t] # NoHook
  /\ inDetour' = [inDetour EXCEPT ![t] = NoHook]
  /\ UNCHANGED <<insts, registryMutex, isInstalled, head, accessMutex, th, reached>>

-----------------------------------------------------------------------------
LibraryStep(t) ==
  \/ LockRegistry(t) \/ Copy(t) \/ CheckName(t) \/ Push(t)
  \/ Visit(t) \/ EndSweep(t)
  \/ LockAccess(t) \/ Write(t) \/ WriteFails(t) \/ Drain(t) \/ SetFlag(t)

Next == \E t \in Threads : \/ CallSweep(t) \/ CallFind(t) \/ CallOne(t) \/ CallCreate(t)
                           \/ LibraryStep(t)
                           \/ EnterDetour(t) \/ LeaveDetour(t)

Spec == Init /\ [][Next]_vars

\* Threads that run library code keep running, and detours come to an end.
FairSpec ==
  /\ Spec
  /\ \A t \in Threads : WF_vars(LibraryStep(t)) /\ WF_vars(LeaveDetour(t))

-----------------------------------------------------------------------------
Outcomes == {"none", "done", "nameExists", "alreadyInstalled", "noTarget",
             "notInstalled", "writeFailed"}

(***************************************************************************)
(* Types, and who holds the locks: a mutex is owned only by a thread that  *)
(* is in a critical section of it, also after an exception.                *)
(***************************************************************************)
TypeOK ==
  /\ insts \in Seq(Hooks)
  /\ registryMutex \in Threads \cup {NoThread}
  /\ isInstalled \in [Hooks -> BOOLEAN]
  /\ head \in [Hooks -> Bytes]
  /\ accessMutex \in [Hooks -> Threads \cup {NoThread}]
  /\ inDetour \in [Threads -> Hooks \cup {NoHook}]
  /\ th \in [Threads ->
       [pc : {"idle", "lockRegistry", "sweep", "checkName", "push", "copy",
              "lockAccess", "write", "flag", "drain"},
        op : {"none", "install", "uninstall", "installAll", "uninstallAll",
              "create", "find"},
        hook : Hooks \cup {NoHook}, todo : Seq(Hooks), outcome : Outcomes,
        ops : 0..MaxOps]]
  /\ reached \in [Threads -> SUBSET Hooks]
  /\ \A t \in Threads :
       /\ registryMutex = t
            <=> (\/ At(t, "checkName") \/ At(t, "push") \/ At(t, "copy")
                 \/ (Sweeping(t) /\ th[t].pc \notin {"idle", "lockRegistry"}))
       /\ \A h \in Hooks :
            accessMutex[h] = t
              <=> (th[t].pc \in {"write", "drain", "flag"} /\ th[t].hook = h)

(***************************************************************************)
(* No two hooks of the list have one name, although hooks are created by   *)
(* several threads and the name is looked up before the hook is appended.  *)
(***************************************************************************)
NamesUnique ==
  \A i, j \in DOMAIN insts : NameOf[insts[i]] = NameOf[insts[j]] => i = j

\* The hooks that a sweep has come to: the last of them is the one at hand.
Visited(t) == {insts[i] : i \in 1..(Len(insts) - Len(th[t].todo))}

(***************************************************************************)
(* What install_all_hooks and uninstall_all_hooks have done when they end: *)
(* each hook they came to was installed (uninstalled) at some moment of    *)
(* the sweep, whatever other threads did to it, and a sweep that returns   *)
(* came to all of them.  An exception for a hook that another thread has   *)
(* changed since its flag was read is thrown when that hook is in the      *)
(* state the sweep wants; only a failed write and a missing target leave   *)
(* the one hook at which the sweep stops undone.                           *)
(***************************************************************************)
SweepSeesTo ==
  [][\A t \in Threads : Sweeping(t) /\ ~At(t, "idle") /\ At(t, "idle")' =>
       /\ th[t].outcome' = "done" => Visited(t) = Listed
       /\ \A h \in Visited(t) :
            \/ h \in reached[t]
            \/ h = th[t].hook /\ th[t].outcome' \in {"writeFailed", "noTarget"}]_vars

\* How far the thread that holds the lock of a hook is.
PhaseOf(t) == [write |-> "begun", drain |-> "drain", flag |-> "done"][th[t].pc]

Life(h) == INSTANCE HookLife
             WITH Calls     <- Threads,
                  Controllers <- Threads,
                  head      <- head[h],
                  installed <- isInstalled[h],
                  owner     <- accessMutex[h],
                  phase     <- IF accessMutex[h] = NoThread THEN "idle"
                               ELSE PhaseOf(accessMutex[h]),
                  coming    <- {},
                  inside    <- {t \in Threads : inDetour[t] = h}

(***************************************************************************)
(* Every hook, for itself, is turned over as HookLife says, whatever the   *)
(* operations on the registry and on the other hooks do meanwhile and      *)
(* although a sweep reads the flag without the lock.                       *)
(***************************************************************************)
EachHookLives ==
  /\ \A h \in Hooks : Life(h)!Init
  /\ [][\A h \in Hooks : [Life(h)!Next]_(Life(h)!vars)]_vars

\* An uninstall waits for a detour whose own thread is inside an operation
\* of the library, possibly that very uninstall.
DrainsBusyDetour ==
  \E t, u \in Threads :
    At(t, "drain") /\ inDetour[u] = th[t].hook /\ ~At(u, "idle")

\* What keeps t from its next step is something that u holds or is in.
Awaits(t, u) ==
  \/ At(t, "lockRegistry") /\ registryMutex = u
  \/ At(t, "lockAccess") /\ accessMutex[th[t].hook] = u
  \/ At(t, "drain") /\ inDetour[u] = th[t].hook

(***************************************************************************)
(* No deadlock between the lock of the registry, the locks of the hooks    *)
(* and the waiting for calls: whoever is waited for is inside an operation *)
(* or a detour, and no group of threads waits only for itself.  The one    *)
(* exception is an uninstall that waits for a detour which is itself       *)
(* inside an operation.                                                    *)
(***************************************************************************)
NoCircularWait ==
  \/ DrainsBusyDetour
  \/ /\ \A t, u \in Threads : Awaits(t, u) => ~At(u, "idle") \/ inDetour[u] # NoHook
     /\ \A S \in (SUBSET Threads) \ {{}} : \E t \in S : \A u \in S : ~Awaits(t, u)

\* The steps that an operation has before it once it has the registry, or
\* needs none: at most five for each hook.
StepsLeft(t) ==
  5 * Len(th[t].todo)
    + [lockAccess |-> 4, write |-> 3, drain |-> 2, flag |-> 1, sweep |-> 0,
       checkName |-> 1, push |-> 0, copy |-> 0][th[t].pc]

(***************************************************************************)
(* What an operation has to do is bounded when it gets the registry, and   *)
(* each step of it leaves less, whatever other threads do to the list and  *)
(* to the hooks meanwhile: a sweep neither starts over nor comes back to a *)
(* hook.  With NoCircularWait this is why operations end.                  *)
(***************************************************************************)
OperationsAdvance ==
  [][\A t \in Threads : ~At(t, "idle") /\ th'[t] # th[t] =>
       \/ At(t, "idle")'
       \/ At(t, "lockRegistry") /\ ~At(t, "lockRegistry")'
       \/ ~At(t, "lockRegistry")' /\ StepsLeft(t)' < StepsLeft(t)]_vars

(***************************************************************************)
(* Every operation ends, by a return or an exception: no deadlock, and no  *)
(* lock is left behind.  The one exception are detours that call the       *)
(* library, and then nothing but this: an uninstall that waits for ever    *)
(* for a detour which is itself inside an operation (a hook uninstalled by *)
(* its own detour, or a detour that needs the registry a sweep holds).     *)
(***************************************************************************)
EveryOperationEnds ==
  \/ <>[]DrainsBusyDetour
  \/ \A t \in Threads : ~At(t, "idle") ~> At(t, "idle")

(***************************************************************************)
(* README.md:40, "Acquire hook instances by name at any time": the call of *)
(* find_hook_inst comes back, also when a detour makes it.                 *)
(***************************************************************************)
FindReturns ==
  \A t \in Threads : th[t].op = "find" /\ ~At(t, "idle") ~> At(t, "idle")
=============================================================================
