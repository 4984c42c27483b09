------------------------------ MODULE HookInst ------------------------------
(***************************************************************************)
(* One hook with a target function: install() and uninstall() of           *)
(* HookInst::Inner (src/hook_inst_inner.cpp) run by any number of threads, *)
(* and the calls of the target function that travel through its patched    *)
(* head, the trampoline, the function ZT_DEFINE_HOOK generates             *)
(* (include/ztour/hook_inst.h) and the call gate.                          *)
(*                                                                         *)
(* The hook keeps one Inner here: change_target_func is not part of this   *)
(* module.  The head of the target is replaced in one step, or torn by a   *)
(* write that breaks off in the middle of it.                              *)
(***************************************************************************)
EXTENDS CallGate

VARIABLES
  head,         \* what the first bytes of target_func are: "original", "jump",
                \* or "torn", a part of each
  isInstalled,  \* _is_installed
  accessMutex,  \* the owner of access_mutex
  ctl,          \* where each controller is in install() or uninstall()
  at,           \* where each activation is
  counted,      \* history: the calls the gate counted when the head was last
                \* restored, less those that have left since
  hoppers       \* history: the calls past the jump but not yet counted then,
                \* less those that have left since

hookVars == <<head, isInstalled, accessMutex, ctl, at, counted, hoppers>>
vars == <<gateVars, hookVars>>

Init == /\ GateInit
        /\ head = "original"
        /\ isInstalled = FALSE
        /\ accessMutex = NoThread
        /\ ctl = [k \in Controllers |-> "idle"]
        /\ at = [c \in Calls |-> "caller"]
        /\ counted = {}
        /\ hoppers = {}

CtlStep(k, from, to) == ctl[k] = from /\ ctl' = [ctl EXCEPT ![k] = to]
Move(c, from, to) == at[c] \in from /\ at' = [at EXCEPT ![c] = to]

LockAccess(k) == accessMutex = NoThread /\ accessMutex' = k
UnlockAccess == accessMutex' = NoThread

-----------------------------------------------------------------------------
(* The path of a call.                                                     *)

\* The first bytes of the target decide: the rel jmp of install() leads to
\* code_enter_detour and on to the generated function, not yet counted.  Of a
\* torn head nothing is known: it may be as good as either, or send the call
\* astray for good.
Arrive(c) ==
  /\ \E to \in [original |-> {"target"}, jump |-> {"hop"},
                torn |-> {"target", "hop", "lost"}][head] : Move(c, {"caller"}, to)
  /\ UNCHANGED <<gateVars, head, isInstalled, accessMutex, ctl, counted, hoppers>>

\* The constructor of ScopeGuard, the first statement of the detour.
EnterDetour(c) ==
  /\ Move(c, {"hop"}, "detour")
  /\ OnEnterCall(c)
  /\ UNCHANGED <<head, isInstalled, accessMutex, ctl, counted, hoppers>>

\* ctx.call_original goes to code_call_original, past the patched head.
CallOriginal(c) ==
  /\ Move(c, {"detour"}, "original")
  /\ UNCHANGED <<gateVars, head, isInstalled, accessMutex, ctl, counted, hoppers>>

ReturnOriginal(c) ==
  /\ Move(c, {"original"}, "returned")
  /\ UNCHANGED <<gateVars, head, isInstalled, accessMutex, ctl, counted, hoppers>>

\* The user's code is done: the destructor of ScopeGuard runs on_exit_call.
ExitDetour(c) ==
  /\ Move(c, {"detour", "returned"}, "exit")
  /\ OnExitCall(c)
  /\ counted' = counted \ {c}
  /\ hoppers' = hoppers \ {c}
  /\ UNCHANGED <<head, isInstalled, accessMutex, ctl>>

FinishExit(c) ==
  /\ ExitSteps(c)
  /\ UNCHANGED hookVars

\* The generated function returns, or the unhooked target does.
Return(c) ==
  /\ Move(c, {"exit", "target"}, "caller")
  /\ callPc[c] = "out"
  /\ UNCHANGED <<gateVars, head, isInstalled, accessMutex, ctl, counted, hoppers>>

ActivationStep(c) == \/ Arrive(c) \/ EnterDetour(c) \/ CallOriginal(c)
                     \/ ReturnOriginal(c) \/ ExitDetour(c)
                     \/ FinishExit(c) \/ Return(c)
-----------------------------------------------------------------------------
(* install().  A call on an installed hook throws under the lock and       *)
(* changes nothing: it is no action here.                                  *)

BeginInstall(k) ==
  /\ CtlStep(k, "idle", "install")
  /\ LockAccess(k)
  /\ ~isInstalled
  /\ UNCHANGED <<gateVars, head, isInstalled, at, counted, hoppers>>

\* overwrite_executable_mem puts the jump over the head of the target ...
Patch(k) ==
  /\ CtlStep(k, "install", "patched")
  /\ head' = "jump"
  /\ hoppers' = {}
  /\ UNCHANGED <<gateVars, isInstalled, accessMutex, at, counted>>

\* ... or throws, before a byte is written or after some are, and the lock is
\* released with the flag untouched.
WriteFails(k) ==
  /\ \/ CtlStep(k, "install", "idle")
     \/ CtlStep(k, "uninstall", "idle")
  /\ head' \in {head, "torn"}
  /\ UnlockAccess
  /\ UNCHANGED <<gateVars, isInstalled, at, counted, hoppers>>

EndInstall(k) ==
  /\ CtlStep(k, "patched", "idle")
  /\ isInstalled' = TRUE
  /\ UnlockAccess
  /\ UNCHANGED <<gateVars, head, at, counted, hoppers>>

-----------------------------------------------------------------------------
(* uninstall().  A call on a hook that is not installed throws likewise.   *)

\* Faulty variant of BeginUninstall: the flag is cleared before the write,
\* which may throw.
BeginUninstallClearing(k) ==
  /\ CtlStep(k, "idle", "uninstall")
  /\ LockAccess(k)
  /\ isInstalled
  /\ isInstalled' = FALSE
  /\ UNCHANGED <<gateVars, head, at, counted, hoppers>>

BeginUninstall(k) ==
  /\ CtlStep(k, "idle", "uninstall")
  /\ LockAccess(k)
  /\ isInstalled
  /\ UNCHANGED <<gateVars, head, isInstalled, at, counted, hoppers>>

Hopping == {c \in Calls : at[c] = "hop"}

\* Faulty variant of Unpatch: the wait comes first, and then the write.
UnpatchAfterWait(k) ==
  /\ \/ CtlStep(k, "uninstall", "unpatched") /\ UNCHANGED head
     \/ CtlStep(k, "drained", "drained") /\ head' = "original"
  /\ counted' = Inside
  /\ hoppers' = Hopping
  /\ UNCHANGED <<gateVars, isInstalled, accessMutex, at>>

\* patched_original_bytes are written back.
Unpatch(k) ==
  /\ CtlStep(k, "uninstall", "unpatched")
  /\ head' = "original"
  /\ counted' = Inside
  /\ hoppers' = Hopping
  /\ UNCHANGED <<gateVars, isInstalled, accessMutex, at>>

\* Faulty variant of PeekGate: the wait is skipped for a single active call.
PeekForMany(k) ==
  /\ \/ /\ NumActive <= 1
        /\ CtlStep(k, "unpatched", "drained")
        /\ UNCHANGED gateVars
     \/ /\ NumActive > 1
        /\ CtlStep(k, "unpatched", "waiting")
        /\ BeginWait(k)
  /\ UNCHANGED <<head, isInstalled, accessMutex, at, counted, hoppers>>

\* Only if the gate counts an active call is it waited for.
PeekGate(k) ==
  /\ \/ /\ NumActive = 0
        /\ CtlStep(k, "unpatched", "drained")
        /\ UNCHANGED gateVars
     \/ /\ NumActive > 0
        /\ CtlStep(k, "unpatched", "waiting")
        /\ BeginWait(k)
  /\ UNCHANGED <<head, isInstalled, accessMutex, at, counted, hoppers>>

WaitForCalls(k) ==
  /\ LockToWait(k) \/ CheckPredicate(k) \/ Sleep(k)
  /\ UNCHANGED hookVars

WakeSpuriously(k) ==
  /\ SpuriousWake(k)
  /\ UNCHANGED hookVars

EndWait(k) ==
  /\ CtlStep(k, "waiting", "drained")
  /\ ReturnFromWait(k)
  /\ UNCHANGED <<head, isInstalled, accessMutex, at, counted, hoppers>>

EndUninstall(k) ==
  /\ CtlStep(k, "drained", "idle")
  /\ isInstalled' = FALSE
  /\ UnlockAccess
  /\ UNCHANGED <<gateVars, head, at, counted, hoppers>>

ControllerStep(k) ==
  \/ BeginInstall(k) \/ Patch(k) \/ WriteFails(k) \/ EndInstall(k)
  \/ BeginUninstall(k) \/ Unpatch(k) \/ PeekGate(k) \/ WaitForCalls(k)
  \/ WakeSpuriously(k) \/ EndWait(k) \/ EndUninstall(k)

-----------------------------------------------------------------------------
Next == \/ \E c \in Calls : ActivationStep(c)
        \/ \E k \in Controllers : ControllerStep(k)

Spec == Init /\ [][Next]_vars

(***************************************************************************)
(* Threads that run library code keep running; the detour's own code and   *)
(* the original function come to an end.  Nobody is obliged to call the    *)
(* target or to install or uninstall the hook, and calls may arrive for    *)
(* ever.  Mutexes are only assumed not to stay free while somebody wants   *)
(* them for ever (weak fairness).                                          *)
(***************************************************************************)
Fairness ==
  /\ \A c \in Calls : /\ WF_vars(EnterDetour(c))
                      /\ WF_vars(ReturnOriginal(c))
                      /\ WF_vars(ExitDetour(c))
                      /\ WF_vars(FinishExit(c))
  /\ \A k \in Controllers : /\ WF_vars(PeekGate(k))
                            /\ WF_vars(WaitForCalls(k))
                            /\ WF_vars(EndWait(k))
                            /\ WF_vars(EndUninstall(k))

FairSpec == Spec /\ Fairness

-----------------------------------------------------------------------------
\* The calls whose thread is in the code of the hook: in the trampoline, in
\* the generated function, or in the original function called from it.
InHookCode == {c \in Calls : at[c] \in {"hop", "detour", "original", "returned", "exit"}}

(* Types and ranges. *)
TypeOK ==
  /\ GateTypeOK
  /\ head \in {"original", "jump", "torn"}
  /\ isInstalled \in BOOLEAN
  /\ accessMutex \in Controllers \cup {NoThread}
  /\ ctl \in [Controllers -> {"idle", "install", "patched", "uninstall",
                              "unpatched", "waiting", "drained"}]
  /\ at \in [Calls -> {"caller", "target", "hop", "detour", "original",
                       "returned", "exit", "lost"}]
  /\ counted \in SUBSET Calls
  /\ hoppers \in SUBSET Calls

(***************************************************************************)
(* Whenever nobody is installing or uninstalling, the flag tells what the  *)
(* bytes of the target are, also after writes that failed before the first *)
(* byte.  One that broke off leaves a torn head under the flag it found;   *)
(* the next write that succeeds ends that, whichever threads come between. *)
(***************************************************************************)
FlagMatchesHead ==
  accessMutex = NoThread /\ head # "torn" => (isInstalled <=> head = "jump")

(***************************************************************************)
(* uninstall() waits for the calls it knows of: when it gives up the wait, *)
(* every call the gate counted when the head was restored has left the     *)
(* detour.                                                                 *)
(***************************************************************************)
UninstallDrains ==
  \A k \in Controllers : ctl[k] = "drained" => counted = {}

(***************************************************************************)
(* Who can still be in the code of a hook that is uninstalled: threads on  *)
(* their way out behind the gate, and calls that were past the jump and    *)
(* not yet counted when the head was restored.  Nobody else, however calls *)
(* come and go while uninstall() writes, looks at the gate and waits.      *)
(***************************************************************************)
OnlyUncountedRemain ==
  accessMutex = NoThread /\ ~isInstalled /\ head = "original" =>
    \A c \in InHookCode : at[c] = "exit" \/ c \in hoppers

(***************************************************************************)
(* What remains of the hook when bytes, locks, the gate and the route of   *)
(* the calls are forgotten: how far the owner of access_mutex is, and who  *)
(* is on the way to the detour.  The wait is over once the counter has     *)
(* been seen at zero.                                                      *)
(***************************************************************************)
PhaseOf(k) ==
  CASE ctl[k] \in {"install", "uninstall"} -> "begun"
    [] ctl[k] \in {"patched", "drained"}   -> "done"
    [] OTHER -> IF waitPc[k] = "unlockCond" THEN "done" ELSE "drain"

Life == INSTANCE HookLife
          WITH head      <- head,
               installed <- isInstalled,
               owner     <- accessMutex,
               phase     <- IF accessMutex = NoThread THEN "idle" ELSE PhaseOf(accessMutex),
               coming    <- Hopping,
               inside    <- Inside

(***************************************************************************)
(* install(), uninstall() and the calls together keep what HookLife        *)
(* promises: one thread at a time turns the hook over, no call gets in     *)
(* over an original head, and an uninstall does not end before a moment,   *)
(* after the head was restored, with no call inside.                       *)
(***************************************************************************)
ImplementsLife == Life!Spec

(***************************************************************************)
(* An uninstall() that has restored the head comes to its end, if detours  *)
(* do ("blocking hook removal").                                           *)
(***************************************************************************)
UninstallTerminates ==
  \A k \in Controllers : ctl[k] = "unpatched" ~> ctl[k] = "idle"
=============================================================================
