-------------------------- MODULE HookInst_proofs ---------------------------
(***************************************************************************)
(* Proofs about one hook, for any number of calls and of threads that      *)
(* install and uninstall it.                                               *)
(***************************************************************************)
EXTENDS HookInst, CallGate_proofs

(***************************************************************************)
(* The gate's view of a call follows from where the call is, and calls     *)
(* that the gate counted are still inside it.                              *)
(***************************************************************************)
RouteOK ==
  /\ \A c \in Calls :
       /\ callPc[c] = "inside" <=> at[c] \in {"detour", "original", "returned"}
       /\ callPc[c] \in {"lockCond", "notify", "unlockCond"} => at[c] = "exit"
  /\ counted \subseteq Inside

(* access_mutex is held by exactly the thread that is inside a function.   *)
AccessOK == \A k \in Controllers : ctl[k] # "idle" <=> accessMutex = k

(* Only an uninstalling thread is in wait(), and it leaves drained.        *)
WaitOK ==
  \A k \in Controllers :
    /\ ctl[k] = "waiting" <=> waitPc[k] # "idle"
    /\ waitPc[k] = "unlockCond" => counted = {}
    /\ ctl[k] = "drained" => counted = {}

(* What the owner of access_mutex knows of the flag and of the bytes: a    *)
(* head it is about to write may be torn.                                  *)
HeadOK ==
  /\ FlagMatchesHead
  /\ \A k \in Controllers :
       /\ ctl[k] = "install" => ~isInstalled /\ head \in {"original", "torn"}
       /\ ctl[k] = "patched" => ~isInstalled /\ head = "jump"
       /\ ctl[k] = "uninstall" => isInstalled /\ head \in {"jump", "torn"}
       /\ ctl[k] \in {"unpatched", "waiting", "drained"} =>
            isInstalled /\ head = "original"

(* Over an original head, a call in the code of the hook was there when    *)
(* the head was restored, or is past the gate; and the calls the gate      *)
(* counted then are gone unless their wait still goes on.                  *)
RemainOK ==
  /\ head = "original" =>
       \A c \in InHookCode : at[c] = "exit" \/ c \in hoppers \/ c \in counted
  /\ counted # {} => \E k \in Controllers : ctl[k] \in {"unpatched", "waiting"}

HookInv == TypeOK /\ GateInv /\ RouteOK /\ AccessOK /\ WaitOK /\ HeadOK /\ RemainOK

-----------------------------------------------------------------------------
LEMMA HookInvInit == Init => HookInv
<1> SUFFICES ASSUME Init PROVE HookInv
  OBVIOUS
<1> USE GateAssumption DEF Init
<1>1. GateInv
  BY GateInvInit
<1>2. TypeOK
  BY <1>1 DEF GateInv, TypeOK
<1>3. RouteOK /\ AccessOK /\ WaitOK /\ HeadOK /\ RemainOK
  BY DEF GateInit, RouteOK, AccessOK, WaitOK, HeadOK, FlagMatchesHead, RemainOK,
         InHookCode
<1>4. QED  BY <1>1, <1>2, <1>3 DEF HookInv

(***************************************************************************)
(* To its gate, every step of the hook is a step of a gate or no step.     *)
(***************************************************************************)
LEMMA ActivationStepOfGate ==
  ASSUME NEW c \in Calls, ActivationStep(c)
  PROVE  \/ OnEnterCall(c) \/ OnExitCall(c) \/ ExitSteps(c)
         \/ UNCHANGED gateVars
BY DEF ActivationStep, Arrive, EnterDetour, CallOriginal, ReturnOriginal,
       ExitDetour, FinishExit, Return

LEMMA ControllerStepOfGate ==
  ASSUME NEW k \in Controllers, ControllerStep(k)
  PROVE  \/ BeginWait(k) \/ WaitSteps(k) \/ SpuriousWake(k)
         \/ UNCHANGED gateVars
BY DEF ControllerStep, BeginInstall, Patch, WriteFails, EndInstall,
       BeginUninstall, Unpatch, PeekGate, WaitForCalls, WakeSpuriously, EndWait,
       EndUninstall, WaitSteps

LEMMA StepOfGate == [Next]_vars => [GateNext]_gateVars
<1>1. UNCHANGED vars => UNCHANGED gateVars
  BY DEF vars
<1>2. QED
  BY <1>1, ActivationStepOfGate, ControllerStepOfGate DEF Next, GateNext

-----------------------------------------------------------------------------
(***************************************************************************)
(* The steps of a call.                                                    *)
(***************************************************************************)
LEMMA RouteActivation ==
  ASSUME HookInv, NEW c \in Calls, ActivationStep(c)
  PROVE  RouteOK'
<1> USE DEF HookInv, TypeOK, GateTypeOK, RouteOK, Move, CallStep, gateVars
<1>1. CASE Arrive(c)
  BY <1>1 DEF Arrive, Inside
<1>2. CASE EnterDetour(c)
  BY <1>2 DEF EnterDetour, OnEnterCall, Inside
<1>3. CASE CallOriginal(c) \/ ReturnOriginal(c)
  BY <1>3 DEF CallOriginal, ReturnOriginal, Inside
<1>4. CASE ExitDetour(c)
  BY <1>4 DEF ExitDetour, OnExitCall, Inside
<1>5. CASE FinishExit(c)
  BY <1>5 DEF FinishExit, ExitSteps, LockToNotify, NotifyAll, UnlockAfterNotify,
              hookVars, Inside
<1>6. CASE Return(c)
  BY <1>6 DEF Return, Inside
<1>7. QED  BY <1>1, <1>2, <1>3, <1>4, <1>5, <1>6 DEF ActivationStep

LEMMA RemainActivation ==
  ASSUME HookInv, NEW c \in Calls, ActivationStep(c)
  PROVE  RemainOK'
<1> USE DEF HookInv, TypeOK, RemainOK, Move, InHookCode
<1>1. UNCHANGED <<head, ctl>> /\ counted' \subseteq counted
  BY DEF ActivationStep, Arrive, EnterDetour, CallOriginal, ReturnOriginal,
         ExitDetour, FinishExit, Return, hookVars
<1>2. SUFFICES ASSUME head = "original", NEW d \in InHookCode'
               PROVE  at'[d] = "exit" \/ d \in hoppers' \/ d \in counted'
  BY <1>1
<1>3. d \in Calls
  OBVIOUS
<1>4. CASE Arrive(c)
  \* over an original head it leads past the hook
  <2>1. at' = [at EXCEPT ![c] = "target"] /\ UNCHANGED <<counted, hoppers>>
    BY <1>2, <1>4 DEF Arrive
  <2>2. QED  BY <1>2, <1>3, <2>1
<1>5. CASE EnterDetour(c) \/ CallOriginal(c) \/ ReturnOriginal(c) \/ Return(c)
  BY <1>2, <1>3, <1>5 DEF EnterDetour, CallOriginal, ReturnOriginal, Return
<1>6. CASE ExitDetour(c)
  BY <1>2, <1>3, <1>6 DEF ExitDetour
<1>7. CASE FinishExit(c)
  BY <1>2, <1>3, <1>7 DEF FinishExit, hookVars
<1>8. QED  BY <1>4, <1>5, <1>6, <1>7 DEF ActivationStep

LEMMA ActivationPreserves ==
  ASSUME HookInv, GateInv', NEW c \in Calls, ActivationStep(c)
  PROVE  HookInv'
<1> USE DEF HookInv
<1>1. UNCHANGED <<head, isInstalled, accessMutex, ctl>>
  BY DEF ActivationStep, Arrive, EnterDetour, CallOriginal, ReturnOriginal,
         ExitDetour, FinishExit, Return, hookVars
<1>2. counted' \subseteq counted
  BY DEF ActivationStep, Arrive, EnterDetour, CallOriginal, ReturnOriginal,
         ExitDetour, FinishExit, Return, hookVars
<1>3. /\ at' \in [Calls -> {"caller", "target", "hop", "detour", "original",
                            "returned", "exit", "lost"}]
      /\ hoppers' \in SUBSET Calls
  BY DEF ActivationStep, Arrive, EnterDetour, CallOriginal, ReturnOriginal,
         ExitDetour, FinishExit, Return, hookVars, Move, TypeOK
<1>4. TypeOK'
  BY <1>1, <1>2, <1>3 DEF GateInv, TypeOK
<1>5. RouteOK'
  BY RouteActivation
<1>6. AccessOK' /\ HeadOK'
  BY <1>1 DEF AccessOK, HeadOK, FlagMatchesHead
<1>7. WaitOK'
  \* a notification moves a sleeper inside wait(), and no other
  <2>1. \A w \in Controllers : waitPc'[w] = waitPc[w]
                            \/ (waitPc[w] = "asleep" /\ waitPc'[w] = "lockCond")
    BY ActivationStepOfGate DEF OnEnterCall, OnExitCall, ExitSteps, LockToNotify,
       NotifyAll, UnlockAfterNotify, TypeOK, GateTypeOK, gateVars
  <2>2. QED  BY <1>1, <1>2, <2>1 DEF WaitOK
<1>8. RemainOK'
  BY RemainActivation
<1>9. QED  BY <1>4, <1>5, <1>6, <1>7, <1>8

-----------------------------------------------------------------------------
(***************************************************************************)
(* The steps of install() and uninstall().                                 *)
(***************************************************************************)
LEMMA AccessController ==
  ASSUME HookInv, NEW k \in Controllers, ControllerStep(k)
  PROVE  /\ AccessOK'
         /\ HeadOK'
<1> USE GateAssumption DEF HookInv, TypeOK, AccessOK, HeadOK, FlagMatchesHead,
        CtlStep, LockAccess, UnlockAccess
<1>1. CASE BeginInstall(k) \/ BeginUninstall(k)
  BY <1>1 DEF BeginInstall, BeginUninstall
<1>2. CASE Patch(k) \/ Unpatch(k)
  BY <1>2 DEF Patch, Unpatch
<1>3. CASE WriteFails(k)
  BY <1>3 DEF WriteFails
<1>4. CASE EndInstall(k) \/ EndUninstall(k)
  BY <1>4 DEF EndInstall, EndUninstall
<1>5. CASE PeekGate(k) \/ EndWait(k)
  BY <1>5 DEF PeekGate, EndWait
<1>6. CASE WaitForCalls(k) \/ WakeSpuriously(k)
  BY <1>6 DEF WaitForCalls, WakeSpuriously, hookVars
<1>7. QED
  BY <1>1, <1>2, <1>3, <1>4, <1>5, <1>6 DEF ControllerStep

LEMMA WaitController ==
  ASSUME HookInv, NEW k \in Controllers, ControllerStep(k)
  PROVE  WaitOK'
<1> USE DEF HookInv, TypeOK, GateTypeOK, WaitOK, CtlStep, WaitStep, gateVars
<1>1. CASE BeginInstall(k) \/ BeginUninstall(k) \/ Patch(k) \/ WriteFails(k)
           \/ EndInstall(k) \/ EndUninstall(k)
  BY <1>1 DEF BeginInstall, BeginUninstall, Patch, WriteFails, EndInstall,
              EndUninstall
<1>2. CASE Unpatch(k)
  \* k holds access_mutex: nobody else is in wait(), or has just left it
  <2>1. \A j \in Controllers : ctl[j] \in {"waiting", "drained"} => j = k
    BY <1>2 DEF Unpatch, AccessOK
  <2>2. QED  BY <1>2, <2>1 DEF Unpatch
<1>3. CASE PeekGate(k)
  <2>1. NumActive = 0 => counted = {}
    BY InsideFinite DEF NumActive, GateInv, CountIsExact, RouteOK
  <2>2. QED  BY <1>3, <2>1 DEF PeekGate, BeginWait
<1>4. CASE WaitForCalls(k)
  <2>1. CASE CheckPredicate(k)
    <3>1. NumActive = 0 => counted = {}
      BY InsideFinite DEF NumActive, GateInv, CountIsExact, RouteOK
    <3>2. QED  BY <1>4, <2>1, <3>1 DEF WaitForCalls, CheckPredicate, hookVars
  <2>2. CASE LockToWait(k) \/ Sleep(k)
    BY <1>4, <2>2 DEF WaitForCalls, LockToWait, Sleep, hookVars
  <2>3. QED  BY <1>4, <2>1, <2>2 DEF WaitForCalls
<1>5. CASE WakeSpuriously(k)
  BY <1>5 DEF WakeSpuriously, SpuriousWake, hookVars
<1>6. CASE EndWait(k)
  BY <1>6 DEF EndWait, ReturnFromWait
<1>7. QED
  BY <1>1, <1>2, <1>3, <1>4, <1>5, <1>6 DEF ControllerStep

LEMMA RemainController ==
  ASSUME HookInv, NEW k \in Controllers, ControllerStep(k)
  PROVE  RemainOK'
<1> USE DEF HookInv, TypeOK, RemainOK, CtlStep, InHookCode
<1>1. UNCHANGED at
  BY DEF ControllerStep, BeginInstall, Patch, WriteFails, EndInstall,
         BeginUninstall, Unpatch, PeekGate, WaitForCalls, WakeSpuriously, EndWait,
         EndUninstall, hookVars
<1>2. CASE \/ BeginInstall(k) \/ BeginUninstall(k) \/ WriteFails(k)
           \/ EndInstall(k) \/ EndUninstall(k)
  BY <1>1, <1>2 DEF BeginInstall, BeginUninstall, WriteFails, EndInstall,
                    EndUninstall
<1>3. CASE Patch(k)
  BY <1>1, <1>3 DEF Patch
<1>4. CASE Unpatch(k)
  \* everybody in the code is sorted anew
  <2>1. \A c \in InHookCode : at[c] = "exit" \/ c \in Hopping \/ c \in Inside
    BY DEF RouteOK, Hopping, Inside
  <2>2. ctl'[k] = "unpatched"
    BY <1>4 DEF Unpatch
  <2>3. QED  BY <1>1, <1>4, <2>1, <2>2 DEF Unpatch
<1>5. CASE PeekGate(k)
  <2>1. NumActive = 0 => counted = {}
    BY InsideFinite DEF NumActive, GateInv, CountIsExact, RouteOK
  <2>2. ctl'[k] = "waiting" \/ counted' = {}
    BY <1>5, <2>1 DEF PeekGate
  <2>3. QED  BY <1>1, <1>5, <2>2 DEF PeekGate
<1>6. CASE WaitForCalls(k) \/ WakeSpuriously(k)
  BY <1>1, <1>6 DEF WaitForCalls, WakeSpuriously, hookVars
<1>7. CASE EndWait(k)
  <2>1. counted' = {}
    BY <1>7 DEF EndWait, ReturnFromWait, WaitStep, WaitOK
  <2>2. QED  BY <1>1, <1>7, <2>1 DEF EndWait
<1>8. QED  BY <1>2, <1>3, <1>4, <1>5, <1>6, <1>7 DEF ControllerStep

LEMMA ControllerPreserves ==
  ASSUME HookInv, GateInv', NEW k \in Controllers, ControllerStep(k)
  PROVE  HookInv'
<1> USE DEF HookInv
<1>1. UNCHANGED <<callPc, at>>
  BY DEF ControllerStep, BeginInstall, Patch, WriteFails, EndInstall,
         BeginUninstall, Unpatch, PeekGate, WaitForCalls, WakeSpuriously, EndWait,
         EndUninstall, hookVars, gateVars, BeginWait, LockToWait, CheckPredicate,
         Sleep, SpuriousWake, ReturnFromWait
<1>2. counted' \in {counted, Inside}
  BY DEF ControllerStep, BeginInstall, Patch, WriteFails, EndInstall,
         BeginUninstall, Unpatch, PeekGate, WaitForCalls, WakeSpuriously, EndWait,
         EndUninstall, hookVars
<1>3. RouteOK'
  BY <1>1, <1>2 DEF RouteOK, Inside
<1>4. TypeOK'
  <2>1. counted' \in SUBSET Calls
    BY <1>2 DEF TypeOK, Inside
  <2>2. /\ head' \in {"original", "jump", "torn"} /\ isInstalled' \in BOOLEAN
        /\ accessMutex' \in Controllers \cup {NoThread}
        /\ ctl' \in [Controllers -> {"idle", "install", "patched", "uninstall",
                                     "unpatched", "waiting", "drained"}]
        /\ hoppers' \in SUBSET Calls
    BY DEF ControllerStep, BeginInstall, Patch, WriteFails, EndInstall,
         BeginUninstall, Unpatch, PeekGate, WaitForCalls, WakeSpuriously, EndWait,
         EndUninstall, hookVars, CtlStep, LockAccess, UnlockAccess, TypeOK, Hopping
  <2>3. QED  BY <1>1, <2>1, <2>2 DEF TypeOK, GateInv
<1>5. AccessOK' /\ HeadOK'
  BY AccessController
<1>6. WaitOK'
  BY WaitController
<1>7. RemainOK'
  BY RemainController
<1>8. QED  BY <1>3, <1>4, <1>5, <1>6, <1>7

LEMMA HookInvStep == HookInv /\ [Next]_vars => HookInv'
<1> SUFFICES ASSUME HookInv, [Next]_vars PROVE HookInv'
  OBVIOUS
<1>1. GateInv'
  BY StepOfGate, GateInvStep DEF HookInv
<1>2. CASE UNCHANGED vars
  BY <1>1, <1>2 DEF vars, gateVars, hookVars, HookInv, TypeOK, RouteOK, AccessOK,
     WaitOK, HeadOK, FlagMatchesHead, RemainOK, InHookCode, GateInv, Inside
<1>3. CASE \E c \in Calls : ActivationStep(c)
  BY <1>1, <1>3, ActivationPreserves
<1>4. CASE \E k \in Controllers : ControllerStep(k)
  BY <1>1, <1>4, ControllerPreserves
<1>5. QED  BY <1>2, <1>3, <1>4 DEF Next

-----------------------------------------------------------------------------
(***************************************************************************)
(* The inductive invariant of a hook.                                      *)
(***************************************************************************)
THEOREM HookInvariant == Spec => []HookInv
<1>1. QED  BY HookInvInit, HookInvStep, PTL DEF Spec

(***************************************************************************)
(* Types and ranges; in particular num_active_calls never wraps.           *)
(***************************************************************************)
THEOREM HookTypeCorrect == Spec => []TypeOK
<1>1. HookInv => TypeOK  BY DEF HookInv
<1>2. QED  BY <1>1, HookInvariant, PTL

(***************************************************************************)
(* Between two operations _is_installed tells what the bytes of the target *)
(* are, unless the last write broke off and left them torn: for any number *)
(* of threads, whichever writes fail and however far they came.            *)
(***************************************************************************)
THEOREM FlagCorrect == Spec => []FlagMatchesHead
<1>1. HookInv => FlagMatchesHead  BY DEF HookInv, HeadOK
<1>2. QED  BY <1>1, HookInvariant, PTL

(***************************************************************************)
(* uninstall() ends only when every call that the gate counted at the      *)
(* moment the head was restored has left the detour.                       *)
(***************************************************************************)
THEOREM UninstallCorrect == Spec => []UninstallDrains
<1>1. HookInv => UninstallDrains  BY DEF HookInv, WaitOK, UninstallDrains
<1>2. QED  BY <1>1, HookInvariant, PTL

(***************************************************************************)
(* In the code of an uninstalled hook there are only threads on their way  *)
(* out and calls that were between the jump and the gate when its head was *)
(* restored, for any number of calls that come and go meanwhile.           *)
(***************************************************************************)
THEOREM RemainingCallsKnown == Spec => []OnlyUncountedRemain
<1>1. HookInv => OnlyUncountedRemain
  <2> SUFFICES ASSUME HookInv, accessMutex = NoThread PROVE OnlyUncountedRemain
    BY DEF OnlyUncountedRemain
  <2>1. \A k \in Controllers : ctl[k] = "idle"
    BY GateAssumption DEF HookInv, AccessOK
  <2>2. counted = {}
    BY <2>1 DEF HookInv, RemainOK
  <2>3. QED  BY <2>2 DEF HookInv, RemainOK, OnlyUncountedRemain
<1>2. QED  BY <1>1, HookInvariant, PTL

(***************************************************************************)
(* A hook uses its gate as the gate is meant to be used: all that holds of *)
(* a gate holds of the gate of a hook.                                     *)
(***************************************************************************)
THEOREM HookUsesGate == Spec => GateSpec
<1>1. Init => GateInit
  BY DEF Init
<1>2. QED  BY <1>1, StepOfGate, PTL DEF Spec, GateSpec

-----------------------------------------------------------------------------
(* The hook implements HookLife.                                           *)

\* What HookLife sees of the state.
TheOwnersPhase == IF accessMutex = NoThread THEN "idle" ELSE PhaseOf(accessMutex)

\* An empty counter means an empty detour.
LEMMA CountedOut ==
  ASSUME HookInv, NumActive = 0
  PROVE  Inside = {}
BY InsideFinite DEF NumActive, HookInv, GateInv, CountIsExact

\* Where the owner of access_mutex is.
LEMMA OwnersPhase ==
  ASSUME HookInv, NEW k \in Controllers, ctl[k] # "idle"
  PROVE  accessMutex = k /\ TheOwnersPhase = PhaseOf(k)
BY GateAssumption DEF HookInv, AccessOK, TheOwnersPhase

LEMMA ActivationLives ==
  ASSUME HookInv, NEW c \in Calls, ActivationStep(c)
  PROVE  [Life!Next]_(Life!vars)
<1> USE DEF HookInv, TypeOK, GateTypeOK, Move, CallStep, gateVars, hookVars
<1>1. UNCHANGED <<head, isInstalled, accessMutex, ctl>>
  BY DEF ActivationStep, Arrive, EnterDetour, CallOriginal, ReturnOriginal,
         ExitDetour, FinishExit, Return
<1>2. UNCHANGED TheOwnersPhase
  \* a notification only moves sleepers
  <2>1. \A k \in Controllers : waitPc'[k] = "unlockCond" <=> waitPc[k] = "unlockCond"
    BY ActivationStepOfGate DEF OnEnterCall, OnExitCall, ExitSteps, LockToNotify,
       NotifyAll, UnlockAfterNotify
  <2>2. QED  BY <1>1, <2>1 DEF TheOwnersPhase, PhaseOf
<1>3. at[c] = "hop" => c \notin Inside
  BY DEF RouteOK, Inside
<1>4. CASE Arrive(c)
  <2>1. UNCHANGED Inside /\ (c \notin Inside) /\ (c \notin Hopping)
    BY <1>4 DEF Arrive, Inside, Hopping, RouteOK
  <2>2. PICK to \in {"target", "hop", "lost"} :
          /\ at' = [at EXCEPT ![c] = to]
          /\ to = "hop" => head # "original"
    <3>1. CASE head = "original"
      BY <1>4, <3>1 DEF Arrive
    <3>2. CASE head = "jump"
      BY <1>4, <3>2 DEF Arrive
    <3>3. CASE head = "torn"
      BY <1>4, <3>3 DEF Arrive
    <3>4. QED  BY <3>1, <3>2, <3>3
  <2>3. CASE to = "hop"
    <3>1. Hopping' = Hopping \cup {c} /\ head # "original"
      BY <2>2, <2>3 DEF Hopping
    <3>2. Life!Take(c)
      BY <1>1, <1>2, <2>1, <3>1 DEF Life!Take, TheOwnersPhase
    <3>3. QED  BY <3>2 DEF Life!Next
  <2>4. CASE to # "hop"
    <3>1. UNCHANGED Hopping
      BY <2>1, <2>2, <2>4 DEF Hopping
    <3>2. QED  BY <1>1, <1>2, <2>1, <3>1 DEF Life!vars, TheOwnersPhase
  <2>5. QED  BY <2>3, <2>4
<1>5. CASE EnterDetour(c)
  <2>1. /\ c \in Hopping /\ Hopping' = Hopping \ {c}
        /\ Inside' = Inside \cup {c}
    BY <1>5 DEF EnterDetour, OnEnterCall, Hopping, Inside
  <2>2. Life!Enter(c)
    BY <1>1, <1>2, <1>3, <1>5, <2>1 DEF EnterDetour, Life!Enter, Hopping, TheOwnersPhase
  <2>3. QED  BY <2>2 DEF Life!Next
<1>6. CASE ExitDetour(c)
  <2>1. c \in Inside /\ Inside' = Inside \ {c} /\ UNCHANGED Hopping
    BY <1>6 DEF ExitDetour, OnExitCall, Hopping, Inside
  <2>2. Life!Leave(c)
    BY <1>1, <1>2, <2>1 DEF Life!Leave, Hopping, TheOwnersPhase
  <2>3. QED  BY <2>2 DEF Life!Next
<1>7. CASE CallOriginal(c) \/ ReturnOriginal(c) \/ FinishExit(c) \/ Return(c)
  <2>1. UNCHANGED <<Inside, Hopping>>
    BY <1>7 DEF CallOriginal, ReturnOriginal, FinishExit, Return, ExitSteps,
       LockToNotify, NotifyAll, UnlockAfterNotify, Inside, Hopping
  <2>2. QED  BY <1>1, <1>2, <2>1 DEF Life!vars, Hopping, TheOwnersPhase
<1>8. QED  BY <1>4, <1>5, <1>6, <1>7 DEF ActivationStep

LEMMA ControllerLives ==
  ASSUME HookInv, HookInv', NEW k \in Controllers, ControllerStep(k)
  PROVE  [Life!Next]_(Life!vars)
<1> USE DEF TypeOK, GateTypeOK, CtlStep, WaitStep, gateVars, hookVars
<1>1. HookInv /\ TypeOK /\ TypeOK'
  BY DEF HookInv
<1>2. UNCHANGED <<Inside, Hopping>>
  BY DEF ControllerStep, BeginInstall, Patch, WriteFails, EndInstall,
         BeginUninstall, Unpatch, PeekGate, WaitForCalls, WakeSpuriously, EndWait,
         EndUninstall, BeginWait, LockToWait, CheckPredicate, Sleep, SpuriousWake,
         ReturnFromWait, Inside, Hopping
<1>3. ctl[k] # "idle" => accessMutex = k /\ TheOwnersPhase = PhaseOf(k)
  BY OwnersPhase
<1>4. ctl'[k] # "idle" => accessMutex' = k /\ TheOwnersPhase' = PhaseOf(k)'
  BY GateAssumption DEF HookInv, AccessOK, TheOwnersPhase
<1>5. accessMutex' = NoThread => TheOwnersPhase' = "idle"
  BY DEF TheOwnersPhase
<1>6. CASE BeginInstall(k) \/ BeginUninstall(k)
  <2>1. Life!Begin(k)
    BY <1>1, <1>2, <1>4, <1>6
       DEF BeginInstall, BeginUninstall, LockAccess, PhaseOf, Life!Begin, Hopping,
           TheOwnersPhase
  <2>2. QED  BY <2>1 DEF Life!Next
<1>7. CASE WriteFails(k)
  <2>1. Life!Fail
    BY <1>1, <1>2, <1>3, <1>7
       DEF WriteFails, UnlockAccess, PhaseOf, Life!Fail, Life!Release, Hopping,
           TheOwnersPhase
  <2>2. QED  BY <2>1 DEF Life!Next
<1>8. CASE Patch(k) \/ Unpatch(k)
  <2>1. /\ Patch(k) => ~isInstalled
        /\ Unpatch(k) => isInstalled /\ waitPc[k] = "idle"
    BY DEF Patch, Unpatch, HookInv, HeadOK, WaitOK
  <2>2. Life!Rewrite
    BY <1>1, <1>2, <1>3, <1>4, <1>8, <2>1
       DEF Patch, Unpatch, PhaseOf, Life!Rewrite, Hopping, TheOwnersPhase
  <2>3. QED  BY <2>2 DEF Life!Next
<1>9. CASE PeekGate(k) /\ NumActive = 0
  <2>1. Inside = {} /\ waitPc[k] = "idle"
    BY <1>9, CountedOut DEF PeekGate, HookInv, WaitOK
  <2>2. Life!Drained
    BY <1>1, <1>2, <1>3, <1>4, <1>9, <2>1
       DEF PeekGate, PhaseOf, Life!Drained, Hopping, TheOwnersPhase
  <2>3. QED  BY <2>2 DEF Life!Next
<1>10. CASE WaitForCalls(k) /\ waitPc'[k] = "unlockCond"
  <2>1. CheckPredicate(k) /\ NumActive = 0
    BY <1>1, <1>10 DEF WaitForCalls, LockToWait, CheckPredicate, Sleep
  <2>2. Inside = {} /\ ctl[k] = "waiting" /\ waitPc[k] = "check"
    BY <2>1, CountedOut DEF CheckPredicate, HookInv, WaitOK
  <2>3. Life!Drained
    BY <1>1, <1>2, <1>3, <1>4, <1>10, <2>1, <2>2
       DEF WaitForCalls, PhaseOf, Life!Drained, Hopping, TheOwnersPhase
  <2>4. QED  BY <2>3 DEF Life!Next
<1>11. CASE EndInstall(k) \/ EndUninstall(k)
  <2>1. /\ EndInstall(k) => head = "jump"
        /\ EndUninstall(k) => head = "original"
    BY DEF EndInstall, EndUninstall, HookInv, HeadOK
  <2>2. Life!End
    BY <1>1, <1>2, <1>3, <1>11, <2>1
       DEF EndInstall, EndUninstall, UnlockAccess, PhaseOf, Life!End, Life!Release,
           Hopping, TheOwnersPhase
  <2>3. QED  BY <2>2 DEF Life!Next
\* The rest of the wait.
<1>12. CASE \/ PeekGate(k) /\ NumActive # 0
            \/ WaitForCalls(k) /\ waitPc'[k] # "unlockCond"
            \/ WakeSpuriously(k) \/ EndWait(k)
  <2>1. UNCHANGED <<head, isInstalled, accessMutex>>
    BY <1>12 DEF PeekGate, WaitForCalls, WakeSpuriously, EndWait
  <2>2. ctl[k] # "idle" /\ ctl'[k] # "idle" /\ PhaseOf(k)' = PhaseOf(k)
    <3>1. CASE PeekGate(k) /\ NumActive # 0
      BY <1>1, <3>1 DEF PeekGate, BeginWait, PhaseOf, HookInv, WaitOK
    <3>2. CASE WaitForCalls(k) /\ waitPc'[k] # "unlockCond"
      BY <1>1, <3>2 DEF WaitForCalls, LockToWait, CheckPredicate, Sleep, PhaseOf,
         HookInv, WaitOK
    <3>3. CASE WakeSpuriously(k)
      BY <1>1, <3>3 DEF WakeSpuriously, SpuriousWake, PhaseOf, HookInv, WaitOK
    <3>4. CASE EndWait(k)
      BY <1>1, <3>4 DEF EndWait, ReturnFromWait, PhaseOf
    <3>5. QED  BY <1>12, <3>1, <3>2, <3>3, <3>4
  <2>3. UNCHANGED TheOwnersPhase
    BY <1>3, <1>4, <2>2
  <2>4. QED  BY <1>2, <2>1, <2>3 DEF Life!vars, Hopping, TheOwnersPhase
<1>13. QED
  BY <1>6, <1>7, <1>8, <1>9, <1>10, <1>11, <1>12 DEF ControllerStep

(***************************************************************************)
(* A hook with its gate, its locks and the route of its calls does what    *)
(* HookLife says: in particular no uninstall ends before a moment, after   *)
(* the head was restored, at which no call is inside.                      *)
(***************************************************************************)
THEOREM HookImplementsLife == Spec => ImplementsLife
<1>1. Init => Life!Init
  BY DEF Init, GateInit, Life!Init, Inside, Hopping
<1>2. HookInv /\ HookInv' /\ [Next]_vars => [Life!Next]_(Life!vars)
  <2> SUFFICES ASSUME HookInv, HookInv', [Next]_vars  PROVE [Life!Next]_(Life!vars)
    OBVIOUS
  <2>1. CASE UNCHANGED vars
    BY <2>1 DEF vars, gateVars, hookVars, Life!vars, Inside, PhaseOf, Hopping
  <2>2. QED  BY <2>1, ActivationLives, ControllerLives DEF Next
<1>3. QED  BY <1>1, <1>2, HookInvariant, PTL DEF Spec, ImplementsLife, Life!Spec
=============================================================================
