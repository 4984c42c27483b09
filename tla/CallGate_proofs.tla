-------------------------- MODULE CallGate_proofs ---------------------------
(***************************************************************************)
(* Proofs about the call gate, for any number of calls and waiters.        *)
(***************************************************************************)
EXTENDS CallGate, FiniteSetTheorems, TLAPS

(***************************************************************************)
(* Who is inside the critical sections of cond_mutex owns it.  Without it  *)
(* NoLostWakeup is not inductive: a notification could fall between the    *)
(* predicate of a waiter and its sleep.                                    *)
(***************************************************************************)
CondMutexOK ==
  /\ \A c \in Calls : callPc[c] \in {"notify", "unlockCond"} => condMutex = c
  /\ \A w \in Controllers : waitPc[w] \in {"check", "sleep", "unlockCond"} => condMutex = w

GateInv == GateTypeOK /\ CondMutexOK /\ CountIsExact /\ NoLostWakeup

-----------------------------------------------------------------------------
\* The calls inside are finitely many, and so can be counted.
LEMMA InsideFinite ==
  /\ IsFiniteSet(Inside)
  /\ Cardinality(Inside) \in 0..Cardinality(Calls)
  /\ Cardinality(Inside) = 0 <=> Inside = {}
<1>1. IsFiniteSet(Calls) /\ Inside \in SUBSET Calls
  BY GateAssumption DEF Inside
<1>2. IsFiniteSet(Inside) /\ Cardinality(Inside) <= Cardinality(Calls)
  BY <1>1, FS_Subset
<1>3. Cardinality(Inside) \in Nat /\ Cardinality(Calls) \in Nat
  BY <1>1, <1>2, FS_CardinalityType
<1>4. Cardinality(Inside) = 0 <=> Inside = {}
  BY <1>2, FS_EmptySet
<1>5. QED  BY <1>2, <1>3, <1>4

\* on_enter_call counts a call that was not inside.
LEMMA EnterCounts ==
  ASSUME GateTypeOK, CountIsExact, NEW c \in Calls, OnEnterCall(c)
  PROVE  /\ Inside' = Inside \cup {c}
         /\ numActiveCalls' = numActiveCalls + 1
         /\ numActiveCalls' \in 0..Cardinality(Calls)
         /\ CountIsExact'
<1> USE DEF OnEnterCall, CallStep, GateTypeOK
<1>1. Inside' = Inside \cup {c} /\ c \notin Inside
  BY DEF Inside
<1>2. Cardinality(Inside') = Cardinality(Inside) + 1
  BY <1>1, InsideFinite, FS_AddElement
<1>3. Inside' \in SUBSET Calls /\ IsFiniteSet(Calls)
  BY <1>1, GateAssumption DEF Inside
<1>4. Cardinality(Inside') <= Cardinality(Calls) /\ Cardinality(Calls) \in Nat
  BY <1>3, FS_Subset, FS_CardinalityType
<1>5. numActiveCalls + 1 <= SizeMax /\ numActiveCalls \in Nat
  BY <1>2, <1>4, GateAssumption DEF CountIsExact
<1>6. numActiveCalls' = numActiveCalls + 1
  BY <1>5, GateAssumption DEF PlusOne
<1>7. QED  BY <1>1, <1>2, <1>4, <1>5, <1>6 DEF CountIsExact

\* on_exit_call uncounts a call that was inside: no wrap below zero.
LEMMA ExitUncounts ==
  ASSUME GateTypeOK, CountIsExact, NEW c \in Calls, OnExitCall(c)
  PROVE  /\ Inside' = Inside \ {c}
         /\ numActiveCalls' = numActiveCalls - 1
         /\ numActiveCalls' \in 0..Cardinality(Calls)
         /\ CountIsExact'
<1> USE DEF OnExitCall, CallStep, GateTypeOK
<1>1. Inside' = Inside \ {c} /\ c \in Inside
  BY DEF Inside
<1>2. Cardinality(Inside') = Cardinality(Inside) - 1
  BY <1>1, InsideFinite, FS_RemoveElement
<1>3. numActiveCalls # 0 /\ numActiveCalls \in Nat /\ Cardinality(Calls) \in Nat
  BY <1>1, InsideFinite, GateAssumption, FS_CardinalityType DEF CountIsExact
<1>4. numActiveCalls' = numActiveCalls - 1
  BY <1>3 DEF MinusOne
<1>5. QED  BY <1>1, <1>2, <1>3, <1>4 DEF CountIsExact

-----------------------------------------------------------------------------
LEMMA GateInvInit == GateInit => GateInv
<1> SUFFICES ASSUME GateInit PROVE GateInv
  OBVIOUS
<1> USE DEF GateInit
<1>1. Inside = {}
  BY DEF Inside
<1>2. CountIsExact
  BY <1>1, InsideFinite DEF CountIsExact
<1>3. GateTypeOK
  BY GateAssumption, FS_CardinalityType DEF GateTypeOK
<1>4. CondMutexOK /\ NoLostWakeup
  BY DEF CondMutexOK, NoLostWakeup
<1>5. QED  BY <1>2, <1>3, <1>4 DEF GateInv

\* A step that moves no call into or out of the gate keeps the count exact.
LEMMA SameInside ==
  ASSUME CountIsExact, UNCHANGED numActiveCalls, Inside' = Inside
  PROVE  CountIsExact'
BY DEF CountIsExact

LEMMA GateInvCallStep ==
  ASSUME GateInv, NEW c \in Calls,
         OnEnterCall(c) \/ OnExitCall(c) \/ ExitSteps(c)
  PROVE  GateInv'
<1> USE GateAssumption DEF GateInv
<1>1. CASE OnEnterCall(c)
  <2> USE <1>1
  <2>1. /\ CountIsExact'
        /\ numActiveCalls' = numActiveCalls + 1
        /\ numActiveCalls' \in 0..Cardinality(Calls)
    BY EnterCounts
  <2>2. numActiveCalls' # 0
    BY <2>1 DEF GateTypeOK
  <2>3. GateTypeOK'
    BY <2>1 DEF OnEnterCall, CallStep, GateTypeOK
  <2>4. CondMutexOK'
    BY DEF OnEnterCall, CallStep, GateTypeOK, CondMutexOK
  <2>5. NoLostWakeup'
    BY <2>2 DEF NoLostWakeup
  <2>6. QED  BY <2>1, <2>3, <2>4, <2>5
<1>2. CASE OnExitCall(c)
  <2> USE <1>2
  <2>1. /\ CountIsExact'
        /\ numActiveCalls' = MinusOne(numActiveCalls)
        /\ numActiveCalls' \in 0..Cardinality(Calls)
    BY ExitUncounts DEF OnExitCall
  <2>2. GateTypeOK'
    BY <2>1 DEF OnExitCall, CallStep, GateTypeOK
  <2>3. CondMutexOK'
    BY DEF OnExitCall, CallStep, GateTypeOK, CondMutexOK
  <2>4. numActiveCalls' = 0 => c \in MustNotify'
    BY <2>1 DEF OnExitCall, CallStep, GateTypeOK, MustNotify
  <2>5. NoLostWakeup'
    BY <2>4 DEF NoLostWakeup
  <2>6. QED  BY <2>1, <2>2, <2>3, <2>5
<1>3. CASE ExitSteps(c)
  <2>1. GateTypeOK'
    BY <1>3 DEF ExitSteps, LockToNotify, NotifyAll, UnlockAfterNotify,
                CallStep, Lock, Unlock, GateTypeOK
  <2>2. CondMutexOK'
    BY <1>3 DEF ExitSteps, LockToNotify, NotifyAll, UnlockAfterNotify,
                CallStep, Lock, Unlock, GateTypeOK, CondMutexOK
  <2>3. CountIsExact'
    <3>1. Inside' = Inside
      BY <1>3 DEF ExitSteps, LockToNotify, NotifyAll, UnlockAfterNotify,
                  CallStep, GateTypeOK, Inside
    <3>2. UNCHANGED numActiveCalls
      BY <1>3 DEF ExitSteps, LockToNotify, NotifyAll, UnlockAfterNotify
    <3>3. QED  BY <3>1, <3>2, SameInside
  <2>4. NoLostWakeup'
    <3>1. CASE LockToNotify(c)
      <4>1. c \in MustNotify'
        BY <3>1 DEF LockToNotify, CallStep, GateTypeOK, MustNotify
      <4>2. QED  BY <4>1 DEF NoLostWakeup
    <3>2. CASE NotifyAll(c)
      \* c owns cond_mutex, so no waiter is between its check and its sleep
      <4>1. \A w \in Controllers : waitPc'[w] \notin {"sleep", "asleep"}
        BY <3>2 DEF NotifyAll, CallStep, GateTypeOK, CondMutexOK
      <4>2. QED  BY <4>1 DEF NoLostWakeup
    <3>3. CASE UnlockAfterNotify(c)
      <4>1. MustNotify' = MustNotify
        BY <3>3 DEF UnlockAfterNotify, CallStep, GateTypeOK, MustNotify
      <4>2. QED  BY <4>1, <3>3 DEF NoLostWakeup, UnlockAfterNotify
    <3>4. QED  BY <1>3, <3>1, <3>2, <3>3 DEF ExitSteps
  <2>5. QED  BY <2>1, <2>2, <2>3, <2>4
<1>4. QED  BY <1>1, <1>2, <1>3

LEMMA GateInvWaitStep ==
  ASSUME GateInv, NEW w \in Controllers,
         BeginWait(w) \/ WaitSteps(w) \/ SpuriousWake(w)
  PROVE  GateInv'
<1> USE GateAssumption DEF GateInv
<1> DEFINE WStep == BeginWait(w) \/ WaitSteps(w) \/ SpuriousWake(w)
<1>1. UNCHANGED <<numActiveCalls, callPc>>
  BY DEF BeginWait, WaitSteps, SpuriousWake, LockToWait, CheckPredicate,
         Sleep, ReturnFromWait
<1>2. GateTypeOK'
  BY DEF BeginWait, WaitSteps, SpuriousWake, LockToWait, CheckPredicate,
         Sleep, ReturnFromWait, WaitStep, Lock, Unlock, GateTypeOK
<1>3. CondMutexOK'
  BY DEF BeginWait, WaitSteps, SpuriousWake, LockToWait, CheckPredicate,
         Sleep, ReturnFromWait, WaitStep, Lock, Unlock, GateTypeOK, CondMutexOK
<1>4. CountIsExact'
  BY <1>1, SameInside DEF Inside
<1>5. NoLostWakeup'
  <2> SUFFICES ASSUME NEW u \in Controllers, waitPc'[u] \in {"sleep", "asleep"},
                      numActiveCalls' = 0
               PROVE  MustNotify' # {}
    BY DEF NoLostWakeup
  \* with a counter of zero nobody is told to sleep by this step
  <2>1. waitPc[u] \in {"sleep", "asleep"}
    BY <1>1 DEF BeginWait, WaitSteps, SpuriousWake, LockToWait, CheckPredicate,
         Sleep, ReturnFromWait, WaitStep, NumActive, GateTypeOK
  <2>2. MustNotify # {}
    BY <1>1, <2>1 DEF NoLostWakeup
  <2>3. QED  BY <1>1, <2>2 DEF MustNotify
<1>6. QED  BY <1>2, <1>3, <1>4, <1>5

LEMMA GateInvStep == GateInv /\ [GateNext]_gateVars => GateInv'
<1> SUFFICES ASSUME GateInv, [GateNext]_gateVars PROVE GateInv'
  OBVIOUS
<1>1. CASE UNCHANGED gateVars
  BY <1>1 DEF gateVars, GateInv, GateTypeOK, CondMutexOK, CountIsExact, Inside,
              NoLostWakeup, MustNotify
<1>2. ASSUME NEW c \in Calls, OnEnterCall(c) \/ OnExitCall(c) \/ ExitSteps(c)
      PROVE  GateInv'
  BY <1>2, GateInvCallStep
<1>3. ASSUME NEW w \in Controllers, BeginWait(w) \/ WaitSteps(w) \/ SpuriousWake(w)
      PROVE  GateInv'
  BY <1>3, GateInvWaitStep
<1>4. QED  BY <1>1, <1>2, <1>3 DEF GateNext

(***************************************************************************)
(* The inductive invariant of the gate.                                    *)
(***************************************************************************)
THEOREM GateInvariant == GateSpec => []GateInv
<1>1. QED  BY GateInvInit, GateInvStep, PTL DEF GateSpec

(***************************************************************************)
(* num_active_calls stays between zero and the number of activations, and  *)
(* the mutex and the program counters keep their ranges.                   *)
(***************************************************************************)
THEOREM GateTypeCorrect == GateSpec => []GateTypeOK
<1>1. GateInv => GateTypeOK  BY DEF GateInv
<1>2. QED  BY <1>1, GateInvariant, PTL

(***************************************************************************)
(* num_active_calls is the number of calls inside, for any number of them. *)
(***************************************************************************)
THEOREM CountCorrect == GateSpec => []CountIsExact
<1>1. GateInv => CountIsExact  BY DEF GateInv
<1>2. QED  BY <1>1, GateInvariant, PTL

(***************************************************************************)
(* No thread sleeps in wait() behind a counter of zero that nobody will    *)
(* announce, for any number of calls and waiters.                          *)
(***************************************************************************)
THEOREM WakeupCorrect == GateSpec => []NoLostWakeup
<1>1. GateInv => NoLostWakeup  BY DEF GateInv
<1>2. QED  BY <1>1, GateInvariant, PTL

-----------------------------------------------------------------------------
\* A step that wakes sleepers leaves every waiter waiting.
LEMMA SameWaiting ==
  ASSUME GateTypeOK,
         \A w \in Controllers : waitPc'[w] = waitPc[w]
                             \/ {waitPc[w], waitPc'[w]} \subseteq
                                   {"lockCond", "check", "sleep", "asleep"}
  PROVE  Waiting' = Waiting
BY DEF Waiting

LEMMA CallStepRefines ==
  ASSUME GateInv, NEW c \in Calls,
         OnEnterCall(c) \/ OnExitCall(c) \/ ExitSteps(c)
  PROVE  [Barrier!Next]_(Barrier!vars)
<1> USE DEF GateInv
<1>1. Waiting' = Waiting
  <2>1. \A w \in Controllers : waitPc'[w] = waitPc[w]
                            \/ (waitPc[w] = "asleep" /\ waitPc'[w] = "lockCond")
    BY DEF OnEnterCall, OnExitCall, ExitSteps, LockToNotify, NotifyAll,
           UnlockAfterNotify, GateTypeOK
  <2>2. QED  BY <2>1, SameWaiting
<1>2. CASE OnEnterCall(c)
  <2>1. c \notin Inside /\ Inside' = Inside \cup {c}
    BY <1>2, EnterCounts DEF OnEnterCall, CallStep, Inside
  <2>2. QED  BY <1>1, <2>1 DEF Barrier!Next, Barrier!Enter
<1>3. CASE OnExitCall(c)
  <2>1. c \in Inside /\ Inside' = Inside \ {c}
    BY <1>3, ExitUncounts DEF OnExitCall, CallStep, Inside
  <2>2. QED  BY <1>1, <2>1 DEF Barrier!Next, Barrier!Leave
<1>4. CASE ExitSteps(c)
  <2>1. Inside' = Inside
    BY <1>4 DEF ExitSteps, LockToNotify, NotifyAll, UnlockAfterNotify,
                CallStep, GateTypeOK, Inside
  <2>2. QED  BY <1>1, <2>1 DEF Barrier!vars
<1>5. QED  BY <1>2, <1>3, <1>4

LEMMA WaitStepRefines ==
  ASSUME GateInv, NEW w \in Controllers,
         BeginWait(w) \/ WaitSteps(w) \/ SpuriousWake(w)
  PROVE  [Barrier!Next]_(Barrier!vars)
<1> USE DEF GateInv
<1>1. Inside' = Inside
  BY DEF BeginWait, WaitSteps, SpuriousWake, LockToWait, CheckPredicate,
         Sleep, ReturnFromWait, Inside
<1>2. CASE BeginWait(w)
  <2>1. w \notin Waiting /\ Waiting' = Waiting \cup {w}
    BY <1>2 DEF BeginWait, WaitStep, GateTypeOK, Waiting
  <2>2. QED  BY <1>1, <2>1 DEF Barrier!Next, Barrier!BeginWait
<1>3. CASE CheckPredicate(w) /\ numActiveCalls = 0
  \* the one step that ends a wait: the exact count shows the gate empty
  <2>1. Inside = {}
    BY <1>3, InsideFinite DEF CountIsExact
  <2>2. w \in Waiting /\ Waiting' = Waiting \ {w}
    BY <1>3 DEF CheckPredicate, NumActive, WaitStep, GateTypeOK, Waiting
  <2>3. QED  BY <1>1, <2>1, <2>2 DEF Barrier!Next, Barrier!EndWait
<1>4. CASE \/ (CheckPredicate(w) /\ numActiveCalls # 0)
           \/ LockToWait(w) \/ Sleep(w) \/ SpuriousWake(w)
  <2>1. Waiting' = Waiting
    BY <1>4, SameWaiting DEF CheckPredicate, NumActive, LockToWait, Sleep,
         SpuriousWake, WaitStep, GateTypeOK
  <2>2. QED  BY <1>1, <2>1 DEF Barrier!vars
<1>5. CASE ReturnFromWait(w)
  <2>1. Waiting' = Waiting
    BY <1>5 DEF ReturnFromWait, WaitStep, GateTypeOK, Waiting
  <2>2. QED  BY <1>1, <2>1 DEF Barrier!vars
<1>6. QED  BY <1>2, <1>3, <1>4, <1>5 DEF WaitSteps

(***************************************************************************)
(* wait() ends only in a moment with no active call, for any number of     *)
(* calls and waiters: the gate implements DrainBarrier.                    *)
(***************************************************************************)
THEOREM GateImplementsBarrier == GateSpec => ImplementsBarrier
<1>1. GateInit => Barrier!Init
  BY DEF GateInit, Inside, Waiting, Barrier!Init
<1>2. GateInv /\ [GateNext]_gateVars => [Barrier!Next]_(Barrier!vars)
  <2> SUFFICES ASSUME GateInv, [GateNext]_gateVars
               PROVE  [Barrier!Next]_(Barrier!vars)
    OBVIOUS
  <2>1. CASE UNCHANGED gateVars
    BY <2>1 DEF gateVars, Inside, Waiting, Barrier!vars
  <2>2. CASE \E c \in Calls : OnEnterCall(c) \/ OnExitCall(c) \/ ExitSteps(c)
    BY <2>2, CallStepRefines
  <2>3. CASE \E w \in Controllers : BeginWait(w) \/ WaitSteps(w) \/ SpuriousWake(w)
    BY <2>3, WaitStepRefines
  <2>4. QED  BY <2>1, <2>2, <2>3 DEF GateNext
<1>3. QED
  BY <1>1, <1>2, GateInvariant, PTL DEF GateSpec, ImplementsBarrier, Barrier!Spec
=============================================================================
