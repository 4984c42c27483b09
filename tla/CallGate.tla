------------------------------ MODULE CallGate ------------------------------
(***************************************************************************)
(* struct AtomicCallGate (src/atomic_call_gate.h): the counter of active   *)
(* detour calls, and the mutex and condition variable with which a thread  *)
(* waits for that counter to reach zero.                                   *)
(*                                                                         *)
(* A member of Calls is one activation of a detour function: a recursive   *)
(* call is a further member.  A member of Controllers is a thread that     *)
(* runs wait().  The atomic operations are single steps: on the targets of *)
(* the library (x86, x86_64) fetch_add and fetch_sub are locked            *)
(* instructions, whatever memory order the code asks for.                  *)
(***************************************************************************)
EXTENDS Integers, FiniteSets

CONSTANTS
  Calls,        \* activations of the detour function
  Controllers,  \* threads that call wait(): those that uninstall a hook
  NoThread,     \* the value of condMutex when nobody owns it
  SizeMax       \* the largest size_t, 2^64 - 1 in the code

ASSUME GateAssumption ==
  /\ IsFiniteSet(Calls)
  /\ Calls \cap Controllers = {}
  /\ NoThread \notin Calls \cup Controllers
  /\ SizeMax \in Nat
  \* every activation has a stack frame: 2^64 of them do not fit in memory
  /\ Cardinality(Calls) <= SizeMax

VARIABLES
  numActiveCalls,  \* num_active_calls
  condMutex,       \* the owner of cond_mutex
  callPc,          \* where each call is in on_enter_call / on_exit_call
  waitPc           \* where each waiter is in wait()

gateVars == <<numActiveCalls, condMutex, callPc, waitPc>>

GateInit == /\ numActiveCalls = 0
            /\ condMutex = NoThread
            /\ callPc = [c \in Calls |-> "out"]
            /\ waitPc = [w \in Controllers |-> "idle"]

-----------------------------------------------------------------------------
\* size_t arithmetic wraps at both ends.
PlusOne(n) == IF n = SizeMax THEN 0 ELSE n + 1
\* Faulty variant of MinusOne: the last exit is told from a stored zero.
StoreZero(n) == 0
MinusOne(n) == IF n = 0 THEN SizeMax ELSE n - 1

NumActive == numActiveCalls

Lock(t) == condMutex = NoThread /\ condMutex' = t
Unlock(t) == condMutex = t /\ condMutex' = NoThread

CallStep(c, from, to) == callPc[c] = from /\ callPc' = [callPc EXCEPT ![c] = to]
WaitStep(w, from, to) == waitPc[w] = from /\ waitPc' = [waitPc EXCEPT ![w] = to]

-----------------------------------------------------------------------------
\* Faulty variant of OnEnterCall: the call is let in uncounted.
EnterUncounted(c) ==
  /\ CallStep(c, "out", "inside")
  /\ UNCHANGED <<numActiveCalls, condMutex, waitPc>>

\* on_enter_call()
OnEnterCall(c) ==
  /\ CallStep(c, "out", "inside")
  /\ numActiveCalls' = PlusOne(numActiveCalls)
  /\ UNCHANGED <<condMutex, waitPc>>

\* Faulty variant of OnExitCall: fetch_sub returns the old value, and the
\* code compares that with zero.
ExitComparesOldValue(c) ==
  /\ CallStep(c, "inside", IF numActiveCalls = 0 THEN "lockCond" ELSE "out")
  /\ numActiveCalls' = MinusOne(numActiveCalls)
  /\ UNCHANGED <<condMutex, waitPc>>

\* on_exit_call(): the decrement decides whether this call has to notify ...
OnExitCall(c) ==
  LET remaining == MinusOne(numActiveCalls) IN
  /\ CallStep(c, "inside", IF remaining = 0 THEN "lockCond" ELSE "out")
  /\ numActiveCalls' = remaining
  /\ UNCHANGED <<condMutex, waitPc>>

\* Faulty variant of LockToNotify: notify_all without taking cond_mutex.
NotifyUnlocked(c) ==
  /\ CallStep(c, "lockCond", "out")
  /\ waitPc' = [w \in Controllers |-> IF waitPc[w] = "asleep" THEN "lockCond" ELSE waitPc[w]]
  /\ UNCHANGED <<numActiveCalls, condMutex>>

\* ... if it does, it takes cond_mutex, ...
LockToNotify(c) ==
  /\ CallStep(c, "lockCond", "notify")
  /\ Lock(c)
  /\ UNCHANGED <<numActiveCalls, waitPc>>

\* ... wakes every thread that sleeps on cond_var ...
NotifyAll(c) ==
  /\ CallStep(c, "notify", "unlockCond")
  /\ waitPc' = [w \in Controllers |-> IF waitPc[w] = "asleep" THEN "lockCond" ELSE waitPc[w]]
  /\ UNCHANGED <<numActiveCalls, condMutex>>

\* ... and releases the mutex at the end of the scope of `lock`.
UnlockAfterNotify(c) ==
  /\ CallStep(c, "unlockCond", "out")
  /\ Unlock(c)
  /\ UNCHANGED <<numActiveCalls, waitPc>>

ExitSteps(c) == LockToNotify(c) \/ NotifyAll(c) \/ UnlockAfterNotify(c)

-----------------------------------------------------------------------------
\* wait() is called.
BeginWait(w) ==
  /\ WaitStep(w, "idle", "lockCond")
  /\ UNCHANGED <<numActiveCalls, condMutex, callPc>>

\* It takes cond_mutex: at the start, and again whenever cond_var wakes it.
LockToWait(w) ==
  /\ WaitStep(w, "lockCond", "check")
  /\ Lock(w)
  /\ UNCHANGED <<numActiveCalls, callPc>>

\* Faulty variant of CheckPredicate: the last call is not waited for.
CheckAtMostOne(w) ==
  /\ WaitStep(w, "check", IF NumActive <= 1 THEN "unlockCond" ELSE "sleep")
  /\ UNCHANGED <<numActiveCalls, condMutex, callPc>>

\* The predicate of cond_var.wait, read from the atomic under the mutex.
CheckPredicate(w) ==
  /\ WaitStep(w, "check", IF NumActive = 0 THEN "unlockCond" ELSE "sleep")
  /\ UNCHANGED <<numActiveCalls, condMutex, callPc>>

\* cond_var.wait(lock) joins the sleepers and releases the mutex in one step.
Sleep(w) ==
  /\ WaitStep(w, "sleep", "asleep")
  /\ Unlock(w)
  /\ UNCHANGED <<numActiveCalls, callPc>>

\* A condition variable may wake a sleeper without any notification.
SpuriousWake(w) ==
  /\ WaitStep(w, "asleep", "lockCond")
  /\ UNCHANGED <<numActiveCalls, condMutex, callPc>>

ReturnFromWait(w) ==
  /\ WaitStep(w, "unlockCond", "idle")
  /\ Unlock(w)
  /\ UNCHANGED <<numActiveCalls, callPc>>

WaitSteps(w) == LockToWait(w) \/ CheckPredicate(w) \/ Sleep(w) \/ ReturnFromWait(w)

-----------------------------------------------------------------------------
GateNext ==
  \/ \E c \in Calls : OnEnterCall(c) \/ OnExitCall(c) \/ ExitSteps(c)
  \/ \E w \in Controllers : BeginWait(w) \/ WaitSteps(w) \/ SpuriousWake(w)

GateSpec == GateInit /\ [][GateNext]_gateVars

(***************************************************************************)
(* A thread that runs library code keeps running.  Nothing is assumed of   *)
(* the calls themselves: a detour may stay inside for ever, and new calls  *)
(* may keep arriving.                                                      *)
(***************************************************************************)
GateFairness ==
  /\ \A c \in Calls : /\ WF_gateVars(LockToNotify(c))
                      /\ WF_gateVars(NotifyAll(c))
                      /\ WF_gateVars(UnlockAfterNotify(c))
  /\ \A w \in Controllers : /\ WF_gateVars(LockToWait(w))
                            /\ WF_gateVars(CheckPredicate(w))
                            /\ WF_gateVars(Sleep(w))
                            /\ WF_gateVars(ReturnFromWait(w))

GateFairSpec == GateSpec /\ GateFairness

-----------------------------------------------------------------------------
Inside == {c \in Calls : callPc[c] = "inside"}
MustNotify == {c \in Calls : callPc[c] \in {"lockCond", "notify"}}

(***************************************************************************)
(* Types, with the range of the counter: num_active_calls never wraps and  *)
(* never exceeds the number of activations.                                *)
(***************************************************************************)
GateTypeOK ==
  /\ numActiveCalls \in 0..Cardinality(Calls)
  /\ condMutex \in Calls \cup Controllers \cup {NoThread}
  /\ callPc \in [Calls -> {"out", "inside", "lockCond", "notify", "unlockCond"}]
  /\ waitPc \in [Controllers -> {"idle", "lockCond", "check", "sleep", "asleep", "unlockCond"}]

(***************************************************************************)
(* The counter is exactly the number of calls between on_enter_call and    *)
(* the decrement of on_exit_call, whatever the interleaving.               *)
(***************************************************************************)
CountIsExact == numActiveCalls = Cardinality(Inside)

(***************************************************************************)
(* No lost wakeup.  A thread that found calls active and sleeps, or is     *)
(* about to, is never left behind by a counter that has reached zero: the  *)
(* call that took it there has still to notify.  This is what taking       *)
(* cond_mutex between the decrement and notify_all is for.                 *)
(***************************************************************************)
NoLostWakeup ==
  \A w \in Controllers :
    waitPc[w] \in {"sleep", "asleep"} /\ numActiveCalls = 0 => MustNotify # {}

-----------------------------------------------------------------------------
Waiting == {w \in Controllers : waitPc[w] \in {"lockCond", "check", "sleep", "asleep"}}

Barrier == INSTANCE DrainBarrier
  WITH Waiters <- Controllers, inside <- Inside, waiting <- Waiting

(***************************************************************************)
(* wait() ends only in a moment with no active call ("Wait until there are *)
(* no active calls"): every step of the gate is a step of DrainBarrier.    *)
(***************************************************************************)
ImplementsBarrier == Barrier!Spec

(***************************************************************************)
(* ... and a gate that stays drained lets its waiter go, although new      *)
(* calls may come and go before.                                           *)
(***************************************************************************)
ImplementsFairBarrier == Barrier!FairSpec
=============================================================================
