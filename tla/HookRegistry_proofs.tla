------------------------ MODULE HookRegistry_proofs ------------------------
(***************************************************************************)
(* Proofs about the registry and the operations on it, for any number of   *)
(* threads and hooks and any number of operations.                         *)
(***************************************************************************)
EXTENDS HookRegistry, SequenceTheorems, TLAPS

Ops == {"none", "install", "uninstall", "installAll", "uninstallAll", "create", "find"}
Pcs == {"idle", "lockRegistry", "sweep", "checkName", "push", "copy",
        "lockAccess", "write", "flag", "drain"}
ThreadRecord ==
  [pc : Pcs, op : Ops, hook : Hooks \cup {NoHook}, todo : Seq(Hooks), outcome : Outcomes,
   ops : 0..MaxOps]

Typed ==
  /\ insts \in Seq(Hooks)
  /\ registryMutex \in Threads \cup {NoThread}
  /\ isInstalled \in [Hooks -> BOOLEAN]
  /\ head \in [Hooks -> Bytes]
  /\ accessMutex \in [Hooks -> Threads \cup {NoThread}]
  /\ inDetour \in [Threads -> Hooks \cup {NoHook}]
  /\ th \in [Threads -> ThreadRecord]
  /\ reached \in [Threads -> SUBSET Hooks]

\* Who holds which lock.
InRegistry(t) ==
  \/ At(t, "checkName") \/ At(t, "push") \/ At(t, "copy")
  \/ (Sweeping(t) /\ th[t].pc \notin {"idle", "lockRegistry"})
RegistryOwned == \A t \in Threads : registryMutex = t <=> InRegistry(t)
AtHook(t, h) == th[t].pc \in {"write", "drain", "flag"} /\ th[t].hook = h
AccessOwned == \A t \in Threads, h \in Hooks : accessMutex[h] = t <=> AtHook(t, h)

\* Which operation is where.
OpFits(t) ==
  /\ At(t, "lockRegistry") => th[t].op \in {"installAll", "uninstallAll", "create", "find"}
  /\ At(t, "sweep") => Sweeping(t)
  /\ th[t].pc \in {"checkName", "push"} => th[t].op = "create"
  /\ At(t, "copy") => th[t].op = "find"
  /\ th[t].op = "create" /\ ~At(t, "idle") => th[t].hook \in Hooks
  /\ th[t].pc \in {"lockAccess", "write", "flag", "drain"} =>
       /\ th[t].hook \in Hooks
       /\ th[t].op \in {"install", "uninstall", "installAll", "uninstallAll"}
OpsFit == \A t \in Threads : OpFits(t)

\* A hook that is about to be appended has a name of its own.
NewName(h) == \A i \in DOMAIN insts : NameOf[insts[i]] # NameOf[h]
NamesOK ==
  /\ NamesUnique
  /\ \A t \in Threads : At(t, "push") => NewName(th[t].hook)

RegInv == Typed /\ RegistryOwned /\ AccessOwned /\ OpsFit /\ NamesOK

-----------------------------------------------------------------------------
LEMMA RegInvInit == Init => RegInv
<1> SUFFICES ASSUME Init  PROVE RegInv
  OBVIOUS
<1>1. Typed
  <2>1. <<>> \in Seq(Hooks) /\ 0 \in 0..MaxOps
    BY RegistryAssumption, EmptySeq
  <2>2. QED
    BY <2>1, RegistryAssumption DEF Init, Typed, ThreadRecord, Pcs, Ops, Outcomes, Bytes
<1>2. RegistryOwned /\ AccessOwned /\ OpsFit
  BY RegistryAssumption DEF Init, RegistryOwned, InRegistry, AccessOwned, AtHook, OpsFit, OpFits,
     At, Sweeping
<1>3. NamesOK
  BY RegistryAssumption DEF Init, NamesOK, NamesUnique, At
<1>4. QED  BY <1>1, <1>2, <1>3 DEF RegInv

(***************************************************************************)
(* A step of a thread changes no other thread's operation.                 *)
(***************************************************************************)
\* The beginning of an operation.
LEMMA CallKeeps ==
  ASSUME RegInv, NEW t \in Threads, CallSweep(t) \/ CallFind(t) \/ CallOne(t) \/ CallCreate(t)
  PROVE  RegInv'
<1>1. PICK op \in Ops, h \in Hooks \cup {NoHook}, pc \in {"lockRegistry", "lockAccess"} :
        /\ Call(t, op, h, pc)
        /\ op # "none"
        /\ pc = "lockRegistry" => op \in {"installAll", "uninstallAll", "create", "find"}
        /\ pc = "lockAccess" => h \in Hooks /\ op \in {"install", "uninstall"}
        /\ op = "create" => h \in Hooks
  <2>1. CASE CallSweep(t) \/ CallFind(t)
    BY <2>1 DEF CallSweep, CallFind, Ops
  <2>2. CASE CallOne(t)
    <3>1. Listed \subseteq Hooks
      BY ElementOfSeq, LenProperties DEF Listed, RegInv, Typed
    <3>2. QED  BY <2>2, <3>1 DEF CallOne, Ops
  <2>3. CASE CallCreate(t)
    BY <2>3 DEF CallCreate, Ops
  <2>4. QED  BY <2>1, <2>2, <2>3
<1> DEFINE r == [pc |-> pc, op |-> op, hook |-> h, todo |-> <<>>,
                 outcome |-> "none", ops |-> th[t].ops + 1]
<1>2. /\ th[t].pc = "idle" /\ th' = [th EXCEPT ![t] = r]
      /\ UNCHANGED <<insts, registryMutex, isInstalled, head, accessMutex, inDetour, reached>>
  BY <1>1 DEF Call, At
<1>3. r \in ThreadRecord
  <2>1. th[t].ops + 1 \in 0..MaxOps
    BY <1>1, RegistryAssumption DEF Call, RegInv, Typed, ThreadRecord
  <2>2. QED  BY <2>1, EmptySeq DEF ThreadRecord, Pcs, Outcomes
<1>4. Typed'
  BY <1>2, <1>3 DEF RegInv, Typed
<1>5. th'[t] = r /\ \A u \in Threads \ {t} : th'[u] = th[u]
  BY <1>2 DEF RegInv, Typed
<1>6. RegistryOwned'
  BY <1>1, <1>2, <1>5 DEF RegInv, RegistryOwned, InRegistry, At, Sweeping
<1>7. AccessOwned'
  BY <1>1, <1>2, <1>5 DEF RegInv, AccessOwned, AtHook
<1>8. OpsFit'
  BY <1>1, <1>2, <1>5 DEF RegInv, OpsFit, OpFits, At, Sweeping
<1>9. NamesOK'
  BY <1>1, <1>2, <1>5 DEF RegInv, NamesOK, NamesUnique, NewName, At
<1>10. QED  BY <1>4, <1>6, <1>7, <1>8, <1>9 DEF RegInv

\* What a step of the library does to the thread that takes it.
Updates(t, r) == th' = [th EXCEPT ![t] = r] /\ r \in ThreadRecord

LEMMA UpdateKeepsTypes ==
  ASSUME Typed, NEW t \in Threads, NEW r, Updates(t, r)
  PROVE  /\ th' \in [Threads -> ThreadRecord]
         /\ th'[t] = r /\ \A u \in Threads \ {t} : th'[u] = th[u]
BY DEF Typed, Updates

LEMMA ThreadTyped ==
  ASSUME Typed, NEW t \in Threads
  PROVE  th[t] \in ThreadRecord
BY DEF Typed

\* A thread takes the lock of the registry.
LEMMA LockRegistryKeeps ==
  ASSUME RegInv, NEW t \in Threads, LockRegistry(t)
  PROVE  RegInv'
<1> DEFINE r == [th[t] EXCEPT !.pc = AfterLock(t), !.todo = insts]
<1>1. /\ th' = [th EXCEPT ![t] = r] /\ registryMutex = NoThread /\ registryMutex' = t
      /\ UNCHANGED <<insts, isInstalled, head, accessMutex, inDetour>>
      /\ th[t].pc = "lockRegistry" /\ th[t] \in ThreadRecord
      /\ reached' \in [Threads -> SUBSET Hooks]
  BY DEF LockRegistry, At, RegInv, Typed
<1>2. /\ th[t].op \in {"installAll", "uninstallAll", "create", "find"}
      /\ th[t].op \in {"installAll", "uninstallAll"} => AfterLock(t) = "sweep"
      /\ th[t].op = "create" => AfterLock(t) = "checkName" /\ th[t].hook \in Hooks
      /\ th[t].op = "find" => AfterLock(t) = "copy"
  BY <1>1 DEF RegInv, OpsFit, OpFits, At, AfterLock
<1>3. Updates(t, r)
  BY <1>1, <1>2 DEF Updates, ThreadRecord, Pcs, RegInv, Typed
<1>4. /\ th'[t] = r /\ \A u \in Threads \ {t} : th'[u] = th[u]
      /\ Typed'
  BY <1>1, <1>3, UpdateKeepsTypes DEF RegInv, Typed
<1>5. /\ r.op = th[t].op /\ r.hook = th[t].hook /\ r.pc = AfterLock(t)
  BY <1>1 DEF ThreadRecord
<1>6. RegistryOwned'
  <2>1. InRegistry(t)'
    BY <1>2, <1>4, <1>5 DEF InRegistry, At, Sweeping
  <2>2. \A u \in Threads \ {t} : InRegistry(u)' <=> InRegistry(u)
    BY <1>4 DEF InRegistry, At, Sweeping
  <2>3. QED  BY <1>1, <2>1, <2>2, RegistryAssumption DEF RegInv, RegistryOwned
<1>7. AccessOwned'
  BY <1>1, <1>2, <1>4, <1>5 DEF RegInv, AccessOwned, AtHook
<1>8. OpsFit'
  BY <1>1, <1>2, <1>4, <1>5 DEF RegInv, OpsFit, OpFits, At, Sweeping
<1>9. NamesOK'
  BY <1>1, <1>2, <1>4, <1>5 DEF RegInv, NamesOK, NamesUnique, NewName, At
<1>10. QED  BY <1>4, <1>6, <1>7, <1>8, <1>9 DEF RegInv

\* A thread returns and releases the lock of the registry.
LEMMA ReleaseKeeps ==
  ASSUME RegInv, NEW t \in Threads, Copy(t) \/ EndSweep(t) \/ Push(t)
  PROVE  RegInv'
<1> DEFINE r == [th[t] EXCEPT !.pc = "idle", !.outcome = "done"]
<1>1. /\ th' = [th EXCEPT ![t] = r] /\ registryMutex' = NoThread
      /\ UNCHANGED <<isInstalled, head, accessMutex, inDetour, reached>>
      /\ th[t].pc \in {"copy", "sweep", "push"} /\ th[t] \in ThreadRecord
  BY DEF Copy, EndSweep, Push, End, At, RegInv, Typed
<1>2. Updates(t, r)
  BY <1>1 DEF Updates, ThreadRecord, Pcs, Outcomes
<1>3. th'[t] = r /\ \A u \in Threads \ {t} : th'[u] = th[u]
  BY <1>2, UpdateKeepsTypes DEF RegInv
<1>4. r.op = th[t].op /\ r.hook = th[t].hook /\ r.pc = "idle"
  BY <1>1 DEF ThreadRecord
<1>5. registryMutex = t
  BY <1>1 DEF RegInv, RegistryOwned, InRegistry, OpsFit, OpFits, At
\* Only one thread is about to append a hook.
<1>6. insts' \in Seq(Hooks) /\ NamesOK'
  <2>1. CASE insts' = insts
    BY <1>1, <1>3, <1>4, <2>1 DEF RegInv, Typed, NamesOK, NamesUnique, NewName, At
  <2>2. CASE Push(t)
    <3>1. /\ insts' = Append(insts, th[t].hook) /\ th[t].hook \in Hooks /\ insts \in Seq(Hooks)
          /\ NewName(th[t].hook) /\ th[t].pc = "push"
      BY <2>2 DEF Push, At, RegInv, OpsFit, OpFits, NamesOK, Typed
    <3> DEFINE h == th[t].hook
    <3> HIDE DEF h
    <3>2. /\ insts' \in Seq(Hooks) /\ Len(insts) \in Nat
          /\ DOMAIN insts = 1..Len(insts) /\ DOMAIN insts' = 1..(Len(insts) + 1)
          /\ \A i \in 1..Len(insts) : insts'[i] = insts[i]
          /\ insts'[Len(insts) + 1] = h
      BY <3>1, AppendProperties, LenProperties DEF h
    <3>3. NamesUnique'
      BY <3>1, <3>2 DEF RegInv, NamesOK, NamesUnique, NewName, h
    <3>4. \A u \in Threads : ~At(u, "push")'
      <4>1. \A u \in Threads \ {t} : registryMutex # u
        BY <1>5
      <4>2. \A u \in Threads \ {t} : ~At(u, "push")
        BY <4>1 DEF RegInv, RegistryOwned, InRegistry
      <4>3. QED  BY <1>3, <1>4, <4>2 DEF At
    <3>5. QED  BY <3>2, <3>3, <3>4 DEF NamesOK
  <2>3. QED  BY <2>1, <2>2 DEF Copy, EndSweep
<1>7. Typed'
  BY <1>1, <1>2, <1>6, UpdateKeepsTypes DEF RegInv, Typed
<1>8. RegistryOwned'
  <2>1. ~InRegistry(t)'
    BY <1>3, <1>4 DEF InRegistry, At
  <2>2. \A u \in Threads \ {t} : InRegistry(u)' <=> InRegistry(u)
    BY <1>3 DEF InRegistry, At, Sweeping
  <2>3. QED  BY <1>1, <1>5, <2>1, <2>2, RegistryAssumption DEF RegInv, RegistryOwned
<1>9. AccessOwned'
  BY <1>1, <1>3, <1>4 DEF RegInv, AccessOwned, AtHook
<1>10. OpsFit'
  <2>1. OpFits(t)'
    BY <1>3, <1>4 DEF OpFits, At
  <2>2. \A u \in Threads \ {t} : OpFits(u)' <=> OpFits(u)
    BY <1>3 DEF OpFits, At, Sweeping
  <2>3. QED  BY <2>1, <2>2 DEF RegInv, OpsFit
<1>11. QED  BY <1>6, <1>7, <1>8, <1>9, <1>10 DEF RegInv

\* A thread throws, holding no lock of a hook.
LEMMA ThrowKeeps ==
  ASSUME RegInv, NEW t \in Threads, NEW why \in Outcomes, Throw(t, why),
         th[t].pc \in {"checkName", "lockAccess", "write"},
         accessMutex' = IF th[t].pc = "write"
                          THEN [accessMutex EXCEPT ![th[t].hook] = NoThread] ELSE accessMutex,
         head' \in [Hooks -> Bytes],
         UNCHANGED <<insts, isInstalled, inDetour, reached>>
  PROVE  RegInv'
<1> DEFINE r == [th[t] EXCEPT !.pc = "idle", !.outcome = why]
<1>1. /\ th' = [th EXCEPT ![t] = r] /\ th[t] \in ThreadRecord
      /\ registryMutex' = IF registryMutex = t THEN NoThread ELSE registryMutex
  BY DEF Throw, End, RegInv, Typed
<1>2. Updates(t, r)
  BY <1>1 DEF Updates, ThreadRecord, Pcs
<1>3. th'[t] = r /\ \A u \in Threads \ {t} : th'[u] = th[u]
  BY <1>2, UpdateKeepsTypes DEF RegInv
<1>4. r.op = th[t].op /\ r.hook = th[t].hook /\ r.pc = "idle"
  BY <1>1 DEF ThreadRecord
<1>5. th[t].pc = "write" => th[t].hook \in Hooks
  BY DEF RegInv, OpsFit, OpFits
<1>6. Typed'
  BY <1>1, <1>2, UpdateKeepsTypes, RegistryAssumption DEF RegInv, Typed
<1>7. RegistryOwned'
  <2>1. ~InRegistry(t)'
    BY <1>3, <1>4 DEF InRegistry, At
  <2>2. \A u \in Threads \ {t} : InRegistry(u)' <=> InRegistry(u)
    BY <1>3 DEF InRegistry, At, Sweeping
  <2>3. QED  BY <1>1, <2>1, <2>2, RegistryAssumption DEF RegInv, RegistryOwned
<1>8. AccessOwned'
  <2>1. \A h \in Hooks : accessMutex'[h] # t
    BY <1>5, RegistryAssumption DEF RegInv, Typed, AccessOwned, AtHook
  <2>2. \A h \in Hooks : ~AtHook(t, h)'
    BY <1>3, <1>4 DEF AtHook
  <2>3. \A u \in Threads \ {t}, h \in Hooks : AtHook(u, h)' <=> AtHook(u, h)
    BY <1>3 DEF AtHook
  <2>4. \A u \in Threads \ {t}, h \in Hooks : accessMutex'[h] = u <=> accessMutex[h] = u
    BY <1>5, RegistryAssumption DEF RegInv, Typed, AccessOwned, AtHook
  <2>5. QED  BY <2>1, <2>2, <2>3, <2>4 DEF RegInv, AccessOwned
<1>9. OpsFit'
  <2>1. OpFits(t)'
    BY <1>3, <1>4 DEF OpFits, At
  <2>2. \A u \in Threads \ {t} : OpFits(u)' <=> OpFits(u)
    BY <1>3 DEF OpFits, At, Sweeping
  <2>3. QED  BY <2>1, <2>2 DEF RegInv, OpsFit
<1>10. NamesOK'
  <2>1. \A u \in Threads : At(u, "push")' => At(u, "push") /\ th'[u].hook = th[u].hook
    BY <1>3, <1>4 DEF At
  <2>2. QED  BY <2>1 DEF RegInv, NamesOK, NamesUnique, NewName
<1>11. QED  BY <1>6, <1>7, <1>8, <1>9, <1>10 DEF RegInv

\* Any other step of a thread inside an operation: what has to be shown of it
\* is only about that thread.
LEMMA MoveKeeps ==
  ASSUME RegInv, NEW t \in Threads, NEW r, Updates(t, r),
         UNCHANGED <<insts, registryMutex, inDetour>>,
         isInstalled' \in [Hooks -> BOOLEAN], head' \in [Hooks -> Bytes],
         reached' \in [Threads -> SUBSET Hooks],
         accessMutex' \in [Hooks -> Threads \cup {NoThread}],
         InRegistry(t)' <=> InRegistry(t), OpFits(t)',
         At(t, "push")' => NewName(r.hook),
         \A h \in Hooks : accessMutex'[h] = t <=> AtHook(t, h)',
         \A u \in Threads \ {t}, h \in Hooks : accessMutex'[h] = u <=> accessMutex[h] = u
  PROVE  RegInv'
<1>1. th'[t] = r /\ \A u \in Threads \ {t} : th'[u] = th[u]
  BY UpdateKeepsTypes DEF RegInv
<1>2. Typed'
  BY UpdateKeepsTypes DEF RegInv, Typed
<1>3. RegistryOwned'
  <2>1. \A u \in Threads \ {t} : InRegistry(u)' <=> InRegistry(u)
    BY <1>1 DEF InRegistry, At, Sweeping
  <2>2. QED  BY <2>1 DEF RegInv, RegistryOwned
<1>4. AccessOwned'
  <2>1. \A u \in Threads \ {t}, h \in Hooks : AtHook(u, h)' <=> AtHook(u, h)
    BY <1>1 DEF AtHook
  <2>2. QED  BY <2>1 DEF RegInv, AccessOwned
<1>5. OpsFit'
  <2>1. \A u \in Threads \ {t} : OpFits(u)' <=> OpFits(u)
    BY <1>1 DEF OpFits, At, Sweeping
  <2>2. QED  BY <2>1 DEF RegInv, OpsFit
<1>6. NamesOK'
  <2>1. \A u \in Threads \ {t} : At(u, "push")' => At(u, "push") /\ th'[u].hook = th[u].hook
    BY <1>1 DEF At
  <2>2. QED  BY <1>1, <2>1 DEF RegInv, NamesOK, NamesUnique, NewName
<1>7. QED  BY <1>2, <1>3, <1>4, <1>5, <1>6 DEF RegInv

LEMMA CheckNameKeeps ==
  ASSUME RegInv, NEW t \in Threads, CheckName(t)
  PROVE  RegInv'
<1>1. /\ th[t].pc = "checkName" /\ th[t] \in ThreadRecord /\ th[t].op = "create"
      /\ th[t].hook \in Hooks
      /\ UNCHANGED <<insts, isInstalled, head, accessMutex, inDetour, reached>>
  BY DEF CheckName, At, RegInv, Typed, OpsFit, OpFits
<1>2. CASE \E g \in Listed : NameOf[g] = NameOf[th[t].hook]
  <2>1. head' \in [Hooks -> Bytes]
    BY <1>1 DEF RegInv, Typed
  <2>2. QED  BY <1>1, <1>2, <2>1, ThrowKeeps DEF CheckName, Outcomes
<1>3. CASE ~\E g \in Listed : NameOf[g] = NameOf[th[t].hook]
  <2> DEFINE r == [th[t] EXCEPT !.pc = "push"]
  <2>1. th' = [th EXCEPT ![t] = r] /\ registryMutex' = registryMutex
    BY <1>3 DEF CheckName, Goto, RegInv, Typed
  <2>2. Updates(t, r) /\ r.pc = "push" /\ r.op = "create" /\ r.hook = th[t].hook
    BY <1>1, <2>1 DEF Updates, ThreadRecord, Pcs
  <2>3. th'[t] = r
    BY <2>2, UpdateKeepsTypes DEF RegInv
  <2>4. NewName(r.hook)
    BY <1>3, <2>2 DEF NewName, Listed
  <2>5. (InRegistry(t)' <=> InRegistry(t)) /\ OpFits(t)'
    BY <1>1, <2>2, <2>3 DEF InRegistry, OpFits, At, Sweeping
  <2>6. \A h \in Hooks : AtHook(t, h)' <=> AtHook(t, h)
    BY <1>1, <2>2, <2>3 DEF AtHook
  <2> HIDE DEF r
  <2>7. QED
    BY <1>1, <2>1, <2>2, <2>4, <2>5, <2>6, MoveKeeps DEF RegInv, Typed, AccessOwned
<1>4. QED  BY <1>2, <1>3

LEMMA VisitKeeps ==
  ASSUME RegInv, NEW t \in Threads, Visit(t)
  PROVE  RegInv'
<1> DEFINE h == Head(th[t].todo)
           pc == IF isInstalled[h] # Installing(t) THEN "lockAccess" ELSE "sweep"
           r == [th[t] EXCEPT !.pc = pc, !.hook = h, !.todo = Tail(@)]
<1>1. /\ th[t].pc = "sweep" /\ th[t] \in ThreadRecord /\ Sweeping(t)
      /\ th' = [th EXCEPT ![t] = r] /\ th[t].todo # <<>> /\ th[t].todo \in Seq(Hooks)
      /\ UNCHANGED <<insts, registryMutex, isInstalled, head, accessMutex, inDetour, reached>>
  BY DEF Visit, At, RegInv, Typed, OpsFit, OpFits, ThreadRecord
<1>2. h \in Hooks /\ Tail(th[t].todo) \in Seq(Hooks)
  BY <1>1, HeadTailProperties
<1>3. /\ r \in ThreadRecord /\ r.op = th[t].op /\ r.hook = h
      /\ r.pc \in {"lockAccess", "sweep"}
  <2>1. pc \in {"lockAccess", "sweep"}
    OBVIOUS
  <2> HIDE DEF pc, h
  <2>2. QED  BY <1>1, <1>2, <2>1 DEF ThreadRecord, Pcs
<1> HIDE DEF r
<1>4. Updates(t, r) /\ th'[t] = r
  BY <1>1, <1>3, UpdateKeepsTypes DEF Updates, RegInv
<1>5. (InRegistry(t)' <=> InRegistry(t)) /\ OpFits(t)' /\ ~At(t, "push")'
  BY <1>1, <1>2, <1>3, <1>4 DEF InRegistry, OpFits, At, Sweeping
<1>6. \A g \in Hooks : AtHook(t, g)' <=> AtHook(t, g)
  BY <1>1, <1>3, <1>4 DEF AtHook
<1>7. QED  BY <1>1, <1>4, <1>5, <1>6, MoveKeeps DEF RegInv, Typed, AccessOwned

\* The lock of a hook is taken, or a check throws.
LEMMA LockAccessKeeps ==
  ASSUME RegInv, NEW t \in Threads, LockAccess(t)
  PROVE  RegInv'
<1> DEFINE h == th[t].hook
           r == [th[t] EXCEPT !.pc = "write"]
<1>1. /\ th[t].pc = "lockAccess" /\ th[t] \in ThreadRecord /\ h \in Hooks
      /\ th[t].op \in {"install", "uninstall", "installAll", "uninstallAll"}
      /\ accessMutex[h] = NoThread
      /\ UNCHANGED <<insts, isInstalled, head, inDetour, reached>>
  BY DEF LockAccess, At, RegInv, Typed, OpsFit, OpFits
<1>2. CASE Objection(t) # "none"
  <2>1. Objection(t) \in Outcomes
    BY DEF Objection, Outcomes
  <2>2. head' \in [Hooks -> Bytes]
    BY <1>1 DEF RegInv, Typed
  <2>3. QED  BY <1>1, <1>2, <2>1, <2>2, ThrowKeeps DEF LockAccess
<1>3. CASE Objection(t) = "none"
  <2>1. /\ th' = [th EXCEPT ![t] = r] /\ registryMutex' = registryMutex
        /\ accessMutex' = [accessMutex EXCEPT ![h] = t]
    BY <1>3 DEF LockAccess, Goto, RegInv, Typed
  <2>2. /\ Updates(t, r) /\ r.pc = "write" /\ r.op = th[t].op /\ r.hook = h
    BY <1>1, <2>1 DEF Updates, ThreadRecord, Pcs
  <2>3. th'[t] = r
    BY <2>2, UpdateKeepsTypes DEF RegInv
  <2> HIDE DEF r
  <2>4. (InRegistry(t)' <=> InRegistry(t)) /\ OpFits(t)' /\ ~At(t, "push")'
    BY <1>1, <2>2, <2>3 DEF InRegistry, OpFits, At, Sweeping
  <2>5. \A g \in Hooks : AtHook(t, g)' <=> g = h
    BY <1>1, <2>2, <2>3 DEF AtHook
  <2>6. \A g \in Hooks : accessMutex[g] # t
    BY <1>1 DEF RegInv, AccessOwned, AtHook
  <2>7. /\ accessMutex' \in [Hooks -> Threads \cup {NoThread}]
        /\ \A g \in Hooks : accessMutex'[g] = IF g = h THEN t ELSE accessMutex[g]
    BY <1>1, <2>1 DEF RegInv, Typed
  <2>8. \A u \in Threads \ {t}, g \in Hooks : accessMutex'[g] = u <=> accessMutex[g] = u
    BY <1>1, <2>7, RegistryAssumption
  <2>9. QED
    BY <1>1, <2>1, <2>2, <2>4, <2>5, <2>6, <2>7, <2>8, MoveKeeps DEF RegInv, Typed
<1>4. QED  BY <1>2, <1>3

\* The head is written, or cannot be, and the calls of a hook are waited for.
LEMMA WriteKeeps ==
  ASSUME RegInv, NEW t \in Threads, Write(t) \/ Drain(t)
  PROVE  RegInv'
<1> DEFINE r == [th[t] EXCEPT !.pc = th'[t].pc]
<1>1. /\ th[t].pc \in {"write", "drain"} /\ th[t] \in ThreadRecord /\ th[t].hook \in Hooks
      /\ th[t].op \in {"install", "uninstall", "installAll", "uninstallAll"}
      /\ UNCHANGED <<insts, registryMutex, isInstalled, accessMutex, inDetour, reached>>
  BY DEF Write, Drain, At, RegInv, Typed, OpsFit, OpFits
<1>2. PICK pc \in {"flag", "drain"} : th' = [th EXCEPT ![t].pc = pc]
  BY DEF Write, Drain, Goto
<1>3. th' = [th EXCEPT ![t] = r] /\ r.pc \in {"flag", "drain"}
  BY <1>1, <1>2 DEF RegInv, Typed, ThreadRecord
<1>4. Updates(t, r) /\ r.op = th[t].op /\ r.hook = th[t].hook
  BY <1>1, <1>3 DEF Updates, ThreadRecord, Pcs
<1>5. th'[t] = r
  BY <1>4, UpdateKeepsTypes DEF RegInv
<1> HIDE DEF r
<1>6. (InRegistry(t)' <=> InRegistry(t)) /\ OpFits(t)' /\ ~At(t, "push")'
  BY <1>1, <1>3, <1>4, <1>5 DEF InRegistry, OpFits, At, Sweeping
<1>7. \A g \in Hooks : AtHook(t, g)' <=> AtHook(t, g)
  BY <1>1, <1>3, <1>4, <1>5 DEF AtHook
<1>8. head' \in [Hooks -> Bytes]
  <2>1. head \in [Hooks -> Bytes]
    BY DEF RegInv, Typed
  <2>2. CASE Drain(t)
    BY <2>1, <2>2 DEF Drain
  <2>3. CASE Write(t)
    BY <2>1, <2>3 DEF Write, Wanted, Bytes
  <2>4. QED  BY <2>2, <2>3
<1>9. QED  BY <1>1, <1>4, <1>6, <1>7, <1>8, MoveKeeps DEF RegInv, Typed, AccessOwned

\* The flag is assigned and the lock of the hook released.
LEMMA SetFlagKeeps ==
  ASSUME RegInv, NEW t \in Threads, SetFlag(t)
  PROVE  RegInv'
<1> DEFINE h == th[t].hook
           r == IF Sweeping(t) THEN [th[t] EXCEPT !.pc = "sweep"]
                               ELSE [th[t] EXCEPT !.pc = "idle", !.outcome = "done"]
<1>1. /\ th[t].pc = "flag" /\ th[t] \in ThreadRecord /\ h \in Hooks
      /\ th[t].op \in {"install", "uninstall", "installAll", "uninstallAll"}
      /\ UNCHANGED <<insts, registryMutex, head, inDetour>>
      /\ accessMutex' = [accessMutex EXCEPT ![h] = NoThread]
      /\ isInstalled' \in [Hooks -> BOOLEAN]
  BY DEF SetFlag, UnlockAccess, At, RegInv, Typed, OpsFit, OpFits, Installing
<1>2. reached' \in [Threads -> SUBSET Hooks]
  BY <1>1 DEF SetFlag, RegInv, Typed
<1>3. th' = [th EXCEPT ![t] = r]
  BY <1>1 DEF SetFlag, Goto, End, RegInv, Typed
<1>4. /\ Updates(t, r) /\ r.op = th[t].op /\ r.hook = h
      /\ r.pc = IF Sweeping(t) THEN "sweep" ELSE "idle"
  BY <1>1, <1>3 DEF Updates, ThreadRecord, Pcs, Outcomes
<1>5. th'[t] = r
  BY <1>4, UpdateKeepsTypes DEF RegInv
<1> HIDE DEF r
<1>6. (InRegistry(t)' <=> InRegistry(t)) /\ OpFits(t)' /\ ~At(t, "push")'
  BY <1>1, <1>4, <1>5 DEF InRegistry, OpFits, At, Sweeping
<1>7. \A g \in Hooks : ~AtHook(t, g)'
  BY <1>4, <1>5 DEF AtHook
<1>8. /\ accessMutex' \in [Hooks -> Threads \cup {NoThread}]
      /\ \A g \in Hooks : accessMutex'[g] = IF g = h THEN NoThread ELSE accessMutex[g]
  BY <1>1 DEF RegInv, Typed
<1>9. \A g \in Hooks : accessMutex[g] = t <=> g = h
  BY <1>1 DEF RegInv, AccessOwned, AtHook
<1>10. /\ \A g \in Hooks : accessMutex'[g] # t
       /\ \A u \in Threads \ {t}, g \in Hooks : accessMutex'[g] = u <=> accessMutex[g] = u
  BY <1>1, <1>8, <1>9, RegistryAssumption
<1>11. QED
  BY <1>1, <1>2, <1>4, <1>6, <1>7, <1>8, <1>10, MoveKeeps DEF RegInv, Typed

-----------------------------------------------------------------------------
LEMMA RegInvStep == RegInv /\ [Next]_vars => RegInv'
<1> SUFFICES ASSUME RegInv, [Next]_vars  PROVE RegInv'
  OBVIOUS
<1>1. ASSUME NEW t \in Threads, WriteFails(t)  PROVE RegInv'
  <2>1. head' \in [Hooks -> Bytes]
    BY <1>1 DEF WriteFails, TearOrKeep, RegInv, Typed, Bytes
  <2>2. QED  BY <1>1, <2>1, ThrowKeeps DEF WriteFails, UnlockAccess, At, Outcomes
<1>2. ASSUME NEW t \in Threads, EnterDetour(t) \/ LeaveDetour(t)  PROVE RegInv'
  <2>1. /\ inDetour' \in [Threads -> Hooks \cup {NoHook}]
        /\ UNCHANGED <<insts, registryMutex, isInstalled, head, accessMutex, th, reached>>
    BY <1>2 DEF EnterDetour, LeaveDetour, RegInv, Typed
  <2>2. QED
    BY <2>1 DEF RegInv, Typed, RegistryOwned, InRegistry, AccessOwned, AtHook, OpsFit, OpFits,
                NamesOK, NamesUnique, NewName, At, Sweeping
<1>3. CASE UNCHANGED vars
  BY <1>3 DEF vars, RegInv, Typed, RegistryOwned, InRegistry, AccessOwned, AtHook, OpsFit, OpFits,
              NamesOK, NamesUnique, NewName, At, Sweeping
<1>4. QED
  BY <1>1, <1>2, <1>3, CallKeeps, LockRegistryKeeps, ReleaseKeeps, CheckNameKeeps, VisitKeeps,
     LockAccessKeeps, WriteKeeps, SetFlagKeeps DEF Next, LibraryStep

THEOREM RegistryInvariant == Spec => []RegInv
BY RegInvInit, RegInvStep, PTL DEF Spec

(***************************************************************************)
(* Types, and who holds the locks of the registry and of the hooks: after  *)
(* a return or an exception nobody does.                                   *)
(***************************************************************************)
THEOREM RegistryTypeCorrect == Spec => []TypeOK
<1>1. RegInv => TypeOK
  BY DEF RegInv, Typed, ThreadRecord, Pcs, Ops, RegistryOwned, InRegistry, AccessOwned, AtHook,
         TypeOK
<1>2. QED  BY <1>1, RegistryInvariant, PTL

(***************************************************************************)
(* No two hooks of the list ever have one name.                            *)
(***************************************************************************)
THEOREM NamesStayUnique == Spec => []NamesUnique
<1>1. RegInv => NamesUnique
  BY DEF RegInv, NamesOK
<1>2. QED  BY <1>1, RegistryInvariant, PTL

-----------------------------------------------------------------------------
(* What a sweep has seen to.                                               *)

InSweep(t) == Sweeping(t) /\ th[t].pc \notin {"idle", "lockRegistry"}

\* A hook the sweep may pass over, or finds in that state when it has the lock.
Sought(t, h) == isInstalled[h] = Installing(t)

\* The rest of a sweep is the end of the list, which does not grow meanwhile;
\* hooks in the state it wants are noted, and so are those it has left.
SweepOK(t) ==
  InSweep(t) =>
    /\ Len(th[t].todo) <= Len(insts)
    /\ \A i \in 1..Len(th[t].todo) : th[t].todo[i] = insts[Len(insts) - Len(th[t].todo) + i]
    /\ \A h \in Hooks : Sought(t, h) => h \in reached[t]
    /\ \A h \in Visited(t) : h \in reached[t] \/ (h = th[t].hook /\ th[t].pc # "sweep")

SweepInv == RegInv /\ \A t \in Threads : SweepOK(t)

LEMMA StepOfOne ==
  ASSUME RegInv, NEW t \in Threads,
         CallSweep(t) \/ CallFind(t) \/ CallOne(t) \/ CallCreate(t) \/ LibraryStep(t)
  PROVE  \A u \in Threads \ {t} : th'[u] = th[u]
<1>1. th \in [Threads -> ThreadRecord]
  BY DEF RegInv, Typed
<1>2. CASE CallSweep(t) \/ CallFind(t) \/ CallOne(t) \/ CallCreate(t)
  BY <1>1, <1>2 DEF CallSweep, CallFind, CallOne, CallCreate, Call
<1>3. CASE LockRegistry(t) \/ Copy(t) \/ CheckName(t) \/ Push(t)
  BY <1>1, <1>3 DEF LockRegistry, Copy, CheckName, Push, End, Throw, Goto
<1>4. CASE Visit(t) \/ EndSweep(t) \/ LockAccess(t)
  BY <1>1, <1>4 DEF Visit, EndSweep, LockAccess, End, Throw, Goto
<1>5. CASE Write(t) \/ WriteFails(t) \/ Drain(t) \/ SetFlag(t)
  BY <1>1, <1>5 DEF Write, WriteFails, Drain, SetFlag, End, Throw, Goto
<1>6. QED  BY <1>2, <1>3, <1>4, <1>5 DEF LibraryStep

\* Another thread's step: it cannot append a hook, and notes a hook that it
\* brings into the state the sweep wants.
LEMMA OthersSweep ==
  ASSUME SweepInv, NEW t \in Threads, NEW u \in Threads \ {t},
         CallSweep(t) \/ CallFind(t) \/ CallOne(t) \/ CallCreate(t) \/ LibraryStep(t)
  PROVE  SweepOK(u)'
<1>1. th'[u] = th[u]
  BY StepOfOne DEF SweepInv
<1>2. SUFFICES ASSUME InSweep(u)  PROVE SweepOK(u)'
  BY <1>1 DEF SweepOK, InSweep, Sweeping
<1>3. registryMutex = u
  BY <1>2 DEF SweepInv, RegInv, RegistryOwned, InRegistry, InSweep
<1>4. ~Push(t)
  BY <1>3 DEF SweepInv, RegInv, RegistryOwned, InRegistry, Push, At
<1>5. insts' = insts
  BY <1>4 DEF CallSweep, CallFind, CallOne, CallCreate, Call, LibraryStep, LockRegistry, Copy,
     CheckName, Visit, EndSweep, LockAccess, Write, WriteFails, Drain, SetFlag
<1>6. /\ reached[u] \subseteq reached'[u]
      /\ \A h \in Hooks : Sought(u, h)' => Sought(u, h) \/ h \in reached'[u]
  <2>1. CASE SetFlag(t)
    <3>1. /\ th[t].hook \in Hooks
          /\ isInstalled' = [isInstalled EXCEPT ![th[t].hook] = Installing(t)]
          /\ reached'[u] = IF Installing(u) = Installing(t)
                             THEN reached[u] \cup {th[t].hook} ELSE reached[u]
      BY <1>2, <2>1 DEF SetFlag, SweepInv, RegInv, OpsFit, OpFits, At, InSweep
    <3>2. Installing(u)' = Installing(u)
      BY <1>1 DEF Installing
    <3>3. isInstalled \in [Hooks -> BOOLEAN]
      BY DEF SweepInv, RegInv, Typed
    <3>4. ASSUME NEW h \in Hooks, Sought(u, h)'  PROVE Sought(u, h) \/ h \in reached'[u]
      BY <3>1, <3>2, <3>3, <3>4 DEF Sought
    <3>5. QED  BY <3>1, <3>4
  <2>2. CASE ~SetFlag(t)
    <3>1. isInstalled' = isInstalled
      BY <2>2 DEF CallSweep, CallFind, CallOne, CallCreate, Call, LibraryStep, LockRegistry, Copy,
         CheckName, Push, Visit, EndSweep, LockAccess, Write, WriteFails, Drain
    <3>2. reached'[u] = reached[u]
      BY <2>2 DEF CallSweep, CallFind, CallOne, CallCreate, Call, LibraryStep, LockRegistry, Copy,
         CheckName, Push, Visit, EndSweep, LockAccess, Write, WriteFails, Drain, SweepInv, RegInv, Typed
    <3>3. QED  BY <1>1, <3>1, <3>2 DEF Sought, Installing
  <2>3. QED  BY <2>1, <2>2
<1>7. SweepOK(u)
  BY DEF SweepInv
<1>8. QED  BY <1>1, <1>2, <1>5, <1>6, <1>7 DEF SweepOK, InSweep, Visited

\* A sweep begins with the whole list and what is in the state it wants.
LEMMA LockRegistrySweep ==
  ASSUME SweepInv, NEW t \in Threads, LockRegistry(t)
  PROVE  SweepOK(t)'
<1>1. /\ th'[t].op = th[t].op /\ th'[t].todo = insts /\ insts' = insts
      /\ isInstalled' = isInstalled
      /\ reached'[t] = {h \in Hooks : isInstalled[h] = Installing(t)}
  BY DEF LockRegistry, SweepInv, RegInv, Typed, ThreadRecord
<1>2. Len(insts) \in Nat
  BY LenProperties DEF SweepInv, RegInv, Typed
<1>3. Visited(t)' = {}
  BY <1>1, <1>2 DEF Visited
<1>4. \A h \in Hooks : Sought(t, h)' => h \in reached'[t]
  BY <1>1 DEF Sought, Installing
<1>5. QED  BY <1>1, <1>2, <1>3, <1>4 DEF SweepOK

\* The next hook is noted already, or becomes the one at hand.
LEMMA VisitSweep ==
  ASSUME SweepInv, NEW t \in Threads, Visit(t)
  PROVE  SweepOK(t)'
<1>1. PICK q \in Seq(Hooks) : q = th[t].todo /\ q # <<>>
  BY DEF Visit, SweepInv, RegInv, Typed, ThreadRecord
<1>2. /\ Head(q) = q[1] /\ Head(q) \in Hooks /\ Len(q) \in Nat \ {0}
      /\ Len(Tail(q)) = Len(q) - 1 /\ \A i \in 1..(Len(q) - 1) : Tail(q)[i] = q[i + 1]
  BY <1>1, HeadTailProperties, LenProperties, EmptySeq
<1>3. /\ th[t].pc = "sweep" /\ Sweeping(t) /\ InSweep(t) /\ SweepOK(t)
      /\ UNCHANGED <<insts, isInstalled, reached>>
  BY DEF Visit, At, SweepInv, RegInv, OpsFit, OpFits, InSweep
<1>4. /\ th'[t].op = th[t].op /\ th'[t].hook = Head(q) /\ th'[t].todo = Tail(q)
      /\ th'[t].pc = IF isInstalled[Head(q)] # Installing(t) THEN "lockAccess" ELSE "sweep"
  BY <1>1 DEF Visit, SweepInv, RegInv, Typed, ThreadRecord
<1>5. /\ Len(insts) \in Nat /\ Len(q) <= Len(insts)
      /\ \A i \in 1..Len(q) : q[i] = insts[Len(insts) - Len(q) + i]
      /\ \A h \in Hooks : Sought(t, h) => h \in reached[t]
      /\ \A h \in Visited(t) : h \in reached[t]
  BY <1>1, <1>3, LenProperties DEF SweepOK, SweepInv, RegInv, Typed
<1>6. \A h \in Hooks : Sought(t, h)' => h \in reached'[t]
  BY <1>3, <1>4, <1>5 DEF Sought, Installing
<1>7. \A i \in 1..Len(Tail(q)) : Tail(q)[i] = insts[Len(insts) - Len(Tail(q)) + i]
  <2>1. SUFFICES ASSUME NEW i \in 1..(Len(q) - 1)
                 PROVE  Tail(q)[i] = insts[Len(insts) - (Len(q) - 1) + i]
    BY <1>2
  <2>2. i + 1 \in 1..Len(q) /\ Len(insts) - (Len(q) - 1) + i = Len(insts) - Len(q) + (i + 1)
    BY <1>2, <1>5
  <2>3. QED  BY <1>2, <1>5, <2>2
<1>8. Visited(t)' \subseteq Visited(t) \cup {Head(q)}
  <2>1. SUFFICES ASSUME NEW i \in 1..(Len(insts) - (Len(q) - 1))
                 PROVE  insts[i] \in Visited(t) \cup {Head(q)}
    BY <1>2, <1>3, <1>4 DEF Visited
  <2>2. CASE i \in 1..(Len(insts) - Len(q))
    BY <1>1, <2>2 DEF Visited
  <2>3. CASE i \notin 1..(Len(insts) - Len(q))
    <3>1. i = Len(insts) - Len(q) + 1 /\ 1 \in 1..Len(q)
      BY <1>2, <1>5, <2>3
    <3>2. QED  BY <1>2, <1>5, <3>1
  <2>4. QED  BY <2>2, <2>3
<1>9. \A h \in Visited(t)' : h \in reached'[t] \/ (h = th'[t].hook /\ th'[t].pc # "sweep")
  <2>1. isInstalled[Head(q)] = Installing(t) => Head(q) \in reached[t]
    BY <1>2, <1>5 DEF Sought
  <2>2. QED  BY <1>3, <1>4, <1>5, <1>8, <2>1
<1>10. QED  BY <1>2, <1>3, <1>4, <1>5, <1>6, <1>7, <1>9 DEF SweepOK

\* The steps between: the hook at hand stays the same.
LEMMA SameHookSweep ==
  ASSUME SweepInv, NEW t \in Threads, InSweep(t),
         th'[t].op = th[t].op, th'[t].hook = th[t].hook, th'[t].todo = th[t].todo,
         insts' = insts, reached[t] \subseteq reached'[t],
         \A h \in Hooks : Sought(t, h)' => Sought(t, h) \/ h \in reached'[t],
         th'[t].pc = "sweep" => th[t].hook \in reached'[t]
  PROVE  SweepOK(t)'
<1>1. Visited(t)' = Visited(t)
  BY DEF Visited
<1>2. SweepOK(t)
  BY DEF SweepInv
<1>3. QED  BY <1>1, <1>2 DEF SweepOK

LEMMA OwnSweep ==
  ASSUME SweepInv, NEW t \in Threads,
         CallSweep(t) \/ CallFind(t) \/ CallOne(t) \/ CallCreate(t) \/ LibraryStep(t)
  PROVE  SweepOK(t)'
<1>1. th \in [Threads -> ThreadRecord] /\ th[t] \in ThreadRecord
  BY DEF SweepInv, RegInv, Typed
<1>2. CASE CallSweep(t) \/ CallFind(t) \/ CallOne(t) \/ CallCreate(t)
  <2>1. th'[t].pc = "lockRegistry" \/ th'[t].op \in {"install", "uninstall"}
    BY <1>1, <1>2 DEF CallSweep, CallFind, CallOne, CallCreate, Call
  <2>2. QED  BY <2>1 DEF SweepOK, InSweep, Sweeping
<1>3. CASE Copy(t) \/ Push(t) \/ EndSweep(t) \/ WriteFails(t)
  <2>1. th'[t].pc = "idle"
    BY <1>1, <1>3 DEF Copy, Push, EndSweep, WriteFails, Throw, End, ThreadRecord
  <2>2. QED  BY <2>1 DEF SweepOK, InSweep
<1>4. CASE CheckName(t)
  <2>1. th'[t].op = "create"
    BY <1>1, <1>4 DEF CheckName, Throw, End, Goto, At, SweepInv, RegInv, OpsFit, OpFits, ThreadRecord
  <2>2. QED  BY <2>1 DEF SweepOK, InSweep, Sweeping
<1>5. CASE LockAccess(t) \/ Write(t) \/ Drain(t)
  <2>1. /\ th'[t].op = th[t].op /\ th'[t].hook = th[t].hook /\ th'[t].todo = th[t].todo
        /\ th'[t].pc # "sweep" /\ th[t].pc \in {"lockAccess", "write", "drain"}
    BY <1>1, <1>5 DEF LockAccess, Write, Drain, Throw, End, Goto, At, ThreadRecord
  <2>2. UNCHANGED <<insts, isInstalled, reached>>
    BY <1>5 DEF LockAccess, Write, Drain
  <2>3. \A h \in Hooks : Sought(t, h)' => Sought(t, h)
    BY <2>1, <2>2 DEF Sought, Installing
  <2>4. SUFFICES ASSUME InSweep(t)  PROVE SweepOK(t)'
    BY <2>1 DEF SweepOK, InSweep, Sweeping
  <2>5. QED  BY <2>1, <2>2, <2>3, <2>4, SameHookSweep
<1>6. CASE SetFlag(t)
  <2>1. /\ th[t].pc = "flag" /\ th[t].hook \in Hooks /\ insts' = insts
        /\ th'[t].op = th[t].op /\ th'[t].hook = th[t].hook /\ th'[t].todo = th[t].todo
        /\ isInstalled' = [isInstalled EXCEPT ![th[t].hook] = Installing(t)]
        /\ reached'[t] = IF Sweeping(t) THEN reached[t] \cup {th[t].hook} ELSE reached[t]
    BY <1>1, <1>6 DEF SetFlag, Goto, End, At, ThreadRecord, SweepInv, RegInv, OpsFit, OpFits
  <2>2. SUFFICES ASSUME Sweeping(t), InSweep(t)  PROVE SweepOK(t)'
    BY <2>1 DEF SweepOK, InSweep, Sweeping
  <2>3. \A h \in Hooks : Sought(t, h)' => Sought(t, h) \/ h \in reached'[t]
    BY <2>1, <2>2 DEF Sought, Installing, SweepInv, RegInv, Typed
  <2>4. QED  BY <2>1, <2>2, <2>3, SameHookSweep
<1>7. QED
  BY <1>2, <1>3, <1>4, <1>5, <1>6, LockRegistrySweep, VisitSweep DEF LibraryStep

(***************************************************************************)
(* The inductive invariant with what is known of sweeps in progress.       *)
(***************************************************************************)
THEOREM SweepInvariant == Spec => []SweepInv
<1>1. Init => SweepInv
  BY RegInvInit DEF SweepInv, SweepOK, InSweep, Init
<1>2. SweepInv /\ [Next]_vars => SweepInv'
  <2> SUFFICES ASSUME SweepInv, [Next]_vars  PROVE SweepInv'
    OBVIOUS
  <2>1. RegInv'
    BY RegInvStep DEF SweepInv
  <2>2. ASSUME NEW t \in Threads,
               CallSweep(t) \/ CallFind(t) \/ CallOne(t) \/ CallCreate(t) \/ LibraryStep(t)
        PROVE  \A u \in Threads : SweepOK(u)'
    BY <2>2, OthersSweep, OwnSweep
  <2>3. ASSUME UNCHANGED <<insts, isInstalled, th, reached>>
        PROVE  \A u \in Threads : SweepOK(u)'
    <3>1. SUFFICES ASSUME NEW u \in Threads  PROVE SweepOK(u)'
      OBVIOUS
    <3>2. /\ Visited(u)' = Visited(u) /\ (InSweep(u)' <=> InSweep(u))
          /\ \A h \in Hooks : Sought(u, h)' <=> Sought(u, h)
      BY <2>3 DEF Visited, InSweep, Sweeping, Sought, Installing
    <3>3. QED  BY <2>3, <3>2 DEF SweepInv, SweepOK
  <2>4. QED
    BY <2>1, <2>2, <2>3 DEF SweepInv, Next, EnterDetour, LeaveDetour, vars
<1>3. QED  BY <1>1, <1>2, PTL DEF Spec

\* How a sweep ends.
LEMMA SweepEnds ==
  ASSUME SweepInv, NEW t \in Threads, Sweeping(t), ~At(t, "idle"), At(t, "idle")', LibraryStep(t)
  PROVE  /\ th[t].outcome' = "done" => Visited(t) = Listed
         /\ \A h \in Visited(t) :
              \/ h \in reached[t]
              \/ h = th[t].hook /\ th[t].outcome' \in {"writeFailed", "noTarget"}
<1>1. th \in [Threads -> ThreadRecord] /\ th[t] \in ThreadRecord /\ OpFits(t) /\ SweepOK(t)
  BY DEF SweepInv, RegInv, Typed, OpsFit
<1>2. \A h \in Visited(t) : InSweep(t) => h \in reached[t] \/ (h = th[t].hook /\ th[t].pc # "sweep")
  BY <1>1 DEF SweepOK
<1>3. CASE EndSweep(t)
  <2>1. th[t].pc = "sweep" /\ th[t].todo = <<>> /\ InSweep(t)
    BY <1>3 DEF EndSweep, At, InSweep
  <2>2. Visited(t) = Listed
    <3>1. DOMAIN insts = 1..Len(insts) /\ Len(insts) \in Nat /\ Len(th[t].todo) = 0
      BY <2>1, LenProperties, EmptySeq DEF SweepInv, RegInv, Typed
    <3>2. QED  BY <3>1 DEF Visited, Listed
  <2>3. QED  BY <1>2, <2>1, <2>2
<1>4. CASE LockAccess(t)
  <2>1. InSweep(t) /\ th[t].pc = "lockAccess" /\ th[t].hook \in Hooks
    BY <1>1, <1>4 DEF LockAccess, At, InSweep, OpFits
  <2>2. Objection(t) # "none" /\ th'[t].outcome = Objection(t)
    BY <1>1, <1>4, <2>1 DEF LockAccess, Goto, Throw, End, At, ThreadRecord
  <2>3. Objection(t) \in {"alreadyInstalled", "notInstalled"} => Sought(t, th[t].hook)
    BY <2>1 DEF Objection, Sought, SweepInv, RegInv, Typed, Installing
  <2>4. Objection(t) \in {"alreadyInstalled", "notInstalled", "noTarget"}
    BY <2>2 DEF Objection
  <2>5. Sought(t, th[t].hook) => th[t].hook \in reached[t]
    BY <1>1, <2>1 DEF SweepOK
  <2>6. QED  BY <1>2, <2>1, <2>2, <2>3, <2>4, <2>5
<1>5. CASE WriteFails(t)
  <2>1. InSweep(t) /\ th'[t].outcome = "writeFailed"
    BY <1>1, <1>5 DEF WriteFails, Throw, End, At, InSweep, ThreadRecord
  <2>2. QED  BY <1>2, <2>1
<1>6. CASE Copy(t) \/ CheckName(t) \/ Push(t)
  BY <1>1, <1>6 DEF Copy, CheckName, Push, At, OpFits, Sweeping
<1>7. CASE LockRegistry(t)
  BY <1>1, <1>7 DEF LockRegistry, At, AfterLock, OpFits, Sweeping, ThreadRecord
<1>8. CASE Visit(t) \/ Write(t) \/ Drain(t)
  BY <1>1, <1>8 DEF Visit, Write, Drain, Goto, At, ThreadRecord
<1>9. CASE SetFlag(t)
  BY <1>1, <1>9 DEF SetFlag, Goto, At, ThreadRecord
<1>10. QED  BY <1>3, <1>4, <1>5, <1>6, <1>7, <1>8, <1>9 DEF LibraryStep

(***************************************************************************)
(* A sweep, for any number of hooks and of threads that interfere, has     *)
(* seen to every hook it came to when it returns or throws.                *)
(***************************************************************************)
THEOREM SweepsComplete == Spec => SweepSeesTo
<1> DEFINE Done(t) ==
      Sweeping(t) /\ ~At(t, "idle") /\ At(t, "idle")' =>
        /\ th[t].outcome' = "done" => Visited(t) = Listed
        /\ \A h \in Visited(t) :
             \/ h \in reached[t]
             \/ h = th[t].hook /\ th[t].outcome' \in {"writeFailed", "noTarget"}
<1>1. SweepInv /\ [Next]_vars => [\A t \in Threads : Done(t)]_vars
  <2> SUFFICES ASSUME SweepInv, Next, NEW u \in Threads,
                      Sweeping(u), ~At(u, "idle"), At(u, "idle")'
               PROVE  Done(u)
    OBVIOUS
  <2>1. PICK t \in Threads : \/ CallSweep(t) \/ CallFind(t) \/ CallOne(t) \/ CallCreate(t)
                            \/ LibraryStep(t) \/ EnterDetour(t) \/ LeaveDetour(t)
    BY DEF Next
  <2>2. th'[u] # th[u]
    BY DEF At
  <2>3. ~EnterDetour(t) /\ ~LeaveDetour(t)
    BY <2>2 DEF EnterDetour, LeaveDetour
  <2>4. t = u
    BY <2>1, <2>2, <2>3, StepOfOne DEF SweepInv
  <2>5. LibraryStep(u)
    BY <2>1, <2>3, <2>4 DEF CallSweep, CallFind, CallOne, CallCreate, Call
  <2>6. QED  BY <2>5, SweepEnds
<1>2. Spec => [][\A t \in Threads : Done(t)]_vars
  BY <1>1, SweepInvariant, PTL DEF Spec
<1>3. QED  BY <1>2 DEF SweepSeesTo

-----------------------------------------------------------------------------
(* Who waits for whom.                                                     *)

\* The order of the locks: a thread that is waited for is further on in it.
LEMMA AwaitsFurtherOn ==
  ASSUME RegInv, ~DrainsBusyDetour, NEW t \in Threads, NEW u \in Threads, Awaits(t, u)
  PROVE  /\ At(t, "lockRegistry") => ~At(u, "lockRegistry")
         /\ At(t, "lockAccess") => th[u].pc \in {"write", "drain", "flag"}
         /\ At(t, "drain") => At(u, "idle") /\ inDetour[u] # NoHook
         /\ th[t].pc \in {"lockRegistry", "lockAccess", "drain"}
         /\ ~At(u, "idle") \/ inDetour[u] # NoHook
<1>1. CASE At(t, "lockRegistry")
  BY <1>1 DEF Awaits, RegInv, RegistryOwned, InRegistry, At
<1>2. CASE At(t, "lockAccess")
  <2>1. th[t].hook \in Hooks /\ accessMutex[th[t].hook] = u
    BY <1>2 DEF Awaits, RegInv, OpsFit, OpFits, At
  <2>2. th[u].pc \in {"write", "drain", "flag"}
    BY <2>1 DEF RegInv, AccessOwned, AtHook
  <2>3. QED  BY <1>2, <2>2 DEF At
<1>3. CASE At(t, "drain")
  <2>1. th[t].hook \in Hooks /\ inDetour[u] = th[t].hook
    BY <1>3 DEF Awaits, RegInv, OpsFit, OpFits, At
  <2>2. At(u, "idle")
    BY <1>3, <2>1 DEF DrainsBusyDetour
  <2>3. QED  BY <1>3, <2>1, <2>2, RegistryAssumption DEF At
<1>4. QED  BY <1>1, <1>2, <1>3 DEF Awaits

(***************************************************************************)
(* The lock of the registry comes before those of the hooks, which come    *)
(* before the waiting for calls: with any number of threads and hooks      *)
(* nobody waits in a circle, and nobody waits for a lock that was left     *)
(* behind, unless a detour calls the library while its hook is             *)
(* uninstalled.                                                            *)
(***************************************************************************)
THEOREM NoDeadlock == Spec => []NoCircularWait
<1>1. RegInv => NoCircularWait
  <2> SUFFICES ASSUME RegInv, ~DrainsBusyDetour
               PROVE  /\ \A t, u \in Threads :
                           Awaits(t, u) => ~At(u, "idle") \/ inDetour[u] # NoHook
                      /\ \A S \in (SUBSET Threads) \ {{}} :
                           \E t \in S : \A u \in S : ~Awaits(t, u)
    BY DEF NoCircularWait
  <2>1. \A t, u \in Threads : Awaits(t, u) => ~At(u, "idle") \/ inDetour[u] # NoHook
    BY AwaitsFurtherOn
  <2>2. ASSUME NEW S \in SUBSET Threads, S # {}
        PROVE  \E t \in S : \A u \in S : ~Awaits(t, u)
    <3> SUFFICES ASSUME \A t \in S : \E u \in S : Awaits(t, u)
                 PROVE  FALSE
      OBVIOUS
    <3>1. \A t \in S : At(t, "lockRegistry") \/ At(t, "lockAccess") \/ At(t, "drain")
      BY <2>2, AwaitsFurtherOn DEF At
    <3>2. \A t \in S : ~At(t, "drain")
      BY <2>2, <3>1, AwaitsFurtherOn DEF At
    <3>3. \A t \in S : ~At(t, "lockAccess")
      BY <2>2, <3>1, <3>2, AwaitsFurtherOn DEF At
    <3>4. \A t \in S : ~At(t, "lockRegistry")
      BY <2>2, <3>1, <3>2, <3>3, AwaitsFurtherOn
    <3>5. QED  BY <2>2, <3>1, <3>2, <3>3, <3>4
  <2>3. QED  BY <2>1, <2>2
<1>2. QED  BY <1>1, RegistryInvariant, PTL

\* A thread inside a detour is not inside an operation.
DetoursPlain == \A t \in Threads : inDetour[t] # NoHook => At(t, "idle")

(***************************************************************************)
(* Where detours do not call the library there is no exception to this: no *)
(* uninstall ever waits for a detour that is itself inside an operation.   *)
(***************************************************************************)
THEOREM PlainDetoursNeverBusy ==
  ASSUME ~DetoursCallApi
  PROVE  Spec => []~DrainsBusyDetour
<1>1. Init => DetoursPlain
  BY DEF Init, DetoursPlain
<1>2. RegInv /\ DetoursPlain /\ [Next]_vars => DetoursPlain'
  <2> SUFFICES ASSUME RegInv, DetoursPlain, [Next]_vars, NEW u \in Threads,
                      inDetour'[u] # NoHook
               PROVE  At(u, "idle")'
    BY DEF DetoursPlain
  <2>1. CASE UNCHANGED vars
    BY <2>1 DEF vars, DetoursPlain, At
  <2>2. ASSUME NEW t \in Threads, EnterDetour(t) \/ LeaveDetour(t)
        PROVE  At(u, "idle")'
    <3>1. th' = th /\ At(t, "idle") /\ (t # u => inDetour'[u] = inDetour[u])
      BY <2>2 DEF EnterDetour, LeaveDetour, RegInv, Typed
    <3>2. QED  BY <3>1 DEF DetoursPlain, At
  <2>3. ASSUME NEW t \in Threads,
               CallSweep(t) \/ CallFind(t) \/ CallOne(t) \/ CallCreate(t) \/ LibraryStep(t)
        PROVE  At(u, "idle")'
    <3>1. inDetour' = inDetour
      BY <2>3 DEF CallSweep, CallFind, CallOne, CallCreate, Call, LibraryStep, LockRegistry, Copy,
         CheckName, Push, Visit, EndSweep, LockAccess, Write, WriteFails, Drain, SetFlag
    <3>2. At(u, "idle")
      BY <3>1 DEF DetoursPlain
    <3>3. t # u
      <4>1. CASE CallSweep(t) \/ CallFind(t) \/ CallOne(t) \/ CallCreate(t)
        <5>1. inDetour[t] = NoHook
          BY <4>1 DEF CallSweep, CallFind, CallOne, CallCreate, Call
        <5>2. QED  BY <3>1, <5>1
      <4>2. CASE LibraryStep(t)
        <5>1. ~At(t, "idle")
          BY <4>2 DEF LibraryStep, LockRegistry, Copy, CheckName, Push, Visit, EndSweep,
             LockAccess, Write, WriteFails, Drain, SetFlag, At
        <5>2. QED  BY <3>2, <5>1
      <4>3. QED  BY <2>3, <4>1, <4>2
    <3>4. QED  BY <2>3, <3>2, <3>3, StepOfOne DEF At
  <2>4. QED  BY <2>1, <2>2, <2>3 DEF Next
<1>3. RegInv /\ DetoursPlain => ~DrainsBusyDetour
  BY RegistryAssumption DEF RegInv, OpsFit, OpFits, DetoursPlain, DrainsBusyDetour, At
<1>4. QED  BY <1>1, <1>2, <1>3, RegistryInvariant, PTL DEF Spec

-----------------------------------------------------------------------------
(* Every hook implements HookLife.                                         *)

\* What the thread that holds the lock of a hook knows of it.
OwnerKnows(t) ==
  /\ At(t, "write") => isInstalled[th[t].hook] # Installing(t)
  /\ At(t, "drain") => ~Installing(t) /\ head[th[t].hook] = "original"
  /\ At(t, "flag") => head[th[t].hook] = Wanted(t)

LifeInv == RegInv /\ \A t \in Threads : OwnerKnows(t)

\* What a thread does with a hook it changes only the flag and the head of
\* a hook whose lock it holds.
LEMMA ChangesOwn ==
  ASSUME RegInv, NEW t \in Threads, NEW g \in Hooks,
         CallSweep(t) \/ CallFind(t) \/ CallOne(t) \/ CallCreate(t) \/ LibraryStep(t),
         ~AtHook(t, g)
  PROVE  isInstalled'[g] = isInstalled[g] /\ head'[g] = head[g]
<1> USE DEF RegInv, Typed
<1>1. CASE SetFlag(t) \/ Write(t)
  BY <1>1 DEF SetFlag, Write, AtHook, At
<1>2. CASE WriteFails(t)
  BY <1>2 DEF WriteFails, TearOrKeep, AtHook, At
<1>3. CASE ~SetFlag(t) /\ ~Write(t) /\ ~WriteFails(t)
  BY <1>3 DEF CallSweep, CallFind, CallOne, CallCreate, Call, LibraryStep, LockRegistry, Copy,
     CheckName, Push, Visit, EndSweep, LockAccess, Drain
<1>4. QED  BY <1>1, <1>2, <1>3

\* Where a step of the library leaves the thread.
LEMMA OwnerLearns ==
  ASSUME LifeInv, NEW t \in Threads,
         CallSweep(t) \/ CallFind(t) \/ CallOne(t) \/ CallCreate(t) \/ LibraryStep(t)
  PROVE  OwnerKnows(t)'
<1>1. /\ th \in [Threads -> ThreadRecord] /\ th[t] \in ThreadRecord /\ OpFits(t) /\ OwnerKnows(t)
      /\ isInstalled \in [Hooks -> BOOLEAN] /\ head \in [Hooks -> Bytes]
  BY DEF LifeInv, RegInv, Typed, OpsFit
<1>2. CASE CallSweep(t) \/ CallFind(t) \/ CallOne(t) \/ CallCreate(t)
  <2>1. th'[t].pc \in {"lockRegistry", "lockAccess"}
    BY <1>1, <1>2 DEF CallSweep, CallFind, CallOne, CallCreate, Call
  <2>2. QED  BY <2>1 DEF OwnerKnows, At
<1>3. CASE LockAccess(t)
  <2>1. CASE Objection(t) = "none"
    <3>1. /\ th'[t].pc = "write" /\ th'[t].hook = th[t].hook /\ th'[t].op = th[t].op
          /\ isInstalled' = isInstalled /\ th[t].hook \in Hooks
      BY <1>1, <1>3, <2>1 DEF LockAccess, Goto, At, OpFits, ThreadRecord
    <3>2. isInstalled[th[t].hook] # Installing(t)
      BY <1>1, <2>1, <3>1 DEF Objection, Installing
    <3>3. QED  BY <3>1, <3>2 DEF OwnerKnows, At, Installing
  <2>2. CASE Objection(t) # "none"
    <3>1. th'[t].pc = "idle"
      BY <1>1, <1>3, <2>2 DEF LockAccess, Throw, End, ThreadRecord
    <3>2. QED  BY <3>1 DEF OwnerKnows, At
  <2>3. QED  BY <2>1, <2>2
<1>4. CASE Write(t)
  <2>1. /\ th'[t].pc = (IF Installing(t) THEN "flag" ELSE "drain")
        /\ th'[t].hook = th[t].hook /\ th'[t].op = th[t].op /\ th[t].hook \in Hooks
        /\ head' = [head EXCEPT ![th[t].hook] = Wanted(t)]
    BY <1>1, <1>4 DEF Write, Goto, At, OpFits, ThreadRecord
  <2>2. /\ head'[th[t].hook] = Wanted(t)
        /\ (Installing(t)' <=> Installing(t)) /\ Wanted(t)' = Wanted(t)
    BY <1>1, <2>1 DEF Installing, Wanted
  <2>3. CASE Installing(t)
    BY <2>1, <2>2, <2>3 DEF OwnerKnows, At
  <2>4. CASE ~Installing(t)
    BY <2>1, <2>2, <2>4 DEF OwnerKnows, At, Wanted
  <2>5. QED  BY <2>3, <2>4
<1>5. CASE Drain(t)
  <2>1. /\ th'[t].pc = "flag" /\ th'[t].hook = th[t].hook /\ th'[t].op = th[t].op
        /\ head' = head /\ At(t, "drain")
    BY <1>1, <1>5 DEF Drain, Goto, At, OpFits, ThreadRecord
  <2>2. ~Installing(t) /\ head'[th[t].hook] = "original"
    BY <1>1, <2>1 DEF OwnerKnows
  <2>3. Wanted(t)' = "original"
    BY <2>1, <2>2 DEF Installing, Wanted
  <2>4. head'[th'[t].hook] = Wanted(t)'
    BY <2>1, <2>2, <2>3
  <2>5. QED  BY <2>1, <2>4 DEF OwnerKnows, At
<1>6. CASE LockRegistry(t)
  <2>1. th'[t].pc = AfterLock(t)
    BY <1>1, <1>6 DEF LockRegistry, ThreadRecord
  <2>2. AfterLock(t) \in {"sweep", "checkName", "copy"}
    BY <1>1, <1>6 DEF LockRegistry, AfterLock, OpFits
  <2>3. QED  BY <2>1, <2>2 DEF OwnerKnows, At
<1>7. CASE Copy(t) \/ CheckName(t) \/ Push(t) \/ Visit(t) \/ EndSweep(t) \/ WriteFails(t) \/ SetFlag(t)
  <2>1. th'[t].pc \in {"idle", "push", "sweep", "lockAccess"}
    BY <1>1, <1>7 DEF Copy, CheckName, Push, Visit, EndSweep, WriteFails, SetFlag, Throw, End,
       Goto, ThreadRecord
  <2>2. QED  BY <2>1 DEF OwnerKnows, At
<1>8. QED
  BY <1>2, <1>3, <1>4, <1>5, <1>6, <1>7 DEF LibraryStep

LEMMA OthersKeepKnowing ==
  ASSUME LifeInv, NEW t \in Threads, NEW u \in Threads \ {t},
         CallSweep(t) \/ CallFind(t) \/ CallOne(t) \/ CallCreate(t) \/ LibraryStep(t)
  PROVE  OwnerKnows(u)'
<1>1. th'[u] = th[u] /\ OwnerKnows(u) /\ OpFits(u)
  BY StepOfOne DEF LifeInv, RegInv, OpsFit
<1>2. CASE th[u].pc \in {"write", "drain", "flag"}
  <2>1. th[u].hook \in Hooks /\ AtHook(u, th[u].hook)
    BY <1>1, <1>2 DEF AtHook, OpFits
  <2>2. ~AtHook(t, th[u].hook)
    BY <2>1 DEF LifeInv, RegInv, AccessOwned
  <2>3. /\ isInstalled'[th[u].hook] = isInstalled[th[u].hook]
        /\ head'[th[u].hook] = head[th[u].hook]
    BY <2>1, <2>2, ChangesOwn DEF LifeInv
  <2>4. QED  BY <1>1, <2>3 DEF OwnerKnows, At, Installing, Wanted
<1>3. CASE th[u].pc \notin {"write", "drain", "flag"}
  BY <1>1, <1>3 DEF OwnerKnows, At
<1>4. QED  BY <1>2, <1>3

THEOREM LifeInvariant == Spec => []LifeInv
<1>1. Init => LifeInv
  <2> SUFFICES ASSUME Init, NEW t \in Threads  PROVE OwnerKnows(t)
    BY RegInvInit DEF LifeInv
  <2>1. th[t].pc = "idle"
    BY DEF Init
  <2>2. QED  BY <2>1 DEF OwnerKnows, At
<1>2. LifeInv /\ [Next]_vars => LifeInv'
  <2> SUFFICES ASSUME LifeInv, [Next]_vars, NEW u \in Threads  PROVE OwnerKnows(u)'
    BY RegInvStep DEF LifeInv
  <2>1. ASSUME NEW t \in Threads,
               CallSweep(t) \/ CallFind(t) \/ CallOne(t) \/ CallCreate(t) \/ LibraryStep(t)
        PROVE  OwnerKnows(u)'
    BY <2>1, OwnerLearns, OthersKeepKnowing
  <2>2. ASSUME UNCHANGED <<isInstalled, head, th>>
        PROVE  OwnerKnows(u)'
    BY <2>2 DEF LifeInv, OwnerKnows, At, Installing, Wanted
  <2>3. QED  BY <2>1, <2>2 DEF Next, EnterDetour, LeaveDetour, vars
<1>3. QED  BY <1>1, <1>2, PTL DEF Spec

\* What HookLife sees of a hook.
TheOwnersPhase(h) == IF accessMutex[h] = NoThread THEN "idle" ELSE PhaseOf(accessMutex[h])
InDetourOf(h) == {t \in Threads : inDetour[t] = h}

\* A step that neither begins with the lock of a hook nor ends with it.
LEMMA LivesOn ==
  ASSUME RegInv, NEW t \in Threads, NEW g \in Hooks,
         CallSweep(t) \/ CallFind(t) \/ CallOne(t) \/ CallCreate(t) \/ LibraryStep(t),
         ~AtHook(t, g), ~AtHook(t, g)', RegInv'
  PROVE  UNCHANGED Life(g)!vars
<1>1. isInstalled'[g] = isInstalled[g] /\ head'[g] = head[g]
  BY ChangesOwn
<1>2. inDetour' = inDetour
  BY DEF CallSweep, CallFind, CallOne, CallCreate, Call, LibraryStep, LockRegistry, Copy,
     CheckName, Push, Visit, EndSweep, LockAccess, Write, WriteFails, Drain, SetFlag
<1>3. \A u \in Threads \ {t} : th'[u] = th[u]
  BY StepOfOne
<1>4. \A u \in Threads : accessMutex'[g] = u <=> accessMutex[g] = u
  <2>1. accessMutex[g] # t /\ accessMutex'[g] # t
    BY DEF RegInv, AccessOwned
  <2>2. \A u \in Threads \ {t} : AtHook(u, g)' <=> AtHook(u, g)
    BY <1>3 DEF AtHook
  <2>3. QED  BY <2>1, <2>2 DEF RegInv, AccessOwned
<1>5. accessMutex'[g] = accessMutex[g] /\ accessMutex[g] # t
      /\ accessMutex[g] \in Threads \cup {NoThread}
  BY <1>4 DEF RegInv, Typed, AccessOwned
<1>6. TheOwnersPhase(g)' = TheOwnersPhase(g)
  BY <1>3, <1>5 DEF TheOwnersPhase, PhaseOf
<1>7. QED  BY <1>1, <1>2, <1>5, <1>6 DEF Life!vars, TheOwnersPhase

\* The steps with the lock of the hook at hand.
LEMMA OwnerLives ==
  ASSUME LifeInv, RegInv', NEW t \in Threads, NEW g \in Hooks,
         CallSweep(t) \/ CallFind(t) \/ CallOne(t) \/ CallCreate(t) \/ LibraryStep(t),
         AtHook(t, g) \/ AtHook(t, g)'
  PROVE  Life(g)!Next
<1>1. /\ th \in [Threads -> ThreadRecord] /\ th[t] \in ThreadRecord /\ OpFits(t) /\ OwnerKnows(t)
      /\ isInstalled \in [Hooks -> BOOLEAN] /\ head \in [Hooks -> Bytes]
      /\ accessMutex \in [Hooks -> Threads \cup {NoThread}] /\ t # NoThread
  BY RegistryAssumption DEF LifeInv, RegInv, Typed, OpsFit
<1>2. inDetour' = inDetour
  BY DEF CallSweep, CallFind, CallOne, CallCreate, Call, LibraryStep, LockRegistry, Copy,
     CheckName, Push, Visit, EndSweep, LockAccess, Write, WriteFails, Drain, SetFlag
<1>3. /\ AtHook(t, g) => accessMutex[g] = t /\ TheOwnersPhase(g) = PhaseOf(t)
      /\ AtHook(t, g)' => accessMutex'[g] = t /\ TheOwnersPhase(g)' = PhaseOf(t)'
  BY <1>1 DEF LifeInv, RegInv, AccessOwned, TheOwnersPhase
<1>4. th[t].pc \in {"lockAccess", "write", "drain", "flag"} /\ th[t].hook = g
  <2>1. CASE AtHook(t, g)
    BY <2>1 DEF AtHook
  <2>2. CASE ~AtHook(t, g) /\ AtHook(t, g)'
    <3>1. th'[t].pc \in {"write", "drain", "flag"} /\ th'[t].hook = g
      BY <2>2 DEF AtHook
    <3>2. CASE CallSweep(t) \/ CallFind(t) \/ CallOne(t) \/ CallCreate(t)
      BY <1>1, <3>1, <3>2 DEF CallSweep, CallFind, CallOne, CallCreate, Call
    <3>3. CASE LockRegistry(t) \/ Copy(t) \/ CheckName(t) \/ Push(t) \/ Visit(t) \/ EndSweep(t)
      BY <1>1, <3>1, <3>3 DEF LockRegistry, Copy, CheckName, Push, Visit, EndSweep, Throw, End,
         Goto, AfterLock, OpFits, At, ThreadRecord
    <3>4. CASE LockAccess(t) \/ Write(t) \/ WriteFails(t) \/ Drain(t) \/ SetFlag(t)
      BY <1>1, <3>1, <3>4 DEF LockAccess, Write, WriteFails, Drain, SetFlag, Throw, End, Goto,
         At, ThreadRecord
    <3>5. QED  BY <3>2, <3>3, <3>4 DEF LibraryStep
  <2>3. QED  BY <2>1, <2>2
<1>5. LockAccess(t) \/ Write(t) \/ WriteFails(t) \/ Drain(t) \/ SetFlag(t)
  BY <1>4 DEF CallSweep, CallFind, CallOne, CallCreate, Call, LibraryStep, LockRegistry, Copy,
     CheckName, Push, Visit, EndSweep, At
<1>6. CASE LockAccess(t)
  <2>1. /\ Objection(t) = "none" /\ accessMutex[g] = NoThread /\ AtHook(t, g)'
        /\ UNCHANGED <<isInstalled, head>> /\ th'[t].pc = "write"
    <3>1. ~AtHook(t, g)
      BY <1>6 DEF LockAccess, AtHook, At
    <3>2. QED
      BY <1>1, <1>4, <1>6, <3>1 DEF LockAccess, Throw, End, Goto, AtHook, ThreadRecord
  <2>2. TheOwnersPhase(g) = "idle" /\ TheOwnersPhase(g)' = "begun" /\ accessMutex'[g] = t
    BY <1>3, <2>1 DEF TheOwnersPhase, PhaseOf
  <2>3. Life(g)!Begin(t)
    BY <1>2, <2>1, <2>2 DEF Life!Begin, TheOwnersPhase
  <2>4. QED  BY <2>3 DEF Life!Next
<1>7. CASE Write(t)
  <2>1. /\ th[t].pc = "write" /\ AtHook(t, g) /\ AtHook(t, g)'
        /\ th'[t].pc = (IF Installing(t) THEN "flag" ELSE "drain")
        /\ head' = [head EXCEPT ![g] = Wanted(t)]
        /\ UNCHANGED <<isInstalled, accessMutex>>
        /\ isInstalled[g] # Installing(t)
    BY <1>1, <1>4, <1>7 DEF Write, Goto, At, AtHook, ThreadRecord, OwnerKnows
  <2>2. /\ TheOwnersPhase(g) = "begun"
        /\ TheOwnersPhase(g)' = (IF Installing(t) THEN "done" ELSE "drain")
    BY <1>3, <2>1 DEF PhaseOf
  <2>3. /\ head'[g] = IF isInstalled[g] THEN "original" ELSE "jump"
        /\ Installing(t) <=> ~isInstalled[g]
    <3>1. isInstalled[g] \in BOOLEAN /\ Installing(t) \in BOOLEAN
      BY <1>1 DEF Installing
    <3>2. head'[g] = Wanted(t)
      BY <1>1, <2>1
    <3>3. QED  BY <2>1, <3>1, <3>2 DEF Wanted
  <2>4. Life(g)!Rewrite
    BY <1>2, <2>1, <2>2, <2>3 DEF Life!Rewrite, TheOwnersPhase
  <2>5. QED  BY <2>4 DEF Life!Next
<1>8. CASE WriteFails(t)
  <2>1. /\ th[t].pc = "write" /\ AtHook(t, g)
        /\ accessMutex' = [accessMutex EXCEPT ![g] = NoThread]
        /\ UNCHANGED isInstalled /\ head'[g] \in {head[g], "torn"}
    BY <1>1, <1>4, <1>8 DEF WriteFails, UnlockAccess, TearOrKeep, At, AtHook
  <2>2. /\ TheOwnersPhase(g) = "begun" /\ accessMutex'[g] = NoThread
        /\ TheOwnersPhase(g)' = "idle"
    BY <1>1, <1>3, <2>1 DEF PhaseOf, TheOwnersPhase
  <2>3. Life(g)!Fail
    BY <1>2, <2>1, <2>2 DEF Life!Fail, Life!Release, TheOwnersPhase
  <2>4. QED  BY <2>3 DEF Life!Next
<1>9. CASE Drain(t)
  <2>1. /\ th[t].pc = "drain" /\ th'[t].pc = "flag" /\ AtHook(t, g) /\ AtHook(t, g)'
        /\ UNCHANGED <<isInstalled, head, accessMutex>>
        /\ \A u \in Threads : inDetour[u] # g
    BY <1>1, <1>4, <1>9 DEF Drain, Goto, At, AtHook, ThreadRecord
  <2>2. TheOwnersPhase(g) = "drain" /\ TheOwnersPhase(g)' = "done"
    BY <1>3, <2>1 DEF PhaseOf
  <2>3. Life(g)!Drained
    BY <1>2, <2>1, <2>2 DEF Life!Drained, TheOwnersPhase
  <2>4. QED  BY <2>3 DEF Life!Next
<1>10. CASE SetFlag(t)
  <2>1. /\ th[t].pc = "flag" /\ AtHook(t, g) /\ head[g] = Wanted(t)
        /\ isInstalled' = [isInstalled EXCEPT ![g] = Installing(t)]
        /\ accessMutex' = [accessMutex EXCEPT ![g] = NoThread]
        /\ UNCHANGED head
    BY <1>1, <1>4, <1>10 DEF SetFlag, UnlockAccess, At, AtHook, OwnerKnows
  <2>2. /\ TheOwnersPhase(g) = "done" /\ accessMutex'[g] = NoThread
        /\ TheOwnersPhase(g)' = "idle"
    BY <1>1, <1>3, <2>1 DEF PhaseOf, TheOwnersPhase
  <2>3. isInstalled'[g] = (head[g] = "jump")
    <3>1. Installing(t) \in BOOLEAN
      BY DEF Installing
    <3>2. QED  BY <1>1, <2>1, <3>1 DEF Wanted
  <2>4. Life(g)!End
    BY <1>2, <2>1, <2>2, <2>3 DEF Life!End, Life!Release, TheOwnersPhase
  <2>5. QED  BY <2>4 DEF Life!Next
<1>11. QED  BY <1>5, <1>6, <1>7, <1>8, <1>9, <1>10

\* The calls of the target functions.
LEMMA CallsLive ==
  ASSUME RegInv, NEW t \in Threads, NEW g \in Hooks, EnterDetour(t) \/ LeaveDetour(t)
  PROVE  [Life(g)!Next]_(Life(g)!vars)
<1>1. /\ UNCHANGED <<isInstalled, head, accessMutex, th>>
      /\ inDetour \in [Threads -> Hooks \cup {NoHook}]
  BY DEF EnterDetour, LeaveDetour, RegInv, Typed
<1>2. UNCHANGED TheOwnersPhase(g)
  BY <1>1 DEF TheOwnersPhase, PhaseOf
<1>3. ASSUME NEW h \in Hooks, inDetour[t] = NoHook, head[h] # "original",
             inDetour' = [inDetour EXCEPT ![t] = h]
      PROVE  [Life(g)!Next]_(Life(g)!vars)
  <2>1. CASE h = g
    <3>1. t \notin InDetourOf(g) /\ InDetourOf(g)' = InDetourOf(g) \cup {t}
      BY <1>1, <1>3, <2>1, RegistryAssumption DEF InDetourOf
    <3>2. Life(g)!Enter(t)
      BY <1>1, <1>2, <1>3, <2>1, <3>1 DEF Life!Enter, TheOwnersPhase, InDetourOf
    <3>3. QED  BY <3>2 DEF Life!Next
  <2>2. CASE h # g
    <3>1. InDetourOf(g)' = InDetourOf(g)
      BY <1>1, <1>3, <2>2, RegistryAssumption DEF InDetourOf
    <3>2. QED  BY <1>1, <1>2, <3>1 DEF Life!vars, TheOwnersPhase, InDetourOf
  <2>3. QED  BY <2>1, <2>2
<1>4. ASSUME inDetour[t] # NoHook, inDetour' = [inDetour EXCEPT ![t] = NoHook]
      PROVE  [Life(g)!Next]_(Life(g)!vars)
  <2>1. CASE inDetour[t] = g
    <3>1. t \in InDetourOf(g) /\ InDetourOf(g)' = InDetourOf(g) \ {t}
      BY <1>1, <1>4, <2>1, RegistryAssumption DEF InDetourOf
    <3>2. Life(g)!Leave(t)
      BY <1>1, <1>2, <3>1 DEF Life!Leave, TheOwnersPhase, InDetourOf
    <3>3. QED  BY <3>2 DEF Life!Next
  <2>2. CASE inDetour[t] # g
    <3>1. InDetourOf(g)' = InDetourOf(g)
      BY <1>1, <1>4, <2>2, RegistryAssumption DEF InDetourOf
    <3>2. QED  BY <1>1, <1>2, <3>1 DEF Life!vars, TheOwnersPhase, InDetourOf
  <2>3. QED  BY <2>1, <2>2
<1>5. QED  BY <1>3, <1>4 DEF EnterDetour, LeaveDetour

(***************************************************************************)
(* For any number of threads and hooks: whatever is done to the registry   *)
(* and to other hooks meanwhile, each hook is turned over by one thread at *)
(* a time, and its uninstall waits for a moment with no call inside.  So   *)
(* the hooks of the registry keep to the same HookLife as the one hook of  *)
(* HookInst.                                                               *)
(***************************************************************************)
THEOREM HooksImplementLife == Spec => EachHookLives
<1>1. Init => \A h \in Hooks : Life(h)!Init
  <2> SUFFICES ASSUME Init, NEW h \in Hooks  PROVE Life(h)!Init
    OBVIOUS
  <2>1. {t \in Threads : inDetour[t] = h} = {}
    BY RegistryAssumption DEF Init
  <2>2. QED  BY <2>1 DEF Init, Life!Init
<1>2. LifeInv /\ LifeInv' /\ [Next]_vars => [\A h \in Hooks : [Life(h)!Next]_(Life(h)!vars)]_vars
  <2> SUFFICES ASSUME LifeInv, LifeInv', Next, NEW h \in Hooks
               PROVE  [Life(h)!Next]_(Life(h)!vars)
    OBVIOUS
  <2>1. ASSUME NEW t \in Threads,
               CallSweep(t) \/ CallFind(t) \/ CallOne(t) \/ CallCreate(t) \/ LibraryStep(t)
        PROVE  [Life(h)!Next]_(Life(h)!vars)
    BY <2>1, LivesOn, OwnerLives DEF LifeInv
  <2>2. QED  BY <2>1, CallsLive DEF Next, LifeInv
<1>3. Spec => [][\A h \in Hooks : [Life(h)!Next]_(Life(h)!vars)]_vars
  BY <1>2, LifeInvariant, PTL DEF Spec
<1>4. QED  BY <1>1, <1>3 DEF Spec, EachHookLives

-----------------------------------------------------------------------------
(* Why operations end.                                                     *)

Places == {"sweep", "lockAccess", "write", "drain", "flag", "checkName", "push", "copy"}

LEMMA StepsLeftNat ==
  ASSUME RegInv, NEW t \in Threads, th[t].pc \in Places
  PROVE  StepsLeft(t) \in Nat
<1>1. Len(th[t].todo) \in Nat
  BY LenProperties DEF RegInv, Typed, ThreadRecord
<1>2. QED  BY <1>1 DEF StepsLeft, Places

\* A step of the library takes its own thread on.
LEMMA StepAdvances ==
  ASSUME RegInv, NEW t \in Threads, LibraryStep(t), ~At(t, "idle")'
  PROVE  \/ At(t, "lockRegistry") /\ ~At(t, "lockRegistry")'
         \/ ~At(t, "lockRegistry")' /\ StepsLeft(t)' < StepsLeft(t)
<1>1. /\ th \in [Threads -> ThreadRecord] /\ th[t] \in ThreadRecord /\ OpFits(t)
      /\ Len(th[t].todo) \in Nat
  BY LenProperties DEF RegInv, Typed, ThreadRecord, OpsFit
<1>2. CASE LockRegistry(t)
  <2>1. th[t].pc = "lockRegistry" /\ th'[t].pc = AfterLock(t)
    BY <1>1, <1>2 DEF LockRegistry, At, ThreadRecord
  <2>2. AfterLock(t) \in {"sweep", "checkName", "copy"}
    BY <1>1, <2>1 DEF AfterLock, OpFits, At
  <2>3. QED  BY <2>1, <2>2 DEF At
<1>3. CASE Visit(t)
  <2>1. PICK q \in Seq(Hooks) : q = th[t].todo /\ q # <<>>
    BY <1>1, <1>3 DEF Visit, ThreadRecord
  <2>2. Len(Tail(q)) = Len(q) - 1 /\ Len(q) \in Nat
    BY <2>1, HeadTailProperties, LenProperties
  <2>3. th[t].pc = "sweep" /\ th'[t].pc \in {"sweep", "lockAccess"} /\ th'[t].todo = Tail(q)
    BY <1>1, <1>3, <2>1 DEF Visit, At, ThreadRecord
  <2>4. QED  BY <2>1, <2>2, <2>3 DEF StepsLeft, At
<1>4. CASE \/ CheckName(t) \/ LockAccess(t) \/ Write(t) \/ Drain(t) \/ SetFlag(t)
           \/ Copy(t) \/ Push(t) \/ EndSweep(t) \/ WriteFails(t)
  <2>1. th'[t].todo = th[t].todo
    BY <1>1, <1>4 DEF CheckName, LockAccess, Write, Drain, SetFlag, Copy, Push, EndSweep,
       WriteFails, Throw, End, Goto, ThreadRecord
  <2>2. <<th[t].pc, th'[t].pc>> \in
          {<<"checkName", "push">>, <<"lockAccess", "write">>, <<"write", "flag">>,
           <<"write", "drain">>, <<"drain", "flag">>, <<"flag", "sweep">>}
    BY <1>1, <1>4 DEF CheckName, LockAccess, Write, Drain, SetFlag, Copy, Push, EndSweep,
       WriteFails, Throw, End, Goto, At, ThreadRecord
  <2>3. QED  BY <1>1, <2>1, <2>2 DEF StepsLeft, At
<1>5. QED  BY <1>2, <1>3, <1>4 DEF LibraryStep

(***************************************************************************)
(* For any number of hooks and threads: what an operation has before it    *)
(* once it has the registry is a natural number that each of its steps     *)
(* lowers.  Nobody makes a sweep start over, and by NoDeadlock nobody      *)
(* stops it but a detour that does not return.                             *)
(***************************************************************************)
THEOREM OperationsFinite ==
  Spec => /\ OperationsAdvance
          /\ [](\A t \in Threads : At(t, "idle") \/ At(t, "lockRegistry") \/ StepsLeft(t) \in Nat)
<1> DEFINE Advances == \A t \in Threads : ~At(t, "idle") /\ th'[t] # th[t] =>
                         \/ At(t, "idle")'
                         \/ At(t, "lockRegistry") /\ ~At(t, "lockRegistry")'
                         \/ ~At(t, "lockRegistry")' /\ StepsLeft(t)' < StepsLeft(t)
           Bounded == \A t \in Threads :
                        At(t, "idle") \/ At(t, "lockRegistry") \/ StepsLeft(t) \in Nat
<1>1. RegInv /\ [Next]_vars => [Advances]_vars
  <2> SUFFICES ASSUME RegInv, Next, NEW u \in Threads, ~At(u, "idle"), th'[u] # th[u],
                      ~At(u, "idle")'
               PROVE  \/ At(u, "lockRegistry") /\ ~At(u, "lockRegistry")'
                      \/ ~At(u, "lockRegistry")' /\ StepsLeft(u)' < StepsLeft(u)
    OBVIOUS
  <2>1. PICK t \in Threads : \/ CallSweep(t) \/ CallFind(t) \/ CallOne(t) \/ CallCreate(t)
                            \/ LibraryStep(t) \/ EnterDetour(t) \/ LeaveDetour(t)
    BY DEF Next
  <2>2. ~EnterDetour(t) /\ ~LeaveDetour(t)
    BY DEF EnterDetour, LeaveDetour
  <2>3. t = u
    BY <2>1, <2>2, StepOfOne
  <2>4. LibraryStep(u)
    BY <2>1, <2>2, <2>3 DEF CallSweep, CallFind, CallOne, CallCreate, Call
  <2>5. QED  BY <2>4, StepAdvances
<1>2. RegInv => Bounded
  <2> SUFFICES ASSUME RegInv, NEW t \in Threads, ~At(t, "idle"), ~At(t, "lockRegistry")
               PROVE  StepsLeft(t) \in Nat
    OBVIOUS
  <2>1. th[t].pc \in Places
    BY DEF RegInv, Typed, ThreadRecord, Pcs, Places, At
  <2>2. QED  BY <2>1, StepsLeftNat
<1>3. Spec => [][Advances]_vars
  BY <1>1, RegistryInvariant, PTL DEF Spec
<1>4. Spec => []Bounded
  BY <1>2, RegistryInvariant, PTL
<1>5. QED  BY <1>3, <1>4 DEF OperationsAdvance
=============================================================================
