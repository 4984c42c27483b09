------------------------ MODULE SharedTarget_proofs ------------------------
(***************************************************************************)
(* Proofs about several hooks of one function, for any number of hooks and *)
(* calls, any layout of the head and any order in which bytes are written. *)
(***************************************************************************)
EXTENDS SharedTarget, SequenceTheorems, TLAPS

StoreTyped ==
  /\ code \in [Sites -> [Positions -> Bytes]]
  /\ site \in [Hooks -> Sites \cup {NoSite}]
  /\ saved = [h \in Hooks |-> Original]
  /\ installed \in [Hooks -> BOOLEAN]
  /\ ctl \in [op : {"idle", "install", "uninstall", "drain"},
              hook : Hooks \cup {NoSite}, todo : SUBSET Positions]
  /\ lastWriter \in [Sites -> Hooks \cup {NoSite}]
  /\ cut \subseteq Sites

Places == {"caller", "head", "body", "detour", "crashed"}
CallTyped ==
  /\ call \in [Calls -> [at : Places, where : Sites \cup {NoSite}, pos : Positions,
                         ran : Seq(Hooks)]]
  /\ quiet \subseteq Calls /\ exposed \subseteq Calls

\* Which hook may be in which operation, and on which another one is built.
CtlOK ==
  /\ ctl.op # "idle" => ctl.hook \in Hooks /\ site[ctl.hook] # NoSite
  /\ ctl.op = "install" => ~installed[ctl.hook]
  /\ ctl.op \in {"uninstall", "drain"} => installed[ctl.hook]
  /\ \A h \in Hooks : installed[h] => site[h] # NoSite
  /\ \A h \in Hooks : site[h] \in Hooks => site[site[h]] = Func

\* Has the operation in progress written bytes of the patch at s?
Begun(s) == Writing /\ Target = s /\ ctl.todo # Positions

\* What is under a patch that is not being written.
Sound(s) ==
  \/ code[s] = Original
  \/ \E h \in Hooks : installed[h] /\ site[h] = s /\ code[s] = Patch(h)
BytesOK == \A s \in Sites \ cut : Begun(s) \/ Sound(s)
DrainOK == ctl.op = "drain" => code[Target] = Original

\* What has been written of a patch that is.
New == IF ctl.op = "install" THEN Patch(ctl.hook) ELSE Original
WrittenOK == Writing => \A i \in Positions \ ctl.todo : code[Target][i] = New[i]

\* The jump of a hook is nowhere but at its site.
OperandsOK == \A s \in Sites, i \in Positions, h \in Hooks : code[s][i] = h => site[h] = s

Lost(h) ==
  \/ code[site[h]] = Patch(h)
  \/ site[h] \in cut
  \/ lastWriter[site[h]] \in OthersOf(h)
LostOK == \A h \in Hooks :
  installed[h] => Lost(h) \/ Begun(site[h]) \/ (ctl.op = "drain" /\ ctl.hook = h)

StoreInv == StoreTyped /\ CtlOK /\ BytesOK /\ DrainOK /\ WrittenOK /\ OperandsOK /\ LostOK

\* A call that is not exposed has a head before it that nobody touches, and
\* has passed no instruction of a patched one.
Undisturbed(c) ==
  /\ call[c].where \notin cut /\ ~Begun(call[c].where)
  /\ call[c].pos # 1 => code[call[c].where] = Original
CallOK(c) ==
  /\ call[c].at = "head" => /\ call[c].where \in Sites
                            /\ call[c].where # Func => site[call[c].where] # NoSite
                            /\ c \in exposed \/ Undisturbed(c)
  /\ call[c].at = "detour" => call[c].where \in Hooks /\ site[call[c].where] # NoSite
  /\ call[c].at = "crashed" => c \in exposed
CallsOK == \A c \in Calls : CallOK(c)

SharedInv == StoreInv /\ CallTyped /\ CallsOK

-----------------------------------------------------------------------------
(* What the parameters and the bytes are.                                  *)

LEMMA PositionsTyped ==
  /\ Positions \subseteq Nat /\ 1 \in Positions
  /\ \A s \in Sites : Starts(s) \subseteq Positions /\ 1 \in Starts(s)
BY SharedAssumption DEF Positions, Starts

LEMMA BytesTyped ==
  /\ Original \in [Positions -> Bytes]
  /\ \A h \in Hooks : Patch(h) \in [Positions -> Bytes]
BY SharedAssumption DEF Original, Patch, Positions, Bytes

\* A patch and the original differ in the first byte.
LEMMA FirstByte ==
  /\ Original[1] = "original"
  /\ \A h \in Hooks : Patch(h)[1] = "jmp"
BY PositionsTyped DEF Original, Patch

LEMMA PatchOperand ==
  ASSUME NEW h \in Hooks, NEW g \in Hooks, NEW i \in Positions, Patch(h)[i] = g
  PROVE  g = h
BY SharedAssumption DEF Patch

LEMMA OriginalOperand ==
  ASSUME NEW g \in Hooks, NEW i \in Positions
  PROVE  Original[i] # g
BY SharedAssumption DEF Original

LEMMA SharedInvInit == Init => SharedInv
<1> SUFFICES ASSUME Init  PROVE SharedInv
  OBVIOUS
<1>1. StoreTyped
  BY BytesTyped DEF Init, StoreTyped, Idle, Sites
<1>2. CtlOK /\ BytesOK /\ DrainOK /\ WrittenOK /\ LostOK
  BY SharedAssumption DEF Sites, Init, CtlOK, BytesOK, DrainOK, WrittenOK, LostOK, Sound, Idle, Writing
<1>3. OperandsOK
  BY OriginalOperand DEF Init, OperandsOK
<1>4. CallTyped
  BY PositionsTyped DEF Init, CallTyped, Nowhere, Places
<1>5. CallsOK
  BY DEF Init, CallsOK, CallOK, Nowhere
<1>6. QED  BY <1>1, <1>2, <1>3, <1>4, <1>5 DEF SharedInv, StoreInv

-----------------------------------------------------------------------------
(* The controller's steps leave the calls where they are.                  *)

\* A step that leaves code and cut alone, and begins no write.
LEMMA CallsStay ==
  ASSUME SharedInv, UNCHANGED <<code, call, exposed>>, quiet' \subseteq Calls, cut' \subseteq cut,
         \A h \in Hooks : site[h] # NoSite => site'[h] = site[h],
         \A s \in Sites : Begun(s)' => Begun(s)
  PROVE  CallTyped' /\ CallsOK'
<1>1. CallTyped'
  BY DEF SharedInv, CallTyped
<1>2. ASSUME NEW c \in Calls  PROVE CallOK(c)'
  BY <1>2, SharedAssumption DEF SharedInv, CallsOK, CallOK, Undisturbed, Sites
<1>3. QED  BY <1>1, <1>2 DEF CallsOK

LEMMA BuildKeeps ==
  ASSUME SharedInv, NEW h \in Hooks, Build(h)
  PROVE  SharedInv'
<1>1. PICK s \in Sites \ cut :
        /\ code[s][1] # "jmp" /\ (s # Func => JumpsTo(Func, s))
        /\ site' = [site EXCEPT ![h] = s]
        /\ saved' = [saved EXCEPT ![h] = code[s]]
  BY DEF Build
<1>2. /\ ctl.op = "idle" /\ site[h] = NoSite /\ s # NoSite
      /\ UNCHANGED <<code, installed, ctl, call, lastWriter, cut, quiet, exposed>>
  BY <1>1, SharedAssumption DEF Build, history
<1>3. code[s] = Original
  BY <1>1, <1>2, FirstByte DEF SharedInv, StoreInv, BytesOK, Begun, Sound, Writing
<1>4. StoreTyped'
  BY <1>1, <1>2, <1>3 DEF SharedInv, StoreInv, StoreTyped
<1>5. /\ site'[h] = s /\ \A g \in Hooks \ {h} : site'[g] = site[g]
      /\ ~installed[h]
  BY <1>1, <1>2 DEF SharedInv, StoreInv, StoreTyped, CtlOK
<1>6. ~Writing' /\ ctl'.op = "idle"
  BY <1>2 DEF Writing
<1>7. CtlOK' /\ DrainOK' /\ WrittenOK' /\ OperandsOK'
  <2>1. s \in Hooks => site[s] = Func
    <3>1. 2 \in Positions /\ 2 \in 2..JmpSize
      BY SharedAssumption DEF Positions
    <3>2. s \in Hooks => code[Func][2] = s
      BY <1>1, <3>1, SharedAssumption DEF JumpsTo
    <3>3. QED  BY <3>1, <3>2 DEF Sites, SharedInv, StoreInv, OperandsOK
  <2>2. \A g \in Hooks : site[g] \in Hooks => site[g] # h /\ site[site[g]] = Func
    BY <1>2, SharedAssumption DEF SharedInv, StoreInv, CtlOK, Sites
  <2>3. \A g \in Hooks : site'[g] \in Hooks => site'[site'[g]] = Func
    BY <1>2, <1>5, <2>1, <2>2, SharedAssumption DEF Sites
  <2>4. OperandsOK'
    BY <1>2, <1>5, SharedAssumption DEF SharedInv, StoreInv, OperandsOK
  <2>5. QED
    BY <1>2, <1>5, <1>6, <2>3, <2>4 DEF SharedInv, StoreInv, CtlOK, DrainOK, WrittenOK
<1>8. BytesOK'
  BY <1>2, <1>5, <1>6 DEF SharedInv, StoreInv, BytesOK, Begun, Sound, Writing
<1>9. LostOK'
  <2>1. SUFFICES ASSUME NEW g \in Hooks, installed[g]  PROVE Lost(g)'
    BY <1>2 DEF LostOK
  <2>2. g # h /\ site'[g] = site[g] /\ site[g] # NoSite
    BY <1>2, <1>5, <2>1 DEF SharedInv, StoreInv, CtlOK
  <2>3. Lost(g)
    BY <1>2, <2>1 DEF SharedInv, StoreInv, LostOK, Begun, Writing
  <2>4. OthersOf(g) \subseteq OthersOf(g)'
    BY <1>2, <1>5, <2>2 DEF OthersOf
  <2>5. QED  BY <1>2, <2>2, <2>3, <2>4 DEF Lost
<1>10. CallTyped' /\ CallsOK'
  <2>1. \A x \in Sites : ~Begun(x)'
    BY <1>6 DEF Begun
  <2>2. QED  BY <1>2, <1>5, <2>1, CallsStay DEF SharedInv, CallTyped
<1>11. QED  BY <1>4, <1>7, <1>8, <1>9, <1>10 DEF SharedInv, StoreInv

LEMMA BeginKeeps ==
  ASSUME SharedInv, NEW h \in Hooks, BeginInstall(h) \/ BeginUninstall(h)
  PROVE  SharedInv'
<1>1. PICK op \in {"install", "uninstall"} :
        /\ Begin(op, h)
        /\ op = "install" <=> ~installed[h]
  BY DEF BeginInstall, BeginUninstall
<1>2. /\ ctl.op = "idle" /\ site[h] # NoSite
      /\ ctl' = [op |-> op, hook |-> h, todo |-> Positions]
      /\ quiet' = {}
      /\ UNCHANGED <<code, site, saved, installed, call, lastWriter, cut, exposed>>
  BY <1>1 DEF Begin
<1>3. StoreTyped'
  BY <1>2 DEF SharedInv, StoreInv, StoreTyped
<1>4. ctl'.op = op /\ ctl'.hook = h /\ ctl'.todo = Positions
  BY <1>2
<1>5. \A s \in Sites : ~Begun(s) /\ ~Begun(s)'
  BY <1>2, <1>4 DEF Begun, Writing
<1>6. CtlOK' /\ DrainOK' /\ WrittenOK' /\ OperandsOK'
  BY <1>1, <1>2, <1>4 DEF SharedInv, StoreInv, CtlOK, DrainOK, WrittenOK, OperandsOK
<1>7. BytesOK'
  BY <1>2, <1>5 DEF SharedInv, StoreInv, BytesOK, Sound
<1>8. LostOK'
  BY <1>2, <1>5 DEF SharedInv, StoreInv, LostOK, Lost, OthersOf, StoreTyped, CtlOK
<1>9. CallTyped' /\ CallsOK'
  BY <1>2, <1>5, CallsStay
<1>10. QED  BY <1>3, <1>6, <1>7, <1>8, <1>9 DEF SharedInv, StoreInv
LEMMA WriteByteKeeps ==
  ASSUME SharedInv, NEW i \in Positions, WriteByte(i)
  PROVE  SharedInv'
<1>0. PICK h \in Hooks, t \in Sites : h = ctl.hook /\ t = site[h] /\ Target = t
  BY DEF WriteByte, Target, Writing, SharedInv, StoreInv, StoreTyped, CtlOK
<1>1. /\ Writing /\ i \in ctl.todo
      /\ UNCHANGED <<site, saved, installed, call, lastWriter, cut, quiet>>
      /\ exposed' = exposed \cup {c \in Calls : InHead(c, t)}
  BY <1>0 DEF WriteByte
<1>2. /\ ctl' = [ctl EXCEPT !.todo = @ \ {i}]
      /\ ctl' \in [op : {"idle", "install", "uninstall", "drain"},
                   hook : Hooks \cup {NoSite}, todo : SUBSET Positions]
      /\ ctl'.op = ctl.op /\ ctl'.hook = h /\ ctl'.todo = ctl.todo \ {i}
  BY <1>0 DEF WriteByte, SharedInv, StoreInv, StoreTyped
<1>3. New \in [Positions -> Bytes] /\ New' = New
  BY <1>0, <1>1, <1>2, BytesTyped DEF New, Patch, Original
<1>4. code' = [code EXCEPT ![t][i] = New[i]]
  <2>1. saved[h] = Original
    BY <1>0, <1>1 DEF SharedInv, StoreInv, StoreTyped
  <2>2. QED  BY <1>0, <1>1, <2>1 DEF WriteByte, New
<1>5. /\ code' \in [Sites -> [Positions -> Bytes]]
      /\ code'[t][i] = New[i]
      /\ \A j \in Positions \ {i} : code'[t][j] = code[t][j]
      /\ \A s \in Sites \ {t} : code'[s] = code[s]
  BY <1>1, <1>3, <1>4 DEF SharedInv, StoreInv, StoreTyped
<1>6. Target' = t /\ Writing'
  BY <1>0, <1>1, <1>2 DEF Target, Writing
<1>7. Begun(t)' /\ \A s \in Sites \ {t} : ~Begun(s) /\ ~Begun(s)'
  BY <1>0, <1>1, <1>2, <1>6 DEF Begun
<1>8. StoreTyped'
  BY <1>1, <1>2, <1>5 DEF SharedInv, StoreInv, StoreTyped
<1>9. CtlOK' /\ DrainOK'
  BY <1>0, <1>1, <1>2 DEF SharedInv, StoreInv, CtlOK, DrainOK, Writing
<1>10. BytesOK'
  BY <1>1, <1>5, <1>7 DEF SharedInv, StoreInv, BytesOK, Sound
<1>11. WrittenOK'
  <2>1. SUFFICES ASSUME NEW j \in Positions \ ctl'.todo  PROVE code'[t][j] = New[j]
    BY <1>3, <1>6 DEF WrittenOK
  <2>2. CASE j = i
    BY <1>5, <2>2
  <2>3. CASE j # i
    BY <1>0, <1>1, <1>2, <1>5, <2>1, <2>3 DEF SharedInv, StoreInv, WrittenOK
  <2>4. QED  BY <2>2, <2>3
<1>12. OperandsOK'
  <2>1. SUFFICES ASSUME NEW s \in Sites, NEW j \in Positions, NEW g \in Hooks, code'[s][j] = g
                 PROVE  site[g] = s
    BY <1>1 DEF OperandsOK
  <2>2. CASE s = t /\ j = i
    <3>1. New[i] = g
      BY <1>5, <2>1, <2>2
    <3>2. New = Patch(h) /\ g = h
      BY <1>0, <1>1, <3>1, OriginalOperand, PatchOperand DEF New
    <3>3. QED  BY <1>0, <2>2, <3>2
  <2>3. CASE ~(s = t /\ j = i)
    BY <1>5, <2>1, <2>3 DEF SharedInv, StoreInv, OperandsOK
  <2>4. QED  BY <2>2, <2>3
<1>13. LostOK'
  <2>1. SUFFICES ASSUME NEW g \in Hooks, installed[g], site[g] # t  PROVE Lost(g)'
    <3>1. site' = site /\ installed' = installed
      BY <1>1
    <3>2. QED  BY <1>7, <3>1 DEF LostOK
  <2>2. site[g] \in Sites \ {t}
    BY <2>1 DEF SharedInv, StoreInv, StoreTyped, CtlOK
  <2>3. Lost(g)
    BY <1>1, <1>7, <2>1, <2>2 DEF SharedInv, StoreInv, LostOK, Writing
  <2>4. QED  BY <1>1, <1>5, <2>2, <2>3 DEF Lost, OthersOf
<1>14. CallTyped'
  BY <1>1 DEF SharedInv, CallTyped
<1>15. CallsOK'
  <2>1. SUFFICES ASSUME NEW c \in Calls  PROVE CallOK(c)'
    BY DEF CallsOK
  <2>2. CallOK(c) /\ exposed \subseteq exposed'
    BY <1>1 DEF SharedInv, CallsOK
  <2>3. ASSUME call[c].at = "head"  PROVE c \in exposed' \/ Undisturbed(c)'
    <3>1. CASE call[c].where = t
      BY <1>1, <2>3, <3>1 DEF InHead
    <3>2. CASE call[c].where # t
      BY <1>1, <1>5, <1>7, <2>2, <2>3, <3>2 DEF CallOK, Undisturbed
    <3>3. QED  BY <3>1, <3>2
  <2>4. QED  BY <1>1, <2>2, <2>3 DEF CallOK
<1>16. QED
  BY <1>8, <1>9, <1>10, <1>11, <1>12, <1>13, <1>14, <1>15 DEF SharedInv, StoreInv

LEMMA EndWriteKeeps ==
  ASSUME SharedInv, EndWrite
  PROVE  SharedInv'
<1> DEFINE h == ctl.hook  t == site[h]
<1>1. /\ Writing /\ ctl.todo = {} /\ h \in Hooks /\ t \in Sites
      /\ Target = t /\ New \in [Positions -> Bytes]
      /\ lastWriter' = [lastWriter EXCEPT ![t] = h] /\ cut' = cut \ {t}
      /\ UNCHANGED <<code, site, saved, call, quiet, exposed>>
  BY BytesTyped
     DEF EndWrite, Target, Writing, New, SharedInv, StoreInv, StoreTyped, CtlOK
<1>2. code[t] = New
  BY <1>1 DEF SharedInv, StoreInv, StoreTyped, WrittenOK
<1>3. \/ /\ ctl.op = "install" /\ ctl' = Idle
         /\ installed' = [installed EXCEPT ![h] = TRUE]
      \/ /\ ctl.op = "uninstall" /\ ctl' = [ctl EXCEPT !.op = "drain"]
         /\ installed' = installed
  BY <1>1 DEF EndWrite, Writing
<1>4. /\ installed' \in [Hooks -> BOOLEAN]
      /\ \A g \in Hooks : installed'[g] <=> installed[g] \/ (g = h /\ ctl.op = "install")
  BY <1>1, <1>3 DEF SharedInv, StoreInv, StoreTyped
<1>5. /\ ctl' \in [op : {"idle", "install", "uninstall", "drain"},
                   hook : Hooks \cup {NoSite}, todo : SUBSET Positions]
      /\ ctl.op = "install" => ctl'.op = "idle"
      /\ ctl.op = "uninstall" => ctl'.op = "drain" /\ ctl'.hook = h
      /\ ctl.op \in {"install", "uninstall"}
  BY <1>1, <1>3 DEF Idle, SharedInv, StoreInv, StoreTyped
<1>6. /\ lastWriter' \in [Sites -> Hooks \cup {NoSite}]
      /\ lastWriter'[t] = h /\ \A s \in Sites \ {t} : lastWriter'[s] = lastWriter[s]
  BY <1>1 DEF SharedInv, StoreInv, StoreTyped
<1>7. StoreTyped'
  BY <1>1, <1>4, <1>5, <1>6 DEF SharedInv, StoreInv, StoreTyped
<1>8. ~Writing' /\ (\A s \in Sites : ~Begun(s)') /\ \A s \in Sites \ {t} : ~Begun(s)
  BY <1>1, <1>5 DEF Begun, Writing
<1> HIDE DEF h, t
<1>9. CtlOK'
  BY <1>1, <1>4, <1>5 DEF SharedInv, StoreInv, CtlOK, h, t
<1>10. DrainOK'
  BY <1>1, <1>2, <1>5 DEF DrainOK, New, Target, h, t
<1>11. WrittenOK' /\ OperandsOK'
  BY <1>1, <1>8 DEF SharedInv, StoreInv, WrittenOK, OperandsOK
<1>12. BytesOK'
  <2>1. SUFFICES ASSUME NEW s \in Sites \ cut'  PROVE Sound(s)'
    BY DEF BytesOK
  <2>2. CASE s = t
    BY <1>1, <1>2, <1>4, <2>2 DEF Sound, New, h, t
  <2>3. CASE s # t
    BY <1>1, <1>4, <1>8, <2>1, <2>3 DEF SharedInv, StoreInv, BytesOK, Sound
  <2>4. QED  BY <2>2, <2>3
<1>13. LostOK'
  <2>1. SUFFICES ASSUME NEW g \in Hooks, installed'[g], ~(ctl'.op = "drain" /\ ctl'.hook = g)
                 PROVE  Lost(g)'
    BY DEF LostOK
  <2>2. CASE g = h
    <3>1. ctl.op = "install" /\ code[t] = Patch(h)
      BY <1>2, <1>5, <2>1, <2>2 DEF New, h
    <3>2. QED  BY <1>1, <2>2, <3>1 DEF Lost, t
  <2>3. CASE g # h /\ site[g] = t
    BY <1>1, <1>6, <2>3 DEF Lost, OthersOf, t
  <2>4. CASE g # h /\ site[g] # t
    <3>1. site[g] \in Sites \ {t} /\ installed[g]
      BY <1>4, <2>1, <2>4 DEF SharedInv, StoreInv, StoreTyped, CtlOK
    <3>2. Lost(g)
      BY <1>1, <1>8, <3>1 DEF SharedInv, StoreInv, LostOK, Writing
    <3>3. QED  BY <1>1, <1>6, <3>1, <3>2 DEF Lost, OthersOf
  <2>5. QED  BY <2>2, <2>3, <2>4
<1>14. CallTyped' /\ CallsOK'
  BY <1>1, <1>8, CallsStay DEF SharedInv, CallTyped
<1>15. QED
  BY <1>7, <1>9, <1>10, <1>11, <1>12, <1>13, <1>14 DEF SharedInv, StoreInv
LEMMA WriteThrowsKeeps ==
  ASSUME SharedInv, WriteThrows
  PROVE  SharedInv'
<1>1. PICK h \in Hooks, t \in Sites : h = ctl.hook /\ t = site[h] /\ Target = t
  BY DEF WriteThrows, Target, Writing, SharedInv, StoreInv, StoreTyped, CtlOK
<1>2. /\ Writing /\ ctl' = Idle
      /\ cut' = IF ctl.todo = Positions THEN cut ELSE cut \cup {t}
      /\ UNCHANGED <<code, site, saved, installed, call, lastWriter, quiet, exposed>>
  BY <1>1 DEF WriteThrows
<1>3. ctl'.op = "idle" /\ ~Writing'
  BY <1>2 DEF Idle, Writing
<1>4. StoreTyped'
  BY <1>2 DEF SharedInv, StoreInv, StoreTyped, Idle
<1>5. CtlOK' /\ DrainOK' /\ WrittenOK' /\ OperandsOK'
  BY <1>2, <1>3 DEF SharedInv, StoreInv, CtlOK, DrainOK, WrittenOK, OperandsOK
<1>6. \A s \in Sites : ~Begun(s)' /\ (Begun(s) <=> s = t /\ ctl.todo # Positions)
  BY <1>1, <1>2, <1>3 DEF Begun
<1>7. cut \subseteq cut' /\ \A s \in Sites : Begun(s) => s \in cut'
  BY <1>2, <1>6
<1>8. BytesOK'
  BY <1>2, <1>7 DEF SharedInv, StoreInv, BytesOK, Sound
<1>9. LostOK'
  <2>1. SUFFICES ASSUME NEW g \in Hooks, installed[g]  PROVE Lost(g)'
    BY <1>2 DEF LostOK
  <2>2. site[g] \in Sites /\ ctl.op # "drain"
    BY <1>2, <2>1 DEF SharedInv, StoreInv, StoreTyped, CtlOK, Writing
  <2>3. Lost(g) \/ site[g] \in cut'
    BY <1>7, <2>1, <2>2 DEF SharedInv, StoreInv, LostOK
  <2>4. QED  BY <1>2, <1>7, <2>3 DEF Lost, OthersOf
<1>10. CallTyped'
  BY <1>2 DEF SharedInv, CallTyped
<1>11. CallsOK'
  <2>1. SUFFICES ASSUME NEW c \in Calls  PROVE CallOK(c)'
    BY DEF CallsOK
  <2>2. CallOK(c)
    BY DEF SharedInv, CallsOK
  <2>3. ASSUME call[c].at = "head", c \notin exposed  PROVE Undisturbed(c)'
    BY <1>2, <1>6, <2>2, <2>3 DEF CallOK, Undisturbed
  <2>4. QED  BY <1>2, <2>2, <2>3 DEF CallOK
<1>12. QED  BY <1>4, <1>5, <1>8, <1>9, <1>10, <1>11 DEF SharedInv, StoreInv

LEMMA DrainKeeps ==
  ASSUME SharedInv, Drain
  PROVE  SharedInv'
<1>1. PICK h \in Hooks : h = ctl.hook
  BY DEF Drain, SharedInv, StoreInv, CtlOK
<1>2. /\ ctl.op = "drain" /\ ctl' = Idle
      /\ installed' = [installed EXCEPT ![h] = FALSE]
      /\ UNCHANGED <<code, site, saved, call, lastWriter, cut, quiet, exposed>>
  BY <1>1 DEF Drain, history
<1>3. /\ installed' \in [Hooks -> BOOLEAN]
      /\ \A g \in Hooks : installed'[g] <=> installed[g] /\ g # h
  BY <1>2 DEF SharedInv, StoreInv, StoreTyped
<1>4. ctl'.op = "idle" /\ ~Writing' /\ ~Writing /\ code[site[h]] = Original
  BY <1>1, <1>2 DEF Idle, Writing, SharedInv, StoreInv, DrainOK, Target
<1>5. StoreTyped'
  BY <1>2, <1>3 DEF SharedInv, StoreInv, StoreTyped, Idle
<1>6. CtlOK' /\ DrainOK' /\ WrittenOK' /\ OperandsOK'
  BY <1>2, <1>3, <1>4 DEF SharedInv, StoreInv, CtlOK, DrainOK, WrittenOK, OperandsOK
<1>7. \A s \in Sites : ~Begun(s) /\ ~Begun(s)'
  BY <1>4 DEF Begun
<1>8. BytesOK'
  BY <1>2, <1>3, <1>4, <1>7 DEF SharedInv, StoreInv, BytesOK, Sound
<1>9. LostOK'
  <2>1. SUFFICES ASSUME NEW g \in Hooks, installed[g], g # h  PROVE Lost(g)'
    BY <1>3 DEF LostOK
  <2>2. site[g] \in Sites
    BY <2>1 DEF SharedInv, StoreInv, StoreTyped, CtlOK
  <2>3. Lost(g)
    BY <1>1, <1>7, <2>1, <2>2 DEF SharedInv, StoreInv, LostOK
  <2>4. QED  BY <1>2, <2>3 DEF Lost, OthersOf
<1>10. CallTyped' /\ CallsOK'
  BY <1>2, <1>7, CallsStay DEF SharedInv, CallTyped
<1>11. QED  BY <1>5, <1>6, <1>8, <1>9, <1>10 DEF SharedInv, StoreInv

-----------------------------------------------------------------------------
(* The steps of a call only read the code.                                 *)

\* A call that moves on, and is exposed where it must be.
LEMMA CallMoves ==
  ASSUME SharedInv, NEW c \in Calls,
         UNCHANGED <<code, site, saved, installed, ctl, lastWriter, cut>>,
         NEW r \in [at : Places, where : Sites \cup {NoSite}, pos : Positions, ran : Seq(Hooks)],
         call' = [call EXCEPT ![c] = r], quiet' \subseteq Calls, exposed' \subseteq Calls,
         \A d \in Calls \ {c} : d \in exposed => d \in exposed',
         r.at = "head" => /\ r.where \in Sites
                          /\ r.where # Func => site[r.where] # NoSite
                          /\ \/ c \in exposed'
                             \/ /\ r.where \notin cut /\ ~Begun(r.where)
                                /\ r.pos # 1 => code[r.where] = Original,
         r.at = "detour" => r.where \in Hooks /\ site[r.where] # NoSite,
         r.at = "crashed" => c \in exposed'
  PROVE  SharedInv'
<1>1. CallTyped' /\ call'[c] = r /\ \A d \in Calls \ {c} : call'[d] = call[d]
  BY DEF SharedInv, CallTyped
<1>2. \A s : Begun(s)' <=> Begun(s)
  BY DEF Begun, Writing, Target
<1>3. StoreInv'
  <2>1. StoreTyped' /\ CtlOK' /\ DrainOK' /\ WrittenOK' /\ OperandsOK'
    BY DEF SharedInv, StoreInv, StoreTyped, CtlOK, DrainOK, WrittenOK, OperandsOK, Target, Writing, New
  <2>2. BytesOK' /\ LostOK'
    BY <1>2 DEF SharedInv, StoreInv, BytesOK, Sound, LostOK, Lost, OthersOf
  <2>3. QED  BY <2>1, <2>2 DEF StoreInv
<1>4. ASSUME NEW d \in Calls  PROVE CallOK(d)'
  <2>1. CASE d = c
    <3>1. call'[d] = r
      BY <1>1, <2>1
    <3>2. r.at = "head" => c \in exposed' \/ Undisturbed(d)'
      <4>1. /\ code' = code /\ site' = site /\ ctl' = ctl /\ cut' = cut
        OBVIOUS
      <4>2. SUFFICES ASSUME r.at = "head", c \notin exposed'  PROVE Undisturbed(d)'
        OBVIOUS
      <4>3. r.where \notin cut /\ ~Begun(r.where) /\ (r.pos # 1 => code[r.where] = Original)
        BY <4>2
      <4>4. QED  BY <3>1, <4>1, <4>3 DEF Undisturbed, Begun, Writing, Target
    <3>3. QED  BY <2>1, <3>1, <3>2 DEF CallOK
  <2>2. CASE d # c
    BY <1>1, <1>2, <2>2 DEF SharedInv, CallsOK, CallOK, Undisturbed
  <2>3. QED  BY <2>1, <2>2
<1>5. QED  BY <1>1, <1>3, <1>4 DEF SharedInv, CallsOK

\* What Go assigns to a call.
Gone(c, at, where, pos) == [call[c] EXCEPT !.at = at, !.where = where, !.pos = pos]

LEMMA GoTyped ==
  ASSUME CallTyped, NEW c \in Calls, NEW at \in Places, NEW where \in Sites \cup {NoSite},
         NEW pos \in Positions, Go(c, at, where, pos)
  PROVE  /\ Gone(c, at, where, pos) \in
              [at : Places, where : Sites \cup {NoSite}, pos : Positions, ran : Seq(Hooks)]
         /\ call' = [call EXCEPT ![c] = Gone(c, at, where, pos)]
         /\ Gone(c, at, where, pos).at = at /\ Gone(c, at, where, pos).where = where
         /\ Gone(c, at, where, pos).pos = pos
BY DEF CallTyped, Go, Gone

LEMMA ArriveKeeps ==
  ASSUME SharedInv, NEW c \in Calls, Arrive(c)
  PROVE  SharedInv'
<1>1. /\ Go(c, "head", Func, 1) /\ Func \in Sites
      /\ exposed' = IF Unsettled(Func) THEN exposed \cup {c} ELSE exposed
      /\ quiet' \subseteq Calls
      /\ UNCHANGED <<code, site, saved, installed, ctl, lastWriter, cut>>
  BY DEF Arrive, SharedInv, CallTyped, Sites
<1>2. c \in exposed' \/ (Func \notin cut /\ ~Begun(Func))
  BY <1>1 DEF Unsettled, Begun
<1> DEFINE r == Gone(c, "head", Func, 1)
<1>3. /\ r \in [at : Places, where : Sites \cup {NoSite}, pos : Positions, ran : Seq(Hooks)]
      /\ call' = [call EXCEPT ![c] = r]
      /\ r.at = "head" /\ r.where = Func /\ r.pos = 1
  BY <1>1, GoTyped, PositionsTyped DEF SharedInv, Places
<1> HIDE DEF r
<1>4. exposed \subseteq exposed' /\ exposed' \subseteq Calls
  BY <1>1 DEF SharedInv, CallTyped
<1>5. QED  BY <1>1, <1>2, <1>3, <1>4, CallMoves

LEMMA JumpKeeps ==
  ASSUME SharedInv, NEW c \in Calls, Jump(c)
  PROVE  SharedInv'
<1>1. PICK h \in Hooks :
        /\ JumpsTo(call[c].where, h)
        /\ Go(c, "head", h, 1)
        /\ exposed' = IF Unsettled(h) THEN exposed \cup {c} ELSE exposed
  BY DEF Jump
<1>2. /\ UNCHANGED <<code, site, saved, installed, ctl, lastWriter, cut, quiet>>
      /\ call[c].where \in Sites /\ h \in Sites
  BY DEF Jump, SharedInv, CallsOK, CallOK, Sites
<1>3. site[h] # NoSite
  <2>1. 2 \in Positions /\ 2 \in 2..JmpSize
    BY SharedAssumption DEF Positions
  <2>2. code[call[c].where][2] = h
    BY <1>1, <2>1 DEF JumpsTo
  <2>3. QED  BY <1>2, <2>1, <2>2, SharedAssumption DEF SharedInv, StoreInv, OperandsOK
<1>4. c \in exposed' \/ (h \notin cut /\ ~Begun(h))
  BY <1>1 DEF Unsettled, Begun
<1> DEFINE r == Gone(c, "head", h, 1)
<1>5. /\ r \in [at : Places, where : Sites \cup {NoSite}, pos : Positions, ran : Seq(Hooks)]
      /\ call' = [call EXCEPT ![c] = r]
      /\ r.at = "head" /\ r.where = h /\ r.pos = 1
  BY <1>1, <1>2, GoTyped, PositionsTyped DEF SharedInv, Places
<1> HIDE DEF r
<1>6. exposed \subseteq exposed' /\ exposed' \subseteq Calls /\ quiet' \subseteq Calls
  BY <1>1, <1>2 DEF SharedInv, CallTyped
<1>7. QED  BY <1>2, <1>3, <1>4, <1>5, <1>6, CallMoves
LEMMA RunOriginalKeeps ==
  ASSUME SharedInv, NEW c \in Calls, RunOriginal(c)
  PROVE  SharedInv'
<1>1. PICK s \in Sites, i \in Positions : s = call[c].where /\ i = call[c].pos
  BY DEF RunOriginal, SharedInv, CallsOK, CallOK, CallTyped
<1>2. /\ call[c].at = "head" /\ RunsOriginal(s, i) /\ CallOK(c)
      /\ UNCHANGED <<code, site, saved, installed, ctl, lastWriter, cut, quiet, exposed>>
  BY <1>1 DEF RunOriginal, history, SharedInv, CallsOK
<1>3. /\ quiet' \subseteq Calls /\ exposed' \subseteq Calls
      /\ \A d \in Calls \ {c} : d \in exposed => d \in exposed'
  BY <1>2 DEF SharedInv, CallTyped
<1>4. ASSUME NEW at \in Places, NEW w \in Sites \cup {NoSite}, NEW pos \in Positions,
             Go(c, at, w, pos), at # "crashed",
             at = "detour" => w \in Hooks /\ site[w] # NoSite,
             at = "head" => w = s
      PROVE  SharedInv'
  <2> DEFINE r == Gone(c, at, w, pos)
  <2>1. /\ r \in [at : Places, where : Sites \cup {NoSite}, pos : Positions, ran : Seq(Hooks)]
        /\ call' = [call EXCEPT ![c] = r]
        /\ r.at = at /\ r.where = w /\ r.pos = pos
    BY <1>4, GoTyped DEF SharedInv
  <2> HIDE DEF r
  <2>2. ASSUME at = "head"
        PROVE  c \in exposed' \/ (w \notin cut /\ ~Begun(w) /\ code[w] = Original)
    <3>1. SUFFICES ASSUME c \notin exposed
                   PROVE  s \notin cut /\ ~Begun(s) /\ code[s] = Original
      BY <1>2, <1>4, <2>2
    <3>2. s \notin cut /\ ~Begun(s) /\ (i # 1 => code[s] = Original)
      BY <1>1, <1>2, <3>1 DEF CallOK, Undisturbed
    <3>3. ASSUME i = 1  PROVE code[s] = Original
      <4>1. 1 \in InstructionAt(s, 1)
        <5>1. \A k \in Starts(s) : k \in Nat
          BY PositionsTyped
        <5>2. 1 <= 1 /\ \A k \in Starts(s) : k <= 1 \/ k > 1
          BY <5>1
        <5>3. QED  BY <5>2, PositionsTyped DEF InstructionAt
      <4>2. code[s][1] = "original"
        BY <1>2, <3>3, <4>1 DEF RunsOriginal
      <4>3. QED  BY <3>2, <4>2, FirstByte DEF SharedInv, StoreInv, BytesOK, Sound
    <3>4. QED  BY <3>2, <3>3
  <2>3. at = "head" => w \in Sites /\ (w # Func => site[w] # NoSite)
    BY <1>1, <1>2, <1>4 DEF CallOK
  <2>4. QED  BY <1>2, <1>3, <1>4, <2>1, <2>2, <2>3, CallMoves
<1>5. CASE ~\E k \in Starts(s) : k > i
  <2>1. IF s = Func THEN Go(c, "body", NoSite, 1) ELSE Go(c, "detour", s, 1)
    BY <1>1, <1>5 DEF RunOriginal, GoOn
  <2>2. s # Func => s \in Hooks /\ site[s] # NoSite
    BY <1>1, <1>2 DEF CallOK, Sites
  <2>3. QED  BY <1>4, <2>1, <2>2, PositionsTyped DEF Places
<1>6. CASE \E k \in Starts(s) : k > i
  <2>1. PICK k \in Starts(s) : Go(c, "head", s, k)
    BY <1>1, <1>6 DEF RunOriginal
  <2>2. QED  BY <1>4, <2>1, PositionsTyped DEF Places
<1>7. QED  BY <1>5, <1>6

LEMMA RunMixtureKeeps ==
  ASSUME SharedInv, NEW c \in Calls, RunMixture(c)
  PROVE  SharedInv'
<1>1. PICK s \in Sites, i \in Positions : s = call[c].where /\ i = call[c].pos
  BY DEF RunMixture, SharedInv, CallsOK, CallOK, CallTyped
<1>2. /\ call[c].at = "head" /\ ~RunsOriginal(s, i) /\ CallOK(c)
      /\ i > 1 \/ \A h \in Hooks : ~JumpsTo(s, h)
      /\ Go(c, "crashed", s, i)
      /\ UNCHANGED <<code, site, saved, installed, ctl, lastWriter, cut, quiet, exposed>>
  BY <1>1 DEF RunMixture, history, SharedInv, CallsOK
<1>3. c \in exposed
  <2>1. SUFFICES ASSUME c \notin exposed  PROVE FALSE
    OBVIOUS
  <2>2. s \notin cut /\ ~Begun(s) /\ (i # 1 => code[s] = Original)
    BY <1>1, <1>2, <2>1 DEF CallOK, Undisturbed
  <2>3. code[s] # Original
    <3>1. InstructionAt(s, i) \subseteq Positions
      BY DEF InstructionAt
    <3>2. QED  BY <1>2, <3>1 DEF RunsOriginal, Original
  <2>4. PICK h \in Hooks : code[s] = Patch(h)
    BY <2>2, <2>3 DEF SharedInv, StoreInv, BytesOK, Sound
  <2>5. JumpsTo(s, h)
    BY <2>4, SharedAssumption DEF JumpsTo, Patch, Positions
  <2>6. QED  BY <1>2, <2>2, <2>3, <2>5
<1> DEFINE r == Gone(c, "crashed", s, i)
<1>4. /\ r \in [at : Places, where : Sites \cup {NoSite}, pos : Positions, ran : Seq(Hooks)]
      /\ call' = [call EXCEPT ![c] = r]
      /\ r.at = "crashed"
  BY <1>2, GoTyped DEF SharedInv, Places
<1> HIDE DEF r
<1>5. quiet' \subseteq Calls /\ exposed' \subseteq Calls
  BY <1>2 DEF SharedInv, CallTyped
<1>6. QED  BY <1>2, <1>3, <1>4, <1>5, CallMoves

LEMMA DetourKeeps ==
  ASSUME SharedInv, NEW c \in Calls, Detour(c)
  PROVE  SharedInv'
<1>1. PICK h \in Hooks : h = call[c].where /\ site[h] # NoSite
  BY DEF Detour, SharedInv, CallsOK, CallOK
<1> DEFINE r == [call[c] EXCEPT !.ran = Append(@, h),
                                !.at = IF site[h] = Func THEN "body" ELSE "detour",
                                !.where = IF site[h] = Func THEN NoSite ELSE site[h]]
<1>2. /\ call' = [call EXCEPT ![c] = r]
      /\ UNCHANGED <<code, site, saved, installed, ctl, lastWriter, cut, quiet, exposed>>
  BY <1>1 DEF Detour, history
<1>3. site[h] \in Sites
  BY <1>1 DEF SharedInv, StoreInv, StoreTyped
<1>4. /\ r \in [at : Places, where : Sites \cup {NoSite}, pos : Positions, ran : Seq(Hooks)]
      /\ r.at \in {"body", "detour"}
      /\ r.at = "detour" => r.where = site[h] /\ site[h] # Func
  <2>1. call[c].ran \in Seq(Hooks) /\ call[c].pos \in Positions
    BY DEF SharedInv, CallTyped
  <2>2. Append(call[c].ran, h) \in Seq(Hooks)
    BY <2>1
  <2>3. QED  BY <1>3, <2>1, <2>2 DEF SharedInv, CallTyped, Places
<1> HIDE DEF r
<1>5. r.at = "detour" => r.where \in Hooks /\ site[r.where] # NoSite
  BY <1>1, <1>3, <1>4, SharedAssumption DEF Sites, SharedInv, StoreInv, CtlOK
<1>6. quiet' \subseteq Calls /\ exposed' \subseteq Calls
  BY <1>2 DEF SharedInv, CallTyped
<1>7. QED  BY <1>2, <1>4, <1>5, <1>6, CallMoves

LEMMA ReturnKeeps ==
  ASSUME SharedInv, NEW c \in Calls, Return(c)
  PROVE  SharedInv'
<1>1. /\ call' = [call EXCEPT ![c] = Nowhere]
      /\ quiet' \subseteq Calls /\ exposed' = exposed \ {c} /\ exposed' \subseteq Calls
      /\ UNCHANGED <<code, site, saved, installed, ctl, lastWriter, cut>>
  BY DEF Return, SharedInv, CallTyped
<1>2. /\ Nowhere \in
           [at : Places, where : Sites \cup {NoSite}, pos : Positions, ran : Seq(Hooks)]
      /\ Nowhere.at = "caller"
  BY PositionsTyped DEF Nowhere, Places
<1>3. QED  BY <1>1, <1>2, CallMoves
-----------------------------------------------------------------------------
(***************************************************************************)
(* The inductive invariant: every patch that nobody is writing is whole,   *)
(* what has been written of one that somebody is writing is the new        *)
(* content, and a call outside exposed has an undisturbed head before it.  *)
(***************************************************************************)
THEOREM SharedInvariant == Spec => []SharedInv
<1>1. Init => SharedInv
  BY SharedInvInit
<1>2. SharedInv /\ [Next]_vars => SharedInv'
  <2> SUFFICES ASSUME SharedInv, [Next]_vars  PROVE SharedInv'
    OBVIOUS
  <2>1. ASSUME NEW h \in Hooks, Build(h) \/ BeginInstall(h) \/ BeginUninstall(h)
        PROVE  SharedInv'
    BY <2>1, BuildKeeps, BeginKeeps
  <2>2. ASSUME NEW i \in Positions, WriteByte(i)  PROVE SharedInv'
    BY <2>2, WriteByteKeeps
  <2>3. CASE EndWrite \/ WriteThrows \/ Drain
    BY <2>3, EndWriteKeeps, WriteThrowsKeeps, DrainKeeps
  <2>4. ASSUME NEW c \in Calls, Arrive(c) \/ RunOriginal(c) \/ Jump(c)  PROVE SharedInv'
    BY <2>4, ArriveKeeps, RunOriginalKeeps, JumpKeeps
  <2>5. ASSUME NEW c \in Calls, RunMixture(c) \/ Detour(c) \/ Return(c)  PROVE SharedInv'
    BY <2>5, RunMixtureKeeps, DetourKeeps, ReturnKeeps
  <2>6. CASE UNCHANGED vars
    <3>1. UNCHANGED <<code, site, saved, installed, ctl, call, lastWriter, cut, quiet, exposed>>
      BY <2>6 DEF vars, history
    <3>2. StoreInv'
      BY <3>1 DEF SharedInv, StoreInv, StoreTyped, CtlOK, BytesOK, DrainOK, WrittenOK, OperandsOK,
         LostOK, Lost, Begun, Sound, Writing, Target, New, OthersOf
    <3>3. CallTyped' /\ CallsOK'
      BY <3>1 DEF SharedInv, CallTyped, CallsOK, CallOK, Undisturbed, Begun, Writing, Target
    <3>4. QED  BY <3>2, <3>3 DEF SharedInv
  <2>7. QED  BY <2>1, <2>2, <2>3, <2>4, <2>5, <2>6 DEF Next
<1>3. QED  BY <1>1, <1>2, PTL DEF Spec

(***************************************************************************)
(* Types; and no hook has saved bytes of another hook's patch, in whatever *)
(* order hooks are built and installed.                                    *)
(***************************************************************************)
THEOREM SharedTypeCorrect == Spec => []TypeOK
<1>1. SharedInv => TypeOK
  BY DEF SharedInv, StoreInv, StoreTyped, CallTyped, TypeOK, Places
<1>2. QED  BY <1>1, SharedInvariant, PTL

(***************************************************************************)
(* Between two operations every patch is whole: the original bytes or the  *)
(* jump of an installed hook, but for writes that broke off.               *)
(***************************************************************************)
THEOREM PatchesWhole == Spec => []PatchedByInstalled
<1>1. SharedInv => PatchedByInstalled
  BY DEF SharedInv, StoreInv, BytesOK, Begun, Sound, Writing, PatchedByInstalled
<1>2. QED  BY <1>1, SharedInvariant, PTL

(***************************************************************************)
(* An installed hook loses its patch only to another hook of the same site *)
(* or to a write that broke off.                                           *)
(***************************************************************************)
THEOREM PatchesLostToSiblings == Spec => []LostOnlyToSibling
<1>1. SharedInv => LostOnlyToSibling
  BY DEF SharedInv, StoreInv, LostOK, Lost, Begun, Writing, LostOnlyToSibling
<1>2. QED  BY <1>1, SharedInvariant, PTL

(***************************************************************************)
(* Only a call that was in a head during its write, or met one that was    *)
(* left half written, executes a mixture of original and patch.            *)
(***************************************************************************)
THEOREM MixtureOnlyExposed == Spec => []MixtureOnlyDuringWrite
<1>1. SharedInv => MixtureOnlyDuringWrite
  BY DEF SharedInv, CallsOK, CallOK, MixtureOnlyDuringWrite
<1>2. QED  BY <1>1, SharedInvariant, PTL

-----------------------------------------------------------------------------
(* Which detours a call runs.                                              *)

\* A patch that is in place is that of the hook that wrote last.
LastOK ==
  \A s \in Sites \ cut :
    \/ Begun(s)
    \/ code[s] = Original
    \/ \E h \in Hooks : /\ installed[h] /\ site[h] = s /\ lastWriter[s] = h
                        /\ code[s] = Patch(h)

\* What a call comes to: the function, the trampoline of the hook that has
\* patched it, or of the hook that has patched that one's.
OnTheWay(s) ==
  \/ s = Func
  \/ code[Func] = Patch(s)
  \/ \E g \in Hooks : code[Func] = Patch(g) /\ code[g] = Patch(s)

(***************************************************************************)
(* Where a call is tells which detours it has run, and which patches there *)
(* are: the call took the jumps from one to the next, and its detours run  *)
(* on the way back.                                                        *)
(***************************************************************************)
HeadRoute(s, pos, ran) == ran = <<>> /\ OnTheWay(s) /\ (pos # 1 => code[s] = Original)
DetourRoute(h, ran) ==
  \/ ran = <<>> /\ OnTheWay(h) /\ code[h] = Original
  \/ \E g \in Hooks : /\ ran = <<g>> /\ code[g] = Original
                      /\ code[h] = Patch(g) /\ code[Func] = Patch(h)
BodyRoute(ran) ==
  \/ ran = <<>> /\ code[Func] = Original
  \/ \E h \in Hooks : ran = <<h>> /\ code[h] = Original /\ code[Func] = Patch(h)
  \/ \E g, h \in Hooks : /\ ran = <<g, h>> /\ code[g] = Original
                         /\ code[h] = Patch(g) /\ code[Func] = Patch(h)
Route(c) ==
  /\ call[c].at = "head" => HeadRoute(call[c].where, call[c].pos, call[c].ran)
  /\ call[c].at = "detour" => DetourRoute(call[c].where, call[c].ran)
  /\ call[c].at = "body" => BodyRoute(call[c].ran)
  /\ call[c].at = "caller" => call[c].ran = <<>>

(***************************************************************************)
(* A quiet call has the patches under it that were there when it arrived.  *)
(***************************************************************************)
QuietOK ==
  /\ quiet # {} => ctl.op = "idle"
  /\ \A c \in Calls : call[c].at = "caller" => call[c].ran = <<>>
  /\ cut = {} => \A c \in quiet : Route(c)

RouteInv == LastOK /\ QuietOK

\* Patches of different hooks differ.
LEMMA PatchInjective ==
  ASSUME NEW g \in Hooks, NEW h \in Hooks, Patch(g) = Patch(h)
  PROVE  g = h
<1>1. 2 \in Positions /\ 2 # 1 /\ 2 <= JmpSize
  BY SharedAssumption DEF Positions
<1>2. QED  BY <1>1 DEF Patch

\* The bytes of a hook's patch are at its site; no hook is two jumps away from
\* the trampoline of another one.
LEMMA PatchSite ==
  ASSUME SharedInv, NEW h \in Hooks, NEW s \in Sites, code[s] = Patch(h)
  PROVE  site[h] = s /\ (s \in Hooks => site[s] = Func)
<1>1. 2 \in Positions /\ Patch(h)[2] = h
  BY SharedAssumption DEF Positions, Patch
<1>2. site[h] = s
  BY <1>1 DEF SharedInv, StoreInv, OperandsOK
<1>3. QED  BY <1>2 DEF SharedInv, StoreInv, CtlOK

\* Between two operations a patch is the original or that of one hook.
LEMMA SettledPatch ==
  ASSUME SharedInv, ctl.op = "idle", cut = {}, NEW s \in Sites
  PROVE  /\ code[s] = Original \/ \E h \in Hooks : code[s] = Patch(h)
         /\ \A h \in Hooks : JumpsTo(s, h) => code[s] = Patch(h)
         /\ code[s][1] = "original" => code[s] = Original
<1>1. code[s] = Original \/ \E h \in Hooks : code[s] = Patch(h)
  BY DEF SharedInv, StoreInv, BytesOK, Begun, Writing, Sound
<1>2. ASSUME NEW h \in Hooks, JumpsTo(s, h)
      PROVE  code[s] = Patch(h)
  <2>1. code[s][1] = "jmp" /\ code[s][2] = h
    BY <1>2, SharedAssumption DEF JumpsTo
  <2>2. PICK g \in Hooks : code[s] = Patch(g)
    BY <1>1, <2>1, FirstByte
  <2>3. 2 \in Positions
    BY SharedAssumption DEF Positions
  <2>4. QED  BY <2>1, <2>2, <2>3, PatchOperand
<1>3. QED  BY <1>1, <1>2, FirstByte

-----------------------------------------------------------------------------
(* The controller's steps.                                                 *)

\* LastOK survives what leaves the bytes, the sites and the writers alone.
LEMMA LastStays ==
  ASSUME LastOK, UNCHANGED <<code, lastWriter>>, cut \subseteq cut',
         \A s \in Sites \ cut' : Begun(s) => Begun(s)',
         \A h \in Hooks, s \in Sites \ cut' :
           installed[h] /\ site[h] = s /\ code[s] = Patch(h) => installed'[h] /\ site'[h] = s
  PROVE  LastOK'
BY DEF LastOK

\* No call is quiet while an operation is in progress.
LEMMA NoneQuiet ==
  ASSUME QuietOK, quiet' \subseteq quiet, call' = call, quiet' = {} \/ ctl.op # "idle"
  PROVE  QuietOK'
BY DEF QuietOK

LEMMA BuildRoute ==
  ASSUME SharedInv, RouteInv, NEW h \in Hooks, Build(h)
  PROVE  RouteInv'
<1>1. /\ ctl.op = "idle" /\ site[h] = NoSite /\ ~installed[h]
      /\ UNCHANGED <<code, installed, ctl, call, lastWriter, cut, quiet>>
      /\ \A g \in Hooks \ {h} : site'[g] = site[g]
  BY DEF Build, history, SharedInv, StoreInv, StoreTyped, CtlOK
<1>2. \A s \in Sites : ~Begun(s)
  BY <1>1 DEF Begun, Writing
<1>3. LastOK'
  BY <1>1, <1>2, LastStays DEF RouteInv
<1>4. QuietOK'
  BY <1>1 DEF RouteInv, QuietOK, Route, HeadRoute, DetourRoute, BodyRoute, OnTheWay
<1>5. QED  BY <1>3, <1>4 DEF RouteInv

LEMMA BeginRoute ==
  ASSUME SharedInv, RouteInv, NEW h \in Hooks, BeginInstall(h) \/ BeginUninstall(h)
  PROVE  RouteInv'
<1>1. /\ ctl.op = "idle" /\ quiet' = {}
      /\ UNCHANGED <<code, site, installed, call, lastWriter, cut>>
  BY DEF BeginInstall, BeginUninstall, Begin
<1>2. \A s \in Sites : ~Begun(s)
  BY <1>1 DEF Begun, Writing
<1>3. LastOK'
  BY <1>1, <1>2, LastStays DEF RouteInv
<1>4. QED  BY <1>1, <1>3, NoneQuiet DEF RouteInv

LEMMA WriteByteRoute ==
  ASSUME SharedInv, RouteInv, NEW i \in Positions, WriteByte(i)
  PROVE  RouteInv'
<1>0. PICK t \in Sites : t = Target
  BY DEF WriteByte, Target, Writing, SharedInv, StoreInv, StoreTyped, CtlOK
<1>1. /\ Writing /\ i \in ctl.todo
      /\ UNCHANGED <<site, installed, call, lastWriter, cut, quiet>>
      /\ \A s \in Sites \ {t} : code'[s] = code[s]
  BY <1>0 DEF WriteByte, SharedInv, StoreInv, StoreTyped
<1>2. ctl'.op = ctl.op /\ ctl'.hook = ctl.hook /\ ctl'.todo = ctl.todo \ {i}
  BY DEF WriteByte, SharedInv, StoreInv, StoreTyped
<1>3. Begun(t)' /\ \A s \in Sites \ {t} : ~Begun(s)
  BY <1>0, <1>1, <1>2 DEF Begun, Target, Writing
<1>4. LastOK'
  BY <1>1, <1>3 DEF RouteInv, LastOK
<1>5. QuietOK'
  BY <1>1, NoneQuiet DEF RouteInv, Writing
<1>6. QED  BY <1>4, <1>5 DEF RouteInv

LEMMA EndWriteRoute ==
  ASSUME SharedInv, RouteInv, EndWrite
  PROVE  RouteInv'
<1> DEFINE h == ctl.hook  t == site[h]
<1>1. /\ Writing /\ h \in Hooks /\ t \in Sites /\ Target = t
      /\ lastWriter' = [lastWriter EXCEPT ![t] = h] /\ cut' = cut \ {t}
      /\ UNCHANGED <<code, site, call, quiet>>
      /\ code[t] = New
  <2>1. /\ Writing /\ ctl.todo = {} /\ h \in Hooks /\ t \in Sites /\ Target = t
        /\ lastWriter' = [lastWriter EXCEPT ![t] = h] /\ cut' = cut \ {t}
        /\ UNCHANGED <<code, site, call, quiet>>
    BY DEF EndWrite, Target, Writing, SharedInv, StoreInv, StoreTyped, CtlOK
  <2>2. New \in [Positions -> Bytes]
    BY <2>1, BytesTyped DEF New
  <2>3. QED  BY <2>1, <2>2 DEF SharedInv, StoreInv, StoreTyped, WrittenOK
<1>2. /\ lastWriter'[t] = h /\ \A s \in Sites \ {t} : lastWriter'[s] = lastWriter[s]
      /\ \A g \in Hooks : installed[g] => installed'[g]
      /\ ctl.op = "install" => installed'[h]
  BY <1>1 DEF EndWrite, SharedInv, StoreInv, StoreTyped
<1>3. code[t] = IF ctl.op = "install" THEN Patch(h) ELSE Original
  BY <1>1 DEF New
<1> HIDE DEF h, t
<1>4. \A s \in Sites \ {t} : ~Begun(s)
  BY <1>1 DEF Begun
<1>5. LastOK'
  <2>1. SUFFICES ASSUME NEW s \in Sites \ cut'
                 PROVE  \/ code[s] = Original
                        \/ \E g \in Hooks : /\ installed'[g] /\ site[g] = s
                                            /\ lastWriter'[s] = g /\ code[s] = Patch(g)
    BY <1>1 DEF LastOK
  <2>2. CASE s = t
    BY <1>1, <1>2, <1>3, <2>2 DEF t
  <2>3. CASE s # t
    BY <1>1, <1>2, <1>4, <2>1, <2>3 DEF RouteInv, LastOK
  <2>4. QED  BY <2>2, <2>3
<1>6. QuietOK'
  BY <1>1, NoneQuiet DEF RouteInv, Writing
<1>7. QED  BY <1>5, <1>6 DEF RouteInv

LEMMA WriteThrowsRoute ==
  ASSUME SharedInv, RouteInv, WriteThrows
  PROVE  RouteInv'
<1>1. /\ Writing /\ UNCHANGED <<code, site, installed, call, lastWriter, quiet>>
      /\ cut \subseteq cut'
      /\ \A s \in Sites \ cut' : ~Begun(s)
  BY DEF WriteThrows, Begun
<1>2. LastOK'
  BY <1>1, LastStays DEF RouteInv
<1>3. QuietOK'
  BY <1>1, NoneQuiet DEF RouteInv, Writing
<1>4. QED  BY <1>2, <1>3 DEF RouteInv

LEMMA DrainRoute ==
  ASSUME SharedInv, RouteInv, Drain
  PROVE  RouteInv'
<1>1. /\ ctl.op = "drain" /\ ctl.hook \in Hooks /\ code[site[ctl.hook]] = Original
      /\ UNCHANGED <<code, site, call, lastWriter, cut, quiet>>
      /\ \A g \in Hooks \ {ctl.hook} : installed'[g] = installed[g]
  BY DEF Drain, history, SharedInv, StoreInv, StoreTyped, CtlOK, DrainOK, Target
<1>2. \A s \in Sites : ~Begun(s)
  BY <1>1 DEF Begun, Writing
<1>3. \A g \in Hooks, s \in Sites : site[g] = s /\ code[s] = Patch(g) => g # ctl.hook
  BY <1>1, FirstByte
<1>4. LastOK'
  BY <1>1, <1>2, <1>3, LastStays DEF RouteInv
<1>5. QuietOK'
  BY <1>1, NoneQuiet DEF RouteInv
<1>6. QED  BY <1>4, <1>5 DEF RouteInv

-----------------------------------------------------------------------------
(* The steps of a call.                                                    *)

\* A call moves on, and its new place still tells what it has run.
LEMMA RouteMoves ==
  ASSUME SharedInv, RouteInv, NEW c \in Calls,
         UNCHANGED <<code, site, installed, ctl, lastWriter, cut>>,
         \A d \in Calls \ {c} : call'[d] = call[d],
         quiet' \subseteq quiet \cup {c}, quiet' # {} => ctl.op = "idle",
         call'[c].at = "caller" => call'[c].ran = <<>>,
         c \in quiet' /\ cut = {} => Route(c)'
  PROVE  RouteInv'
<1>1. LastOK'
  BY DEF RouteInv, LastOK, Begun, Writing, Target
<1>2. ASSUME NEW d \in quiet', cut = {}
      PROVE  Route(d)'
  <2>1. CASE d = c
    BY <1>2, <2>1
  <2>2. CASE d # c
    <3>1. Route(d) /\ call'[d] = call[d]
      BY <1>2, <2>2 DEF RouteInv, QuietOK, SharedInv, CallTyped
    <3>2. QED  BY <3>1 DEF Route, HeadRoute, DetourRoute, BodyRoute, OnTheWay
  <2>3. QED  BY <2>1, <2>2
<1>3. QuietOK'
  BY <1>2 DEF RouteInv, QuietOK
<1>4. QED  BY <1>1, <1>3 DEF RouteInv

\* The call that took the step, and the others.
LEMMA GoMoves ==
  ASSUME SharedInv, NEW c \in Calls, NEW at, NEW where, NEW pos, Go(c, at, where, pos)
  PROVE  /\ \A d \in Calls \ {c} : call'[d] = call[d]
         /\ call'[c].at = at /\ call'[c].where = where /\ call'[c].pos = pos
         /\ call'[c].ran = call[c].ran
BY DEF Go, SharedInv, CallTyped

LEMMA ArriveRoute ==
  ASSUME SharedInv, RouteInv, NEW c \in Calls, Arrive(c)
  PROVE  RouteInv'
<1>1. /\ call[c].at = "caller" /\ Go(c, "head", Func, 1)
      /\ quiet' = IF ctl.op = "idle" THEN quiet \cup {c} ELSE quiet
      /\ UNCHANGED <<code, site, installed, ctl, lastWriter, cut>>
  BY DEF Arrive
<1>2. call[c].ran = <<>>
  BY <1>1 DEF RouteInv, QuietOK
<1>3. Route(c)' /\ call'[c].at = "head"
  BY <1>1, <1>2, GoMoves DEF Route, HeadRoute, OnTheWay
<1>4. quiet' # {} => ctl.op = "idle"
  BY <1>1 DEF RouteInv, QuietOK
<1>5. QED  BY <1>1, <1>3, <1>4, GoMoves, RouteMoves

LEMMA RunOriginalRoute ==
  ASSUME SharedInv, RouteInv, NEW c \in Calls, RunOriginal(c)
  PROVE  RouteInv'
<1>1. PICK s \in Sites, i \in Positions : s = call[c].where /\ i = call[c].pos
  BY DEF RunOriginal, SharedInv, CallsOK, CallOK, CallTyped
<1>2. /\ call[c].at = "head" /\ RunsOriginal(s, i)
      /\ UNCHANGED <<code, site, installed, ctl, lastWriter, cut, quiet>>
  BY <1>1 DEF RunOriginal, history
<1>3. quiet' # {} => ctl.op = "idle"
  BY <1>2 DEF RouteInv, QuietOK
<1>4. ASSUME c \in quiet, cut = {}
      PROVE  call[c].ran = <<>> /\ OnTheWay(s) /\ code[s] = Original
  <2>1. ctl.op = "idle" /\ HeadRoute(s, i, call[c].ran)
    BY <1>1, <1>2, <1>4 DEF RouteInv, QuietOK, Route
  <2>2. ASSUME i = 1
        PROVE  code[s] = Original
    <3>1. 1 \in InstructionAt(s, 1)
      <4>1. \A k \in Starts(s) : k \in Nat
        BY PositionsTyped
      <4>2. 1 <= 1 /\ \A k \in Starts(s) : k <= 1 \/ k > 1
        BY <4>1
      <4>3. QED  BY <4>2, PositionsTyped DEF InstructionAt
    <3>2. code[s][1] = "original"
      BY <1>2, <2>2, <3>1 DEF RunsOriginal
    <3>3. QED  BY <1>4, <2>1, <3>2, SettledPatch
  <2>3. QED  BY <2>1, <2>2 DEF HeadRoute
<1>5. ASSUME NEW k, Go(c, "head", s, k)
      PROVE  RouteInv'
  <2>1. c \in quiet /\ cut = {} => Route(c)'
    BY <1>2, <1>4, <1>5, GoMoves DEF Route, HeadRoute, OnTheWay
  <2>2. QED  BY <1>2, <1>3, <1>5, <2>1, GoMoves, RouteMoves
<1>6. CASE Go(c, "body", NoSite, 1) /\ s = Func
  <2>1. c \in quiet /\ cut = {} => Route(c)'
    BY <1>2, <1>4, <1>6, GoMoves DEF Route, BodyRoute
  <2>2. QED  BY <1>2, <1>3, <1>6, <2>1, GoMoves, RouteMoves
<1>7. CASE Go(c, "detour", s, 1)
  <2>1. c \in quiet /\ cut = {} => Route(c)'
    BY <1>2, <1>4, <1>7, GoMoves DEF Route, DetourRoute, OnTheWay
  <2>2. QED  BY <1>2, <1>3, <1>7, <2>1, GoMoves, RouteMoves
<1>8. QED  BY <1>1, <1>5, <1>6, <1>7 DEF RunOriginal, GoOn

LEMMA JumpRoute ==
  ASSUME SharedInv, RouteInv, NEW c \in Calls, Jump(c)
  PROVE  RouteInv'
<1>1. PICK s \in Sites, h \in Hooks :
        s = call[c].where /\ JumpsTo(s, h) /\ Go(c, "head", h, 1)
  BY DEF Jump, SharedInv, CallsOK, CallOK
<1>2. /\ call[c].at = "head"
      /\ UNCHANGED <<code, site, installed, ctl, lastWriter, cut, quiet>>
  BY DEF Jump
<1>3. quiet' # {} => ctl.op = "idle"
  BY <1>2 DEF RouteInv, QuietOK
<1>4. ASSUME c \in quiet, cut = {}
      PROVE  call[c].ran = <<>> /\ OnTheWay(h)
  <2>1. ctl.op = "idle" /\ call[c].ran = <<>> /\ OnTheWay(s)
    BY <1>1, <1>2, <1>4 DEF RouteInv, QuietOK, Route, HeadRoute
  <2>2. code[s] = Patch(h)
    BY <1>1, <1>4, <2>1, SettledPatch
  <2>3. site[h] = s /\ (s \in Hooks => site[s] = Func)
    BY <2>2, PatchSite
  <2>4. CASE s = Func
    BY <2>1, <2>2, <2>4 DEF OnTheWay
  <2>5. CASE s \in Hooks
    <3>1. \A g \in Hooks : code[g] # Patch(s)
      BY <2>3, <2>5, PatchSite, SharedAssumption DEF Sites
    <3>2. code[Func] = Patch(s)
      BY <2>1, <2>5, <3>1, SharedAssumption DEF OnTheWay
    <3>3. QED  BY <2>1, <2>2, <2>5, <3>2 DEF OnTheWay
  <2>6. QED  BY <2>4, <2>5 DEF Sites
<1>5. c \in quiet /\ cut = {} => Route(c)'
  BY <1>1, <1>2, <1>4, GoMoves DEF Route, HeadRoute, OnTheWay
<1>6. QED  BY <1>1, <1>2, <1>3, <1>5, GoMoves, RouteMoves

\* The second detour that a call runs is behind the first.
LEMMA AppendSecond ==
  ASSUME NEW g \in Hooks, NEW h \in Hooks
  PROVE  Append(<<g>>, h) = <<g, h>>
<1>1. <<g>> \in Seq(Hooks) /\ <<g, h>> \in Seq(Hooks) /\ Append(<<g>>, h) \in Seq(Hooks)
  OBVIOUS
<1>2. Len(<<g>>) = 1 /\ Len(<<g, h>>) = 2 /\ Len(Append(<<g>>, h)) = 2
  BY <1>1
<1>3. \A i \in 1..2 : Append(<<g>>, h)[i] = <<g, h>>[i]
  BY <1>1, <1>2
<1>4. QED  BY <1>1, <1>2, <1>3, SeqEqual

LEMMA DetourRuns ==
  ASSUME SharedInv, RouteInv, NEW c \in Calls, Detour(c)
  PROVE  RouteInv'
<1>1. PICK h \in Hooks : h = call[c].where /\ site[h] # NoSite
  BY DEF Detour, SharedInv, CallsOK, CallOK
<1>2. /\ call[c].at = "detour"
      /\ UNCHANGED <<code, site, installed, ctl, lastWriter, cut, quiet>>
      /\ call[c].ran \in Seq(Hooks)
  BY DEF Detour, history, SharedInv, CallTyped
<1>3. /\ \A d \in Calls \ {c} : call'[d] = call[d]
      /\ call'[c].ran = Append(call[c].ran, h)
      /\ call'[c].at = IF site[h] = Func THEN "body" ELSE "detour"
      /\ site[h] # Func => call'[c].where = site[h]
  BY <1>1 DEF Detour, SharedInv, CallTyped
<1>4. quiet' # {} => ctl.op = "idle"
  BY <1>2 DEF RouteInv, QuietOK
<1>5. ASSUME c \in quiet, cut = {}
      PROVE  Route(c)'
  <2>1. DetourRoute(h, call[c].ran)
    BY <1>1, <1>2, <1>5 DEF RouteInv, QuietOK, Route
  <2>2. CASE call[c].ran = <<>> /\ OnTheWay(h) /\ code[h] = Original
    <3>1. call'[c].ran = <<h>>
      BY <1>3, <2>2
    <3>2. CASE code[Func] = Patch(h)
      <4>1. site[h] = Func
        BY <3>2, PatchSite DEF Sites
      <4>2. BodyRoute(<<h>>)'
        BY <1>2, <2>2, <3>2 DEF BodyRoute
      <4>3. QED  BY <1>3, <3>1, <4>1, <4>2 DEF Route
    <3>3. ASSUME NEW g \in Hooks, code[Func] = Patch(g), code[g] = Patch(h)
          PROVE  Route(c)'
      <4>1. site[h] = g /\ g # Func
        BY <3>3, PatchSite, SharedAssumption DEF Sites
      <4>2. DetourRoute(g, <<h>>)'
        BY <1>2, <2>2, <3>3 DEF DetourRoute
      <4>3. QED  BY <1>3, <3>1, <4>1, <4>2 DEF Route
    <3>4. h # Func
      BY SharedAssumption
    <3>5. QED  BY <2>2, <3>2, <3>3, <3>4 DEF OnTheWay
  <2>3. ASSUME NEW g \in Hooks, call[c].ran = <<g>>, code[g] = Original,
               code[h] = Patch(g), code[Func] = Patch(h)
        PROVE  Route(c)'
    <3>1. call'[c].ran = <<g, h>> /\ site[h] = Func
      <4>1. Append(<<g>>, h) = <<g, h>>
        BY AppendSecond
      <4>2. site[h] = Func
        BY <2>3, PatchSite DEF Sites
      <4>3. QED  BY <1>3, <2>3, <4>1, <4>2
    <3>2. BodyRoute(<<g, h>>)'
      BY <1>2, <2>3 DEF BodyRoute
    <3>3. QED  BY <1>3, <3>1, <3>2 DEF Route
  <2>4. QED  BY <2>1, <2>2, <2>3 DEF DetourRoute
<1>6. call'[c].at # "caller"
  BY <1>3
<1>7. QED  BY <1>2, <1>3, <1>4, <1>5, <1>6, RouteMoves

LEMMA MixtureOrReturnRoute ==
  ASSUME SharedInv, RouteInv, NEW c \in Calls, RunMixture(c) \/ Return(c)
  PROVE  RouteInv'
<1>1. CASE RunMixture(c)
  <2>1. /\ Go(c, "crashed", call[c].where, call[c].pos)
        /\ UNCHANGED <<code, site, installed, ctl, lastWriter, cut, quiet>>
    BY <1>1 DEF RunMixture, history
  <2>2. Route(c)' /\ call'[c].at = "crashed"
    BY <2>1, GoMoves DEF Route
  <2>3. QED  BY <2>1, <2>2, GoMoves, RouteMoves DEF RouteInv, QuietOK
<1>2. CASE Return(c)
  <2>1. /\ call' = [call EXCEPT ![c] = Nowhere] /\ quiet' = quiet \ {c}
        /\ UNCHANGED <<code, site, installed, ctl, lastWriter, cut>>
    BY <1>2 DEF Return
  <2>2. call'[c] = Nowhere /\ \A d \in Calls \ {c} : call'[d] = call[d]
    BY <2>1 DEF SharedInv, CallTyped
  <2>3. QED  BY <2>1, <2>2, RouteMoves DEF Nowhere, RouteInv, QuietOK
<1>3. QED  BY <1>1, <1>2

\* The routes of quiet calls, and the hooks that wrote last, over all steps.
LEMMA RouteInvariant == Spec => [](SharedInv /\ RouteInv)
<1>1. Init => RouteInv
  BY DEF Init, RouteInv, LastOK, QuietOK, Nowhere
<1>2. ASSUME SharedInv, RouteInv, [Next]_vars
      PROVE  RouteInv'
  <2>1. ASSUME NEW h \in Hooks, Build(h) \/ BeginInstall(h) \/ BeginUninstall(h)
        PROVE  RouteInv'
    BY <1>2, <2>1, BuildRoute, BeginRoute
  <2>2. ASSUME NEW i \in Positions, WriteByte(i)
        PROVE  RouteInv'
    BY <1>2, <2>2, WriteByteRoute
  <2>3. CASE EndWrite \/ WriteThrows \/ Drain
    BY <1>2, <2>3, EndWriteRoute, WriteThrowsRoute, DrainRoute
  <2>4. ASSUME NEW c \in Calls, Arrive(c) \/ RunOriginal(c) \/ Jump(c)
        PROVE  RouteInv'
    BY <1>2, <2>4, ArriveRoute, RunOriginalRoute, JumpRoute
  <2>5. ASSUME NEW c \in Calls, RunMixture(c) \/ Detour(c) \/ Return(c)
        PROVE  RouteInv'
    BY <1>2, <2>5, MixtureOrReturnRoute, DetourRuns
  <2>6. CASE UNCHANGED vars
    BY <1>2, <2>6 DEF vars, history, RouteInv, LastOK, QuietOK, Begun, Writing, Target,
       Route, HeadRoute, DetourRoute, BodyRoute, OnTheWay
  <2>7. QED  BY <1>2, <2>1, <2>2, <2>3, <2>4, <2>5, <2>6 DEF Next
<1>3. QED  BY <1>1, <1>2, SharedInvariant, PTL DEF Spec

\* Between two operations a hook is effective where its patch is in place.
LEMMA EffectivePatch ==
  ASSUME SharedInv, RouteInv, ctl.op = "idle", cut = {}, NEW h \in Hooks, NEW s \in Sites
  PROVE  code[s] = Patch(h) <=> site[h] = s /\ Effective(h)
<1>1. ASSUME code[s] = Patch(h)
      PROVE  site[h] = s /\ Effective(h)
  <2>1. PICK g \in Hooks : /\ installed[g] /\ site[g] = s /\ lastWriter[s] = g
                           /\ code[s] = Patch(g)
    <3>1. code[s] # Original /\ ~Begun(s)
      BY <1>1, FirstByte DEF Begun, Writing
    <3>2. QED  BY <3>1 DEF RouteInv, LastOK
  <2>2. g = h
    BY <1>1, <2>1, PatchInjective
  <2>3. QED  BY <2>1, <2>2 DEF Effective
<1>2. ASSUME site[h] = s, Effective(h)
      PROVE  code[s] = Patch(h)
  <2>1. Lost(h)
    BY <1>2 DEF SharedInv, StoreInv, LostOK, Effective, Begun, Writing
  <2>2. QED  BY <1>2, <2>1 DEF Lost, OthersOf, Effective
<1>3. QED  BY <1>1, <1>2

(***************************************************************************)
(* A call during which nobody installs or uninstalls runs the detours of   *)
(* the effective hooks on its way, each once, in the order in which they   *)
(* were built on each other, and then the body.                            *)
(***************************************************************************)
THEOREM DetoursInOrder == Spec => []DetoursRunAsInstalled
<1>1. SharedInv /\ RouteInv => DetoursRunAsInstalled
  <2> SUFFICES ASSUME SharedInv, RouteInv, NEW c \in quiet, call[c].at = "body", cut = {}
               PROVE  LET ran == call[c].ran IN
                      /\ \A i, j \in 1..Len(ran) : ran[i] = ran[j] => i = j
                      /\ \A h \in Hooks :
                           h \in Ran(c) <=> /\ site[h] # NoSite /\ Effective(h)
                                            /\ site[h] \in Ran(c) \cup {Func}
                      /\ \A i \in 1..Len(ran) :
                           site[ran[i]] = IF i < Len(ran) THEN ran[i + 1] ELSE Func
    BY DEF DetoursRunAsInstalled
  <2> DEFINE ran == call[c].ran
  <2>1. ctl.op = "idle" /\ BodyRoute(ran)
    BY DEF RouteInv, QuietOK, Route
  <2>2. \A h \in Hooks, s \in Sites : code[s] = Patch(h) <=> site[h] = s /\ Effective(h)
    BY <2>1, EffectivePatch
  <2>3. \A s \in Sites, g, h \in Hooks : code[s] = Patch(g) /\ code[s] = Patch(h) => g = h
    BY PatchInjective
  <2>4. Func \in Sites /\ Hooks \subseteq Sites /\ NoSite \notin Sites /\ Func \notin Hooks
    BY SharedAssumption DEF Sites
  <2>5. \A h \in Hooks : Original # Patch(h)
    BY FirstByte
  <2>6. CASE ran = <<>> /\ code[Func] = Original
    <3>1. Ran(c) = {}
      BY <2>6 DEF Ran
    <3>2. QED  BY <2>2, <2>4, <2>5, <2>6, <3>1
  <2>7. ASSUME NEW h \in Hooks, ran = <<h>>, code[h] = Original, code[Func] = Patch(h)
        PROVE  /\ \A i, j \in 1..Len(ran) : ran[i] = ran[j] => i = j
               /\ \A g \in Hooks :
                    g \in Ran(c) <=> /\ site[g] # NoSite /\ Effective(g)
                                     /\ site[g] \in Ran(c) \cup {Func}
               /\ \A i \in 1..Len(ran) :
                    site[ran[i]] = IF i < Len(ran) THEN ran[i + 1] ELSE Func
    <3>1. Ran(c) = {h} /\ Len(ran) = 1 /\ ran[1] = h
      BY <2>7 DEF Ran
    <3>2. site[h] = Func /\ Effective(h)
      BY <2>2, <2>4, <2>7
    <3>3. \A g \in Hooks : site[g] = h => ~Effective(g)
      BY <2>2, <2>4, <2>5, <2>7
    <3>4. \A g \in Hooks : site[g] = Func /\ Effective(g) => g = h
      BY <2>2, <2>3, <2>4, <2>7
    <3>5. QED  BY <2>4, <3>1, <3>2, <3>3, <3>4
  <2>8. ASSUME NEW g \in Hooks, NEW h \in Hooks, ran = <<g, h>>, code[g] = Original,
               code[h] = Patch(g), code[Func] = Patch(h)
        PROVE  /\ \A i, j \in 1..Len(ran) : ran[i] = ran[j] => i = j
               /\ \A x \in Hooks :
                    x \in Ran(c) <=> /\ site[x] # NoSite /\ Effective(x)
                                     /\ site[x] \in Ran(c) \cup {Func}
               /\ \A i \in 1..Len(ran) :
                    site[ran[i]] = IF i < Len(ran) THEN ran[i + 1] ELSE Func
    <3>1. Ran(c) = {g, h} /\ Len(ran) = 2 /\ ran[1] = g /\ ran[2] = h
      BY <2>8 DEF Ran
    <3>2. site[h] = Func /\ Effective(h) /\ site[g] = h /\ Effective(g)
      BY <2>2, <2>4, <2>8
    <3>3. \A x \in Hooks : site[x] = g => ~Effective(x)
      BY <2>2, <2>4, <2>5, <2>8
    <3>4. \A x \in Hooks : site[x] = h /\ Effective(x) => x = g
      BY <2>2, <2>3, <2>4, <2>8
    <3>5. \A x \in Hooks : site[x] = Func /\ Effective(x) => x = h
      BY <2>2, <2>3, <2>4, <2>8
    <3>6. g # h
      BY <2>4, <3>2
    <3>7. QED  BY <2>4, <3>1, <3>2, <3>3, <3>4, <3>5, <3>6
  <2>9. QED  BY <2>1, <2>6, <2>7, <2>8 DEF BodyRoute
<1>2. QED  BY <1>1, RouteInvariant, PTL
=============================================================================
