---------------------------- MODULE SharedTarget ----------------------------
(***************************************************************************)
(* Several hooks of one function.  What a hook patches is found when it is *)
(* built: the function itself or, if that starts with the jump of another  *)
(* hook, the trampoline of that hook (resolve_func_ptr).  install() and    *)
(* uninstall() overwrite the patch byte by byte, in any order, while calls *)
(* run through it one instruction at a time.                               *)
(*                                                                         *)
(* One thread builds, installs and uninstalls.  A call in a detour always  *)
(* calls the original.  Building on a head that a cut write has left torn  *)
(* is left out: what its bytes decode to is anything.                      *)
(***************************************************************************)
EXTENDS Integers, Sequences

CONSTANTS
  Hooks, Func,  \* hooks, and the function they are for
  NoSite,
  Calls,
  JmpSize,      \* bytes of the relative jump: an opcode, then the operand
  PatchSize,    \* bytes of the instructions it overwrites
  HeadStarts,   \* where the instructions in the head of Func start
  PageEnd       \* the bytes of a patch that lie on the first of two pages

\* Where a patch may be: in the function or in the trampoline of a hook.
Sites == Hooks \cup {Func}
Positions == 1..PatchSize

ASSUME SharedAssumption ==
  /\ Func \notin Hooks /\ NoSite \notin Sites
  /\ Hooks \cap {"original", "jmp", "nop"} = {}
  /\ JmpSize \in Nat \ {0, 1} /\ PatchSize \in Nat /\ JmpSize <= PatchSize
  /\ HeadStarts \subseteq Positions /\ 1 \in HeadStarts
  /\ PageEnd \in 0..PatchSize

VARIABLES
  code,        \* the bytes under each patch
  site,        \* target_func of each hook
  saved,       \* patched_original_bytes
  installed,   \* _is_installed
  ctl,         \* the operation in progress and the bytes it has to write
  call,        \* each call: its place, and the detours it has run
  lastWriter,  \* history: the hook whose write to a site was the last complete
  cut,         \* history: the sites whose last write broke off half way
  quiet,       \* history: the calls during which no operation was in progress
  exposed      \* history: the calls that were in a head while it was unsettled

history == <<lastWriter, cut, quiet, exposed>>
vars == <<code, site, saved, installed, ctl, call, history>>

-----------------------------------------------------------------------------
Original == [i \in Positions |-> "original"]

\* What install() writes: opcode, operand, and nop behind the jump.
Patch(h) == [i \in Positions |-> IF i = 1 THEN "jmp" ELSE IF i <= JmpSize THEN h ELSE "nop"]

Starts(s) == IF s = Func THEN HeadStarts ELSE {1}
InstructionAt(s, i) == {j \in Positions : i <= j /\ \A k \in Starts(s) : k <= i \/ k > j}
RunsOriginal(s, i) == \A j \in InstructionAt(s, i) : code[s][j] = "original"
JumpsTo(s, h) == code[s][1] = "jmp" /\ \A j \in 2..JmpSize : code[s][j] = h

Idle == [op |-> "idle", hook |-> NoSite, todo |-> {}]
Nowhere == [at |-> "caller", where |-> NoSite, pos |-> 1, ran |-> <<>>]

Init ==
  /\ code = [s \in Sites |-> Original]
  /\ site = [h \in Hooks |-> NoSite]
  /\ saved = [h \in Hooks |-> Original]
  /\ installed = [h \in Hooks |-> FALSE]
  /\ ctl = Idle
  /\ call = [c \in Calls |-> Nowhere]
  /\ lastWriter = [s \in Sites |-> NoSite]
  /\ cut = {} /\ quiet = {} /\ exposed = {}

-----------------------------------------------------------------------------
(* Building, installing and uninstalling.                                  *)

\* Faulty variant of Build: the pointer is not resolved.
BuildUnresolved(h) ==
  /\ ctl.op = "idle" /\ site[h] = NoSite
  /\ site' = [site EXCEPT ![h] = Func]
  /\ saved' = [saved EXCEPT ![h] = code[Func]]
  /\ UNCHANGED <<code, installed, ctl, call, history>>

(***************************************************************************)
(* A head that starts with a jump stands for where the jump leads.  If a   *)
(* jump is there too, relocation refuses it and no hook is built.          *)
(***************************************************************************)
Build(h) ==
  /\ ctl.op = "idle" /\ site[h] = NoSite
  /\ \E s \in Sites \ cut :
       /\ s # Func => JumpsTo(Func, s)
       /\ code[s][1] # "jmp"
       /\ site' = [site EXCEPT ![h] = s]
       /\ saved' = [saved EXCEPT ![h] = code[s]]
  /\ UNCHANGED <<code, installed, ctl, call, history>>

Begin(op, h) ==
  /\ ctl.op = "idle" /\ site[h] # NoSite
  /\ ctl' = [op |-> op, hook |-> h, todo |-> Positions]
  /\ quiet' = {}
  /\ UNCHANGED <<code, site, saved, installed, call, lastWriter, cut, exposed>>

BeginInstall(h) == ~installed[h] /\ Begin("install", h)

\* Faulty variant of BeginUninstall: only the bytes of the jump are restored.
BeginUninstallJump(h) ==
  /\ installed[h]
  /\ ctl.op = "idle" /\ site[h] # NoSite
  /\ ctl' = [op |-> "uninstall", hook |-> h, todo |-> 1..JmpSize]
  /\ quiet' = {}
  /\ UNCHANGED <<code, site, saved, installed, call, lastWriter, cut, exposed>>

BeginUninstall(h) == installed[h] /\ Begin("uninstall", h)

Writing == ctl.op \in {"install", "uninstall"}
Target == site[ctl.hook]
\* A head that is being written, or was written only in part.
Unsettled(s) == s \in cut \/ (Writing /\ Target = s)
InHead(c, s) == call[c].at = "head" /\ call[c].where = s

\* The kernel copies the bytes; a thread may be between two of the
\* instructions they replace.
WriteByte(i) ==
  /\ Writing /\ i \in ctl.todo
  /\ code' = [code EXCEPT ![Target][i] =
                IF ctl.op = "install" THEN Patch(ctl.hook)[i] ELSE saved[ctl.hook][i]]
  /\ ctl' = [ctl EXCEPT !.todo = @ \ {i}]
  /\ exposed' = exposed \cup {c \in Calls : InHead(c, Target)}
  /\ UNCHANGED <<site, saved, installed, call, lastWriter, cut, quiet>>

\* install() returns; uninstall() goes on to wait.
EndWrite ==
  /\ Writing /\ ctl.todo = {}
  /\ IF ctl.op = "install"
       THEN installed' = [installed EXCEPT ![ctl.hook] = TRUE] /\ ctl' = Idle
       ELSE ctl' = [ctl EXCEPT !.op = "drain"] /\ UNCHANGED installed
  /\ lastWriter' = [lastWriter EXCEPT ![Target] = ctl.hook]
  /\ cut' = cut \ {Target}
  /\ UNCHANGED <<code, site, saved, call, quiet, exposed>>

\* Nothing has been written, or what lies on the first page.
WrittenInPart == ctl.todo \in {Positions, Positions \ (1..PageEnd)} /\ ctl.todo # {}

\* Faulty variant of WriteThrows: the number of bytes written is not checked.
WriteUnchecked ==
  /\ Writing /\ WrittenInPart
  /\ IF ctl.op = "install"
       THEN installed' = [installed EXCEPT ![ctl.hook] = TRUE] /\ ctl' = Idle
       ELSE ctl' = [ctl EXCEPT !.op = "drain"] /\ UNCHANGED installed
  /\ UNCHANGED <<code, site, saved, call, history>>

\* The file cannot be opened or positioned, or the write is short.
WriteThrows ==
  /\ Writing /\ WrittenInPart
  /\ ctl' = Idle
  /\ cut' = IF ctl.todo = Positions THEN cut ELSE cut \cup {Target}
  /\ UNCHANGED <<code, site, saved, installed, call, lastWriter, quiet, exposed>>

Ran(c) == {call[c].ran[i] : i \in 1..Len(call[c].ran)}

\* A call is counted while the detour, and all that it calls, runs.
Drain ==
  /\ ctl.op = "drain"
  /\ \A c \in Calls : ctl.hook \notin Ran(c)
  /\ installed' = [installed EXCEPT ![ctl.hook] = FALSE]
  /\ ctl' = Idle
  /\ UNCHANGED <<code, site, saved, call, history>>

-----------------------------------------------------------------------------
(* A call, instruction by instruction.                                     *)

Go(c, at, where, pos) ==
  call' = [call EXCEPT ![c].at = at, ![c].where = where, ![c].pos = pos]

Arrive(c) ==
  /\ call[c].at = "caller"
  /\ Go(c, "head", Func, 1)
  /\ quiet' = IF ctl.op = "idle" THEN quiet \cup {c} ELSE quiet
  /\ exposed' = IF Unsettled(Func) THEN exposed \cup {c} ELSE exposed
  /\ UNCHANGED <<code, site, saved, installed, ctl, lastWriter, cut>>

\* Behind the instructions under a patch: the body of the function, or the
\* detour to which the trampoline of a hook jumps.
GoOn(c, s) == IF s = Func THEN Go(c, "body", NoSite, 1) ELSE Go(c, "detour", s, 1)

\* The instruction that was there is executed.
RunOriginal(c) ==
  LET s == call[c].where  i == call[c].pos
      later == {k \in Starts(s) : k > i} IN
  /\ call[c].at = "head"
  /\ RunsOriginal(s, i)
  /\ IF later = {} THEN GoOn(c, s)
     ELSE \E k \in later : (\A n \in later : k <= n) /\ Go(c, "head", s, k)
  /\ UNCHANGED <<code, site, saved, installed, ctl, history>>

\* Faulty variant of Jump: the patch leads to the detour, not to the trampoline.
JumpToDetour(c) ==
  /\ call[c].at = "head" /\ call[c].pos = 1
  /\ \E h \in Hooks : JumpsTo(call[c].where, h) /\ GoOn(c, h)
  /\ UNCHANGED <<code, site, saved, installed, ctl, history>>

\* The jump of a hook is executed.
Jump(c) ==
  /\ call[c].at = "head" /\ call[c].pos = 1
  /\ \E h \in Hooks :
       /\ JumpsTo(call[c].where, h)
       /\ Go(c, "head", h, 1)
       /\ exposed' = IF Unsettled(h) THEN exposed \cup {c} ELSE exposed
  /\ UNCHANGED <<code, site, saved, installed, ctl, lastWriter, cut, quiet>>

\* What is executed is neither: bytes of both, or the middle of a jump.
RunMixture(c) ==
  LET s == call[c].where IN
  /\ call[c].at = "head"
  /\ ~RunsOriginal(s, call[c].pos)
  /\ call[c].pos > 1 \/ \A h \in Hooks : ~JumpsTo(s, h)
  /\ Go(c, "crashed", s, call[c].pos)
  /\ UNCHANGED <<code, site, saved, installed, ctl, history>>

(***************************************************************************)
(* The detour runs and calls its original: the copy of what the hook found *)
(* under its patch, which nobody overwrites, and what lies behind that.    *)
(***************************************************************************)
Detour(c) ==
  LET h == call[c].where IN
  /\ call[c].at = "detour"
  /\ call' = [call EXCEPT ![c].ran = Append(@, h),
                          ![c].at = IF site[h] = Func THEN "body" ELSE "detour",
                          ![c].where = IF site[h] = Func THEN NoSite ELSE site[h]]
  /\ UNCHANGED <<code, site, saved, installed, ctl, history>>

\* The function returns, and so do the detours around it.
Return(c) ==
  /\ call[c].at = "body"
  /\ call' = [call EXCEPT ![c] = Nowhere]
  /\ quiet' = quiet \ {c} /\ exposed' = exposed \ {c}
  /\ UNCHANGED <<code, site, saved, installed, ctl, lastWriter, cut>>

-----------------------------------------------------------------------------
Next ==
  \/ \E h \in Hooks : Build(h) \/ BeginInstall(h) \/ BeginUninstall(h)
  \/ \E i \in Positions : WriteByte(i)
  \/ EndWrite \/ WriteThrows \/ Drain
  \/ \E c \in Calls : \/ Arrive(c) \/ RunOriginal(c) \/ Jump(c) \/ RunMixture(c)
                      \/ Detour(c) \/ Return(c)

Spec == Init /\ [][Next]_vars

-----------------------------------------------------------------------------
Bytes == {"original", "jmp", "nop"} \cup Hooks

(***************************************************************************)
(* Types, and what every hook has saved: never a patch of another hook.    *)
(***************************************************************************)
TypeOK ==
  /\ code \in [Sites -> [Positions -> Bytes]]
  /\ site \in [Hooks -> Sites \cup {NoSite}]
  /\ saved = [h \in Hooks |-> Original]
  /\ installed \in [Hooks -> BOOLEAN]
  /\ ctl \in [op : {"idle", "install", "uninstall", "drain"},
              hook : Hooks \cup {NoSite}, todo : SUBSET Positions]
  /\ call \in [Calls -> [at : {"caller", "head", "body", "detour", "crashed"},
                         where : Sites \cup {NoSite}, pos : Positions, ran : Seq(Hooks)]]
  /\ lastWriter \in [Sites -> Hooks \cup {NoSite}]
  /\ cut \subseteq Sites /\ quiet \subseteq Calls /\ exposed \subseteq Calls

OthersOf(h) == {g \in Hooks \ {h} : site[g] = site[h]}

(***************************************************************************)
(* Between two operations the bytes under a patch are the original ones,   *)
(* or the whole patch of a hook that is installed: when all hooks of a     *)
(* function are uninstalled, in whatever order, the function is as it was. *)
(* Only a write that broke off half way leaves anything else.              *)
(***************************************************************************)
PatchedByInstalled ==
  ctl.op = "idle" =>
    \A s \in Sites \ cut :
      \/ code[s] = Original
      \/ \E h \in Hooks : installed[h] /\ site[h] = s /\ code[s] = Patch(h)

(***************************************************************************)
(* The patch of an installed hook is in place, unless another hook of the  *)
(* same function or trampoline was installed or uninstalled after it.      *)
(***************************************************************************)
LostOnlyToSibling ==
  ctl.op = "idle" =>
    \A h \in Hooks :
      \/ ~installed[h]
      \/ code[site[h]] = Patch(h)
      \/ site[h] \in cut
      \/ lastWriter[site[h]] \in OthersOf(h)

(***************************************************************************)
(* A mixture of original and patch is executed only by a call that was in  *)
(* a head while that head was written, or had been left by a write which   *)
(* broke off: whoever arrives after install() or uninstall() has returned, *)
(* or has left the head before it begins, is safe.                         *)
(***************************************************************************)
MixtureOnlyDuringWrite ==
  \A c \in Calls : call[c].at = "crashed" => c \in exposed

\* An installed hook that nobody has written over since.
Effective(h) == installed[h] /\ lastWriter[site[h]] = h

(***************************************************************************)
(* A call during which nobody installs or uninstalls runs the detours of   *)
(* the effective hooks on its way, each of them once: a hook that was      *)
(* built on the trampoline of another runs just before that other one, and *)
(* the body of the function comes last.                                    *)
(***************************************************************************)
DetoursRunAsInstalled ==
  \A c \in quiet :
    call[c].at = "body" /\ cut = {} =>
      LET ran == call[c].ran IN
      /\ \A i, j \in 1..Len(ran) : ran[i] = ran[j] => i = j
      /\ \A h \in Hooks :
           h \in Ran(c) <=> site[h] # NoSite /\ Effective(h) /\ site[h] \in Ran(c) \cup {Func}
      /\ \A i \in 1..Len(ran) :
           site[ran[i]] = IF i < Len(ran) THEN ran[i + 1] ELSE Func
=============================================================================
