----------------------------- MODULE InnerBuild -----------------------------
(***************************************************************************)
(* The constructor of HookInst::Inner (src/hook_inst_inner.cpp): the       *)
(* target is resolved through a jump table, the instructions under the     *)
(* coming patch are measured, relocated (src/relocation.cpp) and written   *)
(* into a code page, with a jump back behind them and the trampoline to    *)
(* the detour.                                                             *)
(*                                                                         *)
(* An instruction is what the code asks Zydis for: its length, whether it  *)
(* refers to an address relative to its own end, and with how many bits.   *)
(* Heads with an address-size prefix (operands relative to EIP) are left   *)
(* out, and so are the assertions on the arguments and exhausted memory.   *)
(* What happens to the page when the constructor throws is in              *)
(* HookRetarget, the search for the page in PageAlloc.                     *)
(***************************************************************************)
EXTENDS Integers, Sequences

CONSTANTS
  Memories,     \* what the code around the targets may be
  Pointers,     \* the function pointers a hook may be given
  Null,         \* nullptr
  Pages,        \* the addresses alloc_page_near may find
  PageSize,
  RelJmpSize,   \* Encoder::REL_JMP_SIZE
  PureJmpSize,  \* the bytes of encode_pure_jmp
  MaxLength,    \* MAX_INSTRUCTION_LENGTH
  Reach         \* 2^31: a displacement is in -Reach .. Reach - 1

\* A "jump" is the relative jump of opcode E9, a "branch" any other relative
\* branch or call, "memory" an operand relative to RIP.
Kinds == {"plain", "memory", "branch", "jump"}
Instructions == [len : 1..MaxLength, kind : Kinds, bits : {8, 16, 32}, disp : Int]

ASSUME BuildAssumption ==
  /\ PageSize \in Nat /\ RelJmpSize \in Nat \ {0} /\ PureJmpSize \in Nat
  /\ MaxLength \in Nat \ {0} /\ Reach \in Nat
  /\ Pointers \subseteq Int /\ Pages \subseteq Int /\ Null \in Int
  /\ \A m \in Memories : DOMAIN m \subseteq Int /\ \A a \in DOMAIN m : m[a] \in Instructions
  \* page_size() refuses pages below 256 bytes
  /\ RelJmpSize - 1 + MaxLength + 2 * PureJmpSize <= PageSize

VARIABLES
  mem,          \* the instruction that decoding finds at each address
  pc,           \* where the constructor is, or how it ended
  target,       \* target_func
  detour,       \* detour_func
  page,         \* code_page: its address
  used,         \* ... and its _write_offset
  patchLength,  \* patch_length, later the size of patched_original_bytes
  measured,     \* history: the offsets of the instructions that were measured
  offset,       \* offset in relocate_code
  results,      \* the relocated instructions, with the addresses they are
                \* from and to
  copy,         \* code_call_original
  back,         \* the jump behind the copy: its address and where it leads
  entry,        \* the trampoline, code_enter_detour
  original      \* *output_original_func

vars == <<mem, pc, target, detour, page, used, patchLength, measured, offset,
          results, copy, back, entry, original>>

NoJump == [at |-> Null, to |-> Null]

Init ==
  /\ mem \in Memories
  /\ target \in Pointers \cup {Null}
  /\ detour \in Pointers
  /\ pc = "resolve"
  /\ page = Null /\ used = 0 /\ patchLength = 0 /\ measured = {} /\ offset = 0
  /\ results = <<>>
  /\ copy = Null /\ back = NoJump /\ entry = NoJump /\ original = Null

-----------------------------------------------------------------------------
Throw(why) == pc' = why

\* resolve_func_ptr follows one relative jump.
Resolved(f) == IF f \in DOMAIN mem /\ mem[f].kind = "jump"
                 THEN f + RelJmpSize + mem[f].disp ELSE f

Resolve ==
  /\ pc = "resolve"
  /\ target' = Resolved(target) /\ detour' = Resolved(detour)
  /\ pc' = IF target' = Null THEN "built" ELSE "page"
  /\ UNCHANGED <<mem, page, used, patchLength, measured, offset, results, copy, back, entry, original>>

\* alloc_page_near finds a page, or gives up after its search.
AllocPage ==
  /\ pc = "page"
  /\ \/ page' \in Pages /\ pc' = "measure"
     \/ Throw("noPage") /\ UNCHANGED page
  /\ UNCHANGED <<mem, target, detour, used, patchLength, measured, offset, results,
                 copy, back, entry, original>>

\* Faulty variant of Measure: room for the long jump is made.
MeasurePureJmp ==
  /\ pc = "measure"
  /\ IF target + patchLength \notin DOMAIN mem
       THEN Throw("undecodable") /\ UNCHANGED <<patchLength, measured>>
       ELSE /\ measured' = measured \cup {patchLength}
            /\ patchLength' = patchLength + mem[target + patchLength].len
            /\ pc' = IF patchLength' < PureJmpSize THEN "measure" ELSE "relocate"
  /\ UNCHANGED <<mem, target, detour, page, used, offset, results, copy, back, entry, original>>

\* Whole instructions are counted until the jump fits over them.
Measure ==
  /\ pc = "measure"
  /\ IF target + patchLength \notin DOMAIN mem
       THEN Throw("undecodable") /\ UNCHANGED <<patchLength, measured>>
       ELSE /\ measured' = measured \cup {patchLength}
            /\ patchLength' = patchLength + mem[target + patchLength].len
            /\ pc' = IF patchLength' < RelJmpSize THEN "measure" ELSE "relocate"
  /\ UNCHANGED <<mem, target, detour, page, used, offset, results, copy, back, entry, original>>

-----------------------------------------------------------------------------
(* relocate_code, one instruction at a time.                               *)

Here == target + offset
There == page + used + offset

\* ZydisCalcAbsoluteAddress
Absolute(ins, at) == at + ins.len + ins.disp

\* Faulty variant of NewDisp: relative to the start of the instruction.
NewDispFromStart(ins) == Absolute(ins, Here) - There

NewDisp(ins) == Absolute(ins, Here) - (There + ins.len)

\* ensure_displacement_reloc_bounds<int32_t>
Fits(d) == d \in -Reach..(Reach - 1)

\* Faulty variant of Refused: the displacement is written without a check.
RefusedUnchecked(ins) == ins.kind \in {"branch", "jump"}

(***************************************************************************)
(* What relocation refuses.  The switch over the size of a relative        *)
(* immediate has no breaks: whatever the size, and whether the bounds of   *)
(* 32, 16 and 8 bits hold or not, it ends in an exception.                 *)
(***************************************************************************)
Refused(ins) == \/ ins.kind = "memory" /\ (ins.bits # 32 \/ ~Fits(NewDisp(ins)))
                \/ ins.kind \in {"branch", "jump"}

Relocate ==
  /\ pc = "relocate" /\ offset < patchLength
  /\ LET ins == mem[Here] IN
     IF Refused(ins)
       THEN Throw("refused") /\ UNCHANGED <<offset, results>>
       ELSE /\ results' = Append(results,
                 [from |-> Here, to |-> There, len |-> ins.len,
                  disp |-> IF ins.kind = "memory" THEN NewDisp(ins) ELSE ins.disp])
            /\ offset' = offset + ins.len
            /\ pc' = "relocate"
  /\ UNCHANGED <<mem, target, detour, page, used, patchLength, measured, copy, back, entry, original>>

-----------------------------------------------------------------------------
(* MemPage::write_bytes, which refuses what does not fit, three times.     *)

\* The bytes are written at next_write_ptr.
NextWritePtr == page + used
WriteBytes(num, next) ==
  IF used + num <= PageSize THEN used' = used + num /\ pc' = next
                            ELSE UNCHANGED used /\ Throw("pageBounds")

WriteCopy ==
  /\ pc = "relocate" /\ offset = patchLength
  /\ WriteBytes(patchLength, "jumpBack")
  /\ copy' = IF pc' = "jumpBack" THEN NextWritePtr ELSE copy
  /\ UNCHANGED <<mem, target, detour, page, patchLength, measured, offset, results, back, entry, original>>

\* Faulty variant of JumpBack: back to the bytes behind the jump.
JumpBackBehindJump ==
  /\ pc = "jumpBack"
  /\ WriteBytes(PureJmpSize, "trampoline")
  /\ back' = [at |-> NextWritePtr, to |-> target + RelJmpSize]
  /\ UNCHANGED <<mem, target, detour, page, patchLength, measured, offset, results, copy, entry, original>>

JumpBack ==
  /\ pc = "jumpBack"
  /\ WriteBytes(PureJmpSize, "trampoline")
  /\ back' = IF pc' = "trampoline" THEN [at |-> NextWritePtr, to |-> target + patchLength] ELSE back
  /\ UNCHANGED <<mem, target, detour, page, patchLength, measured, offset, results, copy, entry, original>>

Trampoline ==
  /\ pc = "trampoline"
  /\ WriteBytes(PureJmpSize, "publish")
  /\ entry' = IF pc' = "publish" THEN [at |-> NextWritePtr, to |-> detour] ELSE entry
  /\ UNCHANGED <<mem, target, detour, page, patchLength, measured, offset, results, copy, back, original>>

\* The original pointer of the detour is assigned last.
Publish ==
  /\ pc = "publish"
  /\ original' = copy
  /\ pc' = "built"
  /\ UNCHANGED <<mem, target, detour, page, used, patchLength, measured, offset,
                 results, copy, back, entry>>

Next == \/ Resolve \/ AllocPage \/ Measure \/ Relocate
        \/ WriteCopy \/ JumpBack \/ Trampoline \/ Publish

Spec == Init /\ [][Next]_vars

-----------------------------------------------------------------------------
Thrown == {"noPage", "undecodable", "refused", "pageBounds"}

(* Types and ranges. *)
TypeOK ==
  /\ mem \in Memories
  /\ pc \in {"resolve", "page", "measure", "relocate", "jumpBack", "trampoline",
            "publish", "built"} \cup Thrown
  /\ target \in Int /\ detour \in Int /\ page \in Pages \cup {Null}
  /\ used \in 0..PageSize
  /\ patchLength \in 0..(RelJmpSize - 1 + MaxLength)
  /\ measured \subseteq 0..(RelJmpSize - 1) /\ offset \in 0..patchLength
  /\ results \in Seq([from : Int, to : Int, len : 1..MaxLength, disp : Int])
  /\ copy \in Int /\ original \in Int
  /\ back \in [at : Int, to : Int] /\ entry \in [at : Int, to : Int]

(***************************************************************************)
(* An instruction of the copy does what the instruction it was made from   *)
(* does, though it runs at another address: it is no branch, and an        *)
(* operand relative to RIP refers to the same data, with a displacement    *)
(* that fits.                                                              *)
(***************************************************************************)
CopyMeansTheSame ==
  \A i \in 1..Len(results) :
    LET r == results[i]  ins == mem[r.from] IN
    /\ r.from \in DOMAIN mem /\ r.len = ins.len
    /\ ins.kind \in {"plain", "memory"}
    /\ ins.kind = "memory" => /\ r.to + r.len + r.disp = r.from + ins.len + ins.disp
                              /\ Fits(r.disp)
    /\ ins.kind = "plain" => r.disp = ins.disp

(***************************************************************************)
(* What the original pointer of a built hook leads to is the function that *)
(* was hooked: the copies lie at the pointer, one behind the other, as the *)
(* instructions do in the head from the target on, and behind the last one *)
(* is the jump to the instruction after them, which no patch overwrites.   *)
(* The trampoline follows without touching it and leads to the detour.     *)
(***************************************************************************)
CopyIsWhole ==
  pc = "built" /\ target # Null =>
    LET n == Len(results) IN
    /\ n > 0
    /\ results[1].from = target /\ results[1].to = original
    /\ \A i \in 1..(n - 1) :
         /\ results[i].from + results[i].len = results[i + 1].from
         /\ results[i].to + results[i].len = results[i + 1].to
    /\ results[n].from + results[n].len = back.to
    /\ results[n].to + results[n].len = back.at
    /\ back.to >= target + RelJmpSize
    /\ entry = [at |-> back.at + PureJmpSize, to |-> detour]
    /\ entry.at + PureJmpSize <= page + PageSize

\* The reference: the offsets at which the first instructions of the head
\* start, of those that a jump overwrites.  They are the least set that has
\* the first instruction and with each one the next.
Overwritten == 0..(RelJmpSize - 1)
FollowsOn(S) ==
  /\ 0 \in S
  /\ \A o \in S : target + o \in DOMAIN mem /\ o + mem[target + o].len \in Overwritten =>
                    o + mem[target + o].len \in S
Starts == {o \in Overwritten : \A S \in SUBSET Overwritten : FollowsOn(S) => o \in S}

\* A branch, or an operand that the page at hand cannot reach.
Unmovable(o) ==
  LET ins == mem[target + o] IN
  \/ ins.kind \in {"branch", "jump"}
  \/ ins.kind = "memory" /\ (ins.bits # 32 \/ ~Fits(ins.disp + target - page))

(***************************************************************************)
(* Which heads a hook is built for: those whose instructions under the     *)
(* patch can all be decoded and moved.  Once the search has found a page   *)
(* (it may fail for any head, before an instruction is looked at) the      *)
(* constructor throws for an instruction that cannot, and for nothing      *)
(* else; the page never runs out.                                          *)
(***************************************************************************)
ThrowsForCause ==
  /\ pc # "pageBounds"
  /\ pc = "noPage" => page = Null /\ measured = {}
  /\ pc = "undecodable" => \E o \in Starts : target + o \notin DOMAIN mem
  /\ pc = "refused" => \E o \in Starts : target + o \in DOMAIN mem /\ Unmovable(o)
  /\ pc = "built" /\ target # Null =>
       \A o \in Starts : target + o \in DOMAIN mem /\ ~Unmovable(o)

(***************************************************************************)
(* README.md:57, "Automatic RIP-relative instruction relocations for       *)
(* cloned function heads": a head is refused only if what it refers to     *)
(* cannot be reached from the page with the bits an instruction has.       *)
(***************************************************************************)
FitsIn(d, bits) == CASE bits = 32 -> Fits(d)
                     [] bits = 16 -> d \in -(2^15)..(2^15 - 1)
                     [] bits = 8 -> d \in -(2^7)..(2^7 - 1)
RefusedOnlyOutOfReach ==
  pc = "refused" =>
    \E o \in Starts :
      LET ins == mem[target + o] IN
      /\ target + o \in DOMAIN mem /\ ins.kind # "plain"
      /\ ~FitsIn(ins.disp + target - page, ins.bits)
=============================================================================
