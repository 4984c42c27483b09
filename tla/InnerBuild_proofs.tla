------------------------- MODULE InnerBuild_proofs --------------------------
(***************************************************************************)
(* Proofs about the construction of a hook's code, for any code around the *)
(* target, any page and any sizes.                                         *)
(***************************************************************************)
EXTENDS InnerBuild, SequenceTheorems, TLAPS

(***************************************************************************)
(* The measured instructions lie one behind the other and end at           *)
(* patchLength; relocation is at the start of one of them or at the end.   *)
(***************************************************************************)
MeasuredOK ==
  /\ \A o \in measured :
       /\ target + o \in DOMAIN mem /\ o < patchLength
       /\ o + mem[target + o].len \in measured \cup {patchLength}
  /\ offset \in measured \cup {patchLength}

\* The copies made so far are those of the head up to offset.
ResultsOK ==
  LET n == Len(results) IN
  /\ n = 0 => offset = 0
  /\ n > 0 => /\ results[1].from = target /\ results[1].to = page
              /\ results[n].from + results[n].len = target + offset
              /\ results[n].to + results[n].len = page + offset
  /\ \A i \in 1..(n - 1) :
       /\ results[i].from + results[i].len = results[i + 1].from
       /\ results[i].to + results[i].len = results[i + 1].to

BackJump == [at |-> page + patchLength, to |-> target + patchLength]
Entrance == [at |-> page + patchLength + PureJmpSize, to |-> detour]

\* How much of the page is written, and what was put where.
PageOK ==
  /\ pc # "pageBounds"
  /\ pc \in {"resolve", "page"} => patchLength = 0
  /\ pc \in {"resolve", "page", "measure"} =>
       offset = 0 /\ results = <<>> /\ used = 0 /\ patchLength < RelJmpSize
  /\ pc = "relocate" => used = 0 /\ patchLength >= RelJmpSize
  /\ pc \notin {"resolve", "page"} \cup Thrown /\ (pc = "built" => target # Null) => page \in Int
  /\ pc \in {"jumpBack", "trampoline", "publish"} \/ (pc = "built" /\ target # Null) =>
       offset = patchLength /\ patchLength >= RelJmpSize /\ copy = page
  /\ pc = "jumpBack" => used = patchLength
  /\ pc = "trampoline" => used = patchLength + PureJmpSize /\ back = BackJump
  /\ pc = "publish" \/ (pc = "built" /\ target # Null) => back = BackJump /\ entry = Entrance
  /\ pc = "built" /\ target # Null => original = copy

BuildInv == TypeOK /\ MeasuredOK /\ ResultsOK /\ PageOK /\ CopyMeansTheSame

-----------------------------------------------------------------------------
\* An instruction that was decoded is an instruction.
LEMMA DecodedType ==
  ASSUME TypeOK, NEW a \in DOMAIN mem
  PROVE  /\ a \in Int /\ mem[a] \in Instructions
         /\ mem[a].len \in 1..MaxLength /\ mem[a].disp \in Int /\ mem[a].kind \in Kinds
BY BuildAssumption DEF TypeOK, Instructions

\* Offsets of instructions are numbers.
LEMMA MeasuredInNat ==
  ASSUME TypeOK
  PROVE  \A o \in measured : o \in Nat
<1>1. RelJmpSize - 1 \in Nat /\ measured \subseteq 0..(RelJmpSize - 1)
  BY BuildAssumption DEF TypeOK
<1>2. QED  BY <1>1

LEMMA InitInv == Init => BuildInv
<1> SUFFICES ASSUME Init PROVE BuildInv
  OBVIOUS
<1> USE DEF Init
<1>1. target \in Int /\ detour \in Int
  BY BuildAssumption
<1>2. TypeOK
  BY <1>1, BuildAssumption DEF TypeOK, NoJump
<1>3. MeasuredOK /\ ResultsOK /\ PageOK /\ CopyMeansTheSame
  BY BuildAssumption DEF MeasuredOK, ResultsOK, PageOK, CopyMeansTheSame, Thrown
<1>4. QED  BY <1>2, <1>3 DEF BuildInv

LEMMA ResolveInv == BuildInv /\ Resolve => BuildInv'
<1> SUFFICES ASSUME BuildInv, Resolve PROVE BuildInv'
  OBVIOUS
<1> USE DEF BuildInv, Resolve
<1>1. \A f \in Int : Resolved(f) \in Int
  BY DecodedType, BuildAssumption DEF Resolved
<1>2. target' \in Int /\ detour' \in Int
  BY <1>1 DEF TypeOK
<1>3. TypeOK'
  BY <1>2 DEF TypeOK
<1>4. patchLength = 0 /\ offset = 0 /\ results = <<>> /\ used = 0 /\ measured = {}
  BY DEF PageOK, MeasuredOK, TypeOK
<1>5. MeasuredOK' /\ ResultsOK' /\ CopyMeansTheSame'
  BY <1>4 DEF MeasuredOK, ResultsOK, CopyMeansTheSame
<1>6. PageOK'
  BY <1>4, BuildAssumption DEF PageOK, Thrown
<1>7. QED  BY <1>3, <1>5, <1>6

LEMMA AllocPageInv == BuildInv /\ AllocPage => BuildInv'
<1> SUFFICES ASSUME BuildInv, AllocPage PROVE BuildInv'
  OBVIOUS
<1> USE DEF BuildInv, AllocPage
<1>1. TypeOK'
  BY DEF TypeOK, Throw, Thrown
<1>2. patchLength = 0 /\ offset = 0 /\ results = <<>> /\ used = 0
  BY DEF PageOK
<1>3. MeasuredOK' /\ CopyMeansTheSame'
  BY DEF MeasuredOK, CopyMeansTheSame, Fits
<1>4. ResultsOK'
  BY <1>2 DEF ResultsOK
<1>5. PageOK'
  BY <1>2, BuildAssumption DEF PageOK, Throw, Thrown
<1>6. QED  BY <1>1, <1>3, <1>4, <1>5

LEMMA MeasureInv == BuildInv /\ Measure => BuildInv'
<1> SUFFICES ASSUME BuildInv, Measure PROVE BuildInv'
  OBVIOUS
<1> USE DEF BuildInv, Measure, Throw
<1>1. /\ patchLength \in Nat /\ patchLength < RelJmpSize /\ RelJmpSize \in Nat
      /\ offset = 0 /\ results = <<>> /\ used = 0 /\ page \in Int /\ target \in Int
  BY BuildAssumption DEF PageOK, TypeOK, Thrown
<1>2. CopyMeansTheSame' /\ ResultsOK'
  BY <1>1 DEF CopyMeansTheSame, ResultsOK
<1>3. CASE target + patchLength \notin DOMAIN mem
  BY <1>1, <1>2, <1>3 DEF TypeOK, Thrown, MeasuredOK, PageOK
<1>4. CASE target + patchLength \in DOMAIN mem
  <2> DEFINE len == mem[target + patchLength].len
  <2>1. len \in 1..MaxLength /\ MaxLength \in Nat
    BY <1>4, DecodedType, BuildAssumption
  <2>2. patchLength' = patchLength + len /\ measured' = measured \cup {patchLength}
    BY <1>4
  <2>3. /\ patchLength' \in 0..(RelJmpSize - 1 + MaxLength) /\ patchLength' > patchLength
    BY <1>1, <2>1, <2>2
  <2>9. measured' \subseteq 0..(RelJmpSize - 1)
    BY <1>1, <2>2 DEF TypeOK
  <2>10. offset' \in 0..patchLength'
    BY <1>1, <2>3
  <2>4. pc' \in {"measure", "relocate"} /\ (pc' = "measure" <=> patchLength' < RelJmpSize)
    BY <1>4
  <2>5. TypeOK'
    BY <2>3, <2>4, <2>9, <2>10 DEF TypeOK
  <2>6. MeasuredOK'
    <3> HIDE DEF len
    <3>1. \A o \in measured : o \in Nat /\ o < patchLength'
      <4>1. \A o \in measured : o \in Nat /\ o < patchLength
        BY MeasuredInNat DEF MeasuredOK
      <4>2. patchLength' \in Nat
        BY <1>1, <2>1, <2>2 DEF len
      <4>3. QED  BY <1>1, <2>3, <4>1, <4>2
    <3>2. \A o \in measured : /\ target + o \in DOMAIN mem
                              /\ o + mem[target + o].len \in measured'
      BY <2>2 DEF MeasuredOK
    <3>3. /\ patchLength < patchLength' /\ target + patchLength \in DOMAIN mem
          /\ patchLength + mem[target + patchLength].len = patchLength'
      BY <1>4, <2>2, <2>3 DEF len
    <3>4. \A o \in measured' :
            /\ target + o \in DOMAIN mem /\ o < patchLength'
            /\ o + mem[target + o].len \in measured' \cup {patchLength'}
      BY <2>2, <3>1, <3>2, <3>3
    <3>5. offset' \in measured' \cup {patchLength'}
      BY <2>2 DEF MeasuredOK
    <3>6. target' = target /\ mem' = mem
      OBVIOUS
    <3>7. QED  BY <3>4, <3>5, <3>6 DEF MeasuredOK
  <2>7. PageOK'
    BY <1>1, <2>3, <2>4 DEF PageOK, Thrown
  <2>8. QED  BY <1>2, <2>5, <2>6, <2>7
<1>5. QED  BY <1>3, <1>4

-----------------------------------------------------------------------------
LEMMA RelocateInv == BuildInv /\ Relocate => BuildInv'
<1> SUFFICES ASSUME BuildInv, Relocate PROVE BuildInv'
  OBVIOUS
<1> USE DEF BuildInv, Relocate, Throw
<1> DEFINE ins == mem[Here]
           new == [from |-> Here, to |-> There, len |-> ins.len,
                   disp |-> IF ins.kind = "memory" THEN NewDisp(ins) ELSE ins.disp]
<1>1. /\ used = 0 /\ patchLength >= RelJmpSize /\ page \in Int /\ target \in Int
      /\ patchLength \in Nat /\ RelJmpSize \in Nat /\ offset \in Nat
      /\ pc = "relocate" /\ offset < patchLength
  BY BuildAssumption DEF PageOK, TypeOK, Thrown
<1>2. offset \in measured
  BY <1>1 DEF MeasuredOK
<1>3. Here \in DOMAIN mem /\ offset + ins.len \in measured \cup {patchLength}
  BY <1>2 DEF MeasuredOK, Here
<1>4. Here \in Int /\ ins.len \in 1..MaxLength /\ ins.disp \in Int /\ ins.kind \in Kinds
  BY <1>3, DecodedType
<1>5. There = page + offset /\ There \in Int /\ Here = target + offset /\ MaxLength \in Nat
  BY <1>1, BuildAssumption DEF There, Here
<1>6. CASE Refused(ins)
  <2>1. pc' = "refused" /\ UNCHANGED <<offset, results>>
    BY <1>6
  <2>2. TypeOK'
    BY <2>1 DEF TypeOK, Thrown
  <2>3. MeasuredOK' /\ ResultsOK' /\ CopyMeansTheSame'
    BY <2>1 DEF MeasuredOK, ResultsOK, CopyMeansTheSame, Fits
  <2>4. PageOK'
    BY <2>1 DEF PageOK, Thrown
  <2>5. QED  BY <2>2, <2>3, <2>4
<1>7. CASE ~Refused(ins)
  <2>1. results' = Append(results, new) /\ offset' = offset + ins.len /\ pc' = "relocate"
    BY <1>7
  <2>2. NewDisp(ins) \in Int /\ There + ins.len + NewDisp(ins) = Here + ins.len + ins.disp
    BY <1>4, <1>5 DEF NewDisp, Absolute
  <2>3. /\ ins.kind \in {"plain", "memory"}
        /\ ins.kind = "memory" => Fits(NewDisp(ins))
    BY <1>4, <1>7 DEF Refused, Kinds
  <2> DEFINE Entries == [from : Int, to : Int, len : 1..MaxLength, disp : Int]
  <2>4. new \in Entries
    BY <1>4, <1>5, <2>2
  <2>5. /\ new.from = Here /\ new.to = There /\ new.len = ins.len
        /\ ins.kind = "memory" => new.disp = NewDisp(ins)
        /\ ins.kind = "plain" => new.disp = ins.disp
    OBVIOUS
  <2> HIDE DEF new, ins
  <2>6. results \in Seq(Entries) /\ results' \in Seq(Entries)
    BY <2>1, <2>4 DEF TypeOK
  <2>7. /\ Len(results') = Len(results) + 1 /\ Len(results) \in Nat
        /\ results'[Len(results')] = new
        /\ \A i \in 1..Len(results) : results'[i] = results[i]
    BY <2>1, <2>4, <2>6
  <2>8. offset' \in measured \cup {patchLength} /\ offset' \in 0..patchLength'
    <3>1. offset' \in Nat /\ offset' \in measured \cup {patchLength}
      BY <1>1, <1>3, <1>4, <1>5, <2>1
    <3>2. offset' <= patchLength
      BY <1>1, <3>1, MeasuredInNat DEF MeasuredOK
    <3>3. QED  BY <1>1, <3>1, <3>2
  <2>9. TypeOK'
    BY <2>1, <2>6, <2>8 DEF TypeOK
  <2>10. MeasuredOK'
    BY <2>8 DEF MeasuredOK
  <2>11. ResultsOK'
    <3>1. \A i \in 1..Len(results) : results[i] \in Entries
      BY <2>6, ElementOfSeq
    <3>2. new.from + new.len = target + offset' /\ new.to + new.len = page + offset'
      BY <1>1, <1>4, <1>5, <2>1, <2>5
    <3>3. Len(results) = 0 => new.from = target /\ new.to = page
      BY <1>1, <1>5, <2>5 DEF ResultsOK
    <3>4. Len(results) > 0 =>
            /\ results[Len(results)].from + results[Len(results)].len = new.from
            /\ results[Len(results)].to + results[Len(results)].len = new.to
      BY <1>5, <2>5 DEF ResultsOK
    <3>5. Len(results') > 0 /\ results'[1].from = target /\ results'[1].to = page
      BY <2>7, <3>3 DEF ResultsOK
    <3>6. \A i \in 1..(Len(results') - 1) :
            /\ results'[i].from + results'[i].len = results'[i + 1].from
            /\ results'[i].to + results'[i].len = results'[i + 1].to
      <4> SUFFICES ASSUME NEW i \in 1..(Len(results') - 1)
                   PROVE  /\ results'[i].from + results'[i].len = results'[i + 1].from
                          /\ results'[i].to + results'[i].len = results'[i + 1].to
        OBVIOUS
      <4>1. i \in 1..Len(results) /\ results'[i] = results[i]
        BY <2>7
      <4>2. CASE i = Len(results)
        BY <2>7, <3>4, <4>1, <4>2
      <4>3. CASE i < Len(results)
        <5>1. i \in 1..(Len(results) - 1) /\ results'[i + 1] = results[i + 1]
          BY <2>7, <4>1, <4>3
        <5>2. QED  BY <4>1, <5>1 DEF ResultsOK
      <4>4. QED  BY <2>7, <4>1, <4>2, <4>3
    <3>7. target' = target /\ page' = page
      OBVIOUS
    <3>8. QED  BY <2>7, <3>2, <3>5, <3>6, <3>7 DEF ResultsOK
  <2>12. CopyMeansTheSame'
    <3>1. /\ new.from \in DOMAIN mem /\ mem[new.from] = ins /\ new.len = ins.len
          /\ ins.kind = "memory" => /\ new.to + new.len + new.disp = new.from + ins.len + ins.disp
                                    /\ Fits(new.disp)
      BY <1>3, <2>2, <2>3, <2>5 DEF ins
    <3>2. mem' = mem
      OBVIOUS
    <3>3. ASSUME NEW i \in 1..Len(results'), i # Len(results')
          PROVE  i \in 1..Len(results) /\ results'[i] = results[i]
      BY <2>7, <3>3
    <3>4. QED
      BY <2>3, <2>5, <2>7, <3>1, <3>2, <3>3 DEF CopyMeansTheSame, Fits
  <2>13. PageOK'
    BY <1>1, <2>1 DEF PageOK, Thrown
  <2>14. QED  BY <2>9, <2>10, <2>11, <2>12, <2>13
<1>8. QED  BY <1>6, <1>7

-----------------------------------------------------------------------------
(* The three pieces of code fit into the page and lie as they should.      *)

\* What the steps that write leave alone.
LEMMA KeepsHead ==
  ASSUME BuildInv,
         UNCHANGED <<mem, target, detour, page, patchLength, measured, offset, results>>
  PROVE  MeasuredOK' /\ ResultsOK' /\ CopyMeansTheSame'
BY DEF BuildInv, MeasuredOK, ResultsOK, CopyMeansTheSame, Fits

\* Sizes, for the arithmetic of the page.
LEMMA Sizes ==
  ASSUME TypeOK
  PROVE  /\ patchLength \in Nat /\ PureJmpSize \in Nat /\ PageSize \in Nat
         /\ patchLength + PureJmpSize + PureJmpSize <= PageSize
         /\ target \in Int /\ detour \in Int
BY BuildAssumption DEF TypeOK

LEMMA WriteCopyInv == BuildInv /\ WriteCopy => BuildInv'
<1> SUFFICES ASSUME BuildInv, WriteCopy PROVE BuildInv'
  OBVIOUS
<1> USE DEF BuildInv, WriteCopy, WriteBytes
<1>1. used = 0 /\ page \in Int /\ patchLength >= RelJmpSize
  BY DEF PageOK, Thrown
<1>2. used' = patchLength /\ pc' = "jumpBack" /\ copy' = page
  BY <1>1, Sizes DEF NextWritePtr
<1>3. TypeOK'
  BY <1>1, <1>2, Sizes DEF TypeOK
<1>4. PageOK'
  BY <1>1, <1>2 DEF PageOK, Thrown
<1>5. QED  BY <1>3, <1>4, KeepsHead

LEMMA JumpBackInv == BuildInv /\ JumpBack => BuildInv'
<1> SUFFICES ASSUME BuildInv, JumpBack PROVE BuildInv'
  OBVIOUS
<1> USE DEF BuildInv, JumpBack, WriteBytes
<1>1. used = patchLength /\ page \in Int /\ patchLength >= RelJmpSize
  BY DEF PageOK, Thrown
<1>2. used' = patchLength + PureJmpSize /\ pc' = "trampoline" /\ back' = BackJump
  BY <1>1, Sizes DEF NextWritePtr, BackJump
<1>3. TypeOK'
  <2>1. used' \in 0..PageSize /\ BackJump \in [at : Int, to : Int]
    BY <1>1, <1>2, Sizes DEF BackJump
  <2>2. QED  BY <1>2, <2>1 DEF TypeOK
<1>4. PageOK'
  BY <1>1, <1>2 DEF PageOK, Thrown, BackJump
<1>5. QED  BY <1>3, <1>4, KeepsHead

LEMMA TrampolineInv == BuildInv /\ Trampoline => BuildInv'
<1> SUFFICES ASSUME BuildInv, Trampoline PROVE BuildInv'
  OBVIOUS
<1> USE DEF BuildInv, Trampoline, WriteBytes
<1>1. used = patchLength + PureJmpSize /\ page \in Int /\ patchLength >= RelJmpSize
  BY DEF PageOK, Thrown
<1>2. used' = used + PureJmpSize /\ used' <= PageSize /\ pc' = "publish" /\ entry' = Entrance
  BY <1>1, Sizes DEF NextWritePtr, Entrance
<1>3. TypeOK'
  <2>1. used' \in 0..PageSize /\ Entrance \in [at : Int, to : Int]
    BY <1>1, <1>2, Sizes DEF Entrance
  <2>2. QED  BY <1>2, <2>1 DEF TypeOK
<1>4. PageOK'
  BY <1>1, <1>2 DEF PageOK, Thrown, BackJump, Entrance
<1>5. QED  BY <1>3, <1>4, KeepsHead

LEMMA PublishInv == BuildInv /\ Publish => BuildInv'
<1> SUFFICES ASSUME BuildInv, Publish PROVE BuildInv'
  OBVIOUS
<1> USE DEF BuildInv, Publish
<1>1. TypeOK'
  BY DEF TypeOK
<1>2. PageOK'
  BY DEF PageOK, Thrown, BackJump, Entrance
<1>3. QED  BY <1>1, <1>2, KeepsHead

\* The inductive invariant of a construction.
THEOREM BuildInvariant == Spec => []BuildInv
<1>1. BuildInv /\ UNCHANGED vars => BuildInv'
  <2> SUFFICES ASSUME BuildInv, UNCHANGED vars PROVE BuildInv'
    OBVIOUS
  <2>1. TypeOK' /\ PageOK'
    BY DEF vars, BuildInv, TypeOK, PageOK, Thrown, BackJump, Entrance
  <2>2. QED  BY <2>1, KeepsHead DEF vars, BuildInv
<1>2. BuildInv /\ [Next]_vars => BuildInv'
  BY <1>1, ResolveInv, AllocPageInv, MeasureInv, RelocateInv, WriteCopyInv,
     JumpBackInv, TrampolineInv, PublishInv DEF Next
<1>3. QED  BY InitInv, <1>2, PTL DEF Spec

-----------------------------------------------------------------------------
\* Types and ranges: among them that no more than a page is written.
THEOREM BuildTypeCorrect == Spec => []TypeOK
<1>1. BuildInv => TypeOK
  BY DEF BuildInv
<1>2. QED  BY <1>1, BuildInvariant, PTL

\* Each relocated instruction refers to what the original one refers to.
THEOREM RelocationCorrect == Spec => []CopyMeansTheSame
<1>1. BuildInv => CopyMeansTheSame
  BY DEF BuildInv
<1>2. QED  BY <1>1, BuildInvariant, PTL

\* The original pointer of a hook that was built runs the whole head and goes
\* on behind the patch, and the entrance leads to the detour.
THEOREM CopyCorrect == Spec => []CopyIsWhole
<1>1. BuildInv => CopyIsWhole
  <2> SUFFICES ASSUME BuildInv, pc = "built", target # Null PROVE CopyIsWhole
    BY DEF CopyIsWhole
  <2>1. /\ offset = patchLength /\ patchLength >= RelJmpSize /\ copy = page /\ page \in Int
        /\ back = BackJump /\ entry = Entrance /\ original = copy
    BY DEF BuildInv, PageOK, Thrown
  <2>2. TypeOK /\ ResultsOK
    BY DEF BuildInv
  <2>3. /\ RelJmpSize \in Nat \ {0} /\ Len(results) \in Nat
        /\ back.at = page + patchLength /\ back.to = target + patchLength
        /\ entry = [at |-> back.at + PureJmpSize, to |-> detour]
        /\ entry.at = page + patchLength + PureJmpSize
    BY <2>1, <2>2, BuildAssumption DEF BackJump, Entrance, TypeOK
  <2>4. Len(results) > 0
    BY <2>1, <2>2, <2>3, Sizes DEF ResultsOK
  <2>5. back.to >= target + RelJmpSize /\ entry.at + PureJmpSize <= page + PageSize
    BY <2>1, <2>2, <2>3, Sizes
  <2>6. QED  BY <2>1, <2>2, <2>3, <2>4, <2>5 DEF CopyIsWhole, ResultsOK
<1>2. QED  BY <1>1, BuildInvariant, PTL

-----------------------------------------------------------------------------
(* Which heads a hook is built for.                                        *)

(***************************************************************************)
(* What was measured are the first instructions of the head, none skipped, *)
(* those that relocation is past could be moved, and a constructor that    *)
(* threw stands at the instruction it threw for.                           *)
(***************************************************************************)
CauseOK ==
  /\ measured \subseteq Starts
  /\ 0 \in measured \cup {patchLength}
  /\ \A o, p \in measured : o < p => o + mem[target + o].len <= p
  /\ pc \in {"resolve", "page", "noPage"} => measured = {}
  /\ pc \in {"resolve", "page", "noPage"} => page = Null
  /\ pc \in {"measure", "undecodable"} => patchLength \in Starts
  /\ pc = "undecodable" => target + patchLength \notin DOMAIN mem
  /\ \A o \in measured : o < offset => ~Unmovable(o)
  /\ pc = "refused" => offset \in measured /\ Unmovable(offset)

\* The head has its first instruction, and with each one the next.
LEMMA StartsFollowOn ==
  /\ 0 \in Starts
  /\ \A o \in Starts : target + o \in DOMAIN mem /\ o + mem[target + o].len \in Overwritten =>
                         o + mem[target + o].len \in Starts
<1>1. 0 \in Overwritten
  BY BuildAssumption DEF Overwritten
<1>2. QED  BY <1>1 DEF Starts, FollowsOn

\* Steps that leave the code around the target alone leave its head alone.
LEMMA StartsStay ==
  ASSUME UNCHANGED <<mem, target>>
  PROVE  Starts' = Starts
BY DEF Starts, FollowsOn, Overwritten

\* Where nothing of the construction's first half moves, neither does CauseOK.
LEMMA KeepsCause ==
  ASSUME CauseOK, UNCHANGED <<mem, target, page, patchLength, measured, offset>>,
         pc' \notin {"resolve", "page", "noPage", "measure", "undecodable", "refused"} \/ pc' = pc
  PROVE  CauseOK'
<1>1. Starts' = Starts
  BY StartsStay
<1>2. QED  BY <1>1 DEF CauseOK, Unmovable, Fits

\* A constructor throws from Relocate only for what cannot be moved.
LEMMA RefusedIsUnmovable ==
  ASSUME TypeOK, used = 0, page \in Int, offset \in measured, Here \in DOMAIN mem
  PROVE  Refused(mem[Here]) <=> Unmovable(offset)
<1>1. offset \in Nat /\ target \in Int /\ mem[Here].disp \in Int /\ mem[Here].len \in Int
  BY DecodedType, BuildAssumption, MeasuredInNat DEF TypeOK
<1>2. NewDisp(mem[Here]) = mem[Here].disp + target - page
  BY <1>1 DEF NewDisp, Absolute, There, Here
<1>3. QED  BY <1>2 DEF Refused, Unmovable, Here

LEMMA MeasureCause == BuildInv /\ CauseOK /\ Measure => CauseOK'
<1> SUFFICES ASSUME BuildInv, CauseOK, Measure PROVE CauseOK'
  OBVIOUS
<1> USE DEF Measure, Throw
<1>1. /\ TypeOK /\ MeasuredOK /\ offset = 0 /\ offset' = 0
      /\ patchLength \in Nat /\ patchLength < RelJmpSize /\ RelJmpSize \in Nat
  BY BuildAssumption DEF BuildInv, PageOK, TypeOK
<1>2. Starts' = Starts /\ patchLength \in Starts /\ mem' = mem /\ target' = target
  BY StartsStay DEF CauseOK
<1>3. \A o \in measured : o \in Nat /\ o < patchLength
  BY <1>1, MeasuredInNat DEF MeasuredOK
<1>4. CASE target + patchLength \notin DOMAIN mem
  <2>1. UNCHANGED <<patchLength, measured>> /\ pc' = "undecodable"
    BY <1>4
  <2>2. QED  BY <1>1, <1>2, <1>3, <1>4, <2>1 DEF CauseOK
<1>5. CASE target + patchLength \in DOMAIN mem
  <2> DEFINE len == mem[target + patchLength].len
  <2>1. len \in Nat \ {0}
    BY <1>1, <1>5, DecodedType, BuildAssumption
  <2>2. /\ patchLength' = patchLength + len /\ measured' = measured \cup {patchLength}
        /\ pc' = IF patchLength' < RelJmpSize THEN "measure" ELSE "relocate"
    BY <1>5
  <2>3. measured' \subseteq Starts' /\ 0 \in measured' /\ \A o \in measured' : o \in Nat
    BY <1>1, <1>2, <1>3, <2>2 DEF CauseOK
  <2>4. \A o, p \in measured' : o < p => o + mem[target + o].len <= p
    <3>1. \A o \in measured : o + mem[target + o].len \in measured \cup {patchLength}
      BY <1>1 DEF MeasuredOK
    <3>2. \A o \in measured : o + mem[target + o].len <= patchLength
      BY <1>1, <1>3, <3>1
    <3>3. QED  BY <1>1, <1>3, <2>2, <3>2 DEF CauseOK
  <2>5. pc' = "measure" => patchLength' \in Starts'
    <3> SUFFICES ASSUME patchLength' < RelJmpSize PROVE patchLength' \in Starts
      BY <1>2, <2>2
    <3>1. patchLength + mem[target + patchLength].len \in Overwritten
      BY <1>1, <2>1, <2>2 DEF Overwritten
    <3>2. QED  BY <1>2, <1>5, <2>2, <3>1, StartsFollowOn
  <2>6. \A o \in measured' : ~(o < offset')
    BY <1>1, <2>3
  <2>7. QED  BY <1>2, <2>2, <2>3, <2>4, <2>5, <2>6 DEF CauseOK
<1>6. QED  BY <1>4, <1>5

LEMMA RelocateCause == BuildInv /\ CauseOK /\ Relocate => CauseOK'
<1> SUFFICES ASSUME BuildInv, CauseOK, Relocate PROVE CauseOK'
  OBVIOUS
<1> USE DEF Relocate, Throw
<1>1. TypeOK /\ MeasuredOK /\ used = 0 /\ page \in Int
  BY DEF BuildInv, PageOK, Thrown
<1>2. /\ offset \in measured /\ Here \in DOMAIN mem /\ offset \in Nat
      /\ Here = target + offset
  BY <1>1, MeasuredInNat DEF MeasuredOK, Here, TypeOK
<1>3. Refused(mem[Here]) <=> Unmovable(offset)
  BY <1>1, <1>2, RefusedIsUnmovable
<1>4. Starts' = Starts
  BY StartsStay
<1>5. \A o : Unmovable(o)' <=> Unmovable(o)
  BY DEF Unmovable, Fits
<1>6. CASE Refused(mem[Here])
  <2>1. pc' = "refused" /\ offset' = offset
    BY <1>6
  <2>2. QED  BY <1>2, <1>3, <1>4, <1>5, <1>6, <2>1 DEF CauseOK
<1>7. CASE ~Refused(mem[Here])
  <2>1. offset' = offset + mem[Here].len /\ pc' = "relocate"
    BY <1>7
  <2>2. \A o \in measured : o \in Nat /\ mem[target + o].len \in Nat \ {0}
    BY <1>1, MeasuredInNat, DecodedType, BuildAssumption DEF MeasuredOK
  <2>3. \A o \in measured : o < offset' => o < offset \/ o = offset
    BY <1>2, <2>1, <2>2 DEF CauseOK
  <2>4. \A o \in measured : o < offset' => ~Unmovable(o)
    BY <1>3, <1>7, <2>3 DEF CauseOK
  <2>5. \A o \in measured : o < offset' => ~Unmovable(o)'
    BY <1>5, <2>4
  <2>6. QED  BY <1>4, <2>1, <2>5 DEF CauseOK
<1>8. QED  BY <1>6, <1>7

\* CauseOK is the part of the invariant that tells why a constructor threw.
LEMMA CauseInvariant == Spec => [](BuildInv /\ CauseOK)
<1>1. Init => CauseOK
  BY InitInv DEF Init, CauseOK
<1>2. ASSUME BuildInv, CauseOK, [Next]_vars PROVE CauseOK'
  <2>1. CASE Resolve
    BY <1>2, <2>1 DEF Resolve, CauseOK, BuildInv, PageOK
  <2>2. CASE AllocPage
    <3>1. /\ patchLength = 0 /\ measured = {} /\ Starts' = Starts
          /\ pc' \in {"measure", "noPage"} /\ (pc' = "noPage" => page' = Null)
      BY <1>2, <2>2, StartsStay DEF AllocPage, Throw, BuildInv, PageOK, CauseOK
    <3>2. QED  BY <2>2, <3>1, StartsFollowOn DEF AllocPage, CauseOK
  <2>3. CASE Measure
    BY <1>2, <2>3, MeasureCause
  <2>4. CASE Relocate
    BY <1>2, <2>4, RelocateCause
  <2>5. CASE WriteCopy \/ JumpBack \/ Trampoline \/ Publish \/ UNCHANGED vars
    <3>1. UNCHANGED <<mem, target, page, patchLength, measured, offset>>
      BY <2>5 DEF WriteCopy, JumpBack, Trampoline, Publish, vars
    <3>2. pc' \in {"jumpBack", "trampoline", "publish", "built", "pageBounds"} \/ pc' = pc
      BY <2>5 DEF WriteCopy, JumpBack, Trampoline, Publish, vars, WriteBytes, Throw
    <3>3. QED  BY <1>2, <3>1, <3>2, KeepsCause
  <2>6. QED  BY <1>2, <2>1, <2>2, <2>3, <2>4, <2>5 DEF Next
<1>3. QED  BY <1>1, <1>2, BuildInvariant, PTL DEF Spec

\* A constructor that has found its page throws for an instruction under the
\* patch that cannot be decoded or moved, and for nothing else; a hook is
\* built only for heads that have no such instruction.
THEOREM ThrowsOnlyForCause == Spec => []ThrowsForCause
<1>1. BuildInv /\ CauseOK => ThrowsForCause
  <2> SUFFICES ASSUME BuildInv, CauseOK PROVE ThrowsForCause
    OBVIOUS
  <2>1. TypeOK /\ MeasuredOK /\ pc # "pageBounds"
    BY DEF BuildInv, PageOK
  <2>2. pc = "undecodable" => \E o \in Starts : target + o \notin DOMAIN mem
    BY DEF CauseOK
  <2>3. pc = "refused" => \E o \in Starts : target + o \in DOMAIN mem /\ Unmovable(o)
    BY <2>1 DEF CauseOK, MeasuredOK
  <2>4. ASSUME pc = "built", target # Null
        PROVE  \A o \in Starts : target + o \in DOMAIN mem /\ ~Unmovable(o)
    <3>1. offset = patchLength /\ patchLength >= RelJmpSize /\ RelJmpSize \in Nat \ {0}
      BY <2>4, BuildAssumption DEF BuildInv, PageOK
    <3>2. patchLength \notin Overwritten /\ measured \subseteq Overwritten /\ 0 \in measured
      BY <2>1, <3>1, Sizes DEF CauseOK, Overwritten, TypeOK
    <3>3. FollowsOn(measured)
      BY <2>1, <3>2 DEF FollowsOn, MeasuredOK
    <3>4. Starts \subseteq measured
      BY <3>2, <3>3 DEF Starts
    <3>5. QED  BY <2>1, <3>1, <3>4 DEF MeasuredOK, CauseOK
  <2>5. pc = "noPage" => page = Null /\ measured = {}
    BY DEF CauseOK
  <2>6. QED  BY <2>1, <2>2, <2>3, <2>4, <2>5 DEF ThrowsForCause
<1>2. QED  BY <1>1, CauseInvariant, PTL
=============================================================================
