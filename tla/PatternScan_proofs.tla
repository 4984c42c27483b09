------------------------- MODULE PatternScan_proofs -------------------------
(***************************************************************************)
(* Proofs about the pattern scan, for any memory, pattern and module: it   *)
(* misses no occurrence, reports no address that is none, and reports none *)
(* twice; it always has a next step, and ends.                             *)
(***************************************************************************)
EXTENDS PatternScan, SequenceTheorems, WellFoundedInduction, TLAPS

\* The pattern at an address, in a region: the properties say both of the
\* text and of the mappings, of which pattern and regions are made.
PatternAt(a) == \A i \in 1..Len(pattern) : pattern[i] = Any \/ ByteAt(a + i - 1) = pattern[i]
FitsRegion(a, i) == /\ regions[i].base <= a
                    /\ a + Len(pattern) <= regions[i].base + regions[i].size

\* The regions are those of the lines that have been read, in their order.
RegionsOK ==
  /\ \A i \in 1..Len(regions), j \in 1..Len(regions) :
       i < j => regions[i].base + regions[i].size <= regions[j].base
  /\ \A i \in 1..Len(regions) : \A k \in line..Len(maps) :
       regions[i].base + regions[i].size <= maps[k].start
  /\ \A i \in 1..Len(regions) : \E k \in 1..Len(maps) :
       OfModule(maps[k]) /\ regions[i] = RegionOf(maps[k])
  /\ \A k \in 1..Len(maps) : k < line /\ OfModule(maps[k]) =>
       \E i \in 1..Len(regions) : regions[i] = RegionOf(maps[k])
  /\ pc \in {"parse", "next", "scan", "all", "one"} => line = Len(maps) + 1

\* The pattern is what the words that have been parsed stand for.
PatternOK ==
  /\ Len(pattern) <= Len(words)
  /\ \A i \in 1..Len(pattern) :
       \/ words[i] \in Wild /\ pattern[i] = Any
       \/ words[i] \notin Wild /\ pattern[i] = Stoul[words[i]] /\ pattern[i] # Any
  /\ pc \in {"next", "scan", "all", "one"} => Len(pattern) = Len(words)
  /\ pc \in {"maps", "parse"} => results = <<>> /\ index = 1
  /\ pc = "maps" => pattern = <<>>
  /\ results = <<>> \/ Len(pattern) = Len(words)

\* What the loop knows of the wildcards in front.
LeadOK ==
  pc = "scan" => /\ \A i \in 1..lead : pattern[i] = Any
                 /\ pattern[lead + 1] # Any

\* Every result is an occurrence in a region, and none is there twice.
ResultsOK ==
  /\ \A n \in 1..Len(results) :
       /\ PatternAt(results[n])
       /\ \E i \in 1..Len(regions) : /\ regions[i].base <= results[n]
                                     /\ results[n] < regions[i].base + regions[i].size
  /\ \A n \in 1..Len(results), k \in 1..Len(results) : n < k => results[n] < results[k]

\* Where the search has been.
Passed(a, i) == i < index \/ (i = index /\ pc = "scan" /\ a + lead < pos)
NothingMissed ==
  pattern # <<>> =>
    \A i \in 1..Len(regions), a \in Nat :
      FitsRegion(a, i) /\ PatternAt(a) /\ Passed(a, i) => Reported(a)

\* The results lie behind the place where the search goes on.
ResultsBehind ==
  \A n \in 1..Len(results) :
    /\ pc = "scan" => results[n] + lead < pos
    /\ pc = "next" /\ index <= Len(regions) => results[n] < Base

AnswerOK ==
  /\ pc \in {"all", "one"} => index > Len(regions)
  /\ pc = "one" => Len(results) = 1

ScanInv ==
  /\ TypeOK /\ RegionsOK /\ PatternOK
  /\ ResultsOK /\ LeadOK /\ NothingMissed /\ ResultsBehind /\ AnswerOK

-----------------------------------------------------------------------------
\* What is known of the regions of a module, and of the lines of maps.
LEMMA RegionType ==
  ASSUME TypeOK, RegionsOK
  PROVE  /\ Len(regions) \in Nat
         /\ \A i \in 1..Len(regions) :
              regions[i].base \in Nat /\ regions[i].size \in Nat \ {0}
         /\ \A i \in 1..Len(regions), j \in 1..Len(regions) :
              i < j => regions[i].base + regions[i].size <= regions[j].base
<1>1. /\ Len(regions) \in Nat
      /\ \A i \in 1..Len(regions) : regions[i] \in [base : Nat, size : Nat \ {0}]
  BY ElementOfSeq, LenProperties DEF TypeOK
<1>2. QED  BY <1>1 DEF RegionsOK

LEMMA MapsType ==
  ASSUME maps \in Maps
  PROVE  /\ Len(maps) \in Nat
         /\ \A k \in 1..Len(maps) : /\ maps[k].start \in Nat /\ maps[k].end \in Nat
                                    /\ maps[k].start < maps[k].end
         /\ \A k \in 1..Len(maps), n \in 1..Len(maps) : k < n => maps[k].end <= maps[n].start
  BY ScanAssumption

LEMMA PatternType ==
  ASSUME TypeOK
  PROVE  /\ Len(pattern) \in Nat
         /\ pattern = <<>> <=> Len(pattern) = 0
  BY EmptySeq, LenProperties DEF TypeOK

-----------------------------------------------------------------------------
\* At the beginning nothing is searched and nothing reported.
LEMMA InitScanInv == Init => ScanInv
<1> SUFFICES ASSUME Init  PROVE ScanInv
  OBVIOUS
<1>1. words \in Seq(Words) /\ Len(words) \in Nat
  <2>1. PICK n \in 0..MaxPattern : words \in [1..n -> Words]
    BY DEF Init
  <2>2. words \in Seq(Words)
    BY <2>1, SeqDef, ScanAssumption
  <2>3. QED  BY <2>2, LenProperties
<1>2. /\ results = <<>> /\ Len(results) = 0 /\ results \in Seq(Nat)
      /\ pattern = <<>> /\ Len(pattern) = 0 /\ pattern \in Seq(Bytes \cup {Any})
      /\ regions = <<>> /\ Len(regions) = 0 /\ regions \in Seq([base : Nat, size : Nat \ {0}])
  BY EmptySeq DEF Init
<1>3. TypeOK
  BY <1>1, <1>2, MapsType DEF Init, TypeOK
<1>4. ResultsOK /\ LeadOK /\ ResultsBehind /\ AnswerOK /\ RegionsOK /\ PatternOK
  BY <1>1, <1>2, MapsType
  DEF Init, ResultsOK, LeadOK, ResultsBehind, AnswerOK, RegionsOK, PatternOK
<1>5. NothingMissed
  BY <1>2 DEF Init, NothingMissed, Passed
<1>6. QED  BY <1>3, <1>4, <1>5 DEF ScanInv

-----------------------------------------------------------------------------
(***************************************************************************)
(* The heart of the argument, a comparison: a hit with Matches is an       *)
(* occurrence, and an occurrence not passed before is passed now only if   *)
(* it is that hit, because its first byte is a candidate for memchr.       *)
(***************************************************************************)
LEMMA MatchIsOccurrence ==
  ASSUME ScanInv, pc = "scan", NEW hit \in Nat, Candidate(hit), Matches(hit - lead)
  PROVE  PatternAt(hit - lead)
<1>1. lead \in Nat /\ Len(pattern) \in Nat /\ lead < Len(pattern) /\ LeadOK
  BY PatternType DEF ScanInv, TypeOK
<1>2. SUFFICES ASSUME NEW i \in 1..Len(pattern), pattern[i] # Any
               PROVE  ByteAt(hit - lead + i - 1) = pattern[i]
  BY DEF PatternAt
<1>3. i > lead
  BY <1>1, <1>2 DEF LeadOK
<1>4. CASE i = lead + 1
  <2>1. hit - lead + i - 1 = hit
    BY <1>1, <1>4
  <2>2. QED  BY <2>1, <1>4 DEF Candidate
<1>5. CASE i > lead + 1
  <2>1. i \in (lead + 2)..Len(pattern)
    BY <1>1, <1>5
  <2>2. QED  BY <2>1, <1>2 DEF Matches, Differs
<1>6. QED  BY <1>1, <1>3, <1>4, <1>5

LEMMA OccurrenceIsCandidate ==
  ASSUME ScanInv, pc = "scan", NEW a \in Nat, PatternAt(a), FitsRegion(a, index), a + lead >= pos
  PROVE  /\ Candidate(a + lead) /\ Matches(a)
         /\ remaining >= MinSize
<1>1. /\ lead \in Nat /\ Len(pattern) \in Nat /\ lead < Len(pattern) /\ LeadOK
      /\ pos \in Nat /\ remaining \in Nat /\ pos + remaining = Base + Size
      /\ index \in 1..Len(regions)
      /\ Base \in Nat /\ Size \in Nat
  <2>1. TypeOK /\ RegionsOK /\ LeadOK
    BY DEF ScanInv
  <2>2. /\ lead \in Nat /\ pos \in Nat /\ remaining \in Nat
        /\ index \in 1..(Len(regions) + 1) /\ index <= Len(regions)
        /\ lead < Len(pattern) /\ pos + remaining = Base + Size
    BY <2>1 DEF TypeOK
  <2>3. Len(pattern) \in Nat
    BY <2>1, PatternType
  <2>4. index \in 1..Len(regions)
    BY <2>1, <2>2, RegionType
  <2>5. Base \in Nat /\ Size \in Nat
    BY <2>1, <2>4, RegionType DEF Base, Size
  <2>6. QED  BY <2>1, <2>2, <2>3, <2>4, <2>5
<1>2. a + Len(pattern) <= Base + Size
  BY DEF FitsRegion, Base, Size
<1>3. lead + 1 \in 1..Len(pattern) /\ pattern[lead + 1] # Any
  BY <1>1 DEF LeadOK
<1>4. ByteAt(a + lead) = pattern[lead + 1]
  <2>1. ByteAt(a + (lead + 1) - 1) = pattern[lead + 1]
    BY <1>3 DEF PatternAt
  <2>2. a + (lead + 1) - 1 = a + lead
    BY <1>1
  <2>3. QED  BY <2>1, <2>2
<1>5. a + lead \in pos..(pos + remaining - 1)
  BY <1>1, <1>2
<1>6. Matches(a)
  <2>1. SUFFICES ASSUME NEW i \in (lead + 2)..Len(pattern)  PROVE ~Differs(a, i)
    BY DEF Matches
  <2>2. i \in 1..Len(pattern)
    BY <1>1
  <2>3. QED  BY <2>2 DEF PatternAt, Differs
<1>7. remaining >= MinSize
  BY <1>1, <1>2 DEF MinSize
<1>8. QED  BY <1>4, <1>5, <1>6, <1>7 DEF Candidate

-----------------------------------------------------------------------------
(***************************************************************************)
(* Each step keeps the invariant.                                          *)
(***************************************************************************)
\* The next region starts behind this one.
LEMMA NextRegionBehind ==
  ASSUME TypeOK, RegionsOK, index \in 1..Len(regions), index + 1 <= Len(regions)
  PROVE  /\ regions[index + 1].base >= Base + Size
         /\ Base \in Nat /\ Size \in Nat \ {0}
<1>1. index + 1 \in 1..Len(regions) /\ index < index + 1
  BY RegionType
<1>2. QED  BY <1>1, RegionType DEF Base, Size

\* The search leaves the regions and the pattern alone.
LEMMA SearchKeepsInputs ==
  ASSUME ScanInv, pc \in {"next", "scan"}, pc' \in {"next", "scan", "threw", "crashed", "all", "one"},
         UNCHANGED <<mem, maps, words, line, regions, pattern>>
  PROVE  RegionsOK' /\ PatternOK'
<1>1. RegionsOK'
  BY DEF ScanInv, RegionsOK
<1>2. PatternOK'
  BY DEF ScanInv, PatternOK
<1>3. QED  BY <1>1, <1>2

\* A line adds its mapping to the regions, or nothing.
LEMMA ReadLineKeeps ==
  ASSUME ScanInv, ReadLine
  PROVE  ScanInv'
<1> DEFINE l == maps[line]
<1>0. /\ pc = "maps" /\ pc' = "maps" /\ line' = line + 1 /\ line \in 1..Len(maps)
      /\ mem' = mem /\ maps' = maps /\ words' = words /\ pattern' = pattern
      /\ index' = index /\ lead' = lead /\ pos' = pos /\ remaining' = remaining
      /\ results' = results
      /\ regions' = IF OfModule(l) THEN Append(regions, RegionOf(l)) ELSE regions
      /\ Len(maps) \in Nat /\ Len(regions) \in Nat
      /\ regions \in Seq([base : Nat, size : Nat \ {0}])
  BY MapsType, RegionType DEF ScanInv, TypeOK, ReadLine, inputs, search
<1>1. /\ l.start \in Nat /\ l.end \in Nat /\ l.start < l.end
      /\ RegionOf(l) \in [base : Nat, size : Nat \ {0}]
      /\ RegionOf(l).base = l.start /\ RegionOf(l).base + RegionOf(l).size = l.end
  <2>1. l.start \in Nat /\ l.end \in Nat /\ l.start < l.end
    BY <1>0, MapsType DEF ScanInv, TypeOK
  <2>2. l.end - l.start \in Nat \ {0} /\ l.start + (l.end - l.start) = l.end
    BY <2>1
  <2>3. QED  BY <2>1, <2>2 DEF RegionOf
\* The regions grow by that of the line or stay as they are.
<1>2. /\ regions' \in Seq([base : Nat, size : Nat \ {0}]) /\ Len(regions') \in Nat
      /\ Len(regions') >= Len(regions)
      /\ \A i \in 1..Len(regions) : i \in 1..Len(regions') /\ regions'[i] = regions[i]
      /\ \A i \in 1..Len(regions') :
           \/ i \in 1..Len(regions)
           \/ i = Len(regions) + 1 /\ OfModule(l) /\ regions'[i] = RegionOf(l)
      /\ OfModule(l) => \E i \in 1..Len(regions') : regions'[i] = RegionOf(l)
  <2>1. CASE OfModule(l)
    <3> HIDE DEF l
    <3>1. regions' = Append(regions, RegionOf(l))
      BY <1>0, <2>1
    <3>2. /\ regions' \in Seq([base : Nat, size : Nat \ {0}])
          /\ Len(regions') = Len(regions) + 1
          /\ \A i \in 1..Len(regions) : regions'[i] = regions[i]
          /\ regions'[Len(regions) + 1] = RegionOf(l)
      <4> DEFINE R == [base : Nat, size : Nat \ {0}]
      <4>1. regions \in Seq(R) /\ RegionOf(l) \in R
        BY <1>0, <1>1
      <4> HIDE DEF R
      <4>2. /\ Append(regions, RegionOf(l)) \in Seq(R)
            /\ Len(Append(regions, RegionOf(l))) = Len(regions) + 1
            /\ \A i \in 1..Len(regions) : Append(regions, RegionOf(l))[i] = regions[i]
            /\ Append(regions, RegionOf(l))[Len(regions) + 1] = RegionOf(l)
        BY <4>1, AppendProperties
      <4>3. QED  BY <3>1, <4>2 DEF R
    <3>3. QED  BY <1>0, <2>1, <3>2
  <2>2. CASE ~OfModule(l)
    BY <1>0, <2>2
  <2>3. QED  BY <2>1, <2>2
<1>3. TypeOK'
  <2>1. index' \in 1..(Len(regions') + 1)
    BY <1>0, <1>2 DEF ScanInv, TypeOK
  <2>2. line' \in 1..(Len(maps') + 1)
    BY <1>0
  <2>3. QED  BY <1>0, <1>2, <2>1, <2>2 DEF ScanInv, TypeOK
<1>4. PatternOK'
  BY <1>0 DEF ScanInv, PatternOK
<1>5. RegionsOK'
  <2> HIDE DEF l
  <2>1. \A i \in 1..Len(regions) : /\ regions[i].base \in Nat /\ regions[i].size \in Nat
                                  /\ regions[i].base + regions[i].size <= l.start
    BY <1>0, RegionType DEF ScanInv, RegionsOK, l
  <2>2. \A i \in 1..Len(regions'), j \in 1..Len(regions') :
          i < j => regions'[i].base + regions'[i].size <= regions'[j].base
    <3>1. SUFFICES ASSUME NEW i \in 1..Len(regions'), NEW j \in 1..Len(regions'), i < j
                   PROVE  regions'[i].base + regions'[i].size <= regions'[j].base
      OBVIOUS
    <3>2. i \in 1..Len(regions) /\ regions'[i] = regions[i]
      BY <1>0, <1>2, <3>1
    <3>3. CASE j \in 1..Len(regions)
      BY <1>2, <3>1, <3>2, <3>3 DEF ScanInv, RegionsOK
    <3>4. CASE j \notin 1..Len(regions)
      BY <1>1, <1>2, <2>1, <3>1, <3>2, <3>4
    <3>5. QED  BY <3>3, <3>4
  <2>3. \A i \in 1..Len(regions') : \A k \in (line + 1)..Len(maps) :
          regions'[i].base + regions'[i].size <= maps[k].start
    <3>1. SUFFICES ASSUME NEW i \in 1..Len(regions'), NEW k \in (line + 1)..Len(maps)
                   PROVE  regions'[i].base + regions'[i].size <= maps[k].start
      OBVIOUS
    <3>2. k \in line..Len(maps) /\ k \in 1..Len(maps) /\ line < k
      BY <1>0, <3>1
    <3>3. CASE i \in 1..Len(regions)
      BY <1>2, <3>2, <3>3 DEF ScanInv, RegionsOK
    <3>4. CASE i \notin 1..Len(regions)
      <4>1. l.end <= maps[k].start
        BY <1>0, <3>2, MapsType DEF ScanInv, TypeOK, l
      <4>2. QED  BY <1>1, <1>2, <3>4, <4>1
    <3>5. QED  BY <3>3, <3>4
  <2>4. \A i \in 1..Len(regions') : \E k \in 1..Len(maps) :
          OfModule(maps[k]) /\ regions'[i] = RegionOf(maps[k])
    <3>1. SUFFICES ASSUME NEW i \in 1..Len(regions')
                   PROVE  \E k \in 1..Len(maps) :
                            OfModule(maps[k]) /\ regions'[i] = RegionOf(maps[k])
      OBVIOUS
    <3>2. CASE i \in 1..Len(regions)
      BY <1>2, <3>2 DEF ScanInv, RegionsOK
    <3>3. CASE i \notin 1..Len(regions)
      <4>1. OfModule(maps[line]) /\ regions'[i] = RegionOf(maps[line])
        BY <1>2, <3>3 DEF l
      <4>2. QED  BY <1>0, <4>1
    <3>4. QED  BY <3>2, <3>3
  <2>5. ASSUME NEW k \in 1..Len(maps), k < line + 1, OfModule(maps[k])
        PROVE  \E i \in 1..Len(regions') : regions'[i] = RegionOf(maps[k])
    <3>1. CASE k < line
      <4>1. PICK i \in 1..Len(regions) : regions[i] = RegionOf(maps[k])
        BY <2>5, <3>1 DEF ScanInv, RegionsOK
      <4>2. QED  BY <1>2, <4>1
    <3>2. CASE k = line
      BY <1>2, <2>5, <3>2 DEF l
    <3>3. QED  BY <1>0, <2>5, <3>1, <3>2
  <2>6. /\ maps' = maps /\ line' = line + 1
        /\ ~(pc' \in {"parse", "next", "scan", "all", "one"})
    BY <1>0
  <2>7. QED  BY <2>2, <2>3, <2>4, <2>5, <2>6 DEF RegionsOK
<1>6. pc' \in {"maps", "parse"}
  BY <1>0
<1>7. (ResultsOK /\ LeadOK /\ NothingMissed /\ ResultsBehind /\ AnswerOK)'
  <2>1. /\ results' = <<>> /\ Len(results') = 0 /\ index' = 1 /\ pc' = "maps"
    BY <1>0 DEF ScanInv, PatternOK
  <2>2. (ResultsOK /\ LeadOK /\ ResultsBehind /\ AnswerOK)'
    BY <2>1 DEF ResultsOK, LeadOK, ResultsBehind, AnswerOK
  <2>3. NothingMissed'
    BY <1>2, <2>1 DEF NothingMissed, Passed
  <2>4. QED  BY <2>2, <2>3
<1>8. QED  BY <1>3, <1>4, <1>5, <1>7 DEF ScanInv

\* A word adds what it stands for to the pattern.
LEMMA ParseWordKeeps ==
  ASSUME ScanInv, ParseWord
  PROVE  ScanInv'
<1> DEFINE w == words[Len(pattern) + 1]
<1>0. /\ pc = "parse" /\ pc' \in {"parse", "threw"} /\ Len(pattern) < Len(words)
      /\ mem' = mem /\ maps' = maps /\ words' = words /\ line' = line /\ regions' = regions
      /\ index' = index /\ lead' = lead /\ pos' = pos /\ remaining' = remaining
      /\ results' = results
      /\ Len(pattern) \in Nat /\ Len(words) \in Nat /\ Len(regions) \in Nat
      /\ pattern \in Seq(Bytes \cup {Any}) /\ words \in Seq(Words)
  BY LenProperties DEF ScanInv, TypeOK, ParseWord, inputs, search
<1>1. \/ pattern' = pattern
      \/ \E b \in Bytes \cup {Any} :
           /\ pattern' = Append(pattern, b)
           /\ \/ w \in Wild /\ b = Any
              \/ w \notin Wild /\ b = Stoul[w] /\ b # Any
  BY ScanAssumption DEF ParseWord
<1>2. /\ pattern' \in Seq(Bytes \cup {Any}) /\ Len(pattern') <= Len(words)
      /\ \A i \in 1..Len(pattern') :
           \/ words[i] \in Wild /\ pattern'[i] = Any
           \/ words[i] \notin Wild /\ pattern'[i] = Stoul[words[i]] /\ pattern'[i] # Any
  <2>1. CASE pattern' = pattern
    BY <1>0, <2>1 DEF ScanInv, PatternOK
  <2>2. ASSUME NEW b \in Bytes \cup {Any}, pattern' = Append(pattern, b),
               \/ w \in Wild /\ b = Any
               \/ w \notin Wild /\ b = Stoul[w] /\ b # Any
        PROVE  /\ pattern' \in Seq(Bytes \cup {Any}) /\ Len(pattern') <= Len(words)
               /\ \A i \in 1..Len(pattern') :
                    \/ words[i] \in Wild /\ pattern'[i] = Any
                    \/ words[i] \notin Wild /\ pattern'[i] = Stoul[words[i]] /\ pattern'[i] # Any
    <3>1. /\ pattern' \in Seq(Bytes \cup {Any}) /\ Len(pattern') = Len(pattern) + 1
          /\ \A i \in 1..Len(pattern) : pattern'[i] = pattern[i]
          /\ pattern'[Len(pattern) + 1] = b
      BY <1>0, <2>2
    <3>2. QED  BY <1>0, <2>2, <3>1 DEF ScanInv, PatternOK
  <2>3. QED  BY <1>1, <2>1, <2>2
<1>3. TypeOK'
  BY <1>0, <1>2 DEF ScanInv, TypeOK
<1>4. RegionsOK'
  BY <1>0 DEF ScanInv, RegionsOK
<1>5. PatternOK'
  <2>1. results' = <<>> /\ index' = 1 /\ pc' # "maps"
    BY <1>0 DEF ScanInv, PatternOK
  <2>2. QED  BY <1>0, <1>2, <2>1 DEF PatternOK
<1>6. (ResultsOK /\ LeadOK /\ NothingMissed /\ ResultsBehind /\ AnswerOK)'
  <2>1. results' = <<>> /\ Len(results') = 0 /\ index' = 1 /\ pc' \in {"parse", "threw"}
    BY <1>0 DEF ScanInv, PatternOK
  <2>2. (ResultsOK /\ LeadOK /\ ResultsBehind /\ AnswerOK)'
    BY <2>1 DEF ResultsOK, LeadOK, ResultsBehind, AnswerOK
  <2>3. NothingMissed'
    BY <1>0, <2>1 DEF NothingMissed, Passed
  <2>4. QED  BY <2>2, <2>3
<1>7. QED  BY <1>3, <1>4, <1>5, <1>6 DEF ScanInv

\* From the maps to the pattern, and from the pattern to the search.
LEMMA PhaseKeeps ==
  ASSUME ScanInv, NoMaps \/ LinesRead \/ WordsParsed
  PROVE  ScanInv'
<1>0. /\ pc \in {"maps", "parse"} /\ pc' \in {"threw", "parse", "next"}
      /\ mem' = mem /\ maps' = maps /\ words' = words /\ line' = line
      /\ regions' = regions /\ pattern' = pattern
      /\ index' = index /\ lead' = lead /\ pos' = pos /\ remaining' = remaining
      /\ results' = results
      /\ pc' \in {"parse", "next"} => pc = "parse" \/ line > Len(maps)
      /\ pc' = "next" => Len(pattern) = Len(words)
      /\ Len(regions) \in Nat /\ Len(maps) \in Nat
  BY MapsType, RegionType
  DEF ScanInv, TypeOK, NoMaps, LinesRead, WordsParsed, inputs, search
<1>1. TypeOK'
  BY <1>0 DEF ScanInv, TypeOK
<1>2. RegionsOK'
  <2>1. pc' \in {"parse", "next", "scan", "all", "one"} => line' = Len(maps') + 1
    BY <1>0 DEF ScanInv, RegionsOK, TypeOK
  <2>2. QED  BY <1>0, <2>1 DEF ScanInv, RegionsOK
<1>3. PatternOK'
  BY <1>0 DEF ScanInv, PatternOK
<1>4. (ResultsOK /\ LeadOK /\ NothingMissed /\ ResultsBehind /\ AnswerOK)'
  <2>1. /\ results' = <<>> /\ Len(results') = 0 /\ index' = 1
        /\ pc' \in {"parse", "threw", "next"}
    BY <1>0 DEF ScanInv, PatternOK
  <2>2. (ResultsOK /\ LeadOK /\ ResultsBehind /\ AnswerOK)'
    BY <2>1 DEF ResultsOK, LeadOK, ResultsBehind, AnswerOK
  <2>3. NothingMissed'
    BY <1>0, <2>1 DEF NothingMissed, Passed
  <2>4. QED  BY <2>2, <2>3
<1>5. QED  BY <1>1, <1>2, <1>3, <1>4 DEF ScanInv

LEMMA SkipKeeps ==
  ASSUME ScanInv, SkipRegion
  PROVE  ScanInv'
<1>0. /\ pc = "next" /\ pc' = "next" /\ index' = index + 1 /\ index \in 1..Len(regions)
      /\ lead' = lead /\ pos' = pos /\ remaining' = remaining /\ results' = results
      /\ mem' = mem /\ maps' = maps /\ words' = words /\ line' = line
      /\ regions' = regions /\ pattern' = pattern
      /\ Len(regions) \in Nat /\ Len(pattern) \in Nat
  BY RegionType, PatternType DEF ScanInv, TypeOK, SkipRegion, inputs
<1>1. TypeOK'
  BY <1>0 DEF ScanInv, TypeOK
<1>2. ResultsOK' /\ LeadOK' /\ AnswerOK'
  BY <1>0 DEF ScanInv, ResultsOK, LeadOK, AnswerOK, PatternAt, ByteAt
<1>3. NothingMissed'
  <2>1. SUFFICES ASSUME pattern # <<>>, NEW i \in 1..Len(regions), NEW a \in Nat,
                        FitsRegion(a, i), PatternAt(a), i < index + 1
                 PROVE  Reported(a)
    BY <1>0 DEF NothingMissed, Passed, FitsRegion, PatternAt, Reported, ByteAt
  <2>2. CASE i < index
    BY <2>1, <2>2 DEF ScanInv, NothingMissed, Passed
  <2>3. CASE i = index
    <3>1. Size < Len(pattern)
      BY <2>1 DEF SkipRegion
    <3>2. Base <= a /\ a + Len(pattern) <= Base + Size
      BY <2>1, <2>3 DEF FitsRegion, Base, Size
    <3>3. Base \in Nat /\ Size \in Nat
      BY <1>0, RegionType DEF ScanInv, TypeOK, Base, Size
    <3>4. QED  BY <3>1, <3>2, <3>3, <1>0
  <2>4. QED  BY <1>0, <2>1, <2>2, <2>3
<1>4. ResultsBehind'
  <2>1. SUFFICES ASSUME NEW n \in 1..Len(results), index + 1 <= Len(regions)
                 PROVE  results[n] < regions[index + 1].base
    BY <1>0 DEF ResultsBehind, Base
  <2>2. results[n] < Base /\ results[n] \in Nat
    BY <1>0, ElementOfSeq DEF ScanInv, ResultsBehind, TypeOK
  <2>3. /\ regions[index + 1].base >= Base + Size /\ regions[index + 1].base \in Nat
        /\ Base \in Nat /\ Size \in Nat
    BY <1>0, <2>1, NextRegionBehind, RegionType DEF ScanInv
  <2>4. QED  BY <2>2, <2>3
<1>5. RegionsOK' /\ PatternOK'
  BY <1>0, SearchKeepsInputs
<1>6. QED  BY <1>5, <1>1, <1>2, <1>3, <1>4 DEF ScanInv

LEMMA StartKeeps ==
  ASSUME ScanInv, StartRegion
  PROVE  ScanInv'
<1>0. PICK k \in 0..(Len(pattern) - 1) :
        IsLead(k) /\ lead' = k /\ pos' = Base + k /\ remaining' = Size - k
  BY DEF StartRegion
<1>1. /\ pc = "next" /\ pc' = "scan" /\ index' = index /\ index \in 1..Len(regions)
      /\ results' = results
      /\ mem' = mem /\ maps' = maps /\ words' = words /\ line' = line
      /\ regions' = regions /\ pattern' = pattern
      /\ Len(regions) \in Nat /\ Len(pattern) \in Nat
      /\ Base \in Nat /\ Size \in Nat /\ Size >= Len(pattern)
      /\ results \in Seq(Nat)
  <2>1. index \in 1..Len(regions) /\ Len(pattern) \in Nat /\ results \in Seq(Nat)
    BY RegionType, PatternType DEF ScanInv, TypeOK, StartRegion
  <2>2. Base \in Nat /\ Size \in Nat /\ Len(regions) \in Nat
    BY <2>1, RegionType DEF ScanInv, Base, Size
  <2>3. QED  BY <2>1, <2>2 DEF StartRegion, inputs
<1>2. TypeOK'
  <2>1. Base' = Base /\ Size' = Size
    BY <1>1 DEF Base, Size
  <2>2. /\ lead' \in Nat /\ pos' \in Nat /\ remaining' \in Nat
        /\ lead' < Len(pattern) /\ pos' >= Base + lead' /\ pos' + remaining' = Base + Size
    BY <1>0, <1>1
  <2>3. /\ maps' \in Maps /\ words' \in Seq(Words) /\ mem' \in [Addresses -> Bytes \cup {Unmapped}]
        /\ pattern' \in Seq(Bytes \cup {Any}) /\ results' \in Seq(Nat)
        /\ index' \in 1..(Len(regions') + 1) /\ index' <= Len(regions')
        /\ line' \in 1..(Len(maps') + 1)
        /\ regions' \in Seq([base : Nat, size : Nat \ {0}])
    BY <1>1 DEF ScanInv, TypeOK
  <2>4. Len(pattern') = Len(pattern)
    BY <1>1
  <2>5. QED  BY <1>1, <2>1, <2>2, <2>3, <2>4 DEF TypeOK
<1>3. ResultsOK' /\ AnswerOK'
  BY <1>1 DEF ScanInv, ResultsOK, AnswerOK, PatternAt, ByteAt
<1>4. LeadOK'
  BY <1>0, <1>1 DEF LeadOK, IsLead
<1>5. NothingMissed'
  <2>1. SUFFICES ASSUME pattern # <<>>, NEW i \in 1..Len(regions), NEW a \in Nat,
                        FitsRegion(a, i), PatternAt(a), Passed(a, i)'
                 PROVE  Reported(a)
    BY <1>1 DEF NothingMissed, FitsRegion, PatternAt, Reported, ByteAt
  <2>2. ~(i = index /\ a + k < Base + k)
    BY <1>0, <1>1, <2>1 DEF FitsRegion, Base
  <2>3. i < index
    BY <1>0, <1>1, <2>1, <2>2 DEF Passed
  <2>4. QED  BY <2>1, <2>3 DEF ScanInv, NothingMissed, Passed
<1>6. ResultsBehind'
  <2>1. SUFFICES ASSUME NEW n \in 1..Len(results)  PROVE results[n] + k < Base + k
    BY <1>0, <1>1 DEF ResultsBehind
  <2>2. results[n] < Base
    BY <1>1 DEF ScanInv, ResultsBehind
  <2>3. results[n] \in Nat
    BY <1>1, ElementOfSeq
  <2>4. QED  BY <1>0, <1>1, <2>2, <2>3
<1>7. RegionsOK' /\ PatternOK'
  BY <1>1, SearchKeepsInputs
<1>8. QED  BY <1>7, <1>2, <1>3, <1>4, <1>5, <1>6 DEF ScanInv

LEMMA EndRegionKeeps ==
  ASSUME ScanInv, EndRegion
  PROVE  ScanInv'
<1>0. /\ pc = "scan" /\ pc' = "next" /\ index' = index + 1 /\ index \in 1..Len(regions)
      /\ lead' = lead /\ pos' = pos /\ remaining' = remaining /\ results' = results
      /\ mem' = mem /\ maps' = maps /\ words' = words /\ line' = line
      /\ regions' = regions /\ pattern' = pattern
      /\ Len(regions) \in Nat /\ lead \in Nat /\ pos \in Nat /\ remaining \in Nat
      /\ pos + remaining = Base + Size
  BY RegionType DEF ScanInv, TypeOK, EndRegion, inputs
<1>1. TypeOK'
  BY <1>0 DEF ScanInv, TypeOK
<1>2. ResultsOK' /\ LeadOK' /\ AnswerOK'
  BY <1>0 DEF ScanInv, ResultsOK, LeadOK, AnswerOK, PatternAt, ByteAt
<1>3. NothingMissed'
  <2>1. SUFFICES ASSUME pattern # <<>>, NEW i \in 1..Len(regions), NEW a \in Nat,
                        FitsRegion(a, i), PatternAt(a), i < index + 1
                 PROVE  Reported(a)
    BY <1>0 DEF NothingMissed, Passed, FitsRegion, PatternAt, Reported, ByteAt
  <2>2. CASE Passed(a, i)
    BY <2>1, <2>2 DEF ScanInv, NothingMissed
  <2>3. CASE ~Passed(a, i)
    <3>1. i = index /\ a + lead >= pos
      BY <1>0, <2>1, <2>3 DEF Passed
    <3>2. Candidate(a + lead) /\ remaining >= MinSize
      BY <1>0, <2>1, <3>1, OccurrenceIsCandidate
    <3>3. a + lead \in pos..(pos + remaining - 1) /\ MinSize \in Int
      BY <3>2, PatternType, <1>0 DEF Candidate, MinSize, ScanInv
    <3>4. QED  BY <1>0, <3>2, <3>3 DEF EndRegion
  <2>4. QED  BY <2>2, <2>3
<1>4. ResultsBehind'
  <2>1. SUFFICES ASSUME NEW n \in 1..Len(results), index + 1 <= Len(regions)
                 PROVE  results[n] < regions[index + 1].base
    BY <1>0 DEF ResultsBehind, Base
  <2>2. results[n] + lead < pos /\ results[n] \in Nat
    BY <1>0, ElementOfSeq DEF ScanInv, ResultsBehind, TypeOK
  <2>3. regions[index + 1].base >= Base + Size /\ regions[index + 1].base \in Nat
    BY <1>0, <2>1, NextRegionBehind, RegionType DEF ScanInv
  <2>4. QED  BY <1>0, <2>2, <2>3
<1>5. RegionsOK' /\ PatternOK'
  BY <1>0, SearchKeepsInputs
<1>6. QED  BY <1>5, <1>1, <1>2, <1>3, <1>4 DEF ScanInv

LEMMA CompareKeeps ==
  ASSUME ScanInv, Compare
  PROVE  ScanInv'
<1>0. PICK hit \in pos..(pos + remaining - 1) :
        /\ FirstCandidate(hit)
        /\ results' = IF Matches(hit - lead) THEN Append(results, hit - lead) ELSE results
        /\ remaining' = remaining - (hit + 1 - pos) /\ pos' = hit + 1
  BY DEF Compare, Advance
<1>1. /\ pc = "scan" /\ pc' = "scan" /\ index' = index /\ lead' = lead
      /\ mem' = mem /\ maps' = maps /\ words' = words /\ line' = line
      /\ regions' = regions /\ pattern' = pattern
      /\ index \in 1..Len(regions) /\ Len(regions) \in Nat
      /\ lead \in Nat /\ pos \in Nat /\ remaining \in Nat
      /\ lead < Len(pattern) /\ pos >= Base + lead /\ pos + remaining = Base + Size
      /\ Base \in Nat /\ Size \in Nat /\ results \in Seq(Nat)
  BY RegionType DEF ScanInv, TypeOK, Compare, inputs, Base, Size
<1>2. hit \in Nat /\ hit - lead \in Nat /\ hit < pos + remaining /\ hit >= pos
  BY <1>0, <1>1
<1>3. Base' = Base /\ Size' = Size
  BY <1>1 DEF Base, Size
\* The results grow by the hit or stay as they are.
<1>4. /\ results' \in Seq(Nat)
      /\ \A n \in 1..Len(results) : n \in 1..Len(results') /\ results'[n] = results[n]
      /\ \A n \in 1..Len(results') :
           n \in 1..Len(results) \/ (n = Len(results) + 1 /\ results'[n] = hit - lead
                                     /\ Matches(hit - lead))
      /\ Matches(hit - lead) => \E n \in 1..Len(results') : results'[n] = hit - lead
  <2>1. CASE Matches(hit - lead)
    <3>1. results' = Append(results, hit - lead)
      BY <1>0, <2>1
    <3>2. /\ Len(results) \in Nat /\ results' \in Seq(Nat)
          /\ Len(results') = Len(results) + 1
          /\ \A n \in 1..Len(results) : results'[n] = results[n]
          /\ results'[Len(results) + 1] = hit - lead
      BY <1>1, <1>2, <3>1
    <3>3. QED  BY <2>1, <3>2
  <2>2. CASE ~Matches(hit - lead)
    BY <1>0, <1>1, <2>2
  <2>3. QED  BY <2>1, <2>2
<1>5. TypeOK'
  <2>1. /\ pos' \in Nat /\ remaining' \in Nat
        /\ pos' >= Base + lead /\ pos' + remaining' = Base + Size
    BY <1>0, <1>1, <1>2
  <2>2. QED  BY <1>1, <1>3, <1>4, <2>1 DEF ScanInv, TypeOK
<1>6. \A n \in 1..Len(results) : results[n] + lead < pos /\ results[n] \in Nat
  BY <1>1, ElementOfSeq DEF ScanInv, ResultsBehind
<1>7. ResultsOK'
  <2>1. ASSUME NEW n \in 1..Len(results')
        PROVE  /\ PatternAt(results'[n])
               /\ \E i \in 1..Len(regions) : /\ regions[i].base <= results'[n]
                                             /\ results'[n] < regions[i].base + regions[i].size
    <3>1. CASE n \in 1..Len(results)
      BY <1>4, <3>1 DEF ScanInv, ResultsOK
    <3>2. CASE n \notin 1..Len(results)
      <4>1. results'[n] = hit - lead /\ Matches(hit - lead)
        BY <1>4, <3>2
      <4>2. PatternAt(hit - lead)
        BY <1>0, <1>1, <1>2, <4>1, MatchIsOccurrence DEF FirstCandidate
      <4>3. Base <= hit - lead /\ hit - lead < Base + Size
        BY <1>1, <1>2
      <4>4. QED  BY <1>1, <4>1, <4>2, <4>3 DEF Base, Size
    <3>3. QED  BY <3>1, <3>2
  <2>2. ASSUME NEW n \in 1..Len(results'), NEW k \in 1..Len(results'), n < k
        PROVE  results'[n] < results'[k]
    <3>1. n \in 1..Len(results)
      <4>1. Len(results) \in Nat /\ Len(results') \in Nat
        BY <1>1, <1>4, LenProperties
      <4>2. k \in 1..Len(results) \/ k = Len(results) + 1
        BY <1>4
      <4>3. n \in 1..Len(results) \/ n = Len(results) + 1
        BY <1>4
      <4>4. QED  BY <2>2, <4>1, <4>2, <4>3
    <3>2. CASE k \in 1..Len(results)
      BY <1>4, <2>2, <3>1, <3>2 DEF ScanInv, ResultsOK
    <3>3. CASE k \notin 1..Len(results)
      <4>1. results'[k] = hit - lead
        BY <1>4, <3>3
      <4>2. results'[n] = results[n] /\ results[n] + lead < pos /\ results[n] \in Nat
        BY <1>4, <1>6, <3>1
      <4>3. QED  BY <1>1, <1>2, <4>1, <4>2
    <3>4. QED  BY <3>2, <3>3
  <2>3. QED  BY <1>1, <2>1, <2>2 DEF ResultsOK, PatternAt, ByteAt
<1>8. LeadOK' /\ AnswerOK'
  BY <1>1 DEF ScanInv, LeadOK, AnswerOK
<1>9. NothingMissed'
  <2>1. SUFFICES ASSUME pattern # <<>>, NEW i \in 1..Len(regions), NEW a \in Nat,
                        FitsRegion(a, i), PatternAt(a), Passed(a, i)'
                 PROVE  \E n \in 1..Len(results') : results'[n] = a
    BY <1>1 DEF NothingMissed, FitsRegion, PatternAt, Reported, ByteAt
  <2>2. CASE Passed(a, i)
    <3>1. Reported(a)
      BY <2>1, <2>2 DEF ScanInv, NothingMissed
    <3>2. QED  BY <1>4, <3>1 DEF Reported
  <2>3. CASE ~Passed(a, i)
    <3>1. i = index /\ a + lead >= pos /\ a + lead < hit + 1
      BY <1>0, <1>1, <2>1, <2>3 DEF Passed
    <3>2. Candidate(a + lead) /\ Matches(a)
      BY <1>1, <2>1, <3>1, OccurrenceIsCandidate
    <3>3. a + lead = hit
      BY <1>0, <1>1, <1>2, <3>1, <3>2 DEF FirstCandidate
    <3>4. a = hit - lead
      BY <1>1, <1>2, <3>3
    <3>5. QED  BY <1>4, <3>2, <3>4
  <2>4. QED  BY <2>2, <2>3
<1>10. ResultsBehind'
  <2>1. SUFFICES ASSUME NEW n \in 1..Len(results')  PROVE results'[n] + lead < hit + 1
    BY <1>0, <1>1 DEF ResultsBehind
  <2>2. CASE n \in 1..Len(results)
    <3>1. results'[n] = results[n] /\ results[n] + lead < pos /\ results[n] \in Nat
      BY <1>4, <1>6, <2>2
    <3>2. QED  BY <1>1, <1>2, <3>1
  <2>3. CASE n \notin 1..Len(results)
    BY <1>1, <1>2, <1>4, <2>3
  <2>4. QED  BY <2>2, <2>3
<1>11. RegionsOK' /\ PatternOK'
  BY <1>1, SearchKeepsInputs
<1>12. QED  BY <1>11, <1>5, <1>7, <1>8, <1>9, <1>10 DEF ScanInv

\* The steps that end the search change nothing but its state.
LEMMA EndKeeps ==
  ASSUME ScanInv, OnlyWildcards \/ Crash \/ ReturnAll \/ ReturnOne \/ UNCHANGED vars
  PROVE  ScanInv'
<1>1. /\ index' = index /\ lead' = lead /\ pos' = pos /\ remaining' = remaining
      /\ results' = results /\ mem' = mem /\ regions' = regions /\ pattern' = pattern
      /\ maps' = maps /\ words' = words /\ line' = line
      /\ pc' = pc \/ (pc \in {"next", "scan"} /\ pc' \in {"threw", "crashed", "all", "one"})
      /\ pc' \in {"all", "one"} => pc' = pc \/ index > Len(regions)
      /\ pc' = "one" => pc' = pc \/ Len(results) = 1
  BY DEF OnlyWildcards, Crash, ReturnAll, ReturnOne, AllSearched, inputs, search, vars
<1>2. TypeOK'
  BY <1>1 DEF ScanInv, TypeOK, Base, Size
<1>3. ResultsOK' /\ LeadOK' /\ ResultsBehind' /\ AnswerOK'
  BY <1>1 DEF ScanInv, ResultsOK, LeadOK, ResultsBehind, AnswerOK, PatternAt, ByteAt, Base
<1>4. NothingMissed'
  <2>1. SUFFICES ASSUME pattern # <<>>, NEW i \in 1..Len(regions), NEW a \in Nat,
                        FitsRegion(a, i), PatternAt(a), Passed(a, i)'
                 PROVE  Reported(a)
    BY <1>1 DEF NothingMissed, FitsRegion, PatternAt, Reported, ByteAt
  <2>2. Passed(a, i)
    BY <1>1, <2>1 DEF Passed
  <2>3. QED  BY <2>1, <2>2 DEF ScanInv, NothingMissed
<1>5. RegionsOK' /\ PatternOK'
  BY <1>1 DEF ScanInv, RegionsOK, PatternOK
<1>6. QED  BY <1>5, <1>2, <1>3, <1>4 DEF ScanInv

-----------------------------------------------------------------------------
\* The invariant holds in every state of every scan.
THEOREM ScanInvariant == Spec => []ScanInv
<1>1. Init => ScanInv
  BY InitScanInv
<1>2. ScanInv /\ [Next]_vars => ScanInv'
  BY ReadLineKeeps, ParseWordKeeps, PhaseKeeps, SkipKeeps, StartKeeps, EndRegionKeeps, CompareKeeps, EndKeeps DEF Next
<1>3. QED  BY <1>1, <1>2, PTL DEF Spec

(***************************************************************************)
(* The types, and the bounds that the loop of signed_pattern_scan_region   *)
(* asserts.                                                                *)
(***************************************************************************)
THEOREM ScanTypeCorrect == Spec => []TypeOK
<1>1. ScanInv => TypeOK
  BY DEF ScanInv
<1>2. QED  BY <1>1, ScanInvariant, PTL

\* At the end of a search: the text and the mappings are those of the
\* pattern and the regions.
LEMMA TextIsPattern ==
  ASSUME ScanInv, Len(pattern) = Len(words), NEW a \in Nat
  PROVE  Occurs(a) <=> PatternAt(a)
<1>1. Len(words) \in Nat
  BY LenProperties DEF ScanInv, TypeOK
<1>2. \A i \in 1..Len(words) :
        \/ words[i] \in Wild /\ pattern[i] = Any
        \/ words[i] \notin Wild /\ pattern[i] = Stoul[words[i]] /\ pattern[i] # Any
  BY DEF ScanInv, PatternOK
<1>3. QED  BY <1>2 DEF Occurs, PatternAt

(***************************************************************************)
(* Whatever the memory, the module and the pattern: no occurrence in a     *)
(* mapping of the module is missed.                                        *)
(***************************************************************************)
THEOREM NoOccurrenceMissed == Spec => []OccurrencesReported
<1>1. ScanInv => OccurrencesReported
  <2>1. SUFFICES ASSUME ScanInv, words # <<>>, pc \in {"all", "one"},
                        NEW k \in 1..Len(maps), NEW a \in maps[k].start..(maps[k].end - 1),
                        OccursIn(a, k)
                 PROVE  Reported(a)
    BY DEF OccurrencesReported
  <2>2. a \in Nat /\ maps[k].start \in Nat /\ maps[k].end \in Nat
    BY <2>1, MapsType DEF ScanInv, TypeOK
  <2>3. Len(pattern) = Len(words) /\ line = Len(maps) + 1 /\ Len(maps) \in Nat
    BY <2>1, MapsType DEF ScanInv, TypeOK, PatternOK, RegionsOK
  <2>4. PICK i \in 1..Len(regions) : regions[i] = RegionOf(maps[k])
    BY <2>1, <2>3 DEF ScanInv, RegionsOK, OccursIn
  <2>5. PatternAt(a)
    BY <2>1, <2>2, <2>3, TextIsPattern DEF OccursIn
  <2>6. FitsRegion(a, i)
    <3>1. regions[i].base = maps[k].start /\ regions[i].base + regions[i].size = maps[k].end
      BY <2>2, <2>4 DEF RegionOf
    <3>2. QED  BY <2>1, <2>3, <3>1 DEF FitsRegion, OccursIn
  <2>7. pattern # <<>>
    <3>1. Len(words) # 0
      BY <2>1, EmptySeq, LenProperties DEF ScanInv, TypeOK
    <3>2. QED  BY <2>1, <2>3, <3>1, PatternType DEF ScanInv
  <2>8. i < index
    <3>1. index > Len(regions)
      BY <2>1 DEF ScanInv, AnswerOK
    <3>2. Len(regions) \in Nat
      BY <2>1, RegionType DEF ScanInv
    <3>3. index \in 1..(Len(regions) + 1)
      BY <2>1 DEF ScanInv, TypeOK
    <3>4. QED  BY <2>4, <3>1, <3>2, <3>3
  <2>9. Passed(a, i)
    BY <2>8 DEF Passed
  <2>10. NothingMissed
    BY <2>1 DEF ScanInv
  <2>11. QED  BY <2>2, <2>4, <2>5, <2>6, <2>7, <2>9, <2>10 DEF NothingMissed
<1>2. QED  BY <1>1, ScanInvariant, PTL

(***************************************************************************)
(* Every result is an occurrence that begins in the module, and none is    *)
(* reported twice.                                                         *)
(***************************************************************************)
THEOREM ResultsCorrect == Spec => []ResultsSound
<1>1. ScanInv => ResultsSound
  <2>1. SUFFICES ASSUME ScanInv, NEW n \in 1..Len(results)
                 PROVE  Occurs(results[n]) /\ InModule(results[n])
    BY DEF ScanInv, ResultsOK, ResultsSound
  <2>2. results[n] \in Nat /\ Len(pattern) = Len(words)
    BY <2>1, ElementOfSeq DEF ScanInv, TypeOK, PatternOK
  <2>3. PatternAt(results[n])
    BY <2>1 DEF ScanInv, ResultsOK
  <2>4. PICK i \in 1..Len(regions) : /\ regions[i].base <= results[n]
                                    /\ results[n] < regions[i].base + regions[i].size
    BY <2>1 DEF ScanInv, ResultsOK
  <2>5. PICK k \in 1..Len(maps) : OfModule(maps[k]) /\ regions[i] = RegionOf(maps[k])
    BY <2>1 DEF ScanInv, RegionsOK
  <2>6. regions[i].base = maps[k].start /\ regions[i].base + regions[i].size = maps[k].end
    <3>1. maps[k].start \in Nat /\ maps[k].end \in Nat
      BY <2>1, <2>5, MapsType DEF ScanInv, TypeOK
    <3>2. QED  BY <2>5, <3>1 DEF RegionOf
  <2>7. InModule(results[n])
    BY <2>4, <2>5, <2>6 DEF InModule
  <2>8. QED  BY <2>1, <2>2, <2>3, <2>7, TextIsPattern
<1>2. QED  BY <1>1, ScanInvariant, PTL

(***************************************************************************)
(* The single answer of pattern_scan_module is the only occurrence in a    *)
(* mapping of the module.                                                  *)
(***************************************************************************)
THEOREM SingleAnswerUnique == Spec => []OneIsTheOnlyOne
<1>1. ScanInv /\ OccurrencesReported => OneIsTheOnlyOne
  <2>1. SUFFICES ASSUME ScanInv, OccurrencesReported, words # <<>>, pc = "one",
                        NEW k \in 1..Len(maps), NEW a \in maps[k].start..(maps[k].end - 1),
                        OccursIn(a, k)
                 PROVE  a = results[1]
    BY DEF OneIsTheOnlyOne
  <2>2. Reported(a)
    BY <2>1 DEF OccurrencesReported
  <2>3. Len(results) = 1
    BY <2>1 DEF ScanInv, AnswerOK
  <2>4. QED  BY <2>2, <2>3 DEF Reported
<1>2. QED  BY <1>1, ScanInvariant, NoOccurrenceMissed, PTL

(***************************************************************************)
(* Each round of the search leaves fewer regions before it, or less of the *)
(* region at hand; both are natural numbers, so that it ends.              *)
(***************************************************************************)
THEOREM ScanEnds == Spec => ScanAdvances /\ [](RegionsLeft \in Nat /\ remaining \in Nat)
<1> DEFINE Less == \/ RegionsLeft' < RegionsLeft
                   \/ RegionsLeft' = RegionsLeft /\ remaining' < remaining
           Advances == {pc, pc'} \subseteq {"next", "scan"} => Less
<1>1. ScanInv => /\ Len(regions) \in Nat /\ index \in 1..(Len(regions) + 1)
                 /\ remaining \in Nat /\ pos \in Nat
  BY RegionType DEF ScanInv, TypeOK
<1>2. ScanInv => RegionsLeft \in Nat /\ remaining \in Nat
  BY <1>1 DEF RegionsLeft
<1>3. ScanInv /\ [Next]_vars => [Advances]_vars
  <2> SUFFICES ASSUME ScanInv, Next, pc \in {"next", "scan"}, pc' \in {"next", "scan"}
               PROVE  Less
    OBVIOUS
  <2>1. CASE SkipRegion \/ StartRegion \/ EndRegion
    BY <1>1, <2>1 DEF SkipRegion, StartRegion, EndRegion, RegionsLeft
  <2>2. CASE Compare
    <3>1. UNCHANGED <<pc, regions, index>>
      BY <2>2 DEF Compare
    <3>2. PICK hit \in pos..(pos + remaining - 1) : remaining' = remaining - (hit + 1 - pos)
      BY <2>2 DEF Compare, Advance
    <3>3. remaining' < remaining
      BY <1>1, <3>2
    <3>4. QED  BY <3>1, <3>3 DEF RegionsLeft
  <2>3. QED
    BY <2>1, <2>2 DEF Next, NoMaps, ReadLine, LinesRead, ParseWord, WordsParsed, OnlyWildcards,
       Crash, ReturnAll, ReturnOne
<1>4. Spec => [][Advances]_vars
  BY <1>3, ScanInvariant, PTL DEF Spec
<1>5. Spec => [](RegionsLeft \in Nat /\ remaining \in Nat)
  BY <1>2, ScanInvariant, PTL
<1>6. QED  BY <1>4, <1>5 DEF ScanAdvances

-----------------------------------------------------------------------------
(* The search always has a next step.                                      *)

\* The well-ordering of the natural numbers.
LEMMA LeastNumber ==
  ASSUME NEW T \in SUBSET Nat, T # {}
  PROVE  \E x \in T : \A y \in T : x <= y
<1> DEFINE Below == OpToRel(<, Nat)
<1>1. IsWellFoundedOn(Below, Nat)
  BY NatLessThanWellFounded
<1> HIDE DEF Below
<1>2. PICK x \in T : \A y \in T : ~(<<y, x>> \in Below)
  BY <1>1, WFMin
<1>3. ASSUME NEW y \in T  PROVE x <= y
  <2>1. x \in Nat /\ y \in Nat
    OBVIOUS
  <2>2. ~(y < x)
    BY <1>2, <2>1 DEF Below, OpToRel
  <2>3. QED  BY <2>1, <2>2
<1>4. QED  BY <1>3

\* A number of leading wildcards, for the loop over them that StartRegion and
\* OnlyWildcards stand for; and a first candidate, for memchr.
SearchGoesOn ==
  /\ pc = "next" => \E n \in 0..Len(pattern) : IsLead(n)
  /\ pc = "scan" => \/ \A a \in pos..(pos + remaining - 1) : ~Candidate(a)
                     \/ \E hit \in pos..(pos + remaining - 1) : FirstCandidate(hit)

(***************************************************************************)
(* What the model assigns by its properties exists, for every pattern and  *)
(* memory: the number of leading wildcards and the hit of memchr.  So no   *)
(* search stops for lack of a step that the code would take.               *)
(***************************************************************************)
THEOREM SearchDefined == Spec => []SearchGoesOn
<1>1. ASSUME ScanInv, pc = "next"  PROVE \E n \in 0..Len(pattern) : IsLead(n)
  <2> DEFINE T == {n \in 0..Len(pattern) : n < Len(pattern) => pattern[n + 1] # Any}
  <2>1. Len(pattern) \in Nat
    BY <1>1, PatternType DEF ScanInv
  <2>2. T \in SUBSET Nat /\ Len(pattern) \in T
    BY <2>1
  <2>3. PICK n \in T : \A m \in T : n <= m
    <3> HIDE DEF T
    <3>1. QED  BY <2>2, LeastNumber
  <2>4. ASSUME NEW i \in 1..n  PROVE pattern[i] = Any
    <3>1. i \in Nat /\ i - 1 \in 0..Len(pattern) /\ i - 1 < n /\ i - 1 < Len(pattern) /\ (i - 1) + 1 = i
      BY <2>1, <2>3
    <3>2. i - 1 \notin T
      BY <2>1, <2>3, <3>1
    <3>3. QED  BY <3>1, <3>2
  <2>5. QED  BY <2>3, <2>4 DEF IsLead
<1>2. ASSUME ScanInv, pc = "scan", NEW a \in pos..(pos + remaining - 1), Candidate(a)
      PROVE  \E hit \in pos..(pos + remaining - 1) : FirstCandidate(hit)
  <2> DEFINE T == {b \in pos..(pos + remaining - 1) : Candidate(b)}
  <2>1. pos \in Nat /\ remaining \in Nat
    BY <1>2 DEF ScanInv, TypeOK
  <2>2. T \in SUBSET Nat /\ T # {}
    BY <1>2, <2>1
  <2>3. PICK hit \in T : \A b \in T : hit <= b
    <3> HIDE DEF T
    <3>1. QED  BY <2>2, LeastNumber
  <2>4. hit \in pos..(pos + remaining - 1) /\ hit \in Nat /\ Candidate(hit)
    BY <2>1, <2>3
  <2>5. ASSUME NEW b \in pos..(hit - 1)  PROVE ~Candidate(b)
    <3>1. b \in pos..(pos + remaining - 1) /\ b < hit
      BY <2>1, <2>4
    <3>2. QED  BY <2>3, <2>4, <3>1
  <2>6. QED  BY <2>4, <2>5 DEF FirstCandidate
<1>3. ScanInv => SearchGoesOn
  BY <1>1, <1>2 DEF SearchGoesOn
<1>4. QED  BY <1>3, ScanInvariant, PTL
=============================================================================
