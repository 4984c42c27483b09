---------------------------- MODULE PatternScan ----------------------------
(***************************************************************************)
(* pattern_scan_module and pattern_scan_module_multi (src/ztour.cpp) with  *)
(* what they call of src/memory.cpp.  get_module_bin_regions reads the     *)
(* lines of /proc/self/maps and keeps those of the module,                 *)
(* parse_pattern_str reads the words of the pattern, and                   *)
(* signed_pattern_scan_region searches one region after the other.  The    *)
(* offset that is added to each result is left out.                        *)
(***************************************************************************)
EXTENDS Integers, Sequences

CONSTANTS
  MaxByte, Any,   \* the largest byte, and the wildcard (-1 in a SignedBytePattern)
  Unmapped,       \* what is at an address that cannot be read
  LastAddress,    \* bound: nothing is mapped above
  Words, Wild,    \* words of a pattern, and those that stand for any byte
  Stoul, NoNumber,\* external: the number that std::stoul reads at the start of a word
  ModuleName,
  Maps,           \* external: what /proc/self/maps may hold, line by line
  MaxPattern      \* bound: length of a pattern

Bytes == 0..MaxByte
Addresses == 0..LastAddress

(***************************************************************************)
(* The kernel lists the mappings in the order of their addresses.  The     *)
(* name of a line is what follows the last slash of its path, read up to   *)
(* the first blank; a line without a path has the name of no module.       *)
(***************************************************************************)
ASSUME ScanAssumption ==
  /\ LastAddress \in Nat /\ MaxByte \in Nat /\ MaxPattern \in Nat
  /\ Any \notin Bytes /\ Unmapped \notin Bytes /\ Unmapped # Any
  /\ Wild \subseteq Words
  /\ Stoul \in [Words \ Wild -> Nat \cup {NoNumber}] /\ NoNumber \notin Nat
  /\ \A m \in Maps :
       /\ DOMAIN m = 1..Len(m) /\ Len(m) \in Nat
       /\ \A k \in 1..Len(m) :
            /\ m[k].start \in Nat /\ m[k].end \in Nat
            /\ m[k].start < m[k].end /\ m[k].end <= LastAddress + 1
       /\ \A k \in 1..Len(m), n \in 1..Len(m) : k < n => m[k].end <= m[n].start

VARIABLES
  mem,        \* what each address holds; it does not change
  maps,       \* the lines of /proc/self/maps
  words,      \* the words of the pattern
  pc,         \* what is being done, or how it ended
  line,       \* the line of maps that is read next
  regions,    \* the regions of the module
  pattern,    \* SignedBytePattern
  index,      \* the region that is searched
  lead,       \* leading_wildcards
  pos,        \* cur_start_pos
  remaining,  \* remaining_size
  results

inputs == <<mem, maps, words>>
vars == <<mem, maps, words, pc, line, regions, pattern, index, lead, pos, remaining, results>>
search == <<index, lead, pos, remaining, results>>

ByteAt(a) == IF a \in Addresses THEN mem[a] ELSE Unmapped

Init ==
  /\ maps \in Maps
  /\ mem \in [Addresses -> Bytes \cup {Unmapped}]
  /\ \A a \in Addresses :
       mem[a] # Unmapped <=>
         \E k \in 1..Len(maps) : maps[k].readable /\ a \in maps[k].start..(maps[k].end - 1)
  /\ \E n \in 0..MaxPattern : words \in [1..n -> Words]
  /\ pc = "maps" /\ line = 1
  /\ regions = <<>> /\ pattern = <<>>
  /\ index = 1 /\ lead = 0 /\ pos = 0 /\ remaining = 0
  /\ results = <<>>

-----------------------------------------------------------------------------
(* The module and the pattern.                                             *)

OfModule(l) == l.readable /\ l.name = ModuleName
RegionOf(l) == [base |-> l.start, size |-> l.end - l.start]

\* /proc/self/maps cannot be opened.
NoMaps ==
  /\ pc = "maps" /\ line = 1
  /\ pc' = "threw"
  /\ UNCHANGED <<inputs, line, regions, pattern, search>>

\* Faulty variant of ReadLine: a module has one region, as on Windows.
ReadLineOnce ==
  /\ pc = "maps" /\ line <= Len(maps)
  /\ regions' = IF OfModule(maps[line]) /\ regions = <<>>
                  THEN Append(regions, RegionOf(maps[line])) ELSE regions
  /\ line' = line + 1
  /\ UNCHANGED <<inputs, pc, pattern, search>>

ReadLine ==
  /\ pc = "maps" /\ line <= Len(maps)
  /\ regions' = IF OfModule(maps[line]) THEN Append(regions, RegionOf(maps[line])) ELSE regions
  /\ line' = line + 1
  /\ UNCHANGED <<inputs, pc, pattern, search>>

LinesRead ==
  /\ pc = "maps" /\ line > Len(maps)
  /\ pc' = IF regions = <<>> THEN "threw" ELSE "parse"
  /\ UNCHANGED <<inputs, line, regions, pattern, search>>

\* Faulty variant of ParseWord: the number is cut to a byte.
ParseWordCut ==
  /\ pc = "parse" /\ Len(pattern) < Len(words)
  /\ LET w == words[Len(pattern) + 1] IN
       \/ w \in Wild /\ pattern' = Append(pattern, Any) /\ UNCHANGED pc
       \/ /\ w \notin Wild /\ Stoul[w] # NoNumber
          /\ pattern' = Append(pattern, Stoul[w] % (MaxByte + 1)) /\ UNCHANGED pc
       \/ /\ w \notin Wild /\ Stoul[w] = NoNumber
          /\ pc' = "threw" /\ UNCHANGED pattern
  /\ UNCHANGED <<inputs, line, regions, search>>

(***************************************************************************)
(* A word is a wildcard, or stands for the number at its start: whatever   *)
(* follows the number is ignored.  No number, or too large a one, throws.  *)
(***************************************************************************)
ParseWord ==
  /\ pc = "parse" /\ Len(pattern) < Len(words)
  /\ LET w == words[Len(pattern) + 1] IN
       \/ w \in Wild /\ pattern' = Append(pattern, Any) /\ UNCHANGED pc
       \/ /\ w \notin Wild /\ Stoul[w] \in Bytes
          /\ pattern' = Append(pattern, Stoul[w]) /\ UNCHANGED pc
       \/ /\ w \notin Wild /\ Stoul[w] \notin Bytes
          /\ pc' = "threw" /\ UNCHANGED pattern
  /\ UNCHANGED <<inputs, line, regions, search>>

WordsParsed ==
  /\ pc = "parse" /\ Len(pattern) = Len(words)
  /\ pc' = "next"
  /\ UNCHANGED <<inputs, line, regions, pattern, search>>

-----------------------------------------------------------------------------
(* The search.                                                             *)

Base == regions[index].base
Size == regions[index].size

IsLead(n) == /\ n \in 0..Len(pattern)
             /\ \A i \in 1..n : pattern[i] = Any
             /\ n < Len(pattern) => pattern[n + 1] # Any
MinSize == Len(pattern) - lead

\* The region is left out if it is too small for the pattern.
SkipRegion ==
  /\ pc = "next" /\ index <= Len(regions)
  /\ pattern = <<>> \/ Size < Len(pattern)
  /\ index' = index + 1
  /\ UNCHANGED <<inputs, line, regions, pattern, pc, lead, pos, remaining, results>>

\* The search throws on a pattern that has only wildcards.
OnlyWildcards ==
  /\ pc = "next" /\ index <= Len(regions)
  /\ pattern # <<>> /\ Size >= Len(pattern)
  /\ IsLead(Len(pattern))
  /\ pc' = "threw"
  /\ UNCHANGED <<inputs, line, regions, pattern, index, lead, pos, remaining, results>>

\* Faulty variant of StartRegion: the start is not moved past the wildcards.
StartAtBase ==
  /\ pc = "next" /\ index <= Len(regions)
  /\ pattern # <<>> /\ Size >= Len(pattern)
  /\ \E n \in 0..(Len(pattern) - 1) : IsLead(n) /\ lead' = n
  /\ pos' = Base /\ remaining' = Size
  /\ pc' = "scan"
  /\ UNCHANGED <<inputs, line, regions, pattern, index, results>>

StartRegion ==
  /\ pc = "next" /\ index <= Len(regions)
  /\ pattern # <<>> /\ Size >= Len(pattern)
  /\ \E n \in 0..(Len(pattern) - 1) :
       /\ IsLead(n)
       /\ lead' = n /\ pos' = Base + n /\ remaining' = Size - n
  /\ pc' = "scan"
  /\ UNCHANGED <<inputs, line, regions, pattern, index, results>>

-----------------------------------------------------------------------------
(***************************************************************************)
(* memchr looks for the first byte of the pattern that is not a wildcard   *)
(* in all that remains, also where the pattern no longer fits.             *)
(***************************************************************************)
Candidate(a) == /\ a \in pos..(pos + remaining - 1)
                /\ ByteAt(a) = pattern[lead + 1]
FirstCandidate(a) == Candidate(a) /\ \A b \in pos..(a - 1) : ~Candidate(b)

\* Faulty variant of Differs: j starts at 0.
DiffersShifted(a, i) == pattern[i] # Any /\ ByteAt(a + i - 2) # pattern[i]

\* The comparison of the rest, which stops at the first difference.
Differs(a, i) == pattern[i] # Any /\ ByteAt(a + i - 1) # pattern[i]
Matches(a) == \A i \in (lead + 2)..Len(pattern) : ~Differs(a, i)
ReadsUnmapped(a) ==
  \E i \in (lead + 2)..Len(pattern) :
    /\ Differs(a, i) /\ ByteAt(a + i - 1) = Unmapped
    /\ \A k \in (lead + 2)..(i - 1) : ~Differs(a, k)

\* Faulty variant of Advance: the search goes on behind the whole pattern.
AdvanceTooFar(hit) ==
  /\ remaining' = remaining - (hit + MinSize - pos)
  /\ pos' = hit + MinSize

\* Faulty variant of Advance: the search goes on at the hit itself.
AdvanceToHit(hit) ==
  /\ remaining' = remaining - (hit - pos)
  /\ pos' = hit

Advance(hit) ==
  /\ remaining' = remaining - (hit + 1 - pos)
  /\ pos' = hit + 1

Compare ==
  /\ pc = "scan" /\ remaining >= MinSize
  /\ \E hit \in pos..(pos + remaining - 1) :
       /\ FirstCandidate(hit)
       /\ ~ReadsUnmapped(hit - lead)
       /\ results' = IF Matches(hit - lead) THEN Append(results, hit - lead) ELSE results
       /\ Advance(hit)
  /\ UNCHANGED <<inputs, line, regions, pattern, pc, index, lead>>

Crash ==
  /\ pc = "scan" /\ remaining >= MinSize
  /\ \E hit \in pos..(pos + remaining - 1) :
       FirstCandidate(hit) /\ ReadsUnmapped(hit - lead)
  /\ pc' = "crashed"
  /\ UNCHANGED <<inputs, line, regions, pattern, index, lead, pos, remaining, results>>

EndRegion ==
  /\ pc = "scan"
  /\ remaining < MinSize \/ \A a \in pos..(pos + remaining - 1) : ~Candidate(a)
  /\ pc' = "next" /\ index' = index + 1
  /\ UNCHANGED <<inputs, line, regions, pattern, lead, pos, remaining, results>>

-----------------------------------------------------------------------------
AllSearched == pc = "next" /\ index > Len(regions)

\* pattern_scan_module_multi
ReturnAll ==
  /\ AllSearched
  /\ pc' = "all"
  /\ UNCHANGED <<inputs, line, regions, pattern, index, lead, pos, remaining, results>>

\* Faulty variant of ReturnOne: the first of several is good enough.
ReturnFirst ==
  /\ AllSearched
  /\ pc' = IF Len(results) >= 1 THEN "one" ELSE "threw"
  /\ UNCHANGED <<inputs, line, regions, pattern, index, lead, pos, remaining, results>>

\* pattern_scan_module
ReturnOne ==
  /\ AllSearched
  /\ pc' = IF Len(results) = 1 THEN "one" ELSE "threw"
  /\ UNCHANGED <<inputs, line, regions, pattern, index, lead, pos, remaining, results>>

Next ==
  \/ NoMaps \/ ReadLine \/ LinesRead \/ ParseWord \/ WordsParsed
  \/ SkipRegion \/ OnlyWildcards \/ StartRegion
  \/ Compare \/ Crash \/ EndRegion
  \/ ReturnAll \/ ReturnOne

Spec == Init /\ [][Next]_vars

-----------------------------------------------------------------------------
\* The reference: where the text of the pattern occurs, in which mapping of
\* the module that is, and what was reported.
Occurs(a) ==
  \A i \in 1..Len(words) : words[i] \in Wild \/ ByteAt(a + i - 1) = Stoul[words[i]]
OccursIn(a, k) ==
  /\ OfModule(maps[k]) /\ maps[k].start <= a /\ a + Len(words) <= maps[k].end
  /\ Occurs(a)
InModule(a) == \E k \in 1..Len(maps) :
  OfModule(maps[k]) /\ maps[k].start <= a /\ a < maps[k].end
Reported(a) == \E n \in 1..Len(results) : results[n] = a

(***************************************************************************)
(* Types.  In the loop, what remains ends where the region ends, so that   *)
(* the assertion on step_size holds and remaining_size never wraps.        *)
(***************************************************************************)
TypeOK ==
  /\ maps \in Maps
  /\ mem \in [Addresses -> Bytes \cup {Unmapped}]
  /\ words \in Seq(Words)
  /\ pc \in {"maps", "parse", "next", "scan", "threw", "crashed", "all", "one"}
  /\ line \in 1..(Len(maps) + 1)
  /\ regions \in Seq([base : Nat, size : Nat \ {0}])
  /\ pattern \in Seq(Bytes \cup {Any})
  /\ index \in 1..(Len(regions) + 1)
  /\ lead \in Nat /\ pos \in Nat /\ remaining \in Nat
  /\ results \in Seq(Nat)
  /\ pc = "scan" => /\ index <= Len(regions)
                    /\ lead < Len(pattern)
                    /\ pos >= Base + lead
                    /\ pos + remaining = Base + Size

(***************************************************************************)
(* "Returns all addresses that matched the pattern" (ztour.h:24): every    *)
(* occurrence of the text that lies in one readable mapping of the module  *)
(* is among the results, overlapping ones and those at either end of the   *)
(* mapping included.                                                       *)
(***************************************************************************)
OccurrencesReported ==
  words # <<>> /\ pc \in {"all", "one"} =>
    \A k \in 1..Len(maps) :
      \A a \in maps[k].start..(maps[k].end - 1) : OccursIn(a, k) => Reported(a)

(***************************************************************************)
(* Every result is an occurrence of the text that begins in a readable     *)
(* mapping of the module, and none is reported twice, also where two       *)
(* mappings touch and the comparison reads across the border.              *)
(***************************************************************************)
ResultsSound ==
  /\ \A n \in 1..Len(results) : Occurs(results[n]) /\ InModule(results[n])
  /\ \A n \in 1..Len(results), k \in 1..Len(results) : n < k => results[n] < results[k]

(***************************************************************************)
(* "Returns the one address matching the pattern" (ztour.h:29): an answer  *)
(* of pattern_scan_module is the only occurrence in any mapping.           *)
(***************************************************************************)
OneIsTheOnlyOne ==
  words # <<>> /\ pc = "one" =>
    \A k \in 1..Len(maps) :
      \A a \in maps[k].start..(maps[k].end - 1) : OccursIn(a, k) => a = results[1]

\* What the search has before it: each region is looked at and then scanned.
RegionsLeft == 2 * (Len(regions) + 1 - index) + (IF pc = "next" THEN 1 ELSE 0)

(***************************************************************************)
(* The scan ends for every memory and pattern: a round of its loops leaves *)
(* fewer regions before it, or less of the region that is searched.        *)
(***************************************************************************)
ScanAdvances ==
  [][{pc, pc'} \subseteq {"next", "scan"} =>
       \/ RegionsLeft' < RegionsLeft
       \/ RegionsLeft' = RegionsLeft /\ remaining' < remaining]_vars

(***************************************************************************)
(* "Pattern scans a specific module" (ztour.h:22): nothing outside the     *)
(* module is read, so that no address whose match runs out of the module   *)
(* is reported and no unreadable memory is touched.                        *)
(***************************************************************************)
ScanStaysInModule ==
  /\ pc # "crashed"
  /\ \A n \in 1..Len(results) :
       \A i \in 0..(Len(words) - 1) : InModule(results[n] + i)
=============================================================================
