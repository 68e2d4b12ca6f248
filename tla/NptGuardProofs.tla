--------------------------- MODULE NptGuardProofs ---------------------------
(***************************************************************************)
(* Proofs about the integrity guard, for every guest memory, every set of  *)
(* regions and requests, and any number of guest writes: no false alarm,   *)
(* no acknowledged map without a baseline, and type correctness.           *)
(***************************************************************************)
EXTENDS NptGuard, Integers, FiniteSetTheorems, SequenceTheorems, TLAPS

-----------------------------------------------------------------------------
(* Reading a region.                                                       *)

\* The cells of a region by their position.
LEMMA CellAt ==
  ASSUME NEW r, r.gpa \in Nat, r.size \in Nat, NEW k \in 1 .. r.size
  PROVE  r.gpa + k - 1 \in CellsOf(r)
BY DEF CellsOf

\* An untouched cell still holds what it held at the start.
LEMMA CellKept ==
  ASSUME MemInv, NEW r, r.gpa \in Nat, r.size \in Nat, CellsOf(r) \subseteq Cells,
         NEW k \in 1 .. r.size
  PROVE  /\ mem[r.gpa + k - 1] \in Values
         /\ Untouched(r) => mem[r.gpa + k - 1] = BootMem[r.gpa + k - 1]
<1>1. r.gpa + k - 1 \in CellsOf(r)
  BY Zenon, CellAt
<1> QED
  BY Zenon, <1>1 DEF MemInv, Untouched

\* One more chunk keeps what has been read a prefix of the region, and a complete
\* read of an untouched region is what it held at the start.
LEMMA HashPrefix ==
  ASSUME MemInv, RegionInv, idx \in DOMAIN regions, PrefixOK(regions[idx])
  PROVE  /\ Hash \in Seq(Values) /\ Len(Hash) <= regions[idx].size
         /\ Untouched(regions[idx]) =>
              \A k \in 1 .. Len(Hash) : Hash[k] = BootMem[regions[idx].gpa + k - 1]
         /\ Complete => Hash # <<>>
         /\ Complete /\ Untouched(regions[idx]) => Hash = BootContent(regions[idx])
<1> DEFINE r == regions[idx]
           l == Len(read)
           n == IF r.size - l > PageSize THEN PageSize ELSE r.size - l
<1>1. r \in Region /\ RegionOK(r)
  BY DEF RegionInv
<1>2. /\ r.gpa \in Nat /\ r.size \in Nat /\ r.size # 0 /\ CellsOf(r) \subseteq Cells
  BY Zenon, <1>1 DEF Region, RegionOK
<1>3. read \in Seq(Values) /\ l \in Nat /\ l <= r.size
  BY DEF PrefixOK
<1>4. n \in Nat /\ l + n <= r.size /\ PageSize \in Nat
  BY <1>2, <1>3, GeometryAssumption
<1>5. Chunk = [k \in 1 .. n |-> mem[r.gpa + l + k - 1]]
  BY Zenon DEF Chunk
<1> HIDE DEF r, n, l
<1>6. ASSUME NEW k \in 1 .. n
      PROVE  /\ mem[r.gpa + l + k - 1] \in Values
             /\ Untouched(r) => mem[r.gpa + l + k - 1] = BootMem[r.gpa + (l + k) - 1]
  <2>1. l + k \in 1 .. r.size
    BY <1>2, <1>3, <1>4
  <2>2. r.gpa + l + k - 1 = r.gpa + (l + k) - 1
    BY <1>2, <1>3, <1>4
  <2> QED
    BY Zenon, <1>2, <2>1, <2>2, CellKept
<1>7. Chunk \in Seq(Values) /\ Len(Chunk) = n
  <2>1. Chunk \in [1 .. n -> Values]
    BY Zenon, <1>5, <1>6
  <2> QED
    BY <1>4, <2>1
<1>8. /\ Hash \in Seq(Values) /\ Len(Hash) = l + n
      /\ \A k \in 1 .. l + n : Hash[k] = IF k <= l THEN read[k] ELSE Chunk[k - l]
  BY <1>3, <1>4, <1>7 DEF Hash, l
<1>9. ASSUME Untouched(r), NEW k \in 1 .. l + n
      PROVE  Hash[k] = BootMem[r.gpa + k - 1]
  <2>1. CASE k <= l
    <3>1. k \in 1 .. l
      BY <1>3, <1>4, <2>1
    <3> QED
      BY Zenon, <1>8, <1>9, <2>1, <3>1 DEF PrefixOK, r, l
  <2>2. CASE ~(k <= l)
    <3>1. k - l \in 1 .. n /\ l + (k - l) = k
      BY <1>3, <1>4, <2>2
    <3>2. Hash[k] = mem[r.gpa + l + (k - l) - 1]
      BY Zenon, <1>5, <1>8, <2>2, <3>1
    <3> QED
      BY Zenon, <1>6, <1>9, <3>1, <3>2
  <2> QED
    BY Zenon, <2>1, <2>2
<1>10. Complete => Len(Hash) = r.size /\ Hash # <<>>
  BY Zenon, <1>2, <1>8 DEF Complete, r
<1>11. ASSUME Complete, Untouched(r) PROVE Hash = BootContent(r)
  <2>1. l + n = r.size
    BY Zenon, <1>8, <1>10, <1>11
  <2>2. BootContent(r) \in Seq(Values)
    <3>1. \A k \in 1 .. r.size : BootMem[r.gpa + k - 1] \in Values
      BY Zenon, <1>2, CellAt, BootAssumption
    <3> QED
      BY <1>2, <3>1 DEF BootContent
  <2>3. Len(BootContent(r)) = r.size
    BY <1>2 DEF BootContent
  <2>4. \A k \in 1 .. r.size : Hash[k] = BootContent(r)[k]
    BY Zenon, <1>9, <1>11, <2>1 DEF BootContent
  <2> QED
    BY Zenon, <1>8, <2>1, <2>2, <2>3, <2>4, SeqEqual
<1>12. Untouched(r) => \A k \in 1 .. Len(Hash) : Hash[k] = BootMem[r.gpa + k - 1]
  BY Zenon, <1>8, <1>9
<1> QED
  BY Zenon, <1>4, <1>8, <1>10, <1>11, <1>12 DEF r

-----------------------------------------------------------------------------
(* Changing a region's record.                                             *)

\* No region is added, removed, renamed or moved, and none loses its baseline.
SamePlaces ==
  /\ DOMAIN regions' = DOMAIN regions /\ Len(regions') = Len(regions)
  /\ \A j \in DOMAIN regions :
       /\ regions'[j].name = regions[j].name
       /\ regions'[j].gpa = regions[j].gpa
       /\ regions'[j].size = regions[j].size
       /\ regions[j].base # <<>> => regions'[j].base # <<>>

\* The record of one region is replaced.
LEMMA RecordWritten ==
  ASSUME regions \in Seq(Region), NEW i \in DOMAIN regions,
         NEW b \in Seq(Values), NEW t \in Seq(Values),
         regions[i].base # <<>> => b # <<>>,
         regions' = [regions EXCEPT ![i] = [@ EXCEPT !.base = b, !.last = t]]
  PROVE  /\ regions' \in Seq(Region) /\ SamePlaces
         /\ regions'[i].base = b
         /\ \A j \in DOMAIN regions : j # i => regions'[j] = regions[j]
<1> DEFINE new == [regions[i] EXCEPT !.base = b, !.last = t]
<1>1. regions[i] \in Region
  OBVIOUS
<1>2. /\ new \in Region /\ new.base = b /\ new.name = regions[i].name
      /\ new.gpa = regions[i].gpa /\ new.size = regions[i].size
  BY Zenon, <1>1 DEF Region
<1>3. regions' = [regions EXCEPT ![i] = new]
  BY Zenon
<1> HIDE DEF new
<1>4. /\ regions' \in Seq(Region) /\ Len(regions') = Len(regions)
      /\ DOMAIN regions' = DOMAIN regions /\ regions'[i] = new
      /\ \A j \in DOMAIN regions : j # i => regions'[j] = regions[j]
  BY <1>2, <1>3
<1> QED
  BY Zenon, <1>2, <1>4 DEF SamePlaces

\* RegionOK does not depend on last, nor on more than the emptiness of clean.
LEMMA RegionFrame ==
  ASSUME NEW i \in DOMAIN regions, RegionOK(regions[i]), SamePlaces,
         regions'[i].base = regions[i].base, UNCHANGED wrote,
         clean # <<>> => clean' # <<>>
  PROVE  RegionOK(regions[i])'
BY Zenon DEF RegionOK, SamePlaces, CellsOf, IsTable, Scannable, Untouched, BootContent

\* A scan has hashed a region.
LEMMA LastWritten ==
  ASSUME RegionInv, NEW i \in DOMAIN regions, NEW t \in Seq(Values),
         regions' = [regions EXCEPT ![i].last = t], UNCHANGED <<clean, wrote>>
  PROVE  RegionInv' /\ SamePlaces
<1>1. regions \in Seq(Region) /\ regions[i] \in Region
  BY DEF RegionInv
<1>2. [regions[i] EXCEPT !.last = t]
        = [regions[i] EXCEPT !.base = regions[i].base, !.last = t]
  BY Zenon, <1>1 DEF Region
<1>3. regions' = [regions EXCEPT ![i] = [@ EXCEPT !.base = regions[i].base, !.last = t]]
  BY Zenon, <1>2
<1>4. regions[i].base \in Seq(Values)
  BY Zenon, <1>1 DEF Region
<1>5. /\ regions' \in Seq(Region) /\ SamePlaces
      /\ regions'[i].base = regions[i].base
      /\ \A j \in DOMAIN regions : j # i => regions'[j] = regions[j]
  BY Zenon, <1>1, <1>3, <1>4, RecordWritten
<1>6. \A j \in DOMAIN regions' : RegionOK(regions[j])'
  <2> SUFFICES ASSUME NEW j \in DOMAIN regions PROVE RegionOK(regions[j])'
    BY Zenon, <1>5 DEF SamePlaces
  <2>1. regions'[j].base = regions[j].base
    BY Zenon, <1>5
  <2> QED
    BY Zenon, <1>5, <2>1, RegionFrame DEF RegionInv
<1> QED
  BY Zenon, <1>5, <1>6 DEF RegionInv, Untouched, CellsOf, SysCallTable, NewRegion, BootContent

\* A region has been baselined.
LEMMA BaselineWritten ==
  ASSUME MemInv, RegionInv, idx \in DOMAIN regions, PrefixOK(regions[idx]),
         Complete, Baselined, UNCHANGED wrote
  PROVE  RegionInv' /\ SamePlaces /\ regions'[idx].base # <<>>
<1>1. regions \in Seq(Region) /\ RegionOK(regions[idx]) /\ clean \in Seq(Values)
  BY Zenon DEF RegionInv
<1>2. /\ Hash \in Seq(Values) /\ Hash # <<>>
      /\ Untouched(regions[idx]) => Hash = BootContent(regions[idx])
  BY Zenon, HashPrefix
<1>3. /\ regions' = [regions EXCEPT ![idx] = [@ EXCEPT !.base = Hash, !.last = <<>>]]
      /\ clean' = IF IsTable(regions[idx]) THEN Hash ELSE clean
  BY Zenon DEF Baselined
<1>4. <<>> \in Seq(Values)
  OBVIOUS
<1> HIDE DEF Hash
<1>5. /\ regions' \in Seq(Region) /\ SamePlaces /\ regions'[idx].base = Hash
      /\ \A j \in DOMAIN regions : j # idx => regions'[j] = regions[j]
  BY Zenon, <1>1, <1>2, <1>3, <1>4, RecordWritten
<1>6. clean' \in Seq(Values) /\ (clean # <<>> => clean' # <<>>)
      /\ (IsTable(regions[idx]) => clean' # <<>>)
  BY Zenon, <1>1, <1>2, <1>3
<1>7. \A j \in DOMAIN regions' : RegionOK(regions[j])'
  <2> SUFFICES ASSUME NEW j \in DOMAIN regions PROVE RegionOK(regions[j])'
    BY Zenon, <1>5 DEF SamePlaces
  <2>1. CASE j # idx
    BY Zenon, <1>5, <1>6, <2>1, RegionFrame DEF RegionInv
  <2>2. CASE j = idx
    BY <1>1, <1>2, <1>5, <1>6, <2>2
    DEF RegionOK, SamePlaces, CellsOf, IsTable, Scannable, Untouched, BootContent
  <2> QED
    BY Zenon, <2>1, <2>2
<1>8. ASSUME Untouched(SysCallTable)', clean' # <<>>
      PROVE  clean' = BootContent(SysCallTable)
  <2>1. Untouched(SysCallTable)
    BY Zenon, <1>8 DEF Untouched, CellsOf, SysCallTable, NewRegion
  <2>2. CASE IsTable(regions[idx])
    <3>1. regions[idx].gpa = TableGpa /\ regions[idx].size = PageSize
      BY Zenon, <1>1, <2>2 DEF RegionOK
    <3>2. Untouched(regions[idx]) /\ BootContent(regions[idx]) = BootContent(SysCallTable)
      BY Zenon, <2>1, <3>1 DEF Untouched, CellsOf, SysCallTable, NewRegion, BootContent
    <3> QED
      BY Zenon, <1>2, <1>3, <2>2, <3>2
  <2>3. CASE ~IsTable(regions[idx])
    BY Zenon, <1>3, <1>8, <2>1, <2>3 DEF RegionInv
  <2> QED
    BY Zenon, <2>2, <2>3
<1>9. BootContent(SysCallTable)' = BootContent(SysCallTable)
  BY Zenon DEF BootContent, SysCallTable, NewRegion
<1> QED
  BY <1>2, <1>5, <1>6, <1>7, <1>8, <1>9 DEF RegionInv

-----------------------------------------------------------------------------
(* What the steps have in common.                                          *)

\* Memory is the guest's business.
LEMMA MemFrame ==
  ASSUME MemInv, UNCHANGED <<mem, wrote>>
  PROVE  MemInv'
BY Zenon DEF MemInv

\* RegionInv is about regions, the snapshot of the table and what was written.
LEMMA RegionsFrame ==
  ASSUME RegionInv, UNCHANGED <<regions, clean, wrote>>
  PROVE  RegionInv' /\ SamePlaces
BY SMTT(60) DEF RegionInv, RegionOK, SamePlaces, CellsOf, IsTable, Scannable, Untouched,
       BootContent, SysCallTable, NewRegion

\* A read starts with nothing.
LEMMA FreshRead ==
  ASSUME RegionInv', read' = <<>>, pc' \in {"baseline", "scan", "dynamic"},
         idx' \in 1 .. Len(regions') + 1,
         pc' = "dynamic" => idx' \in DOMAIN regions'
  PROVE  ReadInv'
<1>1. \A i \in DOMAIN regions' : regions'[i].size \in Nat
  <2>1. regions' \in Seq(Region)
    BY Zenon DEF RegionInv
  <2>2. \A i \in DOMAIN regions' : regions'[i] \in Region
    BY <2>1
  <2> QED
    BY Zenon, <2>2 DEF Region
<1>2. <<>> \in Seq(Values) /\ Len(<<>>) = 0
  OBVIOUS
<1>3. idx' \in DOMAIN regions' => PrefixOK(regions[idx])'
  BY <1>1, <1>2 DEF PrefixOK
<1> QED
  BY Zenon, <1>3 DEF ReadInv

\* Alarms stay where they are, or are lifted.
LEMMA AlertFrame ==
  ASSUME AlertInv, SamePlaces, pc # "exited", alerted' \subseteq alerted,
         wrote \subseteq wrote'
  PROVE  AlertInv'
BY Zenon DEF AlertInv, NoFalseAlarm, SamePlaces, CellsOf

\* An acknowledged map keeps its baseline.
LEMMA AckFrame ==
  ASSUME AckInv, SamePlaces, pc # "exited", pc' # "start", pgd' = pgd, acked' = acked
  PROVE  AckInv'
BY DEF AckInv, AckedBaselined, SamePlaces

\* The table of regions is left alone, and no read is under way afterwards.
LEMMA QuietStep ==
  ASSUME GuardInv, pc # "exited", pc' \in {"poll", "heki", "exited"},
         UNCHANGED <<pgd, regions, clean, mem, wrote, alerted, acked>>
  PROVE  GuardInv'
<1>1. MemInv' /\ RegionInv' /\ SamePlaces
  BY Zenon, MemFrame, RegionsFrame DEF GuardInv
<1>2. AlertInv' /\ AckInv'
  BY Zenon, <1>1, AlertFrame, AckFrame DEF GuardInv
<1>3. ReadInv'
  BY Zenon DEF ReadInv
<1> QED
  BY Zenon, <1>1, <1>2, <1>3 DEF GuardInv

\* A region is skipped: it has no baseline, or cannot be read.
LEMMA SkipStep ==
  ASSUME GuardInv, BaselineFails \/ SkipUnbaselined \/ ScanReadFails
  PROVE  GuardInv'
<1>1. /\ pc \in {"baseline", "scan"} /\ idx <= Len(regions)
      /\ pc' \in {pc, "exited"} /\ idx' = idx + 1 /\ read' = <<>>
      /\ UNCHANGED <<pgd, regions, clean, mem, wrote, alerted, acked>>
  BY Zenon DEF BaselineFails, SkipUnbaselined, ScanReadFails, NextRegion, config, guard, guest
<1>2. MemInv' /\ RegionInv' /\ SamePlaces
  BY Zenon, <1>1, MemFrame, RegionsFrame DEF GuardInv
<1>3. AlertInv' /\ AckInv'
  BY Zenon, <1>1, <1>2, AlertFrame, AckFrame DEF GuardInv
<1>4. CASE pc' = "exited"
  BY Zenon, <1>2, <1>3, <1>4 DEF GuardInv, ReadInv
<1>5. CASE pc' # "exited"
  <2>1. idx' \in 1 .. Len(regions') + 1
    BY <1>1, LenProperties DEF GuardInv, ReadInv, RegionInv
  <2> QED
    BY <1>1, <1>2, <1>3, <1>5, <2>1, FreshRead DEF GuardInv
<1> QED
  BY Zenon, <1>4, <1>5

\* One more chunk of a region.
LEMMA ChunkStep ==
  ASSUME GuardInv, pc \in {"baseline", "scan", "dynamic"}, pc' = pc,
         idx \in DOMAIN regions, MoreChunks,
         UNCHANGED <<pgd, regions, clean, mem, wrote, alerted, acked>>
  PROVE  GuardInv'
<1>1. MemInv' /\ RegionInv' /\ SamePlaces
  BY Zenon, MemFrame, RegionsFrame DEF GuardInv
<1>2. AlertInv' /\ AckInv'
  BY Zenon, <1>1, AlertFrame, AckFrame DEF GuardInv
<1>3. read' = Hash /\ idx' = idx
  BY Zenon DEF MoreChunks
<1>4. PrefixOK(regions[idx])
  BY Zenon DEF GuardInv, ReadInv
<1>5. PrefixOK(regions[idx])'
  <2>1. /\ Hash \in Seq(Values) /\ Len(Hash) <= regions[idx].size
        /\ Untouched(regions[idx]) =>
             \A k \in 1 .. Len(Hash) : Hash[k] = BootMem[regions[idx].gpa + k - 1]
    BY Zenon, <1>4, HashPrefix DEF GuardInv
  <2> QED
    BY Zenon, <1>3, <2>1 DEF PrefixOK, Untouched, CellsOf
<1>6. ReadInv'
  BY Zenon, <1>3, <1>5 DEF GuardInv, ReadInv
<1> QED
  BY Zenon, <1>1, <1>2, <1>6 DEF GuardInv

-----------------------------------------------------------------------------
(* The steps of the daemon.                                                *)

\* A region that has just been registered.
LEMMA FreshRegion ==
  ASSUME NEW q, Spot(q)
  PROVE  LET r == NewRegion(q)
         IN /\ r \in Region /\ r.base = <<>> /\ r.size = q.size /\ r.name = q.name
            /\ ~IsTable(r) /\ CellsOf(r) \subseteq Cells
<1> DEFINE r == NewRegion(q)
<1>1. /\ r.name = q.name /\ r.gpa = q.gpa /\ r.size = q.size
      /\ r.critical = q.critical /\ r.base = <<>> /\ r.last = <<>>
  BY Zenon DEF NewRegion
<1>2. <<>> \in Seq(Values)
  OBVIOUS
<1>3. r \in Region
  BY Zenon, <1>2 DEF Spot, NewRegion, Region
<1>4. ~IsTable(r) /\ CellsOf(r) \subseteq Cells
  BY Zenon, <1>1 DEF Spot, IsTable, CellsOf
<1> QED
  BY Zenon, <1>1, <1>3, <1>4

LEMMA TableRegion ==
  /\ SysCallTable \in Region /\ SysCallTable.base = <<>>
  /\ SysCallTable.size = PageSize /\ SysCallTable.gpa = TableGpa
  /\ SysCallTable.size # 0 /\ CellsOf(SysCallTable) \subseteq Cells
<1>1. /\ SysCallTable.size = PageSize /\ SysCallTable.gpa = TableGpa
      /\ SysCallTable.base = <<>>
  BY Zenon DEF SysCallTable, NewRegion
<1>2. <<>> \in Seq(Values)
  OBVIOUS
<1>3. SysCallTable \in Region
  <2>1. SysCallTable =
          [name |-> "sys_call_table", gpa |-> TableGpa, size |-> PageSize,
           critical |-> TRUE, base |-> <<>>, last |-> <<>>]
    BY Zenon DEF SysCallTable, NewRegion
  <2>2. TableGpa \in Nat /\ PageSize \in Nat
    BY Zenon, GeometryAssumption
  <2>3. "sys_call_table" \in Names
    BY Zenon DEF Names
  <2>4. TRUE \in BOOLEAN
    BY Zenon
  <2> QED
    BY <1>2, <2>1, <2>2, <2>3, <2>4, Zenon DEF Region
<1>4. SysCallTable.size # 0 /\ CellsOf(SysCallTable) \subseteq Cells
  BY Zenon, <1>1, GeometryAssumption DEF CellsOf
<1> QED
  BY Zenon, <1>1, <1>3, <1>4

\* Arming: a sequence of fresh regions behind the table.
LEMMA ArmStep ==
  ASSUME GuardInv, npt_guard_arm
  PROVE  GuardInv'
<1>1. /\ pc = "start" /\ pc' \in {"poll", "baseline"}
      /\ UNCHANGED <<pgd, clean, idx, read, mem, wrote, alerted, acked>>
  BY Zenon DEF npt_guard_arm, config, guest
<1>2. CASE pc' = "poll" /\ UNCHANGED regions
  BY Zenon, <1>1, <1>2, QuietStep
<1>3. ASSUME pc' = "baseline", NEW pick \in Picks,
             regions' = <<SysCallTable>>
                        \o [k \in DOMAIN pick |-> NewRegion(Optional[pick[k]])]
      PROVE  GuardInv'
  <2> DEFINE more == [k \in DOMAIN pick |-> NewRegion(Optional[pick[k]])]
  <2>1. PICK n \in Nat : pick \in [1 .. n -> DOMAIN Optional]
    BY DEF Picks
  <2>2. ASSUME NEW k \in 1 .. n
        PROVE  /\ more[k] \in Region /\ more[k].base = <<>> /\ more[k].size # 0
               /\ ~IsTable(more[k]) /\ CellsOf(more[k]) \subseteq Cells
    <3> DEFINE q == Optional[pick[k]]
    <3>1. Spot(q) /\ q.size # 0
      BY Zenon, <2>1, RegionAssumption
    <3>2. more[k] = NewRegion(q)
      BY Zenon, <2>1
    <3> HIDE DEF q
    <3> QED
      BY Zenon, <3>1, <3>2, FreshRegion
  <2>3. more \in Seq(Region) /\ Len(more) = n
    BY <2>1, <2>2
  <2>4. /\ SysCallTable \in Region /\ SysCallTable.base = <<>>
        /\ SysCallTable.size = PageSize /\ SysCallTable.gpa = TableGpa
        /\ SysCallTable.size # 0 /\ CellsOf(SysCallTable) \subseteq Cells
    BY Zenon, TableRegion
  <2> HIDE DEF more
  <2>5. /\ regions' \in Seq(Region) /\ Len(regions') = 1 + n
        /\ \A i \in 1 .. 1 + n :
             regions'[i] = IF i = 1 THEN SysCallTable ELSE more[i - 1]
    BY <1>3, <2>3, <2>4 DEF more
  <2>6. ASSUME NEW i \in DOMAIN regions' PROVE RegionOK(regions[i])'
    <3>1. i \in 1 .. 1 + n
      BY <2>5
    <3>2. CASE i = 1
      BY Zenon, <2>4, <2>5, <3>1, <3>2 DEF RegionOK, Scannable
    <3>3. CASE i # 1
      <4>1. i - 1 \in 1 .. n /\ regions'[i] = more[i - 1]
        BY <2>1, <2>5, <3>1, <3>3
      <4> QED
        BY Zenon, <2>2, <4>1 DEF RegionOK, Scannable
    <3> QED
      BY Zenon, <3>2, <3>3
  <2>7. RegionInv'
    BY Zenon, <1>1, <2>5, <2>6
    DEF GuardInv, RegionInv, Untouched, BootContent, SysCallTable, NewRegion, CellsOf
  <2>8. ReadInv'
    <3>1. read' = <<>> /\ idx' \in 1 .. Len(regions') + 1
      BY <1>1, <2>5, SMTT(60) DEF GuardInv, ReadInv
    <3> QED
      BY <1>3, <2>7, <3>1, FreshRead
  <2>9. MemInv' /\ AckInv'
    BY <1>1, <1>3, MemFrame DEF GuardInv, AckInv, AckedBaselined
  <2>10. AlertInv'
    BY Zenon, <1>1 DEF GuardInv, AckInv, AlertInv, NoFalseAlarm
  <2> QED
    BY Zenon, <2>7, <2>8, <2>9, <2>10 DEF GuardInv
<1> QED
  BY Zenon, <1>1, <1>2, <1>3 DEF npt_guard_arm

\* Taking the baselines.
LEMMA BaselineStep ==
  ASSUME GuardInv, BaselineRead
  PROVE  GuardInv'
<1>1. /\ pc = "baseline" /\ pc' = "baseline" /\ idx \in DOMAIN regions
      /\ UNCHANGED <<pgd, mem, wrote, alerted, acked>>
      /\ \/ Complete /\ Baselined /\ NextRegion
         \/ MoreChunks /\ UNCHANGED <<regions, clean>>
  BY DEF BaselineRead, config, guest, GuardInv, ReadInv, RegionInv
<1>2. CASE Complete /\ Baselined /\ NextRegion
  <2>1. RegionInv' /\ SamePlaces
    BY <1>1, <1>2, BaselineWritten DEF GuardInv, ReadInv
  <2>2. idx' \in 1 .. Len(regions') + 1 /\ read' = <<>>
    BY <1>1, <1>2, <2>1, SMTT(60) DEF NextRegion, SamePlaces, GuardInv, RegionInv
  <2>3. ReadInv'
    BY Zenon, <1>1, <2>1, <2>2, FreshRead
  <2>4. MemInv' /\ AlertInv' /\ AckInv'
    BY <1>1, <2>1, MemFrame, AlertFrame, AckFrame DEF GuardInv
  <2> QED
    BY Zenon, <2>1, <2>3, <2>4 DEF GuardInv
<1>3. CASE MoreChunks /\ UNCHANGED <<regions, clean>>
  BY Zenon, <1>1, <1>3, ChunkStep
<1> QED
  BY Zenon, <1>1, <1>2, <1>3

\* Scanning: an alarm is raised only for contents that differ from the baseline.
LEMMA ScanStep ==
  ASSUME GuardInv, ScanRead
  PROVE  GuardInv'
<1>1. /\ pc = "scan" /\ idx \in DOMAIN regions /\ Scannable(regions[idx])
      /\ UNCHANGED <<pgd, clean, mem, wrote, acked>>
      /\ \/ ScanHashed
         \/ MoreChunks /\ UNCHANGED <<pc, regions, ro, alerted>>
  BY DEF ScanRead, config, guest, GuardInv, ReadInv, RegionInv
<1>2. CASE ScanHashed
  <2> DEFINE r == regions[idx]
  <2>1. /\ Hash \in Seq(Values)
        /\ Untouched(r) => Hash = BootContent(r)
    BY Zenon, <1>1, <1>2, HashPrefix DEF ScanHashed, GuardInv, ReadInv
  <2>2. LastAfter(r, Hash) \in Seq(Values)
    BY <2>1 DEF LastAfter
  <2>3. regions' = [regions EXCEPT ![idx].last = LastAfter(r, Hash)]
    BY Zenon, <1>2 DEF ScanHashed
  <2>4. RegionInv' /\ SamePlaces
    BY Zenon, <1>1, <2>2, <2>3, LastWritten DEF GuardInv
  <2>5. MemInv'
    BY Zenon, <1>1, MemFrame DEF GuardInv
  <2>6. CASE pc' = "scan" /\ NextRegion
    <3>1. idx' \in 1 .. Len(regions') + 1 /\ read' = <<>>
      BY <1>1, <2>4, <2>6, SMTT(60) DEF NextRegion, SamePlaces, GuardInv, RegionInv
    <3>2. ReadInv' /\ AckInv'
      BY <1>1, <2>4, <2>6, <3>1, FreshRead, AckFrame DEF GuardInv
    <3>3. CASE alerted' \subseteq alerted
      BY <1>1, <2>4, <2>5, <3>2, <3>3, AlertFrame DEF GuardInv
    <3>4. CASE Hash # r.base /\ alerted' = alerted \cup {idx}
      <4>1. ~Untouched(r)
        BY <1>1, <2>1, <3>4 DEF GuardInv, RegionInv, RegionOK
      <4>2. \A i \in alerted' \cap DOMAIN regions : CellsOf(regions[i]) \cap wrote # {}
        BY Zenon, <3>4, <4>1 DEF GuardInv, AlertInv, NoFalseAlarm, Untouched
      <4>3. AlertInv'
        BY <1>1, <2>4, <3>4, <4>2
        DEF GuardInv, AlertInv, NoFalseAlarm, SamePlaces, CellsOf
      <4> QED
        BY <2>4, <2>5, <3>2, <4>3 DEF GuardInv
    <3> QED
      BY <1>2, <2>6, <3>3, <3>4 DEF ScanHashed
  <2>7. CASE pc' = "diff" /\ IsTable(r) /\ UNCHANGED <<idx, alerted>>
    <3>1. AlertInv' /\ AckInv'
      BY <1>1, <2>4, <2>7, AlertFrame, AckFrame DEF GuardInv
    <3>2. ReadInv'
      BY Zenon, <1>1, <2>4, <2>7 DEF ReadInv, SamePlaces, IsTable, Scannable
    <3> QED
      BY Zenon, <2>4, <2>5, <3>1, <3>2 DEF GuardInv
  <2> QED
    BY <1>1, <1>2, <2>6, <2>7 DEF ScanHashed
<1>3. CASE MoreChunks /\ UNCHANGED <<pc, regions, ro, alerted>>
  BY Zenon, <1>1, <1>3, ChunkStep
<1> QED
  BY Zenon, <1>1, <1>2, <1>3

\* Comparing the table entry by entry: an entry differs from the snapshot only if
\* the guest wrote it.
LEMMA DiffStep ==
  ASSUME GuardInv, DiffTable
  PROVE  GuardInv'
<1>1. /\ pc = "diff" /\ pc' = "scan" /\ idx \in DOMAIN regions /\ NextRegion
      /\ IsTable(regions[idx]) /\ Scannable(regions[idx])
      /\ UNCHANGED <<pgd, regions, clean, mem, wrote, acked>>
  BY Zenon DEF DiffTable, config, guest, GuardInv, ReadInv
<1>2. MemInv' /\ RegionInv' /\ SamePlaces
  BY Zenon, <1>1, MemFrame, RegionsFrame DEF GuardInv
<1>3. ReadInv' /\ AckInv'
  <2>1. idx' \in 1 .. Len(regions') + 1 /\ read' = <<>>
    BY <1>1 DEF NextRegion, GuardInv, RegionInv
  <2> QED
    BY <1>1, <1>2, <2>1, FreshRead, AckFrame DEF GuardInv
<1>4. CASE alerted' \subseteq alerted
  BY <1>1, <1>2, <1>3, <1>4, AlertFrame DEF GuardInv
<1>5. CASE ~(alerted' \subseteq alerted)
  <2> DEFINE hostile == {k \in Differing(Content(SysCallTable)) :
                           Hostile(TableGpa + k - 1)}
  <2>1. /\ alerted' = alerted \cup {idx}
        /\ Cardinality(hostile) > 0 \/ Cardinality(hostile) > 1
    BY Zenon, <1>5 DEF DiffTable
  <2>2. hostile # {}
    BY <2>1, FS_EmptySet
  <2>3. PICK k \in 1 .. PageSize : Content(SysCallTable)[k] # clean[k]
    BY Zenon, <2>2 DEF Differing
  <2>4. /\ SysCallTable.gpa = TableGpa /\ SysCallTable.size = PageSize
        /\ TableGpa \in Nat /\ PageSize \in Nat
        /\ CellsOf(SysCallTable) \subseteq Cells
    BY Zenon, TableRegion, GeometryAssumption
  <2>5. ~Untouched(SysCallTable)
    <3> SUFFICES ASSUME Untouched(SysCallTable) PROVE FALSE
      BY Zenon
    <3>1. clean = BootContent(SysCallTable)
      BY Zenon, <1>1 DEF GuardInv, RegionInv, RegionOK
    <3>2. Content(SysCallTable)[k] = mem[TableGpa + k - 1]
      BY Zenon, <2>4 DEF Content
    <3>3. clean[k] = BootMem[TableGpa + k - 1]
      BY Zenon, <2>4, <3>1 DEF BootContent
    <3>4. mem[TableGpa + k - 1] = BootMem[TableGpa + k - 1]
      BY Zenon, <2>4, CellKept DEF GuardInv
    <3> QED
      BY Zenon, <2>3, <3>2, <3>3, <3>4
  <2>6. CellsOf(regions[idx]) = CellsOf(SysCallTable)
    BY Zenon, <1>1, <2>4 DEF GuardInv, RegionInv, RegionOK, CellsOf
  <2>7. AlertInv'
    BY <1>1, <2>1, <2>5, <2>6
    DEF GuardInv, AlertInv, NoFalseAlarm, Untouched, CellsOf
  <2> QED
    BY Zenon, <1>2, <1>3, <2>7 DEF GuardInv
<1> QED
  BY Zenon, <1>4, <1>5

\* Registering a map through the socket.
LEMMA RegisterStep ==
  ASSUME GuardInv, NEW q \in Requests, HekiRegister(q)
  PROVE  GuardInv'
<1>1. /\ pc = "heki" /\ pc' = "dynamic" /\ q.size # 0
      /\ regions' = Append(regions, NewRegion(q))
      /\ idx' = Len(regions) + 1 /\ read' = <<>>
      /\ UNCHANGED <<pgd, clean, mem, wrote, alerted, acked>>
  BY Zenon DEF HekiRegister, Accepts, config, guest
<1> DEFINE r == NewRegion(q)
           n == Len(regions)
<1>2. /\ r \in Region /\ r.base = <<>> /\ r.size # 0
      /\ ~IsTable(r) /\ CellsOf(r) \subseteq Cells
  BY Zenon, <1>1, RegionAssumption, FreshRegion
<1>3. regions \in Seq(Region) /\ n \in Nat /\ DOMAIN regions = 1 .. n
  BY DEF GuardInv, RegionInv
<1> HIDE DEF r, n
<1>4. /\ regions' \in Seq(Region) /\ DOMAIN regions' = 1 .. n + 1
      /\ Len(regions') = n + 1
      /\ \A i \in 1 .. n : regions'[i] = regions[i]
      /\ regions'[n + 1] = r
  BY <1>1, <1>2, <1>3 DEF r, n
<1>5. ASSUME NEW i \in DOMAIN regions' PROVE RegionOK(regions[i])'
  <2>1. CASE i \in 1 .. n
    <3>1. RegionOK(regions[i]) /\ regions'[i] = regions[i]
      BY Zenon, <1>3, <1>4, <2>1 DEF GuardInv, RegionInv
    <3>2. clean' = clean /\ wrote' = wrote
      BY Zenon, <1>1
    <3> QED
      BY Zenon, <3>1, <3>2
      DEF RegionOK, Untouched, CellsOf, BootContent, Scannable, IsTable
  <2>2. CASE i = n + 1
    BY <1>2, <1>4, <2>2 DEF RegionOK, Scannable
  <2> QED
    BY <1>3, <1>4, <2>1, <2>2
<1>6. RegionInv'
  BY <1>1, <1>4, <1>5
  DEF GuardInv, RegionInv, Untouched, BootContent, SysCallTable, NewRegion, CellsOf
<1>7. ReadInv'
  <2>1. /\ idx' \in 1 .. Len(regions') + 1 /\ idx' \in DOMAIN regions'
        /\ read' = <<>>
    BY <1>1, <1>3, <1>4, SMTT(60) DEF n
  <2> QED
    BY <1>1, <1>6, <2>1, FreshRead
<1>8. AlertInv'
  BY <1>1, <1>3, <1>4, SMTT(60) DEF GuardInv, AlertInv, NoFalseAlarm, CellsOf
<1>9. AckInv'
  BY <1>1, <1>3, <1>4 DEF GuardInv, AckInv, AckedBaselined
<1> QED
  BY <1>1, <1>6, <1>7, <1>8, <1>9, MemFrame DEF GuardInv

\* The nonce goes out only when the map has its baseline.
LEMMA DynamicStep ==
  ASSUME GuardInv, DynamicRead
  PROVE  GuardInv'
<1>1. /\ pc = "dynamic" /\ idx \in DOMAIN regions
      /\ UNCHANGED <<pgd, mem, wrote, alerted>>
      /\ \/ /\ Complete /\ Baselined /\ pc' \in {"poll", "exited"}
            /\ acked' = acked \cup {regions[idx].name}
         \/ MoreChunks /\ UNCHANGED <<pc, regions, clean, acked>>
  BY Zenon DEF DynamicRead, Respond, config, guest, GuardInv, ReadInv
<1>2. CASE /\ Complete /\ Baselined /\ pc' \in {"poll", "exited"}
           /\ acked' = acked \cup {regions[idx].name}
  <2>1. RegionInv' /\ SamePlaces
    BY Zenon, <1>1, <1>2, BaselineWritten DEF GuardInv, ReadInv
  <2>2. MemInv' /\ AlertInv'
    BY <1>1, <2>1, MemFrame, AlertFrame DEF GuardInv
  <2>3. regions'[idx].name = regions[idx].name /\ regions'[idx].base # <<>>
    BY <1>1, <1>2, <2>1, BaselineWritten DEF GuardInv, ReadInv, SamePlaces
  <2>4. AckInv'
    BY <1>1, <1>2, <2>1, <2>3, SMTT(60) DEF GuardInv, AckInv, AckedBaselined, SamePlaces
  <2>5. ReadInv'
    BY Zenon, <1>2 DEF ReadInv
  <2> QED
    BY Zenon, <2>1, <2>2, <2>4, <2>5 DEF GuardInv
<1>3. CASE MoreChunks /\ UNCHANGED <<pc, regions, clean, acked>>
  BY Zenon, <1>1, <1>3, ChunkStep
<1> QED
  BY Zenon, <1>1, <1>2, <1>3

\* A scan starts; and the steps that end a turn of the loop.
LEMMA LoopStep ==
  ASSUME GuardInv,
         \/ arm_guard_regions \/ npt_guard_handle_events \/ ScanDone
         \/ HekiNothing \/ DynamicFails
         \/ \E n \in Nonces : HekiIntent(n)
  PROVE  GuardInv'
<1>1. /\ pc # "exited" /\ UNCHANGED <<pgd, regions, clean, mem, wrote, alerted, acked>>
      /\ \/ pc' \in {"poll", "heki", "exited"}
         \/ pc' = "scan" /\ idx' = 1 /\ read' = <<>>
  BY Zenon DEF arm_guard_regions, npt_guard_handle_events, ScanDone, HekiNothing,
         DynamicFails, HekiIntent, Respond, config, guard, guest
<1>2. CASE pc' \in {"poll", "heki", "exited"}
  BY Zenon, <1>1, <1>2, QuietStep
<1>3. CASE pc' = "scan" /\ idx' = 1 /\ read' = <<>>
  <2>1. MemInv' /\ RegionInv' /\ SamePlaces
    BY <1>1, MemFrame, RegionsFrame DEF GuardInv
  <2>2. AlertInv' /\ AckInv'
    BY <1>1, <1>3, <2>1, AlertFrame, AckFrame DEF GuardInv
  <2>3. idx' \in 1 .. Len(regions') + 1
    BY <1>3, <2>1 DEF RegionInv
  <2> QED
    BY <1>3, <2>1, <2>2, <2>3, FreshRead DEF GuardInv
<1> QED
  BY Zenon, <1>1, <1>2, <1>3

\* Without kernel_pgd the acknowledgement promises nothing.
LEMMA MockStep ==
  ASSUME GuardInv, NEW q \in Requests, HekiMocked(q)
  PROVE  GuardInv'
<1>1. /\ pc = "heki" /\ pc' \in {"poll", "exited"} /\ pgd' = 0
      /\ UNCHANGED <<pgd, regions, clean, mem, wrote, alerted>>
  BY Zenon DEF HekiMocked, Respond, config, guard, guest
<1>2. MemInv' /\ RegionInv' /\ SamePlaces
  BY Zenon, <1>1, MemFrame, RegionsFrame DEF GuardInv
<1>3. AlertInv'
  BY Zenon, <1>1, <1>2, AlertFrame DEF GuardInv
<1>4. AckInv' /\ ReadInv'
  BY Zenon, <1>1 DEF AckInv, AckedBaselined, ReadInv
<1> QED
  BY Zenon, <1>2, <1>3, <1>4 DEF GuardInv

\* Disarming forgets the regions; the daemon ends.
LEMMA DisarmStep ==
  ASSUME GuardInv, npt_guard_disarm
  PROVE  GuardInv'
<1>1. /\ pc = "poll" /\ pc' = "exited"
      /\ UNCHANGED <<pgd, mem, wrote, alerted, acked>>
      /\ \/ regions' = <<>> /\ clean' = <<>>
         \/ UNCHANGED <<regions, clean>>
  BY Zenon DEF npt_guard_disarm, config, guest
<1>2. CASE UNCHANGED <<regions, clean>>
  BY Zenon, <1>1, <1>2, QuietStep
<1>3. CASE regions' = <<>> /\ clean' = <<>>
  <2>1. RegionInv'
    BY <1>3 DEF RegionInv
  <2>2. ReadInv' /\ AlertInv' /\ AckInv'
    BY <1>1, <1>3 DEF ReadInv, AlertInv, NoFalseAlarm, AckInv, AckedBaselined
  <2> QED
    BY <1>1, <2>1, <2>2, MemFrame DEF GuardInv
<1> QED
  BY Zenon, <1>1, <1>2, <1>3

-----------------------------------------------------------------------------
(* The clock and the guest.                                                *)

LEMMA IdleStep ==
  ASSUME GuardInv,
         UNCHANGED <<pc, pgd, regions, clean, idx, read, mem, wrote, alerted, acked>>
  PROVE  GuardInv'
<1>1. MemInv' /\ RegionInv'
  BY Zenon, MemFrame, RegionsFrame DEF GuardInv
<1>2. ReadInv'
  BY Zenon DEF GuardInv, ReadInv, PrefixOK, Untouched, CellsOf, IsTable, Scannable
<1>3. AlertInv' /\ AckInv'
  BY DEF GuardInv, AlertInv, NoFalseAlarm, CellsOf, AckInv, AckedBaselined
<1> QED
  BY Zenon, <1>1, <1>2, <1>3 DEF GuardInv

\* A write makes regions touched, never untouched.
LEMMA WriteStep ==
  ASSUME GuardInv, NEW c \in Cells, NEW v \in Values, GuestWrite(c, v)
  PROVE  GuardInv'
<1>1. /\ mem' = [mem EXCEPT ![c] = v] /\ wrote' = wrote \cup {c} /\ pc # "exited"
      /\ UNCHANGED <<pc, pgd, regions, clean, idx, read, alerted, acked>>
  BY Zenon DEF GuestWrite, config, guard
<1>2. MemInv'
  BY Zenon, <1>1 DEF GuardInv, MemInv
<1>3. RegionInv'
  <2>1. ASSUME NEW i \in DOMAIN regions PROVE RegionOK(regions[i])'
    BY <1>1
    DEF GuardInv, RegionInv, RegionOK, Untouched, CellsOf, BootContent, Scannable, IsTable
  <2>2. Untouched(SysCallTable)' => Untouched(SysCallTable)
    BY Zenon, <1>1 DEF Untouched, CellsOf, SysCallTable, NewRegion
  <2>3. BootContent(SysCallTable)' = BootContent(SysCallTable)
    BY Zenon DEF BootContent, SysCallTable, NewRegion
  <2> QED
    BY <1>1, <2>1, <2>2, <2>3 DEF GuardInv, RegionInv
<1>4. ReadInv'
  <2>1. ASSUME NEW i \in DOMAIN regions, PrefixOK(regions[i])
        PROVE  PrefixOK(regions[i])'
    BY <1>1, <2>1 DEF PrefixOK, Untouched, CellsOf
  <2> QED
    BY Zenon, <1>1, <2>1 DEF GuardInv, ReadInv, IsTable, Scannable
<1>5. AlertInv' /\ AckInv'
  BY <1>1, SMTT(60) DEF GuardInv, AlertInv, NoFalseAlarm, CellsOf, AckInv, AckedBaselined
<1> QED
  BY Zenon, <1>2, <1>3, <1>4, <1>5 DEF GuardInv

-----------------------------------------------------------------------------

LEMMA GuardInvStep ==
  ASSUME GuardInv, [Next]_vars
  PROVE  GuardInv'
<1>1. CASE UNCHANGED vars
  BY Zenon, <1>1, IdleStep DEF vars
<1>2. CASE Tick
  BY Zenon, <1>2, IdleStep DEF Tick, config, guard, guest
<1>3. CASE Daemon
  <2>1. CASE \E q \in Requests : HekiMocked(q) \/ HekiRegister(q)
    BY Zenon, <2>1, MockStep, RegisterStep
  <2>2. CASE BaselineFails \/ SkipUnbaselined \/ ScanReadFails
    BY Zenon, <2>2, SkipStep
  <2>3. CASE \/ arm_guard_regions \/ npt_guard_handle_events \/ ScanDone
             \/ HekiNothing \/ DynamicFails
             \/ \E n \in Nonces : HekiIntent(n)
    BY Zenon, <2>3, LoopStep
  <2> QED
    BY <1>3, <2>1, <2>2, <2>3, ArmStep, BaselineStep, ScanStep, DiffStep,
       DynamicStep, DisarmStep DEF Daemon
<1>4. CASE \E c \in Cells, v \in Values : GuestWrite(c, v)
  BY Zenon, <1>4, WriteStep
<1> QED
  BY <1>1, <1>2, <1>3, <1>4 DEF Next

LEMMA GuardInvInit == Init => GuardInv
<1> SUFFICES ASSUME Init PROVE GuardInv
  BY Zenon
<1>1. MemInv
  BY Zenon, BootAssumption DEF Init, MemInv
<1>2. RegionInv
  BY DEF Init, RegionInv
<1>3. ReadInv /\ AlertInv /\ AckInv
  BY Zenon DEF Init, ReadInv, AlertInv, NoFalseAlarm, AckInv, AckedBaselined
<1> QED
  BY Zenon, <1>1, <1>2, <1>3 DEF GuardInv

\* For every layout of regions, page size and schedule of guest writes:
\* check_integrity and report_syscall_table_diffs report no region whose cells the
\* guest has left alone, however their chunked reads interleave with writes
\* elsewhere and whichever reads fail.
THEOREM NoFalseAlarmAlways == Spec => []NoFalseAlarm
<1>1. GuardInv => NoFalseAlarm
  BY DEF GuardInv, AlertInv
<1> QED
  BY <1>1, GuardInvInit, GuardInvStep, PTL DEF Spec

\* A map for which npt_guard_protect_dynamic made the HEKI server answer with a
\* nonce is in the guard with a baseline while the daemon runs.
THEOREM AckedBaselinedAlways == Spec => []AckedBaselined
<1>1. GuardInv => AckedBaselined
  BY Zenon DEF GuardInv, AckInv
<1> QED
  BY <1>1, GuardInvInit, GuardInvStep, PTL DEF Spec

-----------------------------------------------------------------------------
(* Type correctness.                                                       *)

\* What the number of regions bounds.
LEMMA RegionCount ==
  ASSUME TypeOK, RegionInv
  PROVE  /\ Len(regions) \in Nat /\ DOMAIN regions = 1 .. Len(regions)
         /\ DOMAIN regions \subseteq 1 .. MaxRegions
         /\ \A i \in DOMAIN regions : i + 1 \in 1 .. MaxRegions + 1
         /\ Len(regions) < MaxRegions =>
              /\ Len(regions) + 1 \in 1 .. MaxRegions + 1
              /\ Len(regions) + 1 <= MaxRegions
         /\ 1 \in 1 .. MaxRegions + 1
         /\ \A i \in 1 .. MaxRegions + 1 : i <= Len(regions) => i \in DOMAIN regions
<1>1. regions \in Seq(Region) /\ Len(regions) <= MaxRegions
  BY Zenon DEF TypeOK
<1>2. Len(regions) \in Nat /\ DOMAIN regions = 1 .. Len(regions)
  BY <1>1
<1>3. MaxRegions \in Nat \ {0}
  BY Zenon, GeometryAssumption
<1> QED
  BY <1>1, <1>2, <1>3

\* What the loop of main passes through, and the flags it keeps.
LEMMA ControlTypes ==
  ASSUME TypeOK, [Next]_vars
  PROVE  /\ pc' \in {"start", "baseline", "poll", "scan", "diff", "heki", "dynamic", "exited"}
         /\ pgd' \in {0, KernelCr3} /\ allowPatch' \in BOOLEAN /\ armed' \in BOOLEAN
<1>1. UNCHANGED <<pgd, allowPatch>>
  BY Zenon
  DEF Next, Daemon, npt_guard_arm, BaselineRead, BaselineFails, arm_guard_regions,
      npt_guard_handle_events, SkipUnbaselined, ScanReadFails, ScanRead, DiffTable,
      ScanDone, HekiNothing, HekiMocked, HekiRegister, HekiIntent, DynamicRead,
      DynamicFails, npt_guard_disarm, Tick, GuestWrite, config, vars
<1>2. \/ pc' = pc
      \/ pc' \in {"baseline", "poll", "scan", "diff", "heki", "dynamic", "exited"}
  BY Zenon
  DEF Next, Daemon, npt_guard_arm, BaselineRead, BaselineFails, arm_guard_regions,
      npt_guard_handle_events, SkipUnbaselined, ScanReadFails, ScanRead, ScanHashed,
      DiffTable, ScanDone, HekiNothing, HekiMocked, HekiRegister, HekiIntent,
      DynamicRead, DynamicFails, npt_guard_disarm, Tick, GuestWrite, Respond, vars
<1>3. armed' = armed \/ armed' = TRUE \/ armed' = FALSE
  BY Zenon
  DEF Next, Daemon, npt_guard_arm, BaselineRead, BaselineFails, arm_guard_regions,
      npt_guard_handle_events, SkipUnbaselined, ScanReadFails, ScanRead, DiffTable,
      ScanDone, HekiNothing, HekiMocked, HekiRegister, HekiIntent, DynamicRead,
      DynamicFails, npt_guard_disarm, Tick, GuestWrite, guard, vars
<1> QED
  BY Zenon, <1>1, <1>2, <1>3 DEF TypeOK

\* The clock, the drawbridge and the count of guest writes.
LEMMA ClockTypes ==
  ASSUME TypeOK, [Next]_vars
  PROVE  /\ age' \in 0 .. Interval /\ nonce' \in Nonces \cup {0}
         /\ authorized' \in {0, MockCr3} /\ writes' \in 0 .. MaxWrites
<1>1. /\ \A n \in 0 .. Interval : n < Interval => n + 1 \in 0 .. Interval
      /\ \A n \in 0 .. MaxWrites : n < MaxWrites => n + 1 \in 0 .. MaxWrites
      /\ 0 \in 0 .. Interval /\ Interval \in 0 .. Interval
  BY GeometryAssumption
<1>2. \/ age' = age \/ age' = 0 \/ age' = Interval
      \/ age < Interval /\ age' = age + 1
  BY Zenon
  DEF Next, Daemon, npt_guard_arm, BaselineRead, BaselineFails, arm_guard_regions,
      npt_guard_handle_events, SkipUnbaselined, ScanReadFails, ScanRead, DiffTable,
      ScanDone, HekiNothing, HekiMocked, HekiRegister, HekiIntent, DynamicRead,
      DynamicFails, npt_guard_disarm, Tick, GuestWrite, vars
<1>3. nonce' = nonce \/ nonce' \in Nonce
  BY Zenon
  DEF Next, Daemon, npt_guard_arm, BaselineRead, BaselineFails, arm_guard_regions,
      npt_guard_handle_events, SkipUnbaselined, ScanReadFails, ScanRead, DiffTable,
      ScanDone, HekiNothing, HekiMocked, HekiRegister, HekiIntent, DynamicRead,
      DynamicFails, npt_guard_disarm, Tick, GuestWrite, vars
<1>4. authorized' = authorized \/ authorized' \in {0, MockCr3}
  BY Zenon
  DEF Next, Daemon, npt_guard_arm, BaselineRead, BaselineFails, arm_guard_regions,
      npt_guard_handle_events, SkipUnbaselined, ScanReadFails, ScanRead, DiffTable,
      ScanDone, HekiNothing, HekiMocked, HekiRegister, HekiIntent, DynamicRead,
      DynamicFails, npt_guard_disarm, Tick, GuestWrite, vars
<1>5. writes' = writes \/ (writes < MaxWrites /\ writes' = writes + 1)
  BY Zenon
  DEF Next, Daemon, npt_guard_arm, BaselineRead, BaselineFails, arm_guard_regions,
      npt_guard_handle_events, SkipUnbaselined, ScanReadFails, ScanRead, DiffTable,
      ScanDone, HekiNothing, HekiMocked, HekiRegister, HekiIntent, DynamicRead,
      DynamicFails, npt_guard_disarm, Tick, GuestWrite, guest, vars
<1>6. age' \in 0 .. Interval /\ writes' \in 0 .. MaxWrites
  BY Zenon, <1>1, <1>2, <1>5 DEF TypeOK
<1>7. nonce' \in Nonces \cup {0}
  BY Zenon, <1>3 DEF TypeOK, Nonce
<1> QED
  BY Zenon, <1>4, <1>6, <1>7 DEF TypeOK

\* A region lies in guest memory, and so do its pages.
LEMMA PagesInMemory ==
  ASSUME RegionInv, NEW i \in DOMAIN regions
  PROVE  PagesOf(regions[i]) \subseteq {PageOf(c) : c \in Cells}
BY Zenon DEF RegionInv, RegionOK, PagesOf

\* Only pages of guest memory are made read-only.
LEMMA ReadonlyTypes ==
  ASSUME TypeOK, GuardInv, [Next]_vars
  PROVE  ro' \subseteq {PageOf(c) : c \in Cells}
<1> DEFINE pages == {PageOf(c) : c \in Cells}
<1> SUFFICES ro' \subseteq pages
  BY Zenon
<1>1. ro \subseteq pages /\ RegionInv
  BY Zenon DEF TypeOK, GuardInv
<1> HIDE DEF pages
<1>2. ASSUME NEW some, some \subseteq pages, SetReadonly(some) PROVE ro' \subseteq pages
  BY Zenon, <1>1, <1>2 DEF SetReadonly
<1>3. ASSUME NEW i \in DOMAIN regions, SetReadonly(PagesOf(regions[i]))
      PROVE  ro' \subseteq pages
  BY Zenon, <1>1, <1>2, <1>3, PagesInMemory DEF pages
<1>4. CASE arm_guard_regions
  <2>1. UNION {PagesOf(regions[i]) : i \in DOMAIN regions} \subseteq pages
    BY Zenon, <1>1, PagesInMemory DEF pages
  <2> QED
    BY Zenon, <1>2, <1>4, <2>1 DEF arm_guard_regions
<1>5. CASE ScanRead
  <2>1. idx \in DOMAIN regions
    BY <1>5, RegionCount, <1>1 DEF ScanRead, TypeOK
  <2> QED
    BY Zenon, <1>1, <1>3, <1>5, <2>1 DEF ScanRead, ScanHashed
<1>6. CASE DiffTable \/ DynamicRead
  <2>1. idx \in DOMAIN regions
    BY Zenon, <1>6 DEF DiffTable, DynamicRead, GuardInv, ReadInv
  <2> QED
    BY Zenon, <1>1, <1>3, <1>6, <2>1 DEF DiffTable, DynamicRead
<1>7. CASE UNCHANGED ro
  BY Zenon, <1>1, <1>7
<1>8. arm_guard_regions \/ ScanRead \/ DiffTable \/ DynamicRead \/ UNCHANGED ro
  BY Zenon
  DEF Next, Daemon, npt_guard_arm, BaselineRead, BaselineFails, npt_guard_handle_events,
      SkipUnbaselined, ScanReadFails, ScanDone, HekiNothing, HekiMocked, HekiRegister,
      HekiIntent, DynamicFails, npt_guard_disarm, Tick, GuestWrite, guard, vars
<1> QED
  BY Zenon, <1>4, <1>5, <1>6, <1>7, <1>8

\* add_guard_region keeps within MAX_GUARD_REGIONS.
LEMMA CountTypes ==
  ASSUME TypeOK, GuardInv, [Next]_vars
  PROVE  Len(regions') <= MaxRegions
<1>1. Len(regions) <= MaxRegions /\ regions \in Seq(Region) /\ RegionInv
  BY Zenon DEF TypeOK, GuardInv
<1>2. CASE npt_guard_arm
  <2>1. ASSUME NEW pick \in Picks,
               regions' = <<SysCallTable>>
                          \o [k \in DOMAIN pick |-> NewRegion(Optional[pick[k]])]
        PROVE  Len(regions') <= MaxRegions
    <3>1. PICK n \in 0 .. Len(Optional) : pick \in [1 .. n -> DOMAIN Optional]
      BY Zenon DEF Picks
    <3> DEFINE more == [k \in 1 .. n |-> NewRegion(Optional[pick[k]])]
    <3>2. Len(Optional) \in Nat /\ MaxRegions \in Nat /\ 1 + Len(Optional) <= MaxRegions
      BY GeometryAssumption, RegionAssumption
    <3>3. regions' = <<SysCallTable>> \o more
      BY Zenon, <2>1, <3>1
    <3> DEFINE some == {NewRegion(Optional[pick[k]]) : k \in 1 .. n}
    <3>4. more \in [1 .. n -> some]
      BY Zenon
    <3> HIDE DEF more, some
    <3>5. more \in Seq(some) /\ Len(more) = n
      BY <3>2, <3>4
    <3>6. Len(<<SysCallTable>> \o more) = 1 + n
      BY <3>5
    <3> QED
      BY <3>1, <3>2, <3>3, <3>6
  <2> QED
    BY Zenon, <1>1, <1>2, <2>1 DEF npt_guard_arm
<1>3. CASE BaselineRead \/ DynamicRead
  <2>1. regions' = regions \/ Baselined
    BY Zenon, <1>3 DEF BaselineRead, DynamicRead
  <2>2. Baselined => Len(regions') = Len(regions)
    BY <1>1 DEF Baselined
  <2> QED
    BY Zenon, <1>1, <2>1, <2>2
<1>4. CASE ScanRead
  <2>1. \/ regions' = regions
        \/ regions' = [regions EXCEPT ![idx].last = LastAfter(regions[idx], Hash)]
    BY Zenon, <1>4 DEF ScanRead, ScanHashed
  <2>2. regions' = [regions EXCEPT ![idx].last = LastAfter(regions[idx], Hash)]
          => Len(regions') = Len(regions)
    BY <1>1
  <2> QED
    BY Zenon, <1>1, <2>1, <2>2
<1>5. CASE \E q \in Requests : HekiRegister(q)
  <2>1. PICK q \in Requests : HekiRegister(q)
    BY Zenon, <1>5
  <2>2. regions' = Append(regions, NewRegion(q)) /\ Len(regions) < MaxRegions
    BY Zenon, <2>1 DEF HekiRegister, Accepts
  <2>3. Len(regions') = Len(regions) + 1
    BY <1>1, <2>2
  <2> QED
    BY Zenon, <1>1, <2>2, <2>3, RegionCount
<1>6. CASE npt_guard_disarm
  <2>1. regions' = regions \/ regions' = <<>>
    BY Zenon, <1>6 DEF npt_guard_disarm
  <2>2. Len(<<>>) <= MaxRegions
    BY GeometryAssumption
  <2> QED
    BY Zenon, <1>1, <2>1, <2>2
<1>7. CASE UNCHANGED regions
  BY Zenon, <1>1, <1>7
<1>8. \/ npt_guard_arm \/ BaselineRead \/ DynamicRead \/ ScanRead
      \/ (\E q \in Requests : HekiRegister(q)) \/ npt_guard_disarm \/ UNCHANGED regions
  BY Zenon
  DEF Next, Daemon, BaselineFails, arm_guard_regions, npt_guard_handle_events,
      SkipUnbaselined, ScanReadFails, DiffTable, ScanDone, HekiNothing, HekiMocked,
      HekiIntent, DynamicFails, Tick, GuestWrite, guard, vars
<1> QED
  BY Zenon, <1>2, <1>3, <1>4, <1>5, <1>6, <1>7, <1>8

\* The region that is read, and what has been read of it.
LEMMA ReadTypes ==
  ASSUME TypeOK, GuardInv, [Next]_vars
  PROVE  idx' \in 1 .. MaxRegions + 1 /\ read' \in Seq(Values)
<1>1. idx \in 1 .. MaxRegions + 1 /\ read \in Seq(Values) /\ MemInv /\ RegionInv /\ ReadInv
  BY Zenon DEF TypeOK, GuardInv
<1>2. <<>> \in Seq(Values)
  OBVIOUS
<1>3. CASE NextRegion /\ idx \in DOMAIN regions
  BY Zenon, <1>1, <1>2, <1>3, RegionCount DEF NextRegion
<1>4. CASE /\ MoreChunks /\ idx \in DOMAIN regions
           /\ pc \in {"baseline", "scan", "dynamic"}
  <2>1. PrefixOK(regions[idx])
    BY Zenon, <1>1, <1>4 DEF ReadInv
  <2>2. Hash \in Seq(Values)
    BY Zenon, <1>1, <1>4, <2>1, HashPrefix
  <2> QED
    BY Zenon, <1>1, <1>4, <2>2 DEF MoreChunks
<1>5. CASE UNCHANGED <<idx, read>>
  BY Zenon, <1>1, <1>5
<1>6. CASE idx' = 1 /\ read' = <<>>
  BY Zenon, <1>1, <1>2, <1>6, RegionCount
<1>7. CASE \E q \in Requests : HekiRegister(q)
  BY Zenon, <1>1, <1>2, <1>7, RegionCount DEF HekiRegister, Accepts
<1>8. CASE BaselineRead \/ BaselineFails \/ SkipUnbaselined \/ ScanReadFails \/ ScanRead
  <2>1. idx \in DOMAIN regions
    BY Zenon, <1>1, <1>8, RegionCount
    DEF BaselineRead, BaselineFails, SkipUnbaselined, ScanReadFails, ScanRead
  <2>2. NextRegion \/ UNCHANGED <<idx, read>>
        \/ (MoreChunks /\ pc \in {"baseline", "scan", "dynamic"})
    BY Zenon, <1>8
    DEF BaselineRead, BaselineFails, SkipUnbaselined, ScanReadFails, ScanRead, ScanHashed
  <2> QED
    BY Zenon, <1>3, <1>4, <1>5, <2>1, <2>2
<1>9. CASE DiffTable \/ DynamicRead
  <2>1. idx \in DOMAIN regions
    BY Zenon, <1>1, <1>9 DEF DiffTable, DynamicRead, ReadInv
  <2>2. NextRegion \/ UNCHANGED <<idx, read>>
        \/ (MoreChunks /\ pc \in {"baseline", "scan", "dynamic"})
    BY Zenon, <1>9 DEF DiffTable, DynamicRead
  <2> QED
    BY Zenon, <1>3, <1>4, <1>5, <2>1, <2>2
<1>10. \/ UNCHANGED <<idx, read>>
       \/ idx' = 1 /\ read' = <<>>
       \/ \E q \in Requests : HekiRegister(q)
       \/ BaselineRead \/ BaselineFails \/ SkipUnbaselined \/ ScanReadFails \/ ScanRead
       \/ DiffTable \/ DynamicRead
  BY Zenon
  DEF Next, Daemon, npt_guard_arm, arm_guard_regions, npt_guard_handle_events, ScanDone,
      HekiNothing, HekiMocked, HekiIntent, DynamicFails, npt_guard_disarm, Tick,
      GuestWrite, vars
<1> QED
  BY Zenon, <1>5, <1>6, <1>7, <1>8, <1>9, <1>10

\* The alarms and the acknowledgements.
LEMMA AnswerTypes ==
  ASSUME TypeOK, GuardInv, DynamicInv, [Next]_vars
  PROVE  alerted' \subseteq 1 .. MaxRegions /\ acked' \subseteq {q.name : q \in Requests}
<1>1. alerted \subseteq 1 .. MaxRegions /\ RegionInv /\ ReadInv
  BY Zenon DEF TypeOK, GuardInv
<1>2. DOMAIN regions \subseteq 1 .. MaxRegions
  BY Zenon, <1>1, RegionCount
<1>3. CASE ScanRead \/ DiffTable
  <2>1. idx \in DOMAIN regions
    BY Zenon, <1>1, <1>3, RegionCount DEF ScanRead, DiffTable, ReadInv, TypeOK
  <2>2. alerted' \subseteq alerted \/ alerted' = alerted \cup {idx}
    BY Zenon, <1>3 DEF ScanRead, ScanHashed, DiffTable
  <2> QED
    BY Zenon, <1>1, <1>2, <1>3, <2>1, <2>2 DEF ScanRead, DiffTable, TypeOK
<1>4. CASE \E q \in Requests : HekiMocked(q)
  BY Zenon, <1>1, <1>4 DEF HekiMocked, TypeOK
<1>5. CASE DynamicRead
  <2>1. regions[idx].name \in {q.name : q \in Requests}
    BY Zenon, <1>5 DEF DynamicRead, DynamicInv
  <2> QED
    BY Zenon, <1>1, <1>5, <2>1 DEF DynamicRead, TypeOK
<1>6. CASE UNCHANGED <<alerted, acked>>
  BY Zenon, <1>6 DEF TypeOK
<1>7. \/ ScanRead \/ DiffTable \/ (\E q \in Requests : HekiMocked(q)) \/ DynamicRead
      \/ UNCHANGED <<alerted, acked>>
  BY Zenon
  DEF Next, Daemon, npt_guard_arm, BaselineRead, BaselineFails, arm_guard_regions,
      npt_guard_handle_events, SkipUnbaselined, ScanReadFails, ScanDone, HekiNothing,
      HekiRegister, HekiIntent, DynamicFails, npt_guard_disarm, Tick, GuestWrite, vars
<1> QED
  BY Zenon, <1>3, <1>4, <1>5, <1>6, <1>7

\* heki_server_poll registers only what a client asked for.
LEMMA DynamicInvStep ==
  ASSUME TypeOK, DynamicInv, [Next]_vars
  PROVE  DynamicInv'
<1>1. CASE pc' # "dynamic"
  BY Zenon, <1>1 DEF DynamicInv
<1>2. CASE \E q \in Requests : HekiRegister(q)
  <2>1. PICK q \in Requests : HekiRegister(q)
    BY Zenon, <1>2
  <2>2. regions' = Append(regions, NewRegion(q)) /\ idx' = Len(regions) + 1
    BY Zenon, <2>1 DEF HekiRegister
  <2>3. regions'[idx'] = NewRegion(q)
    <3>1. regions \in Seq(Region)
      BY Zenon DEF TypeOK
    <3> QED
      BY <2>2, <3>1
  <2>4. NewRegion(q).name = q.name
    BY Zenon DEF NewRegion
  <2>5. regions'[idx'].name = q.name
    BY Zenon, <2>3, <2>4
  <2> QED
    BY Zenon, <2>5 DEF DynamicInv
<1>3. CASE pc = "dynamic" /\ UNCHANGED <<regions, idx>>
  BY Zenon, <1>3 DEF DynamicInv
<1>4. \/ pc' # "dynamic"
      \/ \E q \in Requests : HekiRegister(q)
      \/ pc = "dynamic" /\ UNCHANGED <<regions, idx>>
  <2>1. CASE Daemon
    BY Zenon, <2>1
    DEF Daemon, npt_guard_arm, BaselineRead, BaselineFails, arm_guard_regions,
        npt_guard_handle_events, SkipUnbaselined, ScanReadFails, ScanRead, ScanHashed,
        DiffTable, ScanDone, HekiNothing, HekiMocked, HekiIntent, DynamicRead,
        MoreChunks, DynamicFails, npt_guard_disarm, Respond
  <2>2. CASE UNCHANGED <<pc, regions, idx>>
    BY Zenon, <2>2
  <2> QED
    BY Zenon, <2>1, <2>2 DEF Next, Tick, GuestWrite, guard, vars
<1> QED
  BY Zenon, <1>1, <1>2, <1>3, <1>4

\* The state of the guard keeps its types; in particular add_guard_region never
\* goes past MAX_GUARD_REGIONS, and no scan, baseline or registration leaves the
\* table of regions.
THEOREM GuardTypeCorrect == Spec => []TypeOK
<1>1. Init => TypeOK /\ DynamicInv
  <2> SUFFICES ASSUME Init PROVE TypeOK /\ DynamicInv
    BY Zenon
  <2>1. /\ 0 \in 0 .. MaxWrites /\ Interval \in 0 .. Interval /\ 1 \in 1 .. MaxRegions + 1
        /\ <<>> \in Seq(Region) /\ <<>> \in Seq(Values) /\ Len(<<>>) <= MaxRegions
    BY GeometryAssumption
  <2>2. TypeOK
    BY Zenon, <2>1, BootAssumption DEF Init, TypeOK
  <2> QED
    BY Zenon, <2>2 DEF Init, DynamicInv
<1>2. TypeOK /\ DynamicInv /\ GuardInv /\ GuardInv' /\ [Next]_vars => TypeOK' /\ DynamicInv'
  <2> SUFFICES ASSUME TypeOK, DynamicInv, GuardInv, GuardInv', [Next]_vars
               PROVE  TypeOK' /\ DynamicInv'
    BY Zenon
  <2>1. /\ regions' \in Seq(Region) /\ clean' \in Seq(Values)
        /\ mem' \in [Cells -> Values] /\ wrote' \subseteq Cells
    BY Zenon DEF GuardInv, RegionInv, MemInv
  <2>2. TypeOK'
    BY Zenon, <2>1, ControlTypes, ClockTypes, ReadonlyTypes, CountTypes, ReadTypes, AnswerTypes
    DEF TypeOK
  <2> QED
    BY Zenon, <2>2, DynamicInvStep
<1> QED
  BY <1>1, <1>2, GuardInvInit, GuardInvStep, PTL DEF Spec

=============================================================================
