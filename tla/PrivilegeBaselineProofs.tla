---------------------- MODULE PrivilegeBaselineProofs -----------------------
(***************************************************************************)
(* The properties of PrivilegeBaseline for every number of PIDs and of     *)
(* scans and every size of snapshot, as long as the table has room for two *)
(* snapshots, as MAX_PRIV_BASELINE = 2 * MAX_TASK_SNAPSHOT gives it.       *)
(*                                                                         *)
(* EscalationSeen rests on counting: when alloc_baseline has to recycle,   *)
(* fewer than MaxTasks entries carry the current generation and at most    *)
(* MaxTasks the one before, so some entry is older than both, and the      *)
(* oldest is not one that this scan may still have to compare.             *)
(***************************************************************************)
EXTENDS PrivilegeBaseline, FiniteSetTheorems, WellFoundedInduction, SequenceTheorems, TLAPS

Entries ==
  [used : BOOLEAN, pid : Pids \cup {0}, euid : {0, 1}, caps : SUBSET Caps, generation : Nat]

\* The slots whose entry was written by scan g.
Stamped(g) == {i \in Slots : table[i].used /\ table[i].generation = g}

TypeInv ==
  /\ generation \in Nat /\ next \in Nat \ {0}
  /\ procs \in Snapshots /\ next <= Len(procs) + 1
  /\ next <= Len(procs) => generation >= 1
  /\ table \in [Slots -> Entries] /\ before \in [Slots -> Entries]
  /\ \A i \in Slots : table[i].used =>
       table[i].generation >= 1 /\ table[i].generation <= generation
  /\ \A i \in Slots : before[i].used => before[i].generation >= 1

\* A PID has an entry because it had one before the scan or because the scan has
\* come past it.
Origin ==
  \A i \in Slots : table[i].used =>
    \/ \E j \in Slots : before[j].used /\ before[j].pid = table[i].pid
    \/ \E x \in 1 .. next - 1 : procs[x].pid = table[i].pid

\* At most one entry per turn of the loop is new, and one per record of the
\* snapshot before it was.
Counts ==
  /\ Cardinality(Stamped(generation)) <= next - 1
  /\ Cardinality(Stamped(generation - 1)) <= MaxTasks

\* The entries of the scan before that are still to be compared are as it left
\* them.
Untouched ==
  \A k \in DOMAIN procs, i \in Slots :
    (/\ k >= next /\ before[i].used /\ before[i].pid = procs[k].pid
     /\ before[i].generation = generation - 1
     /\ \A x \in 1 .. next - 1 : procs[x].pid # procs[k].pid)
      => table[i] = before[i]

BaselineInv ==
  TypeInv /\ OneEntryPerPid /\ Origin /\ OwnBaseline /\ Counts /\ Untouched /\ EscalationSeen

-----------------------------------------------------------------------------
(* Facts about the operators.                                              *)

\* The loops of find_baseline and alloc_baseline stop at an element of the set
\* they search, if it has one.
LEMMA FirstIn ==
  ASSUME NEW S \in SUBSET Nat, S # {}
  PROVE  First(S) \in S
<1> DEFINE R == OpToRel(<, Nat)
<1>1. \E x \in S : \A y \in S : ~(<<y, x>> \in R)
  <2> HIDE DEF R
  <2>1. IsWellFoundedOn(R, Nat) BY Zenon, NatLessThanWellFounded DEF R
  <2> QED BY Zenon, <2>1, WFMin
<1>2. \E x \in S : \A y \in S : x <= y
  <2>1. PICK x \in S : \A y \in S : ~(<<y, x>> \in R) BY Zenon, <1>1
  <2>2. ASSUME NEW y \in S PROVE x <= y
    <3>1. ~(y < x) BY Zenon, <2>1 DEF OpToRel
    <3> QED BY <3>1
  <2> QED BY Zenon, <2>2
<1> QED BY Zenon, <1>2 DEF First

\* A snapshot is a sequence of at most MaxTasks records.
LEMMA SnapshotLength ==
  ASSUME NEW s \in Snapshots
  PROVE  /\ Len(s) \in Nat /\ Len(s) <= MaxTasks
         /\ DOMAIN s = 1 .. Len(s)
         /\ \A k \in 1 .. Len(s) : s[k] \in Processes
<1>1. PICK n \in 0 .. MaxTasks : s \in [1 .. n -> Processes] BY Zenon DEF Snapshots
<1>2. n \in Nat /\ n <= MaxTasks BY <1>1, BaselineAssumption
<1>3. s \in Seq(Processes) BY Zenon, <1>1, <1>2, SeqDef
<1>4. /\ Len(s) \in Nat /\ DOMAIN s = 1 .. Len(s)
      /\ s \in [1 .. Len(s) -> Processes]
  BY Zenon, <1>3, LenProperties
<1>5. Len(s) = n BY <1>1, <1>2, <1>4
<1> QED BY Zenon, <1>2, <1>4, <1>5

\* The slots are finitely many, as many as MAX_PRIV_BASELINE.
LEMMA SlotsFinite == IsFiniteSet(Slots) /\ Cardinality(Slots) = BaselineSize /\ Slots \subseteq Nat
<1>1. IsFiniteSet(1 .. BaselineSize) /\ Cardinality(1 .. BaselineSize) = BaselineSize
  BY FS_Interval, BaselineAssumption
<1> QED BY <1>1, BaselineAssumption DEF Slots

\* When the table is full, some entry has the least generation.
LEMMA OldestExists ==
  ASSUME TypeInv, \A i \in Slots : table[i].used
  PROVE  \E i \in Slots : \A j \in Slots : table[i].generation <= table[j].generation
<1> DEFINE G == {table[i].generation : i \in Slots}
<1>1. 1 \in Slots BY BaselineAssumption DEF Slots
<1>2. \A i \in Slots : table[i].generation \in Nat
  BY Zenon DEF TypeInv, Entries
<1>3. G \in SUBSET Nat /\ G # {} BY Zenon, <1>1, <1>2
<1> DEFINE R == OpToRel(<, Nat)
<1>4. IsWellFoundedOn(R, Nat) BY Zenon, NatLessThanWellFounded
<1>5. PICK g \in G : \A h \in G : ~(<<h, g>> \in R)
  <2> HIDE DEF R, G
  <2> QED BY Zenon, <1>3, <1>4, WFMin
<1>6. \A h \in G : g <= h
  <2>1. ASSUME NEW h \in G PROVE g <= h
    <3>1. ~(h < g) BY Zenon, <1>3, <1>5, <2>1 DEF OpToRel
    <3> QED BY <1>3, <3>1
  <2> QED BY Zenon, <2>1
<1>7. PICK i \in Slots : table[i].generation = g BY Zenon, <1>5
<1> QED BY Zenon, <1>6, <1>7

\* What alloc_baseline takes was not written by the scan before.
LEMMA AllocNotRecent ==
  ASSUME TypeInv, Counts, next <= Len(procs)
  PROVE  /\ alloc_baseline \in Slots
         /\ table[alloc_baseline].used =>
              table[alloc_baseline].generation < generation - 1
<1> DEFINE unused == {i \in Slots : ~table[i].used}
           oldest == {i \in Slots : \A j \in Slots : table[i].generation <= table[j].generation}
<1>1. CASE unused # {}
  <2>1. unused \in SUBSET Nat BY Zenon, SlotsFinite
  <2>2. First(unused) \in unused BY Zenon, <1>1, <2>1, FirstIn
  <2>3. alloc_baseline = First(unused) BY Zenon, <1>1 DEF alloc_baseline
  <2> QED BY Zenon, <2>2, <2>3
<1>2. CASE unused = {}
  <2>1. \A i \in Slots : table[i].used BY Zenon, <1>2
  <2>2. oldest # {} BY Zenon, <2>1, OldestExists
  <2>3. oldest \in SUBSET Nat BY Zenon, SlotsFinite
  <2>4. First(oldest) \in oldest BY Zenon, <2>2, <2>3, FirstIn
  <2>5. alloc_baseline = First(oldest) BY Zenon, <1>2 DEF alloc_baseline
  <2>6. \A i \in Slots : table[i].generation \in Nat /\ table[i].generation <= generation
    BY Zenon, <2>1 DEF TypeInv, Entries
  <2>7. PICK j \in Slots : table[j].generation < generation - 1
    <3>1. SUFFICES ASSUME \A j \in Slots : ~(table[j].generation < generation - 1)
                   PROVE  FALSE
      BY Zenon
    <3> DEFINE A == Stamped(generation)
               B == Stamped(generation - 1)
    <3>2. Slots \subseteq A \cup B
      <4>1. ASSUME NEW j \in Slots PROVE table[j].generation \in {generation, generation - 1}
        BY <2>6, <3>1 DEF TypeInv
      <4> QED BY Zenon, <2>1, <4>1 DEF Stamped
    <3>3. A \in SUBSET Slots /\ B \in SUBSET Slots BY Zenon DEF Stamped
    <3>4. IsFiniteSet(A) /\ IsFiniteSet(B)
      <4> HIDE DEF A, B
      <4> QED BY Zenon, <3>3, SlotsFinite, FS_Subset
    <3>5. /\ IsFiniteSet(A \cup B)
          /\ Cardinality(A \cup B) = Cardinality(A) + Cardinality(B) - Cardinality(A \cap B)
      <4> HIDE DEF A, B
      <4> QED BY Zenon, <3>4, FS_Union
    <3>6. A \cap B \in SUBSET Slots BY Zenon, <3>3
    <3>7. /\ Cardinality(A) \in Nat /\ Cardinality(B) \in Nat /\ Cardinality(A \cap B) \in Nat
      <4> HIDE DEF A, B
      <4>1. IsFiniteSet(A \cap B) BY Zenon, <3>6, SlotsFinite, FS_Subset
      <4> QED BY Zenon, <3>4, <4>1, FS_CardinalityType
    <3>8. Cardinality(Slots) <= Cardinality(A \cup B)
      <4> HIDE DEF A, B
      <4> QED BY Zenon, <3>2, <3>5, FS_Subset
    <3>9. Cardinality(A) <= MaxTasks - 1
      BY <3>7, SnapshotLength, BaselineAssumption DEF TypeInv, Counts
    <3> QED
      BY <3>5, <3>7, <3>8, <3>9, SlotsFinite, BaselineAssumption DEF Counts
  <2>8. table[First(oldest)].generation <= table[j].generation BY Zenon, <2>4, <2>7
  <2> QED BY <2>4, <2>5, <2>6, <2>7, <2>8 DEF TypeInv
<1> QED BY Zenon, <1>1, <1>2

-----------------------------------------------------------------------------
(* The invariant holds initially, and every step keeps it.                 *)

\* The table starts empty.
LEMMA InitEstablishes == BaselineInit => BaselineInv
<1> SUFFICES ASSUME BaselineInit PROVE BaselineInv BY Zenon
<1>1. Len(<<>>) = 0 /\ <<>> \in Snapshots
  <2>1. <<>> \in Seq(Processes) /\ Len(<<>>) = 0 BY Zenon, EmptySeq
  <2>2. <<>> \in [1 .. 0 -> Processes] BY Zenon, <2>1, LenProperties
  <2>3. 0 \in 0 .. MaxTasks BY BaselineAssumption
  <2> QED BY Zenon, <2>1, <2>2, <2>3 DEF Snapshots
<1>2. Unused \in Entries /\ ~Unused.used BY Zenon DEF Unused, Entries
<1>3. \A i \in Slots : table[i] = Unused /\ before[i] = Unused BY Zenon DEF BaselineInit
<1>4. TypeInv
  <2>1. table \in [Slots -> Entries] /\ before \in [Slots -> Entries]
    BY Zenon, <1>2 DEF BaselineInit
  <2> QED BY <1>1, <1>2, <1>3, <2>1 DEF TypeInv, BaselineInit
<1>5. OneEntryPerPid /\ Origin /\ Untouched
  BY Zenon, <1>2, <1>3 DEF OneEntryPerPid, Origin, Untouched
<1>6. OwnBaseline BY Zenon DEF BaselineInit, OwnBaseline
<1>7. Counts
  <2>1. \A g : Stamped(g) = {} BY Zenon, <1>2, <1>3 DEF Stamped
  <2>2. \A g : Cardinality(Stamped(g)) = 0 BY Zenon, <2>1, FS_EmptySet
  <2> QED BY <2>2, BaselineAssumption DEF Counts, BaselineInit
<1>8. EscalationSeen BY Zenon, <1>2, <1>3 DEF EscalationSeen
<1> QED BY Zenon, <1>4, <1>5, <1>6, <1>7, <1>8 DEF BaselineInv

\* A new scan: what was current becomes the scan before.
LEMMA BeginScanKeeps == BaselineInv /\ BeginScan => BaselineInv'
<1> SUFFICES ASSUME BaselineInv, BeginScan PROVE BaselineInv' BY Zenon
<1> USE DEF BeginScan
<1>1. TypeInv BY Zenon DEF BaselineInv
<1>2. Len(procs) \in Nat /\ Len(procs) <= MaxTasks BY Zenon, <1>1, SnapshotLength DEF TypeInv
<1>3. Len(procs') \in Nat BY Zenon, SnapshotLength
<1>4. /\ table' = table /\ before' = table /\ generation' = generation + 1 /\ next' = 1
      /\ generation \in Nat /\ 1 .. next' - 1 = {}
  BY <1>1 DEF TypeInv
<1>5. TypeInv'
  <2>1. \A i \in Slots : table[i].used =>
          table[i].generation >= 1 /\ table[i].generation <= generation + 1
    BY <1>1 DEF TypeInv, Entries
  <2>2. /\ generation + 1 \in Nat /\ generation + 1 >= 1 /\ next' \in Nat \ {0}
        /\ next' <= Len(procs') + 1
    BY <1>3, <1>4
  <2>3. table \in [Slots -> Entries] BY Zenon, <1>1 DEF TypeInv
  <2> QED BY Zenon, <1>4, <2>1, <2>2, <2>3 DEF TypeInv
<1>6. OneEntryPerPid' BY Zenon, <1>4 DEF BaselineInv, OneEntryPerPid
<1>7. Origin' BY Zenon, <1>4 DEF Origin
<1>8. OwnBaseline' BY Zenon DEF OwnBaseline
<1>9. Counts'
  <2>1. \A i \in Slots : table[i].used => table[i].generation # generation + 1
    BY <1>1 DEF TypeInv, Entries
  <2>2. (Stamped(generation))' = {} BY Zenon, <1>4, <2>1 DEF Stamped
  <2>3. generation' - 1 = generation BY <1>4
  <2>4. (Stamped(generation - 1))' = Stamped(generation) BY Zenon, <1>4, <2>3 DEF Stamped
  <2>5. Cardinality(Stamped(generation)) <= MaxTasks
    <3>1. Stamped(generation) \in SUBSET Slots BY Zenon DEF Stamped
    <3>2. Cardinality(Stamped(generation)) \in Nat
      BY Zenon, <3>1, SlotsFinite, FS_Subset, FS_CardinalityType
    <3>3. Cardinality(Stamped(generation)) <= next - 1 BY Zenon DEF BaselineInv, Counts
    <3> QED BY <1>1, <1>2, <3>2, <3>3, BaselineAssumption DEF TypeInv
  <2>6. Cardinality({}) = 0 /\ next' - 1 = 0 BY <1>4, FS_EmptySet
  <2>7. Cardinality((Stamped(generation))') <= next' - 1
    <3>1. Cardinality((Stamped(generation))') = 0 BY <2>2, <2>6, Zenon
    <3> QED BY <2>6, <3>1
  <2>8. Cardinality((Stamped(generation - 1))') <= MaxTasks BY Zenon, <2>4, <2>5
  <2> QED BY Zenon, <2>7, <2>8 DEF Counts
<1>10. Untouched' BY Zenon, <1>4 DEF Untouched
<1>11. EscalationSeen' BY Zenon, <1>4 DEF EscalationSeen, Compared
<1> QED BY Zenon, <1>5, <1>6, <1>7, <1>8, <1>9, <1>10, <1>11 DEF BaselineInv

\* One turn of the loop: the slot that is written, what is in it afterwards, and
\* with which entry the process was compared.
LEMMA TurnOfLoop ==
  ASSUME BaselineInv, CompareProcess
  PROVE  \E slot \in Slots, e \in Entries :
           /\ \A i \in Slots : i # slot => table'[i] = table[i]
           /\ table' \in [Slots -> Entries]
           /\ table'[slot].used /\ table'[slot].pid = procs[next].pid
           /\ table'[slot].generation = generation
           /\ \/ /\ table[slot].used /\ table[slot].pid = procs[next].pid
                 /\ e = table[slot]
              \/ /\ \A i \in Slots : table[i].used => table[i].pid # procs[next].pid
                 /\ table[slot].used => table[slot].generation < generation - 1
                 /\ e.generation = 0
           /\ signalled' = IF had_baseline(e) /\ Escalates(e, procs[next])
                           THEN signalled \cup {procs[next].pid} ELSE signalled
<1> DEFINE r == procs[next]
           found == find_baseline(r.pid)
           slot == IF found # {} THEN First(found) ELSE alloc_baseline
           e == IF found # {} THEN table[slot] ELSE fresh_entry(slot, r.pid)
           new == Entry(r.pid, r.cred.euid, r.cred.caps, generation)
<1>1. TypeInv /\ Counts /\ next <= Len(procs) BY Zenon DEF BaselineInv, CompareProcess
<1>2. r \in Processes BY <1>1, SnapshotLength DEF TypeInv
<1>3. /\ table' = [table EXCEPT ![slot] = new]
      /\ signalled' = IF had_baseline(e) /\ Escalates(e, r)
                      THEN signalled \cup {r.pid} ELSE signalled
  BY Zenon DEF CompareProcess
<1>4. new \in Entries /\ new.used /\ new.pid = r.pid /\ new.generation = generation
  BY <1>1, <1>2 DEF Entry, Entries, Processes, Creds, TypeInv
<1>5. table \in [Slots -> Entries] BY Zenon, <1>1 DEF TypeInv
<1>6. CASE found # {}
  <2>1. found \in SUBSET Nat BY Zenon, SlotsFinite DEF find_baseline
  <2>2. slot \in found BY Zenon, <1>6, <2>1, FirstIn
  <2>3. slot \in Slots /\ table[slot].used /\ table[slot].pid = r.pid BY Zenon, <2>2 DEF find_baseline
  <2>4. e = table[slot] /\ e \in Entries BY Zenon, <1>5, <1>6, <2>3
  <2> HIDE DEF slot, e, new, found
  <2>5. /\ \A i \in Slots : i # slot => table'[i] = table[i]
        /\ table' \in [Slots -> Entries] /\ table'[slot] = new
    BY Zenon, <1>3, <1>4, <1>5, <2>3
  <2> QED BY Zenon, <1>3, <1>4, <2>3, <2>4, <2>5
<1>7. CASE found = {}
  <2>1. slot = alloc_baseline BY Zenon, <1>7
  <2>2. slot \in Slots /\ (table[slot].used => table[slot].generation < generation - 1)
    BY Zenon, <1>1, <2>1, AllocNotRecent
  <2>3. \A i \in Slots : table[i].used => table[i].pid # r.pid BY Zenon, <1>7 DEF find_baseline
  <2>4. e \in Entries /\ e.generation = 0
    BY Zenon, <1>2, <1>7 DEF fresh_entry, Entry, Entries, Processes
  <2> HIDE DEF slot, e, new, found
  <2>5. /\ \A i \in Slots : i # slot => table'[i] = table[i]
        /\ table' \in [Slots -> Entries] /\ table'[slot] = new
    BY Zenon, <1>3, <1>4, <1>5, <2>2
  <2> QED BY Zenon, <1>3, <1>4, <2>2, <2>3, <2>4, <2>5
<1> QED BY Zenon, <1>6, <1>7

\* A turn of the loop, one conjunct after the other.
LEMMA CompareKeeps == BaselineInv /\ CompareProcess => BaselineInv'
<1> SUFFICES ASSUME BaselineInv, CompareProcess PROVE BaselineInv' BY Zenon
<1> DEFINE r == procs[next]
<1>1. TypeInv /\ OneEntryPerPid /\ Origin /\ OwnBaseline /\ Counts /\ Untouched /\ EscalationSeen
  BY Zenon DEF BaselineInv
<1>2. PICK slot \in Slots, e \in Entries :
        /\ \A i \in Slots : i # slot => table'[i] = table[i]
        /\ table' \in [Slots -> Entries]
        /\ table'[slot].used /\ table'[slot].pid = r.pid
        /\ table'[slot].generation = generation
        /\ \/ /\ table[slot].used /\ table[slot].pid = r.pid
              /\ e = table[slot]
           \/ /\ \A i \in Slots : table[i].used => table[i].pid # r.pid
              /\ table[slot].used => table[slot].generation < generation - 1
              /\ e.generation = 0
        /\ signalled' = IF had_baseline(e) /\ Escalates(e, r)
                        THEN signalled \cup {r.pid} ELSE signalled
  BY Zenon, TurnOfLoop
<1>3. /\ next <= Len(procs) /\ next' = next + 1
      /\ generation' = generation /\ procs' = procs /\ before' = before
  BY Zenon DEF CompareProcess
<1>4. /\ Len(procs) \in Nat /\ Len(procs) <= MaxTasks /\ DOMAIN procs = 1 .. Len(procs)
  BY Zenon, <1>1, SnapshotLength DEF TypeInv
<1>5. next \in Nat \ {0} /\ generation \in Nat /\ generation >= 1 /\ next \in DOMAIN procs
  BY <1>1, <1>3, <1>4 DEF TypeInv
<1>6. /\ next' - 1 = next /\ 1 .. next' - 1 = (1 .. next - 1) \cup {next}
      /\ next \notin 1 .. next - 1
  BY <1>3, <1>5
\* A slot with the record's PID is the slot written.
<1>7. \A i \in Slots : table[i].used /\ table[i].pid = r.pid => i = slot
  BY Zenon, <1>1, <1>2 DEF OneEntryPerPid
<1>8. TypeInv'
  <2>1. next' \in Nat \ {0} /\ next' <= Len(procs) + 1 BY <1>3, <1>4, <1>5
  <2>2. \A i \in Slots : table'[i].used =>
          table'[i].generation >= 1 /\ table'[i].generation <= generation
    <3> TAKE i \in Slots
    <3>1. CASE i = slot BY <1>2, <1>5, <3>1
    <3>2. CASE i # slot BY Zenon, <1>1, <1>2, <3>2 DEF TypeInv
    <3> QED BY Zenon, <3>1, <3>2
  <2> QED BY Zenon, <1>1, <1>2, <1>3, <1>5, <2>1, <2>2 DEF TypeInv
<1>9. OneEntryPerPid'
  <2> SUFFICES ASSUME NEW i \in Slots, NEW j \in Slots,
                      table'[i].used, table'[j].used, table'[i].pid = table'[j].pid
               PROVE  i = j
    BY Zenon DEF OneEntryPerPid
  <2>1. CASE i # slot /\ j # slot BY Zenon, <1>1, <1>2, <2>1 DEF OneEntryPerPid
  <2>2. CASE i = slot BY Zenon, <1>2, <1>7, <2>2
  <2>3. CASE j = slot BY Zenon, <1>2, <1>7, <2>3
  <2> QED BY Zenon, <2>1, <2>2, <2>3
<1>10. Origin'
  <2> SUFFICES ASSUME NEW i \in Slots, table'[i].used
               PROVE  \/ \E j \in Slots : before[j].used /\ before[j].pid = table'[i].pid
                      \/ \E x \in 1 .. next' - 1 : procs[x].pid = table'[i].pid
    BY <1>3 DEF Origin
  <2>1. CASE i = slot BY Zenon, <1>2, <1>6, <2>1
  <2>2. CASE i # slot BY <1>1, <1>2, <1>6, <2>2 DEF Origin
  <2> QED BY Zenon, <2>1, <2>2
<1>11. OwnBaseline'
  <2> SUFFICES ASSUME NEW p \in signalled'
               PROVE  \/ \E i \in Slots : before[i].used /\ before[i].pid = p
                      \/ \E x, y \in 1 .. next' - 1 :
                           x # y /\ procs[x].pid = p /\ procs[y].pid = p
    BY <1>3 DEF OwnBaseline
  <2>1. CASE p \in signalled BY <1>1, <1>6, <2>1 DEF OwnBaseline
  <2>2. CASE p \notin signalled
    <3>1. p = r.pid /\ had_baseline(e) BY Zenon, <1>2, <2>2
    <3>2. table[slot].used /\ table[slot].pid = p BY Zenon, <1>2, <3>1 DEF had_baseline
    <3>3. \/ \E j \in Slots : before[j].used /\ before[j].pid = p
          \/ \E x \in 1 .. next - 1 : procs[x].pid = p
      BY Zenon, <1>1, <3>2 DEF Origin
    <3> QED BY Zenon, <1>6, <3>1, <3>3
  <2> QED BY Zenon, <2>1, <2>2
<1>12. Counts'
  <2>1. \A g : Stamped(g) \in SUBSET Slots BY Zenon DEF Stamped
  <2>2. \A g : IsFiniteSet(Stamped(g)) /\ Cardinality(Stamped(g)) \in Nat
    BY Zenon, <2>1, SlotsFinite, FS_Subset, FS_CardinalityType
  <2>3. (Stamped(generation))' \subseteq Stamped(generation) \cup {slot}
    BY Zenon, <1>2, <1>3 DEF Stamped
  <2>4. /\ IsFiniteSet(Stamped(generation) \cup {slot})
        /\ Cardinality(Stamped(generation) \cup {slot}) <= Cardinality(Stamped(generation)) + 1
        /\ Cardinality(Stamped(generation) \cup {slot}) \in Nat
    <3> DEFINE A == Stamped(generation)
    <3>1. IsFiniteSet(A) /\ Cardinality(A) \in Nat BY Zenon, <2>2
    <3> HIDE DEF A
    <3>2. /\ IsFiniteSet(A \cup {slot})
          /\ Cardinality(A \cup {slot}) = IF slot \in A THEN Cardinality(A) ELSE Cardinality(A) + 1
      BY Zenon, <3>1, FS_AddElement
    <3>3. Cardinality(A \cup {slot}) <= Cardinality(A) + 1 /\ Cardinality(A \cup {slot}) \in Nat
      BY <3>1, <3>2
    <3> QED BY Zenon, <3>2, <3>3 DEF A
  <2>5. /\ Cardinality((Stamped(generation))') <= Cardinality(Stamped(generation) \cup {slot})
        /\ IsFiniteSet((Stamped(generation))')
    BY Zenon, <2>3, <2>4, FS_Subset
  <2>6. Cardinality((Stamped(generation))') \in Nat BY Zenon, <2>5, FS_CardinalityType
  <2>7. Cardinality(Stamped(generation)) <= next - 1 BY Zenon, <1>1 DEF Counts
  <2>8. Cardinality((Stamped(generation))') <= next' - 1
    BY <1>5, <1>6, <2>2, <2>4, <2>5, <2>6, <2>7
  <2>9. (Stamped(generation - 1))' \subseteq Stamped(generation - 1)
    <3>1. table'[slot].generation # generation - 1 BY <1>2, <1>5
    <3> QED BY Zenon, <1>2, <1>3, <3>1 DEF Stamped
  <2>10. Cardinality((Stamped(generation - 1))') <= Cardinality(Stamped(generation - 1))
         /\ IsFiniteSet((Stamped(generation - 1))')
    BY Zenon, <2>2, <2>9, FS_Subset
  <2>11. Cardinality((Stamped(generation - 1))') \in Nat BY Zenon, <2>10, FS_CardinalityType
  <2>12. Cardinality((Stamped(generation - 1))') <= MaxTasks
    BY <1>1, <2>2, <2>10, <2>11, BaselineAssumption DEF Counts
  <2> QED BY Zenon, <2>8, <2>12 DEF Counts
<1>13. Untouched'
  <2> SUFFICES ASSUME NEW k \in DOMAIN procs, NEW i \in Slots,
                      k >= next', before[i].used, before[i].pid = procs[k].pid,
                      before[i].generation = generation - 1,
                      \A x \in 1 .. next' - 1 : procs[x].pid # procs[k].pid
               PROVE  table'[i] = before[i]
    BY <1>3 DEF Untouched
  <2>1. k >= next /\ r.pid # procs[k].pid /\ \A x \in 1 .. next - 1 : procs[x].pid # procs[k].pid
    BY <1>3, <1>4, <1>5, <1>6
  <2>2. table[i] = before[i] BY Zenon, <1>1, <2>1 DEF Untouched
  <2>3. i # slot
    <3>1. CASE table[slot].used /\ table[slot].pid = r.pid BY Zenon, <2>1, <2>2, <3>1
    <3>2. CASE table[slot].used => table[slot].generation < generation - 1
      BY <1>5, <2>2, <3>2
    <3> QED BY Zenon, <1>2, <3>1, <3>2
  <2> QED BY Zenon, <1>2, <2>2, <2>3
<1>14. EscalationSeen'
  <2> SUFFICES ASSUME NEW q \in Compared', NEW i \in Slots,
                      before[i].used, before[i].pid = q.pid,
                      before[i].generation = generation - 1, Escalates(before[i], q)
               PROVE  q.pid \in signalled'
    BY Zenon, <1>3 DEF EscalationSeen, Escalates, root_transition, caps_expanded
  <2>1. PICK k \in 1 .. next' - 1 :
          q = procs[k] /\ \A y \in DOMAIN procs : procs[y].pid = procs[k].pid => y = k
    BY Zenon, <1>3 DEF Compared
  <2>2. CASE k \in 1 .. next - 1
    <3>1. q \in Compared BY Zenon, <2>1, <2>2 DEF Compared
    <3>2. q.pid \in signalled BY Zenon, <1>1, <3>1 DEF EscalationSeen
    <3> QED BY Zenon, <1>2, <3>2
  <2>3. CASE k = next
    <3>1. \A x \in 1 .. next - 1 : procs[x].pid # procs[next].pid
      BY <1>3, <1>4, <1>5, <2>1, <2>3
    <3>2. table[i] = before[i] BY <1>1, <1>5, <2>1, <2>3, <3>1 DEF Untouched
    <3>3. i = slot BY Zenon, <1>7, <2>1, <2>3, <3>2
    <3>4. e = before[i] BY Zenon, <1>2, <2>1, <2>3, <3>2, <3>3
    <3>5. had_baseline(e) BY <1>1, <3>4 DEF had_baseline, TypeInv, Entries
    <3> QED BY Zenon, <1>2, <2>1, <2>3, <3>4, <3>5
  <2> QED BY Zenon, <1>6, <2>1, <2>2, <2>3
<1> QED BY Zenon, <1>8, <1>9, <1>10, <1>11, <1>12, <1>13, <1>14 DEF BaselineInv

-----------------------------------------------------------------------------
(* The theorems.                                                           *)

\* The inductive invariant holds in every behaviour.
LEMMA InvAlways == BaselineSpec => []BaselineInv
<1>1. BaselineInv /\ [BaselineNext]_baselineVars => BaselineInv'
  <2> SUFFICES ASSUME BaselineInv, [BaselineNext]_baselineVars PROVE BaselineInv' BY Zenon
  <2>1. CASE BeginScan BY Zenon, <2>1, BeginScanKeeps
  <2>2. CASE CompareProcess BY Zenon, <2>2, CompareKeeps
  <2>3. CASE UNCHANGED baselineVars
    BY <2>3, SMTT(60) DEF baselineVars, BaselineInv, TypeInv, OneEntryPerPid, Origin, OwnBaseline,
                Counts, Stamped, Untouched, EscalationSeen, Compared, Escalates,
                root_transition, caps_expanded
  <2> QED BY Zenon, <2>1, <2>2, <2>3 DEF BaselineNext
<1> QED BY <1>1, InitEstablishes, PTL DEF BaselineSpec

\* Whatever a process gained between two consecutive snapshots that hold it is
\* signalled, however many processes come and go: the table of
\* task_walker_detect_privilege_escalation is large enough.
THEOREM EscalationSeenAlways == BaselineSpec => []EscalationSeen
<1>1. BaselineInv => EscalationSeen BY Zenon DEF BaselineInv
<1> QED BY <1>1, InvAlways, PTL

\* No process is signalled on what another one left in a recycled slot.
THEOREM OwnBaselineAlways == BaselineSpec => []OwnBaseline
<1>1. BaselineInv => OwnBaseline BY Zenon DEF BaselineInv
<1> QED BY <1>1, InvAlways, PTL

\* find_baseline's answer is the only one there is.
THEOREM OneEntryPerPidAlways == BaselineSpec => []OneEntryPerPid
<1>1. BaselineInv => OneEntryPerPid BY Zenon DEF BaselineInv
<1> QED BY <1>1, InvAlways, PTL
=============================================================================
