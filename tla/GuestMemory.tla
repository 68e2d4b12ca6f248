---------------------------- MODULE GuestMemory ----------------------------
(***************************************************************************)
(* memory.c: how the daemon reads and writes guest memory while the guest  *)
(* runs.  A physical access is a loop of process_vm_readv/writev calls over*)
(* the memory slots, any of which may fail or move fewer bytes than asked; *)
(* a read whose slots fail is tried again on /dev/mem.  A virtual read     *)
(* translates page by page through four levels of tables, each entry being *)
(* a physical read of its own.                                             *)
(*                                                                         *)
(* Addresses count cells.  A cell is a byte of data or a table entry, and a*)
(* page holds as many entries as cells.  What a buffer holds is where its  *)
(* bytes came from.                                                        *)
(***************************************************************************)
EXTENDS Naturals, Sequences

CONSTANTS
  PageCells,  \* VMI_PAGE_SIZE
  memslots,   \* session->memslots: guest-physical address and size of each
  RetryMax,   \* VMI_IO_RETRY_MAX
  Entries,    \* the table entries the guest uses
  Tables,     \* the guest's memory when the call starts
  Cr3,        \* session->kernel_pgd
  Gvas, Gpas, \* addresses of the calls
  MaxSize,    \* bound: cells asked for by one call
  MaxRemaps   \* bound: table entries the guest changes during the call

ASSUME MemoryAssumption ==
  /\ PageCells \in Nat \ {0} /\ RetryMax \in Nat
  /\ memslots \in Seq([gpa : Nat, size : Nat \ {0}])
  /\ \A e \in Entries : e.addr \in Nat
  /\ Cr3 \in Nat /\ Gvas \subseteq Nat /\ Gpas \subseteq Nat /\ MaxSize \in Nat

\* enumerate_memslots_from_maps lays QEMU's mappings out one after the other.
ASSUME LayoutAssumption ==
  \A i \in DOMAIN memslots :
    memslots[i].gpa = IF i = 1 THEN 0 ELSE memslots[i - 1].gpa + memslots[i - 1].size

RamCells ==
  UNION {memslots[i].gpa .. memslots[i].gpa + memslots[i].size - 1 : i \in DOMAIN memslots}

ASSUME TablesAssumption ==
  DOMAIN Tables = RamCells /\ \A a \in RamCells : Tables[a].addr \in Nat

VARIABLES
  cells,      \* the guest's physical memory
  op,         \* the call: virtual read, physical read, physical write
  gva, size,  \* arguments of the virtual read; gva moves on with every page
  bytes_read, \* of the virtual read
  level,      \* the table the walk reads next; 0: the page itself
  at,         \* where the call is: its physical access, or its end
  gpa, want,  \* the physical access
  done, retries, out,
  buf,        \* what the virtual read has copied so far
  calls,      \* history: system calls that moved bytes or were retried
  wentDev,    \* history: some physical access of the call went to /dev/mem
  changes,    \* history: entries the guest changed during the call
  may         \* history: per byte, the cells it was mapped to during the call

access == <<gpa, want, done, retries, out, calls>>
watched == <<wentDev, changes, may>>
memoryVars == <<cells, op, gva, size, bytes_read, level, at, access, buf, watched>>

MinOf(a, b) == IF a < b THEN a ELSE b

-----------------------------------------------------------------------------
(* The memory slots.                                                       *)

find_memslot(a) ==
  {i \in DOMAIN memslots :
     memslots[i].gpa <= a /\ a < memslots[i].gpa + memslots[i].size}

\* A byte of QEMU's memory, named by the slot and the offset in it.
Host(i, offset) == <<i, offset>>
Device(a) == <<0, a>>

\* Reference: where the byte at guest-physical address a lies.
Located(a) == {Host(i, a - memslots[i].gpa) : i \in find_memslot(a)}

-----------------------------------------------------------------------------
(* Translation.                                                            *)

\* The cells an entry of each level maps: 4 KB, 2 MB, 1 GB and 512 GB.
Span ==
  <<PageCells, PageCells * PageCells, PageCells * PageCells * PageCells,
    PageCells * PageCells * PageCells * PageCells>>

Index(l, va) == (va \div Span[l]) % PageCells

\* A 4 KB page ends the walk at level 1, a huge page at level 2 or 3; the bit
\* means nothing at level 4.
IsLeaf(l, e) == l = 1 \/ (l \in {2, 3} /\ e.huge)

\* Mutant: the offset in a huge page is cut down to that of a small one.
LeafGpaSmall(l, e, va) == Span[l] * (e.addr \div Span[l]) + (va % PageCells)

LeafGpa(l, e, va) == Span[l] * (e.addr \div Span[l]) + (va % Span[l])

\* Reference: the translation of va by tables that stand still, as the set of
\* its one result, empty when it faults.
Walk(m, va) ==
  LET from[l \in 1 .. 4, t \in Nat] ==
        LET a == t + Index(l, va)
            e == m[a]
        IN IF a \notin DOMAIN m \/ ~e.present THEN {}
           ELSE IF l = 1 \/ (l < 4 /\ e.huge)
           THEN {(e.addr - (e.addr % Span[l])) + (va % Span[l])}
           ELSE from[l - 1, e.addr]
  IN from[4, Cr3]

Mapped(m, va) == UNION {Located(a) : a \in Walk(m, va)}

-----------------------------------------------------------------------------
(* Calls.                                                                  *)

StartAccess(a, n) ==
  /\ at' = "slots"
  /\ gpa' = a
  /\ want' = n
  /\ done' = 0
  /\ retries' = 0
  /\ out' = [k \in 1 .. n |-> <<>>]
  /\ calls' = 0

Finish(rc) ==
  /\ at' = rc
  /\ UNCHANGED <<access, op, gva, size, bytes_read, level, buf>>

MemoryInit ==
  /\ cells = Tables
  /\ op = "none" /\ at = "idle"
  /\ gva = 0 /\ size = 0 /\ bytes_read = 0 /\ level = 0
  /\ gpa = 0 /\ want = 0 /\ done = 0 /\ retries = 0 /\ out = <<>> /\ calls = 0
  /\ buf = <<>>
  /\ wentDev = FALSE /\ changes = 0 /\ may = <<>>

vmi_physical(kind, a, n) ==
  /\ at = "idle"
  /\ op' = kind
  /\ StartAccess(a, n)
  /\ UNCHANGED <<cells, gva, size, bytes_read, level, buf, watched>>

vmi_read_virtual(va, n) ==
  /\ at = "idle"
  /\ op' = "virtual"
  /\ gva' = va
  /\ size' = n
  /\ level' = 4
  /\ StartAccess(Cr3 + Index(4, va), 1)
  /\ may' = [k \in 1 .. n |-> Mapped(cells, va + k - 1)]
  /\ UNCHANGED <<cells, bytes_read, buf, wentDev, changes>>

-----------------------------------------------------------------------------
(* One physical access: read_via_memslots and read_remote_process, then    *)
(* read_via_devmem; write_via_memslots and write_remote_process.           *)

\* n more bytes of the access; source is where each byte of it lies.
Moved(n, source) ==
  /\ out' = [k \in 1 .. want |-> IF k > done /\ k <= done + n THEN source[k] ELSE out[k]]
  /\ done' = done + n
  /\ retries' = 0
  /\ UNCHANGED <<gpa, want>>

\* Mutant: the transient errors are not counted.
RetryAlways == UNCHANGED <<gpa, want, done, retries, out>>

\* EINTR, EAGAIN, EBUSY, ETIMEDOUT.
Retry ==
  /\ retries < RetryMax
  /\ retries' = retries + 1
  /\ UNCHANGED <<gpa, want, done, out>>

\* What one call asks for: the rest of the access, up to the end of the slot.
SlotChunk(i) == MinOf(want - done, memslots[i].gpa + memslots[i].size - (gpa + done))

SlotCall ==
  /\ at = "slots" /\ done < want
  /\ \E i \in find_memslot(gpa + done) :
       \/ \E n \in 1 .. SlotChunk(i) :
            Moved(n, [k \in 1 .. want |-> Host(i, (gpa + k - 1) - memslots[i].gpa)])
       \/ Retry
  /\ calls' = calls + 1
  /\ UNCHANGED <<cells, op, gva, size, bytes_read, level, at, buf, watched>>

\* Mutant: /dev/mem continues where the slots failed.
ReadDevmemRest ==
  /\ at' = "devmem"
  /\ retries' = 0
  /\ UNCHANGED <<done, gpa, want, out, calls>>

\* The fallback starts over with the whole buffer.
ReadDevmem ==
  /\ at' = "devmem"
  /\ done' = 0
  /\ retries' = 0
  /\ UNCHANGED <<gpa, want, out, calls>>

\* No slot holds the address, or a call failed: a read falls back, a write ends.
SlotsFail ==
  /\ at = "slots" /\ done < want
  /\ \/ /\ op # "write"
        /\ ReadDevmem
        /\ wentDev' = TRUE
        /\ UNCHANGED <<op, gva, size, bytes_read, level, buf, changes, may>>
     \/ /\ op = "write"
        /\ Finish("failed")
        /\ UNCHANGED watched
  /\ UNCHANGED cells

DevCall ==
  /\ at = "devmem" /\ done < want
  /\ \/ \E n \in 1 .. want - done : Moved(n, [k \in 1 .. want |-> Device(gpa + k - 1)])
     \/ Retry
  /\ calls' = calls + 1
  /\ UNCHANGED <<cells, op, gva, size, bytes_read, level, at, buf, watched>>

DevFails ==
  /\ at = "devmem" /\ done < want
  /\ Finish("failed")
  /\ UNCHANGED <<cells, watched>>

AccessDone == at \in {"slots", "devmem"} /\ done = want

PhysicalDone ==
  /\ AccessDone /\ op # "virtual"
  /\ Finish("ok")
  /\ UNCHANGED <<cells, watched>>

-----------------------------------------------------------------------------
(* vmi_gva_to_gpa and vmi_read_virtual.                                    *)

\* The entry that was read, taken when the walk goes on: what the guest changes
\* after the read it may as well change after the step.  What /dev/mem holds is
\* the host's.
EntriesRead == IF at = "devmem" THEN Entries ELSE {cells[gpa]}

PageChunk == MinOf(size - bytes_read, PageCells - (gva % PageCells))

WalkStep ==
  /\ AccessDone /\ op = "virtual" /\ level > 0
  /\ \E e \in EntriesRead :
       \/ ~e.present /\ Finish("failed")
       \/ /\ e.present /\ ~IsLeaf(level, e)
          /\ level' = level - 1
          /\ StartAccess(e.addr + Index(level - 1, gva), 1)
          /\ UNCHANGED <<op, gva, size, bytes_read, buf>>
       \/ /\ e.present /\ IsLeaf(level, e)
          /\ level' = 0
          /\ StartAccess(LeafGpa(level, e, gva), PageChunk)
          /\ UNCHANGED <<op, gva, size, bytes_read, buf>>
  /\ UNCHANGED <<cells, watched>>

PageDone ==
  /\ AccessDone /\ op = "virtual" /\ level = 0
  /\ buf' = buf \o out
  /\ bytes_read' = bytes_read + want
  /\ gva' = gva + want
  /\ IF bytes_read + want < size
     THEN level' = 4 /\ StartAccess(Cr3 + Index(4, gva + want), 1)
     ELSE at' = "ok" /\ UNCHANGED <<level, access>>
  /\ UNCHANGED <<cells, op, size, watched>>

-----------------------------------------------------------------------------
(* The guest changes a table entry, at any moment of the call.             *)

Remap ==
  /\ at \in {"slots", "devmem"} /\ op = "virtual"
  /\ changes < MaxRemaps
  /\ \E a \in RamCells, e \in Entries :
       /\ cells[a] # e
       /\ cells' = [cells EXCEPT ![a] = e]
       /\ may' = [k \in 1 .. size |->
                    may[k] \cup Mapped(cells', gva - bytes_read + k - 1)]
  /\ changes' = changes + 1
  /\ UNCHANGED <<op, gva, size, bytes_read, level, at, access, buf, wentDev>>

MemoryNext ==
  \/ \E va \in Gvas, n \in 1 .. MaxSize : vmi_read_virtual(va, n)
  \/ \E kind \in {"read", "write"}, a \in Gpas, n \in 1 .. MaxSize :
       vmi_physical(kind, a, n)
  \/ SlotCall \/ SlotsFail \/ DevCall \/ DevFails \/ PhysicalDone
  \/ WalkStep \/ PageDone
  \/ Remap

MemorySpec == MemoryInit /\ [][MemoryNext]_memoryVars

-----------------------------------------------------------------------------
(* Properties.                                                             *)

\* A virtual read that succeeds without /dev/mem has copied, for every byte, one
\* that the guest had mapped at that address at some moment of the call: across
\* pages, slots, huge pages, short reads, retries and a change of a table entry
\* under the walk.  (Two changes in one call can make a walk that combines old
\* and new tables.)
ReadFaithful ==
  at = "ok" /\ op = "virtual" /\ ~wentDev /\ changes <= 1 =>
    /\ Len(buf) = size
    /\ \A k \in 1 .. size : buf[k] \in may[k]

\* A physical access that is complete has moved every byte, and all of them from
\* the slots or all of them from /dev/mem: what a failed attempt on the slots left
\* in the buffer is never part of a result.
OneSource ==
  AccessDone =>
    \/ \A k \in 1 .. want : out[k] \in Located(gpa + k - 1)
    \/ op # "write" /\ \A k \in 1 .. want : out[k] = Device(gpa + k - 1)

\* An access ends after a bounded number of system calls, whatever they return:
\* the count of retries starts again only after progress.
CallsBounded == calls <= 2 * want * (RetryMax + 1)

-----------------------------------------------------------------------------
(* The inductive invariant behind OneSource and CallsBounded.              *)

CellsInv == DOMAIN cells = RamCells /\ \A a \in RamCells : cells[a].addr \in Nat

\* The access under way: how far it is, where its bytes came from, and what it
\* has cost: at most RetryMax + 1 calls per byte, and the retries since.
AccessInv ==
  /\ gpa \in Nat /\ want \in Nat /\ done \in 0 .. want
  /\ retries \in 0 .. RetryMax /\ (done = want => retries = 0)
  /\ calls \in Nat
  /\ DOMAIN out = 1 .. want

SlotsInv ==
  at = "slots" =>
    /\ \A k \in 1 .. done : out[k] \in Located(gpa + k - 1)
    /\ calls <= done * (RetryMax + 1) + retries

DevmemInv ==
  at = "devmem" =>
    /\ op # "write"
    /\ \A k \in 1 .. done : out[k] = Device(gpa + k - 1)
    /\ calls <= want * (RetryMax + 1) + (done * (RetryMax + 1) + retries)

\* The virtual read around it: entries are read one by one, and the chunk of a
\* page stays within what was asked for.
VirtualInv ==
  op = "virtual" /\ at \in {"slots", "devmem"} =>
    /\ gva \in Nat /\ size \in Nat /\ bytes_read \in Nat /\ bytes_read < size
    /\ level \in 0 .. 4
    /\ level > 0 => want = 1
    /\ level = 0 => bytes_read + want <= size

MemoryInv ==
  /\ at = "idle" => bytes_read = 0
  /\ CellsInv
  /\ AccessInv
  /\ SlotsInv
  /\ DevmemInv
  /\ VirtualInv
  /\ CallsBounded
=============================================================================
