--------------------------- MODULE MCGuestAccess ----------------------------
(* The guard and the memory access under it on small instances, as         *)
(* alternatives: a behaviour is one of NptGuard, whose reads are one step  *)
(* per chunk, or one of the calls such a read is made of.                  *)
EXTENDS MCNptGuard, GuestMemory

VARIABLE part

\* Two slots of three pages; the second starts in the middle of a huge page.
TwoSlots == <<[gpa |-> 0, size |-> 6], [gpa |-> 6, size |-> 6]>>

Absent == [present |-> FALSE, huge |-> FALSE, addr |-> 0]
Points(huge, addr) == [present |-> TRUE, huge |-> huge, addr |-> addr]
SomeEntries ==
  {Absent, Points(FALSE, 4), Points(FALSE, 6), Points(TRUE, 8), Points(FALSE, 10)}

\* The tables of four levels are pages 0, 2, 4 and 6.  They map addresses 0 to 3
\* by small pages, 4 to 7 by a huge page and 8 to 15 by one of the next size; the
\* bit for huge pages is also set where it means nothing.
SomeTables ==
  LET at0(a) == CASE a = 0 -> Points(TRUE, 2)
                  [] a = 2 -> Points(FALSE, 4) [] a = 3 -> Points(TRUE, 0)
                  [] a = 4 -> Points(FALSE, 6) [] a = 5 -> Points(TRUE, 10)
                  [] a = 6 -> Points(FALSE, 8) [] a = 7 -> Points(TRUE, 10)
                  [] OTHER -> Absent
  IN [a \in RamCells |-> at0(a)]

MCInit ==
  /\ Init /\ MemoryInit
  /\ part = "guard" \/ (part = "memory" /\ pgd = KernelCr3 /\ ~allowPatch)

MCNext ==
  /\ \/ part = "guard" /\ Next /\ UNCHANGED memoryVars
     \/ part = "memory" /\ MemoryNext /\ UNCHANGED vars
  /\ UNCHANGED part

MCSpec == MCInit /\ [][MCNext]_<<vars, memoryVars, part>>
=============================================================================
