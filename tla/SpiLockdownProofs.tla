-------------------------- MODULE SpiLockdownProofs --------------------------
(***************************************************************************)
(* Proof that the SPI lockdown, once it went through without a fault,      *)
(* holds whenever the operating system has the machine, for every size of  *)
(* the flash, every ME region in it, every state the platform firmware     *)
(* leaves the registers in, and any number of sleeps; and that the types   *)
(* hold, also after a fault.                                               *)
(***************************************************************************)
EXTENDS SpiLockdown, Integers, SequenceTheorems, TLAPS

\* The boot script grows by one record at a time ...
LEMMA AppendSecond ==
  ASSUME NEW a, NEW b
  PROVE  Append(<<a>>, b) = <<a, b>>
<1> DEFINE S == {a, b}
<1>1. <<a>> \in Seq(S) /\ Len(<<a>>) = 1 /\ <<a>>[1] = a
  OBVIOUS
<1>2. /\ <<a, b>> \in Seq(S) /\ Len(<<a, b>>) = 2
      /\ <<a, b>>[1] = a /\ <<a, b>>[2] = b
  OBVIOUS
<1>3. /\ Append(<<a>>, b) \in Seq(S) /\ Len(Append(<<a>>, b)) = 2
      /\ Append(<<a>>, b)[1] = a /\ Append(<<a>>, b)[2] = b
  BY <1>1
<1>4. \A i \in 1 .. 2 : i = 1 \/ i = 2
  OBVIOUS
<1>5. \A i \in 1 .. 2 : Append(<<a>>, b)[i] = <<a, b>>[i]
  BY Zenon, <1>2, <1>3, <1>4
<1> HIDE DEF S
<1> QED
  BY Zenon, <1>2, <1>3, <1>5, SeqEqual

LEMMA AppendThird ==
  ASSUME NEW a, NEW b, NEW c
  PROVE  Append(<<a, b>>, c) = <<a, b, c>>
<1> DEFINE S == {a, b, c}
<1>1. /\ <<a, b>> \in Seq(S) /\ Len(<<a, b>>) = 2
      /\ <<a, b>>[1] = a /\ <<a, b>>[2] = b
  OBVIOUS
<1>2. /\ <<a, b, c>> \in Seq(S) /\ Len(<<a, b, c>>) = 3
      /\ <<a, b, c>>[1] = a /\ <<a, b, c>>[2] = b /\ <<a, b, c>>[3] = c
  OBVIOUS
<1>3. /\ Append(<<a, b>>, c) \in Seq(S) /\ Len(Append(<<a, b>>, c)) = 3
      /\ Append(<<a, b>>, c)[1] = a /\ Append(<<a, b>>, c)[2] = b
      /\ Append(<<a, b>>, c)[3] = c
  BY <1>1
<1>4. \A i \in 1 .. 3 : i = 1 \/ i = 2 \/ i = 3
  OBVIOUS
<1>5. \A i \in 1 .. 3 : Append(<<a, b>>, c)[i] = <<a, b, c>>[i]
  BY Zenon, <1>2, <1>3, <1>4
<1> HIDE DEF S
<1> QED
  BY Zenon, <1>2, <1>3, <1>5, SeqEqual

\* ... and is replayed from its head.
LEMMA ScriptParts ==
  ASSUME NEW a, NEW b, NEW c
  PROVE  /\ Head(<<a, b, c>>) = a /\ Tail(<<a, b, c>>) = <<b, c>>
         /\ Head(<<b, c>>) = b /\ Tail(<<b, c>>) = <<c>>
         /\ Head(<<c>>) = c /\ Tail(<<c>>) = <<>>
         /\ <<a, b, c>> # <<>> /\ <<b, c>> # <<>> /\ <<c>> # <<>>
<1>1. Head(<<a, b, c>>) = a /\ Head(<<b, c>>) = b /\ Head(<<c>>) = c
  OBVIOUS
<1>2. Tail(<<a, b, c>>) = <<b, c>>
  OBVIOUS
<1>3. Tail(<<b, c>>) = <<c>>
  OBVIOUS
<1>4. Tail(<<c>>) = <<>>
  OBVIOUS
<1>5. <<a, b, c>> # <<>> /\ <<b, c>> # <<>> /\ <<c>> # <<>>
  BY Zenon
<1> QED
  BY Zenon, <1>1, <1>2, <1>3, <1>4, <1>5

\* The three records of the driver.
LEMMA Records ==
  /\ Record("save1") = [reg |-> "BIOS_CNTL", val |-> readback]
  /\ Record("save2") = [reg |-> "PR0", val |-> Protect(freg2)]
  /\ Record("save3") = [reg |-> "HSFS", val |-> TRUE]
BY Zenon DEF Record

\* Before its write of PR0 the driver leaves the registers alone.
LEMMA LocateStep ==
  ASSUME LockInv, LocateS3 \/ CheckRcba
  PROVE  LockInv'
<1>1. UNCHANGED <<freg2, oem, rcba, pr0, flockdn, cntl, script>>
  BY Zenon DEF LocateS3, CheckRcba, fixed, hw
<1>2. pc \in {"locate", "rcba"} /\ pc' \in {"rcba", "pr0", "halted"}
  BY Zenon DEF LocateS3, CheckRcba
<1>3. CASE LocateS3
  <2>1. ~fault' => s3'
    BY <1>3, Zenon DEF LocateS3
  <2>2. pc = "locate" /\ pc' = "rcba"
    BY Zenon, <1>3 DEF LocateS3
  <2> QED
    BY Zenon, <1>1, <2>1, <2>2 DEF LockInv, BootInv, ScriptInv, ReplayInv, Saving, Booted
<1>4. CASE CheckRcba
  BY Zenon, <1>1, <1>4
  DEF CheckRcba, LockInv, BootInv, ScriptInv, ReplayInv, Saving, Booted
<1> QED
  BY Zenon, <1>3, <1>4

\* The three register writes.  A write of PR0 that does not take, because the
\* firmware has already locked the register, is a fault.
LEMMA RegisterStep ==
  ASSUME LockInv, ProgramPR0 \/ AssertFlockdn \/ WriteBiosCntl
  PROVE  LockInv'
<1>1. CASE ProgramPR0
  BY Zenon, <1>1
  DEF LockInv, ProgramPR0, WritePR0, BootInv, ScriptInv, ReplayInv, fixed, Saving,
      Booted, Protect
<1>2. CASE AssertFlockdn
  BY Zenon, <1>2
  DEF LockInv, AssertFlockdn, BootInv, ScriptInv, ReplayInv, fixed, Saving, Booted,
      Protect
<1>3. CASE WriteBiosCntl
  <2>1. /\ pc = "bios_cntl" /\ pc' \in {"save1", "os"} /\ (s3 => pc' = "save1")
        /\ UNCHANGED <<freg2, oem, rcba, pr0, flockdn, s3, script>>
        /\ readback' = cntl'
        /\ ~fault' => ~fault /\ Restricted(cntl')
    BY Zenon, <1>3 DEF WriteBiosCntl, fixed, Restricted
  <2> QED
    BY Zenon, <2>1 DEF LockInv, BootInv, ScriptInv, ReplayInv, Saving, Booted, Protect
<1> QED
  BY Zenon, <1>1, <1>2, <1>3

\* A record that is not saved is a fault; the others make up the full script.
LEMMA SaveStep ==
  ASSUME LockInv, SaveRecord
  PROVE  LockInv'
<1> DEFINE r1 == Record("save1")
           r2 == Record("save2")
           r3 == Record("save3")
<1>1. UNCHANGED <<freg2, oem, rcba, pr0, flockdn, cntl, s3, readback, replay>>
  BY Zenon DEF SaveRecord, fixed, hw
<1>2. \/ pc = "save1" /\ pc' = "save2"
      \/ pc = "save2" /\ pc' = "save3"
      \/ pc = "save3" /\ pc' = "os"
  BY DEF SaveRecord, After
<1>3. r1' = r1 /\ r2' = r2 /\ r3' = r3 /\ FullScript' = <<r1, r2, r3>>
  BY Zenon, <1>1 DEF Record, Protect, FullScript
<1>4. SUFFICES ASSUME ~fault' PROVE BootInv' /\ ScriptInv' /\ ReplayInv'
  BY Zenon, <1>1, <1>2 DEF LockInv
<1>5. ~fault /\ script' = Append(script, Record(pc)) /\ BootInv /\ ScriptInv
  BY <1>4 DEF SaveRecord, LockInv
<1>6. BootInv' /\ ReplayInv'
  BY Zenon, <1>1, <1>2, <1>5 DEF BootInv, ReplayInv, Saving, Protect
<1>7. ScriptInv'
  <2> HIDE DEF r1, r2, r3
  <2>1. CASE pc = "save1" /\ pc' = "save2"
    <3>1. script' = Append(<<>>, r1) /\ Restricted(readback)
      BY Zenon, <1>5, <2>1 DEF ScriptInv, r1, Saving
    <3>2. script' = <<r1>>
      BY <3>1
    <3> QED
      BY Zenon, <1>1, <1>3, <2>1, <3>1, <3>2 DEF ScriptInv, Saving, Booted, r1, r2
  <2>2. CASE pc = "save2" /\ pc' = "save3"
    <3>1. script' = Append(<<r1>>, r2) /\ Restricted(readback)
      BY Zenon, <1>5, <2>2 DEF ScriptInv, r1, r2, Saving
    <3>2. script' = <<r1, r2>>
      BY Zenon, <3>1, AppendSecond
    <3> QED
      BY Zenon, <1>1, <1>3, <2>2, <3>1, <3>2 DEF ScriptInv, Saving, Booted, r1, r2
  <2>3. CASE pc = "save3" /\ pc' = "os"
    <3>1. script' = Append(<<r1, r2>>, r3) /\ Restricted(readback)
      BY Zenon, <1>5, <2>3 DEF ScriptInv, r1, r2, r3, Saving
    <3>2. script' = <<r1, r2, r3>>
      BY Zenon, <3>1, AppendThird
    <3> QED
      BY Zenon, <1>1, <1>3, <2>3, <3>1, <3>2 DEF ScriptInv, Saving, Booted, Restricted
  <2> QED
    BY Zenon, <1>2, <2>1, <2>2, <2>3
<1> QED
  BY Zenon, <1>6, <1>7

\* The operating system can neither move the latched range nor clear the latched
\* bits; sleep loses them and a resume begins with the full script.
LEMMA SystemStep ==
  ASSUME LockInv, OsWrites \/ Sleep \/ Wake
  PROVE  LockInv'
<1>1. FullScript' = FullScript /\ UNCHANGED <<freg2, oem, s3, readback, script, fault>>
  BY Zenon DEF OsWrites, Sleep, Wake, fixed, FullScript, Record, Protect
<1>2. pc \in Booted /\ pc' \in Booted
  BY Zenon DEF OsWrites, Sleep, Wake, Booted
<1>3. SUFFICES ASSUME ~fault' PROVE BootInv' /\ ScriptInv' /\ ReplayInv'
  BY Zenon, <1>1, <1>2 DEF LockInv, Booted
<1>4. BootInv /\ ScriptInv /\ ReplayInv
  BY Zenon, <1>1, <1>3 DEF LockInv
<1>5. ScriptInv'
  BY Zenon, <1>1, <1>2, <1>4 DEF ScriptInv, Booted, Saving, Restricted
<1>6. CASE OsWrites
  <2>1. pc = "os" /\ pc' = "os" /\ flockdn' = flockdn
    BY Zenon, <1>6 DEF OsWrites
  <2>2. flockdn /\ Restricted(cntl) /\ pr0 = Protect(freg2)
    BY Zenon, <1>4, <2>1 DEF BootInv
  <2>3. pr0' = pr0 /\ Restricted(cntl')
    <3>1. pr0' = pr0
      BY Zenon, <1>6, <2>2 DEF OsWrites, WritePR0
    <3>2. cntl' = cntl \/ \E v : cntl' = Latched(v)
      BY Zenon, <1>6 DEF OsWrites
    <3>3. ASSUME NEW v PROVE Restricted(Latched(v))
      BY Zenon, <2>2 DEF Latched, Restricted
    <3> QED
      BY Zenon, <2>2, <3>1, <3>2, <3>3
  <2>4. flockdn'
    BY Zenon, <2>1, <2>2
  <2> QED
    BY Zenon, <1>1, <1>4, <1>5, <2>1, <2>2, <2>3, <2>4
    DEF BootInv, ReplayInv, Restricted, Saving, Protect
<1>7. CASE Sleep
  <2>1. pc = "os" /\ pc' = "sleep" /\ pr0' = oem.pr0 /\ flockdn' = oem.flockdn
    BY Zenon, <1>7 DEF Sleep
  <2> QED
    BY Zenon, <1>1, <1>4, <1>5, <2>1 DEF BootInv, ReplayInv, Saving, Protect
<1>8. CASE Wake
  BY <1>1, <1>4, <1>8
  DEF Wake, hw, BootInv, ScriptInv, ReplayInv, Saving, Booted, Protect
<1> QED
  BY Zenon, <1>5, <1>6, <1>7, <1>8

\* One record of the boot script, or the end of the resume.
LEMMA ReplayStep ==
  ASSUME LockInv, Replay
  PROVE  LockInv'
<1> DEFINE r1 == Record("save1")
           r2 == Record("save2")
           r3 == Record("save3")
<1>1. UNCHANGED <<freg2, oem, s3, readback, script, fault>> /\ pc = "resume"
  BY Zenon DEF Replay, fixed
<1>2. /\ FullScript' = <<r1, r2, r3>> /\ FullScript = <<r1, r2, r3>>
      /\ r1' = r1 /\ r2' = r2 /\ r3' = r3 /\ Protect(freg2)' = Protect(freg2)
  BY Zenon, <1>1 DEF FullScript, Record, Protect
<1>3. pc' \in {"resume", "os"}
  BY Zenon, <1>1 DEF Replay
<1>4. SUFFICES ASSUME ~fault' PROVE BootInv' /\ ScriptInv' /\ ReplayInv'
  BY Zenon, <1>1, <1>3 DEF LockInv
<1>5. BootInv /\ ScriptInv /\ ReplayInv
  BY Zenon, <1>1, <1>4 DEF LockInv
<1>6. ScriptInv'
  BY Zenon, <1>1, <1>2, <1>3, <1>5 DEF ScriptInv, Booted, Saving, Restricted
<1>7. /\ r1.reg = "BIOS_CNTL" /\ r1.val = readback
      /\ r2.reg = "PR0" /\ r2.val = Protect(freg2)
      /\ r3.reg = "HSFS"
  BY Records
<1>8. Restricted(readback) /\ s3 /\ (oem.flockdn => oem.pr0 = Protect(freg2))
  BY Zenon, <1>1, <1>5 DEF ScriptInv, BootInv, Booted
<1> HIDE DEF r1, r2, r3
<1>9. CASE replay = <<r1, r2, r3>>
  <2>1. Head(replay) = r1 /\ Tail(replay) = <<r2, r3>> /\ replay # <<>>
    BY <1>9, ScriptParts
  <2>2. /\ pc' = pc /\ pr0' = pr0 /\ (flockdn' <=> flockdn)
        /\ cntl' = Latched(readback) /\ replay' = <<r2, r3>>
    BY Zenon, <1>7, <2>1 DEF Replay
  <2>3. Restricted(cntl')
    BY Zenon, <1>8, <2>2 DEF Restricted, Latched
  <2>4. BootInv'
    BY Zenon, <1>1, <1>2, <1>8, <2>2 DEF BootInv, Saving
  <2>5. ReplayInv'
    BY Zenon, <1>1, <1>2, <1>5, <2>2, <2>3 DEF ReplayInv, r2, r3
  <2> QED
    BY Zenon, <1>6, <2>4, <2>5
<1>10. CASE replay = <<r2, r3>> /\ Restricted(cntl)
  <2>1. Head(replay) = r2 /\ Tail(replay) = <<r3>> /\ replay # <<>>
    BY Zenon, <1>10, ScriptParts
  <2>2. /\ pc' = pc /\ pr0' = (IF flockdn THEN pr0 ELSE Protect(freg2))
        /\ cntl' = cntl /\ replay' = <<r3>>
    BY Zenon, <1>7, <2>1 DEF Replay, WritePR0
  <2>3. pr0' = Protect(freg2)
    BY Zenon, <1>1, <1>5, <2>2 DEF ReplayInv
  <2>4. BootInv'
    BY Zenon, <1>1, <1>2, <1>8, <2>2 DEF BootInv, Saving
  <2>5. ReplayInv'
    BY Zenon, <1>2, <1>10, <2>2, <2>3 DEF ReplayInv, Restricted, r3
  <2> QED
    BY Zenon, <1>6, <2>4, <2>5
<1>11. CASE replay = <<r3>> /\ Restricted(cntl) /\ pr0 = Protect(freg2)
  <2>1. Head(replay) = r3 /\ Tail(replay) = <<>> /\ replay # <<>>
    BY Zenon, <1>11, ScriptParts
  <2>2. pc' = pc /\ pr0' = pr0 /\ flockdn' /\ cntl' = cntl /\ replay' = <<>>
    BY Zenon, <1>7, <2>1 DEF Replay
  <2>3. BootInv'
    BY Zenon, <1>1, <1>2, <1>8, <2>2 DEF BootInv, Saving
  <2>4. ReplayInv'
    BY Zenon, <1>2, <1>11, <2>2 DEF ReplayInv, Restricted
  <2> QED
    BY Zenon, <1>6, <2>3, <2>4
<1>12. CASE replay = <<>> /\ Restricted(cntl) /\ pr0 = Protect(freg2) /\ flockdn
  <2>1. pc' = "os" /\ UNCHANGED <<pr0, flockdn, cntl>>
    BY Zenon, <1>12 DEF Replay, hw
  <2>2. BootInv'
    BY Zenon, <1>1, <1>2, <1>8, <1>12, <2>1 DEF BootInv, Saving, Restricted
  <2>3. ReplayInv'
    BY Zenon, <2>1 DEF ReplayInv
  <2> QED
    BY Zenon, <1>6, <2>2, <2>3
<1> QED
  BY Zenon, <1>1, <1>2, <1>5, <1>9, <1>10, <1>11, <1>12 DEF ReplayInv, r1, r2, r3

\* LockInv holds of every behaviour.
LEMMA LockAlways == Spec => []LockInv
<1>1. Init => LockInv
  BY Zenon DEF Init, LockInv, BootInv, ScriptInv, ReplayInv, Saving, Booted
<1>2. LockInv /\ [Next]_vars => LockInv'
  <2> SUFFICES ASSUME LockInv, [Next]_vars PROVE LockInv'
    BY Zenon
  <2>1. CASE UNCHANGED vars
    BY <2>1
    DEF vars, LockInv, BootInv, ScriptInv, ReplayInv, FullScript, Record, Protect,
        Restricted
  <2> QED
    BY Zenon, <2>1, LocateStep, RegisterStep, SaveStep, SystemStep, ReplayStep DEF Next
<1> QED
  BY <1>1, <1>2, PTL DEF Spec

\* EnforceSpiLockdown, for every flash size and ME region: after a boot without a
\* logged fault the operating system never has the machine with a unit of the ME
\* region writable or with BIOS_CNTL unlocked, however often it sleeps.
THEOREM CleanBootAlwaysLocked == Spec => []CleanBootStaysLocked
<1>1. LockInv => CleanBootStaysLocked
  <2> SUFFICES ASSUME LockInv, pc = "os", ~fault PROVE Severed
    BY Zenon DEF CleanBootStaysLocked
  <2>1. pr0 = Protect(freg2) /\ flockdn /\ Restricted(cntl)
    BY Zenon DEF LockInv, BootInv
  <2>2. freg2.base \in Nat /\ freg2.limit \in Nat
    BY FlashAssumption DEF LockInv, Regions
  <2> QED
    BY <2>1, <2>2 DEF Severed, Shielded, Protect, Restricted
<1> QED
  BY <1>1, LockAlways, PTL

-----------------------------------------------------------------------------
(* Type correctness.                                                       *)

\* A record of the boot script is a write of one of the three registers.
LEMMA RecordTypes ==
  ASSUME TypeOK, pc \in DOMAIN After
  PROVE  Record(pc) \in Writes
<1>1. pc \in {"save1", "save2", "save3"}
  BY DEF After
<1>2. readback \in Controls /\ Protect(freg2) \in Ranges
  BY Zenon DEF TypeOK, Regions, Ranges, Protect
<1>3. /\ [reg |-> "BIOS_CNTL", val |-> readback] \in [reg : {"BIOS_CNTL"}, val : Controls]
      /\ [reg |-> "PR0", val |-> Protect(freg2)] \in [reg : {"PR0"}, val : Ranges]
      /\ [reg |-> "HSFS", val |-> TRUE] \in [reg : {"HSFS"}, val : {TRUE}]
  BY Zenon, <1>2
<1>4. Record("save1") \in Writes /\ Record("save2") \in Writes /\ Record("save3") \in Writes
  BY Zenon, <1>3, Records DEF Writes
<1> QED
  BY Zenon, <1>1, <1>4

\* The value a write leaves in BIOS_CNTL is one the register can hold.
LEMMA LatchTypes ==
  ASSUME TypeOK, NEW v \in Controls
  PROVE  Latched(v) \in Controls /\ AfterWrite(v) \subseteq Controls
<1>1. Latched(v) \in Controls
  BY Zenon DEF Latched, Controls
<1>2. [cntl EXCEPT !.bioswe = v.bioswe] \in Controls
  BY Zenon DEF TypeOK, Controls
<1> QED
  BY Zenon, <1>1, <1>2 DEF AfterWrite

\* What a step of the driver or of the system that saves and replays nothing
\* needs to keep the types.
LEMMA ScriptKept ==
  ASSUME TypeOK, ScriptRoom, UNCHANGED <<script, replay>>,
         \/ pc' \in {"rcba", "pr0", "flockdn", "bios_cntl", "save1"} /\ script = <<>>
         \/ pc' \in {"halted", "os", "sleep", "resume"}
  PROVE  /\ script' \in Seq(Writes) /\ Len(script') <= 3
         /\ replay' \in Seq(Writes) /\ Len(replay') <= Len(script')
         /\ ScriptRoom'
<1>1. CASE pc' \in {"rcba", "pr0", "flockdn", "bios_cntl", "save1"} /\ script = <<>>
  <2>1. pc' # "save2" /\ pc' # "save3"
    BY <1>1
  <2> QED
    BY Zenon, <1>1, <2>1 DEF TypeOK, ScriptRoom
<1>2. CASE pc' \in {"halted", "os", "sleep", "resume"}
  <2>1. pc' \notin {"locate", "rcba", "pr0", "flockdn", "bios_cntl", "save1", "save2", "save3"}
    BY <1>2
  <2> QED
    BY Zenon, <2>1 DEF TypeOK, ScriptRoom
<1> QED
  BY Zenon, <1>1, <1>2

\* The driver's way to the boot script.
LEMMA DriverTypes ==
  ASSUME TypeOK, ScriptRoom,
         LocateS3 \/ CheckRcba \/ ProgramPR0 \/ AssertFlockdn \/ WriteBiosCntl
  PROVE  TypeOK' /\ ScriptRoom'
<1>1. /\ UNCHANGED <<freg2, oem, rcba, script, replay, sleeps>>
      /\ pc \in {"locate", "rcba", "pr0", "flockdn", "bios_cntl"}
      /\ pc' \in {"rcba", "pr0", "flockdn", "bios_cntl", "save1", "halted", "os"}
  BY Zenon DEF LocateS3, CheckRcba, ProgramPR0, AssertFlockdn, WriteBiosCntl, fixed
<1>2. fault' \in BOOLEAN /\ s3' \in BOOLEAN
  BY Zenon DEF LocateS3, CheckRcba, ProgramPR0, AssertFlockdn, WriteBiosCntl, TypeOK
<1>3. Protect(freg2) \in Ranges
  BY Zenon DEF TypeOK, Regions, Ranges, Protect
<1>4. pr0' \in Ranges /\ flockdn' \in BOOLEAN
  BY Zenon, <1>3 DEF LocateS3, CheckRcba, ProgramPR0, AssertFlockdn, WriteBiosCntl,
    WritePR0, hw, TypeOK
<1>5. [bioswe |-> FALSE, ble |-> TRUE, bwp |-> TRUE] \in Controls
  BY Zenon DEF Controls
<1>6. cntl' \in Controls /\ readback' \in Controls
  BY Zenon, <1>5, LatchTypes DEF LocateS3, CheckRcba, ProgramPR0, AssertFlockdn,
    WriteBiosCntl, hw, TypeOK
<1>7. script = <<>>
  BY Zenon, <1>1 DEF ScriptRoom
<1>8. /\ script' \in Seq(Writes) /\ Len(script') <= 3
      /\ replay' \in Seq(Writes) /\ Len(replay') <= Len(script')
      /\ ScriptRoom'
  BY Zenon, <1>1, <1>7, ScriptKept
<1> QED
  BY Zenon, <1>1, <1>2, <1>4, <1>6, <1>8 DEF TypeOK

\* A record is saved or left out.
LEMMA SaveTypes ==
  ASSUME TypeOK, ScriptRoom, SaveRecord
  PROVE  TypeOK' /\ ScriptRoom'
<1>1. /\ UNCHANGED <<freg2, oem, rcba, pr0, flockdn, cntl, s3, readback, replay, sleeps>>
      /\ fault' \in BOOLEAN
  BY Zenon DEF SaveRecord, fixed, hw, TypeOK
<1>2. \/ pc = "save1" /\ pc' = "save2"
      \/ pc = "save2" /\ pc' = "save3"
      \/ pc = "save3" /\ pc' = "os"
  BY DEF SaveRecord, After
<1>3. /\ script \in Seq(Writes) /\ replay \in Seq(Writes) /\ Len(replay) <= Len(script)
      /\ script' = script \/ script' = Append(script, Record(pc))
      /\ Record(pc) \in Writes
  BY Zenon, RecordTypes DEF SaveRecord, TypeOK
<1>4. /\ script' \in Seq(Writes) /\ Len(script') <= Len(script) + 1
      /\ Len(script) \in Nat /\ Len(replay) <= Len(script')
  BY <1>3
<1>5. CASE pc = "save1" /\ pc' = "save2"
  <2>1. Len(script) = 0
    BY <1>5 DEF ScriptRoom
  <2>2. Len(script') <= 1
    BY <1>4, <2>1
  <2>3. Len(script') <= 3
    BY <1>4, <2>1
  <2>4. ScriptRoom'
    BY Zenon, <1>5, <2>2 DEF ScriptRoom
  <2> QED
    BY Zenon, <1>1, <1>3, <1>4, <1>5, <2>3, <2>4 DEF TypeOK
<1>6. CASE pc = "save2" /\ pc' = "save3"
  <2>1. Len(script) <= 1
    BY Zenon, <1>6 DEF ScriptRoom
  <2>2. Len(script') <= 2
    BY <1>4, <2>1
  <2>3. Len(script') <= 3
    BY <1>4, <2>1
  <2>4. ScriptRoom'
    BY Zenon, <1>6, <2>2 DEF ScriptRoom
  <2> QED
    BY Zenon, <1>1, <1>3, <1>4, <1>6, <2>3, <2>4 DEF TypeOK
<1>7. CASE pc = "save3" /\ pc' = "os"
  <2>1. Len(script) <= 2
    BY Zenon, <1>7 DEF ScriptRoom
  <2>3. Len(script') <= 3
    BY <1>4, <2>1
  <2>4. ScriptRoom'
    BY Zenon, <1>7 DEF ScriptRoom
  <2> QED
    BY Zenon, <1>1, <1>3, <1>4, <1>7, <2>3, <2>4 DEF TypeOK
<1> QED
  BY Zenon, <1>2, <1>5, <1>6, <1>7

\* The operating system, sleep and wake.
LEMMA SystemTypes ==
  ASSUME TypeOK, ScriptRoom, OsWrites \/ Sleep \/ Wake
  PROVE  TypeOK' /\ ScriptRoom'
<1>1. /\ UNCHANGED <<freg2, oem, rcba, s3, readback, script, fault>>
      /\ pc' \in {"os", "sleep", "resume"}
  BY Zenon DEF OsWrites, Sleep, Wake, fixed
<1>2. NoRange \in Ranges
  BY FlashAssumption DEF NoRange, Ranges
<1>3. pr0' \in Ranges /\ flockdn' \in BOOLEAN
  BY Zenon, <1>2 DEF OsWrites, Sleep, Wake, WritePR0, hw, TypeOK
<1>4. [Cleared EXCEPT !.bioswe = TRUE] \in Controls /\ Cleared \in Controls
  BY Zenon DEF Cleared, Controls
<1>5. cntl' \in Controls
  BY Zenon, <1>4, LatchTypes DEF OsWrites, Sleep, Wake, hw, TypeOK
<1>6. sleeps' \in 0 .. MaxSleeps
  BY FlashAssumption DEF OsWrites, Sleep, Wake, TypeOK
<1>7. replay' = replay \/ replay' = script
  BY Zenon DEF OsWrites, Sleep, Wake
<1>8. script \in Seq(Writes) /\ replay \in Seq(Writes) /\ Len(replay) <= Len(script)
  BY Zenon DEF TypeOK
<1>9. replay' \in Seq(Writes) /\ Len(replay') <= Len(script')
  BY <1>1, <1>7, <1>8
<1>10. ScriptRoom'
  BY Zenon, <1>1 DEF ScriptRoom
<1> QED
  BY Zenon, <1>1, <1>3, <1>5, <1>6, <1>9, <1>10 DEF TypeOK

\* One step of a resume.
LEMMA ReplayTypes ==
  ASSUME TypeOK, ScriptRoom, Replay
  PROVE  TypeOK' /\ ScriptRoom'
<1>1. /\ UNCHANGED <<freg2, oem, rcba, s3, readback, script, fault, sleeps>>
      /\ pc' \in {"os", "resume"}
  BY Zenon DEF Replay, fixed
<1>2. /\ replay \in Seq(Writes) /\ script \in Seq(Writes)
      /\ Len(replay) <= Len(script) /\ Len(script) <= 3
  BY Zenon DEF TypeOK
<1>3. ScriptRoom'
  BY Zenon, <1>1 DEF ScriptRoom
<1>4. CASE replay = <<>>
  <2>1. UNCHANGED <<pr0, flockdn, cntl, replay>>
    BY Zenon, <1>4 DEF Replay, hw
  <2> QED
    BY Zenon, <1>1, <1>3, <2>1 DEF TypeOK
<1>5. CASE replay # <<>>
  <2> DEFINE w == Head(replay)
  <2>1. w \in Writes /\ Tail(replay) \in Seq(Writes) /\ Len(Tail(replay)) <= Len(replay)
    BY <1>2, <1>5
  <2>2. /\ IF w.reg = "PR0" THEN WritePR0(w.val) ELSE UNCHANGED pr0
        /\ flockdn' = (flockdn \/ w.reg = "HSFS")
        /\ cntl' = IF w.reg = "BIOS_CNTL" THEN Latched(w.val) ELSE cntl
        /\ replay' = Tail(replay)
    BY Zenon, <1>5 DEF Replay
  <2>3. replay' \in Seq(Writes) /\ Len(replay') <= Len(script')
    BY <1>1, <1>2, <2>1, <2>2
  <2> HIDE DEF w
  <2>4. /\ w.reg = "PR0" => w.val \in Ranges
        /\ w.reg = "BIOS_CNTL" => w.val \in Controls
    BY <2>1 DEF Writes
  <2>5. pr0' \in Ranges /\ flockdn' \in BOOLEAN /\ cntl' \in Controls
    BY Zenon, <2>2, <2>4, LatchTypes DEF WritePR0, TypeOK
  <2> QED
    BY Zenon, <1>1, <1>2, <1>3, <2>3, <2>5 DEF TypeOK
<1> QED
  BY Zenon, <1>4, <1>5

\* The registers, the boot script and the driver keep their types; in particular
\* the script never holds more than the three records of the driver, however often
\* the machine sleeps.
THEOREM LockdownTypeCorrect == Spec => []TypeOK
<1>1. Init => TypeOK /\ ScriptRoom
  <2> SUFFICES ASSUME Init PROVE TypeOK /\ ScriptRoom
    BY Zenon
  <2>1. <<>> \in Seq(Writes) /\ Len(<<>>) <= 3 /\ Len(<<>>) <= Len(<<>>)
    OBVIOUS
  <2>2. 0 \in 0 .. MaxSleeps
    BY FlashAssumption
  <2>3. Cleared \in Controls
    BY Zenon DEF Cleared, Controls
  <2>4. ScriptRoom
    BY DEF Init, ScriptRoom
  <2> QED
    BY Zenon, <2>1, <2>2, <2>3, <2>4 DEF Init, TypeOK
<1>2. TypeOK /\ ScriptRoom /\ [Next]_vars => TypeOK' /\ ScriptRoom'
  <2> SUFFICES ASSUME TypeOK, ScriptRoom, [Next]_vars PROVE TypeOK' /\ ScriptRoom'
    BY Zenon
  <2>1. CASE UNCHANGED vars
    <3>1. /\ UNCHANGED <<pc, freg2, oem, rcba, pr0, flockdn, cntl, s3>>
          /\ UNCHANGED <<readback, script, replay, fault, sleeps>>
      BY Zenon, <2>1 DEF vars
    <3>2. TypeOK'
      BY Zenon, <3>1 DEF TypeOK
    <3>3. ScriptRoom'
      BY Zenon, <3>1 DEF ScriptRoom
    <3> QED
      BY Zenon, <3>2, <3>3
  <2> QED
    BY Zenon, <2>1, DriverTypes, SaveTypes, SystemTypes, ReplayTypes DEF Next
<1> QED
  BY <1>1, <1>2, PTL DEF Spec

=============================================================================
