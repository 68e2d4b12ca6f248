---------------------------- MODULE SpiLockdown -----------------------------
(***************************************************************************)
(* The SPI flash lockdown of the DXE driver (EnforceSpiLockdown): protect  *)
(* the ME region with PR0, latch it with FLOCKDN, restrict BIOS_CNTL, and  *)
(* record the same writes in the S3 boot script, which the firmware        *)
(* replays in order after every sleep.  The chipset is external: PR0 is    *)
(* read-only while FLOCKDN is set, BLE and SMM_BWP stay set until reset,   *)
(* any latch may fail to take at boot (one that took takes again when it   *)
(* is replayed), and sleep returns every register to the state the         *)
(* platform firmware gives it before the driver runs.                      *)
(***************************************************************************)
EXTENDS Naturals, Sequences

CONSTANTS
  Top,       \* last 4 KB unit of the modelled flash
  MaxSleeps  \* bound: S3 cycles

ASSUME FlashAssumption == Top \in Nat /\ MaxSleeps \in Nat

Regions == [base : 0 .. Top, limit : 0 .. Top]
Ranges == [base : 0 .. Top, limit : 0 .. Top, wp : BOOLEAN]
NoRange == [base |-> 0, limit |-> 0, wp |-> FALSE]
Controls == [bioswe : BOOLEAN, ble : BOOLEAN, bwp : BOOLEAN]

VARIABLES
  pc,       \* the step of the driver, or who has the machine
  freg2,    \* the ME region in the flash descriptor
  oem,      \* PR0 and FLOCKDN as the platform firmware leaves them
  rcba,     \* RCBA is enabled
  pr0,      \* the register
  flockdn,  \* FLOCKDN in HSFS
  cntl,     \* BIOS_CNTL
  s3,       \* the S3 save state protocol was found
  readback, \* the driver's BiosCntl, as last read
  script,   \* the boot script: a sequence of register writes
  replay,   \* what is left of it during a resume
  fault,    \* history: an error or a warning has been logged
  sleeps    \* history: S3 cycles so far

hw == <<pr0, flockdn, cntl>>
fixed == <<freg2, oem, rcba>>
vars == <<pc, freg2, oem, rcba, pr0, flockdn, cntl, s3, readback, script, replay,
          fault, sleeps>>

Writes == [reg : {"BIOS_CNTL"}, val : Controls] \cup [reg : {"PR0"}, val : Ranges]
            \cup [reg : {"HSFS"}, val : {TRUE}]

TypeOK ==
  /\ pc \in {"locate", "rcba", "pr0", "flockdn", "bios_cntl", "save1", "save2",
             "save3", "halted", "os", "sleep", "resume"}
  /\ freg2 \in Regions
  /\ oem \in [pr0 : Ranges, flockdn : BOOLEAN]
  /\ rcba \in BOOLEAN
  /\ pr0 \in Ranges
  /\ flockdn \in BOOLEAN
  /\ cntl \in Controls
  /\ s3 \in BOOLEAN
  /\ readback \in Controls
  /\ script \in Seq(Writes) /\ Len(script) <= 3
  /\ replay \in Seq(Writes) /\ Len(replay) <= Len(script)
  /\ fault \in BOOLEAN
  /\ sleeps \in 0 .. MaxSleeps

-----------------------------------------------------------------------------
(* The chipset.                                                            *)

Cleared == [bioswe |-> FALSE, ble |-> FALSE, bwp |-> FALSE]

WritePR0(v) == pr0' = IF flockdn THEN pr0 ELSE v

\* BIOSWE takes the value written; BLE and SMM_BWP cannot be cleared.
Latched(v) == [bioswe |-> v.bioswe, ble |-> cntl.ble \/ v.ble, bwp |-> cntl.bwp \/ v.bwp]

\* What a write of BIOS_CNTL may leave behind: the value, or one that did not latch.
AfterWrite(v) == {Latched(v), [cntl EXCEPT !.bioswe = v.bioswe]}

Init ==
  /\ pc = "locate"
  /\ freg2 \in Regions
  /\ oem \in [pr0 : Ranges, flockdn : BOOLEAN]
  /\ rcba \in BOOLEAN
  /\ pr0 = oem.pr0
  /\ flockdn = oem.flockdn
  /\ cntl = Cleared
  /\ s3 = FALSE
  /\ readback = Cleared
  /\ script = <<>>
  /\ replay = <<>>
  /\ fault = FALSE
  /\ sleeps = 0

-----------------------------------------------------------------------------
(* EnforceSpiLockdown, one step per register it writes or record it saves. *)

LocateS3 ==
  /\ pc = "locate"
  /\ s3' \in BOOLEAN
  /\ fault' = ~s3'
  /\ pc' = "rcba"
  /\ UNCHANGED <<fixed, hw, readback, script, replay, sleeps>>

\* SentinelSmmDxeEntry stops the machine when EnforceSpiLockdown fails.
CheckRcba ==
  /\ pc = "rcba"
  /\ pc' = IF rcba THEN "pr0" ELSE "halted"
  /\ fault' = (fault \/ ~rcba)
  /\ UNCHANGED <<fixed, hw, s3, readback, script, replay, sleeps>>

\* Mutated form of Protect: the limit is taken as exclusive.
ProtectShort(r) == [base |-> r.base, limit |-> r.limit - 1, wp |-> TRUE]

\* PR_VALUE of the region's bounds, write protection on.
Protect(r) == [base |-> r.base, limit |-> r.limit, wp |-> TRUE]

ProgramPR0 ==
  /\ pc = "pr0"
  /\ WritePR0(Protect(freg2))
  /\ fault' = (fault \/ pr0' # Protect(freg2))
  /\ pc' = "flockdn"
  /\ UNCHANGED <<fixed, flockdn, cntl, s3, readback, script, replay, sleeps>>

AssertFlockdn ==
  /\ pc = "flockdn"
  /\ flockdn' \in {TRUE, flockdn}
  /\ fault' = (fault \/ ~flockdn')
  /\ pc' = "bios_cntl"
  /\ UNCHANGED <<fixed, pr0, cntl, s3, readback, script, replay, sleeps>>

WriteBiosCntl ==
  /\ pc = "bios_cntl"
  /\ cntl' \in AfterWrite([bioswe |-> FALSE, ble |-> TRUE, bwp |-> TRUE])
  /\ readback' = cntl'
  /\ fault' = (fault \/ ~cntl'.ble \/ ~cntl'.bwp)
  /\ pc' = IF s3 THEN "save1" ELSE "os"
  /\ UNCHANGED <<fixed, pr0, flockdn, s3, script, replay, sleeps>>

\* Mutated form of Record: the latch is recorded before the range.
RecordLatchFirst(step) ==
  CASE step = "save1" -> [reg |-> "BIOS_CNTL", val |-> readback]
    [] step = "save3" -> [reg |-> "PR0", val |-> Protect(freg2)]
    [] step = "save2" -> [reg |-> "HSFS", val |-> TRUE]
Record(step) ==
  CASE step = "save1" -> [reg |-> "BIOS_CNTL", val |-> readback]
    [] step = "save2" -> [reg |-> "PR0", val |-> Protect(freg2)]
    [] step = "save3" -> [reg |-> "HSFS", val |-> TRUE]

After == [save1 |-> "save2", save2 |-> "save3", save3 |-> "os"]

\* A record that cannot be saved is logged and left out.
SaveRecord ==
  /\ pc \in DOMAIN After
  /\ \/ script' = Append(script, Record(pc)) /\ UNCHANGED fault
     \/ fault' = TRUE /\ UNCHANGED script
  /\ pc' = After[pc]
  /\ UNCHANGED <<fixed, hw, s3, readback, replay, sleeps>>

-----------------------------------------------------------------------------
(* The operating system, sleep and resume.                                 *)

OsWrites ==
  /\ pc = "os"
  /\ \/ WritePR0(NoRange) /\ UNCHANGED cntl
     \/ cntl' = Latched([Cleared EXCEPT !.bioswe = TRUE]) /\ UNCHANGED pr0
  /\ UNCHANGED <<pc, fixed, flockdn, s3, readback, script, replay, fault, sleeps>>

Sleep ==
  /\ pc = "os" /\ sleeps < MaxSleeps
  /\ pc' = "sleep"
  /\ pr0' = oem.pr0 /\ flockdn' = oem.flockdn /\ cntl' = Cleared
  /\ sleeps' = sleeps + 1
  /\ UNCHANGED <<fixed, s3, readback, script, replay, fault>>

Wake ==
  /\ pc = "sleep"
  /\ pc' = "resume"
  /\ replay' = script
  /\ UNCHANGED <<fixed, hw, s3, readback, script, fault, sleeps>>

Replay ==
  /\ pc = "resume"
  /\ IF replay = <<>>
     THEN pc' = "os" /\ UNCHANGED <<hw, replay>>
     ELSE LET w == Head(replay)
          IN  /\ IF w.reg = "PR0" THEN WritePR0(w.val) ELSE UNCHANGED pr0
              /\ flockdn' = (flockdn \/ w.reg = "HSFS")
              /\ cntl' = IF w.reg = "BIOS_CNTL" THEN Latched(w.val) ELSE cntl
              /\ replay' = Tail(replay)
              /\ UNCHANGED pc
  /\ UNCHANGED <<fixed, s3, readback, script, fault, sleeps>>

Next ==
  \/ LocateS3
  \/ CheckRcba
  \/ ProgramPR0
  \/ AssertFlockdn
  \/ WriteBiosCntl
  \/ SaveRecord
  \/ OsWrites
  \/ Sleep
  \/ Wake
  \/ Replay

Spec == Init /\ [][Next]_vars

-----------------------------------------------------------------------------
(* Properties.                                                             *)

\* Unit u of the flash cannot be written by anyone.
Shielded(u) == flockdn /\ pr0.wp /\ pr0.base <= u /\ u <= pr0.limit

\* The state the lockdown is meant to establish: the whole ME region is shielded
\* and flash writes are left to SMM.
Severed ==
  /\ \A u \in freg2.base .. freg2.limit : Shielded(u)
  /\ cntl.ble /\ cntl.bwp

\* After a boot in which nothing was logged as failed, the operating system never
\* has the machine without the lockdown, whatever it writes and however often it
\* sleeps: the boot script restores the range before the latch that freezes it.
CleanBootStaysLocked == pc = "os" /\ ~fault => Severed

-----------------------------------------------------------------------------
(* The invariant behind it.                                                *)

Restricted(c) == c.ble /\ c.bwp
Saving == {"save1", "save2", "save3"}
Booted == {"os", "sleep", "resume"}

\* The boot script, complete.
FullScript == <<Record("save1"), Record("save2"), Record("save3")>>

\* The registers, as far as a boot without a fault has got with them.
BootInv ==
  /\ pc \in {"locate", "rcba", "pr0", "sleep"} => pr0 = oem.pr0 /\ flockdn = oem.flockdn
  /\ pc \notin {"locate", "rcba", "pr0"} /\ oem.flockdn => oem.pr0 = Protect(freg2)
  /\ pc \in {"flockdn", "bios_cntl", "os"} \cup Saving => pr0 = Protect(freg2)
  /\ pc \in {"bios_cntl", "os"} \cup Saving => flockdn
  /\ pc \in {"os"} \cup Saving => Restricted(cntl)
  /\ pc # "locate" => s3
  /\ pc # "halted"

\* What is recorded.
ScriptInv ==
  /\ pc \in Saving \cup Booted => Restricted(readback)
  /\ pc \notin Saving \cup Booted => script = <<>>
  /\ pc = "save1" => script = <<>>
  /\ pc = "save2" => script = <<Record("save1")>>
  /\ pc = "save3" => script = <<Record("save1"), Record("save2")>>
  /\ pc \in Booted => script = FullScript

\* A resume has the registers its replayed part restores; the range is never
\* frozen at another value.
ReplayInv ==
  pc = "resume" =>
    /\ flockdn => pr0 = Protect(freg2)
    /\ \/ replay = FullScript
       \/ replay = <<Record("save2"), Record("save3")>> /\ Restricted(cntl)
       \/ /\ replay = <<Record("save3")>>
          /\ Restricted(cntl) /\ pr0 = Protect(freg2)
       \/ /\ replay = <<>>
          /\ Restricted(cntl) /\ pr0 = Protect(freg2) /\ flockdn

LockInv ==
  /\ freg2 \in Regions
  /\ pc = "locate" => ~fault
  /\ ~fault => BootInv /\ ScriptInv /\ ReplayInv

\* Where the driver is bounds how many records it can have saved, which keeps the
\* script at three.
ScriptRoom ==
  /\ pc \in {"locate", "rcba", "pr0", "flockdn", "bios_cntl", "save1"} => script = <<>>
  /\ pc = "save2" => Len(script) <= 1
  /\ pc = "save3" => Len(script) <= 2
=============================================================================
