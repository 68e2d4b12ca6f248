------------------------------ MODULE NptGuard ------------------------------
(***************************************************************************)
(* The integrity guard of the VMI daemon: guard regions and their          *)
(* baselines (npt_guard.c), the fault handler (npf_handler.c), the         *)
(* drawbridge (cpuid_handler.c) and the registration socket                *)
(* (heki_server.c), driven by the loop of main.c, while the guest kernel   *)
(* keeps writing its memory.                                               *)
(*                                                                         *)
(* The daemon has one thread.  It reads a region chunk by chunk, and the   *)
(* guest can write between two chunks and between two reads of the same    *)
(* region, so every vmi_read_physical is a step.  A hash stands for the    *)
(* bytes it was computed from (no collisions).                             *)
(***************************************************************************)
EXTENDS Naturals, Sequences, FiniteSets

CONSTANTS
  Cells,       \* guest physical addresses, 0 .. n, in units of one table entry
  Values,      \* what a cell may hold
  BootMem,     \* guest memory when the daemon starts
  PageSize,    \* VMI_PAGE_SIZE in cells, also the chunk of hash_guest_region
  Interval,    \* INTEGRITY_CHECK_INTERVAL_US, in clock ticks
  MaxRegions,  \* MAX_GUARD_REGIONS
  TableGpa,    \* where sys_call_table lies; it is PageSize cells long
  Optional,    \* the regions the environment may configure, in source order
  Requests,    \* registrations clients send to the HEKI socket
  MockCr3,     \* the CR3 of a MOCK request, 0x12345678
  KernelCr3,   \* the CR3 of the guest kernel, page aligned
  Nonces,      \* nonces a client may present
  MaxWrites    \* bound: guest writes

ASSUME GeometryAssumption ==
  /\ PageSize \in Nat \ {0}
  /\ MaxRegions \in Nat \ {0}
  /\ Interval \in Nat
  /\ 1 + Len(Optional) <= MaxRegions
  /\ MaxWrites \in Nat
  /\ Cells \subseteq Nat
  /\ TableGpa \in Nat \ {0}
  /\ TableGpa .. TableGpa + PageSize - 1 \subseteq Cells
ASSUME BootAssumption == BootMem \in [Cells -> Values]
ASSUME Cr3Assumption == MockCr3 # 0 /\ KernelCr3 # 0 /\ MockCr3 # KernelCr3
ASSUME NonceAssumption == Nonces \subseteq Nat /\ Nonces \ {0} # {}

VARIABLES
  pc,         \* where the daemon's thread is
  pgd,        \* session->kernel_pgd
  allowPatch, \* VMI_ALLOW_LEGIT_KERNEL_PATCH=1 in the environment
  armed,      \* session->npt_armed
  regions,    \* guard_regions[0 .. guard_region_count - 1]
  clean,      \* clean_syscall_table; <<>> while snapshot_taken is 0
  ro,         \* pages KVM has made read-only
  age,        \* clock ticks since last_integrity_check_us, up to Interval
  idx,        \* the region being read
  read,       \* what has been read of it
  nonce,      \* heki_active_nonce
  authorized, \* authorized_cr3
  mem,        \* guest physical memory
  wrote,      \* history: cells the guest has written
  writes,     \* history: number of guest writes
  alerted,    \* history: regions signalled to the bridge since they last matched
  acked       \* history: names the HEKI server answered with a nonce

guard == <<armed, regions, clean, ro>>
guest == <<mem, wrote, writes>>
config == <<pgd, allowPatch>>
vars == <<pc, pgd, allowPatch, armed, regions, clean, ro, age, idx, read, nonce,
          authorized, mem, wrote, writes, alerted, acked>>

PageOf(c) == c \div PageSize

\* What a region may be called.
Names == {"sys_call_table"} \cup {Optional[k].name : k \in DOMAIN Optional}
         \cup {q.name : q \in Requests}

\* struct guard_region; base = <<>> is baseline_valid = 0 and last = <<>> is
\* last_alert_hash = 0.
Region == [name : Names, gpa : Nat, size : Nat, critical : BOOLEAN,
           base : Seq(Values), last : Seq(Values)]

CellsOf(r) == r.gpa .. r.gpa + r.size - 1
PagesOf(r) == {PageOf(c) : c \in CellsOf(r)}
Content(r) == [k \in 1 .. r.size |-> mem[r.gpa + k - 1]]
IsTable(r) == r.name = "sys_call_table"

\* Regions other than the table lie in guest memory and do not take its name;
\* those of the environment are not empty.
Spot(q) ==
  /\ q \in [name : Names, gpa : Nat, size : Nat, critical : BOOLEAN]
  /\ ~IsTable(q) /\ CellsOf(q) \subseteq Cells
ASSUME RegionAssumption ==
  /\ Optional \in Seq([name : Names, gpa : Nat, size : Nat, critical : BOOLEAN])
  /\ \A k \in DOMAIN Optional : Spot(Optional[k]) /\ Optional[k].size # 0
  /\ \A q \in Requests : Spot(q)

TypeOK ==
  /\ pc \in {"start", "baseline", "poll", "scan", "diff", "heki", "dynamic",
             "exited"}
  /\ pgd \in {0, KernelCr3}
  /\ allowPatch \in BOOLEAN
  /\ armed \in BOOLEAN
  /\ regions \in Seq(Region) /\ Len(regions) <= MaxRegions
  /\ clean \in Seq(Values)
  /\ ro \subseteq {PageOf(c) : c \in Cells}
  /\ age \in 0 .. Interval
  /\ idx \in 1 .. MaxRegions + 1
  /\ read \in Seq(Values)
  /\ nonce \in Nonces \cup {0}
  /\ authorized \in {0, MockCr3}
  /\ mem \in [Cells -> Values]
  /\ wrote \subseteq Cells
  /\ writes \in 0 .. MaxWrites
  /\ alerted \subseteq 1 .. MaxRegions
  /\ acked \subseteq {q.name : q \in Requests}

-----------------------------------------------------------------------------
(* Registering and reading regions.                                        *)

NewRegion(q) ==
  [name |-> q.name, gpa |-> q.gpa, size |-> q.size, critical |-> q.critical,
   base |-> <<>>, last |-> <<>>]

SysCallTable ==
  NewRegion([name |-> "sys_call_table", gpa |-> TableGpa, size |-> PageSize,
             critical |-> TRUE])

\* Mutated form of Accepts: one region too many.
AcceptsOneMore(q) == q.size # 0 /\ Len(regions) <= MaxRegions

\* add_guard_region succeeds.
Accepts(q) == q.size # 0 /\ Len(regions) < MaxRegions

\* The next chunk of regions[idx], read in one vmi_read_physical.
Chunk ==
  LET r == regions[idx]
      n == IF r.size - Len(read) > PageSize THEN PageSize ELSE r.size - Len(read)
  IN [k \in 1 .. n |-> mem[r.gpa + Len(read) + k - 1]]

Hash == read \o Chunk
Complete == Len(Hash) = regions[idx].size

\* snapshot_guard_region once everything has been read; for the table the
\* snapshot of its entries is renewed as well.
Baselined ==
  /\ regions' = [regions EXCEPT ![idx].base = Hash, ![idx].last = <<>>]
  /\ clean' = IF IsTable(regions[idx]) THEN Hash ELSE clean

NextRegion == idx' = idx + 1 /\ read' = <<>>

MoreChunks == ~Complete /\ read' = Hash /\ UNCHANGED idx

\* KVM may refuse the change of any page; set_page_readonly goes on regardless.
SetReadonly(pages) == \E done \in SUBSET pages : ro' = ro \cup done

-----------------------------------------------------------------------------
(* The fault handler.                                                      *)

\* npt_guard_check_bounds: 1 direct, 2 same page, 0 unknown; the first region
\* whose pages hold the address decides.
Matching(c) == {i \in DOMAIN regions : PageOf(c) \in PagesOf(regions[i])}
FirstMatch(c) == CHOOSE i \in Matching(c) : \A j \in Matching(c) : i <= j
CheckBounds(c) ==
  IF Matching(c) = {} THEN 0
  ELSE IF c \in CellsOf(regions[FirstMatch(c)]) THEN 1 ELSE 2

Legitimate(name) == allowPatch /\ name \in {"sys_call_table", "kernel_text"}

\* The PID of a write is always unknown (0), so only the CR3 can authorize it.
IsAuthorized(cr3) == cr3 # 0 /\ authorized = cr3

\* npf_handler_process treats a write to this table entry as hostile: it is
\* neither collateral nor declared legitimate by the environment.
Hostile(c) == CheckBounds(c) # 2 /\ ~Legitimate("sys_call_table")

Differing(current) == {k \in 1 .. PageSize : current[k] # clean[k]}

-----------------------------------------------------------------------------
(* Arming.                                                                 *)

Init ==
  /\ pc = "start"
  /\ pgd \in {0, KernelCr3}
  /\ allowPatch \in BOOLEAN
  /\ armed = FALSE
  /\ regions = <<>>
  /\ clean = <<>>
  /\ ro = {}
  /\ age = Interval
  /\ idx = 1
  /\ read = <<>>
  /\ nonce = 0
  /\ authorized = 0
  /\ mem = BootMem
  /\ wrote = {}
  /\ writes = 0
  /\ alerted = {}
  /\ acked = {}

\* The regions the environment has configured, in source order.
Picks ==
  {f \in UNION {[1 .. n -> DOMAIN Optional] : n \in 0 .. Len(Optional)} :
     \A j, k \in DOMAIN f : j < k => f[j] < f[k]}

\* npt_guard_arm up to the baselines.  The table may be out of reach (no
\* kernel_pgd, or the page walk fails): main goes on without the guard.
npt_guard_arm ==
  /\ pc = "start"
  /\ \/ /\ pc' = "poll"
        /\ UNCHANGED regions
     \/ /\ pgd # 0
        /\ pc' = "baseline"
        /\ \E pick \in Picks :
             regions' = <<SysCallTable>>
                        \o [k \in DOMAIN pick |-> NewRegion(Optional[pick[k]])]
  /\ UNCHANGED <<config, armed, clean, ro, age, idx, read, nonce, authorized,
                 guest, alerted, acked>>

BaselineRead ==
  /\ pc = "baseline" /\ idx <= Len(regions)
  /\ \/ Complete /\ Baselined /\ NextRegion
     \/ MoreChunks /\ UNCHANGED <<regions, clean>>
  /\ UNCHANGED <<pc, config, armed, ro, age, nonce, authorized, guest, alerted,
                 acked>>

\* Only the table's baseline is indispensable: without it main gives up.
BaselineFails ==
  /\ pc = "baseline" /\ idx <= Len(regions)
  /\ NextRegion
  /\ pc' = IF IsTable(regions[idx]) THEN "exited" ELSE pc
  /\ UNCHANGED <<config, guard, age, nonce, authorized, guest, alerted, acked>>

arm_guard_regions ==
  /\ pc = "baseline" /\ idx > Len(regions)
  /\ SetReadonly(UNION {PagesOf(regions[i]) : i \in DOMAIN regions})
  /\ armed' = TRUE
  /\ pc' = "poll"
  /\ UNCHANGED <<config, regions, clean, age, idx, read, nonce, authorized,
                 guest, alerted, acked>>

-----------------------------------------------------------------------------
(* The loop of main: npt_guard_handle_events, then heki_server_poll.       *)

npt_guard_handle_events ==
  /\ pc = "poll"
  /\ \/ /\ armed /\ age = Interval
        /\ pc' = "scan"
        /\ age' = 0
        /\ idx' = 1
        /\ read' = <<>>
     \/ /\ ~armed \/ age < Interval
        /\ pc' = "heki"
        /\ UNCHANGED <<age, idx, read>>
  /\ UNCHANGED <<config, guard, nonce, authorized, guest, alerted, acked>>

\* Mutated form of Scannable: regions without a baseline are compared too.
ScannableAll(r) == TRUE
Scannable(r) == r.base # <<>>

\* last_alert_hash after a scan has seen h.  LastKept is its mutated form: a
\* restored region keeps the hash of the old alert.
LastKept(r, h) == IF h = r.base THEN r.last ELSE h
LastAfter(r, h) == IF h = r.base THEN <<>> ELSE h

SkipUnbaselined ==
  /\ pc = "scan" /\ idx <= Len(regions)
  /\ ~Scannable(regions[idx])
  /\ NextRegion
  /\ UNCHANGED <<pc, config, guard, age, nonce, authorized, guest, alerted,
                 acked>>

ScanReadFails ==
  /\ pc = "scan" /\ idx <= Len(regions)
  /\ Scannable(regions[idx])
  /\ NextRegion
  /\ UNCHANGED <<pc, config, guard, age, nonce, authorized, guest, alerted,
                 acked>>

\* The region has been hashed.  A new deviation of the table is looked at more
\* closely (DiffTable), one of another region is reported at once
\* (npf_handler_report_integrity_violation) and its pages are protected again.
ScanHashed ==
  LET r == regions[idx]
  IN /\ Complete
     /\ regions' = [regions EXCEPT ![idx].last = LastAfter(r, Hash)]
     /\ \/ /\ Hash = r.base \/ Hash = r.last
           /\ alerted' = IF Hash = r.base THEN alerted \ {idx} ELSE alerted
           /\ NextRegion
           /\ UNCHANGED <<pc, ro>>
        \/ /\ Hash # r.base /\ Hash # r.last
           /\ IsTable(r)
           /\ pc' = "diff"
           /\ UNCHANGED <<idx, read, alerted, ro>>
        \/ /\ Hash # r.base /\ Hash # r.last
           /\ ~IsTable(r)
           /\ alerted' = alerted \cup {idx}
           /\ SetReadonly(PagesOf(r))
           /\ NextRegion
           /\ UNCHANGED pc

ScanRead ==
  /\ pc = "scan" /\ idx <= Len(regions)
  /\ Scannable(regions[idx])
  /\ \/ ScanHashed
     \/ MoreChunks /\ UNCHANGED <<pc, regions, ro, alerted>>
  /\ UNCHANGED <<config, armed, clean, age, nonce, authorized, guest, acked>>

\* report_syscall_table_diffs reads the table a second time, calls
\* npf_handler_process for every entry that differs now, and the pages are
\* protected again.  An authorized write uses the authorization up.
DiffTable ==
  /\ pc = "diff"
  /\ \/ UNCHANGED <<alerted, authorized>>             \* the second read fails
     \/ LET hostile == {k \in Differing(Content(SysCallTable)) :
                          Hostile(TableGpa + k - 1)}
            excused == IF IsAuthorized(pgd) THEN 1 ELSE 0
        IN /\ alerted' = IF Cardinality(hostile) > excused THEN alerted \cup {idx}
                         ELSE alerted
           /\ authorized' = IF hostile # {} /\ IsAuthorized(pgd) THEN 0
                            ELSE authorized
  /\ SetReadonly(PagesOf(regions[idx]))
  /\ NextRegion
  /\ pc' = "scan"
  /\ UNCHANGED <<config, armed, regions, clean, age, nonce, guest, acked>>

ScanDone ==
  /\ pc = "scan" /\ idx > Len(regions)
  /\ pc' = "heki"
  /\ UNCHANGED <<config, guard, age, idx, read, nonce, authorized, guest,
                 alerted, acked>>

-----------------------------------------------------------------------------
(* The HEKI socket.                                                        *)

\* The answer is written to the client; one that has hung up ends the daemon
\* with SIGPIPE.
Respond == pc' \in {"poll", "exited"}

\* heki_active_nonce is drawn once and then reused.
Nonce == IF nonce = 0 THEN Nonces \ {0} ELSE {nonce}

\* No client, a payload that is no request, a translation that fails or a
\* region that is not accepted: nothing changes, and the answer is 0.
HekiNothing ==
  /\ pc = "heki"
  /\ Respond
  /\ UNCHANGED <<config, guard, age, idx, read, nonce, authorized, guest,
                 alerted, acked>>

\* Without kernel_pgd success is only pretended.
HekiMocked(q) ==
  /\ pc = "heki" /\ pgd = 0
  /\ nonce' \in Nonce
  /\ acked' = acked \cup {q.name}
  /\ Respond
  /\ UNCHANGED <<config, guard, age, idx, read, authorized, guest, alerted>>

HekiRegister(q) ==
  /\ pc = "heki" /\ pgd # 0
  /\ Accepts(q)
  /\ regions' = Append(regions, NewRegion(q))
  /\ idx' = Len(regions) + 1
  /\ read' = <<>>
  /\ pc' = "dynamic"
  /\ UNCHANGED <<config, armed, clean, ro, age, nonce, authorized, guest,
                 alerted, acked>>

\* npf_handler_cpuid_intercept, reached by a MOCK request only.
HekiIntent(n) ==
  /\ pc = "heki"
  /\ authorized' = IF n = nonce /\ nonce # 0 THEN MockCr3 ELSE authorized
  /\ Respond
  /\ UNCHANGED <<config, guard, age, idx, read, nonce, guest, alerted, acked>>

\* The rest of npt_guard_protect_dynamic: the baseline, then the pages.
DynamicRead ==
  /\ pc = "dynamic"
  /\ \/ /\ Complete
        /\ Baselined
        /\ IF armed THEN SetReadonly(PagesOf(regions[idx])) ELSE UNCHANGED ro
        /\ nonce' \in Nonce
        /\ acked' = acked \cup {regions[idx].name}
        /\ Respond
        /\ UNCHANGED <<idx, read>>
     \/ MoreChunks /\ UNCHANGED <<pc, regions, clean, ro, nonce, acked>>
  /\ UNCHANGED <<config, armed, age, authorized, guest, alerted>>

\* Mutated form of DynamicFails: the client is told that all is well.
DynamicFailsAcked ==
  /\ pc = "dynamic"
  /\ nonce' \in Nonce
  /\ acked' = acked \cup {regions[idx].name}
  /\ Respond
  /\ UNCHANGED <<config, guard, age, idx, read, authorized, guest, alerted>>

\* The region stays registered, without a baseline.
DynamicFails ==
  /\ pc = "dynamic"
  /\ Respond
  /\ UNCHANGED <<config, guard, age, idx, read, nonce, authorized, guest,
                 alerted, acked>>

-----------------------------------------------------------------------------
(* Shutdown, the clock and the guest.                                      *)

\* SIGINT or SIGTERM, seen at the top of main's loop: npt_guard_disarm.
npt_guard_disarm ==
  /\ pc = "poll"
  /\ pc' = "exited"
  /\ regions' = IF armed THEN <<>> ELSE regions
  /\ clean' = IF armed THEN <<>> ELSE clean
  /\ age' = IF armed THEN Interval ELSE age
  /\ armed' = FALSE
  /\ UNCHANGED <<config, ro, idx, read, nonce, authorized, guest, alerted, acked>>

Tick ==
  /\ age < Interval
  /\ age' = age + 1
  /\ UNCHANGED <<pc, config, guard, idx, read, nonce, authorized, guest, alerted,
                 acked>>

\* Writes after the daemon has gone are of no interest.
GuestWrite(c, v) ==
  /\ pc # "exited"
  /\ writes < MaxWrites
  /\ PageOf(c) \notin ro
  /\ mem[c] # v
  /\ mem' = [mem EXCEPT ![c] = v]
  /\ wrote' = wrote \cup {c}
  /\ writes' = writes + 1
  /\ UNCHANGED <<pc, config, guard, age, idx, read, nonce, authorized, alerted,
                 acked>>

Daemon ==
  \/ npt_guard_arm
  \/ BaselineRead
  \/ BaselineFails
  \/ arm_guard_regions
  \/ npt_guard_handle_events
  \/ SkipUnbaselined
  \/ ScanReadFails
  \/ ScanRead
  \/ DiffTable
  \/ ScanDone
  \/ HekiNothing
  \/ \E q \in Requests : HekiMocked(q) \/ HekiRegister(q)
  \/ \E n \in Nonces : HekiIntent(n)
  \/ DynamicRead
  \/ DynamicFails
  \/ npt_guard_disarm

Next == Daemon \/ Tick \/ \E c \in Cells, v \in Values : GuestWrite(c, v)

Spec == Init /\ [][Next]_vars

\* The daemon's thread keeps running, time passes, and a read of guest memory
\* that is tried again and again succeeds at last (vmi_read_physical fails for
\* good only when the VM is gone).  What clients and the guest do is up to them.
FairSpec ==
  /\ Spec
  /\ WF_vars(Daemon)
  /\ WF_vars(Tick)
  /\ \A i \in 1 .. MaxRegions :
       /\ SF_vars(idx = i /\ ScanRead /\ Complete)
       /\ SF_vars(idx = i /\ ScanRead /\ ~Complete)

-----------------------------------------------------------------------------
(* Properties.                                                             *)

\* A region is never reported when the guest has not written any of its cells:
\* neither a read that fails half way, nor a baseline that could not be taken,
\* nor guest writes elsewhere in the middle of a chunked read raise an alarm.
NoFalseAlarm ==
  \A i \in alerted \cap DOMAIN regions : CellsOf(regions[i]) \cap wrote # {}

\* A client that was answered with a nonce has its map in the guard, with a
\* baseline to compare it with, for as long as the daemon runs: failed
\* registrations of the same map before or after, and a full table, do not
\* change that.  (Without kernel_pgd success is pretended on purpose.)
AckedBaselined ==
  pgd # 0 /\ pc # "exited" =>
    \A n \in acked :
      \E i \in DOMAIN regions : regions[i].name = n /\ regions[i].base # <<>>

Tampered(i) ==
  /\ armed /\ pc # "exited" /\ i \in DOMAIN regions
  /\ Scannable(regions[i])
  /\ Content(regions[i]) # regions[i].base

\* A deviation of a region other than the table that lasts is reported, also
\* when it comes back after a repair and although repeated alerts for the same
\* contents are suppressed.
TamperReported ==
  \A i \in 2 .. MaxRegions : Tampered(i) ~> (i \in alerted \/ ~Tampered(i))

\* What npf_handler_process says of itself ("Called when: The integrity checker
\* detects a modification"): a deviation of the table that the scan recorded in
\* last_alert_hash has been handed to the handler when the scan moves on.
MismatchHandled ==
  \A i \in DOMAIN regions :
    regions[i].last # <<>> /\ ~allowPatch /\ pc # "diff" => i \in alerted

-----------------------------------------------------------------------------
(* The invariants behind NoFalseAlarm and AckedBaselined.                  *)

\* What a region held when the daemon started, and whether it still does.
BootContent(r) == [k \in 1 .. r.size |-> BootMem[r.gpa + k - 1]]
Untouched(r) == CellsOf(r) \cap wrote = {}

MemInv ==
  /\ mem \in [Cells -> Values] /\ wrote \subseteq Cells
  /\ \A c \in Cells \ wrote : mem[c] = BootMem[c]

\* The baseline of an untouched region, and the snapshot of an untouched table,
\* are what was there at the start.
RegionOK(r) ==
  /\ r.size # 0 /\ CellsOf(r) \subseteq Cells
  /\ IsTable(r) => r.gpa = TableGpa /\ r.size = PageSize
  /\ Scannable(r) /\ Untouched(r) => r.base = BootContent(r)
  /\ Scannable(r) /\ IsTable(r) => clean # <<>>

RegionInv ==
  /\ regions \in Seq(Region) /\ clean \in Seq(Values)
  /\ \A i \in DOMAIN regions : RegionOK(regions[i])
  /\ clean # <<>> /\ Untouched(SysCallTable) => clean = BootContent(SysCallTable)

\* What has been read of an untouched region is a prefix of that.
PrefixOK(r) ==
  /\ read \in Seq(Values) /\ Len(read) <= r.size
  /\ Untouched(r) => \A k \in 1 .. Len(read) : read[k] = BootMem[r.gpa + k - 1]

ReadInv ==
  /\ pc = "start" => idx = 1 /\ read = <<>>
  /\ pc \in {"baseline", "scan"} => idx \in 1 .. Len(regions) + 1
  /\ pc \in {"diff", "dynamic"} => idx \in DOMAIN regions
  /\ pc = "diff" => IsTable(regions[idx]) /\ Scannable(regions[idx])
  /\ pc \in {"baseline", "scan", "dynamic"} /\ idx \in DOMAIN regions
       => PrefixOK(regions[idx])

AlertInv ==
  /\ pc # "exited" => alerted \subseteq DOMAIN regions
  /\ NoFalseAlarm

AckInv == (pc = "start" => acked = {} /\ alerted = {}) /\ AckedBaselined

GuardInv == MemInv /\ RegionInv /\ ReadInv /\ AlertInv /\ AckInv

\* A region that is being registered was requested by a client.
DynamicInv == pc = "dynamic" => regions[idx].name \in {q.name : q \in Requests}
=============================================================================
