------------------------- MODULE PrivilegeBaseline --------------------------
(***************************************************************************)
(* task_walker_detect_privilege_escalation (task_walker.c): every scan     *)
(* compares the processes of a snapshot with what the scans before it kept *)
(* of them, in a table of fixed size whose oldest entry is recycled.       *)
(* A snapshot is any sequence of at most MaxTasks records: TaskWalker has  *)
(* the walk that yields it.                                                *)
(***************************************************************************)
EXTENDS Naturals, Sequences, FiniteSets

CONSTANTS
  Pids,          \* PIDs of the processes that are compared: above 1, with an mm
  Comms,         \* their names
  Caps,          \* capabilities
  MaxTasks,      \* MAX_TASK_SNAPSHOT
  BaselineSize,  \* MAX_PRIV_BASELINE
  MaxScans       \* bound: scans

ASSUME BaselineAssumption ==
  /\ MaxTasks \in Nat \ {0} /\ MaxScans \in Nat
  /\ BaselineSize \in Nat /\ BaselineSize >= 2 * MaxTasks

VARIABLES
  table,       \* privilege_baseline
  generation,  \* privilege_generation
  procs, next, \* the snapshot, and the record the loop comes to next
  signalled,   \* PIDs given to bridge_signal_suspicious by this scan
  before       \* history: the table when the scan started

baselineVars == <<table, generation, procs, next, signalled, before>>

Slots == 1 .. BaselineSize
Unused == [used |-> FALSE, pid |-> 0, euid |-> 0, caps |-> {}, generation |-> 0]
Entry(pid, euid, caps, gen) ==
  [used |-> TRUE, pid |-> pid, euid |-> euid, caps |-> caps, generation |-> gen]

legitimate_transition_names == {"sudo", "su", "sshd", "login", "systemd"}

\* A credential that could not be read is left zero: euid 0, no capability.
Creds == {[euid |-> 0, caps |-> Caps], [euid |-> 0, caps |-> {}], [euid |-> 1, caps |-> {}]}
Processes == [pid : Pids, comm : Comms, cred : Creds]
Snapshots == UNION {[1 .. n -> Processes] : n \in 0 .. MaxTasks}

First(S) == CHOOSE i \in S : \A j \in S : i <= j

\* Mutant: only the entries of the scan before are looked at.
find_baseline_recent(pid) ==
  {i \in Slots : table[i].used /\ table[i].pid = pid /\ table[i].generation + 1 >= generation}

find_baseline(pid) == {i \in Slots : table[i].used /\ table[i].pid = pid}

\* Mutant: the slot recycled is one of the newest generation.
alloc_baseline_newest ==
  LET unused == {i \in Slots : ~table[i].used}
      newest == {i \in Slots : \A j \in Slots : table[i].generation >= table[j].generation}
  IN First(IF unused # {} THEN unused ELSE newest)

\* The slot for a PID without an entry: the first unused one, or else the first
\* of the oldest generation.
alloc_baseline ==
  LET unused == {i \in Slots : ~table[i].used}
      oldest == {i \in Slots : \A j \in Slots : table[i].generation <= table[j].generation}
  IN First(IF unused # {} THEN unused ELSE oldest)

\* Mutant: the recycled slot keeps what was in it but for the PID.
fresh_entry_dirty(slot, pid) ==
  IF table[slot].used THEN [table[slot] EXCEPT !.pid = pid] ELSE Entry(pid, 0, {}, 0)

\* What the new slot holds until the loop has filled it.
fresh_entry(slot, pid) == Entry(pid, 0, {}, 0)

had_baseline(e) == e.generation # 0
root_transition(e, r) == e.euid # 0 /\ r.cred.euid = 0
caps_expanded(e, r) == r.cred.caps \ e.caps # {}
Escalates(e, r) ==
  (root_transition(e, r) \/ caps_expanded(e, r)) /\ r.comm \notin legitimate_transition_names

BaselineInit ==
  /\ table = [i \in Slots |-> Unused] /\ generation = 0
  /\ procs = <<>> /\ next = 1 /\ signalled = {} /\ before = table

\* A scan begins with the snapshot it was given.
BeginScan ==
  /\ next > Len(procs) /\ generation < MaxScans
  /\ procs' \in Snapshots
  /\ generation' = generation + 1
  /\ next' = 1 /\ signalled' = {} /\ before' = table
  /\ UNCHANGED table

\* One turn of the loop.
CompareProcess ==
  /\ next <= Len(procs)
  /\ LET r == procs[next]
         found == find_baseline(r.pid)
         slot == IF found # {} THEN First(found) ELSE alloc_baseline
         e == IF found # {} THEN table[slot] ELSE fresh_entry(slot, r.pid)
     IN /\ signalled' = IF had_baseline(e) /\ Escalates(e, r)
                        THEN signalled \cup {r.pid} ELSE signalled
        /\ table' = [table EXCEPT ![slot] = Entry(r.pid, r.cred.euid, r.cred.caps, generation)]
  /\ next' = next + 1
  /\ UNCHANGED <<generation, procs, before>>

BaselineNext == BeginScan \/ CompareProcess

BaselineSpec == BaselineInit /\ [][BaselineNext]_baselineVars

-----------------------------------------------------------------------------
(* Properties.                                                             *)

\* Records the loop has been through whose PID is in the snapshot once.
Compared ==
  {procs[k] : k \in {x \in 1 .. next - 1 :
                       \A y \in DOMAIN procs : procs[y].pid = procs[x].pid => y = x}}

\* A process that is in two consecutive snapshots is compared with its own
\* reading of the first, so that what it gained between them is signalled,
\* however many PIDs the table has seen: with room for two snapshots the entry
\* alloc_baseline recycles never belongs to the scan before.
EscalationSeen ==
  \A r \in Compared, i \in Slots :
    (/\ before[i].used /\ before[i].pid = r.pid
     /\ before[i].generation = generation - 1 /\ Escalates(before[i], r))
      => r.pid \in signalled

\* A PID is signalled only on its own earlier reading: a slot that was recycled
\* is not compared with what another process left in it.
OwnBaseline ==
  \A p \in signalled :
    \/ \E i \in Slots : before[i].used /\ before[i].pid = p
    \/ \E x, y \in 1 .. next - 1 : x # y /\ procs[x].pid = p /\ procs[y].pid = p

\* No PID has two entries, so find_baseline, which stops at the first, never
\* reads an abandoned one.
OneEntryPerPid ==
  \A i, j \in Slots :
    table[i].used /\ table[j].used /\ table[i].pid = table[j].pid => i = j
=============================================================================
