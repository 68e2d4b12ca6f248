--------------------------- MODULE SyscallEnforcer ---------------------------
(* The eBPF side of Sentinel-CC: the maps and hooks of sentinel.bpf.c,     *)
(* and the processes the hooks run in.  The loader (SentinelLoader) fills  *)
(* the maps and decides when the programs are attached.                    *)
(*                                                                         *)
(* An address is a number below AddrSpace and arithmetic on it wraps, as   *)
(* u64 arithmetic does; a block is the 1 MB granule of the LPM trie.  A    *)
(* map is a total function whose absent keys hold None.  Audit events,     *)
(* fexit hooks and bpf_printk only report and are left out; so are         *)
(* thread_policy_map and blocklist_map, which nothing in the repository    *)
(* ever fills, the null pt_regs case, which no user task has, and the      *)
(* learned profile, which is written out at the end and read by nothing.   *)
EXTENDS Integers, FiniteSets

CONSTANTS
  Pids,           \* process identifiers; numbers are recycled
  MaxTargets,     \* max_entries of target_pid_map (64)
  AddrSpace,      \* size of the address space, in cells
  BlockSize,      \* VMA_BLOCK_SIZE, in cells
  MaxModules,     \* max_entries of policy_registry (64)
  Nrs,            \* syscall numbers checked by sentinel_check
  Stacks,         \* return-address chains bpf_get_stack may give, frame 0 left out
  None, AnyNr

VARIABLES
  config,           \* the rodata the loader sets before loading the programs
  attached,         \* the programs are attached
  target_pid_map, vma_map, policy_registry, cfi_policy, fallback_policy,
  cgroup_map,       \* TRUE when the cgroup named on the command line is listed
  proc,             \* what each PID is: free, stopped, running or zombie
  signal            \* the signal that will be acted on at return to user mode

maps == <<target_pid_map, vma_map, policy_registry, cfi_policy,
          fallback_policy, cgroup_map>>
processes == <<proc, signal>>

Address == 0 .. AddrSpace - 1
Block(a) == a \div BlockSize
Blocks == {Block(a) : a \in Address}
ModuleIds == 1 .. MaxModules - 1
Minus(a, b) == (a - b) % AddrSpace
Plus(a, b) == (a + b) % AddrSpace

ASSUME EnforcerAssumption ==
  /\ MaxTargets \in Nat \ {0} /\ AddrSpace \in Nat \ {0}
  /\ BlockSize \in Nat \ {0} /\ MaxModules \in Nat /\ MaxModules > 3
  /\ None \notin Nrs /\ AnyNr \notin Nrs /\ None # AnyNr
  /\ None \notin [Address -> Nrs \cup {AnyNr, None}]
  /\ None \notin [module_id : ModuleIds, base_addr : Address]
  /\ \A s \in Stacks : \A i \in DOMAIN s : s[i] \in Address

Rules == Nrs \cup {AnyNr}
Policy == [Address -> Rules \cup {None}]
EmptyPolicy == [a \in Address |-> None]
VmaValue == [module_id : ModuleIds, base_addr : Address]

EnforcerInit ==
  /\ attached = FALSE
  /\ target_pid_map = {}
  /\ vma_map = [b \in Blocks |-> None]
  /\ policy_registry = [m \in ModuleIds |-> None]
  /\ cfi_policy = [a \in Address |-> None]
  /\ fallback_policy = {}
  /\ cgroup_map = FALSE
  /\ signal = [p \in Pids |-> "none"]

Live(p) == proc[p] \in {"running", "stopped"}

-----------------------------------------------------------------------------
(* sentinel_check.                                                         *)

KnownVma(a) == vma_map[Block(a)] # None

(* Steps 2 to 8: the module the site lies in, its rule, the number the     *)
(* rule is bound to, the shadow stack and the caller range.                *)
SiteAllowed(site, nr, stack) ==
  /\ KnownVma(site)
  /\ LET mod == vma_map[Block(site)]
         offset == Minus(site, mod.base_addr)
         policy_map == policy_registry[mod.module_id]
         range == cfi_policy[offset]
     IN /\ policy_map # None
        /\ policy_map[offset] \in {nr, AnyNr}
        /\ config.shadow_cfi => \A i \in DOMAIN stack : KnownVma(stack[i])
        /\ range # None =>
             /\ stack # <<>>
             /\ Minus(stack[1], mod.base_addr) \in range.start .. range.end

sentinel_check(p, site, nr, stack, in_cgroup) ==
  IF p \notin target_pid_map
  THEN config.system_wide => nr \in fallback_policy
  ELSE \/ config.cgroup_filter /\ ~(in_cgroup /\ cgroup_map)
       \/ config.learn_mode
       \/ SiteAllowed(site, nr, stack)

(* ptrace, process_vm_writev, seccomp, bpf, unshare and setns are refused  *)
(* to every tracked process, whatever its policy says.                     *)
kobj_check(p) == p \notin target_pid_map

deny_action_as_mode(p) == signal' = [signal EXCEPT ![p] = config.enforce_mode]

(* The signal is raised in the hook; the syscall still runs, and the       *)
(* signal is acted on before the process is back in user mode.             *)
deny_action(p) ==
  /\ config.enforce_mode # "permissive"
  /\ signal' = [signal EXCEPT ![p] =
                  IF config.enforce_mode = "term" THEN "term" ELSE "kill"]

InUserMode(p) == proc[p] = "running" /\ signal[p] = "none"

Refusable(p) ==
  {site \in Address : \E nr \in Nrs, stack \in Stacks, cg \in BOOLEAN :
                         ~ sentinel_check(p, site, nr, stack, cg)}

(* A hooked syscall that is refused.  One that is allowed changes nothing  *)
(* here and is not a step.                                                 *)
DeniedSyscall(p) ==
  /\ attached /\ InUserMode(p)
  /\ ~ kobj_check(p) \/ Refusable(p) # {}
  /\ deny_action(p)
  /\ UNCHANGED <<config, attached, maps, proc>>

-----------------------------------------------------------------------------
(* Processes.                                                              *)


(* sched_process_fork: a tracked parent's child is enrolled, unless the    *)
(* map is full.  There is no exit hook: nothing ever leaves the map.       *)
sentinel_fork_track(p, q) ==
  target_pid_map' =
    IF /\ attached /\ p \in target_pid_map
       /\ q \in target_pid_map \/ Cardinality(target_pid_map) < MaxTargets
    THEN target_pid_map \cup {q} ELSE target_pid_map

Fork(p, q) ==
  /\ InUserMode(p) /\ proc[q] = "free"
  /\ proc' = [proc EXCEPT ![q] = "running"]
  /\ sentinel_fork_track(p, q)
  /\ UNCHANGED <<config, attached, vma_map, policy_registry, cfi_policy,
                 fallback_policy, cgroup_map, signal>>

(* An unrelated process takes a free number.                               *)
Arrive(q) ==
  /\ proc[q] = "free"
  /\ proc' = [proc EXCEPT ![q] = "running"]
  /\ UNCHANGED <<config, attached, maps, signal>>

(* The process exits or dies of its signal; SIGTERM may be handled.  The   *)
(* number of the loader's own child is not free before it is waited for.   *)
Exit(p, child) ==
  /\ proc[p] = "running"
  /\ proc' = [proc EXCEPT ![p] = IF p = child THEN "zombie" ELSE "free"]
  /\ signal' = [signal EXCEPT ![p] = "none"]
  /\ UNCHANGED <<config, attached, maps>>

HandleTerm(p) ==
  /\ proc[p] = "running" /\ signal[p] = "term"
  /\ signal' = [signal EXCEPT ![p] = "none"]
  /\ UNCHANGED <<config, attached, maps, proc>>

=============================================================================
