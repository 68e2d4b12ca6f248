--------------------------- MODULE SentinelLoader ---------------------------
(* The Sentinel-CC loader (loader.c) driving the enforcer: it verifies and *)
(* parses the binary, attaches the programs, starts the child under        *)
(* ptrace, waits for libc to be mapped, fills the maps, enrols the child,  *)
(* lets it go and supervises it until it ends.                             *)
(*                                                                         *)
(* What verification, ELF parsing and the call-graph filters compute is a  *)
(* constant of the model (LibcRules, SysSites, CfiEntries); how their      *)
(* results get into the maps is modelled.  SIGHUP is left out during the   *)
(* two ptrace waits, where it interrupts a waitpid whose status is then    *)
(* read uninitialised.                                                     *)
EXTENDS SyscallEnforcer, Sequences, FiniteSetsExt

CONSTANTS
  Child, LoaderPid, \* the loader's child and the loader itself
  Libs,             \* shared libraries other than libc and ld.so
  LibcNamed,        \* those of Libs with "libc" in their path
  Layouts,          \* where ASLR may put the objects: Objects -> [start, size]
  LoadBase,         \* elf_load_base, the p_vaddr of the first PT_LOAD
  Builds,           \* what .sentinel holds in one build of the binary after
                    \* the other: virtual address -> rule
  LibcRules,        \* libc offset -> rule, from the filters
  SysSites,         \* offsets of the syscall instructions of ld.so and of Libs
  CfiEntries,       \* offset -> caller range, from .sentinel_cfi
  Configs,          \* command lines
  SafeNrs,          \* safe_nrs, the baseline of --system-wide
  MaxDiscovered,    \* libraries looked at on start (32)
  MaxWatched        \* MAX_WATCHED_LIBS (64)

VARIABLES
  phase, mapped, layout, section,
  rb,               \* the ring buffer consumer exists
  parsed,           \* what parse_sentinel_section returned last
  pending,          \* its entries that the hot reload has not stored yet
  installed,        \* the policy whose entries were all stored last
  libc_base, g_watched_libs, next_mod_id,
  todo,             \* libraries a scan still has to look at
  g_reload,
  reaped,           \* the child has been waited for
  kin               \* the enrolled child and its live descendants

loader == <<layout, section, rb, parsed, pending, installed, libc_base,
            g_watched_libs, next_mod_id, todo, g_reload>>
vars == <<config, attached, maps, processes, phase, mapped, loader,
          reaped, kin>>

MODULE_MAIN == 1
MODULE_LIBC == 2
MODULE_DYNAMIC_BASE == 3
Objects == {"main", "libc", "ld"} \cup Libs
Early == {"start", "fork", "trap", "step", "main", "libc"}
Supervising == {"loop", "reload", "reap", "scan", "wait"}
Watched == [path : Libs \cup {"main"}, id : ModuleIds]

ASSUME LoaderAssumption ==
  /\ Child \in Pids /\ LoaderPid \in Pids /\ Child # LoaderPid
  /\ LibcNamed \subseteq Libs /\ {"main", "libc", "ld"} \cap Libs = {}
  /\ Builds \in Seq(Policy) /\ Builds # <<>>
  /\ LibcRules \in Policy /\ LoadBase \in Address /\ SafeNrs \subseteq Nrs
  /\ \A l \in Layouts, o \in Objects : l[o].start \in Address
  /\ \A c \in Configs : {c.cgroup_filter, c.audit_mode} \subseteq BOOLEAN
  /\ MaxWatched \in Nat /\ MaxWatched >= MaxModules - MODULE_DYNAMIC_BASE + 1

(* What the policies list lies in the objects they are for, and an object  *)
(* lies in the address space, libc apart from ld.so.                       *)
ASSUME ObjectAssumption ==
  \A l \in Layouts :
    /\ \A o \in Objects : l[o].size \in Nat /\ l[o].start + l[o].size <= AddrSpace
    /\ \A i \in DOMAIN Builds, v \in Address :
         Builds[i][v] # None => Minus(v, LoadBase) < l["main"].size
    /\ \A off \in Address : LibcRules[off] # None => off < l["libc"].size
    /\ \A o \in Libs \cup {"ld"} : SysSites[o] \subseteq 0 .. l[o].size - 1
    /\ \/ l["libc"].start + l["libc"].size <= l["ld"].start
       \/ l["ld"].start + l["ld"].size <= l["libc"].start

Init ==
  /\ EnforcerInit
  /\ proc = [p \in Pids |-> IF p = LoaderPid THEN "running" ELSE "free"]
  /\ config \in Configs /\ layout \in Layouts /\ section = Builds[1]
  /\ phase = "start" /\ mapped = {}
  /\ rb = FALSE /\ parsed = EmptyPolicy /\ installed = EmptyPolicy
  /\ pending = {} /\ libc_base = 0
  /\ g_watched_libs = <<>> /\ next_mod_id = MODULE_DYNAMIC_BASE /\ todo = {}
  /\ g_reload = FALSE /\ reaped = FALSE /\ kin = {}

Start(o) == layout[o].start
End(o) == Start(o) + layout[o].size - 1
Running == InUserMode(LoaderPid)
Tracked(lib) == \E i \in DOMAIN g_watched_libs : g_watched_libs[i].path = lib
Forked == phase \notin {"start", "fork"}

-----------------------------------------------------------------------------
(* Filling the maps.                                                       *)

(* populate_vma_for_module: every block from the lowest to the highest     *)
(* address of any mapping whose line contains the name; the last module to *)
(* claim a block keeps it.                                                 *)
populate_vma(vma, objects, id, base) ==
  LET here == objects \cap mapped
  IN IF here = {} THEN vma
     ELSE [b \in Blocks |->
            IF /\ Block(Min({Start(o) : o \in here})) <= b
               /\ b <= Block(Max({End(o) : o \in here}))
            THEN [module_id |-> id, base_addr |-> base] ELSE vma[b]]

LowestBase(objects) == Min({Start(o) : o \in objects \cap mapped})

(* A virtual address of .sentinel becomes an offset from the load base.    *)
MainPolicy(entries) == [off \in Address |-> entries[Plus(off, LoadBase)]]

LibcPolicyUnrelocated ==
  [off \in Address |->
     IF LibcRules[off] # None THEN LibcRules[off]
     ELSE IF "ld" \in mapped /\ off \in SysSites["ld"] THEN AnyNr ELSE None]

(* ld.so's sites are stored in libc's policy as libc-relative offsets.     *)
LibcPolicy ==
  [off \in Address |->
     IF LibcRules[off] # None THEN LibcRules[off]
     ELSE IF /\ "ld" \in mapped
             /\ Minus(Plus(libc_base, off), Start("ld")) \in SysSites["ld"]
          THEN AnyNr ELSE None]

LibPolicy(lib) ==
  [off \in Address |-> IF off \in SysSites[lib] THEN AnyNr ELSE None]

register_watched_lib(path, id) ==
  g_watched_libs' =
    IF Len(g_watched_libs) >= MaxWatched THEN g_watched_libs
    ELSE Append(g_watched_libs, [path |-> path, id |-> id])

-----------------------------------------------------------------------------
(* Ending.  A tracer that exits lets its stopped child run on, and init    *)
(* collects its zombie.                                                    *)

Resumed == IF ~reaped /\ proc[Child] = "stopped"
           THEN [proc EXCEPT ![Child] = "running"] ELSE proc

Ended(procs) ==
  /\ phase' = "ended" /\ attached' = FALSE
  /\ proc' = [p \in Pids |-> IF p = LoaderPid \/ procs[p] = "zombie"
                            THEN "free" ELSE procs[p]]
  /\ UNCHANGED <<config, maps, mapped, loader, kin>>

(* The child is killed and waited for before the programs are destroyed.   *)
KillAndEnd ==
  /\ Ended([proc EXCEPT ![Child] = "free"])
  /\ signal' = [signal EXCEPT ![Child] = "none"]
  /\ reaped' = TRUE

CleanUp == Ended(Resumed) /\ UNCHANGED <<signal, reaped>>

(* SIGINT or SIGTERM, from the operator or from the enforcer itself.       *)
signal_handler ==
  /\ phase # "ended" /\ signal[LoaderPid] # "kill"
  /\ Ended(Resumed)
  /\ signal' = [signal EXCEPT ![LoaderPid] = "none",
                 ![Child] = IF Forked /\ Live(Child) /\ @ = "none"
                            THEN "term" ELSE @]
  /\ UNCHANGED reaped

(* The loader is killed, or crashes in a dlopen scan that reads the import *)
(* names freed before the child was let go.  The links die with it.        *)
LoaderDies ==
  /\ phase # "ended"
  /\ \/ signal[LoaderPid] = "kill"
     \/ phase = "scan" /\ todo # {} /\ config.imports
  /\ Ended(Resumed)
  /\ signal' = [signal EXCEPT ![LoaderPid] = "none"]
  /\ UNCHANGED reaped

-----------------------------------------------------------------------------
(* Starting.                                                               *)

Begin ==
  /\ phase = "start" /\ Running
  /\ \/ /\ attached' = TRUE /\ phase' = "fork"
        /\ parsed' = section
        /\ cgroup_map' \in {FALSE, config.cgroup_filter}
        /\ rb' \in {FALSE, config.audit_mode}
        /\ UNCHANGED <<proc, signal, reaped, kin, mapped, config,
             target_pid_map, vma_map, policy_registry, cfi_policy, fallback_policy,
             layout, section, pending, installed, libc_base, g_watched_libs,
             next_mod_id, todo, g_reload>>
     \/ CleanUp

ForkChild ==
  /\ phase = "fork" /\ Running
  /\ \/ /\ proc' = [proc EXCEPT ![Child] = "running"] /\ phase' = "trap"
        /\ UNCHANGED <<config, attached, maps, signal, mapped, loader,
                       reaped, kin>>
     \/ CleanUp

(* The child stops in exec with the binary and ld.so mapped, or it ended.  *)
Trap ==
  /\ phase = "trap" /\ Running
  /\ \/ /\ InUserMode(Child)
        /\ proc' = [proc EXCEPT ![Child] = "stopped"]
        /\ mapped' = {"main", "ld"} /\ phase' = "step"
        /\ UNCHANGED <<config, attached, maps, signal, loader, reaped, kin>>
     \/ proc[Child] = "zombie" /\ KillAndEnd

(* One PTRACE_SYSCALL step: the child maps an object or nothing, ends, or  *)
(* the step limit is reached.                                              *)
StepChild ==
  /\ phase = "step" /\ Running /\ "libc" \notin mapped
  /\ \/ /\ \E o \in Objects \ mapped : mapped' = mapped \cup {o}
        /\ UNCHANGED <<proc, phase, reaped>>
     \/ /\ proc' = [proc EXCEPT ![Child] = "free"] /\ reaped' = TRUE
        /\ mapped' = {} /\ phase' = "main"
     \/ phase' = "main" /\ UNCHANGED <<proc, mapped, reaped>>
  /\ UNCHANGED <<config, attached, maps, signal, loader, kin>>

LibcMapped ==
  /\ phase = "step" /\ Running /\ "libc" \in mapped
  /\ phase' = "main"
  /\ UNCHANGED <<config, attached, maps, processes, mapped, loader,
                 reaped, kin>>

(* Both modules' blocks are claimed before either policy exists, libc's by *)
(* every mapping whose path contains "libc".                               *)
LibcLike == {"libc"} \cup LibcNamed
Vmas ==
  LET main == IF "main" \in mapped
              THEN populate_vma(vma_map, {"main"}, MODULE_MAIN, Start("main"))
              ELSE vma_map
  IN IF "libc" \in mapped
     THEN populate_vma(main, LibcLike, MODULE_LIBC, LowestBase(LibcLike))
     ELSE main

InstallMain ==
  /\ phase = "main" /\ Running
  /\ \/ CleanUp
     \/ config.surface /\ KillAndEnd
     \/ /\ ~config.surface
        /\ vma_map' = Vmas
        /\ libc_base' = IF "libc" \in mapped THEN LowestBase(LibcLike) ELSE 0
        /\ policy_registry' = [policy_registry EXCEPT
                                 ![MODULE_MAIN] = MainPolicy(parsed)]
        /\ installed' = parsed /\ phase' = "libc"
        /\ UNCHANGED <<config, attached, target_pid_map, cfi_policy,
             fallback_policy, cgroup_map, processes, mapped, layout,
             section, rb, parsed, pending, g_watched_libs, next_mod_id, todo,
             g_reload, reaped, kin>>

(* No map for libc is only warned about; a map that cannot be registered   *)
(* ends the loader; one whose library file is not found stays empty.  With *)
(* the sites, ld.so's blocks are claimed with libc's base.                 *)
InstallLibc ==
  /\ phase = "libc" /\ Running
  /\ \/ "libc" \in mapped /\ CleanUp
     \/ /\ \/ UNCHANGED <<policy_registry, vma_map>>
           \/ /\ "libc" \in mapped
              /\ policy_registry' = [policy_registry EXCEPT
                                       ![MODULE_LIBC] = EmptyPolicy]
              /\ UNCHANGED vma_map
           \/ /\ "libc" \in mapped
              /\ policy_registry' = [policy_registry EXCEPT
                                       ![MODULE_LIBC] = LibcPolicy]
              /\ vma_map' = populate_vma(vma_map, {"ld"}, MODULE_LIBC, libc_base)
        /\ phase' = "discover"
        /\ todo' \in {S \in SUBSET (mapped \cap Libs) :
                        /\ Cardinality(S) <= MaxDiscovered
                        /\ Cardinality(S) < MaxDiscovered => S = mapped \cap Libs
                        /\ \A l \in S, k \in (mapped \cap Libs) \ S :
                             Start(l) < Start(k)}
        /\ UNCHANGED <<config, attached, target_pid_map, cfi_policy,
             fallback_policy, cgroup_map, processes, mapped, layout,
             section, rb, parsed, pending, installed, libc_base, g_watched_libs,
             next_mod_id, g_reload, reaped, kin>>

(* One library of the start-up discovery or of a dlopen scan.  It is left  *)
(* alone when no id is left or its map cannot be made.                     *)
NextLib == CHOOSE l \in todo : \A k \in todo : Start(l) <= Start(k)

LibStep == phase \in {"discover", "scan"} /\ Running /\ todo # {}

AddLib ==
  /\ LibStep /\ next_mod_id < MaxModules
  /\ policy_registry' = [policy_registry EXCEPT ![next_mod_id] = LibPolicy(NextLib)]
  /\ vma_map' = populate_vma(vma_map, {NextLib}, next_mod_id, Start(NextLib))
  /\ register_watched_lib(NextLib, next_mod_id)
  /\ next_mod_id' = next_mod_id + 1
  /\ todo' = todo \ {NextLib}
  /\ UNCHANGED <<config, attached, target_pid_map, cfi_policy, fallback_policy,
       cgroup_map, processes, phase, mapped, layout, section, rb,
       parsed, pending, installed, libc_base, g_reload, reaped, kin>>

SkipLib ==
  /\ LibStep
  /\ todo' = todo \ {NextLib}
  /\ UNCHANGED <<config, attached, maps, processes, phase, mapped,
       layout, section, rb, parsed, pending, installed, libc_base,
       g_watched_libs, next_mod_id, g_reload, reaped, kin>>

dlopen_next_mod_id_reset == MODULE_DYNAMIC_BASE

(* The first id of the dlopen scanner is derived from the number of        *)
(* libraries registered so far; then the binary itself is registered, and  *)
(* the caller ranges are stored.                                           *)
dlopen_next_mod_id == MODULE_DYNAMIC_BASE + Len(g_watched_libs)

SetupCfi ==
  /\ phase = "discover" /\ Running /\ todo = {}
  /\ next_mod_id' = dlopen_next_mod_id
  /\ register_watched_lib("main", MODULE_MAIN)
  /\ cfi_policy' = CfiEntries
  /\ phase' = "enrol"
  /\ UNCHANGED <<config, attached, target_pid_map, vma_map, policy_registry,
       fallback_policy, cgroup_map, processes, mapped, layout, section,
       rb, parsed, pending, installed, libc_base, todo, g_reload, reaped, kin>>

TrackChildWarns ==
  /\ phase = "enrol" /\ Running
  /\ target_pid_map' \in {target_pid_map, target_pid_map \cup {Child}}
  /\ kin' = IF reaped THEN {} ELSE {Child} \cap target_pid_map'
  /\ phase' = "detach"
  /\ UNCHANGED <<config, attached, vma_map, policy_registry, cfi_policy,
       fallback_policy, cgroup_map, processes, mapped, loader, reaped>>

TrackChild ==
  /\ phase = "enrol" /\ Running
  /\ \/ /\ target_pid_map' = target_pid_map \cup {Child}
        /\ kin' = IF reaped THEN {} ELSE {Child}
        /\ phase' = "detach"
        /\ UNCHANGED <<config, attached, vma_map, policy_registry, cfi_policy,
             fallback_policy, cgroup_map, processes, mapped, loader,
             reaped>>
     \/ KillAndEnd

(* PTRACE_DETACH, after the baseline of --system-wide is stored.           *)
Detach ==
  /\ phase = "detach" /\ Running
  /\ fallback_policy' = IF config.system_wide THEN SafeNrs ELSE {}
  /\ proc' = Resumed
  /\ phase' = IF rb THEN "loop" ELSE "wait"
  /\ UNCHANGED <<config, attached, target_pid_map, vma_map, policy_registry,
       cfi_policy, cgroup_map, signal, mapped, loader, reaped, kin>>

-----------------------------------------------------------------------------
(* Supervising: the audit loop, or a plain waitpid without a ring buffer.  *)

Unchanged(others) ==
  UNCHANGED <<config, attached, target_pid_map, vma_map, cfi_policy,
    fallback_policy, cgroup_map, mapped, layout, section, rb, libc_base,
    g_watched_libs, next_mod_id, kin, others>>

LoopTopKeepsFlag ==
  /\ phase = "loop" /\ Running
  /\ IF g_reload /\ section # EmptyPolicy
     THEN /\ parsed' = section /\ phase' = "reload"
          /\ pending' = {v \in Address : section[v] # None}
     ELSE phase' = "reap" /\ UNCHANGED <<parsed, pending>>
  /\ Unchanged(<<policy_registry, processes, installed, todo, g_reload, reaped>>)

(* A hot reload stores the entries one by one while the child runs; an     *)
(* entry of the old policy that the new one lacks stays.                   *)
LoopTop ==
  /\ phase = "loop" /\ Running
  /\ IF g_reload /\ section # EmptyPolicy
     THEN /\ parsed' = section /\ phase' = "reload"
          /\ pending' = {v \in Address : section[v] # None}
     ELSE phase' = "reap" /\ UNCHANGED <<parsed, pending>>
  /\ g_reload' = FALSE
  /\ Unchanged(<<policy_registry, processes, installed, todo, reaped>>)

ReloadEntry ==
  /\ phase = "reload" /\ Running /\ pending # {}
  /\ LET v == Min(pending)
     IN /\ pending' = pending \ {v}
        /\ policy_registry' = [policy_registry EXCEPT
             ![MODULE_MAIN] = [@ EXCEPT ![Minus(v, LoadBase)] = parsed[v]]]
  /\ Unchanged(<<processes, phase, parsed, installed, todo, g_reload, reaped>>)

ReloadDone ==
  /\ phase = "reload" /\ Running /\ pending = {}
  /\ installed' = parsed /\ phase' = "reap"
  /\ Unchanged(<<policy_registry, processes, parsed, pending, todo, g_reload, reaped>>)

ChildEndedUnwatched == ~reaped /\ proc[Child] = "zombie" /\ ~config.watch_dlopen
NewLibsOnce ==
  {l \in mapped \cap Libs : config.watch_dlopen /\ Len(g_watched_libs) < 2}

(* waitpid(WNOHANG); then the scan for new libraries, which the code runs  *)
(* on every fifth pass.                                                    *)
ChildEnded == ~reaped /\ proc[Child] = "zombie"
NewLibs == {l \in mapped \cap Libs : config.watch_dlopen /\ ~Tracked(l)}

Reap ==
  /\ phase = "reap" /\ Running
  /\ IF ChildEnded
     THEN /\ proc' = [proc EXCEPT ![Child] = "free"] /\ reaped' = TRUE
          /\ phase' = "dump" /\ UNCHANGED todo
     ELSE /\ phase' = IF config.watch_dlopen THEN "scan" ELSE "loop"
          /\ todo' = NewLibs
          /\ UNCHANGED <<proc, reaped>>
  /\ Unchanged(<<policy_registry, signal, parsed, pending, installed, g_reload>>)

ScanDone ==
  /\ phase = "scan" /\ Running /\ todo = {}
  /\ phase' = "loop"
  /\ Unchanged(<<policy_registry, processes, parsed, pending, installed, todo,
                 g_reload, reaped>>)

WaitChild ==
  /\ phase = "wait" /\ Running
  /\ reaped \/ proc[Child] = "zombie"
  /\ proc' = IF reaped THEN proc ELSE [proc EXCEPT ![Child] = "free"]
  /\ reaped' = TRUE /\ phase' = "dump"
  /\ Unchanged(<<policy_registry, signal, parsed, pending, installed, todo, g_reload>>)

(* The handlers are installed without SA_RESTART: a SIGHUP that finds the  *)
(* loader in the plain waitpid also ends that wait.                        *)
sighup_handler ==
  /\ phase \notin {"trap", "step", "ended"} /\ Running
  /\ g_reload' = TRUE
  /\ phase' = IF phase = "wait" THEN "dump" ELSE phase
  /\ Unchanged(<<policy_registry, processes, parsed, pending, installed, todo, reaped>>)

(* The learned profile is written out, and everything is destroyed.        *)
Dump == phase = "dump" /\ Running /\ CleanUp

-----------------------------------------------------------------------------
(* The child and the rest of the system, until the loader has ended.       *)

Started == Child \in kin \/ phase \in Supervising \cup {"dump"}
loaderState == <<phase, mapped, loader, reaped>>

Hook ==
  /\ phase # "ended"
  /\ \/ \E p \in Pids : DeniedSyscall(p)
     \/ \E p \in Pids \ {LoaderPid} : HandleTerm(p)
  /\ UNCHANGED <<loaderState, kin>>

Spawn ==
  /\ phase # "ended"
  /\ \/ \E p \in Pids \ {LoaderPid}, q \in Pids :
          /\ phase # "trap" \/ p # Child
          /\ q # Child \/ Started
          /\ q # LoaderPid
          /\ Fork(p, q)
          /\ kin' = IF p \in kin THEN kin \cup {q} ELSE kin
     \/ \E q \in Pids \ {LoaderPid} :
          (q # Child \/ Started) /\ Arrive(q) /\ UNCHANGED kin
  /\ UNCHANGED loaderState

Leave ==
  /\ phase # "ended"
  /\ \E p \in Pids \ {LoaderPid} :
       /\ Exit(p, IF reaped THEN None ELSE Child)
       /\ kin' = kin \ {p}
  /\ UNCHANGED loaderState

(* The running child maps a library, by dlopen or late in its start-up.    *)
DlOpen ==
  /\ phase \in Supervising /\ Child \in kin /\ InUserMode(Child)
  /\ \E l \in Libs \ mapped : mapped' = mapped \cup {l}
  /\ UNCHANGED <<config, attached, maps, processes, phase, loader,
                 reaped, kin>>

(* The binary is built again while it is supervised.                       *)
Rebuild ==
  /\ phase \in Supervising
  /\ \E i \in 1 .. Len(Builds) - 1 : section = Builds[i] /\ section' = Builds[i + 1]
  /\ UNCHANGED <<config, attached, maps, processes, phase, mapped,
       layout, rb, parsed, pending, installed, libc_base, g_watched_libs,
       next_mod_id, todo, g_reload, reaped, kin>>

LoaderStep ==
  \/ Begin \/ ForkChild \/ Trap \/ StepChild \/ LibcMapped \/ InstallMain
  \/ InstallLibc \/ AddLib \/ SkipLib \/ SetupCfi \/ TrackChild \/ Detach
  \/ LoopTop \/ ReloadEntry \/ ReloadDone \/ Reap \/ ScanDone \/ WaitChild \/ Dump

Next == LoaderStep \/ signal_handler \/ LoaderDies \/ sighup_handler
          \/ Hook \/ Spawn \/ Leave \/ DlOpen \/ Rebuild

Spec == Init /\ [][Next]_vars

(* The loader keeps running, and creating a map does not fail for ever.    *)
FairSpec == Spec /\ WF_vars(LoaderStep) /\ SF_vars(AddLib)

-----------------------------------------------------------------------------
(* Properties.                                                             *)

TypeOK ==
  /\ config \in Configs /\ layout \in Layouts /\ section \in Policy
  /\ attached \in BOOLEAN /\ target_pid_map \subseteq Pids
  /\ vma_map \in [Blocks -> VmaValue \cup {None}]
  /\ policy_registry \in [ModuleIds -> Policy \cup {None}]
  /\ fallback_policy \subseteq Nrs /\ cgroup_map \in BOOLEAN
  /\ proc \in [Pids -> {"free", "stopped", "running", "zombie"}]
  /\ signal \in [Pids -> {"none", "kill", "term"}]
  /\ phase \in Early \cup {"discover", "enrol", "detach", "dump", "ended"} \cup Supervising
  /\ mapped \subseteq Objects /\ todo \subseteq Libs /\ kin \subseteq Pids
  /\ parsed \in Policy /\ installed \in Policy /\ pending \subseteq Address
  /\ rb \in BOOLEAN /\ g_reload \in BOOLEAN /\ reaped \in BOOLEAN
  /\ next_mod_id \in MODULE_DYNAMIC_BASE .. MaxModules
  /\ g_watched_libs \in Seq(Watched) /\ Len(g_watched_libs) <= MaxWatched
  /\ libc_base \in Address

(* main: whatever fails on the way, the exec'd child never runs under      *)
(* attached programs without being enrolled and without an entry for every *)
(* site of its policy.  The failure paths either kill it or destroy the    *)
(* programs first, and a hot reload never leaves a gap.                    *)
FreedIsEnforced ==
  (attached /\ Forked /\ phase # "trap" /\ ~reaped /\ proc[Child] = "running") =>
    /\ Child \in target_pid_map
    /\ policy_registry[MODULE_MAIN] # None
    /\ \A v \in Address : installed[v] # None =>
         policy_registry[MODULE_MAIN][Minus(v, LoadBase)] # None

(* Module ids, populate_vma_for_module and register_watched_lib: a library *)
(* is registered once, no two modules share an id, and every block the     *)
(* trie gives to a dynamic id has the base of the library registered under *)
(* that id, over start-up discovery and any later scans.                   *)
ModulesAgree ==
  /\ \A i, j \in DOMAIN g_watched_libs :
       i # j => /\ g_watched_libs[i].path # g_watched_libs[j].path
                /\ g_watched_libs[i].id # g_watched_libs[j].id
  /\ \A b \in Blocks :
       vma_map[b] # None /\ vma_map[b].module_id >= MODULE_DYNAMIC_BASE =>
         \E i \in DOMAIN g_watched_libs :
           /\ g_watched_libs[i].id = vma_map[b].module_id
           /\ Start(g_watched_libs[i].path) = vma_map[b].base_addr

(* Two objects whose blocks may coincide: libc and ld.so have one owner.   *)
Owner(o) == IF o = "ld" THEN "libc" ELSE o
Claimed(o) == Block(Start(o)) .. Block(End(o))
Alone(o) == \A k \in mapped :
              Owner(k) = Owner(o) \/ Claimed(k) \cap Claimed(o) = {}

LibcListed == policy_registry[MODULE_LIBC] \notin {None, EmptyPolicy}

(* The sites of an object whose policy is installed, with their rules.     *)
SitesOf(o) ==
  CASE o = "main" ->
         {<<Minus(v, LoadBase), installed[v]>> : v \in
            {a \in Address : installed[a] # None /\ parsed[a] = installed[a]}}
    [] o = "libc" -> {<<off, LibcRules[off]>> : off \in
            {a \in Address : LibcRules[a] # None /\ LibcListed}}
    [] o = "ld" -> {<<off, AnyNr>> : off \in
            {a \in SysSites["ld"] : LibcListed}}
    [] OTHER -> {<<off, AnyNr>> : off \in {a \in SysSites[o] : Tracked(o)}}

Permitted(o) ==
  \A s \in SitesOf(o), nr \in Nrs :
    LET site == Plus(Start(o), s[1])
    IN (s[2] \in {nr, AnyNr} /\ ~ sentinel_check(Child, site, nr, <<>>, TRUE))
         => /\ KnownVma(site)
            /\ cfi_policy[Minus(site, vma_map[Block(site)].base_addr)] # None

(* The loader's arithmetic against the enforcer's: a syscall from a site   *)
(* the policy lists, with the number it is bound to, is refused for no     *)
(* other reason than its caller range, as long as the object shares no     *)
(* block with another module and no other path contains "libc".  This      *)
(* covers ld.so's libc-relative offsets, which wrap, and hot reloads seen  *)
(* half done.                                                              *)
ListedSitesAllowed ==
  (attached /\ phase \in Supervising /\ Child \in kin /\ mapped \cap LibcNamed = {})
    => \A o \in mapped : Alone(o) => Permitted(o)

(* sentinel_fork_track: while the programs are attached every live         *)
(* descendant of the enrolled child is enrolled, unless the PID map has    *)
(* filled up, which dead PIDs do as well as live ones.                     *)
DescendantsTracked ==
  attached => \A p \in kin :
    p \in target_pid_map \/ Cardinality(target_pid_map) = MaxTargets

-----------------------------------------------------------------------------
(* What makes the invariants inductive.                                    *)

(* Until it is detached the child is stopped or has been waited for, and   *)
(* nothing is enrolled before it; afterwards it stays enrolled.            *)
ChildInv ==
  /\ phase = "ended" => ~attached
  /\ phase \in {"step", "main", "libc", "discover", "enrol", "detach"} =>
       reaped \/ proc[Child] = "stopped"
  /\ phase \in Early \cup {"discover", "enrol"} => target_pid_map = {} /\ kin = {}
  /\ phase \in Supervising \cup {"detach", "dump"} => Child \in target_pid_map

(* An address of .sentinel has an entry in the policy of the binary.       *)
Listed(v) == policy_registry[MODULE_MAIN][Minus(v, LoadBase)] # None

(* What a hot reload has still to store is listed in the new policy, and   *)
(* what it has stored is found.                                            *)
PolicyInv ==
  /\ phase \in Supervising \cup {"libc", "discover", "enrol", "detach", "dump"} =>
       /\ policy_registry[MODULE_MAIN] \in Policy
       /\ \A v \in Address : installed[v] # None => Listed(v)
  /\ phase = "reload" => \A v \in Address :
       /\ v \in pending => parsed[v] # None
       /\ parsed[v] # None => v \in pending \/ Listed(v)

TargetInv ==
  /\ IsFiniteSet(target_pid_map) /\ Cardinality(target_pid_map) <= MaxTargets
  /\ DescendantsTracked

(* Ids are handed out in the order of registration, whether by start-up    *)
(* discovery or by the scanner, which derives its first id from how many   *)
(* libraries there are; the binary takes one entry and no id.              *)
WatchInv ==
  /\ ModulesAgree
  /\ \A i \in DOMAIN g_watched_libs :
       /\ g_watched_libs[i].id < next_mod_id
       /\ g_watched_libs[i].id = MODULE_MAIN <=> g_watched_libs[i].path = "main"
  /\ phase \in Early => g_watched_libs = <<>>
  /\ phase \in Early \cup {"discover"} =>
       /\ ~Tracked("main")
       /\ next_mod_id = Len(g_watched_libs) + MODULE_DYNAMIC_BASE
  /\ phase \in Supervising \cup {"enrol", "detach", "dump"} =>
       next_mod_id = Len(g_watched_libs) + MODULE_DYNAMIC_BASE - 1
  /\ \A l \in todo : ~Tracked(l)

IInv == TypeOK /\ ChildInv /\ PolicyInv /\ TargetInv /\ WatchInv

(* What a policy of the binary lists lies in the mapped binary.            *)
InMain(p) ==
  \A v \in Address : p[v] # None => Minus(v, LoadBase) < layout["main"].size

(* The phases in which the policy of the binary is in the registry.        *)
Filled == Supervising \cup {"libc", "discover", "enrol", "detach", "dump"}

(* The rule the enforcer finds for an address of .sentinel is the one      *)
(* installed last, or already that of the reload under way.                *)
Rule(v) == policy_registry[MODULE_MAIN][Minus(v, LoadBase)]
RulesInv ==
  /\ InMain(section) /\ InMain(parsed) /\ InMain(installed)
  /\ phase \in Filled => \A v \in Address :
       /\ /\ installed[v] # None
          /\ phase = "reload" => v \in pending \/ parsed[v] = None
          => Rule(v) = installed[v]
       /\ phase = "reload" /\ v \notin pending /\ parsed[v] # None => Rule(v) = parsed[v]

(* A registered library, and libc once it is listed, is mapped and has its *)
(* policy under its id.                                                    *)
ModuleInv ==
  /\ todo \subseteq mapped
  /\ phase \in Early => todo = {} /\ policy_registry[MODULE_LIBC] = None
  /\ LibcListed => "libc" \in mapped /\ policy_registry[MODULE_LIBC] = LibcPolicy
  /\ \A i \in DOMAIN g_watched_libs :
       g_watched_libs[i].path \in Libs =>
         /\ g_watched_libs[i].path \in mapped
         /\ policy_registry[g_watched_libs[i].id] = LibPolicy(g_watched_libs[i].path)

(* Every address of an object that shares no block is found under the id   *)
(* and the base its policy is relative to.                                 *)
Placed(o, id, base) ==
  Alone(o) => \A a \in Start(o) .. End(o) :
                vma_map[Block(a)] = [module_id |-> id, base_addr |-> base]

PlaceInv ==
  phase \in Filled /\ mapped \cap LibcNamed = {} =>
    /\ "main" \in mapped => Placed("main", MODULE_MAIN, Start("main"))
    /\ "libc" \in mapped =>
         libc_base = Start("libc") /\ Placed("libc", MODULE_LIBC, Start("libc"))
    /\ LibcListed /\ "ld" \in mapped => Placed("ld", MODULE_LIBC, libc_base)
    /\ \A i \in DOMAIN g_watched_libs :
         LET w == g_watched_libs[i]
         IN w.path \in Libs => Placed(w.path, w.id, Start(w.path))

SitesInv == RulesInv /\ ModuleInv /\ PlaceInv

-----------------------------------------------------------------------------
(* Liveness.                                                               *)

(* The audit loop ends once the child it let go has ended, whatever        *)
(* reloads and scans come in between.                                      *)
LoaderEnds ==
  (phase \in Supervising /\ ~reaped /\ proc[Child] = "zombie") ~> (phase = "ended")

(* A SIGHUP taken in the audit loop is acted on (or the loader ends).      *)
ReloadServed ==
  (phase \in Supervising /\ rb /\ g_reload) ~> (~g_reload \/ phase = "ended")

(* --watch-dlopen: a library the child maps gets its policy, unless ids    *)
(* have run out or the loader ends first.                                  *)
LibrariesCovered ==
  \A l \in Libs :
    (phase \in Supervising /\ rb /\ config.watch_dlopen /\ l \in mapped)
      ~> (Tracked(l) \/ next_mod_id = MaxModules \/ phase = "ended")

=============================================================================
