------------------------ MODULE SentinelLoaderProofs ------------------------
(***************************************************************************)
(* Proofs about the loader and the enforcer it drives, for any number of   *)
(* processes, libraries, module ids and addresses, any layout of the       *)
(* objects, any sequence of builds and any command line.  The last part    *)
(* follows a listed site from its policy to the enforcer's lookup.         *)
(***************************************************************************)
EXTENDS SentinelLoader, FiniteSetTheorems, WellFoundedInduction, TLAPS

PState == {"free", "stopped", "running", "zombie"}
Signals == {"none", "kill", "term"}
VmaMap == [Blocks -> VmaValue \cup {None}]
Registry == [ModuleIds -> Policy \cup {None}]

-----------------------------------------------------------------------------
(* Least elements, addresses and the maps.                                 *)

\* A non-empty set of natural numbers contains its Min.
LEMMA MinIn ==
  ASSUME NEW S \in SUBSET Nat, S # {}
  PROVE  Min(S) \in S /\ \A y \in S : Min(S) <= y
<1>1. PICK x \in S : \A y \in S : ~(<<y, x>> \in OpToRel(<, Nat))
  BY Zenon, NatLessThanWellFounded, WFMin
<1>2. \A y \in S : ~(y < x)
  BY Zenon, <1>1 DEF OpToRel
<1>3. \E i \in S : \A j \in S : i <= j
  BY <1>2
<1> QED
  BY Zenon, <1>3 DEF Min

LEMMA AddressNat == Address \in SUBSET Nat /\ 0 \in Address
BY EnforcerAssumption DEF Address

\* Offsets from the load base are addresses, and adding the base gives back the
\* virtual address.
LEMMA Offsets ==
  ASSUME NEW v \in Address
  PROVE  /\ Minus(v, LoadBase) \in Address
         /\ Plus(Minus(v, LoadBase), LoadBase) = v
<1>1. /\ AddrSpace \in Nat \ {0} /\ v \in Nat /\ v < AddrSpace
      /\ LoadBase \in Nat /\ LoadBase < AddrSpace
  BY EnforcerAssumption, LoaderAssumption DEF Address
<1>2. CASE LoadBase <= v
  <2>1. (v - LoadBase) % AddrSpace = v - LoadBase
    BY <1>1, <1>2
  <2>2. v % AddrSpace = v
    BY <1>1
  <2> QED
    BY <1>1, <1>2, <2>1, <2>2 DEF Minus, Plus, Address
<1>3. CASE v < LoadBase
  <2>1. (v - LoadBase) % AddrSpace = v - LoadBase + AddrSpace
    BY <1>1, <1>3
  <2>2. (v + AddrSpace) % AddrSpace = v
    BY <1>1
  <2> QED
    BY <1>1, <1>3, <2>1, <2>2 DEF Minus, Plus, Address
<1> QED
  BY <1>1, <1>2, <1>3

\* Every object of a layout starts at an address.
LEMMA StartAddress ==
  ASSUME TypeOK, NEW o \in Objects
  PROVE  Start(o) \in Address
BY Zenon, LoaderAssumption DEF TypeOK, Start

\* populate_vma_for_module gives a block to the module or leaves it alone.
LEMMA Populated ==
  ASSUME NEW vma \in VmaMap, NEW O, NEW id \in ModuleIds, NEW base \in Address
  PROVE  /\ populate_vma(vma, O, id, base) \in VmaMap
         /\ \A b \in Blocks :
              \/ populate_vma(vma, O, id, base)[b] = vma[b]
              \/ populate_vma(vma, O, id, base)[b]
                   = [module_id |-> id, base_addr |-> base]
<1> DEFINE r == [module_id |-> id, base_addr |-> base]
<1>1. r \in VmaValue
  BY Zenon DEF VmaValue
<1> HIDE DEF r
<1>2. CASE O \cap mapped = {}
  BY Zenon, <1>2 DEF populate_vma
<1>3. CASE O \cap mapped # {}
  <2> DEFINE In(b) == /\ Block(Min({Start(o) : o \in O \cap mapped})) <= b
                      /\ b <= Block(Max({End(o) : o \in O \cap mapped}))
  <2>1. populate_vma(vma, O, id, base) = [b \in Blocks |-> IF In(b) THEN r ELSE vma[b]]
    BY Zenon, <1>3 DEF populate_vma, r
  <2> HIDE DEF In
  <2>2. \A b \in Blocks : vma[b] \in VmaValue \cup {None}
    BY Zenon DEF VmaMap
  <2>3. [b \in Blocks |-> IF In(b) THEN r ELSE vma[b]] \in VmaMap
    BY Zenon, <1>1, <2>2 DEF VmaMap
  <2> QED
    BY Zenon, <2>1, <2>3 DEF r
<1> QED
  BY Zenon, <1>2, <1>3

\* Every block of new is as in vma or belongs to one module.
GivenOrKept(vma, new, id, base) ==
  \A b \in Blocks : \/ new[b] = vma[b]
                    \/ new[b] = [module_id |-> id, base_addr |-> base]

LEMMA PopulatedBlocks ==
  ASSUME NEW vma \in VmaMap, NEW O, NEW id \in ModuleIds, NEW base \in Address
  PROVE  GivenOrKept(vma, populate_vma(vma, O, id, base), id, base)
BY Populated DEF GivenOrKept

\* The module ids of the binary and of libc.
LEMMA FixedIds ==
  /\ MODULE_MAIN \in ModuleIds /\ MODULE_LIBC \in ModuleIds
  /\ MODULE_MAIN # MODULE_LIBC
BY EnforcerAssumption DEF MODULE_MAIN, MODULE_LIBC, ModuleIds

\* The base of libc is an address.
LEMMA LibcBase ==
  ASSUME TypeOK, "libc" \in mapped
  PROVE  LowestBase(LibcLike) \in Address
<1> DEFINE S == {Start(o) : o \in LibcLike \cap mapped}
<1>1. LibcLike \in SUBSET Objects
  BY Zenon, LoaderAssumption DEF LibcLike, Objects
<1>2. S \in SUBSET Address
  BY Zenon, <1>1, StartAddress
<1>3. Start("libc") \in S
  BY Zenon DEF LibcLike
<1> HIDE DEF S
<1>4. Min(S) \in S
  BY Zenon, <1>2, <1>3, AddressNat, MinIn
<1> QED
  BY Zenon, <1>2, <1>4 DEF LowestBase, S

\* The library a scan looks at next is one it still has to look at.
LEMMA NextLibIn ==
  ASSUME TypeOK, todo # {}
  PROVE  NextLib \in todo
<1> DEFINE S == {Start(o) : o \in todo}
<1>1. S \in SUBSET Nat /\ S # {}
  <2>1. todo \subseteq Objects
    BY Zenon DEF TypeOK, Objects
  <2>2. \A o \in todo : Start(o) \in Nat
    BY Zenon, <2>1, StartAddress, AddressNat
  <2> QED
    BY Zenon, <2>2
<1> HIDE DEF S
<1>2. Min(S) \in S /\ \A y \in S : Min(S) <= y
  BY Zenon, <1>1, MinIn
<1>3. \E l \in todo : \A k \in todo : Start(l) <= Start(k)
  BY Zenon, <1>2 DEF S
<1> QED
  BY Zenon, <1>3 DEF NextLib

\* The policies the loader builds.
LEMMA PolicyTypes ==
  ASSUME TypeOK
  PROVE  /\ MainPolicy(parsed) \in Policy /\ LibcPolicy \in Policy
         /\ EmptyPolicy \in Policy
         /\ \A l : LibPolicy(l) \in Policy
<1>1. \A off \in Address : Plus(off, LoadBase) \in Address
  BY EnforcerAssumption, LoaderAssumption DEF Plus, Address
<1>2. parsed \in Policy /\ LibcRules \in Policy
  BY Zenon, LoaderAssumption DEF TypeOK
<1>3. MainPolicy(parsed) \in Policy
  BY Zenon, <1>1, <1>2 DEF MainPolicy, Policy
<1>4. LibcPolicy \in Policy
  BY Zenon, <1>2 DEF LibcPolicy, Policy, Rules
<1>5. EmptyPolicy \in Policy
  BY Zenon DEF EmptyPolicy, Policy
<1>6. \A l : LibPolicy(l) \in Policy
  BY Zenon DEF LibPolicy, Policy, Rules
<1> QED
  BY Zenon, <1>3, <1>4, <1>5, <1>6

-----------------------------------------------------------------------------
(* Types.                                                                  *)

\* What the end of the loader leaves of the processes.
LEMMA EndedTypes ==
  ASSUME TypeOK, NEW P \in [Pids -> PState], Ended(P),
         signal' \in [Pids -> Signals], reaped' \in BOOLEAN
  PROVE  TypeOK'
<1>1. proc' \in [Pids -> PState]
  BY Zenon DEF Ended, PState
<1>2. phase' = "ended" /\ attached' = FALSE
  BY Zenon DEF Ended
<1>3. UNCHANGED <<config, maps, mapped, loader, kin>>
  BY Zenon DEF Ended
<1> QED
  BY Zenon, <1>1, <1>2, <1>3 DEF TypeOK, maps, loader, PState, Signals

LEMMA ResumedType ==
  ASSUME TypeOK
  PROVE  Resumed \in [Pids -> PState]
BY Zenon, LoaderAssumption DEF TypeOK, Resumed, PState

LEMMA CleanUpTypes ==
  ASSUME TypeOK, CleanUp
  PROVE  TypeOK'
<1>1. signal' \in [Pids -> Signals] /\ reaped' \in BOOLEAN
  BY Zenon DEF CleanUp, TypeOK, Signals
<1> QED
  BY Zenon, <1>1, ResumedType, EndedTypes DEF CleanUp

LEMMA KillTypes ==
  ASSUME TypeOK, KillAndEnd
  PROVE  TypeOK'
<1>1. signal' \in [Pids -> Signals] /\ reaped' \in BOOLEAN
  BY Zenon DEF KillAndEnd, TypeOK, Signals
<1>2. [proc EXCEPT ![Child] = "free"] \in [Pids -> PState]
  BY Zenon DEF TypeOK, PState
<1> QED
  BY Zenon, <1>1, <1>2, EndedTypes DEF KillAndEnd

\* The two ways in which the loader ends at any moment.
LEMMA SignalledTypes ==
  ASSUME TypeOK, signal_handler \/ LoaderDies
  PROVE  TypeOK'
<1>1. signal' \in [Pids -> Signals]
  BY Zenon DEF signal_handler, LoaderDies, TypeOK, Signals
<1>2. reaped' \in BOOLEAN
  BY Zenon DEF signal_handler, LoaderDies, TypeOK
<1> QED
  BY Zenon, <1>1, <1>2, ResumedType, EndedTypes DEF signal_handler, LoaderDies

\* Starting, until the maps are filled.
LEMMA StartTypes ==
  ASSUME TypeOK, Begin \/ ForkChild \/ Trap \/ StepChild \/ LibcMapped
  PROVE  TypeOK'
<1>1. CASE Begin
  <2>1. CASE CleanUp
    BY Zenon, <2>1, CleanUpTypes
  <2>2. CASE ~CleanUp
    <3>1. config.cgroup_filter \in BOOLEAN /\ config.audit_mode \in BOOLEAN
      BY Zenon, LoaderAssumption DEF TypeOK
    <3>2. attached' \in BOOLEAN /\ cgroup_map' \in BOOLEAN /\ rb' \in BOOLEAN
      BY Zenon, <1>1, <2>2, <3>1 DEF Begin
    <3>3. phase' = "fork" /\ parsed' = section
      BY Zenon, <1>1, <2>2 DEF Begin
    <3>4. UNCHANGED <<proc, signal, reaped, kin, mapped, config,
             target_pid_map, vma_map, policy_registry, cfi_policy, fallback_policy,
             layout, section, pending, installed, libc_base, g_watched_libs,
             next_mod_id, todo, g_reload>>
      BY Zenon, <1>1, <2>2 DEF Begin
    <3> QED
      BY Zenon, <3>2, <3>3, <3>4 DEF TypeOK, Early
  <2> QED
    BY Zenon, <2>1, <2>2
<1>2. CASE ForkChild
  <2>1. CASE CleanUp
    BY Zenon, <2>1, CleanUpTypes
  <2>2. CASE ~CleanUp
    BY Zenon, <1>2, <2>2 DEF ForkChild, TypeOK, Early, maps, loader
  <2> QED
    BY Zenon, <2>1, <2>2
<1>3. CASE Trap
  <2>1. CASE KillAndEnd
    BY Zenon, <2>1, KillTypes
  <2>2. CASE ~KillAndEnd
    BY Zenon, <1>3, <2>2 DEF Trap, TypeOK, Early, Objects, maps, loader
  <2> QED
    BY Zenon, <2>1, <2>2
<1>4. CASE StepChild
  <2>1. mapped' \in SUBSET Objects /\ reaped' \in BOOLEAN
    BY Zenon, <1>4 DEF StepChild, TypeOK
  <2>2. /\ proc' \in [Pids -> PState]
        /\ phase' \in {"step", "main"}
    BY Zenon, <1>4 DEF StepChild, TypeOK, PState
  <2>3. UNCHANGED <<config, attached, maps, signal, loader, kin>>
    BY Zenon, <1>4 DEF StepChild
  <2> QED
    BY Zenon, <2>1, <2>2, <2>3 DEF TypeOK, Early, maps, loader, PState
<1>5. CASE LibcMapped
  BY Zenon, <1>5 DEF LibcMapped, TypeOK, Early, maps, loader, processes
<1> QED
  BY Zenon, <1>1, <1>2, <1>3, <1>4, <1>5

\* Filling the maps: the binary, libc and the libraries.
LEMMA InstallTypes ==
  ASSUME TypeOK, InstallMain \/ InstallLibc
  PROVE  TypeOK'
<1>1. /\ vma_map \in VmaMap /\ policy_registry \in Registry
      /\ libc_base \in Address
  BY Zenon DEF TypeOK, VmaMap, Registry
<1>2. CASE InstallMain
  <2>1. CASE CleanUp \/ KillAndEnd
    BY Zenon, <2>1, CleanUpTypes, KillTypes
  <2>2. CASE ~(CleanUp \/ KillAndEnd)
    <3>1. /\ vma_map' = Vmas
          /\ libc_base' = IF "libc" \in mapped THEN LowestBase(LibcLike) ELSE 0
          /\ policy_registry' = [policy_registry EXCEPT
                                   ![MODULE_MAIN] = MainPolicy(parsed)]
          /\ installed' = parsed /\ phase' = "libc"
      BY Zenon, <1>2, <2>2 DEF InstallMain
    <3>2. UNCHANGED <<config, attached, target_pid_map, cfi_policy,
             fallback_policy, cgroup_map, processes, mapped, layout,
             section, rb, parsed, pending, g_watched_libs, next_mod_id, todo,
             g_reload, reaped, kin>>
      BY Zenon, <1>2, <2>2 DEF InstallMain
    <3>3. libc_base' \in Address
      BY Zenon, <3>1, LibcBase, AddressNat
    <3>4. policy_registry' \in Registry
      BY Zenon, <1>1, <3>1, PolicyTypes DEF Registry
    <3>5. vma_map' \in VmaMap
      <4>1. Start("main") \in Address
        BY Zenon, StartAddress DEF Objects
      <4> DEFINE m == IF "main" \in mapped
                      THEN populate_vma(vma_map, {"main"}, MODULE_MAIN, Start("main"))
                      ELSE vma_map
      <4>2. m \in VmaMap
        BY Zenon, <1>1, <4>1, Populated, FixedIds
      <4>3. vma_map' = IF "libc" \in mapped
                       THEN populate_vma(m, LibcLike, MODULE_LIBC, LowestBase(LibcLike))
                       ELSE m
        BY Zenon, <3>1 DEF Vmas
      <4> HIDE DEF m
      <4> QED
        BY Zenon, <4>2, <4>3, Populated, FixedIds, LibcBase
    <3> QED
      BY Zenon, <3>1, <3>2, <3>3, <3>4, <3>5
      DEF TypeOK, Early, processes, VmaMap, Registry
  <2> QED
    BY Zenon, <2>1, <2>2
<1>3. CASE InstallLibc
  <2>1. CASE CleanUp
    BY Zenon, <2>1, CleanUpTypes
  <2>2. CASE ~CleanUp
    <3>1. \/ UNCHANGED <<policy_registry, vma_map>>
          \/ /\ policy_registry' = [policy_registry EXCEPT ![MODULE_LIBC] = EmptyPolicy]
             /\ UNCHANGED vma_map
          \/ /\ policy_registry' = [policy_registry EXCEPT ![MODULE_LIBC] = LibcPolicy]
             /\ vma_map' = populate_vma(vma_map, {"ld"}, MODULE_LIBC, libc_base)
      BY Zenon, <1>3, <2>2 DEF InstallLibc
    <3>2. phase' = "discover" /\ todo' \in SUBSET (mapped \cap Libs)
      BY Zenon, <1>3, <2>2 DEF InstallLibc
    <3>3. UNCHANGED <<config, attached, target_pid_map, cfi_policy,
             fallback_policy, cgroup_map, processes, mapped, layout,
             section, rb, parsed, pending, installed, libc_base, g_watched_libs,
             next_mod_id, g_reload, reaped, kin>>
      BY Zenon, <1>3, <2>2 DEF InstallLibc
    <3>4. policy_registry' \in Registry
      BY Zenon, <1>1, <3>1, PolicyTypes DEF Registry
    <3>5. vma_map' \in VmaMap
      BY Zenon, <1>1, <3>1, Populated, FixedIds
    <3> QED
      BY Zenon, <3>2, <3>3, <3>4, <3>5 DEF TypeOK, processes, VmaMap, Registry
  <2> QED
    BY Zenon, <2>1, <2>2
<1> QED
  BY Zenon, <1>2, <1>3

\* Registering a library leaves room for it, because ids run out first.
LEMMA RegisterTypes ==
  ASSUME TypeOK, NEW path \in Libs \cup {"main"}, NEW id \in ModuleIds,
         register_watched_lib(path, id)
  PROVE  g_watched_libs' \in Seq(Watched) /\ Len(g_watched_libs') <= MaxWatched
<1>1. g_watched_libs \in Seq(Watched) /\ Len(g_watched_libs) <= MaxWatched
  BY Zenon DEF TypeOK
<1>2. [path |-> path, id |-> id] \in Watched
  BY Zenon DEF Watched
<1>3. MaxWatched \in Nat
  BY Zenon, LoaderAssumption
<1> QED
  BY <1>1, <1>2, <1>3 DEF register_watched_lib

\* One library, and the end of the start-up discovery.
LEMMA LibTypes ==
  ASSUME TypeOK, WatchInv, AddLib \/ SkipLib \/ SetupCfi
  PROVE  TypeOK'
<1>1. CASE AddLib
  <2>1. todo # {} /\ next_mod_id < MaxModules
    BY Zenon, <1>1 DEF AddLib, LibStep
  <2>2. NextLib \in todo /\ NextLib \in Libs /\ NextLib \in Objects
    BY Zenon, <2>1, NextLibIn DEF TypeOK, Objects
  <2>3. next_mod_id \in ModuleIds /\ next_mod_id + 1 \in MODULE_DYNAMIC_BASE .. MaxModules
    BY <2>1, EnforcerAssumption DEF TypeOK, ModuleIds, MODULE_DYNAMIC_BASE
  <2>4. policy_registry' \in Registry
    <3>1. policy_registry' = [policy_registry EXCEPT ![next_mod_id] = LibPolicy(NextLib)]
      BY Zenon, <1>1 DEF AddLib
    <3>2. policy_registry \in Registry
      BY Zenon DEF TypeOK, Registry
    <3> QED
      BY Zenon, <2>3, <3>1, <3>2, PolicyTypes DEF Registry
  <2>5. vma_map' \in VmaMap
    <3>1. vma_map' = populate_vma(vma_map, {NextLib}, next_mod_id, Start(NextLib))
      BY Zenon, <1>1 DEF AddLib
    <3>2. vma_map \in VmaMap /\ Start(NextLib) \in Address
      BY Zenon, <2>2, StartAddress DEF TypeOK, VmaMap
    <3> QED
      BY Zenon, <2>3, <3>1, <3>2, Populated
  <2>6. g_watched_libs' \in Seq(Watched) /\ Len(g_watched_libs') <= MaxWatched
    <3>1. register_watched_lib(NextLib, next_mod_id)
      BY Zenon, <1>1 DEF AddLib
    <3> QED
      BY Zenon, <2>2, <2>3, <3>1, RegisterTypes
  <2>7. /\ next_mod_id' = next_mod_id + 1
        /\ todo' = todo \ {NextLib}
        /\ UNCHANGED <<config, attached, target_pid_map, cfi_policy, fallback_policy,
             cgroup_map, processes, phase, mapped, layout, section, rb,
             parsed, pending, installed, libc_base, g_reload, reaped, kin>>
    BY Zenon, <1>1 DEF AddLib
  <2> QED
    BY <2>3, <2>4, <2>5, <2>6, <2>7 DEF TypeOK, processes, VmaMap, Registry
<1>2. CASE SkipLib
  BY <1>2 DEF SkipLib, TypeOK, processes, maps
<1>3. CASE SetupCfi
  <2>1. g_watched_libs' \in Seq(Watched) /\ Len(g_watched_libs') <= MaxWatched
    <3>1. register_watched_lib("main", MODULE_MAIN)
      BY Zenon, <1>3 DEF SetupCfi
    <3> QED
      BY Zenon, <3>1, RegisterTypes, FixedIds
  <2>2. next_mod_id' = next_mod_id
    <3>1. next_mod_id' = MODULE_DYNAMIC_BASE + Len(g_watched_libs)
      BY Zenon, <1>3 DEF SetupCfi, dlopen_next_mod_id
    <3>2. next_mod_id = Len(g_watched_libs) + MODULE_DYNAMIC_BASE
      BY Zenon, <1>3 DEF SetupCfi, WatchInv
    <3>3. Len(g_watched_libs) \in Nat
      BY DEF TypeOK
    <3> QED
      BY <3>1, <3>2, <3>3 DEF MODULE_DYNAMIC_BASE
  <2>3. phase' = "enrol"
    BY Zenon, <1>3 DEF SetupCfi
  <2>4. UNCHANGED <<config, attached, target_pid_map, vma_map, policy_registry,
          fallback_policy, cgroup_map, processes, mapped, layout, section,
          rb, parsed, pending, installed, libc_base, todo, g_reload, reaped, kin>>
    BY Zenon, <1>3 DEF SetupCfi
  <2> QED
    BY Zenon, <2>1, <2>2, <2>3, <2>4 DEF TypeOK, processes
<1> QED
  BY Zenon, <1>1, <1>2, <1>3


\* Enrolling the child and letting it go.
LEMMA FreeTypes ==
  ASSUME TypeOK, TrackChild \/ Detach
  PROVE  TypeOK'
<1>1. CASE TrackChild
  <2>1. CASE KillAndEnd
    BY Zenon, <2>1, KillTypes
  <2>2. CASE ~KillAndEnd
    <3>1. /\ target_pid_map' = target_pid_map \cup {Child}
          /\ kin' = IF reaped THEN {} ELSE {Child}
          /\ phase' = "detach"
      BY Zenon, <1>1, <2>2 DEF TrackChild
    <3>2. UNCHANGED <<config, attached, vma_map, policy_registry, cfi_policy,
             fallback_policy, cgroup_map, processes, mapped, loader, reaped>>
      BY Zenon, <1>1, <2>2 DEF TrackChild
    <3>3. target_pid_map' \in SUBSET Pids /\ kin' \in SUBSET Pids
      BY Zenon, <3>1, LoaderAssumption DEF TypeOK
    <3> QED
      BY Zenon, <3>1, <3>2, <3>3 DEF TypeOK, processes, loader
  <2> QED
    BY Zenon, <2>1, <2>2
<1>2. CASE Detach
  <2>1. phase' \in Supervising
    BY Zenon, <1>2 DEF Detach, Supervising
  <2>2. fallback_policy' \in SUBSET Nrs
    BY Zenon, <1>2, LoaderAssumption DEF Detach
  <2>3. proc' \in [Pids -> PState]
    BY Zenon, <1>2, ResumedType DEF Detach
  <2>4. UNCHANGED <<config, attached, target_pid_map, vma_map, policy_registry,
          cfi_policy, cgroup_map, signal, mapped, loader, reaped, kin>>
    BY Zenon, <1>2 DEF Detach
  <2> QED
    BY Zenon, <2>1, <2>2, <2>3, <2>4 DEF TypeOK, loader, PState
<1> QED
  BY Zenon, <1>1, <1>2

\* A hot reload.
LEMMA ReloadTypes ==
  ASSUME TypeOK, PolicyInv, LoopTop \/ ReloadEntry \/ ReloadDone
  PROVE  TypeOK'
<1>1. CASE LoopTop
  <2>1. g_reload' = FALSE
    BY Zenon, <1>1 DEF LoopTop
  <2>2. parsed' \in Policy /\ pending' \in SUBSET Address
    BY Zenon, <1>1 DEF LoopTop, TypeOK
  <2>3. phase' \in Supervising
    BY Zenon, <1>1 DEF LoopTop, Supervising
  <2>4. Unchanged(<<policy_registry, processes, installed, todo, reaped>>)
    BY Zenon, <1>1 DEF LoopTop
  <2> QED
    BY Zenon, <2>1, <2>2, <2>3, <2>4 DEF TypeOK, Unchanged, processes
<1>2. CASE ReloadEntry
  <2> DEFINE v == Min(pending)
             old == policy_registry[MODULE_MAIN]
  <2>1. v \in pending /\ v \in Address
    BY Zenon, <1>2, AddressNat, MinIn DEF ReloadEntry, TypeOK
  <2>2. parsed[v] \in Rules \cup {None}
    BY Zenon, <2>1 DEF TypeOK, Policy
  <2>3. policy_registry' = [policy_registry EXCEPT
          ![MODULE_MAIN] = [old EXCEPT ![Minus(v, LoadBase)] = parsed[v]]]
    BY Zenon, <1>2 DEF ReloadEntry
  <2>4. pending' \in SUBSET Address
    BY Zenon, <1>2 DEF ReloadEntry, TypeOK
  <2>5. Unchanged(<<processes, phase, parsed, installed, todo, g_reload, reaped>>)
    BY Zenon, <1>2 DEF ReloadEntry
  <2>6. policy_registry' \in Registry
    <3>1. policy_registry \in Registry
      BY Zenon DEF TypeOK, Registry
    <3>2. old \in Policy
      BY Zenon, <1>2 DEF ReloadEntry, PolicyInv, Supervising
    <3>3. [old EXCEPT ![Minus(v, LoadBase)] = parsed[v]] \in Policy
      BY Zenon, <2>2, <3>2 DEF Policy
    <3> QED
      BY Zenon, <2>3, <3>1, <3>3 DEF Registry
  <2> QED
    BY <2>4, <2>5, <2>6 DEF TypeOK, Unchanged, processes, Registry
<1>3. CASE ReloadDone
  BY Zenon, <1>3 DEF ReloadDone, TypeOK, Unchanged, processes, Supervising
<1> QED
  BY Zenon, <1>1, <1>2, <1>3

\* The rest of the audit loop, the plain wait and SIGHUP.
LEMMA LoopTypes ==
  ASSUME TypeOK, Reap \/ ScanDone \/ WaitChild \/ Dump \/ sighup_handler
  PROVE  TypeOK'
<1>1. CASE Reap
  <2>1. todo' \in SUBSET Libs
    BY Zenon, <1>1 DEF Reap, NewLibs, TypeOK
  <2>2. proc' \in [Pids -> PState] /\ phase' \in Supervising \cup {"dump"}
    BY Zenon, <1>1 DEF Reap, TypeOK, PState, Supervising
  <2>3. reaped' \in BOOLEAN
    BY Zenon, <1>1 DEF Reap, TypeOK
  <2>4. Unchanged(<<policy_registry, signal, parsed, pending, installed, g_reload>>)
    BY Zenon, <1>1 DEF Reap
  <2> QED
    BY <2>1, <2>2, <2>3, <2>4 DEF TypeOK, Unchanged, PState
<1>2. CASE ScanDone
  BY Zenon, <1>2 DEF ScanDone, TypeOK, Unchanged, processes, Supervising
<1>3. CASE WaitChild
  BY Zenon, <1>3 DEF WaitChild, TypeOK, Unchanged
<1>4. CASE Dump
  BY Zenon, <1>4, CleanUpTypes DEF Dump
<1>5. CASE sighup_handler
  <2>1. g_reload' = TRUE
    BY Zenon, <1>5 DEF sighup_handler
  <2>2. phase' = phase \/ phase' = "dump"
    BY Zenon, <1>5 DEF sighup_handler
  <2>3. Unchanged(<<policy_registry, processes, parsed, pending, installed, todo, reaped>>)
    BY Zenon, <1>5 DEF sighup_handler
  <2> QED
    BY Zenon, <2>1, <2>2, <2>3 DEF TypeOK, Unchanged, processes
<1> QED
  BY Zenon, <1>1, <1>2, <1>3, <1>4, <1>5

\* The hooks and the other processes.
LEMMA EnvironmentTypes ==
  ASSUME TypeOK, Hook \/ Spawn \/ Leave \/ DlOpen \/ Rebuild
  PROVE  TypeOK'
<1>1. CASE Hook
  <2>1. signal' \in [Pids -> Signals]
    BY Zenon, <1>1 DEF Hook, DeniedSyscall, HandleTerm, deny_action, TypeOK, Signals
  <2>2. UNCHANGED <<config, attached, maps, proc, loaderState, kin>>
    BY Zenon, <1>1 DEF Hook, DeniedSyscall, HandleTerm
  <2> QED
    BY <2>1, <2>2 DEF TypeOK, maps, loaderState, loader, Signals
<1>2. CASE Spawn
  <2>1. /\ target_pid_map' \in SUBSET Pids /\ kin' \in SUBSET Pids
        /\ proc' \in [Pids -> PState]
    BY Zenon, <1>2
    DEF Spawn, Fork, Arrive, sentinel_fork_track, maps, TypeOK, PState
  <2>2. UNCHANGED <<config, attached, vma_map, policy_registry, cfi_policy,
                    fallback_policy, cgroup_map, signal, loaderState>>
    BY Zenon, <1>2 DEF Spawn, Fork, Arrive, maps
  <2> QED
    BY Zenon, <2>1, <2>2 DEF TypeOK, loaderState, loader, PState
<1>3. CASE Leave
  <2>1. /\ proc' \in [Pids -> PState] /\ signal' \in [Pids -> Signals]
        /\ kin' \in SUBSET Pids
    BY Zenon, <1>3 DEF Leave, Exit, TypeOK, PState, Signals
  <2>2. UNCHANGED <<config, attached, maps, loaderState>>
    BY Zenon, <1>3 DEF Leave, Exit
  <2> QED
    BY <2>1, <2>2 DEF TypeOK, maps, loaderState, loader, PState, Signals
<1>4. CASE DlOpen
  BY Zenon, <1>4 DEF DlOpen, TypeOK, Objects, maps, processes, loader
<1>5. CASE Rebuild
  <2>1. section' \in Policy
    BY <1>5, LoaderAssumption DEF Rebuild
  <2>2. UNCHANGED <<config, attached, maps, processes, phase, mapped,
          layout, rb, parsed, pending, installed, libc_base, g_watched_libs,
          next_mod_id, todo, g_reload, reaped, kin>>
    BY Zenon, <1>5 DEF Rebuild
  <2> QED
    BY <2>1, <2>2 DEF TypeOK, maps, processes
<1> QED
  BY Zenon, <1>1, <1>2, <1>3, <1>4, <1>5


\* Every step keeps the types.
LEMMA TypeStep ==
  ASSUME TypeOK, PolicyInv, WatchInv, [Next]_vars
  PROVE  TypeOK'
<1>1. CASE UNCHANGED vars
  BY <1>1 DEF TypeOK, vars, maps, processes, loader
<1>2. CASE Next
  BY Zenon, <1>2, StartTypes, InstallTypes, LibTypes, FreeTypes, ReloadTypes, LoopTypes,
     SignalledTypes, EnvironmentTypes
  DEF Next, LoaderStep
<1> QED
  BY Zenon, <1>1, <1>2

-----------------------------------------------------------------------------
(* The child.                                                              *)

\* A step inside one phase that neither stops nor lets go the child, and
\* enrols only descendants of what is enrolled.
LEMMA ChildFrame ==
  ASSUME ChildInv, UNCHANGED <<phase, attached, reaped>>,
         proc[Child] = "stopped" => proc'[Child] = "stopped",
         target_pid_map = {} => target_pid_map' = {},
         target_pid_map \subseteq target_pid_map',
         kin = {} => kin' = {}
  PROVE  ChildInv'
BY Zenon DEF ChildInv

\* Nothing is claimed of the child once the programs are destroyed.
LEMMA EndedChild ==
  ASSUME NEW P, Ended(P)
  PROVE  ChildInv'
<1>1. phase' = "ended" /\ attached' = FALSE
  BY Zenon DEF Ended
<1> QED
  BY Zenon, <1>1 DEF ChildInv, Early, Supervising

LEMMA StartChild ==
  ASSUME TypeOK, ChildInv,
         Begin \/ ForkChild \/ Trap \/ StepChild \/ LibcMapped \/ InstallMain
         \/ InstallLibc \/ TrackChild \/ Detach
  PROVE  ChildInv'
<1>1. CASE CleanUp \/ KillAndEnd
  BY Zenon, <1>1, EndedChild DEF CleanUp, KillAndEnd
<1>2. CASE ~(CleanUp \/ KillAndEnd)
  <2>1. CASE Begin \/ ForkChild
    BY Zenon, <1>2, <2>1 DEF Begin, ForkChild, ChildInv, Early, Supervising, maps
  <2>2. CASE Trap
    <3>1. proc'[Child] = "stopped"
      BY <1>2, <2>2, LoaderAssumption DEF Trap, TypeOK
    <3> QED
      BY Zenon, <1>2, <2>2, <3>1 DEF Trap, ChildInv, Early, Supervising, maps
  <2>3. CASE StepChild
    <3>1. reaped' \/ proc'[Child] = "stopped"
      BY <2>3 DEF StepChild, ChildInv
    <3>2. phase = "step" /\ phase' \in {"step", "main"} /\ UNCHANGED <<maps, kin>>
      BY Zenon, <2>3 DEF StepChild
    <3> QED
      BY Zenon, <3>1, <3>2 DEF ChildInv, Early, Supervising, maps
  <2>4. CASE LibcMapped \/ InstallMain \/ InstallLibc
    BY Zenon, <1>2, <2>4
    DEF LibcMapped, InstallMain, InstallLibc, ChildInv, Early, Supervising, maps,
        processes
  <2>5. CASE TrackChild
    BY <1>2, <2>5 DEF TrackChild, ChildInv, Early, Supervising, processes
  <2>6. CASE Detach
    <3>1. phase = "detach" /\ phase' \in Supervising /\ UNCHANGED target_pid_map
      BY Zenon, <2>6 DEF Detach, Supervising
    <3> QED
      BY Zenon, <3>1 DEF ChildInv, Early, Supervising
  <2> QED
    BY Zenon, <1>2, <2>1, <2>2, <2>3, <2>4, <2>5, <2>6
<1> QED
  BY Zenon, <1>1, <1>2

LEMMA LoopChild ==
  ASSUME TypeOK, ChildInv,
         AddLib \/ SkipLib \/ SetupCfi \/ LoopTop \/ ReloadEntry \/ ReloadDone
         \/ Reap \/ ScanDone \/ WaitChild \/ sighup_handler
  PROVE  ChildInv'
<1>1. CASE AddLib \/ SkipLib \/ ReloadEntry
  BY Zenon, <1>1, ChildFrame DEF AddLib, SkipLib, ReloadEntry, Unchanged, maps, processes
<1>2. CASE SetupCfi
  BY Zenon, <1>2 DEF SetupCfi, ChildInv, Early, Supervising, processes
<1>3. CASE LoopTop \/ ReloadDone \/ Reap \/ ScanDone \/ WaitChild
  <2>1. phase \in Supervising /\ phase' \in Supervising \cup {"dump"}
    BY Zenon, <1>3 DEF LoopTop, ReloadDone, Reap, ScanDone, WaitChild, Supervising
  <2>2. UNCHANGED target_pid_map
    BY Zenon, <1>3 DEF LoopTop, ReloadDone, Reap, ScanDone, WaitChild, Unchanged
  <2> QED
    BY Zenon, <2>1, <2>2 DEF ChildInv, Early, Supervising
<1>4. CASE sighup_handler
  <2>1. CASE phase = "wait"
    BY Zenon, <1>4, <2>1 DEF sighup_handler, Unchanged, ChildInv, Early, Supervising
  <2>2. CASE phase # "wait"
    BY Zenon, <1>4, <2>2, ChildFrame DEF sighup_handler, Unchanged, processes
  <2> QED
    BY Zenon, <2>1, <2>2
<1> QED
  BY Zenon, <1>1, <1>2, <1>3, <1>4

LEMMA ChildStep ==
  ASSUME TypeOK, ChildInv, [Next]_vars
  PROVE  ChildInv'
<1>1. CASE UNCHANGED vars
  BY Zenon, <1>1, ChildFrame DEF vars, maps, processes, loader
<1>2. CASE signal_handler \/ LoaderDies \/ Dump
  BY Zenon, <1>2, EndedChild DEF signal_handler, LoaderDies, Dump, CleanUp
<1>3. CASE Hook
  <2>1. UNCHANGED <<attached, target_pid_map, proc, loaderState, kin>>
    BY Zenon, <1>3 DEF Hook, DeniedSyscall, HandleTerm, maps
  <2> QED
    BY Zenon, <2>1, ChildFrame DEF loaderState
<1>4. CASE Spawn
  <2>1. UNCHANGED <<attached, loaderState>>
    BY Zenon, <1>4 DEF Spawn, Fork, Arrive
  <2>2. proc[Child] = "stopped" => proc'[Child] = "stopped"
    <3>1. PICK q \in Pids : /\ proc[q] = "free"
                            /\ proc' = [proc EXCEPT ![q] = "running"]
      BY Zenon, <1>4 DEF Spawn, Fork, Arrive
    <3>2. proc \in [Pids -> PState] /\ Child \in Pids
      BY Zenon, LoaderAssumption DEF TypeOK, PState
    <3> QED
      BY Zenon, <3>1, <3>2
  <2>3. /\ target_pid_map = {} => target_pid_map' = {}
        /\ target_pid_map \subseteq target_pid_map'
    BY Zenon, <1>4 DEF Spawn, Fork, Arrive, sentinel_fork_track, maps
  <2>4. kin = {} => kin' = {}
    BY Zenon, <1>4 DEF Spawn
  <2> QED
    BY Zenon, <2>1, <2>2, <2>3, <2>4, ChildFrame DEF loaderState
<1>5. CASE Leave
  <2>1. UNCHANGED <<attached, target_pid_map, loaderState>> /\ kin' \subseteq kin
    BY Zenon, <1>5 DEF Leave, Exit, maps
  <2>2. proc[Child] = "stopped" => proc'[Child] = "stopped"
    BY <1>5 DEF Leave, Exit, TypeOK
  <2> QED
    BY Zenon, <2>1, <2>2, ChildFrame DEF loaderState
<1>6. CASE DlOpen \/ Rebuild
  BY Zenon, <1>6, ChildFrame DEF DlOpen, Rebuild, maps, processes
<1> QED
  BY Zenon, <1>1, <1>2, <1>3, <1>4, <1>5, <1>6, StartChild, LoopChild DEF Next, LoaderStep


-----------------------------------------------------------------------------
(* The policy of the binary.                                               *)

\* A step that leaves the policy of the binary alone and starts no reload.
LEMMA PolicyFrame ==
  ASSUME PolicyInv, phase' \in Filled => phase \in Filled,
         policy_registry'[MODULE_MAIN] = policy_registry[MODULE_MAIN],
         UNCHANGED installed,
         phase' = "reload" => phase = "reload" /\ UNCHANGED <<parsed, pending>>
  PROVE  PolicyInv'
BY Zenon DEF PolicyInv, Listed, Filled

\* Nothing is claimed before the policy is stored and after the loader ended.
LEMMA UnfilledPolicy ==
  ASSUME phase' \in {"start", "fork", "trap", "step", "main", "ended"}
  PROVE  PolicyInv'
BY Zenon DEF PolicyInv, Supervising

\* The first installation.
LEMMA InstallPolicy ==
  ASSUME TypeOK, PolicyInv, InstallMain
  PROVE  PolicyInv'
<1>1. CASE CleanUp \/ KillAndEnd
  BY Zenon, <1>1, UnfilledPolicy DEF CleanUp, KillAndEnd, Ended
<1>2. CASE ~(CleanUp \/ KillAndEnd)
  <2>1. policy_registry'[MODULE_MAIN] = MainPolicy(parsed)
    BY Zenon, <1>2, FixedIds DEF InstallMain, TypeOK
  <2>2. installed' = parsed /\ phase' = "libc"
    BY Zenon, <1>2 DEF InstallMain
  <2>3. policy_registry'[MODULE_MAIN] \in Policy
    BY Zenon, <2>1, PolicyTypes
  <2>4. ASSUME NEW v \in Address, installed'[v] # None
        PROVE  policy_registry'[MODULE_MAIN][Minus(v, LoadBase)] # None
    <3>1. MainPolicy(parsed)[Minus(v, LoadBase)] = parsed[v]
      BY Zenon, Offsets DEF MainPolicy
    <3> QED
      BY Zenon, <2>1, <2>2, <2>4, <3>1
  <2> QED
    BY Zenon, <2>2, <2>3, <2>4 DEF PolicyInv, Listed
<1> QED
  BY Zenon, <1>1, <1>2

\* A hot reload stores every entry of the new policy before the policy counts as
\* installed, and overwrites entries only by entries.
LEMMA ReloadPolicy ==
  ASSUME TypeOK, PolicyInv, LoopTop \/ ReloadEntry \/ ReloadDone
  PROVE  PolicyInv'
<1>1. phase \in Filled /\ phase' \in Filled
  BY Zenon DEF LoopTop, ReloadEntry, ReloadDone, Filled, Supervising, Unchanged
<1>2. CASE LoopTop
  <2>1. UNCHANGED <<policy_registry, installed>>
    BY Zenon, <1>2 DEF LoopTop, Unchanged
  <2>2. CASE phase' = "reload"
    <3>1. parsed' = section /\ pending' = {v \in Address : section[v] # None}
      BY Zenon, <1>2, <2>2 DEF LoopTop
    <3> QED
      BY Zenon, <1>1, <2>1, <3>1 DEF PolicyInv, Listed, Filled
  <2>3. CASE phase' # "reload"
    BY Zenon, <1>1, <2>1, <2>3, PolicyFrame
  <2> QED
    BY Zenon, <2>2, <2>3
<1>3. CASE ReloadEntry
  <2> DEFINE w == Min(pending)
             old == policy_registry[MODULE_MAIN]
             new == policy_registry'[MODULE_MAIN]
  <2>1. /\ phase = "reload" /\ phase' = "reload"
        /\ pending' = pending \ {w} /\ UNCHANGED <<parsed, installed>>
    BY <1>3 DEF ReloadEntry, Unchanged
  <2>2. w \in pending /\ w \in Address
    BY Zenon, <1>3, AddressNat, MinIn DEF ReloadEntry, TypeOK
  <2>3. parsed[w] # None /\ parsed[w] \in Rules \cup {None}
    BY Zenon, <2>1, <2>2 DEF PolicyInv, TypeOK, Policy
  <2>4. old \in Policy
    BY Zenon, <1>1 DEF PolicyInv, Filled
  <2>5. new = [old EXCEPT ![Minus(w, LoadBase)] = parsed[w]]
    BY Zenon, <1>3, FixedIds DEF ReloadEntry, TypeOK
  <2> HIDE DEF w, old, new
  <2>6. new \in Policy
    BY Zenon, <2>3, <2>4, <2>5 DEF Policy
  <2>7. ASSUME NEW off \in Address, old[off] # None \/ off = Minus(w, LoadBase)
        PROVE  new[off] # None
    BY Zenon, <2>3, <2>4, <2>5, <2>7 DEF Policy
  <2>8. ASSUME NEW v \in Address, Listed(v) \/ v = w
        PROVE  new[Minus(v, LoadBase)] # None
    BY Zenon, <2>7, <2>8, Offsets DEF Listed, old
  <2>9. /\ \A v \in Address : installed[v] # None => Listed(v)
        /\ \A v \in Address : /\ v \in pending => parsed[v] # None
                              /\ parsed[v] # None => v \in pending \/ Listed(v)
    BY Zenon, <1>1, <2>1 DEF PolicyInv, Filled
  <2>10. \A v \in Address : installed'[v] # None => new[Minus(v, LoadBase)] # None
    BY Zenon, <2>1, <2>8, <2>9
  <2>11. \A v \in Address :
           /\ v \in pending' => parsed'[v] # None
           /\ parsed'[v] # None => v \in pending' \/ new[Minus(v, LoadBase)] # None
    BY Zenon, <2>1, <2>8, <2>9
  <2> QED
    BY Zenon, <2>6, <2>10, <2>11 DEF PolicyInv, Listed, new
<1>4. CASE ReloadDone
  <2>1. /\ phase = "reload" /\ phase' = "reap" /\ pending = {}
        /\ installed' = parsed /\ UNCHANGED policy_registry
    BY Zenon, <1>4 DEF ReloadDone, Unchanged
  <2>2. \A v \in Address : parsed[v] # None => Listed(v)
    BY Zenon, <2>1 DEF PolicyInv
  <2> QED
    BY Zenon, <1>1, <2>1, <2>2 DEF PolicyInv, Listed, Filled
<1> QED
  BY Zenon, <1>2, <1>3, <1>4

LEMMA PolicyStep ==
  ASSUME TypeOK, PolicyInv, [Next]_vars
  PROVE  PolicyInv'
<1>1. CASE UNCHANGED vars
  BY Zenon, <1>1, PolicyFrame DEF vars, maps, loader
<1>2. CASE signal_handler \/ LoaderDies \/ Dump \/ CleanUp \/ KillAndEnd
  BY Zenon, <1>2, UnfilledPolicy
  DEF signal_handler, LoaderDies, Dump, CleanUp, KillAndEnd, Ended
<1>3. CASE Begin \/ ForkChild \/ Trap \/ StepChild \/ LibcMapped
  BY Zenon, <1>2, <1>3, UnfilledPolicy DEF Begin, ForkChild, Trap, StepChild, LibcMapped
<1>4. CASE InstallLibc \/ AddLib
  <2>1. CASE CleanUp
    BY Zenon, <1>2, <2>1
  <2>2. CASE ~CleanUp
    <3>1. policy_registry'[MODULE_MAIN] = policy_registry[MODULE_MAIN]
      <4>1. ASSUME NEW m \in ModuleIds \ {MODULE_MAIN}, NEW x,
                   policy_registry' = [policy_registry EXCEPT ![m] = x]
            PROVE  policy_registry'[MODULE_MAIN] = policy_registry[MODULE_MAIN]
        BY Zenon, <4>1, FixedIds DEF TypeOK
      <4>2. next_mod_id < MaxModules => next_mod_id \in ModuleIds
        BY EnforcerAssumption DEF TypeOK, ModuleIds, MODULE_DYNAMIC_BASE
      <4>3. next_mod_id # MODULE_MAIN
        BY DEF TypeOK, MODULE_DYNAMIC_BASE, MODULE_MAIN
      <4>4. CASE InstallLibc
        BY Zenon, <2>2, <4>1, <4>4, FixedIds DEF InstallLibc
      <4>5. CASE AddLib
        BY Zenon, <4>1, <4>2, <4>3, <4>5 DEF AddLib
      <4> QED
        BY Zenon, <1>4, <4>4, <4>5
    <3>2. UNCHANGED <<installed, parsed, pending>>
      BY Zenon, <1>4, <2>2 DEF InstallLibc, AddLib
    <3>3. phase \in Filled
      BY Zenon, <1>4 DEF InstallLibc, AddLib, LibStep, Filled, Supervising
    <3>4. phase' = "reload" => phase = "reload"
      BY Zenon, <1>4, <2>2 DEF InstallLibc, AddLib
    <3> QED
      BY Zenon, <3>1, <3>2, <3>3, <3>4, PolicyFrame
  <2> QED
    BY Zenon, <2>1, <2>2
<1>5. CASE SkipLib \/ SetupCfi \/ TrackChild \/ Detach
  <2>1. CASE KillAndEnd
    BY Zenon, <1>2, <2>1
  <2>2. CASE ~KillAndEnd
    BY Zenon, <1>5, <2>2, PolicyFrame
    DEF SkipLib, SetupCfi, TrackChild, Detach, Filled, Supervising, LibStep, maps, loader
  <2> QED
    BY Zenon, <2>1, <2>2
<1>6. CASE Reap \/ ScanDone \/ WaitChild \/ sighup_handler
  <2>1. UNCHANGED <<policy_registry, installed, parsed, pending>>
    BY Zenon, <1>6 DEF Reap, ScanDone, WaitChild, sighup_handler, Unchanged
  <2>2. /\ phase' \in Filled => phase \in Filled
        /\ phase' = "reload" => phase = "reload"
    BY Zenon, <1>6 DEF Reap, ScanDone, WaitChild, sighup_handler, Filled, Supervising
  <2> QED
    BY Zenon, <2>1, <2>2, PolicyFrame
<1>7. CASE Hook \/ Spawn \/ Leave
  <2>1. UNCHANGED <<policy_registry, loaderState>>
    BY Zenon, <1>7 DEF Hook, DeniedSyscall, HandleTerm, Spawn, Fork, Arrive, Leave, Exit, maps
  <2> QED
    BY Zenon, <2>1, PolicyFrame DEF loaderState, loader
<1>8. CASE DlOpen \/ Rebuild
  BY Zenon, <1>8, PolicyFrame DEF DlOpen, Rebuild, maps, loader
<1> QED
  BY <1>1, <1>2, <1>3, <1>4, <1>5, <1>6, <1>7, <1>8, InstallPolicy, ReloadPolicy
  DEF Next, LoaderStep


-----------------------------------------------------------------------------
(* The enrolled processes.                                                 *)

\* A step that enrols nobody and adds no descendant.
LEMMA TargetFrame ==
  ASSUME TargetInv, UNCHANGED target_pid_map, kin' \subseteq kin,
         attached' => attached \/ kin = {}
  PROVE  TargetInv'
BY Zenon DEF TargetInv, DescendantsTracked

\* sentinel_fork_track: the child of an enrolled process is enrolled while there
\* is room, and the map never holds more than MaxTargets entries.
LEMMA ForkTarget ==
  ASSUME TargetInv, NEW p, NEW q, sentinel_fork_track(p, q), UNCHANGED attached,
         kin' = IF p \in kin THEN kin \cup {q} ELSE kin
  PROVE  TargetInv'
<1> DEFINE n == Cardinality(target_pid_map)
<1>1. /\ IsFiniteSet(target_pid_map) /\ n \in Nat /\ n <= MaxTargets
      /\ MaxTargets \in Nat
  BY Zenon, FS_CardinalityType, EnforcerAssumption DEF TargetInv
<1>2. CASE target_pid_map' = target_pid_map \cup {q} /\ q \notin target_pid_map
           /\ n < MaxTargets
  <2>1. IsFiniteSet(target_pid_map') /\ Cardinality(target_pid_map') = n + 1
    BY Zenon, <1>1, <1>2, FS_AddElement
  <2>2. attached' => \A x \in kin' : x \in target_pid_map'
    BY <1>1, <1>2 DEF TargetInv, DescendantsTracked
  <2> QED
    BY <1>1, <1>2, <2>1, <2>2 DEF TargetInv, DescendantsTracked
<1>3. CASE target_pid_map' = target_pid_map
  <2>1. attached /\ p \in kin => q \in target_pid_map \/ n = MaxTargets
    BY <1>1, <1>3 DEF sentinel_fork_track, TargetInv, DescendantsTracked
  <2> QED
    BY Zenon, <1>1, <1>3, <2>1 DEF TargetInv, DescendantsTracked
<1> QED
  BY Zenon, <1>2, <1>3 DEF sentinel_fork_track

LEMMA TargetStep ==
  ASSUME TypeOK, ChildInv, TargetInv, [Next]_vars
  PROVE  TargetInv'
<1>1. CASE UNCHANGED vars
  BY Zenon, <1>1, TargetFrame DEF vars, maps
<1>2. CASE \E P : Ended(P)
  BY Zenon, <1>2, TargetFrame DEF Ended, maps
<1>3. CASE signal_handler \/ LoaderDies \/ Dump \/ CleanUp \/ KillAndEnd
  BY Zenon, <1>2, <1>3 DEF signal_handler, LoaderDies, Dump, CleanUp, KillAndEnd
<1>4. CASE Begin \/ ForkChild \/ Trap \/ StepChild \/ LibcMapped \/ InstallMain
           \/ InstallLibc
  <2>1. CASE CleanUp \/ KillAndEnd
    BY Zenon, <1>3, <2>1
  <2>2. CASE ~(CleanUp \/ KillAndEnd)
    <3>1. UNCHANGED <<target_pid_map, kin>>
      BY Zenon, <1>4, <2>2
      DEF Begin, ForkChild, Trap, StepChild, LibcMapped, InstallMain, InstallLibc, maps
    <3>2. kin = {}
      BY Zenon, <1>4
      DEF Begin, ForkChild, Trap, StepChild, LibcMapped, InstallMain, InstallLibc,
          ChildInv, Early
    <3> QED
      BY Zenon, <3>1, <3>2, TargetFrame
  <2> QED
    BY Zenon, <2>1, <2>2
<1>5. CASE AddLib \/ SkipLib \/ SetupCfi \/ Detach
  <2>1. UNCHANGED <<target_pid_map, kin, attached>>
    BY Zenon, <1>5 DEF AddLib, SkipLib, SetupCfi, Detach, maps
  <2> QED
    BY Zenon, <2>1, TargetFrame
<1>6. CASE TrackChild
  <2>1. CASE KillAndEnd
    BY Zenon, <1>3, <2>1
  <2>2. CASE ~KillAndEnd
    <3>1. target_pid_map' = {Child} /\ kin' \subseteq {Child}
      BY Zenon, <1>6, <2>2 DEF TrackChild, ChildInv
    <3>2. IsFiniteSet({Child}) /\ Cardinality({Child}) = 1
      BY Zenon, FS_Singleton
    <3>3. 1 <= MaxTargets
      BY EnforcerAssumption
    <3> QED
      BY Zenon, <3>1, <3>2, <3>3 DEF TargetInv, DescendantsTracked
  <2> QED
    BY Zenon, <2>1, <2>2
<1>7. CASE LoopTop \/ ReloadEntry \/ ReloadDone \/ Reap \/ ScanDone \/ WaitChild
           \/ sighup_handler
  <2>1. UNCHANGED <<attached, target_pid_map, kin>>
    BY Zenon, <1>7
    DEF LoopTop, ReloadEntry, ReloadDone, Reap, ScanDone, WaitChild, sighup_handler,
        Unchanged
  <2> QED
    BY Zenon, <2>1, TargetFrame
<1>8. CASE Hook \/ Leave
  <2>1. UNCHANGED <<attached, target_pid_map>> /\ kin' \subseteq kin
    BY Zenon, <1>8 DEF Hook, DeniedSyscall, HandleTerm, Leave, Exit, maps
  <2> QED
    BY Zenon, <2>1, TargetFrame
<1>9. CASE Spawn
  <2>1. CASE \E q \in Pids : Arrive(q) /\ UNCHANGED kin
    BY <2>1, TargetFrame DEF Arrive, maps
  <2>2. CASE \E p, q \in Pids : Fork(p, q)
                               /\ kin' = IF p \in kin THEN kin \cup {q} ELSE kin
    BY Zenon, <2>2, ForkTarget DEF Fork
  <2> QED
    BY Zenon, <1>9, <2>1, <2>2 DEF Spawn
<1>10. CASE DlOpen \/ Rebuild
  BY <1>10, TargetFrame DEF DlOpen, Rebuild, maps
<1> QED
  BY Zenon, <1>1, <1>3, <1>4, <1>5, <1>6, <1>7, <1>8, <1>9, <1>10 DEF Next, LoaderStep


-----------------------------------------------------------------------------
(* The modules.                                                            *)

\* The phases after the dlopen scanner was set up.
Late == Supervising \cup {"enrol", "detach", "dump"}

\* A step that registers nothing and claims no block, and finds no library that
\* is registered already.
LEMMA WatchFrame ==
  ASSUME WatchInv, UNCHANGED <<g_watched_libs, next_mod_id, vma_map, layout>>,
         \A l \in todo' : ~Tracked(l),
         phase' \in Early => phase \in Early,
         phase' \in Early \cup {"discover"} => phase \in Early \cup {"discover"},
         phase' \in Late => phase \in Late
  PROVE  WatchInv'
BY DEF WatchInv, ModulesAgree, Tracked, Start, Late

\* Claiming blocks for the binary and for libc.
LEMMA ClaimAgrees ==
  ASSUME ModulesAgree, UNCHANGED <<g_watched_libs, layout>>,
         \A b \in Blocks : \/ vma_map'[b] = vma_map[b]
                           \/ vma_map'[b].module_id \in {MODULE_MAIN, MODULE_LIBC}
  PROVE  ModulesAgree'
<1>1. ~(MODULE_MAIN >= MODULE_DYNAMIC_BASE) /\ ~(MODULE_LIBC >= MODULE_DYNAMIC_BASE)
  BY DEF MODULE_MAIN, MODULE_LIBC, MODULE_DYNAMIC_BASE
<1> QED
  BY <1>1 DEF ModulesAgree, Start

\* Registering a library under a fresh id together with its blocks.
LEMMA RegisterAgrees ==
  ASSUME TypeOK, ModulesAgree, NEW path \in Libs \cup {"main"}, NEW id \in ModuleIds,
         g_watched_libs' = Append(g_watched_libs, [path |-> path, id |-> id]),
         ~Tracked(path), \A i \in DOMAIN g_watched_libs : g_watched_libs[i].id # id,
         UNCHANGED layout,
         \A b \in Blocks :
           \/ vma_map'[b] = vma_map[b]
           \/ vma_map'[b] = [module_id |-> id, base_addr |-> Start(path)]
  PROVE  /\ ModulesAgree'
         /\ Len(g_watched_libs') = Len(g_watched_libs) + 1
         /\ DOMAIN g_watched_libs' = 1 .. Len(g_watched_libs) + 1
         /\ DOMAIN g_watched_libs = 1 .. Len(g_watched_libs)
         /\ g_watched_libs'[Len(g_watched_libs) + 1].path = path
         /\ g_watched_libs'[Len(g_watched_libs) + 1].id = id
         /\ \A i \in DOMAIN g_watched_libs : g_watched_libs'[i] = g_watched_libs[i]
<1> DEFINE n == Len(g_watched_libs)
           r == [path |-> path, id |-> id]
<1>1. r \in Watched /\ r.path = path /\ r.id = id
  BY Zenon DEF Watched
<1>2. g_watched_libs \in Seq(Watched)
  BY Zenon DEF TypeOK
<1> HIDE DEF r
<1>3. g_watched_libs' = Append(g_watched_libs, r)
  BY Zenon DEF r
<1>4. /\ n \in Nat /\ DOMAIN g_watched_libs = 1 .. n
      /\ DOMAIN g_watched_libs' = 1 .. n + 1 /\ Len(g_watched_libs') = n + 1
      /\ g_watched_libs'[n + 1] = r
      /\ \A i \in 1 .. n : g_watched_libs'[i] = g_watched_libs[i]
  BY <1>1, <1>2, <1>3
<1> HIDE DEF n
<1>5. ASSUME NEW i \in DOMAIN g_watched_libs', NEW j \in DOMAIN g_watched_libs', i # j
      PROVE  /\ g_watched_libs'[i].path # g_watched_libs'[j].path
             /\ g_watched_libs'[i].id # g_watched_libs'[j].id
  <2>1. CASE i \in 1 .. n /\ j \in 1 .. n
    <3>1. /\ g_watched_libs'[i] = g_watched_libs[i] /\ g_watched_libs'[j] = g_watched_libs[j]
          /\ i \in DOMAIN g_watched_libs /\ j \in DOMAIN g_watched_libs
      BY Zenon, <1>4, <2>1
    <3>2. /\ g_watched_libs[i].path # g_watched_libs[j].path
          /\ g_watched_libs[i].id # g_watched_libs[j].id
      BY Zenon, <1>5, <3>1 DEF ModulesAgree
    <3> QED
      BY <3>1, <3>2
  <2>2. CASE i = n + 1 /\ j \in 1 .. n
    BY Zenon, <1>1, <1>4, <2>2 DEF Tracked
  <2>3. CASE j = n + 1 /\ i \in 1 .. n
    BY Zenon, <1>1, <1>4, <2>3 DEF Tracked
  <2>4. \A k \in 1 .. n + 1 : k \in 1 .. n \/ k = n + 1
    BY <1>4
  <2> QED
    BY Zenon, <1>4, <1>5, <2>1, <2>2, <2>3, <2>4
<1>6. ASSUME NEW b \in Blocks, vma_map'[b] # None,
             vma_map'[b].module_id >= MODULE_DYNAMIC_BASE
      PROVE  \E i \in DOMAIN g_watched_libs' :
               /\ g_watched_libs'[i].id = vma_map'[b].module_id
               /\ layout'[g_watched_libs'[i].path].start = vma_map'[b].base_addr
  <2>1. CASE vma_map'[b] = vma_map[b]
    <3>1. PICK i \in DOMAIN g_watched_libs :
            /\ g_watched_libs[i].id = vma_map[b].module_id
            /\ Start(g_watched_libs[i].path) = vma_map[b].base_addr
      BY Zenon, <1>6, <2>1 DEF ModulesAgree
    <3>2. i \in DOMAIN g_watched_libs' /\ g_watched_libs'[i] = g_watched_libs[i]
      BY <1>4
    <3> QED
      BY Zenon, <2>1, <3>1, <3>2 DEF Start
  <2>2. CASE vma_map'[b] = [module_id |-> id, base_addr |-> Start(path)]
    <3>1. n + 1 \in DOMAIN g_watched_libs'
      BY <1>4
    <3>2. /\ g_watched_libs'[n + 1].id = id /\ g_watched_libs'[n + 1].path = path
          /\ vma_map'[b].module_id = id /\ vma_map'[b].base_addr = layout'[path].start
      BY <1>1, <1>4, <2>2 DEF Start
    <3> QED
      BY Zenon, <3>1, <3>2
  <2> QED
    BY Zenon, <2>1, <2>2
<1>7. ModulesAgree'
  BY Zenon, <1>5, <1>6 DEF ModulesAgree, Start
<1> QED
  BY Zenon, <1>1, <1>4, <1>7 DEF n

\* A library is registered while there is an id for it: the list has room.
LEMMA LibRoom ==
  ASSUME TypeOK, WatchInv, LibStep, next_mod_id < MaxModules
  PROVE  Len(g_watched_libs) < MaxWatched
<1>1. /\ Len(g_watched_libs) \in Nat /\ next_mod_id \in Nat
      /\ MaxModules \in Nat /\ MaxWatched \in Nat
      /\ MaxWatched >= MaxModules - MODULE_DYNAMIC_BASE + 1
  <2>1. g_watched_libs \in Seq(Watched) /\ next_mod_id \in MODULE_DYNAMIC_BASE .. MaxModules
    BY Zenon DEF TypeOK
  <2>2. Len(g_watched_libs) \in Nat
    BY <2>1
  <2>3. MaxModules \in Nat
    BY Zenon, EnforcerAssumption
  <2>4. next_mod_id \in Nat
    BY <2>1, <2>3 DEF MODULE_DYNAMIC_BASE
  <2> QED
    BY Zenon, <2>2, <2>3, <2>4, LoaderAssumption
<1>2. \/ next_mod_id = Len(g_watched_libs) + MODULE_DYNAMIC_BASE
      \/ next_mod_id = Len(g_watched_libs) + MODULE_DYNAMIC_BASE - 1
  BY Zenon DEF WatchInv, LibStep, Supervising
<1> QED
  BY <1>1, <1>2 DEF MODULE_DYNAMIC_BASE

\* One library.
LEMMA AddLibWatch ==
  ASSUME TypeOK, WatchInv, AddLib
  PROVE  WatchInv'
<1> DEFINE g == g_watched_libs
           n == Len(g_watched_libs)
           lib == NextLib
           id == next_mod_id
<1>1. /\ LibStep /\ id < MaxModules /\ todo # {}
      /\ id' = id + 1 /\ todo' = todo \ {lib} /\ UNCHANGED <<phase, layout>>
      /\ register_watched_lib(lib, id)
      /\ vma_map' = populate_vma(vma_map, {lib}, id, Start(lib))
  BY Zenon DEF AddLib, LibStep
<1>2. lib \in todo /\ lib \in Libs /\ ~Tracked(lib)
  BY Zenon, <1>1, NextLibIn DEF TypeOK, WatchInv
<1>3. id \in ModuleIds /\ id \in Nat /\ id >= 3
  <2>1. id \in MODULE_DYNAMIC_BASE .. MaxModules /\ id < MaxModules /\ MaxModules \in Nat
    BY Zenon, <1>1, EnforcerAssumption DEF TypeOK
  <2> QED
    BY <2>1 DEF ModuleIds, MODULE_DYNAMIC_BASE
<1>4. Start(lib) \in Address /\ vma_map \in VmaMap
  BY Zenon, <1>2, StartAddress DEF TypeOK, Objects, VmaMap
<1>5. \A b \in Blocks : \/ vma_map'[b] = vma_map[b]
                        \/ vma_map'[b] = [module_id |-> id, base_addr |-> Start(lib)]
  <2> DEFINE base == Start(lib)
             own == {lib}
  <2>1. vma_map' = populate_vma(vma_map, own, id, base)
    BY Zenon, <1>1
  <2>2. base \in Address /\ vma_map \in VmaMap /\ id \in ModuleIds
    BY Zenon, <1>3, <1>4
  <2> HIDE DEF id, base, own
  <2>3. GivenOrKept(vma_map, vma_map', id, base)
    BY Zenon, <2>1, <2>2, PopulatedBlocks
  <2> QED
    BY Zenon, <2>3 DEF GivenOrKept, base
<1>6. n < MaxWatched /\ n \in Nat /\ MaxWatched \in Nat
  BY <1>1, LibRoom, LoaderAssumption DEF TypeOK
<1>7. g' = Append(g, [path |-> lib, id |-> id])
  BY <1>1, <1>6 DEF register_watched_lib
<1>8. \A i \in DOMAIN g : g[i].id < id /\ (g[i].id = MODULE_MAIN <=> g[i].path = "main")
  BY Zenon DEF WatchInv
<1>9. \A i \in DOMAIN g : g[i] \in Watched /\ g[i].id \in Nat
  <2>1. \A i \in DOMAIN g : g[i] \in Watched
    BY DEF TypeOK
  <2> QED
    BY <2>1 DEF Watched, ModuleIds
<1>10. \A i \in DOMAIN g : g[i].id # id
  BY <1>3, <1>8, <1>9
<1> HIDE DEF lib, id
<1>11. ModulesAgree
  BY Zenon DEF WatchInv
<1>12. /\ ModulesAgree'
       /\ Len(g') = n + 1 /\ DOMAIN g' = 1 .. n + 1 /\ DOMAIN g = 1 .. n
       /\ g'[n + 1].path = lib /\ g'[n + 1].id = id
       /\ \A i \in DOMAIN g : g'[i] = g[i]
  BY Zenon, <1>1, <1>2, <1>3, <1>5, <1>7, <1>10, <1>11, RegisterAgrees
<1> HIDE DEF g, n
<1>13. ASSUME NEW i \in DOMAIN g'
       PROVE  /\ g'[i].id < id' /\ (g'[i].id = MODULE_MAIN <=> g'[i].path = "main")
              /\ g'[i].path = lib \/ \E j \in DOMAIN g : g[j].path = g'[i].path
  <2>1. CASE i = n + 1
    <3>1. lib # "main" /\ id # MODULE_MAIN
      BY <1>2, <1>3, LoaderAssumption DEF MODULE_MAIN
    <3> QED
      BY <1>1, <1>3, <1>12, <2>1, <3>1
  <2>2. CASE i \in DOMAIN g
    <3>1. g'[i] = g[i] /\ g[i].id < id /\ g[i].id \in Nat
      BY Zenon, <1>8, <1>9, <1>12, <2>2
    <3>2. g'[i].id < id'
      BY <1>1, <1>3, <3>1
    <3> QED
      BY Zenon, <1>8, <2>2, <3>1, <3>2
  <2> QED
    BY <1>6, <1>12, <2>1, <2>2
<1>14. \A l : Tracked(l)' => Tracked(l) \/ l = lib
  BY Zenon, <1>13 DEF Tracked, g
<1>15. \A l \in todo' : ~Tracked(l)'
  BY Zenon, <1>1, <1>14 DEF WatchInv
<1>16. phase \in {"discover", "scan"} /\ phase' = phase
  BY Zenon, <1>1 DEF LibStep
<1>17. phase = "discover" => ~Tracked("main")'
  BY Zenon, <1>2, <1>14, LoaderAssumption DEF WatchInv
<1>18. /\ phase' = "discover" => id' = Len(g') + MODULE_DYNAMIC_BASE
       /\ phase' # "discover" => id' = Len(g') + MODULE_DYNAMIC_BASE - 1
  BY <1>1, <1>3, <1>6, <1>12, <1>16
  DEF WatchInv, id, g, n, Supervising, MODULE_DYNAMIC_BASE
<1> QED
  BY Zenon, <1>12, <1>13, <1>15, <1>16, <1>17, <1>18 DEF WatchInv, id, g, Early, Supervising


\* Ending leaves the modules as they are.
LEMMA EndedWatch ==
  ASSUME WatchInv, NEW procs, Ended(procs)
  PROVE  WatchInv'
<1>1. UNCHANGED <<g_watched_libs, next_mod_id, vma_map, layout, todo>> /\ phase' = "ended"
  BY Zenon DEF Ended, loader, maps
<1> QED
  BY Zenon, <1>1, WatchFrame DEF Early, Late, Supervising, WatchInv

\* Filling the maps for the binary and for libc: no library has been
\* registered, so no block has a dynamic id.
LEMMA InstallWatch ==
  ASSUME TypeOK, WatchInv, InstallMain \/ InstallLibc
  PROVE  WatchInv'
<1> USE DEF MODULE_MAIN, MODULE_LIBC
<1>1. CASE CleanUp \/ KillAndEnd
  BY Zenon, <1>1, EndedWatch DEF CleanUp, KillAndEnd
<1>2. CASE ~CleanUp /\ ~KillAndEnd
  <2>1. /\ phase \in Early /\ phase' \in {"libc", "discover"}
        /\ UNCHANGED <<g_watched_libs, next_mod_id, layout>>
    BY Zenon, <1>2 DEF InstallMain, InstallLibc, Early
  <2>2. g_watched_libs = <<>> /\ \A l : ~Tracked(l)
    BY <2>1 DEF WatchInv, Tracked
  <2>3. vma_map \in VmaMap /\ libc_base \in Address /\ {1, 2} \subseteq ModuleIds
    BY Zenon, FixedIds DEF TypeOK, VmaMap
  <2>4. ASSUME NEW b \in Blocks
        PROVE  vma_map'[b] = vma_map[b] \/ vma_map'[b].module_id \in {MODULE_MAIN, MODULE_LIBC}
    <3>1. CASE InstallMain
      <4> DEFINE main == IF "main" \in mapped
                         THEN populate_vma(vma_map, {"main"}, MODULE_MAIN, Start("main"))
                         ELSE vma_map
      <4>1. /\ main \in VmaMap
            /\ \/ main[b] = vma_map[b]
               \/ main[b] = [module_id |-> MODULE_MAIN, base_addr |-> Start("main")]
        BY <2>3, Populated, StartAddress DEF Objects
      <4> HIDE DEF main
      <4>2. "libc" \in mapped => LowestBase(LibcLike) \in Address
        BY Zenon, LibcBase
      <4>3. /\ vma_map' = IF "libc" \in mapped
                          THEN populate_vma(main, LibcLike, MODULE_LIBC, LowestBase(LibcLike))
                          ELSE main
        BY Zenon, <1>2, <3>1 DEF InstallMain, Vmas, main
      <4>4. "libc" \in mapped => GivenOrKept(main, vma_map', 2, LowestBase(LibcLike))
        BY Zenon, <2>3, <4>1, <4>2, <4>3, PopulatedBlocks
      <4>5. \/ vma_map'[b] = main[b]
            \/ vma_map'[b] = [module_id |-> MODULE_LIBC, base_addr |-> LowestBase(LibcLike)]
        BY Zenon, <4>3, <4>4 DEF GivenOrKept
      <4> QED
        BY <4>1, <4>5
    <3>2. CASE InstallLibc
      <4>1. vma_map' = vma_map \/ vma_map' = populate_vma(vma_map, {"ld"}, MODULE_LIBC, libc_base)
        BY Zenon, <1>2, <3>2 DEF InstallLibc
      <4>2. GivenOrKept(vma_map, populate_vma(vma_map, {"ld"}, 2, libc_base), 2, libc_base)
        BY Zenon, <2>3, PopulatedBlocks
      <4>3. \/ vma_map'[b] = vma_map[b]
            \/ vma_map'[b] = [module_id |-> MODULE_LIBC, base_addr |-> libc_base]
        BY Zenon, <4>1, <4>2 DEF GivenOrKept
      <4> QED
        BY <4>3
    <3> QED
      BY Zenon, <3>1, <3>2
  <2>5. ModulesAgree'
    BY Zenon, <2>1, <2>4, ClaimAgrees DEF WatchInv
  <2>6. \A l : ~Tracked(l)'
    BY Zenon, <2>1, <2>2 DEF Tracked
  <2>7. next_mod_id = Len(g_watched_libs) + MODULE_DYNAMIC_BASE
    BY Zenon, <2>1 DEF WatchInv
  <2> QED
    BY Zenon, <2>1, <2>2, <2>5, <2>6, <2>7 DEF WatchInv, Early, Supervising
<1> QED
  BY Zenon, <1>1, <1>2


\* The scanner's first id is the one after the last of the discovery, and the
\* binary is registered under its own, which no library has.
LEMMA SetupWatch ==
  ASSUME TypeOK, WatchInv, SetupCfi
  PROVE  WatchInv'
<1> DEFINE g == g_watched_libs
           n == Len(g_watched_libs)
           id == next_mod_id
<1>1. /\ phase = "discover" /\ phase' = "enrol" /\ todo = {} /\ todo' = {}
      /\ id' = MODULE_DYNAMIC_BASE + n /\ register_watched_lib("main", MODULE_MAIN)
      /\ UNCHANGED <<vma_map, layout>>
  BY Zenon DEF SetupCfi, dlopen_next_mod_id
<1>2. ~Tracked("main") /\ id = n + MODULE_DYNAMIC_BASE /\ ModulesAgree
  BY Zenon, <1>1 DEF WatchInv
<1>3. /\ n \in Nat /\ MaxWatched \in Nat /\ n < MaxWatched /\ MODULE_MAIN \in ModuleIds
      /\ id' = id /\ id > MODULE_MAIN
  <2>1. id <= MaxModules /\ MaxModules \in Nat /\ id \in Nat
    <3>1. id \in MODULE_DYNAMIC_BASE .. MaxModules /\ MaxModules \in Nat
      BY Zenon, EnforcerAssumption DEF TypeOK
    <3> QED
      BY <3>1 DEF MODULE_DYNAMIC_BASE
  <2>2. MaxWatched \in Nat /\ MaxWatched >= MaxModules - MODULE_DYNAMIC_BASE + 1
    BY Zenon, LoaderAssumption
  <2>3. n \in Nat
    <3>1. g \in Seq(Watched)
      BY Zenon DEF TypeOK
    <3> QED
      BY <3>1
  <2>4. MODULE_MAIN \in ModuleIds
    BY Zenon, FixedIds DEF MODULE_MAIN
  <2> QED
    BY <1>1, <1>2, <2>1, <2>2, <2>3, <2>4 DEF MODULE_DYNAMIC_BASE, MODULE_MAIN
<1>4. g' = Append(g, [path |-> "main", id |-> MODULE_MAIN])
  BY <1>1, <1>3 DEF register_watched_lib
<1>5. \A i \in DOMAIN g : g[i].id < id /\ g[i].id # MODULE_MAIN /\ g[i].path # "main"
  BY Zenon, <1>2 DEF WatchInv, Tracked
<1>6. /\ ModulesAgree'
      /\ Len(g') = n + 1 /\ DOMAIN g' = 1 .. n + 1 /\ DOMAIN g = 1 .. n
      /\ g'[n + 1].path = "main" /\ g'[n + 1].id = MODULE_MAIN
      /\ \A i \in DOMAIN g : g'[i] = g[i]
  BY Zenon, <1>1, <1>2, <1>3, <1>4, <1>5, RegisterAgrees
<1> HIDE DEF g, n, id
<1>7. ASSUME NEW i \in DOMAIN g'
      PROVE  g'[i].id < id' /\ (g'[i].id = MODULE_MAIN <=> g'[i].path = "main")
  <2>1. CASE i = n + 1
    BY Zenon, <1>3, <1>6, <2>1
  <2>2. CASE i \in DOMAIN g
    BY Zenon, <1>3, <1>5, <1>6, <2>2
  <2> QED
    BY <1>3, <1>6, <2>1, <2>2
<1>8. id' = Len(g') + MODULE_DYNAMIC_BASE - 1
  BY <1>1, <1>3, <1>6 DEF MODULE_DYNAMIC_BASE
<1> QED
  BY Zenon, <1>1, <1>6, <1>7, <1>8 DEF WatchInv, Early, Supervising, g, id

\* Registered libraries, ids and blocks agree after every step.
LEMMA WatchStep ==
  ASSUME TypeOK, WatchInv, [Next]_vars
  PROVE  WatchInv'
<1> USE DEF Early, Late, Supervising
<1>1. CASE UNCHANGED vars
  BY Zenon, <1>1, WatchFrame DEF vars, loader, maps, WatchInv
<1>2. CASE signal_handler \/ LoaderDies \/ Dump \/ CleanUp \/ KillAndEnd
  BY Zenon, <1>2, EndedWatch DEF signal_handler, LoaderDies, Dump, CleanUp, KillAndEnd
<1>3. CASE Begin \/ ForkChild \/ Trap \/ StepChild \/ LibcMapped
  <2>1. CASE CleanUp \/ KillAndEnd
    BY Zenon, <1>2, <2>1
  <2>2. CASE ~(CleanUp \/ KillAndEnd)
    <3>1. /\ UNCHANGED <<g_watched_libs, next_mod_id, vma_map, layout, todo>>
          /\ phase \in Early /\ phase' \in Early
      BY Zenon, <1>3, <2>2 DEF Begin, ForkChild, Trap, StepChild, LibcMapped, loader, maps
    <3> QED
      BY Zenon, <3>1, WatchFrame DEF WatchInv
  <2> QED
    BY Zenon, <2>1, <2>2
<1>4. CASE InstallMain \/ InstallLibc
  BY Zenon, <1>4, InstallWatch
<1>5. CASE AddLib
  BY Zenon, <1>5, AddLibWatch
<1>6. CASE SetupCfi
  BY Zenon, <1>6, SetupWatch
<1>7. CASE SkipLib \/ Detach \/ DlOpen \/ Rebuild
  <2>1. /\ UNCHANGED <<g_watched_libs, next_mod_id, vma_map, layout>>
        /\ todo' \subseteq todo /\ (phase' \in Early => phase \in Early)
        /\ phase' = "discover" => phase = "discover"
        /\ phase' \in Late => phase \in Late
    BY Zenon, <1>7 DEF SkipLib, Detach, DlOpen, Rebuild, loader, maps
  <2> QED
    BY Zenon, <2>1, WatchFrame DEF WatchInv
<1>8. CASE TrackChild
  <2>1. CASE KillAndEnd
    BY Zenon, <1>2, <2>1
  <2>2. CASE ~KillAndEnd
    BY Zenon, <1>8, <2>2, WatchFrame DEF TrackChild, loader, WatchInv
  <2> QED
    BY Zenon, <2>1, <2>2
<1>9. CASE LoopTop \/ ReloadEntry \/ ReloadDone \/ ScanDone \/ WaitChild \/ sighup_handler
  <2>1. /\ UNCHANGED <<g_watched_libs, next_mod_id, vma_map, layout, todo>>
        /\ phase' \in Early => phase \in Early
        /\ phase' = "discover" => phase = "discover"
        /\ phase' \in Late => phase \in Late
    BY Zenon, <1>9 DEF LoopTop, ReloadEntry, ReloadDone, ScanDone, WaitChild, sighup_handler,
                Unchanged
  <2> QED
    BY Zenon, <2>1, WatchFrame DEF WatchInv
<1>10. CASE Reap
  <2>1. /\ UNCHANGED <<g_watched_libs, next_mod_id, vma_map, layout>>
        /\ phase = "reap" /\ phase' \in {"dump", "scan", "loop"}
        /\ todo' = todo \/ todo' = NewLibs
    BY Zenon, <1>10 DEF Reap, Unchanged
  <2>2. \A l \in todo' : ~Tracked(l)
    BY Zenon, <2>1 DEF NewLibs, WatchInv
  <2> QED
    BY Zenon, <2>1, <2>2, WatchFrame
<1>11. CASE Hook \/ Spawn \/ Leave
  <2>1. UNCHANGED <<g_watched_libs, next_mod_id, vma_map, layout, todo, phase>>
    BY Zenon, <1>11 DEF Hook, Spawn, Leave, loaderState, loader, DeniedSyscall, HandleTerm, Fork,
                 Arrive, Exit, maps
  <2> QED
    BY Zenon, <2>1, WatchFrame DEF WatchInv
<1> QED
  BY <1>1, <1>2, <1>3, <1>4, <1>5, <1>6, <1>7, <1>8, <1>9, <1>10, <1>11
  DEF Next, LoaderStep


-----------------------------------------------------------------------------
(* The theorems.                                                           *)

LEMMA InitInv == Init => IInv
<1> SUFFICES ASSUME Init PROVE IInv
  BY Zenon
<1>1. TypeOK
  <2>1. section \in Policy /\ EmptyPolicy \in Policy
    <3>1. Builds \in Seq(Policy) /\ Builds # <<>> /\ section = Builds[1]
      BY Zenon, LoaderAssumption DEF Init
    <3>2. section \in Policy
      BY <3>1
    <3> QED
      BY Zenon, <3>2 DEF EmptyPolicy, Policy
  <2>2. g_watched_libs \in Seq(Watched) /\ Len(g_watched_libs) = 0
    BY DEF Init
  <2>3. next_mod_id \in MODULE_DYNAMIC_BASE .. MaxModules /\ 0 <= MaxWatched
    <3>1. /\ next_mod_id = MODULE_DYNAMIC_BASE /\ MaxWatched \in Nat
          /\ MaxModules \in Nat /\ MaxModules > 3
      BY Zenon, EnforcerAssumption, LoaderAssumption DEF Init
    <3> QED
      BY <3>1 DEF MODULE_DYNAMIC_BASE
  <2>4. libc_base \in Address
    BY Zenon, AddressNat, EnforcerAssumption DEF Init, Address
  <2>5. /\ vma_map \in [Blocks -> VmaValue \cup {None}]
        /\ policy_registry \in [ModuleIds -> Policy \cup {None}]
        /\ fallback_policy \subseteq Nrs /\ cgroup_map \in BOOLEAN
        /\ attached \in BOOLEAN /\ target_pid_map \subseteq Pids
        /\ signal \in [Pids -> {"none", "kill", "term"}]
    BY Zenon DEF Init, EnforcerInit
  <2>6. proc \in [Pids -> {"free", "stopped", "running", "zombie"}]
    BY Zenon DEF Init
  <2> QED
    BY Zenon, <2>1, <2>2, <2>3, <2>4, <2>5, <2>6 DEF Init, TypeOK, Early
<1>2. ChildInv
  BY Zenon DEF Init, EnforcerInit, ChildInv, Supervising
<1>3. PolicyInv
  BY Zenon DEF Init, PolicyInv, Supervising
<1>4. TargetInv
  <2>1. 0 <= MaxTargets
    <3>1. MaxTargets \in Nat
      BY Zenon, EnforcerAssumption
    <3> QED
      BY <3>1
  <2> QED
    BY Zenon, <2>1, FS_EmptySet DEF Init, EnforcerInit, TargetInv, DescendantsTracked
<1>5. WatchInv
  <2>1. g_watched_libs = <<>> /\ DOMAIN g_watched_libs = {} /\ Len(g_watched_libs) = 0
    BY DEF Init
  <2>2. \A b \in Blocks : vma_map[b] = None
    BY Zenon DEF Init, EnforcerInit
  <2>3. next_mod_id = Len(g_watched_libs) + MODULE_DYNAMIC_BASE
    <3>1. next_mod_id = MODULE_DYNAMIC_BASE
      BY Zenon DEF Init
    <3> QED
      BY <2>1, <3>1 DEF MODULE_DYNAMIC_BASE
  <2> QED
    BY Zenon, <2>1, <2>2, <2>3 DEF Init, WatchInv, ModulesAgree, Tracked, Supervising
<1> QED
  BY Zenon, <1>1, <1>2, <1>3, <1>4, <1>5 DEF IInv

\* The invariant is inductive: every step of the loader, of its child and of the
\* enforcer preserves it.
THEOREM Inductive == Spec => []IInv
<1>1. Init => IInv
  BY Zenon, InitInv
<1>2. IInv /\ [Next]_vars => IInv'
  BY Zenon, TypeStep, ChildStep, PolicyStep, TargetStep, WatchStep DEF IInv
<1> QED
  BY <1>1, <1>2, PTL DEF Spec

\* main: the loader's variables, the maps and the processes keep their types
\* whatever step fails; no module id and no watched library is out of bounds.
THEOREM LoaderTypeCorrect == Spec => []TypeOK
<1>1. IInv => TypeOK
  BY Zenon DEF IInv
<1> QED
  BY <1>1, Inductive, PTL

\* main, the failure paths and the hot reload: the exec'd child never runs under
\* attached programs without being enrolled and without an entry for every site
\* of its policy.
THEOREM FreedIsEnforcedAlways == Spec => []FreedIsEnforced
<1>1. IInv => FreedIsEnforced
  <2> SUFFICES ASSUME IInv, attached, Forked, phase # "trap", ~reaped,
                      proc[Child] = "running"
               PROVE  /\ Child \in target_pid_map
                      /\ policy_registry[MODULE_MAIN] # None
                      /\ \A v \in Address : installed[v] # None => Listed(v)
    BY Zenon DEF FreedIsEnforced, Listed
  <2>1. phase \in Supervising \cup {"dump"}
    BY Zenon DEF IInv, TypeOK, ChildInv, Forked, Early, Supervising
  <2>2. Child \in target_pid_map
    BY Zenon, <2>1 DEF IInv, ChildInv
  <2>3. /\ policy_registry[MODULE_MAIN] \in Policy
        /\ \A v \in Address : installed[v] # None => Listed(v)
    BY Zenon, <2>1 DEF IInv, PolicyInv
  <2>4. None \notin Policy
    <3>1. Rules \cup {None} = Nrs \cup {AnyNr, None}
      BY Zenon DEF Rules
    <3> QED
      BY Zenon, <3>1, EnforcerAssumption DEF Policy
  <2> QED
    BY Zenon, <2>2, <2>3, <2>4
<1> QED
  BY <1>1, Inductive, PTL

\* Start-up discovery, dlopen scans and register_watched_lib: module ids, the
\* blocks of the trie and the registered libraries agree, for any number of
\* libraries and scans.
THEOREM ModulesAgreeAlways == Spec => []ModulesAgree
<1>1. IInv => ModulesAgree
  BY Zenon DEF IInv, WatchInv
<1> QED
  BY <1>1, Inductive, PTL

\* sentinel_fork_track: every live descendant of the enrolled child is enrolled
\* while the programs are attached, unless the PID map is full.
THEOREM DescendantsTrackedAlways == Spec => []DescendantsTracked
<1>1. IInv => DescendantsTracked
  BY Zenon DEF IInv, TargetInv
<1> QED
  BY <1>1, Inductive, PTL



-----------------------------------------------------------------------------
(* The loader's arithmetic and the enforcer's.                             *)

\* Sums and differences of addresses wrap, and undo each other.
LEMMA Wraps ==
  ASSUME NEW a \in Address, NEW b \in Address
  PROVE  /\ Minus(a, b) \in Address /\ Plus(a, b) \in Address
         /\ Minus(Plus(a, b), a) = b
         /\ Plus(b, Minus(a, b)) = a
<1>1. /\ AddrSpace \in Nat \ {0} /\ a \in Nat /\ a < AddrSpace
      /\ b \in Nat /\ b < AddrSpace
  BY EnforcerAssumption DEF Address
<1>2. Plus(a, b) = IF a + b < AddrSpace THEN a + b ELSE a + b - AddrSpace
  BY <1>1 DEF Plus
<1>3. Minus(a, b) = IF b <= a THEN a - b ELSE a - b + AddrSpace
  BY <1>1 DEF Minus
<1>4. Minus(a, b) \in Address /\ Plus(a, b) \in Address
  BY <1>1, <1>2, <1>3 DEF Address
<1>5. Minus(Plus(a, b), a) = b
  <2>1. CASE a + b < AddrSpace
    BY <1>1, <1>2, <2>1 DEF Minus
  <2>2. CASE ~(a + b < AddrSpace)
    <3>1. Minus(Plus(a, b), a) = (b - AddrSpace) % AddrSpace
      BY <1>1, <1>2, <2>2 DEF Minus
    <3> QED
      BY <1>1, <3>1
  <2> QED
    BY Zenon, <2>1, <2>2
<1>6. Plus(b, Minus(a, b)) = a
  <2>1. CASE b <= a
    BY <1>1, <1>3, <2>1 DEF Plus
  <2>2. CASE ~(b <= a)
    <3>1. Plus(b, Minus(a, b)) = (a + AddrSpace) % AddrSpace
      BY <1>1, <1>3, <2>2 DEF Plus
    <3> QED
      BY <1>1, <3>1
  <2> QED
    BY Zenon, <2>1, <2>2
<1> QED
  BY Zenon, <1>4, <1>5, <1>6

\* Two addresses of .sentinel have different offsets.
LEMMA OffsetsDiffer ==
  \A v, w \in Address : Minus(v, LoadBase) = Minus(w, LoadBase) => v = w
BY Zenon, Offsets

\* Blocks are numbered in the order of their addresses.
LEMMA BlockOrder ==
  \A a, b \in Nat : a <= b => Block(a) \in Nat /\ Block(b) \in Nat /\ Block(a) <= Block(b)
<1> SUFFICES ASSUME NEW a \in Nat, NEW b \in Nat, a <= b
             PROVE  Block(a) \in Nat /\ Block(b) \in Nat /\ Block(a) <= Block(b)
  BY Zenon
<1>1. BlockSize \in Nat \ {0}
  BY Zenon, EnforcerAssumption
<1>2. a \div BlockSize \in Nat /\ b \div BlockSize \in Nat
  BY <1>1
<1>3. a \div BlockSize <= b \div BlockSize
  BY <1>1
<1> QED
  BY Zenon, <1>2, <1>3 DEF Block

\* Where an object lies.
LEMMA ObjectPlace ==
  ASSUME TypeOK, NEW o \in Objects
  PROVE  /\ Start(o) \in Nat /\ layout[o].size \in Nat /\ End(o) \in Int
         /\ End(o) = Start(o) + layout[o].size - 1
         /\ Start(o) + layout[o].size <= AddrSpace
         /\ Start(o) .. End(o) \subseteq Address
<1>1. layout \in Layouts
  BY Zenon DEF TypeOK
<1>2. /\ Start(o) \in Nat /\ layout[o].size \in Nat
      /\ Start(o) + layout[o].size <= AddrSpace
  BY Zenon, <1>1, StartAddress, AddressNat, ObjectAssumption DEF Start
<1>3. End(o) = Start(o) + layout[o].size - 1
  BY Zenon DEF End
<1>4. AddrSpace \in Nat
  BY Zenon, EnforcerAssumption
<1>5. End(o) \in Int /\ Start(o) .. End(o) \subseteq Address
  BY <1>2, <1>3, <1>4 DEF Address
<1> QED
  BY Zenon, <1>2, <1>3, <1>5

LEMMA OffsetIn ==
  ASSUME TypeOK, NEW o \in Objects, NEW off \in 0 .. layout[o].size - 1
  PROVE  off \in Address /\ off < layout[o].size
<1>1. /\ layout[o].size \in Nat /\ Start(o) \in Nat /\ AddrSpace \in Nat
      /\ Start(o) + layout[o].size <= AddrSpace
  BY Zenon, ObjectPlace, EnforcerAssumption
<1>2. \A n, x, y \in Nat : \A i \in 0 .. n - 1 :
        x + n <= y => i \in 0 .. y - 1 /\ i < n
  OBVIOUS
<1> QED
  BY Zenon, <1>1, <1>2 DEF Address

\* An offset within an object leads to an address of the object.
LEMMA SiteIn ==
  ASSUME TypeOK, NEW o \in Objects, NEW off \in Address, off < layout[o].size
  PROVE  Plus(Start(o), off) \in Start(o) .. End(o)
<1>1. /\ Start(o) \in Nat /\ layout[o].size \in Nat
      /\ End(o) = Start(o) + layout[o].size - 1
      /\ Start(o) + layout[o].size <= AddrSpace
  BY Zenon, ObjectPlace
<1>2. off \in Nat /\ AddrSpace \in Nat \ {0}
  BY Zenon, AddressNat, EnforcerAssumption
<1>3. \A x, y, n \in Nat : y < n /\ x + n <= AddrSpace =>
        (x + y) % AddrSpace = x + y /\ x + y \in x .. (x + n - 1)
  BY <1>2
<1>4. /\ (Start(o) + off) % AddrSpace = Start(o) + off
      /\ Start(o) + off \in Start(o) .. (Start(o) + layout[o].size - 1)
  BY Zenon, <1>1, <1>2, <1>3
<1> QED
  BY Zenon, <1>1, <1>4 DEF Plus

\* The block of an address of an object is one the object claims.
LEMMA BlockIn ==
  ASSUME TypeOK, NEW o \in Objects, NEW a \in Start(o) .. End(o)
  PROVE  Block(a) \in Blocks /\ Block(a) \in Claimed(o)
<1>1. Start(o) \in Nat /\ End(o) \in Int /\ a \in Address
  BY Zenon, ObjectPlace
<1>2. a \in Nat /\ End(o) \in Nat /\ Start(o) <= a /\ a <= End(o)
  BY <1>1 DEF Address
<1>3. /\ Block(a) \in Nat /\ Block(Start(o)) \in Nat /\ Block(End(o)) \in Nat
      /\ Block(Start(o)) <= Block(a) /\ Block(a) <= Block(End(o))
  BY Zenon, <1>1, <1>2, BlockOrder
<1>4. Block(a) \in Block(Start(o)) .. Block(End(o))
  BY <1>3
<1> QED
  BY Zenon, <1>1, <1>4 DEF Blocks, Claimed

\* The only member of a set is its least and its greatest.
LEMMA MinMaxOne ==
  \A x \in Int : Min({x}) = x /\ Max({x}) = x
<1> SUFFICES ASSUME NEW x \in Int PROVE Min({x}) = x /\ Max({x}) = x
  BY Zenon
<1>1. x <= x /\ x >= x
  OBVIOUS
<1>2. \E i \in {x} : \A j \in {x} : i <= j
  BY Zenon, <1>1
<1>3. \E i \in {x} : \A j \in {x} : i >= j
  BY Zenon, <1>1
<1> QED
  BY Zenon, <1>2, <1>3 DEF Min, Max

\* What populate_vma_for_module stores for a block.
Given(id, base) == [module_id |-> id, base_addr |-> base]

\* o is the only mapped object among O.
Sole(O, o) == O \cap mapped = {o}

\* The trie new is vma with the blocks of o given to a module.
Updated(vma, new, o, id, base) ==
  \A b \in Blocks : new[b] = IF b \in Claimed(o) THEN Given(id, base) ELSE vma[b]

\* populate_vma_for_module for one mapping: exactly the blocks it claims.
LEMMA PopulatedOne ==
  ASSUME TypeOK, NEW vma, NEW O, NEW o \in Objects, Sole(O, o),
         NEW id, NEW base
  PROVE  Updated(vma, populate_vma(vma, O, id, base), o, id, base)
<1>1. Start(o) \in Nat /\ End(o) \in Int
  BY Zenon, ObjectPlace
<1>2. {Start(x) : x \in O \cap mapped} = {Start(o)} /\ {End(x) : x \in O \cap mapped} = {End(o)}
  BY Zenon DEF Sole
<1>3. Start(o) \in Int
  BY <1>1
<1>4. /\ Min({Start(x) : x \in O \cap mapped}) = Start(o)
      /\ Max({End(x) : x \in O \cap mapped}) = End(o)
  BY Zenon, <1>1, <1>2, <1>3, MinMaxOne
<1>5. O \cap mapped # {}
  BY Zenon DEF Sole
<1>6. populate_vma(vma, O, id, base)
        = [b \in Blocks |->
             IF Block(Min({Start(x) : x \in O \cap mapped})) <= b
                /\ b <= Block(Max({End(x) : x \in O \cap mapped}))
             THEN Given(id, base) ELSE vma[b]]
  BY Zenon, <1>5 DEF populate_vma, Given
<1>7. ASSUME NEW b \in Blocks
      PROVE  populate_vma(vma, O, id, base)[b]
               = IF Block(Start(o)) <= b /\ b <= Block(End(o))
                 THEN Given(id, base) ELSE vma[b]
  BY Zenon, <1>4, <1>6
<1>8. ASSUME NEW b \in Blocks
      PROVE  b \in Claimed(o) <=> Block(Start(o)) <= b /\ b <= Block(End(o))
  <2>1. b \in Int /\ Block(Start(o)) \in Int /\ Block(End(o)) \in Int
    BY <1>1, EnforcerAssumption DEF Blocks, Block, Address
  <2>2. b \in Block(Start(o)) .. Block(End(o)) <=> Block(Start(o)) <= b /\ b <= Block(End(o))
    BY <2>1
  <2> QED
    BY Zenon, <2>2 DEF Claimed
<1> QED
  BY Zenon, <1>7, <1>8 DEF Updated

-----------------------------------------------------------------------------
(* The rules of the binary, entry by entry.                                *)

\* A step that leaves the policy of the binary alone and neither starts nor
\* completes a reload.
LEMMA RulesFrame ==
  ASSUME RulesInv, UNCHANGED <<layout, section, parsed, pending, installed>>,
         policy_registry'[MODULE_MAIN] = policy_registry[MODULE_MAIN],
         phase' \in Filled => phase \in Filled /\ (phase' = "reload" <=> phase = "reload")
  PROVE  RulesInv'
<1>1. InMain(section)' /\ InMain(parsed)' /\ InMain(installed)'
  BY Zenon DEF RulesInv, InMain
<1>2. ASSUME phase' \in Filled, NEW v \in Address
      PROVE  /\ /\ installed'[v] # None
                /\ phase' = "reload" => v \in pending' \/ parsed'[v] = None
                => Rule(v)' = installed'[v]
             /\ phase' = "reload" /\ v \notin pending' /\ parsed'[v] # None
                  => Rule(v)' = parsed'[v]
  <2>1. Rule(v)' = Rule(v)
    BY Zenon DEF Rule
  <2> QED
    BY Zenon, <1>2, <2>1 DEF RulesInv
<1> QED
  BY Zenon, <1>1, <1>2 DEF RulesInv

\* Before the policy is stored, and after the loader ended.
LEMMA UnfilledRules ==
  ASSUME RulesInv, UNCHANGED <<layout, section, installed>>,
         parsed' \in {parsed, section}, phase' \notin Filled
  PROVE  RulesInv'
BY Zenon DEF RulesInv, InMain

\* The first installation stores every entry under its offset.
LEMMA InstallRules ==
  ASSUME TypeOK, RulesInv, InstallMain, ~(CleanUp \/ KillAndEnd)
  PROVE  RulesInv'
<1>1. /\ UNCHANGED <<layout, section, parsed>> /\ installed' = parsed /\ phase' = "libc"
      /\ policy_registry'[MODULE_MAIN] = MainPolicy(parsed)
  BY Zenon, FixedIds DEF InstallMain, TypeOK
<1>2. InMain(section)' /\ InMain(parsed)' /\ InMain(installed)'
  BY Zenon, <1>1 DEF RulesInv, InMain
<1>3. ASSUME NEW v \in Address PROVE Rule(v)' = parsed[v]
  <2>1. MainPolicy(parsed)[Minus(v, LoadBase)] = parsed[v]
    BY Zenon, Offsets DEF MainPolicy
  <2> QED
    BY Zenon, <1>1, <2>1 DEF Rule
<1> QED
  BY Zenon, <1>1, <1>2, <1>3 DEF RulesInv

\* A hot reload replaces the rules one by one, each by that of the new policy.
LEMMA ReloadRules ==
  ASSUME TypeOK, PolicyInv, RulesInv, LoopTop \/ ReloadEntry \/ ReloadDone
  PROVE  RulesInv'
<1>1. phase \in Filled /\ phase' \in Filled /\ UNCHANGED <<layout, section>>
  BY Zenon DEF LoopTop, ReloadEntry, ReloadDone, Filled, Supervising, Unchanged
<1>2. InMain(section)' /\ InMain(parsed)' /\ InMain(installed)'
  <2>1. parsed' \in {parsed, section} /\ installed' \in {installed, parsed}
    BY Zenon DEF LoopTop, ReloadEntry, ReloadDone, Unchanged
  <2> QED
    BY Zenon, <1>1, <2>1 DEF RulesInv, InMain
<1>3. CASE LoopTop
  <2>1. UNCHANGED <<policy_registry, installed>> /\ phase = "loop"
    BY Zenon, <1>3 DEF LoopTop, Unchanged
  <2>2. phase' = "reload" => pending' = {v \in Address : section[v] # None}
                             /\ parsed' = section
    BY Zenon, <1>3 DEF LoopTop
  <2>3. \A v \in Address : Rule(v)' = Rule(v)
    BY Zenon, <2>1 DEF Rule
  <2>4. \A v \in Address : installed[v] # None => Rule(v) = installed[v]
    BY Zenon, <1>1, <2>1 DEF RulesInv
  <2> QED
    BY Zenon, <1>2, <2>1, <2>2, <2>3, <2>4 DEF RulesInv
<1>4. CASE ReloadEntry
  <2> DEFINE w == Min(pending)
             old == policy_registry[MODULE_MAIN]
             new == policy_registry'[MODULE_MAIN]
  <2>1. /\ phase = "reload" /\ phase' = "reload"
        /\ pending' = pending \ {w} /\ UNCHANGED <<parsed, installed>>
    BY Zenon, <1>4 DEF ReloadEntry, Unchanged
  <2>2. w \in pending /\ w \in Address
    BY Zenon, <1>4, AddressNat, MinIn DEF ReloadEntry, TypeOK
  <2>3. old \in Policy /\ parsed[w] # None
    BY Zenon, <1>1, <2>1, <2>2 DEF PolicyInv, Filled
  <2>4. new = [old EXCEPT ![Minus(w, LoadBase)] = parsed[w]]
    BY Zenon, <1>4, FixedIds DEF ReloadEntry, TypeOK
  <2>5. \A v \in Address : Rule(v) = old[Minus(v, LoadBase)]
                           /\ Rule(v)' = new[Minus(v, LoadBase)]
    BY Zenon DEF Rule
  <2> HIDE DEF w, old, new
  <2>6. DOMAIN old = Address
    BY Zenon, <2>3 DEF Policy
  <2>7. new[Minus(w, LoadBase)] = parsed[w]
    BY Zenon, <2>2, <2>4, <2>6, Offsets
  <2>8. ASSUME NEW v \in Address, v # w PROVE Rule(v)' = Rule(v)
    <3>1. Minus(v, LoadBase) # Minus(w, LoadBase)
      BY Zenon, <2>2, <2>8, OffsetsDiffer
    <3> QED
      BY Zenon, <2>4, <2>5, <2>6, <3>1, Offsets
  <2>9. ASSUME NEW v \in Address
        PROVE  /\ installed'[v] # None /\ (v \in pending' \/ parsed'[v] = None)
                    => Rule(v)' = installed'[v]
               /\ v \notin pending' /\ parsed'[v] # None => Rule(v)' = parsed'[v]
    <3>1. CASE v = w
      BY Zenon, <2>1, <2>2, <2>3, <2>5, <2>7, <3>1
    <3>2. CASE v # w
      BY Zenon, <1>1, <2>1, <2>8, <3>2 DEF RulesInv
    <3> QED
      BY Zenon, <3>1, <3>2
  <2> QED
    BY Zenon, <1>2, <2>1, <2>9 DEF RulesInv
<1>5. CASE ReloadDone
  <2>1. /\ phase = "reload" /\ phase' = "reap" /\ pending = {}
        /\ installed' = parsed /\ UNCHANGED policy_registry
    BY Zenon, <1>5 DEF ReloadDone, Unchanged
  <2>2. \A v \in Address : parsed[v] # None => Rule(v)' = parsed[v]
    BY Zenon, <1>1, <2>1 DEF RulesInv, Rule
  <2> QED
    BY Zenon, <1>2, <2>1, <2>2 DEF RulesInv
<1> QED
  BY Zenon, <1>3, <1>4, <1>5

\* A rebuilt binary lists sites of the mapped one.
LEMMA RebuildRules ==
  ASSUME TypeOK, RulesInv, Rebuild
  PROVE  RulesInv'
<1>1. /\ UNCHANGED <<layout, phase, parsed, pending, installed, policy_registry>>
      /\ layout \in Layouts
  BY Zenon DEF Rebuild, maps, TypeOK
<1>2. PICK i \in 1 .. Len(Builds) - 1 : section' = Builds[i + 1]
  BY Zenon DEF Rebuild
<1>3. i + 1 \in DOMAIN Builds
  <2>1. Builds \in Seq(Policy)
    BY Zenon, LoaderAssumption
  <2> QED
    BY <2>1
<1>4. InMain(section)'
  BY Zenon, <1>1, <1>2, <1>3, ObjectAssumption DEF InMain
<1>5. InMain(parsed)' /\ InMain(installed)'
  BY Zenon, <1>1 DEF RulesInv, InMain
<1>6. \A v \in Address : Rule(v)' = Rule(v)
  BY Zenon, <1>1 DEF Rule
<1> QED
  BY Zenon, <1>1, <1>4, <1>5, <1>6 DEF RulesInv

-----------------------------------------------------------------------------
(* The policies of libc and of the libraries.                              *)

\* The policy of libc depends on where libc and ld.so are.
LEMMA LibcPolicyFrame ==
  ASSUME UNCHANGED <<layout, libc_base>>, "ld" \in mapped' <=> "ld" \in mapped
  PROVE  LibcPolicy' = LibcPolicy
<1>1. \A off \in Address :
        (/\ "ld" \in mapped'
         /\ Minus(Plus(libc_base', off), layout'["ld"].start) \in SysSites["ld"])
        <=> /\ "ld" \in mapped
            /\ Minus(Plus(libc_base, off), layout["ld"].start) \in SysSites["ld"]
  BY Zenon
<1> QED
  BY Zenon, <1>1 DEF LibcPolicy, Start

\* A step that registers nothing and changes at most the policy of the binary.
LEMMA ModuleFrame ==
  ASSUME TypeOK, WatchInv, ModuleInv, UNCHANGED <<layout, libc_base, g_watched_libs>>,
         mapped \subseteq mapped', "ld" \in mapped' <=> "ld" \in mapped,
         \A m \in ModuleIds \ {MODULE_MAIN} : policy_registry'[m] = policy_registry[m],
         todo' \subseteq mapped', phase' \in Early => phase \in Early /\ todo' = todo
  PROVE  ModuleInv'
<1>1. LibcPolicy' = LibcPolicy
  BY Zenon, LibcPolicyFrame
<1>2. policy_registry'[MODULE_LIBC] = policy_registry[MODULE_LIBC]
  BY Zenon, FixedIds
<1>3. LibcListed' => "libc" \in mapped' /\ policy_registry'[MODULE_LIBC] = LibcPolicy'
  BY Zenon, <1>1, <1>2 DEF ModuleInv, LibcListed
<1>4. ASSUME NEW i \in DOMAIN g_watched_libs, g_watched_libs[i].path \in Libs
      PROVE  /\ g_watched_libs[i].path \in mapped'
             /\ policy_registry'[g_watched_libs[i].id] = LibPolicy(g_watched_libs[i].path)
  <2>1. g_watched_libs[i] \in Watched
    BY DEF TypeOK
  <2>2. g_watched_libs[i].id \in ModuleIds \ {MODULE_MAIN}
    BY Zenon, <1>4, <2>1, LoaderAssumption DEF WatchInv, Watched
  <2> QED
    BY Zenon, <1>4, <2>2 DEF ModuleInv
<1>5. \A i \in DOMAIN g_watched_libs' :
        g_watched_libs'[i].path \in Libs =>
          /\ g_watched_libs'[i].path \in mapped'
          /\ policy_registry'[g_watched_libs'[i].id] = LibPolicy(g_watched_libs'[i].path)
  BY Zenon, <1>4
<1>6. phase' \in Early => todo' = {} /\ policy_registry'[MODULE_LIBC] = None
  BY Zenon, <1>2 DEF ModuleInv
<1> QED
  BY Zenon, <1>3, <1>5, <1>6 DEF ModuleInv

\* What AddLib registers: the last entry of the list, under an id of its own.
LEMMA Added ==
  ASSUME TypeOK, WatchInv, AddLib
  PROVE  /\ NextLib \in todo /\ NextLib \in Libs /\ ~Tracked(NextLib)
         /\ next_mod_id \in ModuleIds \ {MODULE_MAIN, MODULE_LIBC}
         /\ \A i \in DOMAIN g_watched_libs' :
              \/ /\ i \in DOMAIN g_watched_libs /\ g_watched_libs'[i] = g_watched_libs[i]
                 /\ g_watched_libs[i].id \in ModuleIds \ {next_mod_id}
              \/ /\ g_watched_libs'[i].path = NextLib
                 /\ g_watched_libs'[i].id = next_mod_id
<1> DEFINE r == [path |-> NextLib, id |-> next_mod_id]
<1>1. /\ LibStep /\ next_mod_id < MaxModules /\ todo # {}
      /\ register_watched_lib(NextLib, next_mod_id)
  BY Zenon DEF AddLib, LibStep
<1>2. NextLib \in todo /\ NextLib \in Libs /\ ~Tracked(NextLib)
  BY Zenon, <1>1, NextLibIn DEF TypeOK, WatchInv
<1>3. next_mod_id \in ModuleIds \ {MODULE_MAIN, MODULE_LIBC} /\ next_mod_id \in Nat
  <2>1. /\ next_mod_id \in MODULE_DYNAMIC_BASE .. MaxModules /\ next_mod_id < MaxModules
        /\ MaxModules \in Nat
    BY Zenon, <1>1, EnforcerAssumption DEF TypeOK
  <2> QED
    BY <2>1 DEF ModuleIds, MODULE_DYNAMIC_BASE, MODULE_MAIN, MODULE_LIBC
<1>4. r \in Watched /\ r.path = NextLib /\ r.id = next_mod_id
  BY Zenon, <1>2, <1>3 DEF Watched
<1>5. g_watched_libs' = Append(g_watched_libs, r)
  <2>1. /\ Len(g_watched_libs) < MaxWatched /\ MaxWatched \in Nat
        /\ g_watched_libs \in Seq(Watched)
    BY Zenon, <1>1, LibRoom, LoaderAssumption DEF TypeOK
  <2>2. Len(g_watched_libs) \in Nat
    BY <2>1
  <2>3. ~(Len(g_watched_libs) >= MaxWatched)
    BY <2>1, <2>2
  <2> QED
    BY Zenon, <1>1, <2>3 DEF register_watched_lib
<1> HIDE DEF r
<1>6. g_watched_libs \in Seq(Watched)
  BY Zenon DEF TypeOK
<1>7. \A i \in DOMAIN g_watched_libs' :
        \/ i \in DOMAIN g_watched_libs /\ g_watched_libs'[i] = g_watched_libs[i]
           /\ g_watched_libs[i] \in Watched
        \/ g_watched_libs'[i] = r
  BY <1>4, <1>5, <1>6
<1>8. ASSUME NEW i \in DOMAIN g_watched_libs, g_watched_libs[i] \in Watched
      PROVE  g_watched_libs[i].id \in ModuleIds \ {next_mod_id}
  <2>1. g_watched_libs[i].id < next_mod_id /\ g_watched_libs[i].id \in ModuleIds
    BY Zenon, <1>8 DEF WatchInv, Watched
  <2>2. \A x \in Nat : ~(x < x)
    OBVIOUS
  <2> QED
    BY Zenon, <1>3, <2>1, <2>2
<1> QED
  BY Zenon, <1>2, <1>3, <1>4, <1>7, <1>8

\* libc's policy, whichever way its installation goes.
LEMMA InstallModule ==
  ASSUME TypeOK, WatchInv, ModuleInv, InstallLibc, ~CleanUp
  PROVE  ModuleInv'
<1>1. /\ phase = "libc" /\ phase' = "discover" /\ todo' \subseteq mapped
      /\ UNCHANGED <<g_watched_libs, layout, libc_base, mapped>>
  BY Zenon DEF InstallLibc
<1>2. DOMAIN g_watched_libs' = {}
  <2>1. g_watched_libs' = <<>>
    BY Zenon, <1>1 DEF WatchInv, Early
  <2> QED
    BY <2>1
<1>3. LibcPolicy' = LibcPolicy
  BY Zenon, <1>1, LibcPolicyFrame
<1>4. policy_registry[MODULE_LIBC] = None
  BY Zenon, <1>1 DEF ModuleInv, Early
<1>5. \/ policy_registry'[MODULE_LIBC] \in {None, EmptyPolicy}
      \/ "libc" \in mapped /\ policy_registry'[MODULE_LIBC] = LibcPolicy
  BY Zenon, <1>4, FixedIds DEF InstallLibc, TypeOK
<1> QED
  BY Zenon, <1>1, <1>2, <1>3, <1>5 DEF ModuleInv, LibcListed, Early

\* A library's policy goes under its own id and disturbs no other.
LEMMA AddLibModule ==
  ASSUME TypeOK, WatchInv, ModuleInv, AddLib
  PROVE  ModuleInv'
<1>1. /\ UNCHANGED <<layout, libc_base, mapped, phase>> /\ todo' \subseteq todo
      /\ phase \in {"discover", "scan"}
      /\ policy_registry' = [policy_registry EXCEPT ![next_mod_id] = LibPolicy(NextLib)]
  BY Zenon DEF AddLib, LibStep
<1>2. /\ NextLib \in mapped /\ next_mod_id \in ModuleIds \ {MODULE_MAIN, MODULE_LIBC}
  BY Zenon, Added DEF ModuleInv
<1>3. /\ policy_registry'[next_mod_id] = LibPolicy(NextLib)
      /\ \A m \in ModuleIds \ {next_mod_id} : policy_registry'[m] = policy_registry[m]
  BY Zenon, <1>1, <1>2 DEF TypeOK
<1>4. LibcPolicy' = LibcPolicy
  BY Zenon, <1>1, LibcPolicyFrame
<1>5. LibcListed' => "libc" \in mapped' /\ policy_registry'[MODULE_LIBC] = LibcPolicy'
  BY Zenon, <1>1, <1>2, <1>3, <1>4, FixedIds DEF ModuleInv, LibcListed
<1>6. ASSUME NEW i \in DOMAIN g_watched_libs', g_watched_libs'[i].path \in Libs
      PROVE  /\ g_watched_libs'[i].path \in mapped'
             /\ policy_registry'[g_watched_libs'[i].id] = LibPolicy(g_watched_libs'[i].path)
  <2>1. CASE /\ i \in DOMAIN g_watched_libs /\ g_watched_libs'[i] = g_watched_libs[i]
             /\ g_watched_libs[i].id \in ModuleIds \ {next_mod_id}
    BY Zenon, <1>1, <1>3, <1>6, <2>1 DEF ModuleInv
  <2>2. CASE g_watched_libs'[i].path = NextLib /\ g_watched_libs'[i].id = next_mod_id
    <3>1. g_watched_libs'[i].path \in mapped'
      BY Zenon, <1>1, <1>2, <2>2
    <3>2. policy_registry'[g_watched_libs'[i].id] = policy_registry'[next_mod_id]
      BY Zenon, <2>2
    <3> QED
      BY Zenon, <1>3, <2>2, <3>1, <3>2
  <2> QED
    BY Zenon, <2>1, <2>2, Added
<1>7. todo' \subseteq mapped' /\ phase' \notin Early
  BY Zenon, <1>1 DEF ModuleInv, Early
<1> QED
  BY Zenon, <1>5, <1>6, <1>7 DEF ModuleInv

\* SetupCfi registers the binary, which is no library.
LEMMA Setup ==
  ASSUME TypeOK, SetupCfi
  PROVE  \A i \in DOMAIN g_watched_libs' : g_watched_libs'[i].path \in Libs =>
           i \in DOMAIN g_watched_libs /\ g_watched_libs'[i] = g_watched_libs[i]
<1> DEFINE r == [path |-> "main", id |-> MODULE_MAIN]
<1>1. r \in Watched /\ r.path \notin Libs
  BY Zenon, FixedIds, LoaderAssumption DEF Watched
<1>2. g_watched_libs' = g_watched_libs \/ g_watched_libs' = Append(g_watched_libs, r)
  BY Zenon DEF SetupCfi, register_watched_lib
<1> HIDE DEF r
<1>3. g_watched_libs \in Seq(Watched)
  BY Zenon DEF TypeOK
<1>4. \A i \in DOMAIN g_watched_libs' :
        \/ i \in DOMAIN g_watched_libs /\ g_watched_libs'[i] = g_watched_libs[i]
        \/ g_watched_libs'[i] = r
  BY <1>1, <1>2, <1>3
<1> QED
  BY Zenon, <1>1, <1>4

LEMMA SetupModule ==
  ASSUME TypeOK, ModuleInv, SetupCfi
  PROVE  ModuleInv'
<1>1. /\ UNCHANGED <<layout, libc_base, mapped, policy_registry, todo>>
      /\ phase' = "enrol"
  BY Zenon DEF SetupCfi
<1>2. LibcPolicy' = LibcPolicy
  BY Zenon, <1>1, LibcPolicyFrame
<1>3. LibcListed' => "libc" \in mapped' /\ policy_registry'[MODULE_LIBC] = LibcPolicy'
  BY Zenon, <1>1, <1>2 DEF ModuleInv, LibcListed
<1>4. ASSUME NEW i \in DOMAIN g_watched_libs', g_watched_libs'[i].path \in Libs
      PROVE  /\ g_watched_libs'[i].path \in mapped'
             /\ policy_registry'[g_watched_libs'[i].id] = LibPolicy(g_watched_libs'[i].path)
  BY Zenon, <1>1, <1>4, Setup DEF ModuleInv
<1> QED
  BY Zenon, <1>1, <1>3, <1>4 DEF ModuleInv, Early

\* Before libc is looked at, nothing is registered and no library waits.
LEMMA EarlyModule ==
  ASSUME WatchInv, ModuleInv, phase \in Early, phase' \in Early,
         UNCHANGED <<g_watched_libs, todo>>,
         policy_registry'[MODULE_LIBC] = policy_registry[MODULE_LIBC]
  PROVE  ModuleInv'
<1>1. g_watched_libs' = <<>> /\ todo' = {} /\ policy_registry'[MODULE_LIBC] = None
  BY Zenon DEF WatchInv, ModuleInv
<1>2. DOMAIN g_watched_libs' = {}
  BY <1>1
<1> QED
  BY Zenon, <1>1, <1>2 DEF ModuleInv, LibcListed

-----------------------------------------------------------------------------
(* Which module every address belongs to.                                  *)

\* Placed, for objects m mapped and a trie vma of the current layout.
PlacedIn(m, vma, o, id, base) ==
  (\A k \in m : Owner(k) = Owner(o) \/ Claimed(k) \cap Claimed(o) = {})
    => \A a \in Start(o) .. End(o) : vma[Block(a)] = Given(id, base)

\* PlaceInv before and after a step, in terms of PlacedIn.
LEMMA PlaceNow ==
  ASSUME PlaceInv, phase \in Filled, mapped \cap LibcNamed = {}
  PROVE  /\ "main" \in mapped =>
              PlacedIn(mapped, vma_map, "main", MODULE_MAIN, Start("main"))
         /\ "libc" \in mapped =>
              /\ libc_base = Start("libc")
              /\ PlacedIn(mapped, vma_map, "libc", MODULE_LIBC, Start("libc"))
         /\ LibcListed /\ "ld" \in mapped =>
              PlacedIn(mapped, vma_map, "ld", MODULE_LIBC, libc_base)
         /\ \A i \in DOMAIN g_watched_libs : g_watched_libs[i].path \in Libs =>
              PlacedIn(mapped, vma_map, g_watched_libs[i].path, g_watched_libs[i].id,
                       Start(g_watched_libs[i].path))
BY Zenon DEF PlaceInv, Placed, PlacedIn, Alone, Given

LEMMA PlaceNext ==
  ASSUME UNCHANGED layout,
         ASSUME phase' \in Filled, mapped' \cap LibcNamed = {}
         PROVE  /\ "main" \in mapped' =>
                     PlacedIn(mapped', vma_map', "main", MODULE_MAIN, Start("main"))
                /\ "libc" \in mapped' =>
                     /\ libc_base' = Start("libc")
                     /\ PlacedIn(mapped', vma_map', "libc", MODULE_LIBC, Start("libc"))
                /\ policy_registry'[MODULE_LIBC] \notin {None, EmptyPolicy}
                     /\ "ld" \in mapped' =>
                     PlacedIn(mapped', vma_map', "ld", MODULE_LIBC, libc_base')
                /\ \A i \in DOMAIN g_watched_libs' : g_watched_libs'[i].path \in Libs =>
                     PlacedIn(mapped', vma_map', g_watched_libs'[i].path,
                              g_watched_libs'[i].id, Start(g_watched_libs'[i].path))
  PROVE  PlaceInv'
<1>1. \A o : Start(o)' = Start(o) /\ End(o)' = End(o) /\ Claimed(o)' = Claimed(o)
  BY Zenon DEF Start, End, Claimed
<1>2. ASSUME NEW o, NEW id, NEW base, PlacedIn(mapped', vma_map', o, id, base)
      PROVE  Placed(o, id, base)'
  BY Zenon, <1>1, <1>2 DEF PlacedIn, Placed, Alone, Given
<1> QED
  BY Zenon, <1>1, <1>2 DEF PlaceInv, LibcListed

\* A step that claims no block and registers no library.
LEMMA PlaceFrame ==
  ASSUME PlaceInv, UNCHANGED <<layout, libc_base, vma_map>>, mapped \subseteq mapped',
         \A o \in {"main", "libc", "ld"} : o \in mapped' => o \in mapped,
         policy_registry'[MODULE_LIBC] = policy_registry[MODULE_LIBC],
         \A i \in DOMAIN g_watched_libs' : g_watched_libs'[i].path \in Libs =>
           i \in DOMAIN g_watched_libs /\ g_watched_libs'[i] = g_watched_libs[i],
         phase' \in Filled => phase \in Filled
  PROVE  PlaceInv'
<1>1. ASSUME NEW o, NEW id, NEW base, PlacedIn(mapped, vma_map, o, id, base)
      PROVE  PlacedIn(mapped', vma_map', o, id, base)
  BY Zenon, <1>1 DEF PlacedIn
<1>2. ASSUME phase' \in Filled, mapped' \cap LibcNamed = {}
      PROVE  phase \in Filled /\ mapped \cap LibcNamed = {}
  BY Zenon, <1>2
<1> QED
  BY Zenon, <1>1, <1>2, PlaceNow, PlaceNext DEF LibcListed

\* Before the maps are filled, and after the loader ended.
LEMMA UnfilledPlace ==
  ASSUME phase' \notin Filled
  PROVE  PlaceInv'
BY Zenon DEF PlaceInv

\* populate_vma_for_module places the one object it is called for.
LEMMA OwnPlace ==
  ASSUME TypeOK, NEW vma, NEW O, NEW o \in Objects, Sole(O, o), NEW id, NEW base
  PROVE  PlacedIn(mapped, populate_vma(vma, O, id, base), o, id, base)
<1> DEFINE new == populate_vma(vma, O, id, base)
<1>1. Updated(vma, new, o, id, base)
  BY Zenon, PopulatedOne
<1> HIDE DEF new
<1>2. \A a \in Start(o) .. End(o) : new[Block(a)] = Given(id, base)
  BY Zenon, <1>1, BlockIn DEF Updated
<1> QED
  BY Zenon, <1>2 DEF PlacedIn, new

\* An object that shares no block with another module keeps its place when
\* the other claims blocks.
LEMMA OthersKept ==
  ASSUME TypeOK, NEW vma, NEW O, NEW o \in mapped, Sole(O, o),
         NEW i, NEW b, NEW k \in mapped, Owner(o) # Owner(k), NEW id, NEW base,
         PlacedIn(mapped, vma, k, id, base)
  PROVE  PlacedIn(mapped, populate_vma(vma, O, i, b), k, id, base)
<1> DEFINE new == populate_vma(vma, O, i, b)
<1>1. o \in Objects /\ k \in Objects
  BY Zenon DEF TypeOK
<1>2. Updated(vma, new, o, i, b)
  BY Zenon, <1>1, PopulatedOne
<1> HIDE DEF new
<1>3. ASSUME \A x \in mapped : Owner(x) = Owner(k) \/ Claimed(x) \cap Claimed(k) = {},
             NEW a \in Start(k) .. End(k)
      PROVE  new[Block(a)] = vma[Block(a)]
  <2>1. Claimed(o) \cap Claimed(k) = {}
    BY Zenon, <1>3
  <2>2. Block(a) \in Blocks /\ Block(a) \in Claimed(k)
    BY Zenon, <1>1, BlockIn
  <2>3. Block(a) \notin Claimed(o)
    BY Zenon, <2>1, <2>2
  <2> QED
    BY Zenon, <1>2, <2>2, <2>3 DEF Updated
<1> QED
  BY Zenon, <1>3 DEF PlacedIn, new

\* The binary and libc: each has its blocks, libc's claim coming second.
LEMMA InstallPlace ==
  ASSUME TypeOK, WatchInv, ModuleInv, InstallMain, ~(CleanUp \/ KillAndEnd)
  PROVE  PlaceInv'
<1> DEFINE first == IF "main" \in mapped
                    THEN populate_vma(vma_map, {"main"}, MODULE_MAIN, Start("main"))
                    ELSE vma_map
<1>1. /\ UNCHANGED <<layout, mapped, g_watched_libs>> /\ phase = "main"
      /\ vma_map' = Vmas
      /\ libc_base' = IF "libc" \in mapped THEN LowestBase(LibcLike) ELSE 0
      /\ policy_registry' = [policy_registry EXCEPT ![MODULE_MAIN] = MainPolicy(parsed)]
  BY Zenon DEF InstallMain
<1>2. policy_registry'[MODULE_LIBC] = None /\ g_watched_libs' = <<>>
  <2>1. policy_registry'[MODULE_LIBC] = policy_registry[MODULE_LIBC]
    BY Zenon, <1>1, FixedIds DEF TypeOK
  <2> QED
    BY Zenon, <1>1, <2>1 DEF ModuleInv, WatchInv, Early
<1>3. DOMAIN g_watched_libs' = {}
  BY <1>2
<1>4. Vmas = IF "libc" \in mapped
             THEN populate_vma(first, LibcLike, MODULE_LIBC, LowestBase(LibcLike))
             ELSE first
  BY Zenon DEF Vmas
<1> HIDE DEF first
<1> SUFFICES ASSUME mapped \cap LibcNamed = {}
             PROVE  /\ "main" \in mapped =>
                         PlacedIn(mapped, vma_map', "main", MODULE_MAIN, Start("main"))
                    /\ "libc" \in mapped =>
                         /\ libc_base' = Start("libc")
                         /\ PlacedIn(mapped, vma_map', "libc", MODULE_LIBC, Start("libc"))
  BY Zenon, <1>1, <1>2, <1>3, PlaceNext
<1>5. "main" \in Objects /\ "libc" \in Objects
  BY Zenon DEF Objects
<1>6. ASSUME "main" \in mapped
      PROVE  PlacedIn(mapped, first, "main", MODULE_MAIN, Start("main"))
  <2>1. Sole({"main"}, "main")
    BY Zenon, <1>6 DEF Sole
  <2>2. first = populate_vma(vma_map, {"main"}, MODULE_MAIN, Start("main"))
    BY Zenon, <1>6 DEF first
  <2> QED
    BY Zenon, <1>5, <2>1, <2>2, OwnPlace
<1>7. CASE "libc" \in mapped
  <2>1. Sole(LibcLike, "libc")
    BY Zenon, <1>7 DEF LibcLike, Sole
  <2>2. LowestBase(LibcLike) = Start("libc")
    <3>1. {Start(o) : o \in LibcLike \cap mapped} = {Start("libc")}
      BY Zenon, <2>1 DEF Sole
    <3>2. Start("libc") \in Nat
      BY Zenon, <1>5, ObjectPlace
    <3>3. Start("libc") \in Int
      BY <3>2
    <3> QED
      BY Zenon, <3>1, <3>3, MinMaxOne DEF LowestBase
  <2>3. vma_map' = populate_vma(first, LibcLike, MODULE_LIBC, Start("libc"))
    BY Zenon, <1>1, <1>4, <1>7, <2>2
  <2>4. PlacedIn(mapped, vma_map', "libc", MODULE_LIBC, Start("libc"))
    BY Zenon, <1>5, <2>1, <2>3, OwnPlace
  <2>5. Owner("libc") # Owner("main")
    BY Zenon DEF Owner
  <2>6. "main" \in mapped =>
          PlacedIn(mapped, vma_map', "main", MODULE_MAIN, Start("main"))
    BY Zenon, <1>6, <1>7, <2>1, <2>3, <2>5, OthersKept
  <2> QED
    BY Zenon, <1>1, <1>7, <2>2, <2>4, <2>6
<1>8. CASE "libc" \notin mapped
  BY Zenon, <1>1, <1>4, <1>6, <1>8
<1> QED
  BY Zenon, <1>7, <1>8

\* ld.so's blocks go to libc's id, with libc's base.
LEMMA InstallLibcPlace ==
  ASSUME TypeOK, WatchInv, ModuleInv, PlaceInv, InstallLibc, ~CleanUp
  PROVE  PlaceInv'
<1>1. /\ UNCHANGED <<layout, mapped, g_watched_libs, libc_base>> /\ phase = "libc"
  BY Zenon DEF InstallLibc
<1>2. g_watched_libs' = <<>> /\ phase \in Filled /\ policy_registry[MODULE_LIBC] = None
  BY Zenon, <1>1 DEF WatchInv, ModuleInv, Early, Filled
<1>3. DOMAIN g_watched_libs' = {}
  BY <1>2
<1> SUFFICES ASSUME mapped \cap LibcNamed = {}
             PROVE  /\ "main" \in mapped =>
                         PlacedIn(mapped, vma_map', "main", MODULE_MAIN, Start("main"))
                    /\ "libc" \in mapped =>
                         /\ libc_base = Start("libc")
                         /\ PlacedIn(mapped, vma_map', "libc", MODULE_LIBC, Start("libc"))
                    /\ policy_registry'[MODULE_LIBC] \notin {None, EmptyPolicy}
                         /\ "ld" \in mapped =>
                         PlacedIn(mapped, vma_map', "ld", MODULE_LIBC, libc_base)
  BY Zenon, <1>1, <1>3, PlaceNext
<1>4. /\ "main" \in mapped =>
           PlacedIn(mapped, vma_map, "main", MODULE_MAIN, Start("main"))
      /\ "libc" \in mapped =>
           /\ libc_base = Start("libc")
           /\ PlacedIn(mapped, vma_map, "libc", MODULE_LIBC, Start("libc"))
  BY Zenon, <1>2, PlaceNow
<1>5. CASE vma_map' = vma_map /\ policy_registry'[MODULE_LIBC] \in {None, EmptyPolicy}
  BY Zenon, <1>4, <1>5
<1>6. CASE "libc" \in mapped
           /\ vma_map' = populate_vma(vma_map, {"ld"}, MODULE_LIBC, libc_base)
  <2>1. CASE "ld" \notin mapped
    <3>1. {"ld"} \cap mapped = {}
      BY Zenon, <2>1
    <3>2. vma_map' = vma_map
      BY Zenon, <1>6, <3>1 DEF populate_vma
    <3> QED
      BY Zenon, <1>4, <2>1, <3>2
  <2>2. CASE "ld" \in mapped
    <3>1. Sole({"ld"}, "ld") /\ "ld" \in Objects /\ "libc" \in Objects
      BY Zenon, <2>2 DEF Objects, Sole
    <3>2. PlacedIn(mapped, vma_map', "ld", MODULE_LIBC, libc_base)
      BY Zenon, <1>6, <3>1, OwnPlace
    <3>3. Owner("ld") # Owner("main")
      BY Zenon DEF Owner
    <3>4. "main" \in mapped =>
            PlacedIn(mapped, vma_map', "main", MODULE_MAIN, Start("main"))
      BY Zenon, <1>4, <1>6, <2>2, <3>1, <3>3, OthersKept
    <3>5. PlacedIn(mapped, vma_map', "libc", MODULE_LIBC, Start("libc"))
      <4>1. ASSUME NEW a \in Start("libc") .. End("libc")
            PROVE  \/ vma_map'[Block(a)] = vma_map[Block(a)]
                   \/ vma_map'[Block(a)] = Given(MODULE_LIBC, Start("libc"))
        <5>1. Block(a) \in Blocks
          BY Zenon, <3>1, BlockIn
        <5>2. Updated(vma_map, vma_map', "ld", MODULE_LIBC, libc_base)
          BY Zenon, <1>6, <3>1, PopulatedOne
        <5> QED
          BY Zenon, <1>4, <1>6, <5>1, <5>2 DEF Updated
      <4> QED
        BY Zenon, <1>4, <1>6, <4>1 DEF PlacedIn
    <3> QED
      BY Zenon, <1>4, <3>2, <3>4, <3>5
  <2> QED
    BY Zenon, <2>1, <2>2
<1> QED
  BY Zenon, <1>2, <1>5, <1>6, FixedIds DEF InstallLibc, TypeOK

\* A library takes its blocks from no object that shares none with it.
LEMMA AddLibPlace ==
  ASSUME TypeOK, WatchInv, ModuleInv, PlaceInv, AddLib
  PROVE  PlaceInv'
<1> DEFINE lib == NextLib
           id == next_mod_id
<1>1. /\ UNCHANGED <<layout, mapped, libc_base, phase>>
      /\ vma_map' = populate_vma(vma_map, {lib}, id, Start(lib))
      /\ policy_registry' = [policy_registry EXCEPT ![id] = LibPolicy(lib)]
  BY Zenon DEF AddLib
<1>2. phase \in Filled
  BY Zenon DEF AddLib, LibStep, Filled, Supervising
<1>3. /\ lib \in Libs /\ lib \in Objects /\ lib \in mapped /\ ~Tracked(lib)
      /\ id \in ModuleIds /\ id # MODULE_LIBC
  BY Zenon, Added DEF ModuleInv, Objects
<1>4. policy_registry'[MODULE_LIBC] = policy_registry[MODULE_LIBC]
  BY Zenon, <1>1, <1>3, FixedIds DEF TypeOK
<1>5. \A i \in DOMAIN g_watched_libs' :
        \/ i \in DOMAIN g_watched_libs /\ g_watched_libs'[i] = g_watched_libs[i]
        \/ g_watched_libs'[i].path = lib /\ g_watched_libs'[i].id = id
  BY Zenon, Added
<1>6. Sole({lib}, lib)
  BY Zenon, <1>3 DEF Sole
<1> HIDE DEF lib, id
<1>7. PlacedIn(mapped, vma_map', lib, id, Start(lib))
  BY Zenon, <1>1, <1>3, <1>6, OwnPlace
<1>8. ASSUME NEW k \in mapped, k # lib PROVE Owner(lib) # Owner(k)
  BY Zenon, <1>3, <1>8, LoaderAssumption DEF Owner
<1>9. ASSUME NEW k \in mapped, k # lib, NEW i, NEW b, PlacedIn(mapped, vma_map, k, i, b)
      PROVE  PlacedIn(mapped, vma_map', k, i, b)
  BY Zenon, <1>1, <1>3, <1>6, <1>8, <1>9, OthersKept
<1> SUFFICES ASSUME mapped \cap LibcNamed = {}
             PROVE  /\ "main" \in mapped =>
                         PlacedIn(mapped, vma_map', "main", MODULE_MAIN, Start("main"))
                    /\ "libc" \in mapped =>
                         /\ libc_base = Start("libc")
                         /\ PlacedIn(mapped, vma_map', "libc", MODULE_LIBC, Start("libc"))
                    /\ LibcListed /\ "ld" \in mapped =>
                         PlacedIn(mapped, vma_map', "ld", MODULE_LIBC, libc_base)
                    /\ \A i \in DOMAIN g_watched_libs' : g_watched_libs'[i].path \in Libs =>
                         PlacedIn(mapped, vma_map', g_watched_libs'[i].path,
                                  g_watched_libs'[i].id, Start(g_watched_libs'[i].path))
  BY Zenon, <1>1, <1>4, PlaceNext DEF LibcListed
<1>10. lib \notin {"main", "libc", "ld"}
  BY Zenon, <1>3, LoaderAssumption
<1>11. /\ "main" \in mapped =>
            PlacedIn(mapped, vma_map', "main", MODULE_MAIN, Start("main"))
       /\ "libc" \in mapped =>
            /\ libc_base = Start("libc")
            /\ PlacedIn(mapped, vma_map', "libc", MODULE_LIBC, Start("libc"))
       /\ LibcListed /\ "ld" \in mapped =>
            PlacedIn(mapped, vma_map', "ld", MODULE_LIBC, libc_base)
  BY Zenon, <1>2, <1>9, <1>10, PlaceNow
<1>12. ASSUME NEW i \in DOMAIN g_watched_libs', g_watched_libs'[i].path \in Libs
       PROVE  PlacedIn(mapped, vma_map', g_watched_libs'[i].path,
                       g_watched_libs'[i].id, Start(g_watched_libs'[i].path))
  <2>1. CASE i \in DOMAIN g_watched_libs /\ g_watched_libs'[i] = g_watched_libs[i]
    <3>1. g_watched_libs[i].path \in mapped /\ g_watched_libs[i].path # lib
      BY Zenon, <1>3, <1>12, <2>1 DEF ModuleInv, Tracked
    <3>2. PlacedIn(mapped, vma_map, g_watched_libs[i].path, g_watched_libs[i].id,
                   Start(g_watched_libs[i].path))
      BY Zenon, <1>2, <1>12, <2>1, PlaceNow
    <3> QED
      BY Zenon, <1>9, <2>1, <3>1, <3>2
  <2>2. CASE g_watched_libs'[i].path = lib /\ g_watched_libs'[i].id = id
    BY Zenon, <1>7, <2>2
  <2> QED
    BY Zenon, <1>5, <2>1, <2>2
<1> QED
  BY Zenon, <1>11, <1>12

-----------------------------------------------------------------------------
(* Every step.                                                             *)

\* A step that leaves the maps, the mappings and the policies alone.
LEMMA SitesFrame ==
  ASSUME TypeOK, WatchInv, SitesInv,
         UNCHANGED <<vma_map, policy_registry, libc_base, g_watched_libs, layout, mapped,
                     section, parsed, pending, installed>>,
         todo' \subseteq todo \/ todo' \subseteq mapped,
         phase' \in Early => phase \in Early /\ todo' = todo,
         phase' \in Filled => phase \in Filled /\ (phase' = "reload" <=> phase = "reload")
  PROVE  SitesInv'
<1>1. RulesInv'
  BY Zenon, RulesFrame DEF SitesInv
<1>2. todo' \subseteq mapped'
  BY Zenon DEF SitesInv, ModuleInv
<1>3. ModuleInv'
  BY Zenon, <1>2, ModuleFrame DEF SitesInv
<1>4. PlaceInv'
  BY Zenon, PlaceFrame DEF SitesInv
<1> QED
  BY Zenon, <1>1, <1>3, <1>4 DEF SitesInv

\* The loader ends and leaves the maps as they are.
LEMMA EndedSites ==
  ASSUME TypeOK, WatchInv, SitesInv, NEW procs, Ended(procs)
  PROVE  SitesInv'
<1>1. /\ UNCHANGED <<vma_map, policy_registry, libc_base, g_watched_libs, layout, mapped,
                     section, parsed, pending, installed, todo>>
      /\ phase' = "ended"
  BY Zenon DEF Ended, maps, loader
<1>2. "ended" \notin Early /\ "ended" \notin Filled
  BY Zenon DEF Early, Filled, Supervising
<1> QED
  BY Zenon, <1>1, <1>2, SitesFrame

\* Until libc is mapped or the steps run out.
LEMMA StartSites ==
  ASSUME WatchInv, SitesInv, Begin \/ Trap \/ StepChild, ~(CleanUp \/ KillAndEnd)
  PROVE  SitesInv'
<1>1. /\ UNCHANGED <<layout, section, installed, g_watched_libs, todo, policy_registry>>
      /\ parsed' \in {parsed, section}
  BY Zenon DEF Begin, Trap, StepChild, maps, loader
<1>2. phase \in Early /\ phase' \in Early /\ phase' \notin Filled
  BY Zenon DEF Begin, Trap, StepChild, Early, Filled, Supervising
<1>3. RulesInv'
  BY Zenon, <1>1, <1>2, UnfilledRules DEF SitesInv
<1>4. ModuleInv'
  BY Zenon, <1>1, <1>2, EarlyModule DEF SitesInv
<1> QED
  BY Zenon, <1>2, <1>3, <1>4, UnfilledPlace DEF SitesInv

\* Filling the maps for the binary and for libc.
LEMMA InstallSites ==
  ASSUME TypeOK, WatchInv, SitesInv, InstallMain \/ InstallLibc, ~(CleanUp \/ KillAndEnd)
  PROVE  SitesInv'
<1>1. CASE InstallMain
  <2>1. /\ UNCHANGED <<g_watched_libs, todo>> /\ phase = "main" /\ phase' = "libc"
        /\ policy_registry' = [policy_registry EXCEPT ![MODULE_MAIN] = MainPolicy(parsed)]
    BY Zenon, <1>1 DEF InstallMain
  <2>2. policy_registry'[MODULE_LIBC] = policy_registry[MODULE_LIBC]
    BY Zenon, <2>1, FixedIds DEF TypeOK
  <2>3. ModuleInv'
    BY Zenon, <2>1, <2>2, EarlyModule DEF SitesInv, Early
  <2> QED
    BY Zenon, <1>1, <2>3, InstallRules, InstallPlace DEF SitesInv
<1>2. CASE InstallLibc
  <2>1. /\ UNCHANGED <<layout, section, parsed, pending, installed>>
        /\ phase = "libc" /\ phase' = "discover"
    BY Zenon, <1>2 DEF InstallLibc
  <2>2. policy_registry'[MODULE_MAIN] = policy_registry[MODULE_MAIN]
    BY Zenon, <1>2, FixedIds DEF InstallLibc, TypeOK
  <2>3. RulesInv'
    BY Zenon, <2>1, <2>2, RulesFrame DEF SitesInv, Filled
  <2> QED
    BY Zenon, <1>2, <2>3, InstallModule, InstallLibcPlace DEF SitesInv
<1> QED
  BY Zenon, <1>1, <1>2

\* Registering a library, and the binary.
LEMMA RegisterSites ==
  ASSUME TypeOK, WatchInv, SitesInv, AddLib \/ SetupCfi
  PROVE  SitesInv'
<1>1. CASE AddLib
  <2>1. /\ UNCHANGED <<layout, section, parsed, pending, installed, phase>>
        /\ policy_registry' = [policy_registry EXCEPT ![next_mod_id] = LibPolicy(NextLib)]
    BY Zenon, <1>1 DEF AddLib
  <2>2. policy_registry'[MODULE_MAIN] = policy_registry[MODULE_MAIN]
    BY Zenon, <1>1, <2>1, Added, FixedIds DEF TypeOK
  <2>3. RulesInv'
    BY Zenon, <2>1, <2>2, RulesFrame DEF SitesInv
  <2> QED
    BY Zenon, <1>1, <2>3, AddLibModule, AddLibPlace DEF SitesInv
<1>2. CASE SetupCfi
  <2>1. /\ UNCHANGED <<layout, section, parsed, pending, installed, policy_registry,
                       libc_base, vma_map, mapped>>
        /\ phase = "discover" /\ phase' = "enrol"
    BY Zenon, <1>2 DEF SetupCfi
  <2>2. RulesInv'
    BY Zenon, <2>1, RulesFrame DEF SitesInv, Filled
  <2>3. ModuleInv'
    BY Zenon, <1>2, SetupModule DEF SitesInv
  <2>4. \A i \in DOMAIN g_watched_libs' : g_watched_libs'[i].path \in Libs =>
          i \in DOMAIN g_watched_libs /\ g_watched_libs'[i] = g_watched_libs[i]
    BY Zenon, <1>2, Setup
  <2>5. PlaceInv'
    BY Zenon, <2>1, <2>4, PlaceFrame DEF SitesInv, Filled
  <2> QED
    BY Zenon, <2>2, <2>3, <2>5 DEF SitesInv
<1> QED
  BY Zenon, <1>1, <1>2

\* The audit loop's reload.
LEMMA ReloadSites ==
  ASSUME TypeOK, PolicyInv, WatchInv, SitesInv, LoopTop \/ ReloadEntry \/ ReloadDone
  PROVE  SitesInv'
<1>1. /\ UNCHANGED <<layout, libc_base, g_watched_libs, mapped, vma_map, todo>>
      /\ phase' \notin Early /\ phase \in Filled
  BY Zenon DEF LoopTop, ReloadEntry, ReloadDone, Unchanged, Early, Filled, Supervising
<1>2. \A m \in ModuleIds \ {MODULE_MAIN} : policy_registry'[m] = policy_registry[m]
  BY Zenon DEF LoopTop, ReloadEntry, ReloadDone, Unchanged, TypeOK
<1>3. ModuleInv'
  BY Zenon, <1>1, <1>2, ModuleFrame DEF SitesInv, ModuleInv
<1>4. PlaceInv'
  BY Zenon, <1>1, <1>2, FixedIds, PlaceFrame DEF SitesInv
<1> QED
  BY Zenon, <1>3, <1>4, ReloadRules DEF SitesInv

\* The child maps a library, which changes nothing for what is registered; the
\* binary is built again.
LEMMA OutsideSites ==
  ASSUME TypeOK, WatchInv, SitesInv, DlOpen \/ Rebuild
  PROVE  SitesInv'
<1>1. /\ UNCHANGED <<layout, libc_base, g_watched_libs, vma_map, todo, phase, parsed,
                     pending, installed, policy_registry>>
      /\ mapped \subseteq mapped'
      /\ \A o \in {"main", "libc", "ld"} : o \in mapped' => o \in mapped
  BY Zenon, LoaderAssumption DEF DlOpen, Rebuild, maps, loader
<1>2. RulesInv'
  <2>1. CASE DlOpen
    BY Zenon, <1>1, <2>1, RulesFrame DEF SitesInv, DlOpen, loader
  <2> QED
    BY Zenon, <2>1, RebuildRules DEF SitesInv
<1>3. todo' \subseteq mapped' /\ ("ld" \in mapped' <=> "ld" \in mapped)
  BY Zenon, <1>1 DEF SitesInv, ModuleInv
<1>4. ModuleInv'
  BY Zenon, <1>1, <1>3, ModuleFrame DEF SitesInv
<1>5. PlaceInv'
  BY Zenon, <1>1, PlaceFrame DEF SitesInv
<1> QED
  BY Zenon, <1>2, <1>4, <1>5 DEF SitesInv

\* Everything else leaves the maps and the policies alone.
LEMMA QuietSites ==
  ASSUME TypeOK, WatchInv, SitesInv,
         \/ ForkChild \/ LibcMapped \/ SkipLib \/ TrackChild \/ Detach
         \/ Reap \/ ScanDone \/ WaitChild \/ sighup_handler \/ Hook \/ Spawn \/ Leave,
         ~(CleanUp \/ KillAndEnd)
  PROVE  SitesInv'
<1> USE DEF Early, Filled, Supervising
<1>1. CASE ForkChild \/ LibcMapped \/ SkipLib \/ TrackChild \/ Detach
  <2>1. /\ UNCHANGED <<vma_map, policy_registry, libc_base, g_watched_libs, layout, mapped,
                       section, parsed, pending, installed>>
        /\ todo' \subseteq todo
    BY Zenon, <1>1 DEF ForkChild, LibcMapped, SkipLib, TrackChild, Detach, maps, loader
  <2>2. /\ phase' \in Early => phase \in Early /\ todo' = todo
        /\ phase' \in Filled => phase \in Filled /\ (phase' = "reload" <=> phase = "reload")
    BY Zenon, <1>1
    DEF ForkChild, LibcMapped, SkipLib, LibStep, TrackChild, Detach, maps, loader
  <2> QED
    BY Zenon, <2>1, <2>2, SitesFrame
<1>2. CASE Reap \/ ScanDone \/ WaitChild \/ sighup_handler
  <2>1. UNCHANGED <<vma_map, policy_registry, libc_base, g_watched_libs, layout, mapped,
                    section, parsed, pending, installed>>
    BY Zenon, <1>2 DEF Reap, ScanDone, WaitChild, sighup_handler, Unchanged
  <2>2. todo' \subseteq todo \/ todo' \subseteq mapped
    BY Zenon, <1>2 DEF Reap, ScanDone, WaitChild, sighup_handler, Unchanged, NewLibs
  <2>3. /\ phase' \in Early => phase \in Early /\ todo' = todo
        /\ phase' \in Filled => phase \in Filled /\ (phase' = "reload" <=> phase = "reload")
    BY Zenon, <1>2 DEF Reap, ScanDone, WaitChild, sighup_handler, Unchanged
  <2> QED
    BY Zenon, <2>1, <2>2, <2>3, SitesFrame
<1>3. CASE Hook \/ Spawn \/ Leave
  <2>1. UNCHANGED <<vma_map, policy_registry, libc_base, g_watched_libs, layout, mapped,
                    section, parsed, pending, installed, todo, phase>>
    BY Zenon, <1>3 DEF Hook, DeniedSyscall, HandleTerm, Spawn, Fork, Arrive, Leave, Exit,
                       maps, loaderState, loader
  <2> QED
    BY Zenon, <2>1, SitesFrame
<1> QED
  BY Zenon, <1>1, <1>2, <1>3

LEMMA SitesStep ==
  ASSUME TypeOK, PolicyInv, WatchInv, SitesInv, [Next]_vars
  PROVE  SitesInv'
<1>1. CASE UNCHANGED vars
  BY Zenon, <1>1, SitesFrame DEF vars, maps, loader
<1>2. CASE signal_handler \/ LoaderDies \/ Dump \/ CleanUp \/ KillAndEnd
  BY Zenon, <1>2, EndedSites DEF signal_handler, LoaderDies, Dump, CleanUp, KillAndEnd
<1>3. CASE LoaderStep /\ ~(CleanUp \/ KillAndEnd)
  BY Zenon, <1>2, <1>3, StartSites, InstallSites, RegisterSites, ReloadSites, QuietSites
  DEF LoaderStep
<1>4. CASE (sighup_handler \/ Hook \/ Spawn \/ Leave) /\ ~(CleanUp \/ KillAndEnd)
  BY Zenon, <1>4, QuietSites
<1>5. CASE DlOpen \/ Rebuild
  BY Zenon, <1>5, OutsideSites
<1> QED
  BY Zenon, <1>1, <1>2, <1>3, <1>4, <1>5 DEF Next

-----------------------------------------------------------------------------
(* What the enforcer finds at a site a policy lists.                       *)

\* A site whose module and rule are found is refused for its caller range only.
LEMMA FoundAllowed ==
  ASSUME TypeOK, Child \in target_pid_map, NEW site, NEW nr,
         NEW id \in ModuleIds, NEW base \in Address,
         vma_map[Block(site)] = Given(id, base), policy_registry[id] \in Policy,
         policy_registry[id][Minus(site, base)] \in {nr, AnyNr},
         ~ sentinel_check(Child, site, nr, <<>>, TRUE)
  PROVE  /\ KnownVma(site)
         /\ cfi_policy[Minus(site, vma_map[Block(site)].base_addr)] # None
<1>1. /\ Given(id, base).module_id = id /\ Given(id, base).base_addr = base
      /\ Given(id, base) \in [module_id : ModuleIds, base_addr : Address]
  BY Zenon DEF Given
<1>2. KnownVma(site)
  BY Zenon, <1>1, EnforcerAssumption DEF KnownVma
<1>3. policy_registry[id] # None
  BY Zenon, EnforcerAssumption DEF Policy, Rules
<1>4. DOMAIN <<>> = {}
  OBVIOUS
<1>5. /\ vma_map[Block(site)].module_id = id /\ vma_map[Block(site)].base_addr = base
  BY Zenon, <1>1
<1>6. cfi_policy[Minus(site, base)] # None
  BY Zenon, <1>2, <1>3, <1>4, <1>5 DEF sentinel_check, SiteAllowed
<1> QED
  BY Zenon, <1>2, <1>5, <1>6

\* An object placed with a policy that has its sites is permitted them.
LEMMA FoundPermitted ==
  ASSUME TypeOK, Child \in target_pid_map, NEW o \in Objects, NEW id \in ModuleIds,
         NEW base \in Address, policy_registry[id] \in Policy,
         \A a \in Start(o) .. End(o) : vma_map[Block(a)] = Given(id, base),
         \A s \in SitesOf(o) :
           /\ Plus(Start(o), s[1]) \in Start(o) .. End(o)
           /\ policy_registry[id][Minus(Plus(Start(o), s[1]), base)] = s[2]
  PROVE  Permitted(o)
<1> SUFFICES ASSUME NEW s \in SitesOf(o), NEW nr \in Nrs, s[2] \in {nr, AnyNr},
                    ~ sentinel_check(Child, Plus(Start(o), s[1]), nr, <<>>, TRUE)
             PROVE  /\ KnownVma(Plus(Start(o), s[1]))
                    /\ cfi_policy[Minus(Plus(Start(o), s[1]),
                         vma_map[Block(Plus(Start(o), s[1]))].base_addr)] # None
  BY Zenon DEF Permitted
<1> DEFINE site == Plus(Start(o), s[1])
<1>1. /\ vma_map[Block(site)] = Given(id, base)
      /\ policy_registry[id][Minus(site, base)] \in {nr, AnyNr}
  BY Zenon
<1> QED
  BY Zenon, <1>1, FoundAllowed

\* The binary's sites.
LEMMA MainPermitted ==
  ASSUME IInv, SitesInv, phase \in Filled, Child \in target_pid_map,
         mapped \cap LibcNamed = {}, "main" \in mapped, Alone("main")
  PROVE  Permitted("main")
<1>1. TypeOK /\ "main" \in Objects /\ MODULE_MAIN \in ModuleIds
  BY Zenon, FixedIds DEF IInv, Objects
<1>2. Start("main") \in Address /\ policy_registry[MODULE_MAIN] \in Policy
  BY Zenon, <1>1, StartAddress DEF IInv, PolicyInv, Filled
<1>3. \A a \in Start("main") .. End("main") :
        vma_map[Block(a)] = Given(MODULE_MAIN, Start("main"))
  BY Zenon DEF SitesInv, PlaceInv, Placed, Given
<1>4. SitesOf("main") = {<<Minus(v, LoadBase), installed[v]>> : v \in
            {a \in Address : installed[a] # None /\ parsed[a] = installed[a]}}
  BY Zenon DEF SitesOf
<1>5. ASSUME NEW s \in SitesOf("main")
      PROVE  /\ Plus(Start("main"), s[1]) \in Start("main") .. End("main")
             /\ policy_registry[MODULE_MAIN][Minus(Plus(Start("main"), s[1]), Start("main"))]
                  = s[2]
  <2>1. PICK v \in Address : /\ s = <<Minus(v, LoadBase), installed[v]>>
                             /\ installed[v] # None /\ parsed[v] = installed[v]
    BY Zenon, <1>4, <1>5
  <2>2. s[1] = Minus(v, LoadBase) /\ s[2] = installed[v]
    BY Zenon, <2>1
  <2>3. s[1] \in Address /\ s[1] < layout["main"].size
    BY Zenon, <2>1, <2>2, Offsets DEF SitesInv, RulesInv, InMain
  <2>4. Plus(Start("main"), s[1]) \in Start("main") .. End("main")
    BY Zenon, <1>1, <2>3, SiteIn
  <2>5. Minus(Plus(Start("main"), s[1]), Start("main")) = s[1]
    BY Zenon, <1>2, <2>3, Wraps
  <2>6. Rule(v) = installed[v]
    BY Zenon, <2>1 DEF SitesInv, RulesInv
  <2> QED
    BY Zenon, <2>2, <2>4, <2>5, <2>6 DEF Rule
<1> QED
  BY Zenon, <1>1, <1>2, <1>3, <1>5, FoundPermitted

\* libc's policy once it is listed.
LEMMA ListedLibc ==
  ASSUME IInv, SitesInv, LibcListed
  PROVE  /\ "libc" \in mapped /\ policy_registry[MODULE_LIBC] \in Policy
         /\ policy_registry[MODULE_LIBC] = LibcPolicy
         /\ MODULE_LIBC \in ModuleIds
BY Zenon, FixedIds DEF IInv, SitesInv, ModuleInv, LibcListed, TypeOK

\* libc's sites.
LEMMA LibcPermitted ==
  ASSUME IInv, SitesInv, phase \in Filled, Child \in target_pid_map,
         mapped \cap LibcNamed = {}, "libc" \in mapped, Alone("libc"), LibcListed
  PROVE  Permitted("libc")
<1>1. TypeOK /\ "libc" \in Objects /\ layout \in Layouts
  BY Zenon DEF IInv, Objects, TypeOK
<1>2. Start("libc") \in Address
  BY Zenon, <1>1, StartAddress
<1>3. \A a \in Start("libc") .. End("libc") :
        vma_map[Block(a)] = Given(MODULE_LIBC, Start("libc"))
  BY Zenon DEF SitesInv, PlaceInv, Placed, Given
<1>4. SitesOf("libc") = {<<off, LibcRules[off]>> : off \in
                           {a \in Address : LibcRules[a] # None /\ LibcListed}}
  BY Zenon DEF SitesOf
<1>5. ASSUME NEW s \in SitesOf("libc")
      PROVE  /\ Plus(Start("libc"), s[1]) \in Start("libc") .. End("libc")
             /\ policy_registry[MODULE_LIBC][Minus(Plus(Start("libc"), s[1]), Start("libc"))]
                  = s[2]
  <2>1. PICK off \in Address : s = <<off, LibcRules[off]>> /\ LibcRules[off] # None
    BY Zenon, <1>4, <1>5
  <2>2. s[1] = off /\ s[2] = LibcRules[off]
    BY Zenon, <2>1
  <2>3. off < layout["libc"].size
    BY Zenon, <1>1, <2>1, ObjectAssumption
  <2>4. Plus(Start("libc"), off) \in Start("libc") .. End("libc")
    BY Zenon, <1>1, <2>3, SiteIn
  <2>5. Minus(Plus(Start("libc"), off), Start("libc")) = off
    BY Zenon, <1>2, Wraps
  <2>6. LibcPolicy[off] = LibcRules[off]
    BY Zenon, <2>1 DEF LibcPolicy
  <2> QED
    BY Zenon, <2>2, <2>4, <2>5, <2>6, ListedLibc
<1> QED
  BY Zenon, <1>1, <1>2, <1>3, <1>5, ListedLibc, FoundPermitted

\* ld.so's sites, stored as offsets from libc, which wrap when ld.so lies lower.
LEMMA LdPermitted ==
  ASSUME IInv, SitesInv, phase \in Filled, Child \in target_pid_map,
         mapped \cap LibcNamed = {}, "ld" \in mapped, Alone("ld"), LibcListed
  PROVE  Permitted("ld")
<1>1. /\ TypeOK /\ "ld" \in Objects /\ "libc" \in Objects /\ layout \in Layouts
      /\ "ld" \in Libs \cup {"ld"}
  BY Zenon DEF IInv, Objects, TypeOK
<1>2. Start("ld") \in Address /\ Start("libc") \in Address
  BY Zenon, <1>1, StartAddress
<1>3. "libc" \in mapped /\ libc_base = Start("libc")
  BY Zenon, ListedLibc DEF SitesInv, PlaceInv
<1>4. \A a \in Start("ld") .. End("ld") :
        vma_map[Block(a)] = Given(MODULE_LIBC, Start("libc"))
  BY Zenon, <1>3 DEF SitesInv, PlaceInv, Placed, Given
<1>5. SitesOf("ld") = {<<off, AnyNr>> : off \in {a \in SysSites["ld"] : LibcListed}}
  BY Zenon DEF SitesOf
<1>6. ASSUME NEW s \in SitesOf("ld")
      PROVE  /\ Plus(Start("ld"), s[1]) \in Start("ld") .. End("ld")
             /\ policy_registry[MODULE_LIBC][Minus(Plus(Start("ld"), s[1]), Start("libc"))]
                  = s[2]
  <2>1. PICK off \in SysSites["ld"] : s = <<off, AnyNr>>
    BY Zenon, <1>5, <1>6
  <2>2. s[1] = off /\ s[2] = AnyNr
    BY Zenon, <2>1
  <2>3. off \in Address /\ off < layout["ld"].size
    <3>1. off \in 0 .. layout["ld"].size - 1
      BY Zenon, <1>1, <2>1, ObjectAssumption
    <3> QED
      BY Zenon, <1>1, <3>1, OffsetIn
  <2> DEFINE site == Plus(Start("ld"), off)
             rel == Minus(site, Start("libc"))
  <2>4. site \in Start("ld") .. End("ld")
    BY Zenon, <1>1, <2>3, SiteIn
  <2>5. site \in Address /\ Minus(site, Start("ld")) = off
    BY Zenon, <1>2, <2>3, Wraps
  <2> HIDE DEF site
  <2>6. rel \in Address /\ Plus(Start("libc"), rel) = site
    BY Zenon, <1>2, <2>5, Wraps
  <2> HIDE DEF rel
  <2>7. LibcRules[rel] = None
    <3>1. SUFFICES ASSUME LibcRules[rel] # None PROVE FALSE
      BY Zenon
    <3>2. rel < layout["libc"].size
      BY Zenon, <1>1, <2>6, <3>1, ObjectAssumption
    <3>3. site \in Start("libc") .. End("libc")
      BY Zenon, <1>1, <2>6, <3>2, SiteIn
    <3>4. /\ Start("ld") \in Nat /\ layout["ld"].size \in Nat
          /\ Start("libc") \in Nat /\ layout["libc"].size \in Nat
          /\ End("ld") = Start("ld") + layout["ld"].size - 1
          /\ End("libc") = Start("libc") + layout["libc"].size - 1
      BY Zenon, <1>1, ObjectPlace
    <3>5. \/ Start("libc") + layout["libc"].size <= Start("ld")
          \/ Start("ld") + layout["ld"].size <= Start("libc")
      BY Zenon, <1>1, ObjectAssumption DEF Start
    <3>6. \A x, m, y, k \in Nat : \A z : z \in x .. (x + m - 1) /\ z \in y .. (y + k - 1)
            => ~(x + m <= y) /\ ~(y + k <= x)
      OBVIOUS
    <3> QED
      BY Zenon, <2>4, <3>3, <3>4, <3>5, <3>6
  <2>8. LibcPolicy[rel] = AnyNr
    BY Zenon, <1>3, <2>1, <2>5, <2>6, <2>7 DEF LibcPolicy
  <2>9. policy_registry[MODULE_LIBC][rel] = AnyNr
    BY Zenon, <2>8, ListedLibc
  <2> QED
    BY Zenon, <2>2, <2>4, <2>9 DEF site, rel
<1> QED
  BY Zenon, <1>1, <1>2, <1>4, <1>6, ListedLibc, FoundPermitted

\* The sites of a registered library.
LEMMA LibPermitted ==
  ASSUME IInv, SitesInv, phase \in Filled, Child \in target_pid_map,
         mapped \cap LibcNamed = {}, NEW o \in Libs, Alone(o), Tracked(o)
  PROVE  Permitted(o)
<1>1. TypeOK /\ o \in Objects /\ layout \in Layouts /\ o \in Libs \cup {"ld"}
  BY Zenon DEF IInv, Objects, TypeOK
<1>2. Start(o) \in Address
  BY Zenon, <1>1, StartAddress
<1>3. PICK i \in DOMAIN g_watched_libs : g_watched_libs[i].path = o
  BY Zenon DEF Tracked
<1> DEFINE id == g_watched_libs[i].id
<1>4. id \in ModuleIds
  <2>1. g_watched_libs[i] \in Watched
    BY <1>1 DEF TypeOK
  <2> QED
    BY Zenon, <2>1 DEF Watched
<1>5. policy_registry[id] = LibPolicy(o)
  BY Zenon, <1>3 DEF SitesInv, ModuleInv
<1>6. Placed(o, id, Start(o))
  BY Zenon, <1>3 DEF SitesInv, PlaceInv
<1> HIDE DEF id
<1>7. LibPolicy(o) \in Policy
  BY Zenon DEF LibPolicy, Policy, Rules
<1>8. \A a \in Start(o) .. End(o) : vma_map[Block(a)] = Given(id, Start(o))
  BY Zenon, <1>6 DEF Placed, Given
<1>9. SitesOf(o) = {<<off, AnyNr>> : off \in {a \in SysSites[o] : Tracked(o)}}
  BY LoaderAssumption DEF SitesOf
<1>10. ASSUME NEW s \in SitesOf(o)
       PROVE  /\ Plus(Start(o), s[1]) \in Start(o) .. End(o)
              /\ policy_registry[id][Minus(Plus(Start(o), s[1]), Start(o))] = s[2]
  <2>1. PICK off \in SysSites[o] : s = <<off, AnyNr>>
    BY Zenon, <1>9, <1>10
  <2>2. s[1] = off /\ s[2] = AnyNr
    BY Zenon, <2>1
  <2>3. off \in Address /\ off < layout[o].size
    <3>1. off \in 0 .. layout[o].size - 1
      BY Zenon, <1>1, <2>1, ObjectAssumption
    <3> QED
      BY Zenon, <1>1, <3>1, OffsetIn
  <2>4. Plus(Start(o), off) \in Start(o) .. End(o)
    BY Zenon, <1>1, <2>3, SiteIn
  <2>5. Minus(Plus(Start(o), off), Start(o)) = off
    BY Zenon, <1>2, <2>3, Wraps
  <2>6. LibPolicy(o)[off] = AnyNr
    BY Zenon, <2>1, <2>3 DEF LibPolicy
  <2> QED
    BY Zenon, <1>5, <2>2, <2>4, <2>5, <2>6
<1> QED
  BY Zenon, <1>1, <1>2, <1>4, <1>5, <1>7, <1>8, <1>10, FoundPermitted

LEMMA InitSites == Init => SitesInv
<1> SUFFICES ASSUME Init PROVE SitesInv
  BY Zenon
<1>1. layout \in Layouts /\ section = Builds[1] /\ parsed = EmptyPolicy
      /\ installed = EmptyPolicy /\ phase = "start"
  BY Zenon DEF Init
<1>2. 1 \in DOMAIN Builds
  <2>1. Builds \in Seq(Policy) /\ Builds # <<>>
    BY Zenon, LoaderAssumption
  <2> QED
    BY <2>1
<1>3. InMain(section)
  BY Zenon, <1>1, <1>2, ObjectAssumption DEF InMain
<1>4. InMain(parsed) /\ InMain(installed)
  BY Zenon, <1>1 DEF InMain, EmptyPolicy
<1>5. phase \notin Filled
  BY Zenon, <1>1 DEF Filled, Supervising
<1>6. DOMAIN g_watched_libs = {}
  BY DEF Init
<1>7. policy_registry[MODULE_LIBC] = None /\ todo = {}
  BY Zenon, FixedIds DEF Init, EnforcerInit
<1> QED
  BY Zenon, <1>3, <1>4, <1>5, <1>6, <1>7
  DEF SitesInv, RulesInv, ModuleInv, PlaceInv, LibcListed

\* main, populate_vma_for_module and sentinel_check: a syscall from a site a
\* policy lists, with the number it is bound to, is refused for no other reason
\* than its caller range, through every order of installing the policies,
\* registering libraries and storing the entries of a hot reload.
THEOREM ListedSitesAllowedAlways == Spec => []ListedSitesAllowed
<1>1. Init => SitesInv
  BY Zenon, InitSites
<1>2. IInv /\ SitesInv /\ [Next]_vars => SitesInv'
  BY Zenon, SitesStep DEF IInv
<1>3. IInv /\ SitesInv => ListedSitesAllowed
  <2> SUFFICES ASSUME IInv, SitesInv, phase \in Supervising, mapped \cap LibcNamed = {},
                      NEW o \in mapped, Alone(o)
               PROVE  Permitted(o)
    BY Zenon DEF ListedSitesAllowed
  <2>1. phase \in Filled /\ Child \in target_pid_map
    BY Zenon DEF Filled, IInv, ChildInv
  <2>2. CASE o = "main"
    BY Zenon, <2>1, <2>2, MainPermitted
  <2>3. CASE o \in {"libc", "ld"} /\ LibcListed
    BY Zenon, <2>1, <2>3, LibcPermitted, LdPermitted
  <2>4. CASE o \in {"libc", "ld"} /\ ~LibcListed
    <3>1. SitesOf(o) = {}
      BY <2>4 DEF SitesOf
    <3> QED
      BY Zenon, <3>1 DEF Permitted
  <2>5. CASE o \in Libs /\ Tracked(o)
    BY Zenon, <2>1, <2>5, LibPermitted
  <2>6. CASE o \in Libs /\ ~Tracked(o)
    <3>1. SitesOf(o) = {}
      BY <2>6, LoaderAssumption DEF SitesOf
    <3> QED
      BY Zenon, <3>1 DEF Permitted
  <2> QED
    BY Zenon, <2>2, <2>3, <2>4, <2>5, <2>6 DEF IInv, TypeOK, Objects
<1> QED
  BY <1>1, <1>2, <1>3, Inductive, PTL DEF Spec

=============================================================================
