--------------------------- MODULE MeiFilterProofs ---------------------------
(***************************************************************************)
(* Proofs about the ME message filter, for any number of senders, of       *)
(* kretprobe instances and of calls.                                       *)
(***************************************************************************)
EXTENDS MeiFilter, Integers, FiniteSetTheorems, TLAPS

-----------------------------------------------------------------------------
(* The probes.                                                             *)

\* Every step keeps the correspondence of stage and probes.
LEMMA ProbeStep ==
  ASSUME ProbeInv, [Next]_vars
  PROVE  ProbeInv'
<1>1. ASSUME UNCHANGED module PROVE ProbeInv'
  BY Zenon, <1>1 DEF module, ProbeInv
<1>2. CASE Module
  <2>1. CASE RegisterFamily
    BY Zenon, <2>1 DEF RegisterFamily, ProbeInv
  <2>2. CASE RegisterKretprobe
    BY <2>2 DEF RegisterKretprobe, ProbeInv
  <2>3. CASE RegisterKprobe
    BY <2>3 DEF RegisterKprobe, ProbeInv
  <2>4. CASE UnregisterKretprobe
    BY Zenon, <2>4 DEF UnregisterKretprobe, ProbeInv
  <2>5. CASE RegisterRecv
    BY Zenon, <2>5 DEF RegisterRecv, ProbeInv
  <2>6. CASE sentinel_mei_exit
    BY <2>6 DEF sentinel_mei_exit, ProbeInv
  <2>7. CASE UnregisterFamily
    BY Zenon, <2>7 DEF UnregisterFamily, ProbeInv
  <2> QED
    BY Zenon, <1>2, <2>1, <2>2, <2>3, <2>4, <2>5, <2>6, <2>7 DEF Module
<1>3. CASE UNCHANGED vars
  BY Zenon, <1>1, <1>3 DEF vars, module
<1>4. CASE WriteStrict
  BY Zenon, <1>1, <1>4 DEF WriteStrict
<1>5. ASSUME NEW s \in Senders,
             \/ \E c \in Clients : Call(s, c)
             \/ sentinel_mei_send_pre(s)
             \/ sentinel_mei_send_ret_entry(s)
             \/ Deliver(s)
             \/ sentinel_mei_send_ret_handler(s)
      PROVE  UNCHANGED module
  BY Zenon, <1>5
  DEF Call, sentinel_mei_send_pre, sentinel_mei_send_ret_entry, Deliver,
      sentinel_mei_send_ret_handler
<1> QED
  BY Zenon, <1>1, <1>2, <1>3, <1>4, <1>5 DEF Next

-----------------------------------------------------------------------------
(* The instances.                                                          *)

\* The module's steps: the data of the pool is reset only while no call holds an
\* instance, and the kretprobe takes all instances with it.
LEMMA InstanceModule ==
  ASSUME ProbeInv, InstanceInv, Module
  PROVE  InstanceInv'
<1>1. UNCHANGED <<at, decided, result>>
  BY Zenon DEF Module, call
<1>2. CASE UNCHANGED <<inst, data>> /\ (kret => kret')
  BY Zenon, <1>1, <1>2 DEF InstanceInv
<1>3. CASE RegisterKretprobe
  <2>1. /\ ~kret /\ inst' = inst /\ data' = [i \in Instances |-> "ALLOW"]
    BY Zenon, <1>3 DEF RegisterKretprobe, ProbeInv
  <2> QED
    BY Zenon, <1>1, <2>1 DEF InstanceInv
<1>4. CASE UnregisterKretprobe
  <2>1. inst' = [s \in Senders |-> 0] /\ data' = data
    BY Zenon, <1>4 DEF UnregisterKretprobe
  <2> QED
    BY Zenon, <1>1, <2>1 DEF InstanceInv
<1> QED
  BY <1>2, <1>3, <1>4
  DEF Module, RegisterFamily, RegisterKprobe, RegisterRecv, sentinel_mei_exit,
      UnregisterFamily

\* A call that starts holds no instance.
LEMMA InstanceCall ==
  ASSUME InstanceInv, NEW s \in Senders, NEW c \in Clients, Call(s, c)
  PROVE  InstanceInv'
<1>1. /\ at[s] = "idle" /\ at' = [at EXCEPT ![s] = "entry"]
      /\ decided' = [decided EXCEPT ![s] = Policy(c)]
      /\ result' = [result EXCEPT ![s] = "none"]
      /\ UNCHANGED <<inst, data, kret>>
  BY Zenon DEF Call, module
<1> QED
  BY <1>1 DEF InstanceInv

\* The entry handler takes a free instance and stores the decision in it.
LEMMA InstanceEntry ==
  ASSUME InstanceInv, NEW s \in Senders, sentinel_mei_send_ret_entry(s)
  PROVE  InstanceInv'
<1>1. UNCHANGED <<at, result, kret>> /\ at[s] = "entry" /\ kret
  BY Zenon DEF sentinel_mei_send_ret_entry, module
<1>2. CASE UNCHANGED <<inst, data, decided>>
  BY Zenon, <1>1, <1>2 DEF InstanceInv
<1>3. ASSUME NEW i \in Free,
             inst' = [inst EXCEPT ![s] = i],
             data' = [data EXCEPT ![i] = Stored(i, client[s])],
             decided' = [decided EXCEPT ![s] = Policy(client[s])]
      PROVE  InstanceInv'
  <2>1. i \in Instances /\ i # 0 /\ \A t \in Senders : inst[t] # i
    BY FilterAssumption DEF Free, Instances
  <2>2. /\ inst'[s] = i /\ data'[i] = Policy(client[s])
        /\ decided'[s] = Policy(client[s])
    BY Zenon, <1>3, <2>1 DEF InstanceInv, Stored
  <2>3. \A t \in Senders : t # s => inst'[t] = inst[t] /\ decided'[t] = decided[t]
    BY Zenon, <1>3 DEF InstanceInv
  <2>4. \A j \in Instances : j # i => data'[j] = data[j]
    BY Zenon, <1>3 DEF InstanceInv
  <2>5. /\ DOMAIN inst' = Senders /\ DOMAIN data' = Instances
        /\ DOMAIN decided' = Senders
    BY Zenon, <1>3 DEF InstanceInv
  <2>6. ASSUME NEW t \in Senders
        PROVE  /\ inst'[t] # 0 => /\ inst'[t] \in Instances /\ kret'
                                  /\ at'[t] # "idle"
                                  /\ data'[inst'[t]] = decided'[t]
                                  /\ \A u \in Senders : inst'[u] = inst'[t] => u = t
               /\ at'[t] # "idle" => result'[t] = "none"
               /\ result'[t] = "EPERM" => decided'[t] = "DENY"
    <3>1. CASE t = s
      BY Zenon, <1>1, <2>1, <2>2, <2>3, <3>1 DEF InstanceInv
    <3>2. CASE t # s
      BY <1>1, <2>1, <2>2, <2>3, <2>4, <3>2 DEF InstanceInv
    <3> QED
      BY Zenon, <3>1, <3>2
  <2> QED
    BY Zenon, <1>1, <2>5, <2>6 DEF InstanceInv
<1> QED
  BY Zenon, <1>2, <1>3 DEF sentinel_mei_send_ret_entry

\* The return handler acts on the instance of its own call and gives it back.
LEMMA InstanceReturn ==
  ASSUME InstanceInv, NEW s \in Senders, sentinel_mei_send_ret_handler(s)
  PROVE  InstanceInv'
<1>1. /\ at' = [at EXCEPT ![s] = "idle"] /\ inst' = [inst EXCEPT ![s] = 0]
      /\ result' = [result EXCEPT ![s] = IF Refuses(s) THEN "EPERM" ELSE "ok"]
      /\ UNCHANGED <<data, decided, kret>>
  BY Zenon DEF sentinel_mei_send_ret_handler, module
<1>2. Refuses(s) => decided[s] = "DENY"
  BY Zenon DEF Refuses, InstanceInv
<1> QED
  BY <1>1, <1>2 DEF InstanceInv

\* Every step keeps InstanceInv.
LEMMA InstanceStep ==
  ASSUME ProbeInv, InstanceInv, [Next]_vars
  PROVE  InstanceInv'
<1>1. CASE UNCHANGED <<inst, data, at, decided, result, kret>>
  BY Zenon, <1>1 DEF InstanceInv
<1>2. ASSUME NEW s \in Senders, Deliver(s)
      PROVE  InstanceInv'
  <2>1. /\ at[s] = "entry" /\ at' = [at EXCEPT ![s] = "return"]
        /\ UNCHANGED <<inst, data, decided, result, kret>>
    BY Zenon, <1>2 DEF Deliver, module
  <2> QED
    BY Zenon, <2>1 DEF InstanceInv
<1>3. ASSUME NEW s \in Senders, sentinel_mei_send_pre(s)
      PROVE  InstanceInv'
  BY Zenon, <1>1, <1>3 DEF sentinel_mei_send_pre, module
<1>4. CASE WriteStrict
  BY Zenon, <1>1, <1>4 DEF WriteStrict, module, call
<1>5. CASE UNCHANGED vars
  BY Zenon, <1>1, <1>5 DEF vars
<1> QED
  BY Zenon, <1>2, <1>3, <1>4, <1>5, InstanceModule, InstanceCall, InstanceEntry,
     InstanceReturn
  DEF Next

-----------------------------------------------------------------------------
(* The counters.                                                           *)

\* Blocking has a cardinality, and none when no call is under way.
LEMMA BlockingFinite ==
  /\ IsFiniteSet(Blocking) /\ Cardinality(Blocking) \in Nat
  /\ Idle => Blocking = {} /\ Cardinality(Blocking) = 0
<1>1. Blocking \in SUBSET Senders
  BY Zenon DEF Blocking
<1>2. IsFiniteSet(Blocking)
  BY Zenon, <1>1, FS_Subset, FilterAssumption
<1>3. Cardinality(Blocking) \in Nat
  BY Zenon, <1>2, FS_CardinalityType
<1>4. Idle => Blocking = {}
  BY Zenon DEF Idle, Blocking
<1> QED
  BY Zenon, <1>2, <1>3, <1>4, FS_EmptySet

\* A step of the module or a write of strict_mkhi either disturbs a call or
\* happens with no call under way; loading resets both counters.
LEMMA CountModule ==
  ASSUME CountInv, Module \/ WriteStrict
  PROVE  CountInv'
<1>1. UNCHANGED <<client, at, counted, looked>> /\ disturbed' = (disturbed \/ ~Idle)
  BY Zenon DEF Module, WriteStrict, call, Disturb
<1>2. \/ blocked' = 0 /\ refused' = 0
      \/ blocked' = blocked /\ refused' = refused
  BY
  DEF Module, WriteStrict, param, RegisterFamily, RegisterKretprobe, RegisterKprobe,
      UnregisterKretprobe, RegisterRecv, sentinel_mei_exit, UnregisterFamily
<1>3. SUFFICES ASSUME ~disturbed'
               PROVE  CallInv' /\ blocked' = refused' + Cardinality(Blocking')
  BY <1>1, <1>2 DEF CountInv
<1>4. ~disturbed /\ Idle
  BY <1>1, <1>3, Zenon
<1>5. Blocking' = {} /\ CallInv'
  BY Zenon, <1>1, <1>4 DEF Idle, Blocking, CallInv
<1>6. blocked = refused /\ Cardinality(Blocking') = 0
  BY <1>4, <1>5, BlockingFinite, FS_EmptySet DEF CountInv
<1> QED
  BY <1>2, <1>5, <1>6 DEF CountInv

\* A call starts uncounted.
LEMMA CountCall ==
  ASSUME InstanceInv, CountInv, NEW s \in Senders, NEW c \in Clients, Call(s, c)
  PROVE  CountInv'
<1>1. /\ at[s] = "idle" /\ at' = [at EXCEPT ![s] = "entry"]
      /\ client' = [client EXCEPT ![s] = c]
      /\ counted' = [counted EXCEPT ![s] = FALSE]
      /\ looked' = [looked EXCEPT ![s] = FALSE]
      /\ decided' = [decided EXCEPT ![s] = Policy(c)]
      /\ disturbed' = (disturbed \/ stage \notin {"out", "on"})
      /\ UNCHANGED <<stage, strict, inst, blocked, refused>>
  BY Zenon DEF Call, module
<1>2. SUFFICES ASSUME ~disturbed'
               PROVE  CallInv' /\ Blocking' = Blocking
  BY Zenon, <1>1 DEF CountInv
<1>3. ~disturbed /\ stage \in {"out", "on"} /\ CallInv
  BY Zenon, <1>1, <1>2 DEF CountInv
<1>4. at'[s] = "entry" /\ ~counted'[s] /\ ~looked'[s]
  BY Zenon, <1>1 DEF InstanceInv, CountInv
<1>5. \A t \in Senders : t # s =>
        /\ at'[t] = at[t] /\ client'[t] = client[t] /\ counted'[t] = counted[t]
        /\ looked'[t] = looked[t] /\ decided'[t] = decided[t]
  BY <1>1
<1>6. \A x : Policy(x)' = Policy(x)
  BY Zenon, <1>1 DEF Policy, Lookup
<1>7. Blocking' = Blocking
  BY <1>1, <1>4, <1>5, <1>6 DEF Blocking
<1>8. CallInv'
  BY <1>1, <1>3, <1>4, <1>5, <1>6 DEF CallInv
<1> QED
  BY Zenon, <1>7, <1>8

\* The kprobe counts a call once.
LEMMA CountPre ==
  ASSUME ProbeInv, CountInv, NEW s \in Senders, sentinel_mei_send_pre(s)
  PROVE  CountInv'
<1>1. /\ at[s] = "entry" /\ kpre /\ ~counted[s]
      /\ counted' = [counted EXCEPT ![s] = TRUE]
      /\ blocked' = IF Policy(client[s]) = "DENY" THEN blocked + 1 ELSE blocked
      /\ UNCHANGED <<stage, strict, client, at, looked, inst, decided, refused,
                     disturbed>>
  BY Zenon DEF sentinel_mei_send_pre, CountsAsBlocked, module
<1>2. SUFFICES ASSUME ~disturbed
               PROVE  CallInv' /\ blocked' = refused' + Cardinality(Blocking')
  BY <1>1 DEF CountInv
<1>3. /\ CallInv /\ blocked = refused + Cardinality(Blocking)
      /\ blocked \in Nat /\ refused \in Nat
  BY Zenon, <1>2 DEF CountInv
<1>4. counted'[s] /\ \A t \in Senders : t # s => counted'[t] = counted[t]
  BY Zenon, <1>1 DEF CountInv
<1>5. stage # "out"
  BY Zenon, <1>1 DEF ProbeInv
<1>6. \A x : Policy(x)' = Policy(x)
  BY Zenon, <1>1 DEF Policy, Lookup
<1>7. CallInv'
  BY Zenon, <1>1, <1>3, <1>4, <1>5, <1>6 DEF CallInv
<1>8. s \notin Blocking
  BY Zenon, <1>1 DEF Blocking
<1>9. CASE Policy(client[s]) = "DENY"
  <2>1. Blocking' = Blocking \cup {s}
    BY Zenon, <1>1, <1>4, <1>6, <1>9 DEF Blocking
  <2>2. Cardinality(Blocking') = Cardinality(Blocking) + 1
    BY Zenon, <1>8, <2>1, BlockingFinite, FS_AddElement
  <2> QED
    BY <1>1, <1>3, <1>7, <1>9, <2>2, BlockingFinite
<1>10. CASE Policy(client[s]) # "DENY"
  <2>1. Blocking' = Blocking
    BY Zenon, <1>1, <1>4, <1>6, <1>10 DEF Blocking
  <2> QED
    BY Zenon, <1>1, <1>3, <1>7, <1>10, <2>1
<1> QED
  BY Zenon, <1>9, <1>10

\* The kretprobe's entry handler: a call without an instance is disturbed.
LEMMA CountEntry ==
  ASSUME InstanceInv, CountInv, NEW s \in Senders, sentinel_mei_send_ret_entry(s)
  PROVE  CountInv'
<1>1. /\ looked' = [looked EXCEPT ![s] = TRUE]
      /\ UNCHANGED <<stage, strict, client, at, counted, blocked, refused>>
  BY Zenon DEF sentinel_mei_send_ret_entry, module
<1>2. SUFFICES ASSUME ~disturbed' PROVE CallInv' /\ Blocking' = Blocking /\ ~disturbed
  BY Zenon, <1>1 DEF CountInv
<1>3. PICK i \in Free :
        /\ inst' = [inst EXCEPT ![s] = i]
        /\ decided' = [decided EXCEPT ![s] = Policy(client[s])]
        /\ disturbed' = disturbed
  BY Zenon, <1>2 DEF sentinel_mei_send_ret_entry
<1>4. CallInv /\ ~disturbed
  BY Zenon, <1>2, <1>3 DEF CountInv
<1>5. inst'[s] = i /\ i # 0 /\ decided'[s] = Policy(client[s])
  BY <1>3, FilterAssumption DEF InstanceInv, Free, Instances
<1>6. \A t \in Senders : t # s =>
        inst'[t] = inst[t] /\ decided'[t] = decided[t] /\ looked'[t] = looked[t]
  BY <1>1, <1>3
<1>7. \A x : Policy(x)' = Policy(x)
  BY Zenon, <1>1 DEF Policy, Lookup
<1>8. looked'[s]
  BY Zenon, <1>1 DEF CountInv
<1>9. CallInv'
  BY <1>1, <1>4, <1>5, <1>6, <1>7, <1>8 DEF CallInv
<1> QED
  BY Zenon, <1>1, <1>4, <1>7, <1>9 DEF Blocking

\* The call proper: both handlers have run if they are registered.
LEMMA CountDeliver ==
  ASSUME ProbeInv, CountInv, NEW s \in Senders, Deliver(s)
  PROVE  CountInv'
<1>1. /\ at[s] = "entry" /\ at' = [at EXCEPT ![s] = "return"]
      /\ (kpre => counted[s]) /\ (kret => looked[s])
      /\ UNCHANGED <<stage, strict, client, counted, looked, inst, decided, blocked,
                     refused, disturbed>>
  BY Zenon DEF Deliver, module
<1>2. \A x : Policy(x)' = Policy(x)
  BY Zenon, <1>1 DEF Policy, Lookup
<1>3. \A t \in Senders : (at'[t] = "idle" <=> at[t] = "idle") /\ (t # s => at'[t] = at[t])
  BY <1>1
<1>4. Blocking' = Blocking
  BY Zenon, <1>1, <1>2, <1>3 DEF Blocking
<1>5. CallInv => CallInv'
  BY Zenon, <1>1, <1>2, <1>3 DEF CallInv, ProbeInv
<1> QED
  BY Zenon, <1>1, <1>4, <1>5 DEF CountInv

\* A call returns: it is refused exactly if it had been counted.
LEMMA CountReturn ==
  ASSUME ProbeInv, InstanceInv, CountInv, NEW s \in Senders,
         sentinel_mei_send_ret_handler(s)
  PROVE  CountInv'
<1>1. /\ at[s] = "return" /\ at' = [at EXCEPT ![s] = "idle"]
      /\ inst' = [inst EXCEPT ![s] = 0]
      /\ refused' = IF Refuses(s) THEN refused + 1 ELSE refused
      /\ UNCHANGED <<stage, strict, client, counted, looked, decided, blocked,
                     disturbed>>
  BY Zenon DEF sentinel_mei_send_ret_handler, module
<1>2. SUFFICES ASSUME ~disturbed
               PROVE  CallInv' /\ blocked' = refused' + Cardinality(Blocking')
  BY <1>1 DEF CountInv
<1>3. /\ CallInv /\ blocked = refused + Cardinality(Blocking)
      /\ blocked \in Nat /\ refused \in Nat
  BY Zenon, <1>2 DEF CountInv
<1>4. /\ at'[s] = "idle"
      /\ \A t \in Senders : t # s => at'[t] = at[t] /\ inst'[t] = inst[t]
  BY Zenon, <1>1 DEF InstanceInv
<1>5. \A x : Policy(x)' = Policy(x)
  BY Zenon, <1>1 DEF Policy, Lookup
<1>6. CallInv'
  BY <1>1, <1>3, <1>4, <1>5 DEF CallInv
<1>7. Refuses(s) <=> s \in Blocking
  <2>1. CASE stage = "out"
    BY Zenon, <1>1, <1>3, <2>1 DEF CallInv, InstanceInv, ProbeInv, Refuses, Blocking
  <2>2. CASE stage = "on"
    <3>1. /\ counted[s] /\ inst[s] # 0 /\ decided[s] = Policy(client[s])
          /\ data[inst[s]] = decided[s]
      BY Zenon, <1>1, <1>3, <2>2 DEF CallInv, InstanceInv
    <3> QED
      BY Zenon, <1>1, <3>1 DEF Refuses, Blocking
  <2> QED
    BY Zenon, <1>1, <1>3, <2>1, <2>2 DEF CallInv
<1>8. Blocking' = Blocking \ {s}
  BY Zenon, <1>1, <1>4, <1>5 DEF Blocking
<1>9. Cardinality(Blocking') = IF Refuses(s) THEN Cardinality(Blocking) - 1
                               ELSE Cardinality(Blocking)
  BY Zenon, <1>7, <1>8, BlockingFinite, FS_RemoveElement
<1> QED
  BY <1>1, <1>3, <1>6, <1>9, BlockingFinite

\* Every step keeps CountInv.
LEMMA CountStep ==
  ASSUME ProbeInv, InstanceInv, CountInv, [Next]_vars
  PROVE  CountInv'
<1>1. CASE UNCHANGED vars
  BY <1>1 DEF vars, CountInv, CallInv, Blocking, Policy, Lookup
<1> QED
  BY Zenon, <1>1, CountModule, CountCall, CountPre, CountEntry, CountDeliver, CountReturn
  DEF Next

-----------------------------------------------------------------------------
(* The theorems.                                                           *)

\* FilterInv holds of every behaviour.
LEMMA FilterAlways == Spec => []FilterInv
<1>1. Init => FilterInv
  <2> SUFFICES ASSUME Init PROVE FilterInv
    BY Zenon
  <2>1. ProbeInv /\ InstanceInv
    BY Zenon DEF Init, ProbeInv, InstanceInv
  <2>2. Idle /\ blocked = 0 /\ refused = 0
    BY Zenon DEF Init, Idle
  <2>3. CallInv
    BY Zenon DEF Init, CallInv
  <2>4. CountInv
    BY <2>2, <2>3, BlockingFinite DEF Init, CountInv
  <2> QED
    BY Zenon, <2>1, <2>4 DEF FilterInv
<1>2. FilterInv /\ [Next]_vars => FilterInv'
  BY Zenon, ProbeStep, InstanceStep, CountStep DEF FilterInv
<1> QED
  BY <1>1, <1>2, PTL DEF Spec

\* sentinel_mei_send_ret_handler refuses a call only by the policy that
\* sentinel_mei_send_ret_entry found for that very call, for any number of senders
\* and instances.
THEOREM OwnDecisionAlways == Spec => []OwnDecision
<1>1. FilterInv => OwnDecision
  BY Zenon DEF FilterInv, InstanceInv, OwnDecision
<1> QED
  BY <1>1, FilterAlways, PTL

\* mei_send_blocked is the number of refused calls whenever no call is under way,
\* unless a call met a (un)registration, a write of strict_mkhi or an empty pool.
THEOREM BlockedIsRefusedAlways == Spec => []BlockedIsRefused
<1>1. FilterInv => BlockedIsRefused
  BY BlockingFinite DEF FilterInv, CountInv, BlockedIsRefused
<1> QED
  BY <1>1, FilterAlways, PTL

\* sentinel_mei_init and sentinel_mei_exit leave no probe behind, whichever
\* registration fails and whatever calls are under way.
THEOREM NoProbeLeftAlways == Spec => []NoProbeLeft
<1>1. FilterInv => NoProbeLeft
  BY Zenon DEF FilterInv, ProbeInv, NoProbeLeft
<1> QED
  BY <1>1, FilterAlways, PTL

-----------------------------------------------------------------------------
(* Type correctness.                                                       *)

\* The calls that can still be counted or refused are finitely many.
LEMMA RoomFinite ==
  /\ IsFiniteSet(Uncounted) /\ Cardinality(Uncounted) \in Nat
  /\ IsFiniteSet(UnderWay) /\ Cardinality(UnderWay) \in Nat
<1>1. Uncounted \in SUBSET Senders /\ UnderWay \in SUBSET Senders
  BY Zenon DEF Uncounted, UnderWay
<1> QED
  BY Zenon, <1>1, FS_Subset, FS_CardinalityType, FilterAssumption

\* What is left of a set of senders has no more members.
LEMMA FewerSenders ==
  ASSUME NEW S \in SUBSET Senders, NEW T \in SUBSET S
  PROVE  Cardinality(S) \in Nat /\ Cardinality(T) \in Nat /\ Cardinality(T) <= Cardinality(S)
<1>1. IsFiniteSet(S)
  BY Zenon, FS_Subset, FilterAssumption
<1> QED
  BY Zenon, <1>1, FS_Subset, FS_CardinalityType

\* A step that makes no call and counts and refuses nothing keeps the room.
LEMMA RoomFrame ==
  ASSUME TypeOK, RoomInv, sends' = sends,
         blocked' = blocked \/ blocked' = 0, refused' = refused \/ refused' = 0,
         Uncounted' \subseteq Uncounted, UnderWay' \subseteq UnderWay
  PROVE  RoomInv' /\ blocked' \in 0 .. MaxSends /\ refused' \in 0 .. MaxSends
<1>1. /\ blocked \in 0 .. MaxSends /\ refused \in 0 .. MaxSends /\ sends \in 0 .. MaxSends
      /\ MaxSends \in Nat
  BY Zenon, FilterAssumption DEF TypeOK
<1>2. Uncounted \in SUBSET Senders /\ UnderWay \in SUBSET Senders
  BY Zenon DEF Uncounted, UnderWay
<1>3. /\ Cardinality(Uncounted) \in Nat /\ Cardinality(Uncounted') \in Nat
      /\ Cardinality(Uncounted') <= Cardinality(Uncounted)
  BY Zenon, <1>2, FewerSenders
<1>4. /\ Cardinality(UnderWay) \in Nat /\ Cardinality(UnderWay') \in Nat
      /\ Cardinality(UnderWay') <= Cardinality(UnderWay)
  BY Zenon, <1>2, FewerSenders
<1>5. /\ blocked + Cardinality(Uncounted) <= sends
      /\ refused + Cardinality(UnderWay) <= sends
  BY Zenon DEF RoomInv
<1>6. blocked' + Cardinality(Uncounted') <= sends' /\ blocked' \in 0 .. MaxSends
  BY <1>1, <1>3, <1>5
<1>7. refused' + Cardinality(UnderWay') <= sends' /\ refused' \in 0 .. MaxSends
  BY <1>1, <1>4, <1>5
<1> QED
  BY Zenon, <1>6, <1>7 DEF RoomInv

\* A client's policy is one of the three.
LEMMA PolicyType ==
  \A c \in Clients : Policy(c) \in Policies
BY Zenon DEF Policy, Lookup, Policies

\* Loading, unloading and writes of the parameter keep the types.
LEMMA ModuleTypes ==
  ASSUME TypeOK, RoomInv, Module \/ WriteStrict
  PROVE  TypeOK' /\ RoomInv'
<1>1. UNCHANGED <<client, at, counted, looked, sends, decided, result>>
  BY Zenon DEF Module, WriteStrict, call
<1>2. disturbed' \in BOOLEAN
  BY Zenon DEF Module, WriteStrict, Disturb
<1>3. /\ blocked' = blocked \/ blocked' = 0
      /\ refused' = refused \/ refused' = 0
  BY Zenon
  DEF Module, WriteStrict, param, RegisterFamily, RegisterKretprobe, RegisterKprobe,
      UnregisterKretprobe, RegisterRecv, sentinel_mei_exit, UnregisterFamily
<1>4. stage' \in {"out", "kretprobe", "kprobe", "recv", "undo", "on", "off1", "off2", "off3"}
  BY Zenon
  DEF Module, WriteStrict, RegisterFamily, RegisterKretprobe, RegisterKprobe,
      UnregisterKretprobe, RegisterRecv, sentinel_mei_exit, UnregisterFamily, TypeOK, module
<1>5. family' \in BOOLEAN /\ kret' \in BOOLEAN
  BY Zenon
  DEF Module, WriteStrict, RegisterFamily, RegisterKretprobe, RegisterKprobe,
      UnregisterKretprobe, RegisterRecv, sentinel_mei_exit, UnregisterFamily, TypeOK, module
<1>6. kpre' \in BOOLEAN /\ krecv' \in BOOLEAN
  BY Zenon
  DEF Module, WriteStrict, RegisterFamily, RegisterKretprobe, RegisterKprobe,
      UnregisterKretprobe, RegisterRecv, sentinel_mei_exit, UnregisterFamily, TypeOK, module
<1>7. strict' \in BOOLEAN
  BY Zenon
  DEF Module, WriteStrict, param, RegisterFamily, RegisterKretprobe, RegisterKprobe,
      UnregisterKretprobe, RegisterRecv, sentinel_mei_exit, UnregisterFamily, TypeOK
<1>8. inst' \in [Senders -> {0} \cup Instances] /\ data' \in [Instances -> Policies]
  BY Zenon
  DEF Module, WriteStrict, RegisterFamily, RegisterKretprobe, RegisterKprobe,
      UnregisterKretprobe, RegisterRecv, sentinel_mei_exit, UnregisterFamily, TypeOK,
      Policies
<1>9. Uncounted' = Uncounted /\ UnderWay' = UnderWay
  BY Zenon, <1>1 DEF Uncounted, UnderWay
<1>10. RoomInv' /\ blocked' \in 0 .. MaxSends /\ refused' \in 0 .. MaxSends
  BY Zenon, <1>1, <1>3, <1>9, RoomFrame
<1> QED
  BY Zenon, <1>1, <1>2, <1>4, <1>5, <1>6, <1>7, <1>8, <1>10 DEF TypeOK

\* A call brings the room it may use.
LEMMA CallTypes ==
  ASSUME TypeOK, RoomInv, NEW s \in Senders, NEW c \in Clients, Call(s, c)
  PROVE  TypeOK' /\ RoomInv'
<1>1. /\ at[s] = "idle" /\ sends < MaxSends /\ sends' = sends + 1
      /\ at' = [at EXCEPT ![s] = "entry"]
      /\ client' = [client EXCEPT ![s] = c]
      /\ counted' = [counted EXCEPT ![s] = FALSE]
      /\ looked' = [looked EXCEPT ![s] = FALSE]
      /\ decided' = [decided EXCEPT ![s] = Policy(c)]
      /\ result' = [result EXCEPT ![s] = "none"]
      /\ UNCHANGED <<stage, family, kret, kpre, krecv, strict, inst, data, blocked, refused>>
  BY Zenon DEF Call, module
<1>2. disturbed' \in BOOLEAN
  BY Zenon DEF Call
<1>3. /\ at \in [Senders -> {"idle", "entry", "return"}]
      /\ counted \in [Senders -> BOOLEAN]
  BY Zenon DEF TypeOK
<1>4. at' \in [Senders -> {"idle", "entry", "return"}] /\ client' \in [Senders -> Clients]
  BY Zenon, <1>1 DEF TypeOK
<1>5. counted' \in [Senders -> BOOLEAN] /\ looked' \in [Senders -> BOOLEAN]
  BY Zenon, <1>1 DEF TypeOK
<1>6. decided' \in [Senders -> Policies] /\ result' \in [Senders -> {"none", "ok", "EPERM"}]
  BY Zenon, <1>1, PolicyType DEF TypeOK
<1>7. /\ MaxSends \in Nat /\ sends \in 0 .. MaxSends
      /\ blocked \in 0 .. MaxSends /\ refused \in 0 .. MaxSends
  BY Zenon, FilterAssumption DEF TypeOK
<1>8. sends' \in 0 .. MaxSends
  BY <1>1, <1>7
<1>9. TypeOK'
  BY Zenon, <1>1, <1>2, <1>4, <1>5, <1>6, <1>8 DEF TypeOK
<1>10. at'[s] = "entry" /\ ~counted'[s]
       /\ \A t \in Senders : t # s => at'[t] = at[t] /\ counted'[t] = counted[t]
  BY Zenon, <1>1, <1>3
<1>11. Uncounted' = Uncounted \cup {s} /\ UnderWay' = UnderWay \cup {s}
  BY Zenon, <1>10 DEF Uncounted, UnderWay
<1>12. s \notin Uncounted /\ s \notin UnderWay
  BY <1>1 DEF Uncounted, UnderWay
<1>13. /\ Cardinality(Uncounted') = Cardinality(Uncounted) + 1
       /\ Cardinality(UnderWay') = Cardinality(UnderWay) + 1
  BY Zenon, <1>11, <1>12, RoomFinite, FS_AddElement
<1>14. RoomInv'
  <2>1. Cardinality(Uncounted) \in Nat /\ Cardinality(UnderWay) \in Nat
    BY Zenon, RoomFinite
  <2>2. /\ blocked + Cardinality(Uncounted) <= sends
        /\ refused + Cardinality(UnderWay) <= sends
    BY Zenon DEF RoomInv
  <2>3. /\ blocked' + Cardinality(Uncounted') <= sends'
        /\ refused' + Cardinality(UnderWay') <= sends'
    BY <1>1, <1>7, <1>13, <2>1, <2>2
  <2> QED
    BY Zenon, <2>3 DEF RoomInv
<1> QED
  BY Zenon, <1>9, <1>14

\* The kprobe counts a call that was not counted yet.
LEMMA PreTypes ==
  ASSUME TypeOK, RoomInv, NEW s \in Senders, sentinel_mei_send_pre(s)
  PROVE  TypeOK' /\ RoomInv'
<1>1. /\ at[s] = "entry" /\ ~counted[s]
      /\ counted' = [counted EXCEPT ![s] = TRUE]
      /\ blocked' = blocked \/ blocked' = blocked + 1
      /\ UNCHANGED <<stage, family, kret, kpre, krecv, strict, client, at, looked, inst,
                     data, sends, decided, result, refused, disturbed>>
  BY Zenon DEF sentinel_mei_send_pre, module
<1>2. counted \in [Senders -> BOOLEAN]
  BY Zenon DEF TypeOK
<1>3. counted' \in [Senders -> BOOLEAN] /\ counted'[s]
      /\ \A t \in Senders : t # s => counted'[t] = counted[t]
  BY Zenon, <1>1, <1>2
<1>4. Uncounted' = Uncounted \ {s} /\ s \in Uncounted /\ UnderWay' = UnderWay
  BY Zenon, <1>1, <1>3 DEF Uncounted, UnderWay
<1>5. Cardinality(Uncounted') = Cardinality(Uncounted) - 1
  BY Zenon, <1>4, RoomFinite, FS_RemoveElement
<1>6. /\ MaxSends \in Nat /\ sends \in 0 .. MaxSends /\ blocked \in 0 .. MaxSends
      /\ Cardinality(Uncounted) \in Nat /\ Cardinality(Uncounted') \in Nat
  <2>1. Uncounted' \in SUBSET Senders
    BY Zenon DEF Uncounted
  <2> QED
    BY Zenon, <2>1, FilterAssumption, RoomFinite, FewerSenders DEF TypeOK
<1>7. /\ blocked + Cardinality(Uncounted) <= sends
      /\ refused + Cardinality(UnderWay) <= sends
  BY Zenon DEF RoomInv
<1>8. blocked' + Cardinality(Uncounted') <= sends /\ blocked' \in 0 .. MaxSends
  BY <1>1, <1>5, <1>6, <1>7
<1>9. RoomInv'
  BY Zenon, <1>1, <1>4, <1>7, <1>8 DEF RoomInv
<1>10. TypeOK'
  BY Zenon, <1>1, <1>3, <1>8 DEF TypeOK
<1> QED
  BY Zenon, <1>9, <1>10

\* The kretprobe's entry handler stores a policy.
LEMMA EntryTypes ==
  ASSUME TypeOK, RoomInv, NEW s \in Senders, sentinel_mei_send_ret_entry(s)
  PROVE  TypeOK' /\ RoomInv'
<1>1. /\ looked' = [looked EXCEPT ![s] = TRUE]
      /\ UNCHANGED <<stage, family, kret, kpre, krecv, strict, client, at, counted,
                     blocked, sends, result, refused>>
  BY Zenon DEF sentinel_mei_send_ret_entry, module
<1>2. client[s] \in Clients
  BY Zenon DEF TypeOK
<1>3. /\ inst' \in [Senders -> {0} \cup Instances] /\ data' \in [Instances -> Policies]
      /\ decided' \in [Senders -> Policies] /\ disturbed' \in BOOLEAN
  <2>1. CASE UNCHANGED <<inst, data, decided>> /\ disturbed' = TRUE
    BY Zenon, <2>1 DEF TypeOK
  <2>2. ASSUME NEW i \in Free,
               inst' = [inst EXCEPT ![s] = i],
               data' = [data EXCEPT ![i] = Stored(i, client[s])],
               decided' = [decided EXCEPT ![s] = Policy(client[s])],
               UNCHANGED disturbed
        PROVE  /\ inst' \in [Senders -> {0} \cup Instances] /\ data' \in [Instances -> Policies]
               /\ decided' \in [Senders -> Policies] /\ disturbed' \in BOOLEAN
    <3>1. i \in Instances /\ Policy(client[s]) \in Policies /\ Stored(i, client[s]) \in Policies
      BY Zenon, <1>2, PolicyType DEF Free, Stored
    <3>2. inst' \in [Senders -> {0} \cup Instances]
      BY Zenon, <2>2, <3>1 DEF TypeOK
    <3>3. data' \in [Instances -> Policies] /\ decided' \in [Senders -> Policies]
      BY Zenon, <2>2, <3>1 DEF TypeOK
    <3> QED
      BY Zenon, <2>2, <3>2, <3>3 DEF TypeOK
  <2> QED
    BY Zenon, <2>1, <2>2 DEF sentinel_mei_send_ret_entry
<1>4. looked' \in [Senders -> BOOLEAN]
  BY Zenon, <1>1 DEF TypeOK
<1>5. TypeOK'
  BY Zenon, <1>1, <1>3, <1>4 DEF TypeOK
<1>6. Uncounted' = Uncounted /\ UnderWay' = UnderWay
  BY Zenon, <1>1 DEF Uncounted, UnderWay
<1> QED
  BY Zenon, <1>1, <1>5, <1>6, RoomFrame

\* The call proper.
LEMMA DeliverTypes ==
  ASSUME TypeOK, RoomInv, NEW s \in Senders, Deliver(s)
  PROVE  TypeOK' /\ RoomInv'
<1>1. /\ at[s] = "entry" /\ at' = [at EXCEPT ![s] = "return"]
      /\ UNCHANGED <<stage, family, kret, kpre, krecv, strict, client, counted, looked,
                     inst, data, blocked, sends, decided, result, refused, disturbed>>
  BY Zenon DEF Deliver, module
<1>2. at \in [Senders -> {"idle", "entry", "return"}]
  BY Zenon DEF TypeOK
<1>3. at' \in [Senders -> {"idle", "entry", "return"}] /\ at'[s] = "return"
      /\ \A t \in Senders : t # s => at'[t] = at[t]
  BY Zenon, <1>1, <1>2
<1>4. TypeOK'
  BY Zenon, <1>1, <1>3 DEF TypeOK
<1>5. Uncounted' \subseteq Uncounted /\ UnderWay' \subseteq UnderWay
  BY <1>1, <1>3 DEF Uncounted, UnderWay
<1> QED
  BY Zenon, <1>1, <1>4, <1>5, RoomFrame

\* A call that returns is refused at most once.
LEMMA ReturnTypes ==
  ASSUME TypeOK, RoomInv, NEW s \in Senders, sentinel_mei_send_ret_handler(s)
  PROVE  TypeOK' /\ RoomInv'
<1>1. /\ at[s] = "return" /\ at' = [at EXCEPT ![s] = "idle"]
      /\ inst' = [inst EXCEPT ![s] = 0]
      /\ result' = [result EXCEPT ![s] = IF Refuses(s) THEN "EPERM" ELSE "ok"]
      /\ refused' = refused \/ refused' = refused + 1
      /\ UNCHANGED <<stage, family, kret, kpre, krecv, strict, client, counted, looked,
                     data, blocked, sends, decided, disturbed>>
  BY Zenon DEF sentinel_mei_send_ret_handler, module
<1>2. at \in [Senders -> {"idle", "entry", "return"}]
  BY Zenon DEF TypeOK
<1>3. at' \in [Senders -> {"idle", "entry", "return"}] /\ at'[s] = "idle"
      /\ \A t \in Senders : t # s => at'[t] = at[t]
  BY Zenon, <1>1, <1>2
<1>4. /\ inst' \in [Senders -> {0} \cup Instances]
      /\ result' \in [Senders -> {"none", "ok", "EPERM"}]
  BY Zenon, <1>1 DEF TypeOK
<1>5. UnderWay' = UnderWay \ {s} /\ s \in UnderWay
  BY <1>1, <1>3 DEF UnderWay
<1>6. Uncounted' = Uncounted
  BY <1>1, <1>3 DEF Uncounted
<1>7. Cardinality(UnderWay') = Cardinality(UnderWay) - 1
  BY Zenon, <1>5, RoomFinite, FS_RemoveElement
<1>8. /\ MaxSends \in Nat /\ sends \in 0 .. MaxSends /\ refused \in 0 .. MaxSends
      /\ Cardinality(UnderWay) \in Nat /\ Cardinality(UnderWay') \in Nat
  <2>1. UnderWay' \in SUBSET Senders
    BY Zenon DEF UnderWay
  <2> QED
    BY Zenon, <2>1, FilterAssumption, RoomFinite, FewerSenders DEF TypeOK
<1>9. /\ blocked + Cardinality(Uncounted) <= sends
      /\ refused + Cardinality(UnderWay) <= sends
  BY Zenon DEF RoomInv
<1>10. refused' + Cardinality(UnderWay') <= sends /\ refused' \in 0 .. MaxSends
  BY <1>1, <1>7, <1>8, <1>9
<1>11. RoomInv'
  BY Zenon, <1>1, <1>6, <1>9, <1>10 DEF RoomInv
<1>12. TypeOK'
  BY Zenon, <1>1, <1>3, <1>4, <1>10 DEF TypeOK
<1> QED
  BY Zenon, <1>11, <1>12

\* The state of the filter keeps its types; in particular neither counter ever
\* exceeds the number of calls of mei_cldev_send, although the module is loaded and
\* unloaded around calls under way.
THEOREM FilterTypeCorrect == Spec => []TypeOK
<1>1. Init => TypeOK /\ RoomInv
  <2> SUFFICES ASSUME Init PROVE TypeOK /\ RoomInv
    BY Zenon
  <2>1. 0 \in 0 .. MaxSends
    BY FilterAssumption
  <2>2. family \in BOOLEAN /\ kret \in BOOLEAN /\ kpre \in BOOLEAN /\ krecv \in BOOLEAN
    BY Zenon DEF Init
  <2>3. TypeOK
    BY Zenon, <2>1, <2>2 DEF Init, TypeOK, Clients, Policies
  <2>4. Uncounted = {} /\ UnderWay = {}
    BY DEF Init, Uncounted, UnderWay
  <2>5. RoomInv
    BY <2>4, FS_EmptySet DEF Init, RoomInv
  <2> QED
    BY Zenon, <2>3, <2>5
<1>2. TypeOK /\ RoomInv /\ [Next]_vars => TypeOK' /\ RoomInv'
  <2> SUFFICES ASSUME TypeOK, RoomInv, [Next]_vars PROVE TypeOK' /\ RoomInv'
    BY Zenon
  <2>1. CASE UNCHANGED vars
    <3>1. /\ UNCHANGED <<stage, family, kret, kpre, krecv, strict, client, at, counted>>
          /\ UNCHANGED <<looked, inst, data, blocked, sends, decided, result, refused,
                         disturbed>>
      BY Zenon, <2>1 DEF vars
    <3>2. TypeOK'
      BY Zenon, <3>1 DEF TypeOK
    <3>3. Uncounted' = Uncounted /\ UnderWay' = UnderWay
      BY Zenon, <3>1 DEF Uncounted, UnderWay
    <3> QED
      BY Zenon, <3>1, <3>2, <3>3 DEF RoomInv
  <2> QED
    BY Zenon, <2>1, ModuleTypes, CallTypes, PreTypes, EntryTypes, DeliverTypes, ReturnTypes
    DEF Next
<1> QED
  BY <1>1, <1>2, PTL DEF Spec

=============================================================================
