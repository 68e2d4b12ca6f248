----------------------------- MODULE MeiFilter ------------------------------
(***************************************************************************)
(* The Linux module that watches and refuses messages to restricted ME     *)
(* clients (sentinel_mei_hook.c).  A kprobe on mei_cldev_send counts, a    *)
(* kretprobe on the same function looks the client up at entry, keeps the  *)
(* decision in its instance and overwrites the return value at exit.  The  *)
(* module is loaded and unloaded, and strict_mkhi is written, while any    *)
(* number of senders are inside mei_cldev_send.                            *)
(*                                                                         *)
(* The kernel's part (probes, instance pool) is modelled as the module     *)
(* uses it: maxactive instances, a call that finds none free runs without  *)
(* the handlers, and which of the two entry probes runs first is open.     *)
(***************************************************************************)
EXTENDS Naturals, FiniteSets

CONSTANTS
  Senders,    \* threads calling mei_cldev_send
  MaxActive,  \* krp_mei_send.maxactive
  MaxSends    \* bound: calls of mei_cldev_send

ASSUME FilterAssumption ==
  MaxActive \in Nat /\ MaxSends \in Nat /\ IsFiniteSet(Senders)

\* The clients the properties tell apart: an AMT service, MKHI, a client that is
\* not in the table, and one whose GUID cannot be read.
Clients == {"amt", "mkhi", "other", "unreadable"}
Policies == {"DENY", "LOG_ONLY", "ALLOW"}
Instances == 1 .. MaxActive

VARIABLES
  stage,      \* how far sentinel_mei_init or sentinel_mei_exit has got
  family,     \* the netlink family is registered
  kret,       \* krp_mei_send is registered
  kpre,       \* kp_mei_send is registered
  krecv,      \* kp_mei_recv is registered
  strict,     \* strict_mkhi
  client,     \* the client each sender is talking to
  at,         \* where each sender is: "idle", "entry" or "return"
  counted,    \* the kprobe has seen the call
  looked,     \* the kretprobe has seen the call
  inst,       \* the instance a call holds, 0 for none
  data,       \* the policy stored in each instance
  blocked,    \* mei_send_blocked
  sends,      \* history: calls made
  decided,    \* history: the policy that held for the call at its entry
  result,     \* what the last call of each sender returned
  refused,    \* history: calls that returned -EPERM
  disturbed   \* history: a call has overlapped a (un)registration, a write of
              \* strict_mkhi or an exhausted pool

module == <<stage, family, kret, kpre, krecv>>
call == <<client, at, counted, looked>>
vars == <<stage, family, kret, kpre, krecv, strict, client, at, counted, looked,
          inst, data, blocked, sends, decided, result, refused,
          disturbed>>

Idle == \A s \in Senders : at[s] = "idle"

TypeOK ==
  /\ stage \in {"out", "kretprobe", "kprobe", "recv", "undo", "on", "off1",
                "off2", "off3"}
  /\ family \in BOOLEAN /\ kret \in BOOLEAN /\ kpre \in BOOLEAN /\ krecv \in BOOLEAN
  /\ strict \in BOOLEAN
  /\ client \in [Senders -> Clients]
  /\ at \in [Senders -> {"idle", "entry", "return"}]
  /\ counted \in [Senders -> BOOLEAN]
  /\ looked \in [Senders -> BOOLEAN]
  /\ inst \in [Senders -> {0} \cup Instances]
  /\ data \in [Instances -> Policies]
  /\ blocked \in 0 .. MaxSends
  /\ sends \in 0 .. MaxSends
  /\ decided \in [Senders -> Policies]
  /\ result \in [Senders -> {"none", "ok", "EPERM"}]
  /\ refused \in 0 .. MaxSends
  /\ disturbed \in BOOLEAN

\* Mutated form of Lookup: no result for a GUID that is not in the table.
LookupNoDefault(c) ==
  IF c = "other" THEN "UNSET" ELSE IF c = "amt" \/ strict THEN "DENY" ELSE "LOG_ONLY"

\* sentinel_mei_lookup_guid
Lookup(c) ==
  IF c = "amt" \/ (c = "mkhi" /\ strict) THEN "DENY"
  ELSE IF c = "mkhi" THEN "LOG_ONLY" ELSE "ALLOW"

\* What a call with this client is worth, a GUID that cannot be read included.
Policy(c) == IF c = "unreadable" THEN "ALLOW" ELSE Lookup(c)

-----------------------------------------------------------------------------
(* Loading and unloading.                                                  *)

Init ==
  /\ stage = "out"
  /\ family = FALSE /\ kret = FALSE /\ kpre = FALSE /\ krecv = FALSE
  /\ strict \in BOOLEAN
  /\ client = [s \in Senders |-> "other"]
  /\ at = [s \in Senders |-> "idle"]
  /\ counted = [s \in Senders |-> FALSE]
  /\ looked = [s \in Senders |-> FALSE]
  /\ inst = [s \in Senders |-> 0]
  /\ data = [i \in Instances |-> "ALLOW"]
  /\ blocked = 0
  /\ sends = 0
  /\ decided = [s \in Senders |-> "ALLOW"]
  /\ result = [s \in Senders |-> "none"]
  /\ refused = 0
  /\ disturbed = FALSE

\* What a load of the module starts afresh: the parameter and the counters.
param == <<strict, blocked, refused>>

\* A (un)registration while calls are under way.
Disturb == disturbed' = (disturbed \/ ~Idle)

\* The four registrations of sentinel_mei_init.  A failure of the family or of
\* the kretprobe returns at once, one of the kprobe undoes the earlier two, and
\* one of the recv kprobe is tolerated.
RegisterFamily ==
  /\ stage = "out" /\ ~family
  /\ family' = TRUE
  /\ stage' = "kretprobe"
  /\ strict' \in BOOLEAN
  /\ blocked' = 0 /\ refused' = 0
  /\ UNCHANGED <<kret, kpre, krecv, inst, data>>

RegisterKretprobe ==
  /\ stage = "kretprobe"
  /\ \/ kret' = TRUE /\ stage' = "kprobe"
     \/ stage' = "out" /\ UNCHANGED kret
  /\ data' = [i \in Instances |-> "ALLOW"]
  /\ UNCHANGED <<family, kpre, krecv, inst, param>>

\* Mutated form of RegisterKprobe: its failure returns like the earlier ones.
RegisterKprobeReturns ==
  /\ stage = "kprobe"
  /\ \/ kpre' = TRUE /\ stage' = "recv"
     \/ stage' = "out" /\ UNCHANGED kpre
  /\ UNCHANGED <<family, kret, krecv, inst, data, param>>

RegisterKprobe ==
  /\ stage = "kprobe"
  /\ \/ kpre' = TRUE /\ stage' = "recv"
     \/ stage' = "undo" /\ UNCHANGED kpre
  /\ UNCHANGED <<family, kret, krecv, inst, data, param>>

\* Calls under way return without their handler; the pool goes with the probe.
UnregisterKretprobe ==
  /\ stage \in {"undo", "off2"}
  /\ kret' = FALSE
  /\ inst' = [s \in Senders |-> 0]
  /\ stage' = "off3"
  /\ UNCHANGED <<family, kpre, krecv, data, param>>

RegisterRecv ==
  /\ stage = "recv"
  /\ krecv' \in BOOLEAN
  /\ stage' = "on"
  /\ UNCHANGED <<family, kret, kpre, inst, data, param>>

sentinel_mei_exit ==
  /\ \/ stage = "on" /\ krecv' = FALSE /\ stage' = "off1" /\ UNCHANGED kpre
     \/ stage = "off1" /\ kpre' = FALSE /\ stage' = "off2" /\ UNCHANGED krecv
  /\ UNCHANGED <<family, kret, inst, data, param>>

UnregisterFamily ==
  /\ stage = "off3"
  /\ family' = FALSE
  /\ stage' = "out"
  /\ UNCHANGED <<kret, kpre, krecv, inst, data, param>>

Module ==
  /\ \/ RegisterFamily
     \/ RegisterKretprobe
     \/ RegisterKprobe
     \/ UnregisterKretprobe
     \/ RegisterRecv
     \/ sentinel_mei_exit
     \/ UnregisterFamily
  /\ Disturb
  /\ UNCHANGED <<call, sends, decided, result>>

\* A write to the module parameter, mode 0644.
WriteStrict ==
  /\ stage # "out"
  /\ strict' = ~strict
  /\ Disturb
  /\ UNCHANGED <<module, call, inst, data, blocked, sends, decided,
                 result, refused>>

-----------------------------------------------------------------------------
(* One call of mei_cldev_send.                                             *)

Call(s, c) ==
  /\ at[s] = "idle" /\ sends < MaxSends
  /\ at' = [at EXCEPT ![s] = "entry"]
  /\ client' = [client EXCEPT ![s] = c]
  /\ counted' = [counted EXCEPT ![s] = FALSE]
  /\ looked' = [looked EXCEPT ![s] = FALSE]
  /\ decided' = [decided EXCEPT ![s] = Policy(c)]
  /\ result' = [result EXCEPT ![s] = "none"]
  /\ sends' = sends + 1
  /\ disturbed' = (disturbed \/ stage \notin {"out", "on"})
  /\ UNCHANGED <<module, strict, inst, data, blocked, refused>>

\* Mutated form of CountsAsBlocked: MKHI counts although it is only logged.
CountsListed(c) == c \in {"amt", "mkhi"}
CountsAsBlocked(c) == Policy(c) = "DENY"

sentinel_mei_send_pre(s) ==
  /\ at[s] = "entry" /\ kpre /\ ~counted[s]
  /\ counted' = [counted EXCEPT ![s] = TRUE]
  /\ blocked' = IF CountsAsBlocked(client[s]) THEN blocked + 1 ELSE blocked
  /\ UNCHANGED <<module, strict, client, at, looked, inst, data, sends, decided,
                 result, refused, disturbed>>

Free == Instances \ {inst[s] : s \in Senders}

\* Mutated form of Stored: the instance is not reset before the GUID is read, so
\* what its last user left behind stays when that fails.
StoredStale(i, c) == IF c = "unreadable" THEN data[i] ELSE Lookup(c)
Stored(i, c) == Policy(c)

sentinel_mei_send_ret_entry(s) ==
  /\ at[s] = "entry" /\ kret /\ ~looked[s]
  /\ looked' = [looked EXCEPT ![s] = TRUE]
  /\ \/ /\ Free = {}
        /\ disturbed' = TRUE
        /\ UNCHANGED <<inst, data, decided>>
     \/ \E i \in Free :
          /\ inst' = [inst EXCEPT ![s] = i]
          /\ data' = [data EXCEPT ![i] = Stored(i, client[s])]
          /\ decided' = [decided EXCEPT ![s] = Policy(client[s])]
          /\ UNCHANGED disturbed
  /\ UNCHANGED <<module, strict, client, at, counted, blocked, sends,
                 result, refused>>

\* The body of mei_cldev_send: the message goes to the ME.
Deliver(s) ==
  /\ at[s] = "entry"
  /\ kpre => counted[s]
  /\ kret => looked[s]
  /\ at' = [at EXCEPT ![s] = "return"]
  /\ UNCHANGED <<module, strict, client, counted, looked, inst, data, blocked,
                 sends, decided, result, refused, disturbed>>

\* sentinel_mei_send_ret_handler, which does not run for a call without an instance.
Refuses(s) == inst[s] # 0 /\ data[inst[s]] = "DENY"

sentinel_mei_send_ret_handler(s) ==
  /\ at[s] = "return"
  /\ at' = [at EXCEPT ![s] = "idle"]
  /\ inst' = [inst EXCEPT ![s] = 0]
  /\ result' = [result EXCEPT ![s] = IF Refuses(s) THEN "EPERM" ELSE "ok"]
  /\ refused' = IF Refuses(s) THEN refused + 1 ELSE refused
  /\ UNCHANGED <<module, strict, client, counted, looked, data, blocked, sends,
                 decided, disturbed>>

Next ==
  \/ Module
  \/ WriteStrict
  \/ \E s \in Senders :
       \/ \E c \in Clients : Call(s, c)
       \/ sentinel_mei_send_pre(s)
       \/ sentinel_mei_send_ret_entry(s)
       \/ Deliver(s)
       \/ sentinel_mei_send_ret_handler(s)

Spec == Init /\ [][Next]_vars

-----------------------------------------------------------------------------
(* Properties.                                                             *)

\* A call is refused only by the decision taken at its own entry ("act on it
\* without races"): neither what an earlier call left in the kretprobe instance
\* nor a later write of strict_mkhi changes it.
OwnDecision ==
  \A s \in Senders : result[s] = "EPERM" => decided[s] = "DENY"

\* The counter printed as "HECI Send Blocked" is the number of calls that were
\* refused, when no call was under way, as long as no call has overlapped loading,
\* unloading, a change of strict_mkhi or an exhausted instance pool.
BlockedIsRefused == ~disturbed /\ Idle => blocked = refused

\* No probe outlives the module's code, whichever registration failed and however
\* many calls are under way: a handler would run from memory that has been freed.
NoProbeLeft == stage = "out" => ~kret /\ ~kpre /\ ~krecv

-----------------------------------------------------------------------------
(* The invariants behind them.                                             *)

\* Which probes are registered at each stage of loading and unloading.
ProbeInv ==
  /\ stage \in {"out", "kretprobe", "kprobe", "recv", "undo", "on", "off1", "off2", "off3"}
  /\ kret <=> stage \in {"kprobe", "undo", "recv", "on", "off1", "off2"}
  /\ kpre <=> stage \in {"recv", "on", "off1"}
  /\ krecv => stage = "on"

\* An instance belongs to one call and holds the decision of that call.
InstanceInv ==
  /\ DOMAIN at = Senders /\ DOMAIN inst = Senders /\ DOMAIN data = Instances
  /\ DOMAIN decided = Senders /\ DOMAIN result = Senders
  /\ \A s \in Senders :
       /\ inst[s] # 0 => /\ inst[s] \in Instances /\ kret /\ at[s] # "idle"
                        /\ data[inst[s]] = decided[s]
                        /\ \A t \in Senders : inst[t] = inst[s] => t = s
       /\ at[s] # "idle" => result[s] = "none"
       /\ result[s] = "EPERM" => decided[s] = "DENY"

\* The calls that have been counted as blocked and have not returned yet.
Blocking == {s \in Senders : at[s] # "idle" /\ counted[s] /\ Policy(client[s]) = "DENY"}

\* A call that nothing disturbs meets either both probes or none.
CallInv ==
  \A s \in Senders : at[s] # "idle" =>
    /\ stage \in {"out", "on"}
    /\ stage = "out" => ~counted[s]
    /\ stage = "on" /\ looked[s] => inst[s] # 0 /\ decided[s] = Policy(client[s])
    /\ stage = "on" /\ at[s] = "return" => counted[s] /\ looked[s]

CountInv ==
  /\ DOMAIN counted = Senders /\ DOMAIN looked = Senders /\ DOMAIN client = Senders
  /\ blocked \in Nat /\ refused \in Nat
  /\ ~disturbed => CallInv /\ blocked = refused + Cardinality(Blocking)

FilterInv == ProbeInv /\ InstanceInv /\ CountInv

\* Each call can still be counted once and refused once, which bounds the counters
\* by the number of calls.
Uncounted == {s \in Senders : at[s] = "entry" /\ ~counted[s]}
UnderWay == {s \in Senders : at[s] # "idle"}

RoomInv ==
  /\ blocked + Cardinality(Uncounted) <= sends
  /\ refused + Cardinality(UnderWay) <= sends
=============================================================================
