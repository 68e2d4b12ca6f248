----------------------------- MODULE AlertBridge -----------------------------
(***************************************************************************)
(* The cross-layer bridge of the VMI daemon (vmi/src/bridge.c): detectors  *)
(* signal a threat for a guest PID, a per-PID policy suppresses duplicates *)
(* and escalates bursts, and the surviving alerts reach the pinned         *)
(* vmi_alert_map and the downstream stream, either at once or when the     *)
(* main loop flushes the queue.                                            *)
(*                                                                         *)
(* The daemon has one thread.  The loop of bridge_flush_alerts is modelled *)
(* one alert per step, because Hyperion reads the map, the clock advances  *)
(* and the process may be killed between two of them; no other bridge call *)
(* can start before the loop has ended.                                    *)
(***************************************************************************)
EXTENDS Naturals, Sequences, FiniteSets

CONSTANTS
  Pids,              \* guest PIDs the detectors may name
  QueueSize,         \* ALERT_QUEUE_SIZE
  TableSize,         \* PID_POLICY_TABLE_SIZE
  EscalationCount,   \* POLICY_ESCALATION_COUNT
  EscalationWindow,  \* POLICY_ESCALATION_WINDOW_NS, in clock ticks
  DedupWindow,       \* POLICY_DEDUP_WINDOW_NS
  ReconnectBase,     \* STREAM_RECONNECT_BASE_NS
  ReconnectMax,      \* STREAM_RECONNECT_MAX_NS
  MaxTime,           \* bound: the clock stops here
  MaxAlerts          \* bound: alerts accepted into the queue

ASSUME PidsAssumption == Pids \subseteq Nat
ASSUME SizesAssumption == QueueSize \in Nat \ {0} /\ TableSize \in Nat \ {0}
ASSUME WindowsAssumption ==
  /\ EscalationCount \in Nat \ {0}
  /\ EscalationWindow \in Nat
  /\ DedupWindow \in Nat
ASSUME ReconnectAssumption ==
  /\ ReconnectBase \in Nat \ {0}
  /\ ReconnectMax \in Nat
  /\ ReconnectBase <= ReconnectMax
ASSUME BoundsAssumption == MaxTime \in Nat \ {0} /\ MaxAlerts \in Nat

CLEAN == 0
SUSPICIOUS == 1
MALICIOUS == 2
Levels == {CLEAN, SUSPICIOUS, MALICIOUS}
Threats == {SUSPICIOUS, MALICIOUS}

VARIABLES
  now,        \* CLOCK_MONOTONIC
  pc,         \* "idle" between bridge calls, "flush" in the flush loop, "exited"
  up,         \* bridge_init has returned
  cursor,     \* i of the flush loop
  resume,     \* what follows the flush: "return", "enqueue" or "close"
  pending,    \* the alert whose enqueue_alert call is waiting for the flush
  queue,      \* alert_queue[0 .. alert_count - 1]
  table,      \* policy_table
  mapOpen,    \* bpf_map_fd >= 0
  alertMap,   \* contents of the pinned map; survives the process
  streamOn,   \* stream_enabled
  streamUp,   \* stream_fd >= 0, or stream_helper_fp set
  retryAt,    \* stream_next_reconnect_ns
  backoff,    \* stream_reconnect_backoff_ns
  accepted,   \* history: number of alerts that entered the queue
  processed,  \* total_alerts_processed, split by alert
  lost        \* history: alerts dropped unprocessed by an init or a crash

control == <<pc, up, cursor, resume, pending>>
stream == <<streamOn, streamUp, retryAt, backoff>>
vars == <<now, pc, up, cursor, resume, pending, queue, table, mapOpen, alertMap,
          streamOn, streamUp, retryAt, backoff, accepted, processed, lost>>

Ids == 1 .. MaxAlerts
Slots == 0 .. TableSize - 1

\* struct queued_alert, with the identity the properties need
Alert == [id : Ids, pid : Pids, level : Threats, ts : Nat, sent : BOOLEAN]
NoPending == [pid |-> 0, level |-> CLEAN]

\* struct pid_policy_state
Slot == [pid : Nat, last : Levels, burst : Nat, start : Nat, emit : Nat,
         used : BOOLEAN]
EmptySlot == [pid |-> 0, last |-> CLEAN, burst |-> 0, start |-> 0, emit |-> 0,
              used |-> FALSE]
EmptyTable == [i \in Slots |-> EmptySlot]

TypeOK ==
  /\ now \in 1 .. MaxTime
  /\ pc \in {"idle", "flush", "exited"}
  /\ up \in BOOLEAN
  /\ queue \in Seq(Alert)
  /\ cursor \in Nat
  /\ resume \in {"return", "enqueue", "close"}
  /\ pending \in [pid : Pids, level : Threats] \cup {NoPending}
  /\ table \in [Slots -> Slot]
  /\ mapOpen \in BOOLEAN
  /\ alertMap \in [Pids -> Levels]
  /\ streamOn \in BOOLEAN
  /\ streamUp \in BOOLEAN
  /\ retryAt \in Nat
  /\ backoff \in Nat
  /\ accepted \in 0 .. MaxAlerts
  /\ processed \in [Ids -> Nat]
  /\ lost \in SUBSET Ids

-----------------------------------------------------------------------------
(* Alerts in the queue that have not been handed to the sinks yet.         *)

Unsent(k) == ~queue[k].sent /\ (pc = "flush" => cursor <= k)

Waiting == {queue[k].id : k \in {j \in DOMAIN queue : Unsent(j)}}

-----------------------------------------------------------------------------
(* The threat policy.                                                      *)

Least(S) == CHOOSE i \in S : \A j \in S : i <= j

SlotsOf(pid) == {i \in Slots : table[i].used /\ table[i].pid = pid}
FreeSlots == {i \in Slots : ~table[i].used}

\* Mutated forms of SlotFor: the hash slot taken even while another slot is free,
\* and a free slot taken even when the PID has one already.
HashedSlotFor(pid) ==
  IF SlotsOf(pid) # {} THEN Least(SlotsOf(pid)) ELSE pid % TableSize
FreeFirstSlotFor(pid) ==
  IF FreeSlots # {} THEN Least(FreeSlots) ELSE pid % TableSize

SlotFor(pid) ==
  IF SlotsOf(pid) # {} THEN Least(SlotsOf(pid))
  ELSE IF FreeSlots # {} THEN Least(FreeSlots)
  ELSE pid % TableSize

get_policy_state(pid) ==
  LET s == table[SlotFor(pid)]
  IN IF s.used /\ s.pid = pid THEN s
     ELSE [EmptySlot EXCEPT !.pid = pid, !.used = TRUE]

\* The state after the burst accounting of one signal.
Counted(s, requested) ==
  LET restart == s.start = 0 \/ now - s.start > EscalationWindow
      window == IF restart THEN [s EXCEPT !.start = now, !.burst = 0] ELSE s
  IN IF requested = SUSPICIOUS
     THEN [window EXCEPT !.burst = @ + 1]
     ELSE [s EXCEPT !.burst = 0, !.start = now]

\* EscalatesLate is the mutated form of Escalates.
EscalatesLate(requested, c) == requested = SUSPICIOUS /\ c.burst > EscalationCount
Escalates(requested, c) == requested = SUSPICIOUS /\ c.burst >= EscalationCount

\* Result of apply_threat_policy: the new table entry, the effective threat and
\* whether the alert is suppressed.
Policy(pid, requested) ==
  LET s == get_policy_state(pid)
      c == Counted(s, requested)
      escalated == Escalates(requested, c)
      effective == IF escalated THEN MALICIOUS ELSE requested
      suppress == /\ effective = s.last
                  /\ now - s.emit < DedupWindow
                  /\ ~escalated
  IN [entry |-> IF suppress THEN c
                ELSE [c EXCEPT !.last = effective, !.emit = now],
      level |-> effective,
      suppress |-> suppress]

-----------------------------------------------------------------------------
(* The two sinks of an alert.                                              *)

\* The kernel may refuse the update (map full, no memory), and nothing is
\* written while the map is not open.
write_alert_to_map(pid, level) ==
  \/ mapOpen /\ alertMap' = [alertMap EXCEPT ![pid] = level]
  \/ UNCHANGED alertMap

\* Mutated form of NextBackoff: doubling without the cap.
UncappedBackoff(b) == 2 * b

NextBackoff(b) == IF b < ReconnectMax \div 2 THEN 2 * b ELSE ReconnectMax

schedule_stream_reconnect(ts, b) ==
  /\ retryAt' = ts + b
  /\ backoff' = NextBackoff(b)

\* The stream is connected, or the back-off lets the alert's time stamp try.
ConnectDue(ts) == streamOn /\ ~streamUp /\ (retryAt = 0 \/ ts >= retryAt)
Reachable(ts) == streamOn /\ (streamUp \/ ConnectDue(ts))

StreamSkipped(ts) == ~Reachable(ts) /\ UNCHANGED stream

ConnectFails(ts) ==
  /\ ConnectDue(ts)
  /\ schedule_stream_reconnect(ts, backoff)
  /\ UNCHANGED <<streamOn, streamUp>>

StreamWritten(ts) ==
  /\ Reachable(ts)
  /\ streamUp' = TRUE
  /\ retryAt' = IF streamUp THEN retryAt ELSE 0
  /\ backoff' = IF streamUp THEN backoff ELSE ReconnectBase
  /\ UNCHANGED streamOn

StreamWriteFails(ts) ==
  /\ Reachable(ts)
  /\ streamUp' = FALSE
  /\ schedule_stream_reconnect(ts, IF streamUp THEN backoff ELSE ReconnectBase)
  /\ UNCHANGED streamOn

stream_send_alert(ts) ==
  \/ StreamSkipped(ts)
  \/ ConnectFails(ts)
  \/ StreamWritten(ts)
  \/ StreamWriteFails(ts)

emit_alert(a) ==
  /\ write_alert_to_map(a.pid, a.level)
  /\ stream_send_alert(a.ts)
  /\ processed' = [processed EXCEPT ![a.id] = @ + 1]

-----------------------------------------------------------------------------
(* The end of the process: only the pinned map survives it.                *)

ProcessGone(dropped) ==
  /\ pc' = "exited"
  /\ up' = FALSE
  /\ cursor' = 1
  /\ resume' = "return"
  /\ pending' = NoPending
  /\ queue' = <<>>
  /\ table' = EmptyTable
  /\ mapOpen' = FALSE
  /\ streamOn' = FALSE
  /\ streamUp' = FALSE
  /\ retryAt' = 0
  /\ backoff' = ReconnectBase
  /\ lost' = lost \cup dropped
  /\ UNCHANGED now

\* The daemon leaves SIGPIPE at its default action, so a write to a stream whose
\* reader has gone may end it: after the map update and before
\* total_alerts_processed is advanced.
KilledBySigpipe(a) ==
  /\ Reachable(a.ts)
  /\ write_alert_to_map(a.pid, a.level)
  /\ ProcessGone(Waiting \cup {a.id})
  /\ UNCHANGED processed

-----------------------------------------------------------------------------
(* Enqueueing and flushing.                                                *)

\* bridge_signal_malicious and an escalated bridge_signal_suspicious ask for
\* immediate emission.  NeverImmediate is its mutated form.
NeverImmediate(level) == FALSE
Immediate(level) == level = MALICIOUS

NewAlert(pid, level) ==
  [id |-> accepted + 1, pid |-> pid, level |-> level, ts |-> now,
   sent |-> Immediate(level)]

\* Mutated form of enqueue_alert: the new alert goes to the front of the queue.
enqueue_alert_front(q, pid, level) ==
  LET a == NewAlert(pid, level)
  IN /\ queue' = <<a>> \o q
     /\ accepted' = accepted + 1
     /\ IF Immediate(level) THEN emit_alert(a)
        ELSE UNCHANGED <<alertMap, stream, processed>>

\* enqueue_alert once there is room: q is the queue the alert is appended to.
enqueue_alert(q, pid, level) ==
  LET a == NewAlert(pid, level)
  IN /\ queue' = Append(q, a)
     /\ accepted' = accepted + 1
     /\ IF Immediate(level) THEN emit_alert(a)
        ELSE UNCHANGED <<alertMap, stream, processed>>

EnqueueKilled(pid, level) ==
  /\ Immediate(level)
  /\ KilledBySigpipe(NewAlert(pid, level))
  /\ accepted' = accepted + 1

\* Mutated form of StartLoop: the alert that found the queue full is forgotten.
StartLoopForgets(then, p) ==
  /\ pc' = "flush"
  /\ cursor' = 1
  /\ resume' = then
  /\ pending' = NoPending
  /\ UNCHANGED up

StartLoop(then, p) ==
  /\ pc' = "flush"
  /\ cursor' = 1
  /\ resume' = then
  /\ pending' = p
  /\ UNCHANGED up

LoopEnded ==
  /\ pc' = "idle"
  /\ cursor' = 1
  /\ resume' = "return"
  /\ pending' = NoPending
  /\ UNCHANGED up

-----------------------------------------------------------------------------
(* Actions.                                                                *)

Init ==
  /\ now = 1
  /\ pc = "idle"
  /\ up = FALSE
  /\ cursor = 1
  /\ resume = "return"
  /\ pending = NoPending
  /\ queue = <<>>
  /\ table = EmptyTable
  /\ mapOpen = FALSE
  /\ alertMap = [p \in Pids |-> CLEAN]
  /\ streamOn = FALSE
  /\ streamUp = FALSE
  /\ retryAt = 0
  /\ backoff = ReconnectBase
  /\ accepted = 0
  /\ processed = [i \in Ids |-> 0]
  /\ lost = {}

\* Called once by main, after the first detector pass has already signalled: the
\* queue and the policy table are wiped.  The stream configuration comes from the
\* environment, and opening the map may fail without being fatal.
bridge_init ==
  /\ pc = "idle" /\ ~up
  /\ up' = TRUE
  /\ queue' = <<>>
  /\ table' = EmptyTable
  /\ streamOn' \in BOOLEAN
  /\ streamUp' = FALSE
  /\ retryAt' = 0
  /\ backoff' = ReconnectBase
  /\ mapOpen' \in BOOLEAN
  /\ lost' = lost \cup Waiting
  /\ UNCHANGED <<now, pc, cursor, resume, pending, alertMap, accepted, processed>>

Signal(pid, requested) ==
  LET p == Policy(pid, requested)
      recorded == table' = [table EXCEPT ![SlotFor(pid)] = p.entry]
  IN /\ pc = "idle"
     /\ p.suppress \/ accepted < MaxAlerts
     /\ \/ /\ p.suppress
           /\ recorded
           /\ UNCHANGED <<now, control, queue, mapOpen, alertMap, stream,
                          accepted, processed, lost>>
        \/ /\ ~p.suppress
           /\ Len(queue) < QueueSize
           /\ recorded
           /\ enqueue_alert(queue, pid, p.level)
           /\ UNCHANGED <<now, control, mapOpen, lost>>
        \/ /\ ~p.suppress
           /\ Len(queue) < QueueSize
           /\ EnqueueKilled(pid, p.level)
        \/ /\ ~p.suppress
           /\ Len(queue) >= QueueSize
           /\ recorded
           /\ StartLoop("enqueue", [pid |-> pid, level |-> p.level])
           /\ UNCHANGED <<now, queue, mapOpen, alertMap, stream, accepted,
                          processed, lost>>

bridge_signal_malicious(pid) == Signal(pid, MALICIOUS)

bridge_signal_suspicious(pid) == Signal(pid, SUSPICIOUS)

\* Mutated form of bridge_flush_alerts: only a full queue is flushed.
FlushWhenFull ==
  /\ pc = "idle" /\ up
  /\ Len(queue) >= QueueSize
  /\ StartLoop("return", NoPending)
  /\ UNCHANGED <<now, queue, table, mapOpen, alertMap, stream, accepted,
                 processed, lost>>

\* main's call at the end of every pass of its loop; returns at once on an empty
\* queue.
bridge_flush_alerts ==
  /\ pc = "idle" /\ up
  /\ queue # <<>>
  /\ StartLoop("return", NoPending)
  /\ UNCHANGED <<now, queue, table, mapOpen, alertMap, stream, accepted,
                 processed, lost>>

\* Mutated form of FlushStep: alerts sent at once are sent again.
FlushStepResends ==
  /\ pc = "flush" /\ cursor <= Len(queue)
  /\ cursor' = cursor + 1
  /\ emit_alert(queue[cursor])
  /\ UNCHANGED <<now, pc, up, resume, pending, queue, table, mapOpen, accepted,
                 lost>>

\* One iteration of the flush loop.
FlushStep ==
  /\ pc = "flush" /\ cursor <= Len(queue)
  /\ \/ /\ queue[cursor].sent
        /\ cursor' = cursor + 1
        /\ UNCHANGED <<now, pc, up, resume, pending, queue, table, mapOpen,
                       alertMap, stream, accepted, processed, lost>>
     \/ /\ ~queue[cursor].sent
        /\ cursor' = cursor + 1
        /\ emit_alert(queue[cursor])
        /\ UNCHANGED <<now, pc, up, resume, pending, queue, table, mapOpen,
                       accepted, lost>>
     \/ /\ ~queue[cursor].sent
        /\ KilledBySigpipe(queue[cursor])
        /\ UNCHANGED accepted

\* alert_count = 0, and the caller of the flush goes on.
FlushDone ==
  /\ pc = "flush" /\ cursor > Len(queue)
  /\ \/ /\ resume = "return"
        /\ queue' = <<>>
        /\ LoopEnded
        /\ UNCHANGED <<now, table, mapOpen, alertMap, stream, accepted,
                       processed, lost>>
     \/ /\ resume = "enqueue"
        /\ enqueue_alert(<<>>, pending.pid, pending.level)
        /\ LoopEnded
        /\ UNCHANGED <<now, table, mapOpen, lost>>
     \/ /\ resume = "enqueue"
        /\ EnqueueKilled(pending.pid, pending.level)
     \/ /\ resume = "close"
        /\ ProcessGone({})
        /\ UNCHANGED <<alertMap, accepted, processed>>

\* SIGINT or SIGTERM has ended main's loop: flush, close the sinks and exit.
bridge_teardown ==
  /\ pc = "idle" /\ up
  /\ \/ /\ queue = <<>>
        /\ ProcessGone({})
        /\ UNCHANGED <<alertMap, accepted, processed>>
     \/ /\ queue # <<>>
        /\ StartLoop("close", NoPending)
        /\ UNCHANGED <<now, queue, table, mapOpen, alertMap, stream, accepted,
                       processed, lost>>

\* SIGKILL, the OOM killer, a fault: at any point, also inside the flush loop.
Crash ==
  /\ pc # "exited"
  /\ ProcessGone(Waiting)
  /\ UNCHANGED <<alertMap, accepted, processed>>

Restart ==
  /\ pc = "exited"
  /\ pc' = "idle"
  /\ UNCHANGED <<now, up, cursor, resume, pending, queue, table, mapOpen,
                 alertMap, stream, accepted, processed, lost>>

Tick ==
  /\ now < MaxTime
  /\ now' = now + 1
  /\ UNCHANGED <<control, queue, table, mapOpen, alertMap, stream, accepted,
                 processed, lost>>

Steps ==
  \/ bridge_init
  \/ \E p \in Pids : bridge_signal_malicious(p) \/ bridge_signal_suspicious(p)
  \/ bridge_flush_alerts
  \/ FlushStep
  \/ FlushDone
  \/ bridge_teardown
  \/ Restart
  \/ Tick

Next == Steps \/ Crash

Spec == Init /\ [][Next]_vars

-----------------------------------------------------------------------------
(* Properties.                                                             *)

\* Every alert that entered the queue is handed to the sinks exactly once: not
\* again by the flush after an immediate emission, and not left out, also when a
\* full queue forces a flush in the middle of enqueue_alert.  The exceptions are
\* the alerts still waiting and those an init or the end of the process dropped.
ExactlyOnce ==
  \A i \in Ids :
    processed[i] = IF i <= accepted /\ i \notin Waiting /\ i \notin lost
                   THEN 1 ELSE 0

\* A MALICIOUS alert, requested or escalated, never waits in the queue for the
\* next flush: enqueue_alert has already handed it to the sinks.
MaliciousDispatched ==
  \A k \in DOMAIN queue :
    queue[k].level = MALICIOUS => processed[queue[k].id] = 1

\* get_policy_state keeps at most one entry per PID, whatever evictions and
\* insertions came before, so a burst is never counted in two places.
OneSlotPerPid ==
  \A i, j \in Slots :
    table[i].used /\ table[j].used /\ table[i].pid = table[j].pid => i = j

\* schedule_stream_reconnect never pushes the next attempt further than the
\* maximal back-off into the future, although it adds the back-off to the time
\* stamp of the alert and not to the clock; a connected stream starts over from
\* the base back-off.
RetryBounded ==
  /\ retryAt <= now + ReconnectMax
  /\ streamUp => retryAt = 0 /\ backoff = ReconnectBase

\* A PID loses its burst and dedup state to another PID only when every entry of
\* the policy table is taken.
EvictOnlyWhenFull ==
  [][\A i \in Slots :
       table[i].used /\ table'[i].used /\ table'[i].pid # table[i].pid
         => FreeSlots = {}]_vars

\* No alert waits for ever: a later flush takes it, or the process ends.
NoAlertStuck == \A i \in Ids : (i \in Waiting) ~> (i \notin Waiting)

\* What bridge_signal_malicious prints ("Hyperion XDP will DROP all packets from
\* PID"): once the map marks a PID malicious, no bridge step lowers the mark.
MaliciousStands ==
  [][\A p \in Pids :
       alertMap[p] = MALICIOUS => alertMap'[p] = MALICIOUS]_vars

-----------------------------------------------------------------------------
(* The inductive invariant behind the safety properties.                   *)

\* The rest of an enqueue_alert call that had to flush can still take place.
FlushInv ==
  /\ cursor >= 1
  /\ pc = "flush" /\ resume = "enqueue" =>
       accepted < MaxAlerts /\ pending \in [pid : Pids, level : Threats]

\* The queue holds distinct alerts, accepted and not dropped, none from the
\* future, and exactly the malicious ones have been sent at once.
QueueInv ==
  /\ \A k \in DOMAIN queue :
       /\ queue[k].id <= accepted
       /\ queue[k].id \notin lost
       /\ queue[k].ts <= now
       /\ queue[k].sent <=> queue[k].level = MALICIOUS
  /\ \A j, k \in DOMAIN queue : queue[j].id = queue[k].id => j = k
  /\ \A i \in lost : i <= accepted

StreamInv ==
  /\ RetryBounded
  /\ ReconnectBase <= backoff /\ backoff <= ReconnectMax

IInv ==
  /\ TypeOK
  /\ FlushInv
  /\ QueueInv
  /\ ExactlyOnce
  /\ OneSlotPerPid
  /\ StreamInv
=============================================================================
