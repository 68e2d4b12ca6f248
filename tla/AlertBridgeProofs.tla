-------------------------- MODULE AlertBridgeProofs --------------------------
(***************************************************************************)
(* Proofs about AlertBridge, for every number of PIDs, every queue and     *)
(* table size, every window and every bound on the clock; and that it      *)
(* implements AlertService.  On top of IInv that proof needs the order of  *)
(* the queue: the alert under the flush loop's cursor is then the oldest   *)
(* that waits.  The last part is about AlertBurst: no burst is missed.     *)
(***************************************************************************)
EXTENDS AlertRefinement, AlertBurst, TLAPS, WellFoundedInduction

-----------------------------------------------------------------------------
(* The policy table.                                                       *)

\* A non-empty set of natural numbers has the minimum that Least names.
LEMMA LeastIn ==
  ASSUME NEW S \in SUBSET Nat, S # {}
  PROVE  Least(S) \in S /\ \A j \in S : Least(S) <= j
<1>1. PICK x \in S : \A y \in S : ~(<<y, x>> \in OpToRel(<, Nat))
  BY Zenon, NatLessThanWellFounded, WFMin
<1>2. \A y \in S : ~(y < x)
  BY Zenon, <1>1 DEF OpToRel
<1>3. \E i \in S : \A j \in S : i <= j
  BY <1>2
<1> QED
  BY Zenon, <1>3 DEF Least

\* The clock and the number of alerts are numbers.
LEMMA ClockAndCount ==
  ASSUME TypeOK
  PROVE  now \in Nat /\ now # 0 /\ 0 <= now /\ accepted \in Nat
<1>1. now \in 1 .. MaxTime /\ accepted \in 0 .. MaxAlerts
  BY Zenon DEF TypeOK
<1> QED
  BY <1>1, BoundsAssumption

\* The length of a history over two windows.
LEMMA WindowSizes ==
  /\ \A x : 0 \notin 1 .. x
  /\ \A c \in Nat \ {0} : \A n :
       n = 2 * (c - 1) + 1 =>
         /\ 1 \in 1 .. n /\ n \in 1 .. n
         /\ \A b \in 1 .. c - 1 : 1 \in 1 .. n - b - (c - 1)
OBVIOUS

\* get_policy_state always picks an entry of the table.
LEMMA SlotForIn ==
  ASSUME NEW pid \in Pids
  PROVE  SlotFor(pid) \in Slots
<1>1. SlotsOf(pid) \in SUBSET Nat /\ FreeSlots \in SUBSET Nat
  BY SizesAssumption DEF SlotsOf, FreeSlots, Slots
<1>2. SlotsOf(pid) # {} => Least(SlotsOf(pid)) \in Slots
  BY Zenon, <1>1, LeastIn DEF SlotsOf
<1>3. FreeSlots # {} => Least(FreeSlots) \in Slots
  BY Zenon, <1>1, LeastIn DEF FreeSlots
<1>4. pid % TableSize \in Slots
  BY PidsAssumption, SizesAssumption DEF Slots
<1> QED
  BY Zenon, <1>2, <1>3, <1>4 DEF SlotFor

\* apply_threat_policy yields a table entry for the PID it was asked about and a
\* threat level, and never turns a threat into CLEAN.
LEMMA PolicyTypes ==
  ASSUME TypeOK, NEW pid \in Pids, NEW r \in Threats
  PROVE  /\ Policy(pid, r).entry \in Slot
         /\ Policy(pid, r).entry.used
         /\ Policy(pid, r).entry.pid = pid
         /\ Policy(pid, r).level \in Threats
<1> DEFINE s == get_policy_state(pid)
<1> DEFINE c == Counted(s, r)
<1>1. s \in Slot /\ s.used /\ s.pid = pid
  BY Zenon, SlotForIn, PidsAssumption
  DEF TypeOK, get_policy_state, EmptySlot, Slot, Levels, CLEAN
<1>2. c \in Slot /\ c.used /\ c.pid = pid
  <2> HIDE DEF s
  <2>1. now \in Nat
    BY Zenon, ClockAndCount
  <2> DEFINE w == [s EXCEPT !.start = now, !.burst = 0]
  <2>2. w \in Slot /\ w.used /\ w.pid = pid
    BY Zenon, <1>1, <2>1 DEF Slot
  <2>3. \/ c = [s EXCEPT !.burst = @ + 1]
        \/ c = [w EXCEPT !.burst = @ + 1]
        \/ c = [s EXCEPT !.burst = 0, !.start = now]
    BY Zenon DEF Counted
  <2> HIDE DEF w, c
  <2>4. CASE c = [s EXCEPT !.burst = @ + 1]
    BY <1>1, <2>4 DEF Slot
  <2>5. CASE c = [w EXCEPT !.burst = @ + 1]
    BY <1>1, <2>1, <2>2, <2>5 DEF Slot
  <2>6. CASE c = [s EXCEPT !.burst = 0, !.start = now]
    BY Zenon, <1>1, <2>1, <2>6 DEF Slot
  <2> QED
    BY Zenon, <2>3, <2>4, <2>5, <2>6
<1>3. Policy(pid, r).level \in Threats
  BY Zenon DEF Policy, Threats
<1>4. /\ Policy(pid, r).entry \in Slot
      /\ Policy(pid, r).entry.used
      /\ Policy(pid, r).entry.pid = pid
  <2> DEFINE e == IF Escalates(r, c) THEN MALICIOUS ELSE r
  <2>1. e \in Levels
    BY Zenon DEF Threats, Levels
  <2>2. now \in Nat
    BY Zenon, ClockAndCount
  <2>3. Policy(pid, r).entry \in {c, [c EXCEPT !.last = e, !.emit = now]}
    BY Zenon DEF Policy
  <2> HIDE DEF c, e
  <2>4. [c EXCEPT !.last = e, !.emit = now] \in Slot
    BY Zenon, <1>2, <2>1, <2>2 DEF Slot
  <2>5. /\ [c EXCEPT !.last = e, !.emit = now].used
        /\ [c EXCEPT !.last = e, !.emit = now].pid = pid
    BY Zenon, <1>2 DEF Slot
  <2> QED
    BY Zenon, <1>2, <2>3, <2>4, <2>5
<1> QED
  BY Zenon, <1>3, <1>4

-----------------------------------------------------------------------------
(* Type correctness.                                                       *)

\* A new alert is well formed while there is an identity left for it.
LEMMA NewAlertType ==
  ASSUME TypeOK, accepted < MaxAlerts, NEW pid \in Pids, NEW level \in Threats
  PROVE  NewAlert(pid, level) \in Alert
<1>1. accepted + 1 \in Ids /\ now \in Nat
  BY BoundsAssumption DEF TypeOK, Ids
<1> QED
  BY Zenon, <1>1 DEF NewAlert, Alert, Immediate

\* The elements of the queue are alerts.
LEMMA QueueElements ==
  ASSUME TypeOK
  PROVE  /\ Len(queue) \in Nat
         /\ DOMAIN queue = 1 .. Len(queue)
         /\ \A k \in DOMAIN queue : queue[k] \in Alert
<1>1. queue \in Seq(Alert)
  BY Zenon DEF TypeOK
<1> QED
  BY <1>1

\* The flush loop is at an element of the queue.
LEMMA AtCursor ==
  ASSUME TypeOK, FlushInv, FlushStep
  PROVE  /\ cursor \in Nat /\ cursor \in DOMAIN queue
         /\ queue[cursor] \in Alert
<1>1. cursor \in Nat /\ cursor >= 1
  BY Zenon DEF FlushInv, TypeOK
<1>2. cursor <= Len(queue)
  BY Zenon DEF FlushStep
<1>3. cursor \in DOMAIN queue
  BY <1>1, <1>2, QueueElements
<1> QED
  BY Zenon, <1>1, <1>3, QueueElements

\* What appending does to the elements of a sequence.
LEMMA AppendElements ==
  ASSUME NEW S, NEW q \in Seq(S), NEW a \in S, NEW r, r = Append(q, a)
  PROVE  /\ Len(q) \in Nat /\ DOMAIN q = 1 .. Len(q)
         /\ DOMAIN r = 1 .. Len(q) + 1 /\ r[Len(q) + 1] = a
         /\ \A k \in 1 .. Len(q) : r[k] = q[k] /\ q[k] \in S
OBVIOUS

\* Nothing waits in an empty queue, and an empty queue is a good one.
LEMMA NoAlerts ==
  ASSUME DOMAIN queue' = {}, \A i \in lost' : i <= accepted'
  PROVE  Waiting' = {} /\ QueueInv'
BY Zenon DEF Waiting, QueueInv

LEMMA EmptiedQueue ==
  ASSUME queue' = <<>>, \A i \in lost' : i <= accepted'
  PROVE  Waiting' = {} /\ QueueInv'
<1>1. DOMAIN queue' = {}
  OBVIOUS
<1> QED
  BY Zenon, <1>1, NoAlerts

\* The alerts that wait are among the identities.
LEMMA WaitingIds ==
  ASSUME TypeOK
  PROVE  Waiting \in SUBSET Ids
<1>1. \A k \in DOMAIN queue : queue[k].id \in Ids
  BY Zenon, QueueElements DEF Alert
<1> QED
  BY Zenon, <1>1 DEF Waiting

\* NextBackoff stays a number, and between the base and the maximum.
LEMMA BackoffRange ==
  ASSUME NEW b \in Nat
  PROVE  /\ NextBackoff(b) \in Nat
         /\ ReconnectBase <= b /\ b <= ReconnectMax =>
              ReconnectBase <= NextBackoff(b) /\ NextBackoff(b) <= ReconnectMax
BY ReconnectAssumption DEF NextBackoff

\* Handing one alert to the sinks keeps their types.
LEMMA EmitTypes ==
  ASSUME TypeOK, NEW a \in Alert, emit_alert(a)
  PROVE  /\ alertMap' \in [Pids -> Levels]
         /\ streamOn' \in BOOLEAN /\ streamUp' \in BOOLEAN
         /\ retryAt' \in Nat /\ backoff' \in Nat
         /\ processed' \in [Ids -> Nat]
<1>1. alertMap' \in [Pids -> Levels]
  BY Zenon DEF emit_alert, write_alert_to_map, TypeOK, Alert, Threats, Levels
<1>2. processed' \in [Ids -> Nat]
  BY DEF emit_alert, TypeOK, Alert
<1>3. /\ streamOn' \in BOOLEAN /\ streamUp' \in BOOLEAN
      /\ retryAt' \in Nat /\ backoff' \in Nat
  <2>1. a.ts \in Nat
    BY Zenon DEF Alert
  <2>2. CASE StreamSkipped(a.ts)
    BY Zenon, <2>2 DEF StreamSkipped, stream, TypeOK
  <2>3. CASE ConnectFails(a.ts)
    <3>1. streamOn' = streamOn /\ streamUp' = streamUp
      BY Zenon, <2>3 DEF ConnectFails
    <3>2. retryAt' = a.ts + backoff /\ backoff' = NextBackoff(backoff)
      BY Zenon, <2>3 DEF ConnectFails, schedule_stream_reconnect
    <3>3. streamOn \in BOOLEAN /\ streamUp \in BOOLEAN /\ backoff \in Nat
      BY Zenon DEF TypeOK
    <3>4. NextBackoff(backoff) \in Nat
      BY Zenon, <3>3, BackoffRange
    <3> QED
      BY <2>1, <3>1, <3>2, <3>3, <3>4
  <2>4. CASE StreamWritten(a.ts)
    BY Zenon, <2>1, <2>4, ReconnectAssumption DEF StreamWritten, TypeOK
  <2>5. CASE StreamWriteFails(a.ts)
    <3> DEFINE b == IF streamUp THEN backoff ELSE ReconnectBase
    <3>1. b \in Nat
      BY Zenon, ReconnectAssumption DEF TypeOK
    <3>2. retryAt' = a.ts + b /\ backoff' = NextBackoff(b)
      BY Zenon, <2>5 DEF StreamWriteFails, schedule_stream_reconnect
    <3>3. streamUp' = FALSE /\ streamOn' = streamOn
      BY Zenon, <2>5 DEF StreamWriteFails
    <3>4. NextBackoff(b) \in Nat
      BY Zenon, <3>1, BackoffRange
    <3>5. streamOn \in BOOLEAN
      BY Zenon DEF TypeOK
    <3>6. streamOn' \in BOOLEAN /\ streamUp' \in BOOLEAN
      BY Zenon, <3>3, <3>5
    <3> HIDE DEF b
    <3>7. retryAt' \in Nat /\ backoff' \in Nat
      BY <2>1, <3>1, <3>2, <3>4
    <3> QED
      BY Zenon, <3>6, <3>7
  <2> QED
    BY Zenon, <2>2, <2>3, <2>4, <2>5 DEF emit_alert, stream_send_alert
<1> QED
  BY Zenon, <1>1, <1>2, <1>3

\* The end of the process leaves every volatile variable well formed.
LEMMA GoneTypes ==
  ASSUME TypeOK, NEW D \in SUBSET Ids, ProcessGone(D),
         alertMap' \in [Pids -> Levels], accepted' \in 0 .. MaxAlerts,
         processed' \in [Ids -> Nat]
  PROVE  TypeOK' /\ FlushInv'
<1>1. EmptyTable \in [Slots -> Slot]
  BY Zenon DEF EmptyTable, EmptySlot, Slot, Levels, CLEAN
<1>2. <<>> \in Seq(Alert)
  OBVIOUS
<1>3. lost' \in SUBSET Ids /\ now' \in 1 .. MaxTime
  BY Zenon DEF TypeOK, ProcessGone
<1>4. pc' = "exited" /\ cursor' = 1 /\ resume' = "return" /\ pending' = NoPending
  BY Zenon DEF ProcessGone
<1>5. up' = FALSE /\ mapOpen' = FALSE /\ streamOn' = FALSE /\ streamUp' = FALSE
  BY Zenon DEF ProcessGone
<1>6. queue' = <<>> /\ table' = EmptyTable /\ retryAt' = 0 /\ backoff' = ReconnectBase
  BY Zenon DEF ProcessGone
<1>7. FlushInv'
  BY <1>4 DEF FlushInv
<1>8. TypeOK'
  BY Zenon, <1>1, <1>2, <1>3, <1>4, <1>5, <1>6, ReconnectAssumption DEF TypeOK
<1> QED
  BY Zenon, <1>7, <1>8

\* A SIGPIPE in the middle of an emission, likewise.
LEMMA SigpipeTypes ==
  ASSUME TypeOK, NEW a \in Alert, KilledBySigpipe(a),
         accepted' \in 0 .. MaxAlerts
  PROVE  TypeOK' /\ FlushInv'
<1>1. alertMap' \in [Pids -> Levels]
  BY Zenon DEF KilledBySigpipe, write_alert_to_map, TypeOK, Alert, Threats, Levels
<1>2. processed' \in [Ids -> Nat]
  BY Zenon DEF KilledBySigpipe, TypeOK
<1>3. Waiting \cup {a.id} \in SUBSET Ids
  BY Zenon, WaitingIds DEF Alert
<1> QED
  BY Zenon, <1>1, <1>2, <1>3, GoneTypes DEF KilledBySigpipe

\* enqueue_alert keeps the types of everything it changes.
LEMMA EnqueueTypes ==
  ASSUME TypeOK, accepted < MaxAlerts, NEW q \in Seq(Alert),
         NEW pid \in Pids, NEW level \in Threats, enqueue_alert(q, pid, level)
  PROVE  /\ queue' \in Seq(Alert)
         /\ accepted' \in 0 .. MaxAlerts
         /\ alertMap' \in [Pids -> Levels]
         /\ streamOn' \in BOOLEAN /\ streamUp' \in BOOLEAN
         /\ retryAt' \in Nat /\ backoff' \in Nat
         /\ processed' \in [Ids -> Nat]
<1> DEFINE a == NewAlert(pid, level)
<1>1. a \in Alert
  BY Zenon, NewAlertType
<1>2. queue' = Append(q, a) /\ accepted' = accepted + 1
  BY Zenon DEF enqueue_alert
<1>3. Immediate(level) => emit_alert(a)
  BY Zenon DEF enqueue_alert
<1>4. ~Immediate(level) => UNCHANGED <<alertMap, stream, processed>>
  BY Zenon DEF enqueue_alert
<1> HIDE DEF a
<1>5. queue' \in Seq(Alert)
  BY <1>1, <1>2
<1>6. accepted' \in 0 .. MaxAlerts
  BY <1>2, BoundsAssumption DEF TypeOK
<1>7. CASE Immediate(level)
  BY Zenon, <1>1, <1>3, <1>5, <1>6, <1>7, EmitTypes
<1>8. CASE ~Immediate(level)
  BY Zenon, <1>4, <1>5, <1>6, <1>8 DEF stream, TypeOK
<1> QED
  BY Zenon, <1>7, <1>8

\* The control part of the type invariant.
ControlType ==
  /\ pc \in {"idle", "flush", "exited"}
  /\ up \in BOOLEAN
  /\ cursor \in Nat
  /\ resume \in {"return", "enqueue", "close"}
  /\ pending \in [pid : Pids, level : Threats] \cup {NoPending}

\* Starting and ending the flush loop keep the types of the control state.
LEMMA StartLoopTypes ==
  ASSUME TypeOK, NEW then \in {"return", "enqueue", "close"},
         NEW p \in [pid : Pids, level : Threats] \cup {NoPending},
         StartLoop(then, p)
  PROVE  ControlType'
BY Zenon DEF StartLoop, TypeOK, ControlType

\* The end of the loop also re-establishes FlushInv: no enqueue is pending.
LEMMA LoopEndedTypes ==
  ASSUME TypeOK, LoopEnded
  PROVE  ControlType' /\ FlushInv'
BY DEF LoopEnded, TypeOK, ControlType, FlushInv

\* A signal keeps the type invariant, in each of its four outcomes.
LEMMA SignalTypes ==
  ASSUME TypeOK, FlushInv, NEW pid \in Pids, NEW r \in Threats, Signal(pid, r)
  PROVE  TypeOK' /\ FlushInv'
<1> DEFINE p == Policy(pid, r)
           recorded == table' = [table EXCEPT ![SlotFor(pid)] = p.entry]
<1>1. p.entry \in Slot /\ p.level \in Threats
  BY Zenon, PolicyTypes
<1>2. pc = "idle"
  BY Zenon DEF Signal
<1>3. recorded => table' \in [Slots -> Slot]
  BY Zenon, <1>1, SlotForIn DEF TypeOK
<1>4. CASE /\ recorded
           /\ UNCHANGED <<now, control, queue, mapOpen, alertMap, stream,
                          accepted, processed, lost>>
  BY <1>3, <1>4 DEF TypeOK, FlushInv, control, stream
<1>5. CASE /\ accepted < MaxAlerts
           /\ recorded
           /\ enqueue_alert(queue, pid, p.level)
           /\ UNCHANGED <<now, control, mapOpen, lost>>
  <2>1. queue \in Seq(Alert)
    BY Zenon DEF TypeOK
  <2>2. /\ queue' \in Seq(Alert)
        /\ accepted' \in 0 .. MaxAlerts
        /\ alertMap' \in [Pids -> Levels]
        /\ streamOn' \in BOOLEAN /\ streamUp' \in BOOLEAN
        /\ retryAt' \in Nat /\ backoff' \in Nat
        /\ processed' \in [Ids -> Nat]
    BY Zenon, <1>1, <1>2, <1>5, <2>1, EnqueueTypes
  <2>3. FlushInv'
    BY Zenon, <1>2, <1>5 DEF FlushInv, control
  <2>4. TypeOK'
    BY Zenon, <1>3, <1>5, <2>2 DEF TypeOK, control
  <2> QED
    BY Zenon, <2>3, <2>4
<1>6. CASE accepted < MaxAlerts /\ EnqueueKilled(pid, p.level)
  <2>1. accepted' \in 0 .. MaxAlerts
    BY <1>6, BoundsAssumption DEF TypeOK, EnqueueKilled
  <2> QED
    BY Zenon, <1>1, <1>2, <1>6, <2>1, NewAlertType, SigpipeTypes DEF EnqueueKilled
<1>7. CASE /\ accepted < MaxAlerts
           /\ recorded
           /\ StartLoop("enqueue", [pid |-> pid, level |-> p.level])
           /\ UNCHANGED <<now, queue, mapOpen, alertMap, stream, accepted,
                          processed, lost>>
  <2>1. [pid |-> pid, level |-> p.level] \in [pid : Pids, level : Threats]
    BY Zenon, <1>1
  <2>2. FlushInv'
    BY <1>2, <1>7, <2>1 DEF FlushInv, StartLoop
  <2>3. TypeOK'
    BY Zenon, <1>3, <1>7, <2>1, StartLoopTypes DEF TypeOK, ControlType, stream
  <2> QED
    BY Zenon, <2>2, <2>3
<1> QED
  BY Zenon, <1>4, <1>5, <1>6, <1>7 DEF Signal

\* One iteration of the flush loop keeps the type invariant.
LEMMA FlushStepTypes ==
  ASSUME TypeOK, FlushInv, FlushStep
  PROVE  TypeOK' /\ FlushInv'
<1>1. queue[cursor] \in Alert
  BY Zenon, AtCursor
<1>2. CASE /\ cursor' = cursor + 1
           /\ UNCHANGED <<now, pc, up, resume, pending, queue, table, mapOpen,
                          alertMap, stream, accepted, processed, lost>>
  BY <1>2 DEF TypeOK, FlushInv, stream
<1>3. CASE /\ cursor' = cursor + 1
           /\ emit_alert(queue[cursor])
           /\ UNCHANGED <<now, pc, up, resume, pending, queue, table, mapOpen,
                          accepted, lost>>
  <2>1. /\ alertMap' \in [Pids -> Levels]
        /\ streamOn' \in BOOLEAN /\ streamUp' \in BOOLEAN
        /\ retryAt' \in Nat /\ backoff' \in Nat
        /\ processed' \in [Ids -> Nat]
    BY Zenon, <1>1, <1>3, EmitTypes
  <2>2. FlushInv'
    BY <1>3 DEF FlushInv, TypeOK
  <2>3. TypeOK'
    BY <1>3, <2>1 DEF TypeOK
  <2> QED
    BY Zenon, <2>2, <2>3
<1>4. CASE KilledBySigpipe(queue[cursor]) /\ UNCHANGED accepted
  <2>1. accepted' \in 0 .. MaxAlerts
    BY Zenon, <1>4 DEF TypeOK
  <2> QED
    BY Zenon, <1>1, <1>4, <2>1, SigpipeTypes
<1> QED
  BY Zenon, <1>2, <1>3, <1>4 DEF FlushStep

\* The end of the flush loop and what its caller does next keep it.
LEMMA FlushDoneTypes ==
  ASSUME TypeOK, FlushInv, FlushDone
  PROVE  TypeOK' /\ FlushInv'
<1>1. <<>> \in Seq(Alert)
  OBVIOUS
<1>2. resume = "enqueue" => accepted < MaxAlerts /\ pending.pid \in Pids /\ pending.level \in Threats
  BY Zenon DEF FlushDone, FlushInv
<1>3. CASE /\ queue' = <<>>
           /\ LoopEnded
           /\ UNCHANGED <<now, table, mapOpen, alertMap, stream, accepted,
                          processed, lost>>
  BY Zenon, <1>1, <1>3, LoopEndedTypes DEF TypeOK, ControlType, stream
<1>4. CASE /\ resume = "enqueue"
           /\ enqueue_alert(<<>>, pending.pid, pending.level)
           /\ LoopEnded
           /\ UNCHANGED <<now, table, mapOpen, lost>>
  <2>1. /\ queue' \in Seq(Alert)
        /\ accepted' \in 0 .. MaxAlerts
        /\ alertMap' \in [Pids -> Levels]
        /\ streamOn' \in BOOLEAN /\ streamUp' \in BOOLEAN
        /\ retryAt' \in Nat /\ backoff' \in Nat
        /\ processed' \in [Ids -> Nat]
    BY Zenon, <1>1, <1>2, <1>4, EnqueueTypes
  <2> QED
    BY Zenon, <1>4, <2>1, LoopEndedTypes DEF TypeOK, ControlType
<1>5. CASE resume = "enqueue" /\ EnqueueKilled(pending.pid, pending.level)
  <2>1. accepted' \in 0 .. MaxAlerts
    BY <1>2, <1>5, BoundsAssumption DEF TypeOK, EnqueueKilled
  <2> QED
    BY Zenon, <1>2, <1>5, <2>1, NewAlertType, SigpipeTypes DEF EnqueueKilled
<1>6. CASE ProcessGone({}) /\ UNCHANGED <<alertMap, accepted, processed>>
  BY Zenon, <1>6, GoneTypes DEF TypeOK
<1> QED
  BY Zenon, <1>3, <1>4, <1>5, <1>6 DEF FlushDone

\* Every step keeps the type invariant.
LEMMA TypeStep ==
  ASSUME TypeOK, FlushInv, [Next]_vars
  PROVE  TypeOK' /\ FlushInv'
<1>1. CASE bridge_init
  <2>1. EmptyTable \in [Slots -> Slot] /\ <<>> \in Seq(Alert)
    BY DEF EmptyTable, EmptySlot, Slot, Levels, CLEAN
  <2>2. lost' \in SUBSET Ids
    BY Zenon, <1>1, WaitingIds DEF bridge_init, TypeOK
  <2>3. FlushInv'
    BY Zenon, <1>1 DEF bridge_init, FlushInv
  <2>4. TypeOK'
    BY Zenon, <1>1, <2>1, <2>2, ReconnectAssumption DEF bridge_init, TypeOK
  <2> QED
    BY Zenon, <2>3, <2>4
<1>2. CASE \E p \in Pids : bridge_signal_malicious(p) \/ bridge_signal_suspicious(p)
  BY Zenon, <1>2, SignalTypes
  DEF bridge_signal_malicious, bridge_signal_suspicious, Threats
<1>3. CASE bridge_flush_alerts
  <2>1. FlushInv'
    BY <1>3 DEF bridge_flush_alerts, StartLoop, FlushInv
  <2>2. TypeOK'
    BY Zenon, <1>3, StartLoopTypes DEF bridge_flush_alerts, TypeOK, ControlType, stream
  <2> QED
    BY Zenon, <2>1, <2>2
<1>4. CASE FlushStep
  BY Zenon, <1>4, FlushStepTypes
<1>5. CASE FlushDone
  BY Zenon, <1>5, FlushDoneTypes
<1>6. CASE bridge_teardown
  <2>1. CASE ProcessGone({}) /\ UNCHANGED <<alertMap, accepted, processed>>
    BY Zenon, <2>1, GoneTypes DEF TypeOK
  <2>2. CASE /\ StartLoop("close", NoPending)
             /\ UNCHANGED <<now, queue, table, mapOpen, alertMap, stream,
                            accepted, processed, lost>>
    <3>1. FlushInv'
      BY <2>2 DEF StartLoop, FlushInv
    <3>2. TypeOK'
      BY Zenon, <2>2, StartLoopTypes DEF TypeOK, ControlType, stream
    <3> QED
      BY Zenon, <3>1, <3>2
  <2> QED
    BY Zenon, <1>6, <2>1, <2>2 DEF bridge_teardown
<1>7. CASE Restart
  BY Zenon, <1>7 DEF Restart, TypeOK, FlushInv, stream
<1>8. CASE Tick
  <2>1. now' \in 1 .. MaxTime
    BY <1>8, BoundsAssumption DEF Tick, TypeOK
  <2> QED
    BY <1>8, <2>1 DEF Tick, TypeOK, FlushInv, control, stream
<1>9. CASE Crash
  BY Zenon, <1>9, WaitingIds, GoneTypes DEF Crash, TypeOK
<1>10. CASE UNCHANGED vars
  BY <1>10 DEF vars, TypeOK, FlushInv
<1> QED
  BY Zenon, <1>1, <1>2, <1>3, <1>4, <1>5, <1>6, <1>7, <1>8, <1>9, <1>10
  DEF Next, Steps

-----------------------------------------------------------------------------
(* The policy table holds each PID at most once.                           *)

\* Recording a signal in the entry that get_policy_state picked keeps the table
\* free of duplicates.
LEMMA RecordedTable ==
  ASSUME TypeOK, OneSlotPerPid, NEW pid \in Pids, NEW r \in Threats,
         table' = [table EXCEPT ![SlotFor(pid)] = Policy(pid, r).entry]
  PROVE  OneSlotPerPid'
<1> DEFINE s == SlotFor(pid)
           e == Policy(pid, r).entry
<1>1. s \in Slots /\ e.used /\ e.pid = pid
  BY Zenon, SlotForIn, PolicyTypes
<1>2. table \in [Slots -> Slot]
  BY Zenon DEF TypeOK
<1>3. \A j \in Slots : table[j].used /\ table[j].pid = pid => j = s
  <2>1. CASE SlotsOf(pid) = {}
    BY Zenon, <2>1 DEF SlotsOf
  <2>2. CASE SlotsOf(pid) # {}
    <3>1. SlotsOf(pid) \in SUBSET Nat
      BY SizesAssumption DEF SlotsOf, Slots
    <3>2. s \in SlotsOf(pid)
      BY Zenon, <2>2, <3>1, LeastIn DEF SlotFor
    <3> QED
      BY Zenon, <3>2 DEF OneSlotPerPid, SlotsOf
  <2> QED
    BY Zenon, <2>1, <2>2
<1>4. table'[s] = e /\ \A j \in Slots : j # s => table'[j] = table[j]
  BY Zenon, <1>1, <1>2
<1> HIDE DEF s, e
<1> QED
  BY <1>1, <1>3, <1>4 DEF OneSlotPerPid

\* Every step keeps OneSlotPerPid.
LEMMA TableStep ==
  ASSUME TypeOK, OneSlotPerPid, [Next]_vars
  PROVE  OneSlotPerPid'
<1>1. ASSUME table' = table PROVE OneSlotPerPid'
  BY Zenon, <1>1 DEF OneSlotPerPid
<1>2. ASSUME table' = EmptyTable PROVE OneSlotPerPid'
  BY Zenon, <1>2 DEF OneSlotPerPid, EmptyTable, EmptySlot
<1>3. ASSUME NEW pid \in Pids, NEW r \in Threats, Signal(pid, r)
      PROVE  OneSlotPerPid'
  BY Zenon, <1>2, <1>3, RecordedTable
  DEF Signal, EnqueueKilled, KilledBySigpipe, ProcessGone
<1>4. CASE \E p \in Pids : bridge_signal_malicious(p) \/ bridge_signal_suspicious(p)
  BY Zenon, <1>3, <1>4
  DEF bridge_signal_malicious, bridge_signal_suspicious, Threats
<1>5. CASE bridge_init \/ Crash
  BY Zenon, <1>2, <1>5 DEF bridge_init, Crash, ProcessGone
<1>6. CASE FlushStep \/ FlushDone \/ bridge_teardown
  BY Zenon, <1>1, <1>2, <1>6
  DEF FlushStep, FlushDone, bridge_teardown, EnqueueKilled, KilledBySigpipe,
      ProcessGone
<1>7. CASE bridge_flush_alerts \/ Restart \/ Tick \/ UNCHANGED vars
  BY Zenon, <1>1, <1>7 DEF bridge_flush_alerts, Restart, Tick, vars
<1> QED
  BY Zenon, <1>4, <1>5, <1>6, <1>7 DEF Next, Steps

-----------------------------------------------------------------------------
(* The back-off of the stream.                                             *)

\* Sending an alert that is not from the future keeps the next connection attempt
\* within the maximal back-off.
LEMMA EmitStream ==
  ASSUME TypeOK, StreamInv, NEW a \in Alert, a.ts <= now, emit_alert(a),
         now' = now
  PROVE  StreamInv'
<1>1. a.ts \in Nat /\ now \in Nat /\ backoff \in Nat /\ retryAt \in Nat
  BY BoundsAssumption DEF Alert, TypeOK
<1>2. ASSUME NEW b \in Nat, ReconnectBase <= b, b <= ReconnectMax,
             streamUp' = FALSE, schedule_stream_reconnect(a.ts, b)
      PROVE  StreamInv'
  <2>1. retryAt' = a.ts + b /\ backoff' = NextBackoff(b)
    BY Zenon, <1>2 DEF schedule_stream_reconnect
  <2>2. ReconnectBase <= NextBackoff(b) /\ NextBackoff(b) <= ReconnectMax
    BY Zenon, <1>2, BackoffRange
  <2>3. a.ts + b <= now + ReconnectMax
    BY <1>1, <1>2, ReconnectAssumption
  <2> QED
    BY Zenon, <1>2, <2>1, <2>2, <2>3 DEF StreamInv, RetryBounded
<1>3. CASE StreamSkipped(a.ts)
  BY Zenon, <1>3 DEF StreamSkipped, stream, StreamInv, RetryBounded
<1>4. CASE ConnectFails(a.ts)
  <2>1. streamUp' = FALSE
    BY Zenon, <1>4 DEF ConnectFails, ConnectDue, TypeOK
  <2> QED
    BY Zenon, <1>1, <1>2, <1>4, <2>1 DEF ConnectFails, StreamInv
<1>5. CASE StreamWritten(a.ts)
  <2>1. retryAt' = 0 /\ backoff' = ReconnectBase
    BY Zenon, <1>5 DEF StreamWritten, StreamInv, RetryBounded
  <2> QED
    BY <1>1, <2>1, ReconnectAssumption DEF StreamInv, RetryBounded
<1>6. CASE StreamWriteFails(a.ts)
  <2> DEFINE b == IF streamUp THEN backoff ELSE ReconnectBase
  <2>1. b \in Nat /\ ReconnectBase <= b /\ b <= ReconnectMax
    BY <1>1, ReconnectAssumption DEF StreamInv
  <2>2. streamUp' = FALSE /\ schedule_stream_reconnect(a.ts, b)
    BY Zenon, <1>6 DEF StreamWriteFails
  <2> HIDE DEF b
  <2> QED
    BY Zenon, <1>2, <2>1, <2>2
<1> QED
  BY Zenon, <1>3, <1>4, <1>5, <1>6 DEF emit_alert, stream_send_alert

\* The end of the process resets the stream.
LEMMA GoneStream ==
  ASSUME TypeOK, NEW D, ProcessGone(D)
  PROVE  StreamInv'
<1>1. /\ streamUp' = FALSE /\ retryAt' = 0 /\ backoff' = ReconnectBase
      /\ now' = now
  BY Zenon DEF ProcessGone
<1>2. now \in Nat
  BY Zenon, ClockAndCount
<1> QED
  BY <1>1, <1>2, ReconnectAssumption DEF StreamInv, RetryBounded

\* A new alert carries the current time.
LEMMA EnqueueStream ==
  ASSUME TypeOK, StreamInv, accepted < MaxAlerts, NEW q, NEW pid \in Pids,
         NEW level \in Threats, enqueue_alert(q, pid, level), now' = now
  PROVE  StreamInv'
<1>1. CASE Immediate(level)
  <2>1. NewAlert(pid, level) \in Alert
    BY Zenon, NewAlertType
  <2>2. NewAlert(pid, level).ts <= now
    BY BoundsAssumption DEF NewAlert, TypeOK
  <2> QED
    BY Zenon, <1>1, <2>1, <2>2, EmitStream DEF enqueue_alert
<1>2. CASE ~Immediate(level)
  BY Zenon, <1>2 DEF enqueue_alert, stream, StreamInv, RetryBounded
<1> QED
  BY Zenon, <1>1, <1>2

\* Every step keeps StreamInv.
LEMMA StreamStep ==
  ASSUME TypeOK, FlushInv, QueueInv, StreamInv, [Next]_vars
  PROVE  StreamInv'
<1>1. ASSUME UNCHANGED <<now, stream>> PROVE StreamInv'
  BY Zenon, <1>1 DEF stream, StreamInv, RetryBounded
<1>2. ASSUME NEW pid \in Pids, NEW r \in Threats, Signal(pid, r)
      PROVE  StreamInv'
  BY Zenon, <1>1, <1>2, PolicyTypes, EnqueueStream, GoneStream
  DEF Signal, EnqueueKilled, KilledBySigpipe
<1>3. CASE \E p \in Pids : bridge_signal_malicious(p) \/ bridge_signal_suspicious(p)
  BY Zenon, <1>2, <1>3
  DEF bridge_signal_malicious, bridge_signal_suspicious, Threats
<1>4. CASE bridge_init
  <2>1. /\ streamUp' = FALSE /\ retryAt' = 0 /\ backoff' = ReconnectBase
        /\ now' = now
    BY Zenon, <1>4 DEF bridge_init
  <2>2. now \in Nat
    BY Zenon, ClockAndCount
  <2> QED
    BY <2>1, <2>2, ReconnectAssumption DEF StreamInv, RetryBounded
<1>5. CASE FlushStep
  <2>1. cursor \in DOMAIN queue /\ queue[cursor] \in Alert
    BY Zenon, <1>5, AtCursor
  <2>2. queue[cursor].ts <= now
    BY Zenon, <2>1 DEF QueueInv
  <2> QED
    BY Zenon, <1>1, <1>5, <2>1, <2>2, EmitStream, GoneStream
    DEF FlushStep, KilledBySigpipe
<1>6. CASE FlushDone
  <2>1. resume = "enqueue" => /\ accepted < MaxAlerts
                              /\ pending.pid \in Pids /\ pending.level \in Threats
    BY Zenon, <1>6 DEF FlushDone, FlushInv
  <2> QED
    BY Zenon, <1>1, <1>6, <2>1, EnqueueStream, GoneStream
    DEF FlushDone, EnqueueKilled, KilledBySigpipe
<1>7. CASE bridge_teardown \/ Crash
  BY Zenon, <1>1, <1>7, GoneStream DEF bridge_teardown, Crash
<1>8. CASE bridge_flush_alerts \/ Restart \/ UNCHANGED vars
  BY Zenon, <1>1, <1>8 DEF bridge_flush_alerts, Restart, stream, vars
<1>9. CASE Tick
  <2>1. now' = now + 1 /\ UNCHANGED stream
    BY Zenon, <1>9 DEF Tick
  <2>2. now \in Nat /\ retryAt \in Nat
    BY Zenon, ClockAndCount DEF TypeOK
  <2> QED
    BY <2>1, <2>2, ReconnectAssumption DEF stream, StreamInv, RetryBounded
<1> QED
  BY Zenon, <1>3, <1>4, <1>5, <1>6, <1>7, <1>8, <1>9 DEF Next, Steps

-----------------------------------------------------------------------------
(* Delivery.                                                               *)

\* The alerts of a sequence that were not sent at once.
UnsentOf(q) == {q[k].id : k \in {j \in DOMAIN q : ~q[j].sent}}

\* QueueInv of a sequence of alerts.
GoodQueue(q) ==
  /\ \A k \in DOMAIN q :
       /\ q[k].id <= accepted
       /\ q[k].id \notin lost
       /\ q[k].ts <= now
       /\ q[k].sent <=> q[k].level = MALICIOUS
  /\ \A j, k \in DOMAIN q : q[j].id = q[k].id => j = k

\* Appending a new alert, with or without immediate emission, keeps the delivery
\* invariant: an alert sent at once does not wait, any other does.
LEMMA EnqueueDelivery ==
  ASSUME TypeOK, accepted < MaxAlerts, NEW q \in Seq(Alert), GoodQueue(q),
         \A i \in lost : i <= accepted,
         ExactlyOnce, Waiting = UnsentOf(q),
         NEW pid \in Pids, NEW level \in Threats,
         enqueue_alert(q, pid, level), pc' = "idle", lost' = lost, now' = now
  PROVE  QueueInv' /\ ExactlyOnce'
<1> DEFINE a == NewAlert(pid, level)
           n == Len(q)
<1>1. /\ a \in Alert /\ a.id = accepted + 1 /\ a.ts = now
      /\ a.sent <=> Immediate(level)
      /\ a.level = level
  BY Zenon, NewAlertType DEF NewAlert
<1>2. accepted' = accepted + 1
  BY Zenon DEF enqueue_alert
<1>3. accepted \in Nat /\ now \in Nat /\ processed \in [Ids -> Nat]
  BY Zenon, ClockAndCount DEF TypeOK
<1>4. /\ processed' = IF Immediate(level)
                      THEN [processed EXCEPT ![accepted + 1] = @ + 1]
                      ELSE processed
  BY Zenon, <1>1 DEF enqueue_alert, emit_alert
<1> HIDE DEF a
<1>5. /\ n \in Nat /\ DOMAIN q = 1 .. n
      /\ DOMAIN queue' = 1 .. n + 1
      /\ queue'[n + 1] = a
      /\ \A k \in 1 .. n : queue'[k] = q[k] /\ q[k] \in Alert
  <2>1. queue' = Append(q, a)
    BY Zenon DEF enqueue_alert, a
  <2> QED
    BY <1>1, <2>1, AppendElements
<1> HIDE DEF n
<1>6. QueueInv'
  <2>1. \A k \in DOMAIN queue' :
          /\ queue'[k].id <= accepted'
          /\ queue'[k].id \notin lost'
          /\ queue'[k].ts <= now'
          /\ queue'[k].sent <=> queue'[k].level = MALICIOUS
    <3> SUFFICES ASSUME NEW k \in 1 .. n + 1
                 PROVE  /\ queue'[k].id <= accepted'
                        /\ queue'[k].id \notin lost'
                        /\ queue'[k].ts <= now'
                        /\ queue'[k].sent <=> queue'[k].level = MALICIOUS
      BY Zenon, <1>5
    <3>1. CASE k = n + 1
      <4>1. queue'[k] = a
        BY Zenon, <1>5, <3>1
      <4>2. accepted + 1 \notin lost
        BY <1>3
      <4> QED
        BY <1>1, <1>2, <1>3, <4>1, <4>2 DEF Immediate
    <3>2. CASE k \in 1 .. n
      <4>1. queue'[k] = q[k] /\ q[k] \in Alert /\ k \in DOMAIN q
        BY Zenon, <1>5, <3>2
      <4>2. q[k].id \in Nat
        BY <4>1 DEF Alert, Ids
      <4>3. /\ q[k].id <= accepted /\ q[k].id \notin lost /\ q[k].ts <= now
            /\ q[k].sent <=> q[k].level = MALICIOUS
        BY Zenon, <4>1 DEF GoodQueue
      <4> QED
        BY <1>2, <1>3, <4>1, <4>2, <4>3
    <3>3. n \in Nat
      BY Zenon, <1>5
    <3> QED
      BY <3>1, <3>2, <3>3
  <2>2. \A j, k \in DOMAIN queue' : queue'[j].id = queue'[k].id => j = k
    <3> SUFFICES ASSUME NEW j \in 1 .. n + 1, NEW k \in 1 .. n + 1,
                        queue'[j].id = queue'[k].id
                 PROVE  j = k
      BY Zenon, <1>5
    <3>1. ASSUME NEW i \in 1 .. n
          PROVE  /\ queue'[i].id = q[i].id /\ i \in DOMAIN q
                 /\ queue'[i].id # accepted + 1
      <4>1. queue'[i] = q[i] /\ q[i] \in Alert /\ i \in DOMAIN q
        BY Zenon, <1>5
      <4>2. q[i].id \in Nat /\ q[i].id <= accepted
        BY <4>1 DEF Alert, Ids, GoodQueue
      <4> QED
        BY <1>3, <4>1, <4>2
    <3>2. queue'[n + 1].id = accepted + 1 /\ n \in Nat
      BY Zenon, <1>1, <1>5
    <3>3. CASE j \in 1 .. n /\ k \in 1 .. n
      BY Zenon, <3>1, <3>3 DEF GoodQueue
    <3> QED
      BY <3>1, <3>2, <3>3
  <2>3. \A i \in lost' : i <= accepted'
    BY <1>2, <1>3 DEF TypeOK, Ids
  <2> QED
    BY Zenon, <2>1, <2>2, <2>3 DEF QueueInv
<1>7. Waiting' = IF Immediate(level) THEN Waiting ELSE Waiting \cup {accepted + 1}
  <2>1. Waiting' = {queue'[k].id : k \in {j \in DOMAIN queue' : ~queue'[j].sent}}
    BY Zenon DEF Waiting, Unsent
  <2> QED
    <3>1. \A k \in 1 .. n : queue'[k] = q[k]
      BY Zenon, <1>5
    <3>2. queue'[n + 1].id = accepted + 1 /\ (queue'[n + 1].sent <=> Immediate(level))
      BY Zenon, <1>1, <1>5
    <3>3. /\ DOMAIN q = 1 .. n /\ DOMAIN queue' = (1 .. n) \cup {n + 1}
          /\ n + 1 \notin 1 .. n
      BY <1>5
    <3>4. Waiting = {q[k].id : k \in {j \in 1 .. n : ~q[j].sent}}
      BY Zenon, <3>3 DEF UnsentOf
    <3> QED
      BY <2>1, <3>1, <3>2, <3>3, <3>4
<1>8. accepted + 1 \notin Waiting /\ accepted + 1 \notin lost
  <2>1. \A i \in Waiting : i <= accepted
    BY Zenon DEF UnsentOf, GoodQueue
  <2> QED
    BY <1>3, <2>1
<1>9. ExactlyOnce'
  <2> SUFFICES ASSUME NEW i \in Ids
               PROVE  processed'[i] = IF i <= accepted' /\ i \notin Waiting'
                                         /\ i \notin lost'
                                      THEN 1 ELSE 0
    BY Zenon DEF ExactlyOnce
  <2>1. processed[i] = IF i <= accepted /\ i \notin Waiting /\ i \notin lost
                       THEN 1 ELSE 0
    BY Zenon DEF ExactlyOnce
  <2>2. i \in Nat
    BY DEF Ids
  <2>3. CASE i = accepted + 1
    BY <1>2, <1>3, <1>4, <1>7, <1>8, <2>1, <2>3
  <2>4. CASE i # accepted + 1
    BY <1>2, <1>3, <1>4, <1>7, <2>1, <2>2, <2>4
  <2> QED
    BY Zenon, <2>3, <2>4
<1> QED
  BY Zenon, <1>6, <1>9

\* What the end of the process drops is what waited, and the alert it may have
\* interrupted: from then on they count as lost.
LEMMA GoneDelivery ==
  ASSUME TypeOK, QueueInv, ExactlyOnce, NEW D \in SUBSET Ids, ProcessGone(D),
         processed' = processed, accepted' \in Nat, accepted <= accepted',
         \A i \in Ids : i \in D <=> \/ i \in Waiting
                                    \/ accepted < i /\ i <= accepted'
  PROVE  QueueInv' /\ ExactlyOnce'
<1>1. queue' = <<>> /\ lost' = lost \cup D
  BY Zenon DEF ProcessGone
<1>2. accepted \in Nat /\ lost \in SUBSET Ids
  BY Zenon, ClockAndCount DEF TypeOK
<1>3. \A i \in Waiting : i <= accepted
  BY Zenon DEF Waiting, QueueInv
<1>4. Waiting' = {}
  BY <1>1 DEF Waiting
<1>5. \A i \in Ids : i \in Nat
  BY DEF Ids
<1>6. QueueInv'
  <2>1. \A i \in lost' : i <= accepted'
    BY <1>1, <1>2, <1>3, <1>5 DEF QueueInv
  <2> QED
    BY <1>1, <2>1 DEF QueueInv
<1>7. ExactlyOnce'
  BY <1>1, <1>2, <1>4, <1>5 DEF ExactlyOnce, QueueInv
<1> QED
  BY Zenon, <1>6, <1>7

\* An immediate emission cut short by SIGPIPE.
LEMMA KilledDelivery ==
  ASSUME TypeOK, QueueInv, ExactlyOnce, accepted < MaxAlerts,
         NEW pid \in Pids, NEW level \in Threats, EnqueueKilled(pid, level)
  PROVE  QueueInv' /\ ExactlyOnce'
<1>1. accepted \in Nat
  BY Zenon, ClockAndCount
<1>2. NewAlert(pid, level) \in Alert /\ NewAlert(pid, level).id = accepted + 1
  BY Zenon, NewAlertType DEF NewAlert
<1> DEFINE D == Waiting \cup {accepted + 1}
<1>3. D \in SUBSET Ids
  BY Zenon, <1>2, WaitingIds DEF Alert
<1>4. ProcessGone(D) /\ processed' = processed /\ accepted' = accepted + 1
  BY Zenon, <1>2 DEF EnqueueKilled, KilledBySigpipe
<1>5. \A i \in Ids : i \in D <=> \/ i \in Waiting
                                 \/ accepted < i /\ i <= accepted'
  BY <1>1, <1>4 DEF Ids
<1> HIDE DEF D
<1> QED
  BY <1>1, <1>3, <1>4, <1>5, GoneDelivery

\* A step that changes neither the queue nor what of it waits.
LEMMA FrameDelivery ==
  ASSUME TypeOK, QueueInv, ExactlyOnce, queue' = queue, accepted' = accepted,
         processed' = processed, lost' = lost, now' \in Nat, now <= now',
         Waiting' = Waiting
  PROVE  QueueInv' /\ ExactlyOnce'
<1>1. now \in Nat
  BY Zenon, ClockAndCount
<1>2. QueueInv'
  <2>1. ASSUME NEW k \in DOMAIN queue PROVE queue[k].ts <= now'
    <3>1. queue[k].ts \in Nat
      BY Zenon, QueueElements DEF Alert
    <3>2. queue[k].ts <= now
      BY Zenon DEF QueueInv
    <3> QED
      BY <1>1, <3>1, <3>2
  <2> QED
    BY Zenon, <2>1 DEF QueueInv
<1> QED
  BY Zenon, <1>2 DEF ExactlyOnce

\* One iteration of the flush loop.
LEMMA FlushStepDelivery ==
  ASSUME TypeOK, FlushInv, QueueInv, ExactlyOnce, FlushStep
  PROVE  QueueInv' /\ ExactlyOnce'
<1>1. /\ cursor \in DOMAIN queue /\ queue[cursor] \in Alert
      /\ pc = "flush"
      /\ DOMAIN queue \in SUBSET Nat /\ cursor \in Nat
  BY AtCursor, QueueElements DEF FlushStep
<1>2. now \in Nat
  BY Zenon, ClockAndCount
<1> DEFINE x == queue[cursor].id
<1>3. CASE /\ queue[cursor].sent
           /\ cursor' = cursor + 1
           /\ UNCHANGED <<now, pc, up, resume, pending, queue, table, mapOpen,
                          alertMap, stream, accepted, processed, lost>>
  <2>1. \A k \in DOMAIN queue : Unsent(k)' <=> Unsent(k)
    BY <1>1, <1>3 DEF Unsent
  <2>2. Waiting' = Waiting
    BY Zenon, <1>3, <2>1 DEF Waiting
  <2> QED
    BY <1>2, <1>3, <2>2, FrameDelivery
<1>4. CASE /\ ~queue[cursor].sent
           /\ cursor' = cursor + 1
           /\ emit_alert(queue[cursor])
           /\ UNCHANGED <<now, pc, up, resume, pending, queue, table, mapOpen,
                          accepted, lost>>
  <2>1. \A k \in DOMAIN queue : Unsent(k)' <=> Unsent(k) /\ k # cursor
    BY <1>1, <1>4 DEF Unsent
  <2>2. Unsent(cursor)
    BY <1>1, <1>4 DEF Unsent
  <2>3. Waiting' = Waiting \ {x} /\ x \in Waiting
    BY <1>1, <1>4, <2>1, <2>2 DEF Waiting, QueueInv
  <2>4. processed' = [processed EXCEPT ![x] = @ + 1]
    BY Zenon, <1>4 DEF emit_alert
  <2>5. x \in Ids /\ x <= accepted /\ x \notin lost
    BY Zenon, <1>1 DEF Alert, QueueInv
  <2>6. processed \in [Ids -> Nat]
    BY Zenon DEF TypeOK
  <2> HIDE DEF x
  <2>7. ExactlyOnce'
    BY <1>4, <2>3, <2>4, <2>5, <2>6 DEF ExactlyOnce
  <2>8. QueueInv'
    BY Zenon, <1>4 DEF QueueInv
  <2> QED
    BY Zenon, <2>7, <2>8
<1>5. CASE ~queue[cursor].sent /\ KilledBySigpipe(queue[cursor]) /\ UNCHANGED accepted
  <2>1. x \in Waiting
    BY <1>1, <1>5 DEF Waiting, Unsent
  <2>2. ProcessGone(Waiting) /\ processed' = processed
    BY Zenon, <1>5, <2>1 DEF KilledBySigpipe
  <2>3. accepted \in Nat
    BY Zenon, ClockAndCount
  <2> QED
    BY <1>5, <2>2, <2>3, WaitingIds, GoneDelivery DEF Ids
<1> QED
  BY Zenon, <1>3, <1>4, <1>5 DEF FlushStep

\* The end of the flush loop: nothing of the queue waits any more.
LEMMA FlushDoneDelivery ==
  ASSUME TypeOK, FlushInv, QueueInv, ExactlyOnce, FlushDone
  PROVE  QueueInv' /\ ExactlyOnce'
<1>1. Waiting = {}
  <2>1. pc = "flush" /\ cursor > Len(queue) /\ cursor \in Nat
    BY Zenon DEF FlushDone, TypeOK
  <2>2. \A k \in DOMAIN queue : ~(cursor <= k)
    BY <2>1, QueueElements
  <2> QED
    BY Zenon, <2>1, <2>2 DEF Waiting, Unsent
<1>2. resume = "enqueue" => /\ accepted < MaxAlerts
                            /\ pending.pid \in Pids /\ pending.level \in Threats
  BY Zenon DEF FlushDone, FlushInv
<1>3. accepted \in Nat
  BY Zenon, ClockAndCount
<1>4. CASE /\ queue' = <<>>
           /\ UNCHANGED <<now, table, mapOpen, alertMap, stream, accepted,
                          processed, lost>>
  <2>1. \A i \in lost' : i <= accepted'
    BY Zenon, <1>4 DEF QueueInv
  <2>2. Waiting' = {} /\ QueueInv'
    BY Zenon, <1>4, <2>1, EmptiedQueue
  <2> QED
    BY Zenon, <1>1, <1>4, <2>2 DEF ExactlyOnce
<1>5. CASE /\ resume = "enqueue"
           /\ enqueue_alert(<<>>, pending.pid, pending.level)
           /\ LoopEnded
           /\ UNCHANGED <<now, table, mapOpen, lost>>
  <2>1. GoodQueue(<<>>) /\ UnsentOf(<<>>) = {} /\ <<>> \in Seq(Alert)
    BY DEF GoodQueue, UnsentOf
  <2>2. \A i \in lost : i <= accepted
    BY Zenon DEF QueueInv
  <2> QED
    BY Zenon, <1>1, <1>2, <1>5, <2>1, <2>2, EnqueueDelivery DEF LoopEnded
<1>6. CASE resume = "enqueue" /\ EnqueueKilled(pending.pid, pending.level)
  BY Zenon, <1>2, <1>6, KilledDelivery
<1>7. CASE ProcessGone({}) /\ UNCHANGED <<alertMap, accepted, processed>>
  <2>1. \A i \in Ids : i \in {} <=> i \in Waiting \/ (accepted < i /\ i <= accepted')
    BY <1>1, <1>3, <1>7 DEF Ids
  <2> QED
    BY <1>3, <1>7, <2>1, GoneDelivery
<1> QED
  BY Zenon, <1>4, <1>5, <1>6, <1>7 DEF FlushDone

\* Every step keeps the delivery invariant.
LEMMA DeliveryStep ==
  ASSUME TypeOK, FlushInv, QueueInv, ExactlyOnce, [Next]_vars
  PROVE  QueueInv' /\ ExactlyOnce'
<1>1. accepted \in Nat /\ now \in Nat
  BY Zenon, ClockAndCount
<1>2. ASSUME UNCHANGED <<queue, accepted, processed, lost>>, now' \in Nat,
             now <= now', pc # "flush", pc' = "flush" => cursor' = 1
      PROVE  QueueInv' /\ ExactlyOnce'
  <2>1. \A k \in DOMAIN queue : k \in Nat /\ 1 <= k
    BY QueueElements
  <2>2. Waiting' = Waiting
    BY Zenon, <1>2, <2>1 DEF Waiting, Unsent
  <2> QED
    BY Zenon, <1>2, <2>2, FrameDelivery
<1>3. ASSUME ProcessGone(Waiting), UNCHANGED <<accepted, processed>>
      PROVE  QueueInv' /\ ExactlyOnce'
  BY <1>1, <1>3, WaitingIds, GoneDelivery DEF Ids
<1>4. ASSUME NEW pid \in Pids, NEW r \in Threats, Signal(pid, r)
      PROVE  QueueInv' /\ ExactlyOnce'
  <2> DEFINE p == Policy(pid, r)
  <2>1. pc = "idle" /\ p.level \in Threats
    BY Zenon, <1>4, PolicyTypes DEF Signal
  <2>2. CASE UNCHANGED <<now, control, queue, mapOpen, alertMap, stream,
                         accepted, processed, lost>>
    BY <1>1, <1>2, <2>1, <2>2 DEF control
  <2>3. CASE /\ accepted < MaxAlerts
             /\ enqueue_alert(queue, pid, p.level)
             /\ UNCHANGED <<now, control, mapOpen, lost>>
    <3>1. GoodQueue(queue) /\ \A i \in lost : i <= accepted
      BY Zenon DEF GoodQueue, QueueInv
    <3>2. Waiting = UnsentOf(queue)
      BY Zenon, <2>1 DEF Waiting, Unsent, UnsentOf
    <3>3. queue \in Seq(Alert) /\ pc' = "idle"
      BY Zenon, <2>1, <2>3 DEF TypeOK, control
    <3> HIDE DEF p
    <3> QED
      BY Zenon, <2>1, <2>3, <3>1, <3>2, <3>3, EnqueueDelivery
  <2>4. CASE accepted < MaxAlerts /\ EnqueueKilled(pid, p.level)
    BY Zenon, <2>1, <2>4, KilledDelivery
  <2>5. CASE /\ StartLoop("enqueue", [pid |-> pid, level |-> p.level])
             /\ UNCHANGED <<now, queue, mapOpen, alertMap, stream, accepted,
                            processed, lost>>
    BY <1>1, <1>2, <2>1, <2>5 DEF StartLoop
  <2> QED
    BY Zenon, <1>4, <2>2, <2>3, <2>4, <2>5 DEF Signal
<1>5. CASE \E p \in Pids : bridge_signal_malicious(p) \/ bridge_signal_suspicious(p)
  BY Zenon, <1>4, <1>5
  DEF bridge_signal_malicious, bridge_signal_suspicious, Threats
<1>6. CASE bridge_init
  <2>1. /\ queue' = <<>> /\ lost' = lost \cup Waiting
        /\ accepted' = accepted /\ processed' = processed
    BY Zenon, <1>6 DEF bridge_init
  <2>2. \A i \in Waiting : i <= accepted
    BY Zenon DEF Waiting, QueueInv
  <2>3. \A i \in lost' : i <= accepted'
    BY Zenon, <2>1, <2>2 DEF QueueInv
  <2>4. Waiting' = {} /\ QueueInv'
    BY Zenon, <2>1, <2>3, EmptiedQueue
  <2> QED
    BY Zenon, <2>1, <2>4 DEF ExactlyOnce
<1>7. CASE bridge_flush_alerts
  BY <1>1, <1>2, <1>7 DEF bridge_flush_alerts, StartLoop
<1>8. CASE bridge_teardown
  <2>1. queue = <<>> => Waiting = {}
    BY DEF Waiting
  <2>2. CASE /\ queue = <<>>
             /\ ProcessGone({})
             /\ UNCHANGED <<alertMap, accepted, processed>>
    BY Zenon, <1>3, <2>1, <2>2
  <2>3. CASE /\ StartLoop("close", NoPending)
             /\ UNCHANGED <<now, queue, table, mapOpen, alertMap, stream,
                            accepted, processed, lost>>
    BY <1>1, <1>2, <1>8, <2>3 DEF bridge_teardown, StartLoop
  <2> QED
    BY Zenon, <1>8, <2>2, <2>3 DEF bridge_teardown
<1>9. CASE Crash
  BY Zenon, <1>3, <1>9 DEF Crash
<1>10. CASE Restart
  BY <1>1, <1>2, <1>10 DEF Restart
<1>11. CASE Tick \/ UNCHANGED vars
  <2>1. UNCHANGED <<queue, accepted, processed, lost, pc, cursor>>
    BY Zenon, <1>11 DEF Tick, control, vars
  <2>2. now' \in Nat /\ now <= now'
    BY <1>1, <1>11 DEF Tick, vars
  <2>3. Waiting' = Waiting
    BY Zenon, <2>1 DEF Waiting, Unsent
  <2> QED
    BY Zenon, <2>1, <2>2, <2>3, FrameDelivery
<1> QED
  BY Zenon, <1>5, <1>6, <1>7, <1>8, <1>9, <1>10, <1>11, FlushStepDelivery,
     FlushDoneDelivery
  DEF Next, Steps

-----------------------------------------------------------------------------
(* The theorems.                                                           *)

\* IInv holds initially.
LEMMA InitialInv ==
  ASSUME Init
  PROVE  IInv
<1>1. EmptyTable \in [Slots -> Slot] /\ <<>> \in Seq(Alert)
  BY DEF EmptyTable, EmptySlot, Slot, Levels, CLEAN
<1>2. TypeOK
  <2>1. alertMap \in [Pids -> Levels] /\ processed \in [Ids -> Nat]
    BY Zenon DEF Init, Levels
  <2>2. up = FALSE /\ mapOpen = FALSE /\ streamOn = FALSE /\ streamUp = FALSE
    BY Zenon DEF Init
  <2>3. /\ now = 1 /\ accepted = 0 /\ retryAt = 0 /\ backoff = ReconnectBase
        /\ cursor = 1 /\ pc = "idle" /\ resume = "return"
        /\ pending = NoPending /\ lost = {} /\ queue = <<>> /\ table = EmptyTable
    BY Zenon DEF Init
  <2>4. /\ now \in 1 .. MaxTime /\ accepted \in 0 .. MaxAlerts /\ cursor \in Nat
        /\ retryAt \in Nat /\ backoff \in Nat
    BY <2>3, BoundsAssumption, ReconnectAssumption
  <2>5. /\ pc \in {"idle", "flush", "exited"}
        /\ resume \in {"return", "enqueue", "close"}
        /\ pending \in [pid : Pids, level : Threats] \cup {NoPending}
        /\ lost \in SUBSET Ids
    BY Zenon, <2>3
  <2> QED
    BY Zenon, <1>1, <2>1, <2>2, <2>3, <2>4, <2>5 DEF TypeOK
<1>3. FlushInv /\ QueueInv
  <2>1. cursor = 1 /\ pc = "idle" /\ queue = <<>> /\ lost = {}
    BY Zenon DEF Init
  <2>2. DOMAIN queue = {}
    BY <2>1
  <2> QED
    BY <2>1, <2>2 DEF FlushInv, QueueInv
<1>4. ExactlyOnce
  BY DEF Init, ExactlyOnce, Ids
<1>5. OneSlotPerPid
  BY Zenon DEF Init, OneSlotPerPid, EmptyTable, EmptySlot
<1>6. StreamInv
  BY ReconnectAssumption DEF Init, StreamInv, RetryBounded
<1> QED
  BY Zenon, <1>2, <1>3, <1>4, <1>5, <1>6 DEF IInv

\* IInv holds initially and every step keeps it.
LEMMA Inductive == Spec => []IInv
<1>1. Init => IInv
  BY Zenon, InitialInv
<1>2. IInv /\ [Next]_vars => IInv'
  BY Zenon, TypeStep, TableStep, StreamStep, DeliveryStep DEF IInv
<1> QED
  BY <1>1, <1>2, PTL DEF Spec

\* The variables of the bridge keep their types.
THEOREM TypeCorrect == Spec => []TypeOK
BY Inductive, PTL DEF IInv

\* Every accepted alert is handed to the sinks exactly once, for every queue size
\* and any interleaving of signals, forced and periodic flushes, SIGPIPE and
\* crashes.
THEOREM ExactlyOnceAlways == Spec => []ExactlyOnce
BY Inductive, PTL DEF IInv

\* The policy table never holds a PID twice, for every table size and eviction
\* order.
THEOREM OneSlotPerPidAlways == Spec => []OneSlotPerPid
BY Inductive, PTL DEF IInv

\* The next connection attempt is never further away than the maximal back-off.
THEOREM RetryBoundedAlways == Spec => []RetryBounded
BY Inductive, PTL DEF IInv, StreamInv

\* A malicious alert that is in the queue has been handed to the sinks.
THEOREM MaliciousDispatchedAlways == Spec => []MaliciousDispatched
<1>1. IInv => MaliciousDispatched
  <2> SUFFICES ASSUME IInv, NEW k \in DOMAIN queue, queue[k].level = MALICIOUS
               PROVE  processed[queue[k].id] = 1
    BY Zenon DEF MaliciousDispatched
  <2> DEFINE i == queue[k].id
  <2>1. queue[k].sent /\ i <= accepted /\ i \notin lost
    BY Zenon DEF IInv, QueueInv
  <2>2. i \notin Waiting
    BY Zenon, <2>1 DEF IInv, QueueInv, Waiting, Unsent
  <2>3. i \in Ids
    BY Zenon, QueueElements DEF IInv, Alert
  <2> QED
    BY Zenon, <2>1, <2>2, <2>3 DEF IInv, ExactlyOnce
<1> QED
  BY <1>1, Inductive, PTL

\* A PID loses its policy entry to another one only when the table is full.
THEOREM EvictOnlyWhenFullAlways == Spec => EvictOnlyWhenFull
<1> DEFINE Justified == \A i \in Slots :
                     table[i].used /\ table'[i].used /\ table'[i].pid # table[i].pid
                       => FreeSlots = {}
<1>1. TypeOK /\ [Next]_vars => [Justified]_vars
  <2> SUFFICES ASSUME TypeOK, Next PROVE Justified
    BY Zenon
  <2>1. ASSUME table' = table \/ table' = EmptyTable PROVE Justified
    BY <2>1 DEF EmptyTable, EmptySlot
  <2>2. ASSUME NEW pid \in Pids, NEW r \in Threats,
               table' = [table EXCEPT ![SlotFor(pid)] = Policy(pid, r).entry]
        PROVE  Justified
    <3> SUFFICES ASSUME NEW i \in Slots, table[i].used,
                        table'[i].pid # table[i].pid, FreeSlots # {}
                 PROVE  FALSE
      BY Zenon
    <3>1. i = SlotFor(pid) /\ table'[i].pid = pid
      BY Zenon, <2>2, PolicyTypes, SlotForIn DEF TypeOK
    <3>2. SlotsOf(pid) \in SUBSET Nat /\ FreeSlots \in SUBSET Nat
      <4>1. Slots \in SUBSET Nat
        BY SizesAssumption DEF Slots
      <4> QED
        BY Zenon, <4>1 DEF SlotsOf, FreeSlots
    <3>3. CASE SlotsOf(pid) # {}
      BY Zenon, <3>1, <3>2, <3>3, LeastIn DEF SlotFor, SlotsOf
    <3>4. CASE SlotsOf(pid) = {}
      BY Zenon, <3>1, <3>2, <3>4, LeastIn DEF SlotFor, FreeSlots
    <3> QED
      BY Zenon, <3>3, <3>4
  <2>3. CASE \E p \in Pids : bridge_signal_malicious(p) \/ bridge_signal_suspicious(p)
    BY <2>1, <2>2, <2>3
    DEF bridge_signal_malicious, bridge_signal_suspicious, Threats, Signal,
        EnqueueKilled, KilledBySigpipe, ProcessGone
  <2>4. CASE bridge_init \/ Crash \/ FlushStep \/ FlushDone \/ bridge_teardown
    BY Zenon, <2>1, <2>4
    DEF bridge_init, Crash, FlushStep, FlushDone, bridge_teardown,
        EnqueueKilled, KilledBySigpipe, ProcessGone
  <2>5. CASE bridge_flush_alerts \/ Restart \/ Tick
    BY Zenon, <2>1, <2>5 DEF bridge_flush_alerts, Restart, Tick
  <2> QED
    BY Zenon, <2>3, <2>4, <2>5 DEF Next, Steps
<1> QED
  BY <1>1, TypeCorrect, PTL DEF EvictOnlyWhenFull, Spec

-----------------------------------------------------------------------------
(* The order of the queue.                                                 *)

\* enqueue_alert appends the alert with the largest number.
LEMMA EnqueueOrdered ==
  ASSUME TypeOK, accepted < MaxAlerts, NEW q \in Seq(Alert), GoodQueue(q),
         \A j, k \in DOMAIN q : j < k => q[j].id < q[k].id,
         NEW pid \in Pids, NEW level \in Threats,
         enqueue_alert(q, pid, level)
  PROVE  QueueOrdered'
<1> DEFINE a == NewAlert(pid, level)
           n == Len(q)
<1>1. a \in Alert /\ a.id = accepted + 1 /\ accepted \in Nat
  <2>1. a \in Alert
    BY Zenon, NewAlertType
  <2>2. a.id = accepted + 1
    BY Zenon DEF NewAlert
  <2>3. accepted \in Nat
    BY Zenon, ClockAndCount
  <2> QED
    BY Zenon, <2>1, <2>2, <2>3
<1>2. queue' = Append(q, a)
  BY Zenon DEF enqueue_alert
<1> HIDE DEF a
<1>3. /\ n \in Nat /\ DOMAIN q = 1 .. n
      /\ DOMAIN queue' = 1 .. n + 1
      /\ queue'[n + 1] = a
      /\ \A k \in 1 .. n : queue'[k] = q[k] /\ q[k] \in Alert
  BY <1>1, <1>2
<1> HIDE DEF n
<1>4. \A k \in 1 .. n : q[k].id \in Nat /\ q[k].id < a.id
  <2> SUFFICES ASSUME NEW k \in 1 .. n
               PROVE  q[k].id \in Nat /\ q[k].id < a.id
    BY Zenon
  <2>1. q[k].id \in Ids
    BY Zenon, <1>3 DEF Alert
  <2>2. q[k].id <= accepted
    BY Zenon, <1>3 DEF GoodQueue
  <2> QED
    BY <1>1, <2>1, <2>2 DEF Ids
<1> SUFFICES ASSUME NEW j \in 1 .. n + 1, NEW k \in 1 .. n + 1, j < k
             PROVE  queue'[j].id < queue'[k].id
  BY Zenon, <1>3 DEF QueueOrdered
<1>5. j \in 1 .. n
  BY <1>3
<1>6. CASE k = n + 1
  BY Zenon, <1>3, <1>4, <1>5, <1>6
<1>7. CASE k \in 1 .. n
  BY Zenon, <1>3, <1>5, <1>7
<1> QED
  BY <1>3, <1>6, <1>7

\* No step but enqueue_alert touches the queue, except to empty it.
LEMMA OrderStep ==
  ASSUME IInv, QueueOrdered, [Next]_vars
  PROVE  QueueOrdered'
<1>1. TypeOK /\ QueueInv /\ FlushInv
  BY Zenon DEF IInv
<1>2. ASSUME queue' = queue \/ queue' = <<>>
      PROVE  QueueOrdered'
  BY <1>2 DEF QueueOrdered
<1>3. ASSUME NEW pid \in Pids, NEW r \in Threats, Signal(pid, r)
      PROVE  QueueOrdered'
  <2> DEFINE p == Policy(pid, r)
  <2>1. p.level \in Threats
    BY Zenon, <1>1, <1>3, PolicyTypes DEF Signal
  <2>2. CASE accepted < MaxAlerts /\ enqueue_alert(queue, pid, p.level)
    <3>1. queue \in Seq(Alert) /\ GoodQueue(queue)
      BY Zenon, <1>1 DEF TypeOK, GoodQueue, QueueInv
    <3> HIDE DEF p
    <3> QED
      BY Zenon, <1>1, <2>1, <2>2, <3>1, EnqueueOrdered DEF QueueOrdered
  <2>3. CASE queue' = queue
    BY Zenon, <1>2, <2>3
  <2>4. CASE EnqueueKilled(pid, p.level)
    BY Zenon, <1>2, <2>4 DEF EnqueueKilled, KilledBySigpipe, ProcessGone
  <2> QED
    BY Zenon, <1>3, <2>2, <2>3, <2>4 DEF Signal
<1>4. CASE \E p \in Pids : bridge_signal_malicious(p) \/ bridge_signal_suspicious(p)
  BY Zenon, <1>3, <1>4
  DEF bridge_signal_malicious, bridge_signal_suspicious, Threats
<1>5. CASE FlushDone
  <2>1. CASE resume = "enqueue" /\ enqueue_alert(<<>>, pending.pid, pending.level)
    <3>1. /\ accepted < MaxAlerts
          /\ pending.pid \in Pids /\ pending.level \in Threats
      BY Zenon, <1>1, <1>5, <2>1 DEF FlushDone, FlushInv
    <3>2. /\ GoodQueue(<<>>) /\ <<>> \in Seq(Alert)
          /\ \A j, k \in DOMAIN <<>> : j < k => <<>>[j].id < <<>>[k].id
      BY DEF GoodQueue
    <3> QED
      BY Zenon, <1>1, <2>1, <3>1, <3>2, EnqueueOrdered
  <2>2. CASE queue' = <<>>
    BY Zenon, <1>2, <2>2
  <2> QED
    BY Zenon, <1>5, <2>1, <2>2
    DEF FlushDone, EnqueueKilled, KilledBySigpipe, ProcessGone
<1>6. CASE FlushStep
  BY Zenon, <1>2, <1>6 DEF FlushStep, KilledBySigpipe, ProcessGone
<1>7. CASE bridge_init \/ bridge_flush_alerts \/ bridge_teardown \/ Crash
  BY Zenon, <1>2, <1>7
  DEF bridge_init, bridge_flush_alerts, bridge_teardown, Crash, ProcessGone
<1>8. CASE Restart \/ Tick \/ UNCHANGED vars
  BY Zenon, <1>2, <1>8 DEF Restart, Tick, vars
<1> QED
  BY Zenon, <1>4, <1>5, <1>6, <1>7, <1>8 DEF Next, Steps

-----------------------------------------------------------------------------
(* Every step of the bridge is a step of the service, or changes nothing   *)
(* the service knows of.                                                   *)

\* enqueue_alert accepts an alert that waits, or delivers it at once.
LEMMA EnqueueServes ==
  ASSUME TypeOK, accepted < MaxAlerts, NEW q \in Seq(Alert),
         Waiting = UnsentOf(q),
         NEW pid \in Pids, NEW level \in Threats,
         enqueue_alert(q, pid, level), pc' = "idle", lost' = lost
  PROVE  Service!Accept \/ Service!AcceptUrgent
<1> DEFINE a == NewAlert(pid, level)
           n == Len(q)
<1>1. a \in Alert /\ a.id = accepted + 1 /\ (a.sent <=> Immediate(level))
  BY Zenon, NewAlertType DEF NewAlert
<1>2. queue' = Append(q, a) /\ accepted' = accepted + 1
  BY Zenon DEF enqueue_alert
<1>3. processed' = IF Immediate(level)
                   THEN [processed EXCEPT ![accepted + 1] = @ + 1]
                   ELSE processed
  BY Zenon, <1>1 DEF enqueue_alert, emit_alert
<1> HIDE DEF a
<1>4. /\ n \in Nat /\ DOMAIN q = 1 .. n
      /\ DOMAIN queue' = 1 .. n + 1
      /\ queue'[n + 1] = a
      /\ \A k \in 1 .. n : queue'[k] = q[k] /\ q[k] \in Alert
  BY <1>1, <1>2
<1> HIDE DEF n
<1>5. Waiting' = IF Immediate(level) THEN Waiting ELSE Waiting \cup {accepted + 1}
  <2>1. Waiting' = {queue'[k].id : k \in {j \in DOMAIN queue' : ~queue'[j].sent}}
    BY Zenon DEF Waiting, Unsent
  <2> QED
    BY <1>1, <1>4, <2>1 DEF UnsentOf
<1>6. CASE Immediate(level)
  BY Zenon, <1>2, <1>3, <1>5, <1>6 DEF Service!AcceptUrgent
<1>7. CASE ~Immediate(level)
  BY Zenon, <1>2, <1>3, <1>5, <1>7 DEF Service!Accept
<1> QED
  BY Zenon, <1>6, <1>7

\* The end of the process loses what waits.
LEMMA GoneServes ==
  ASSUME ProcessGone(Waiting), UNCHANGED <<accepted, processed>>
  PROVE  Service!Lose
<1>1. queue' = <<>> /\ lost' = lost \cup Waiting
  BY Zenon DEF ProcessGone
<1>2. Waiting' = {}
  BY <1>1 DEF Waiting
<1> QED
  BY Zenon, <1>1, <1>2 DEF Service!Lose

\* SIGPIPE in an immediate emission also loses the alert being emitted.
LEMMA KilledServes ==
  ASSUME accepted < MaxAlerts, NEW pid, NEW level, EnqueueKilled(pid, level)
  PROVE  Service!LoseUrgent
<1>1. /\ queue' = <<>> /\ lost' = lost \cup (Waiting \cup {accepted + 1})
      /\ accepted' = accepted + 1 /\ processed' = processed
  BY Zenon DEF EnqueueKilled, KilledBySigpipe, ProcessGone, NewAlert
<1>2. Waiting' = {}
  BY <1>1 DEF Waiting
<1> QED
  BY Zenon, <1>1, <1>2 DEF Service!LoseUrgent

\* One iteration of the flush loop delivers the oldest waiting alert, skips one
\* that was sent at once, or ends the process.
LEMMA FlushStepServes ==
  ASSUME IInv, QueueOrdered, FlushStep
  PROVE  Service!Next \/ UNCHANGED Service!vars
<1>1. /\ cursor \in DOMAIN queue /\ queue[cursor] \in Alert
      /\ pc = "flush"
      /\ DOMAIN queue \in SUBSET Nat /\ cursor \in Nat
  BY QueueElements DEF FlushStep, FlushInv, TypeOK, IInv
<1>2. \A k \in DOMAIN queue : queue[k].id \in Nat
  BY QueueElements DEF IInv, Alert, Ids
<1> DEFINE x == queue[cursor].id
<1>3. CASE /\ queue[cursor].sent
           /\ cursor' = cursor + 1
           /\ UNCHANGED <<now, pc, up, resume, pending, queue, table, mapOpen,
                          alertMap, stream, accepted, processed, lost>>
  <2>1. \A k \in DOMAIN queue : Unsent(k)' <=> Unsent(k)
    BY <1>1, <1>3 DEF Unsent
  <2>2. Waiting' = Waiting
    BY Zenon, <1>3, <2>1 DEF Waiting
  <2> QED
    BY Zenon, <1>3, <2>2 DEF Service!vars
<1>4. CASE /\ ~queue[cursor].sent
           /\ cursor' = cursor + 1
           /\ emit_alert(queue[cursor])
           /\ UNCHANGED <<now, pc, up, resume, pending, queue, table, mapOpen,
                          accepted, lost>>
  <2>1. \A k \in DOMAIN queue : Unsent(k)' <=> Unsent(k) /\ k # cursor
    BY <1>1, <1>4 DEF Unsent
  <2>2. Unsent(cursor)
    BY <1>1, <1>4 DEF Unsent
  <2>3. Waiting' = Waiting \ {x} /\ x \in Waiting
    BY <1>1, <1>4, <2>1, <2>2 DEF Waiting, QueueInv, IInv
  <2>4. \A i \in Waiting : x <= i
    <3> SUFFICES ASSUME NEW k \in DOMAIN queue, Unsent(k)
                 PROVE  x <= queue[k].id
      BY Zenon DEF Waiting
    <3>1. cursor <= k
      BY Zenon, <1>1 DEF Unsent
    <3> QED
      BY <1>1, <1>2, <3>1 DEF QueueOrdered
  <2>5. processed' = [processed EXCEPT ![x] = @ + 1]
    BY Zenon, <1>4 DEF emit_alert
  <2> HIDE DEF x
  <2> QED
    BY Zenon, <1>4, <2>3, <2>4, <2>5 DEF Service!Next, Service!Deliver, Service!Oldest
<1>5. CASE ~queue[cursor].sent /\ KilledBySigpipe(queue[cursor]) /\ UNCHANGED accepted
  <2>1. x \in Waiting
    BY <1>1, <1>5 DEF Waiting, Unsent
  <2>2. ProcessGone(Waiting) /\ processed' = processed
    BY Zenon, <1>5, <2>1 DEF KilledBySigpipe
  <2> QED
    BY Zenon, <1>5, <2>2, GoneServes DEF Service!Next
<1> QED
  BY Zenon, <1>3, <1>4, <1>5 DEF FlushStep

\* The caller of the flush goes on: its alert is accepted, or nothing waits.
LEMMA FlushDoneServes ==
  ASSUME IInv, FlushDone
  PROVE  Service!Next \/ UNCHANGED Service!vars
<1>1. Waiting = {}
  <2>1. /\ pc = "flush" /\ cursor > Len(queue) /\ cursor \in Nat
        /\ Len(queue) \in Nat /\ DOMAIN queue = 1 .. Len(queue)
    BY Zenon, QueueElements DEF FlushDone, IInv, TypeOK
  <2>2. \A k \in 1 .. Len(queue) : ~(cursor <= k)
    BY <2>1
  <2> QED
    BY Zenon, <2>1, <2>2 DEF Waiting, Unsent
<1>2. resume = "enqueue" => /\ accepted < MaxAlerts
                            /\ pending.pid \in Pids /\ pending.level \in Threats
  BY Zenon DEF FlushDone, FlushInv, IInv
<1>3. CASE queue' = <<>> /\ UNCHANGED <<accepted, processed, lost>>
  <2>1. Waiting' = {}
    BY <1>3 DEF Waiting
  <2> QED
    BY Zenon, <1>1, <1>3, <2>1 DEF Service!vars
<1>4. CASE /\ resume = "enqueue"
           /\ enqueue_alert(<<>>, pending.pid, pending.level)
           /\ LoopEnded /\ UNCHANGED lost
  <2>1. UnsentOf(<<>>) = {} /\ <<>> \in Seq(Alert)
    BY DEF UnsentOf
  <2> QED
    BY Zenon, <1>1, <1>2, <1>4, <2>1, EnqueueServes DEF LoopEnded, IInv, Service!Next
<1>5. CASE resume = "enqueue" /\ EnqueueKilled(pending.pid, pending.level)
  BY Zenon, <1>2, <1>5, KilledServes DEF Service!Next
<1>6. CASE ProcessGone({}) /\ UNCHANGED <<accepted, processed>>
  BY Zenon, <1>1, <1>6, GoneServes DEF Service!Next
<1> QED
  BY Zenon, <1>3, <1>4, <1>5, <1>6 DEF FlushDone

\* A step of main that leaves the alerts where they are, and may enter the flush
\* loop at its first element.
LEMMA FrameServes ==
  ASSUME TypeOK, UNCHANGED <<queue, accepted, processed, lost>>,
         \/ UNCHANGED <<pc, cursor>>
         \/ pc # "flush" /\ (pc' = "flush" => cursor' = 1)
  PROVE  UNCHANGED Service!vars
<1>1. \A k \in DOMAIN queue : k \in Nat /\ 1 <= k
  BY QueueElements
<1>2. Waiting' = Waiting
  BY Zenon, <1>1 DEF Waiting, Unsent
<1> QED
  BY Zenon, <1>2 DEF Service!vars

\* Every step of the bridge maps to a step of the service or to a stutter.
LEMMA StepServes ==
  ASSUME IInv, QueueOrdered, [Next]_vars
  PROVE  [Service!Next]_Service!vars
<1>1. TypeOK
  BY Zenon DEF IInv
<1>2. ASSUME NEW pid \in Pids, NEW r \in Threats, Signal(pid, r)
      PROVE  [Service!Next]_Service!vars
  <2> DEFINE p == Policy(pid, r)
  <2>1. pc = "idle" /\ p.level \in Threats
    BY Zenon, <1>1, <1>2, PolicyTypes DEF Signal
  <2>2. CASE UNCHANGED <<control, queue, accepted, processed, lost>>
    BY Zenon, <1>1, <2>2, FrameServes DEF control
  <2>3. CASE /\ accepted < MaxAlerts
             /\ enqueue_alert(queue, pid, p.level) /\ UNCHANGED <<control, lost>>
    <3>1. Waiting = UnsentOf(queue)
      BY Zenon, <2>1 DEF Waiting, Unsent, UnsentOf
    <3>2. queue \in Seq(Alert) /\ pc' = "idle"
      BY Zenon, <1>1, <2>1, <2>3 DEF TypeOK, control
    <3> HIDE DEF p
    <3> QED
      BY Zenon, <1>1, <2>1, <2>3, <3>1, <3>2, EnqueueServes DEF Service!Next
  <2>4. CASE accepted < MaxAlerts /\ EnqueueKilled(pid, p.level)
    BY Zenon, <2>1, <2>4, KilledServes DEF Service!Next
  <2>5. CASE /\ StartLoop("enqueue", [pid |-> pid, level |-> p.level])
             /\ UNCHANGED <<queue, accepted, processed, lost>>
    BY Zenon, <1>1, <2>1, <2>5, FrameServes DEF StartLoop
  <2> QED
    BY Zenon, <1>2, <2>2, <2>3, <2>4, <2>5 DEF Signal
<1>3. CASE \E p \in Pids : bridge_signal_malicious(p) \/ bridge_signal_suspicious(p)
  BY Zenon, <1>2, <1>3
  DEF bridge_signal_malicious, bridge_signal_suspicious, Threats
<1>4. CASE bridge_init
  <2>1. Waiting' = {}
    BY <1>4 DEF bridge_init, Waiting
  <2> QED
    BY Zenon, <1>4, <2>1 DEF bridge_init, Service!Next, Service!Lose
<1>5. CASE bridge_flush_alerts
  BY Zenon, <1>1, <1>5, FrameServes DEF bridge_flush_alerts, StartLoop
<1>6. CASE bridge_teardown
  <2>1. queue = <<>> => Waiting = {}
    BY DEF Waiting
  <2>2. CASE queue = <<>> /\ ProcessGone({}) /\ UNCHANGED <<accepted, processed>>
    BY Zenon, <2>1, <2>2, GoneServes DEF Service!Next
  <2>3. CASE /\ StartLoop("close", NoPending)
             /\ UNCHANGED <<queue, accepted, processed, lost>>
    BY Zenon, <1>1, <1>6, <2>3, FrameServes DEF bridge_teardown, StartLoop
  <2> QED
    BY Zenon, <1>6, <2>2, <2>3 DEF bridge_teardown
<1>7. CASE Crash
  BY Zenon, <1>7, GoneServes DEF Crash, Service!Next
<1>8. CASE Restart
  BY Zenon, <1>1, <1>8, FrameServes DEF Restart
<1>9. CASE Tick \/ UNCHANGED vars
  BY Zenon, <1>1, <1>9, FrameServes DEF Tick, control, vars
<1> QED
  BY Zenon, <1>3, <1>4, <1>5, <1>6, <1>7, <1>8, <1>9, FlushStepServes, FlushDoneServes
  DEF Next, Steps

-----------------------------------------------------------------------------
(* The theorem.                                                            *)

\* The bridge (bridge.c: the queue, its forced and periodic flushes, SIGPIPE,
\* teardown, init, crash and restart) implements AlertService for every queue
\* size and any number of PIDs and alerts: alerts that wait are delivered oldest
\* first, malicious ones at once, and only the end of the process or an init loses
\* alerts.
THEOREM BridgeImplementsService == Spec => ImplementsService
<1>1. Init => Service!Init
  BY DEF Init, Service!Init, Waiting, Ids
<1>2. Init => QueueOrdered
  BY DEF Init, QueueOrdered
<1>3. IInv /\ QueueOrdered /\ [Next]_vars => QueueOrdered' /\ [Service!Next]_Service!vars
  BY Zenon, OrderStep, StepServes
<1> QED
  BY <1>1, <1>2, <1>3, Inductive, PTL DEF Spec, ImplementsService, Service!Spec

-----------------------------------------------------------------------------
(* No burst is missed at the boundary of two windows.                      *)

\* The history of a PID at time t.
HistoryInv(r, t) ==
  r \in Seq(Nat) /\ Len(r) <= Horizon + 1 /\ \A j \in DOMAIN r : r[j] <= t

\* The empty history says nothing.
LEMMA NoHistory ==
  ASSUME NEW t
  PROVE  <<>> \in Seq(Nat) /\ HistoryInv(<<>>, t)
<1>1. <<>> \in Seq(Nat) /\ Len(<<>>) = 0 /\ DOMAIN <<>> = {}
  OBVIOUS
<1>2. 0 <= Horizon + 1
  BY WindowsAssumption DEF Horizon
<1> QED
  BY Zenon, <1>1, <1>2 DEF HistoryInv

\* q is r with t added, without the d oldest times.
Grown(r, t, q, d) ==
  /\ q \in Seq(Nat) /\ Len(q) = Len(r) + 1 - d /\ Len(q) \in 1 .. Horizon + 1
  /\ q[Len(q)] = t
  /\ \A j \in 1 .. Len(q) - 1 : j + d \in 1 .. Len(r) /\ q[j] = r[j + d]

\* One more time in a history: the oldest makes room when it is full.
LEMMA HistoryGrows ==
  ASSUME NEW r, NEW t \in Nat, HistoryInv(r, t),
         NEW q, q = LastOf(Append(r, t), Horizon + 1)
  PROVE  HistoryInv(q, t) /\ \E d \in {0, 1} : Grown(r, t, q, d)
<1> DEFINE a == Append(r, t)
           n == Horizon
<1>0. /\ n \in Nat /\ r \in Seq(Nat) /\ Len(r) \in Nat /\ Len(r) <= n + 1
      /\ \A j \in 1 .. Len(r) : r[j] \in Nat /\ r[j] <= t
  BY WindowsAssumption DEF HistoryInv, Horizon
<1> HIDE DEF n
<1>1. /\ a \in Seq(Nat) /\ Len(a) = Len(r) + 1
      /\ a[Len(r) + 1] = t /\ \A j \in 1 .. Len(r) : a[j] = r[j]
  BY <1>0
<1>2. q = LastOf(a, n + 1)
  BY Zenon DEF n
<1> HIDE DEF a
<1>3. ASSUME Len(r) <= n
      PROVE  Grown(r, t, q, 0)
  <2>0. Len(a) <= n + 1
    BY <1>0, <1>1, <1>3
  <2>1. q = a
    BY Zenon, <1>2, <2>0 DEF LastOf
  <2>2. /\ q \in Seq(Nat) /\ Len(q) = Len(r) + 1 - 0 /\ Len(q) \in 1 .. n + 1
        /\ q[Len(q)] = t
    BY <1>0, <1>1, <1>3, <2>1
  <2>3. \A j \in 1 .. Len(q) - 1 : j + 0 \in 1 .. Len(r) /\ q[j] = r[j + 0]
    <3>1. /\ Len(r) + 1 - 1 = Len(r)
          /\ \A j \in 1 .. Len(r) : j + 0 = j
      <4>1. Len(r) \in Nat
        BY Zenon, <1>0
      <4> QED
        BY <4>1
    <3>2. Len(q) - 1 = Len(r)
      <4>1. Len(q) = Len(r) + 1 /\ Len(r) \in Nat
        BY Zenon, <1>0, <1>1, <2>1
      <4> QED
        BY <4>1
    <3>3. ASSUME NEW j \in 1 .. Len(r)
          PROVE  j + 0 \in 1 .. Len(r) /\ q[j] = r[j + 0]
      <4>1. j + 0 = j
        BY Zenon, <3>1
      <4>2. q[j] = r[j]
        BY Zenon, <1>1, <2>1
      <4> QED
        BY Zenon, <4>1, <4>2
    <3> QED
      BY Zenon, <3>2, <3>3
  <2> QED
    BY Zenon, <2>2, <2>3 DEF Grown, n
<1>4. ASSUME Len(r) = n + 1
      PROVE  Grown(r, t, q, 1)
  <2>0. ~(Len(a) <= n + 1) /\ Len(a) - (n + 1) + 1 = 2 /\ Len(a) = n + 2
    BY <1>0, <1>1, <1>4
  <2>1. q = SubSeq(a, 2, n + 2)
    BY Zenon, <1>2, <2>0 DEF LastOf
  <2>2. /\ SubSeq(a, 2, n + 2) \in Seq(Nat) /\ Len(SubSeq(a, 2, n + 2)) = n + 1
        /\ \A j \in 1 .. n + 1 : SubSeq(a, 2, n + 2)[j] = a[j + 1]
    BY <1>0, <1>1, <1>4
  <2>a. q \in Seq(Nat) /\ Len(q) = n + 1 /\ \A j \in 1 .. n + 1 : q[j] = a[j + 1]
    BY Zenon, <2>1, <2>2
  <2>b. n + 1 \in 1 .. n + 1 /\ n + 1 = Len(r) + 1 - 1
    BY <1>0, <1>4
  <2>c. q[n + 1] = a[(n + 1) + 1]
    BY Zenon, <2>a, <2>b
  <2>3. /\ q \in Seq(Nat) /\ Len(q) = Len(r) + 1 - 1 /\ Len(q) \in 1 .. n + 1
        /\ q[Len(q)] = t
    BY Zenon, <1>1, <1>4, <2>a, <2>b, <2>c
  <2>4. \A j \in 1 .. Len(q) - 1 : j + 1 \in 1 .. Len(r) /\ q[j] = r[j + 1]
    <3>1. Len(q) - 1 = n /\ \A j \in 1 .. n : j \in 1 .. n + 1 /\ j + 1 \in 1 .. n + 1
      BY <1>0, <2>a
    <3> QED
      BY Zenon, <1>1, <1>4, <2>a, <3>1
  <2> QED
    BY Zenon, <2>3, <2>4 DEF Grown, n
<1>5. PICK d \in {0, 1} : Grown(r, t, q, d)
  BY <1>0, <1>3, <1>4
<1>6. ASSUME NEW j \in 1 .. Len(q)
      PROVE  q[j] <= t
  <2>1. CASE j = Len(q)
    BY <1>5, <2>1 DEF Grown
  <2>2. CASE j # Len(q)
    <3>1. j \in 1 .. Len(q) - 1
      BY <1>5, <2>2 DEF Grown
    <3> QED
      BY Zenon, <1>0, <1>5, <3>1 DEF Grown
  <2> QED
    BY Zenon, <2>1, <2>2
<1>7. DOMAIN q = 1 .. Len(q) /\ Len(q) <= Horizon + 1
  BY <1>0, <1>5 DEF Grown, n
<1> QED
  BY Zenon, <1>5, <1>6, <1>7 DEF HistoryInv, Grown

\* A signal in the window of the entry.
LEMMA SameWindow ==
  ASSUME NEW r, NEW t \in Nat, HistoryInv(r, t), NEW s \in Slot, NEW c \in Slot,
         r # <<>> => Covers(r, s),
         s.start \in 1 .. t, c.start = s.start, c.burst = s.burst + 1,
         c.burst < EscalationCount, NEW q, NEW d \in {0, 1}, Grown(r, t, q, d)
  PROVE  Covers(q, c)
<1> DEFINE C == EscalationCount
<1>1. C \in Nat \ {0} /\ EscalationWindow \in Nat /\ r \in Seq(Nat) /\ Len(r) \in Nat
  BY WindowsAssumption DEF HistoryInv
<1>2. s.start \in Nat /\ s.burst \in Nat /\ c.start \in Nat /\ c.burst \in Nat
  BY Zenon DEF Slot
<1>3. Len(q) = Len(r) + 1 - d /\ Len(q) \in Nat /\ q[Len(q)] = t
  BY DEF Grown
<1>4. \A j \in 1 .. Len(q) - 1 : q[j] = r[j + d]
  BY Zenon DEF Grown
<1>5. c.start \in 1 .. q[Len(q)] /\ c.burst \in 1 .. C - 1
  BY <1>1, <1>2, <1>3
<1>a. /\ \A j \in 1 .. Len(q) - c.burst :
           j + d \in 1 .. Len(r) - s.burst /\ j \in 1 .. Len(q) - 1 /\ Len(r) # 0
      /\ \A j \in 1 .. Len(q) - c.burst - (C - 1) :
           /\ j + d \in 1 .. Len(r) - s.burst - (C - 1)
           /\ j \in 1 .. Len(q) - 1 /\ Len(r) # 0
  <2>1. C \in Nat \ {0}
    BY <1>1
  <2> HIDE DEF C
  <2>2. s.burst \in Nat /\ c.burst = s.burst + 1 /\ Len(q) = Len(r) + 1 - d /\ Len(r) \in Nat
    BY Zenon, <1>1, <1>2, <1>3
  <2>3. ASSUME NEW x \in Nat, NEW b \in Nat, NEW j \in 1 .. (x + 1 - d) - (b + 1)
        PROVE  j + d \in 1 .. x - b /\ j \in 1 .. (x + 1 - d) - 1 /\ x # 0
    BY SMT
  <2>4. ASSUME NEW x \in Nat, NEW b \in Nat,
               NEW j \in 1 .. (x + 1 - d) - (b + 1) - (C - 1)
        PROVE  j + d \in 1 .. x - b - (C - 1) /\ j \in 1 .. (x + 1 - d) - 1 /\ x # 0
    BY <2>1, SMT
  <2> QED
    BY Zenon, <2>2, <2>3, <2>4
<1>6. ASSUME NEW j \in 1 .. Len(q) - c.burst
      PROVE  q[j] <= c.start
  <2>1. j + d \in 1 .. Len(r) - s.burst /\ j \in 1 .. Len(q) - 1
    BY Zenon, <1>a
  <2>2. Len(r) # 0
    BY Zenon, <1>a
  <2>3. r # <<>>
    BY <2>2
  <2> QED
    BY Zenon, <1>4, <2>1, <2>3 DEF Covers
<1>7. ASSUME NEW j \in 1 .. Len(q) - c.burst - (C - 1)
      PROVE  q[j] + EscalationWindow < c.start
  <2>1. j + d \in 1 .. Len(r) - s.burst - (C - 1) /\ j \in 1 .. Len(q) - 1
    BY Zenon, <1>a
  <2>2. Len(r) # 0
    BY Zenon, <1>a
  <2>3. r # <<>>
    BY <2>2
  <2> QED
    BY Zenon, <1>4, <2>1, <2>3 DEF Covers
<1> QED
  BY Zenon, <1>5, <1>6, <1>7 DEF Covers

\* A signal after the window of the entry has passed starts the next one.
LEMMA NewWindow ==
  ASSUME NEW r, NEW t \in Nat \ {0}, HistoryInv(r, t), NEW s \in Slot, NEW c \in Slot,
         r # <<>> => Covers(r, s) /\ t - s.start > EscalationWindow,
         c.start = t, c.burst = 1,
         c.burst < EscalationCount, NEW q, NEW d \in {0, 1}, Grown(r, t, q, d),
         HistoryInv(q, t)
  PROVE  Covers(q, c)
<1> DEFINE C == EscalationCount
<1>1. /\ C \in Nat \ {0} /\ EscalationWindow \in Nat /\ r \in Seq(Nat) /\ Len(r) \in Nat
      /\ \A j \in 1 .. Len(r) : r[j] \in Nat
  BY WindowsAssumption DEF HistoryInv
<1>2. s.start \in Nat /\ s.burst \in Nat
  BY Zenon DEF Slot
<1>3. Len(q) = Len(r) + 1 - d /\ Len(q) \in Nat /\ Len(q) >= 1 /\ q[Len(q)] = t
  BY DEF Grown
<1>4. \A j \in 1 .. Len(q) - 1 : q[j] = r[j + d]
  BY Zenon DEF Grown
<1>5. c.start \in 1 .. q[Len(q)] /\ c.burst \in 1 .. C - 1
  BY <1>1, <1>3
<1>6. \A j \in 1 .. Len(q) - c.burst : q[j] <= c.start
  <2>1. q \in Seq(Nat) /\ \A j \in DOMAIN q : q[j] <= t
    BY Zenon DEF HistoryInv
  <2>2. DOMAIN q = 1 .. Len(q)
    BY <2>1
  <2>3. \A j \in 1 .. Len(q) - 1 : j \in 1 .. Len(q)
    BY <1>3
  <2> QED
    BY Zenon, <2>1, <2>2, <2>3
<1>7. ASSUME NEW j \in 1 .. Len(q) - c.burst - (C - 1)
      PROVE  q[j] + EscalationWindow < c.start
  <2>1. j + d \in 1 .. Len(r) - (C - 1) /\ j + d \in 1 .. Len(r) /\ j \in 1 .. Len(q) - 1
    BY <1>1, <1>3
  <2>2. Len(r) # 0
    BY <1>1, <2>1
  <2>3. r # <<>>
    BY <2>2
  <2>4. s.burst \in 1 .. C - 1 /\ \A k \in 1 .. Len(r) - s.burst : r[k] <= s.start
    BY Zenon, <2>3 DEF Covers
  <2>5. j + d \in 1 .. Len(r) - s.burst
    BY <1>1, <1>2, <2>1, <2>4
  <2>6. q[j] <= s.start
    BY Zenon, <1>4, <2>1, <2>4, <2>5
  <2>7. q[j] \in Nat
    BY Zenon, <1>1, <1>4, <2>1
  <2> QED
    BY <1>1, <1>2, <2>3, <2>6, <2>7
<1> QED
  BY Zenon, <1>5, <1>6, <1>7 DEF Covers

\* get_policy_state returns the one entry of the PID when there is one.
LEMMA EntryFound ==
  ASSUME TypeOK, OneSlotPerPid, NEW pid \in Pids, NEW i \in SlotsOf(pid)
  PROVE  SlotFor(pid) = i /\ get_policy_state(pid) = table[i]
<1>1. SlotsOf(pid) \in SUBSET Nat
  BY SizesAssumption DEF SlotsOf, Slots
<1>2. SlotFor(pid) \in SlotsOf(pid)
  BY Zenon, <1>1, LeastIn DEF SlotFor
<1>3. SlotFor(pid) = i
  BY Zenon, <1>2 DEF OneSlotPerPid, SlotsOf
<1> QED
  BY Zenon, <1>2, <1>3 DEF get_policy_state, SlotsOf

\* The entry that apply_threat_policy starts from.
LEMMA EntryType ==
  ASSUME TypeOK, NEW pid \in Pids
  PROVE  /\ get_policy_state(pid) \in Slot
         /\ (\A i \in Slots : table[i].start <= now) => get_policy_state(pid).start <= now
<1>1. table \in [Slots -> Slot] /\ SlotFor(pid) \in Slots
  BY Zenon, SlotForIn DEF TypeOK
<1>2. 0 <= now
  BY Zenon, ClockAndCount
<1>3. [EmptySlot EXCEPT !.pid = pid, !.used = TRUE] \in Slot
  BY Zenon, PidsAssumption DEF EmptySlot, Slot, Levels, CLEAN
<1>4. [EmptySlot EXCEPT !.pid = pid, !.used = TRUE].start = 0
  BY Zenon DEF EmptySlot
<1> QED
  BY Zenon, <1>1, <1>2, <1>3, <1>4 DEF get_policy_state

\* What the burst accounting makes of the entry s: the window goes on or a new one
\* starts, and a signal that is not passed on as malicious stays below the count.
Accounted(s, e, level) ==
  /\ e.start = now \/ e.start = s.start
  /\ level # MALICIOUS
       => /\ e.burst < EscalationCount
          /\ \/ /\ s.start = 0 \/ now - s.start > EscalationWindow
                /\ e.start = now /\ e.burst = 1
             \/ /\ s.start # 0 /\ ~(now - s.start > EscalationWindow)
                /\ e.start = s.start /\ e.burst = s.burst + 1

\* apply_threat_policy does just that accounting.
LEMMA BurstCounted ==
  ASSUME TypeOK, NEW pid \in Pids, NEW r \in Threats,
         get_policy_state(pid) \in Slot
  PROVE  Accounted(get_policy_state(pid), Policy(pid, r).entry, Policy(pid, r).level)
<1> DEFINE s == get_policy_state(pid)
           e == Policy(pid, r).entry
           c == Counted(s, r)
           restart == s.start = 0 \/ now - s.start > EscalationWindow
           m == IF Escalates(r, c) THEN MALICIOUS ELSE r
<1>s. s \in Slot
  OBVIOUS
<1>0. e \in {c, [c EXCEPT !.last = m, !.emit = now]} /\ Policy(pid, r).level = m
  BY Zenon DEF Policy
<1> HIDE DEF s, e
<1>1. r = SUSPICIOUS \/ r = MALICIOUS
  BY Zenon DEF Threats
<1>2. ASSUME r = SUSPICIOUS, restart
      PROVE  Accounted(s, e, Policy(pid, r).level)
  <2> DEFINE w == [s EXCEPT !.start = now, !.burst = 0]
  <2>1. c = [w EXCEPT !.burst = @ + 1]
    BY Zenon, <1>2 DEF Counted
  <2>2. w \in [pid : Nat, last : Levels, burst : {0}, start : {now}, emit : Nat, used : BOOLEAN]
    BY Zenon, <1>s DEF Slot
  <2> HIDE DEF w
  <2>3. c \in [pid : Nat, last : Levels, burst : {0 + 1}, start : {now}, emit : Nat, used : BOOLEAN]
    BY Zenon, <2>1, <2>2
  <2> HIDE DEF c
  <2>4. e.burst = c.burst /\ e.start = c.start
    BY Zenon, <1>0, <2>3
  <2>5. c.start = now /\ c.burst = 1
    BY <2>3
  <2>6. m # MALICIOUS => ~(c.burst >= EscalationCount)
    BY Zenon, <1>2 DEF Escalates
  <2>7. m # MALICIOUS => c.burst < EscalationCount
    BY <2>5, <2>6, WindowsAssumption
  <2> QED
    BY Zenon, <1>0, <1>2, <2>4, <2>5, <2>7 DEF Accounted
<1>3. ASSUME r = SUSPICIOUS, ~restart
      PROVE  Accounted(s, e, Policy(pid, r).level)
  <2>1. c = [s EXCEPT !.burst = @ + 1]
    BY Zenon, <1>3 DEF Counted
  <2>2. s \in [pid : Nat, last : Levels, burst : {s.burst}, start : {s.start}, emit : Nat, used : BOOLEAN]
    BY Zenon, <1>s DEF Slot
  <2>3. c \in [pid : Nat, last : Levels, burst : {s.burst + 1}, start : {s.start}, emit : Nat, used : BOOLEAN]
    BY Zenon, <2>1, <2>2
  <2> HIDE DEF c
  <2>4. e.burst = c.burst /\ e.start = c.start
    BY Zenon, <1>0, <2>3
  <2>5. c.start = s.start /\ c.burst = s.burst + 1 /\ s.burst \in Nat
    BY Zenon, <1>s, <2>3 DEF Slot
  <2>6. m # MALICIOUS => ~(c.burst >= EscalationCount)
    BY Zenon, <1>3 DEF Escalates
  <2>7. m # MALICIOUS => c.burst < EscalationCount
    BY <2>5, <2>6, WindowsAssumption
  <2> QED
    BY Zenon, <1>0, <1>3, <2>4, <2>5, <2>7 DEF Accounted
<1>4. ASSUME r = MALICIOUS
      PROVE  Accounted(s, e, Policy(pid, r).level)
  <2>0. r # SUSPICIOUS
    BY <1>4 DEF SUSPICIOUS, MALICIOUS
  <2>1. c = [s EXCEPT !.burst = 0, !.start = now]
    BY Zenon, <2>0 DEF Counted
  <2>2. c \in [pid : Nat, last : Levels, burst : {0}, start : {now}, emit : Nat, used : BOOLEAN]
    BY Zenon, <1>s, <2>1 DEF Slot
  <2>3. m = MALICIOUS
    BY Zenon, <1>4
  <2> HIDE DEF c, m
  <2>4. e.start = now
    BY Zenon, <1>0, <2>2
  <2> QED
    BY Zenon, <1>0, <2>3, <2>4 DEF Accounted
<1> QED
  BY Zenon, <1>1, <1>2, <1>3, <1>4 DEF s, e

\* The history of a PID and the entry it relies on.
PidBurst(p) ==
  /\ HistoryInv(recent[p], now)
  /\ recent[p] # <<>> => \E i \in SlotsOf(p) : Covers(recent[p], table[i])

\* BurstInv, one PID at a time.
LEMMA BurstInvByPid ==
  BurstInv <=> /\ \A i \in Slots : table[i].start <= now
               /\ recent \in [Pids -> Seq(Nat)]
               /\ \A p \in Pids : PidBurst(p)
BY Zenon DEF BurstInv, PidBurst, HistoryInv

\* A PID without an entry has an empty history after the step, and an empty
\* history asks for nothing.
LEMMA HistoryKept ==
  ASSUME NEW h \in [Pids -> Seq(Nat)], recent' = Kept(h), now' \in Nat,
         \A p \in Pids : (\E i \in Slots : table'[i].used /\ table'[i].pid = p)
           => /\ HistoryInv(h[p], now')
              /\ h[p] # <<>> => \E i \in SlotsOf(p)' : Covers(h[p], table'[i])
  PROVE  recent' \in [Pids -> Seq(Nat)] /\ \A p \in Pids : PidBurst(p)'
<1>1. <<>> \in Seq(Nat) /\ HistoryInv(<<>>, now')
  BY Zenon, NoHistory
<1>2. recent' \in [Pids -> Seq(Nat)]
  BY Zenon, <1>1 DEF Kept
<1>3. ASSUME NEW p \in Pids PROVE PidBurst(p)'
  <2>1. recent'[p] = IF \E i \in Slots : table'[i].used /\ table'[i].pid = p
                     THEN h[p] ELSE <<>>
    BY Zenon DEF Kept
  <2> QED
    BY Zenon, <1>1, <2>1 DEF PidBurst
<1> QED
  BY Zenon, <1>2, <1>3

\* A later clock does not disturb a history.
LEMMA HistoryLater ==
  ASSUME NEW r, NEW t \in Nat, NEW u \in Nat, t <= u, HistoryInv(r, t)
  PROVE  HistoryInv(r, u)
<1>1. \A j \in DOMAIN r : r[j] \in Nat /\ r[j] <= t
  BY DEF HistoryInv
<1>2. \A x \in Nat : x <= t => x <= u
  OBVIOUS
<1> QED
  BY Zenon, <1>1, <1>2 DEF HistoryInv

\* A step that leaves the table alone, or empties it, keeps BurstInv.
LEMMA BurstFrame ==
  ASSUME TypeOK, TypeOK', BurstInv, recent' = Kept(recent), now <= now',
         table' = table \/ table' = EmptyTable
  PROVE  BurstInv'
<1>1. now \in Nat /\ now' \in Nat /\ \A x \in Nat : x <= now => x <= now'
  <2>1. now \in 1 .. MaxTime /\ now' \in 1 .. MaxTime
    BY Zenon DEF TypeOK
  <2> QED
    BY <2>1, BoundsAssumption
<1>2. /\ \A i \in Slots : table[i].start <= now
      /\ recent \in [Pids -> Seq(Nat)]
      /\ \A p \in Pids : PidBurst(p)
  BY Zenon, BurstInvByPid
<1>3. CASE table' = table
  <2>1. \A i \in Slots : table[i].start \in Nat
    BY Zenon DEF TypeOK, Slot
  <2>2. \A i \in Slots : table'[i].start <= now'
    BY Zenon, <1>1, <1>2, <1>3, <2>1
  <2>3. \A p \in Pids : /\ HistoryInv(recent[p], now')
                        /\ SlotsOf(p)' = SlotsOf(p)
    BY Zenon, <1>1, <1>2, <1>3, HistoryLater DEF PidBurst, SlotsOf
  <2>4. recent' \in [Pids -> Seq(Nat)] /\ \A p \in Pids : PidBurst(p)'
    BY Zenon, <1>1, <1>2, <1>3, <2>3, HistoryKept DEF PidBurst
  <2> QED
    BY Zenon, <2>2, <2>4 DEF BurstInv, PidBurst, HistoryInv
<1>4. CASE table' = EmptyTable
  <2>1. \A i \in Slots : ~table'[i].used /\ table'[i].start = 0
    BY Zenon, <1>4 DEF EmptyTable, EmptySlot
  <2>2. 0 <= now'
    BY <1>1
  <2>3. recent' \in [Pids -> Seq(Nat)] /\ \A p \in Pids : PidBurst(p)'
    BY Zenon, <1>1, <1>2, <2>1, HistoryKept
  <2> QED
    BY Zenon, <2>1, <2>2, <2>3 DEF BurstInv, PidBurst, HistoryInv
<1> QED
  BY Zenon, <1>3, <1>4

\* A signal that apply_threat_policy has recorded keeps BurstInv.
LEMMA BurstRecorded ==
  ASSUME TypeOK, OneSlotPerPid, BurstInv, NEW pid \in Pids, NEW r \in Threats,
         table' = [table EXCEPT ![SlotFor(pid)] = Policy(pid, r).entry],
         now' = now, recent' = Kept(Recorded(pid, Policy(pid, r).level))
  PROVE  BurstInv'
<1> DEFINE k == SlotFor(pid)
           e == Policy(pid, r).entry
           s == get_policy_state(pid)
           level == Policy(pid, r).level
           h == Recorded(pid, level)
           q == LastOf(Append(recent[pid], now), Horizon + 1)
<1>0. now \in Nat \ {0} /\ \A i \in Slots : table[i].start <= now
  BY Zenon, ClockAndCount DEF BurstInv
<1>1. /\ recent \in [Pids -> Seq(Nat)]
      /\ \A p \in Pids : PidBurst(p)
  BY Zenon, BurstInvByPid
<1>2. k \in Slots /\ e \in Slot /\ e.used /\ e.pid = pid /\ s \in Slot /\ s.start <= now
  BY Zenon, <1>0, SlotForIn, PolicyTypes, EntryType
<1>3. table'[k] = e /\ \A j \in Slots : j # k => table'[j] = table[j]
  BY Zenon, <1>2 DEF TypeOK
<1>4. Accounted(s, e, level)
  BY Zenon, <1>2, BurstCounted
<1>5. /\ h[pid] = IF level = MALICIOUS THEN <<>> ELSE q
      /\ \A p \in Pids : p # pid => h[p] = recent[p]
      /\ h \in [Pids -> {h[p] : p \in Pids}]
  BY Zenon, <1>1 DEF Recorded
<1>6. HistoryInv(q, now) /\ \E d \in {0, 1} : Grown(recent[pid], now, q, d)
  BY Zenon, <1>0, <1>1, HistoryGrows DEF PidBurst
<1>7. recent[pid] # <<>> => Covers(recent[pid], s)
  BY Zenon, <1>1, EntryFound DEF PidBurst
<1>8. now <= now
  BY <1>0
<1>e. <<>> \in Seq(Nat) /\ HistoryInv(<<>>, now)
  BY Zenon, NoHistory
<1>k. k = SlotFor(pid) /\ recent' = Kept(h)
  OBVIOUS
<1> HIDE DEF k, e, s, level, h, q
<1>9. level # MALICIOUS => Covers(q, e)
  <2> SUFFICES ASSUME level # MALICIOUS PROVE Covers(q, e)
    BY Zenon
  <2>1. PICK d \in {0, 1} : Grown(recent[pid], now, q, d)
    BY Zenon, <1>6
  <2>2. HistoryInv(recent[pid], now)
    BY Zenon, <1>1 DEF PidBurst
  <2>3. CASE e.start = now /\ e.burst = 1 /\ (s.start = 0 \/ now - s.start > EscalationWindow)
    <3>1. s.start = 0 => ~Covers(recent[pid], s)
      BY Zenon, WindowSizes DEF Covers
    <3> QED
      BY Zenon, <1>0, <1>2, <1>4, <1>6, <1>7, <2>1, <2>2, <2>3, <3>1, NewWindow DEF Accounted
  <2>4. CASE s.start # 0 /\ e.start = s.start /\ e.burst = s.burst + 1
    <3>1. s.start \in Nat
      BY Zenon, <1>2 DEF Slot
    <3>3. now \in Nat
      BY Zenon, <1>0
    <3>4. \A x \in Nat : x # 0 /\ x <= now => x \in 1 .. now
      BY <3>3
    <3>2. s.start \in 1 .. now
      BY Zenon, <1>2, <2>4, <3>1, <3>4
    <3> QED
      BY Zenon, <1>2, <1>4, <1>7, <2>1, <2>2, <2>4, <3>2, <3>3, SameWindow DEF Accounted
  <2> QED
    BY Zenon, <1>4, <2>3, <2>4 DEF Accounted
<1>10. \A i \in Slots : table'[i].start <= now'
  BY Zenon, <1>0, <1>2, <1>3, <1>4, <1>8 DEF Accounted
<1>11. ASSUME NEW p \in Pids, NEW i \in Slots, table'[i].used, table'[i].pid = p
       PROVE  /\ HistoryInv(h[p], now')
              /\ h[p] # <<>> => \E j \in SlotsOf(p)' : Covers(h[p], table'[j])
  <2>1. CASE p = pid
    <3>1. HistoryInv(h[p], now')
      BY Zenon, <1>5, <1>6, <1>e, <2>1
    <3>2. k \in SlotsOf(p)'
      BY Zenon, <1>2, <1>3, <2>1 DEF SlotsOf
    <3> QED
      BY Zenon, <1>3, <1>5, <1>9, <2>1, <3>1, <3>2
  <2>2. CASE p # pid
    <3>1. h[p] = recent[p] /\ PidBurst(p)
      BY Zenon, <1>1, <1>5, <2>2
    <3>2. i # k
      BY Zenon, <1>2, <1>3, <1>11, <2>2
    <3>3. i \in SlotsOf(p)' /\ i \in SlotsOf(p) /\ table'[i] = table[i]
      BY Zenon, <1>3, <1>11, <3>2 DEF SlotsOf
    <3>4. \A j \in SlotsOf(p) : j = i
      BY Zenon, <3>3 DEF OneSlotPerPid, SlotsOf
    <3> QED
      BY Zenon, <3>1, <3>3, <3>4 DEF PidBurst
  <2> QED
    BY Zenon, <2>1, <2>2
<1>12. h \in [Pids -> Seq(Nat)]
  BY Zenon, <1>1, <1>5, <1>6, <1>e DEF HistoryInv
<1>13. now' \in Nat
  BY Zenon, <1>0
<1>14. recent' \in [Pids -> Seq(Nat)] /\ \A p \in Pids : PidBurst(p)'
  BY Zenon, <1>k, <1>11, <1>12, <1>13, HistoryKept
<1> QED
  BY Zenon, <1>10, <1>14 DEF BurstInv, PidBurst, HistoryInv

\* Every step keeps BurstInv.
LEMMA BurstStep ==
  ASSUME TypeOK, TypeOK', OneSlotPerPid, BurstInv, BurstNext
  PROVE  BurstInv'
<1>1. now \in Nat
  BY Zenon, ClockAndCount
<1>0. now <= now /\ now <= now + 1
  BY <1>1
<1>2. ASSUME NEW pid \in Pids, NEW r \in Threats, Signal(pid, r),
             recent' = Kept(Recorded(pid, Policy(pid, r).level))
      PROVE  BurstInv'
  <2>1. CASE table' = [table EXCEPT ![SlotFor(pid)] = Policy(pid, r).entry] /\ now' = now
    BY Zenon, <1>2, <2>1, BurstRecorded
  <2>2. CASE table' = EmptyTable /\ now' = now
    <3>1. \A i \in Slots : ~table'[i].used
      BY Zenon, <2>2 DEF EmptyTable, EmptySlot
    <3>2. recent' = Kept(recent)
      BY Zenon, <1>2, <3>1 DEF Kept
    <3> QED
      BY Zenon, <1>0, <2>2, <3>2, BurstFrame
  <2> QED
    BY Zenon, <1>2, <2>1, <2>2 DEF Signal, EnqueueKilled, KilledBySigpipe, ProcessGone
<1>3. ASSUME bridge_init \/ bridge_flush_alerts \/ FlushStep \/ FlushDone
             \/ bridge_teardown \/ Crash \/ Restart \/ Tick,
             recent' = Kept(recent)
      PROVE  BurstInv'
  <2>1. now' = now \/ now' = now + 1
    BY Zenon, <1>3 DEF bridge_init, bridge_flush_alerts, FlushStep, FlushDone,
      bridge_teardown, Crash, Restart, Tick, EnqueueKilled, KilledBySigpipe, ProcessGone
  <2>2. table' = table \/ table' = EmptyTable
    BY Zenon, <1>3 DEF bridge_init, bridge_flush_alerts, FlushStep, FlushDone,
      bridge_teardown, Crash, Restart, Tick, EnqueueKilled, KilledBySigpipe, ProcessGone
  <2> QED
    BY Zenon, <1>0, <1>3, <2>1, <2>2, BurstFrame
<1> QED
  BY Zenon, <1>2, <1>3 DEF BurstNext

\* Of 2 * EscalationCount - 1 suspicious signals in a row that did not escalate,
\* the first and the last are more than one window apart, for every count and
\* window, table size and order of evictions.
THEOREM NoMissedBurstAlways == BurstSpec => []NoMissedBurst
<1>1. BurstInit => IInv /\ BurstInv
  <2> SUFFICES ASSUME BurstInit PROVE IInv /\ BurstInv
    BY Zenon
  <2>1. IInv
    BY Zenon, InitialInv DEF BurstInit
  <2>2. recent = [p \in Pids |-> <<>>] /\ now = 1 /\ table = EmptyTable
    BY Zenon DEF BurstInit, Init
  <2>3. <<>> \in Seq(Nat) /\ HistoryInv(<<>>, now) /\ 0 <= now
    BY Zenon, <2>1, NoHistory, ClockAndCount DEF IInv
  <2>4. \A p \in Pids : PidBurst(p)
    BY Zenon, <2>2, <2>3 DEF PidBurst
  <2>5. \A i \in Slots : table[i].start <= now
    BY Zenon, <2>2, <2>3 DEF EmptyTable, EmptySlot
  <2>6. recent \in [Pids -> Seq(Nat)]
    BY Zenon, <2>2, <2>3
  <2> QED
    BY Zenon, <2>1, <2>4, <2>5, <2>6, BurstInvByPid
<1>2. IInv /\ BurstInv /\ [BurstNext]_burstVars => IInv' /\ BurstInv'
  <2> SUFFICES ASSUME IInv, BurstInv, [BurstNext]_burstVars PROVE IInv' /\ BurstInv'
    BY Zenon
  <2>1. [Next]_vars
    BY Zenon DEF BurstNext, burstVars, Next, Steps, Threats,
      bridge_signal_malicious, bridge_signal_suspicious
  <2>2. IInv'
    BY Zenon, <2>1, TypeStep, TableStep, StreamStep, DeliveryStep DEF IInv
  <2>3. CASE BurstNext
    BY Zenon, <2>2, <2>3, BurstStep DEF IInv
  <2>4. CASE UNCHANGED burstVars
    <3>1. table' = table /\ recent' = recent /\ now' = now
      BY Zenon, <2>4 DEF burstVars, vars
    <3>2. \A p \in Pids : SlotsOf(p)' = SlotsOf(p)
      BY Zenon, <3>1 DEF SlotsOf
    <3> QED
      BY Zenon, <2>2, <3>1, <3>2 DEF BurstInv
  <2> QED
    BY Zenon, <2>2, <2>3, <2>4
<1>3. TypeOK /\ BurstInv => NoMissedBurst
  <2> SUFFICES ASSUME TypeOK, BurstInv, NEW p \in Pids, Len(recent[p]) = Horizon + 1
               PROVE  recent[p][Horizon + 1] - recent[p][1] > EscalationWindow
    BY Zenon DEF NoMissedBurst
  <2> DEFINE r == recent[p]
  <2>1. r \in Seq(Nat) /\ (r # <<>> => \E i \in SlotsOf(p) : Covers(r, table[i]))
    BY Zenon DEF BurstInv
  <2>2. EscalationCount \in Nat \ {0} /\ EscalationWindow \in Nat
    BY Zenon, WindowsAssumption
  <2>3. Len(r) = 2 * (EscalationCount - 1) + 1
    BY Zenon DEF Horizon
  <2> HIDE DEF r
  <2>4. r # <<>>
    BY <2>2, <2>3
  <2>5. PICK i \in SlotsOf(p) : Covers(r, table[i])
    BY Zenon, <2>1, <2>4
  <2> DEFINE s == table[i]
  <2>6. s.start \in 1 .. r[Len(r)] /\ s.burst \in 1 .. EscalationCount - 1
    BY Zenon, <2>5 DEF Covers
  <2>7. 1 \in 1 .. Len(r) - s.burst - (EscalationCount - 1) /\ 1 \in 1 .. Len(r)
        /\ Len(r) \in 1 .. Len(r)
    BY Zenon, <2>2, <2>3, <2>6, WindowSizes
  <2>8. r[1] + EscalationWindow < s.start
    BY Zenon, <2>5, <2>7 DEF Covers
  <2>9. r[1] \in Nat /\ r[Len(r)] \in Nat
    BY <2>1, <2>7
  <2>10. r[Len(r)] - r[1] > EscalationWindow
    BY <2>2, <2>6, <2>8, <2>9
  <2> QED
    BY Zenon, <2>10 DEF r
<1> QED
  BY <1>1, <1>2, <1>3, PTL DEF BurstSpec, IInv

==============================================================================
