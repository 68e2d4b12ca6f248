------------------------------ MODULE AlertBurst ------------------------------
(***************************************************************************)
(* AlertBridge with a history of the suspicious signals that did not       *)
(* escalate, to say what the burst window of apply_threat_policy catches.  *)
(* The window is not a sliding one: it starts with a signal, lasts         *)
(* EscalationWindow and starts again with the first signal after that.     *)
(***************************************************************************)
EXTENDS AlertBridge

VARIABLE recent  \* per PID, the times of the latest unescalated signals

burstVars == <<vars, recent>>

\* The most signals two adjacent windows hold without an escalation.
Horizon == 2 * (EscalationCount - 1)

\* The last n elements of s.
LastOf(s, n) == IF Len(s) <= n THEN s ELSE SubSeq(s, Len(s) - n + 1, Len(s))

\* A PID without an entry in the new policy table has been evicted or wiped.
Kept(h) ==
  [p \in Pids |-> IF \E i \in Slots : table'[i].used /\ table'[i].pid = p
                  THEN h[p] ELSE <<>>]

Recorded(pid, level) ==
  [recent EXCEPT ![pid] =
     IF level = MALICIOUS THEN <<>> ELSE LastOf(Append(@, now), Horizon + 1)]

BurstInit == Init /\ recent = [p \in Pids |-> <<>>]

BurstNext ==
  \/ \E p \in Pids, r \in Threats :
       Signal(p, r) /\ recent' = Kept(Recorded(p, Policy(p, r).level))
  \/ /\ bridge_init \/ bridge_flush_alerts \/ FlushStep \/ FlushDone
        \/ bridge_teardown \/ Crash \/ Restart \/ Tick
     /\ recent' = Kept(recent)

BurstSpec == BurstInit /\ [][BurstNext]_burstVars

\* main reaches bridge_init and then calls bridge_flush_alerts on every pass of
\* its loop, and the loop inside a flush runs to its end.  Signals, teardown and
\* crashes are the environment's choice.
FairBurstSpec ==
  /\ BurstSpec
  /\ WF_vars(bridge_init)
  /\ WF_vars(bridge_flush_alerts)
  /\ WF_vars(FlushStep)
  /\ WF_vars(FlushDone)

\* Escalation cannot be dodged by spreading a burst over the boundary of two
\* windows: of 2 * EscalationCount - 1 consecutive suspicious signals that
\* apply_threat_policy lets through unescalated, the first and the last are more
\* than EscalationWindow apart, as long as the PID keeps its policy entry.
NoMissedBurst ==
  \A p \in Pids :
    Len(recent[p]) = Horizon + 1
      => recent[p][Horizon + 1] - recent[p][1] > EscalationWindow

-----------------------------------------------------------------------------
(* The inductive invariant behind NoMissedBurst.                           *)

\* What the entry s of a PID says of its history r: all but the latest burst
\* signals came no later than the start of the window, and all but as many more
\* as the window before can have held came before that one.
Covers(r, s) ==
  /\ s.start \in 1 .. r[Len(r)]
  /\ s.burst \in 1 .. EscalationCount - 1
  /\ \A j \in 1 .. Len(r) - s.burst : r[j] <= s.start
  /\ \A j \in 1 .. Len(r) - s.burst - (EscalationCount - 1) :
       r[j] + EscalationWindow < s.start

BurstInv ==
  /\ \A i \in Slots : table[i].start <= now
  /\ recent \in [Pids -> Seq(Nat)]
  /\ \A p \in Pids :
       /\ Len(recent[p]) <= Horizon + 1
       /\ \A j \in DOMAIN recent[p] : recent[p][j] <= now
       /\ recent[p] # <<>> => \E i \in SlotsOf(p) : Covers(recent[p], table[i])
=============================================================================
