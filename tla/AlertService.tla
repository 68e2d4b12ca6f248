----------------------------- MODULE AlertService -----------------------------
(***************************************************************************)
(* What the alert bridge promises the detectors, without queue, flush loop,*)
(* policy table, map or stream.  Alerts are numbered in the order in which *)
(* they are accepted.  An urgent alert reaches the sinks in the step that  *)
(* accepts it; any other waits, and the waiting ones are delivered one at  *)
(* a time, the oldest first.  Alerts are lost only when the process ends   *)
(* or is initialised, and then all the waiting ones are lost together.     *)
(***************************************************************************)
EXTENDS Naturals

CONSTANT MaxAlerts

VARIABLES
  taken,      \* how many alerts have been accepted
  waiting,    \* the accepted alerts that have not reached the sinks
  delivered,  \* how often each alert reached the sinks
  dropped     \* the alerts that never will

vars == <<taken, waiting, delivered, dropped>>

Init ==
  /\ taken = 0
  /\ waiting = {}
  /\ delivered = [i \in 1 .. MaxAlerts |-> 0]
  /\ dropped = {}

Accept ==
  /\ taken < MaxAlerts
  /\ taken' = taken + 1
  /\ waiting' = waiting \cup {taken + 1}
  /\ UNCHANGED <<delivered, dropped>>

AcceptUrgent ==
  /\ taken < MaxAlerts
  /\ taken' = taken + 1
  /\ delivered' = [delivered EXCEPT ![taken + 1] = @ + 1]
  /\ UNCHANGED <<waiting, dropped>>

Oldest(i) == i \in waiting /\ \A j \in waiting : i <= j

Deliver ==
  \E i \in waiting :
    /\ Oldest(i)
    /\ waiting' = waiting \ {i}
    /\ delivered' = [delivered EXCEPT ![i] = @ + 1]
    /\ UNCHANGED <<taken, dropped>>

\* The process ends, or starts over.
Lose ==
  /\ dropped' = dropped \cup waiting
  /\ waiting' = {}
  /\ UNCHANGED <<taken, delivered>>

\* The process ends while it hands an urgent alert to the sinks.
LoseUrgent ==
  /\ taken < MaxAlerts
  /\ taken' = taken + 1
  /\ dropped' = dropped \cup waiting \cup {taken + 1}
  /\ waiting' = {}
  /\ UNCHANGED delivered

Next == Accept \/ AcceptUrgent \/ Deliver \/ Lose \/ LoseUrgent

Spec == Init /\ [][Next]_vars
===============================================================================
