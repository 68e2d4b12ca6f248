--------------------------- MODULE AlertRefinement ---------------------------
(***************************************************************************)
(* AlertBridge implements AlertService.  An alert of the queue waits when  *)
(* it was not sent at once and the flush loop has not passed it.           *)
(***************************************************************************)
EXTENDS AlertBridge

Service == INSTANCE AlertService WITH
  taken <- accepted, waiting <- Waiting, delivered <- processed, dropped <- lost

\* The queue, its flush loop and the flush forced by a full queue together keep
\* what AlertService promises: alerts that wait leave in the order in which
\* enqueue_alert accepted them, a malicious one overtakes them by reaching the
\* sinks inside its own enqueue_alert call, and nothing is lost but everything
\* that waits, when the process ends or bridge_init empties the queue.
ImplementsService == Service!Spec

\* The queue is in order of acceptance.
QueueOrdered ==
  \A j, k \in DOMAIN queue : j < k => queue[j].id < queue[k].id
==============================================================================
