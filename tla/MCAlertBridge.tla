---------------------------- MODULE MCAlertBridge ----------------------------
(* Small instances of AlertBridge for TLC.                                 *)
EXTENDS AlertRefinement

\* In a policy table of two entries PIDs 1 and 3 share their hash slot.
OnePid == {1}
ThreePids == {1, 2, 3}

==============================================================================
