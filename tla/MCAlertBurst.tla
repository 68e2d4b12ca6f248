---------------------------- MODULE MCAlertBurst ----------------------------
(* A small instance of AlertBurst for TLC.                                 *)
EXTENDS AlertBurst

OnePid == {1}

=============================================================================
