---------------------------- MODULE MCTaskWalker ----------------------------
(* The walk and the privilege table on small instances, as alternatives:   *)
(* a behaviour is one of the walk with the table at rest, or the converse. *)
EXTENDS TaskWalker, PrivilegeBaseline, TLC

VARIABLE part

Shell == {"sh"}
Names == {"nginx"}

Alike == Permutations(Pids)

MCInit == WalkerInit /\ BaselineInit /\ part \in {"walk", "table"}

MCNext ==
  /\ \/ part = "walk" /\ WalkerNext /\ UNCHANGED baselineVars
     \/ part = "table" /\ BaselineNext /\ UNCHANGED walkerVars
  /\ UNCHANGED part

MCSpec == MCInit /\ [][MCNext]_<<walkerVars, baselineVars, part>>
=============================================================================
