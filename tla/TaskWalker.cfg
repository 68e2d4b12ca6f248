\* The walk: init_task, init and three task_structs for user processes.
\* The table: room for two snapshots of two processes, five PIDs.
CONSTANTS
  UserTasks = {t1, t2, t3}
  UserPids = {p1, p2, p3}
  TaskComms <- Shell
  SnapshotSize = 5
  Threshold = 2
  MaxWalks = 2
  MaxEvents = 3
  Pids = {q1, q2, q3, q4, q5}
  Comms <- Names
  Caps = {cap}
  MaxTasks = 2
  BaselineSize = 4
  MaxScans = 3
SYMMETRY Alike
SPECIFICATION MCSpec
INVARIANTS
  SnapshotComplete
  NoFalseOrphan
  HiddenParentFound
  EscalationSeen
  OwnBaseline
  OneEntryPerPid
CHECK_DEADLOCK FALSE
