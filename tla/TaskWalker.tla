----------------------------- MODULE TaskWalker -----------------------------
(***************************************************************************)
(* The process detectors of the VMI daemon (task_walker.c): each walks the *)
(* guest's task list by reading guest memory, one task_struct after the    *)
(* other, and judges the snapshot it got.  The guest does not stop for the *)
(* walk: between two reads it forks, exits, executes, gives a freed        *)
(* task_struct to a new process, or unlinks a live one.                    *)
(*                                                                         *)
(* The detectors here keep nothing between two walks, so any of them may   *)
(* judge a snapshot.  The privilege detector, which does, is               *)
(* PrivilegeBaseline.  The fields of one task_struct are read in one step; *)
(* its parent's pid, and the pointer to the next task, are reads of their  *)
(* own.                                                                    *)
(***************************************************************************)
EXTENDS Naturals, Sequences, FiniteSets

CONSTANTS
  UserTasks,     \* addresses of the task_structs of user processes
  UserPids,      \* their PIDs, above 1
  TaskComms,     \* what exec may write into comm
  SnapshotSize,  \* MAX_TASK_SNAPSHOT
  Threshold,     \* children that make a fork bomb
  MaxWalks,      \* bound: walks
  MaxEvents      \* bound: guest events

ASSUME WalkerAssumption ==
  /\ SnapshotSize \in Nat \ {0} /\ Threshold \in Nat \ {0}
  /\ UserPids \cap {0, 1} = {} /\ \E p, q \in UserPids : p # q
  /\ UserTasks \cap {0, 1} = {} /\ \E a, b \in UserTasks : a # b
  /\ MaxWalks \in Nat /\ MaxEvents \in Nat

VARIABLES
  task,        \* guest memory: the task_struct at each address
  state,       \* linked, zombie, hidden or free
  events,      \* bounded count of guest events
  pc, cur, rec, parent, \* the walk: next read, task, record, parent pointer
  snap,        \* procs[0 .. nr - 1]
  signals,     \* what the detector handed to bridge_signal_suspicious
  walks,       \* bounded count of walks
  stays,       \* history: tasks linked since the walk started
  hid,         \* history: tasks that were hidden when it started
  left,        \* history: tasks unlinked since
  reused       \* history: memory of one of those was given to a new task

guest == <<task, state, events>>
reads == <<pc, cur, rec, parent, snap>>
history == <<stays, hid, left, reused>>
walkerVars == <<task, state, events, pc, cur, rec, parent, snap, signals, walks,
                stays, hid, left, reused>>

InitTask == 0
Tasks == {0, 1} \cup UserTasks
None == [pid |-> 0]
NoSignals == [by |-> "none", pids |-> {}]

web_tier_names == {"nginx", "apache2", "httpd", "php-fpm"}
shell_names == {"sh", "bash", "dash", "zsh"}

Linked(a) == state[a] \in {"linked", "zombie"}
Hidden == {a \in Tasks : state[a] = "hidden"}
Free == {a \in Tasks : state[a] = "free"}
FreePids == UserPids \ {task[a].pid : a \in Tasks \ Free}

-----------------------------------------------------------------------------
(* The walk: snapshot_processes and task_walker_read_process.              *)

\* The walk is over: nr records are judged.
EndWalk == pc' = "judge" /\ cur' = InitTask /\ rec' = None /\ UNCHANGED snap

\* A read whose failure is ignored leaves the zero of the memset behind.
OrZero(value, zero) == {value, zero}

\* pid, the parent pointer and comm.  A failed read of pid, comm, mm or of the
\* cred pointer ends the walk, that of the parent pointer is ignored.
ReadTask ==
  /\ pc = "task"
  /\ \/ EndWalk /\ UNCHANGED parent
     \/ /\ Len(snap) < SnapshotSize
        /\ parent' \in OrZero(task[cur].parent, InitTask)
        /\ rec' = [pid |-> task[cur].pid, ppid |-> 0, comm |-> task[cur].comm, at |-> cur]
        /\ pc' = "ppid"
        /\ UNCHANGED <<cur, snap>>
  /\ UNCHANGED <<guest, signals, walks, history>>

\* No parent pointer, no read: InitTask stands for it, whose pid is 0.
ReadParentPid ==
  /\ pc = "ppid"
  /\ \E p \in OrZero(task[parent].pid, 0) : rec' = [rec EXCEPT !.ppid = p]
  /\ parent' = InitTask /\ pc' = "next"
  /\ UNCHANGED <<cur, snap, guest, signals, walks, history>>

\* Mutant: the last task of the list is taken for its end.
ReadNextStopsEarly ==
  /\ pc = "next"
  /\ \/ EndWalk
     \/ /\ snap' = Append(snap, rec)
        /\ cur' = task[cur].next
        /\ rec' = None
        /\ pc' = IF task[cur'].next = InitTask THEN "full" ELSE "task"
  /\ UNCHANGED <<parent, guest, signals, walks, history>>

\* The record counts once the next pointer has been read.
ReadNext ==
  /\ pc = "next"
  /\ \/ EndWalk
     \/ /\ snap' = Append(snap, rec)
        /\ cur' = task[cur].next
        /\ rec' = None
        /\ pc' = IF cur' = InitTask THEN "full" ELSE "task"
  /\ UNCHANGED <<parent, guest, signals, walks, history>>

-----------------------------------------------------------------------------
(* The judgements.                                                         *)

Records == {snap[i] : i \in DOMAIN snap}

\* Mutant: every turn of the loop overwrites the answer of the one before.
pid_exists_last(pid) == snap # <<>> /\ snap[Len(snap)].pid = pid

pid_exists(pid) == \E r \in Records : r.pid = pid

\* Mutant: the parent's PID is looked for among the PIDs of parents as well.
orphans_any ==
  {r.pid : r \in {x \in Records : /\ x.ppid \notin {0, 1}
                                 /\ \A y \in Records : x.ppid \notin {y.pid, y.ppid}}}

orphans == {r.pid : r \in {x \in Records : x.ppid \notin {0, 1} /\ ~pid_exists(x.ppid)}}

Children(pid) == {i \in DOMAIN snap : snap[i].ppid = pid}
fork_bombs == {r.pid : r \in {x \in Records :
                                x.pid # 0 /\ Cardinality(Children(x.pid)) >= Threshold}}

\* find_process_by_pid: the first record of that pid.
find_process_by_pid(pid) ==
  CHOOSE i \in DOMAIN snap : snap[i].pid = pid /\ \A j \in 1 .. i - 1 : snap[j].pid # pid
ancestry == {r.pid : r \in {x \in Records :
               /\ x.comm \in shell_names /\ x.ppid # 0 /\ pid_exists(x.ppid)
               /\ snap[find_process_by_pid(x.ppid)].comm \in web_tier_names}}

Judge(who, pids) ==
  /\ pc \in {"judge", "full"} /\ signals = NoSignals
  /\ signals' = [by |-> who, pids |-> pids]
  /\ UNCHANGED <<guest, reads, walks, history>>

detect_orphans == Judge("orphans", orphans)
detect_fork_bomb == Judge("fork_bomb", fork_bombs)
detect_suspicious_ancestry == Judge("ancestry", ancestry)

\* The bridge has the signals; the next detector starts its own walk.
NextWalk ==
  /\ signals # NoSignals /\ walks < MaxWalks
  /\ signals' = NoSignals /\ walks' = walks + 1
  /\ pc' = "task" /\ cur' = InitTask /\ snap' = <<>>
  /\ stays' = {a \in Tasks : Linked(a)} /\ hid' = Hidden /\ left' = {} /\ reused' = FALSE
  /\ UNCHANGED <<guest, rec, parent>>

-----------------------------------------------------------------------------
(* The guest.  New tasks are linked at the tail; a task that is unlinked   *)
(* keeps its own next pointer, and its memory until it is used again.      *)

Runs(a) == a # InitTask /\ state[a] \in {"linked", "hidden"}
LastTask == CHOOSE a \in Tasks : Linked(a) /\ task[a].next = InitTask
Before(a) == CHOOSE b \in Tasks : Linked(b) /\ task[b].next = a

\* An event after a judgement is one before the next walk.
Event ==
  /\ events < MaxEvents /\ events' = events + 1
  /\ signals = NoSignals
  /\ UNCHANGED <<reads, signals, walks, hid>>

Fork ==
  /\ \E p \in Tasks, a \in Free, pid \in FreePids :
       /\ Runs(p)
       /\ task' = [task EXCEPT ![LastTask].next = a,
                     ![a] = [task[p] EXCEPT !.pid = pid, !.parent = p, !.next = InitTask]]
       /\ state' = [state EXCEPT ![a] = "linked"]
       /\ reused' = (reused \/ a \in left)
  /\ Event /\ UNCHANGED <<stays, left>>

\* The children of a task that exits are given to init.  A task_struct that is
\* free keeps its parent pointer.
Exit ==
  /\ \E a \in UserTasks :
       /\ state[a] = "linked"
       /\ task' = [b \in Tasks |-> IF task[b].parent = a /\ b \notin Free
                                   THEN [task[b] EXCEPT !.parent = 1] ELSE task[b]]
       /\ state' = [state EXCEPT ![a] = "zombie"]
  /\ Event /\ UNCHANGED <<stays, left, reused>>

Unlink(a, new) ==
  /\ task' = [task EXCEPT ![Before(a)].next = task[a].next]
  /\ state' = [state EXCEPT ![a] = new]
  /\ stays' = stays \ {a} /\ left' = left \cup {a}
  /\ Event /\ UNCHANGED reused

Reap == \E a \in UserTasks : state[a] = "zombie" /\ Unlink(a, "free")

Hide == \E a \in UserTasks : state[a] = "linked" /\ Unlink(a, "hidden")

Exec ==
  /\ \E a \in UserTasks : \E c \in TaskComms \ {task[a].comm} :
       Runs(a) /\ task' = [task EXCEPT ![a].comm = c]
  /\ Event /\ UNCHANGED <<state, stays, left, reused>>

Struct(pid, parentTask, comm, next) ==
  [pid |-> pid, parent |-> parentTask, comm |-> comm, next |-> next]

\* The idle task, init, a user process and its child; the other task_structs
\* are free.
WalkerInit ==
  /\ LET a == CHOOSE t \in UserTasks : TRUE
         b == CHOOSE t \in UserTasks \ {a} : TRUE
         p == CHOOSE n \in UserPids : TRUE
         q == CHOOSE n \in UserPids \ {p} : TRUE
     IN
       /\ task = [t \in Tasks |->
                    CASE t = 0 -> Struct(0, 0, "swapper", 1)
                      [] t = 1 -> Struct(1, 0, "systemd", a)
                      [] t = a -> Struct(p, 1, "nginx", b)
                      [] t = b -> Struct(q, a, "nginx", 0)
                      [] OTHER -> Struct(0, 0, "swapper", 0)]
       /\ state = [t \in Tasks |-> IF t \in {0, 1, a, b} THEN "linked" ELSE "free"]
  /\ pc = "task" /\ cur = InitTask /\ snap = <<>> /\ parent = InitTask /\ rec = None
  /\ signals = NoSignals /\ walks = 1 /\ events = 0
  /\ stays = {a \in Tasks : Linked(a)} /\ hid = {} /\ left = {} /\ reused = FALSE

WalkerNext ==
  \/ ReadTask \/ ReadParentPid \/ ReadNext
  \/ detect_orphans \/ detect_fork_bomb \/ detect_suspicious_ancestry \/ NextWalk
  \/ Fork \/ Exit \/ Reap \/ Hide \/ Exec

WalkerSpec == WalkerInit /\ [][WalkerNext]_walkerVars

-----------------------------------------------------------------------------
(* Properties.                                                             *)

\* snapshot_processes: a task that is linked for the whole of a walk that comes
\* round to init_task is in the snapshot exactly once, whatever is forked, exits
\* or is unlinked around it, also when the walk stands on a task that is being
\* unlinked; unless the memory of a task unlinked during the walk is used again
\* before the walk is over.
SnapshotComplete ==
  pc = "full" /\ ~reused =>
    \A a \in stays : \E i \in DOMAIN snap : \A j \in DOMAIN snap : snap[j].at = a <=> j = i

\* task_walker_detect_orphans reports a PID only for a record whose parent was
\* unlinked while alive: a parent that exits during the walk has given its
\* children to init before it is unlinked, and one in the list comes before its
\* children, also in a walk that is cut short.  (Two records may have the same
\* PID, when it is given again during the walk.)
NoFalseOrphan ==
  signals.by = "orphans" /\ ~reused =>
    \A p \in signals.pids : \E r \in Records :
      r.pid = p /\ \E h \in Hidden : task[h].pid = r.ppid

\* A process in the snapshot whose parent was unlinked while alive, before the
\* walk, is reported.
HiddenParentFound ==
  signals.by = "orphans" =>
    \A h \in hid, r \in Records : r.ppid = task[h].pid => r.pid \in signals.pids
=============================================================================
