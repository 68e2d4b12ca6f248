-------------------------- MODULE TaskWalkerProofs --------------------------
(***************************************************************************)
(* The properties of TaskWalker for every number of task_structs, PIDs,    *)
(* guest events and walks.                                                 *)
(*                                                                         *)
(* HiddenParentFound rests on what the walk can come to: the tasks in the  *)
(* list, and those unlinked during the walk.                               *)
(*                                                                         *)
(* SnapshotComplete and NoFalseOrphan rest on an order.  New tasks are     *)
(* linked at the tail, so the list is in the order of the forks, f.  A     *)
(* task that is unlinked keeps its next pointer, at time u: what lies      *)
(* between it and the task it points to was unlinked earlier than it.  So  *)
(* the walk, also one that stands on unlinked tasks, passes every task     *)
(* that stays in the list, and comes to no task before its parent.         *)
(***************************************************************************)
EXTENDS TaskWalker, TLAPS

-----------------------------------------------------------------------------
(* The inductive invariant of the walk.                                    *)

CommNames == TaskComms \cup {"swapper", "systemd", "nginx"}
AllPids == UserPids \cup {0, 1}
Structs == [pid : AllPids, parent : Tasks, comm : CommNames, next : Tasks]
RecordSet == [pid : AllPids, ppid : AllPids, comm : CommNames, at : Tasks]
Walking == {"task", "ppid", "next"}

\* The tasks the walk may still come to stand on, and those that exist.
Reach == {a \in Tasks : Linked(a)} \cup left
Used == Tasks \ Free

WalkerType ==
  /\ task \in [Tasks -> Structs]
  /\ state \in [Tasks -> {"linked", "zombie", "hidden", "free"}]
  /\ events \in Nat /\ cur \in Tasks /\ parent \in Tasks
  /\ pc \in Walking \cup {"judge", "full"}
  /\ pc \in {"ppid", "next"} => rec \in RecordSet
  /\ snap \in Seq(RecordSet)
  /\ stays \in SUBSET Tasks /\ hid \in SUBSET Tasks /\ left \in SUBSET UserTasks
  /\ reused \in BOOLEAN

\* The PIDs of the processes that exist differ, and none of them is the child of
\* one that has exited.
GuestInv ==
  /\ state[0] = "linked" /\ task[0].pid = 0 /\ task[0].parent = 0
  /\ state[1] = "linked" /\ task[1].pid = 1 /\ task[1].parent = 0
  /\ \A a \in UserTasks \ Free : task[a].pid \in UserPids
  /\ \A a, b \in Used : task[a].pid = task[b].pid => a = b
  /\ \A a \in Used : state[task[a].parent] \in {"linked", "hidden"}

\* The task list is a ring of the tasks that are linked.
ListInv ==
  /\ \A a \in Tasks : Linked(a) => Linked(task[a].next)
  /\ \A a, b \in Tasks : Linked(a) /\ Linked(b) /\ task[a].next = task[b].next => a = b
  /\ \A a \in Tasks : Linked(a) => \E b \in Tasks : Linked(b) /\ task[b].next = a

\* A task that was hidden before the walk is never read by it.
HidInv ==
  /\ hid \subseteq Hidden /\ hid \cap left = {}
  /\ cur \in Reach /\ \A a \in left : task[a].next \in Reach
  /\ \A h \in hid, a \in Reach : task[a].pid # task[h].pid
  /\ pc \in {"ppid", "next"} => \A h \in hid : rec.pid # task[h].pid
  /\ \A h \in hid, i \in DOMAIN snap : snap[i].pid # task[h].pid
  /\ signals # NoSignals => pc \in {"judge", "full"}
  /\ signals.by = "orphans" => signals.pids = orphans

GuestStep == Fork \/ Exit \/ Reap \/ Hide \/ Exec

-----------------------------------------------------------------------------
(* What an event of the guest does, field by field.                        *)

ForkEffect(p, a, l, pid) ==
  /\ p \in Tasks /\ a \in UserTasks /\ l \in Tasks /\ pid \in UserPids
  /\ state[p] \in {"linked", "hidden"} /\ state[a] = "free"
  /\ Linked(l) /\ task[l].next = 0 /\ \A t \in Used : task[t].pid # pid
  /\ task'[a].pid = pid /\ task'[a].parent = p /\ task'[a].next = 0
  /\ \A t \in Tasks \ {a} : task'[t].pid = task[t].pid /\ task'[t].parent = task[t].parent
  /\ task'[l].next = a /\ \A t \in Tasks \ {a, l} : task'[t].next = task[t].next
  /\ state'[a] = "linked" /\ \A t \in Tasks \ {a} : state'[t] = state[t]
  /\ reused' = (reused \/ a \in left) /\ UNCHANGED <<stays, left>>

ExitEffect(a) ==
  /\ a \in UserTasks /\ state[a] = "linked"
  /\ \A t \in Tasks : task'[t].pid = task[t].pid /\ task'[t].next = task[t].next
  /\ \A t \in Free : task'[t].parent = task[t].parent
  /\ \A t \in Used : task'[t].parent = IF task[t].parent = a THEN 1 ELSE task[t].parent
  /\ state'[a] = "zombie" /\ \A t \in Tasks \ {a} : state'[t] = state[t]
  /\ UNCHANGED <<stays, left, reused>>

UnlinkEffect(a, b, new) ==
  /\ a \in UserTasks /\ b \in Tasks /\ Linked(b) /\ task[b].next = a
  /\ \/ state[a] = "zombie" /\ new = "free"
     \/ state[a] = "linked" /\ new = "hidden"
  /\ \A t \in Tasks : task'[t].pid = task[t].pid /\ task'[t].parent = task[t].parent
  /\ task'[b].next = task[a].next /\ \A t \in Tasks \ {b} : task'[t].next = task[t].next
  /\ state'[a] = new /\ \A t \in Tasks \ {a} : state'[t] = state[t]
  /\ stays' = stays \ {a} /\ left' = left \cup {a} /\ UNCHANGED reused

ExecEffect ==
  /\ \A t \in Tasks : /\ task'[t].pid = task[t].pid /\ task'[t].next = task[t].next
                      /\ task'[t].parent = task[t].parent
  /\ UNCHANGED <<state, stays, left, reused>>

\* The free, the hidden and the linked tasks, and those the walk may reach.
LEMMA Shapes ==
  ASSUME WalkerType, GuestInv
  PROVE  /\ 0 \in Tasks /\ 1 \in Tasks /\ UserTasks \subseteq Tasks
         /\ 0 \notin UserTasks /\ 1 \notin UserTasks
         /\ \A t \in Tasks : t \in {0, 1} \/ t \in UserTasks
         /\ \A t \in Tasks : t \in Free <=> state[t] = "free"
         /\ \A t \in Tasks : t \in Used <=> state[t] # "free"
         /\ \A t \in Tasks : t \in Hidden <=> state[t] = "hidden"
         /\ Linked(0) /\ Linked(1)
         /\ Hidden \subseteq UserTasks /\ Free \subseteq UserTasks
BY Zenon, WalkerAssumption DEF WalkerType, GuestInv, Tasks, Free, Used, Hidden, Linked

\* A task_struct field by field.
LEMMA StructFields ==
  ASSUME NEW r \in Structs
  PROVE  /\ r.pid \in AllPids /\ r.parent \in Tasks /\ r.next \in Tasks
         /\ r.comm \in CommNames
BY Zenon DEF Structs

LEMMA NextSet ==
  ASSUME NEW r \in Structs, NEW t \in Tasks
  PROVE  /\ [r EXCEPT !.next = t] \in Structs
         /\ [r EXCEPT !.next = t].pid = r.pid /\ [r EXCEPT !.next = t].parent = r.parent
         /\ [r EXCEPT !.next = t].next = t
BY DEF Structs

LEMMA ParentSet ==
  ASSUME NEW r \in Structs, NEW t \in Tasks
  PROVE  /\ [r EXCEPT !.parent = t] \in Structs
         /\ [r EXCEPT !.parent = t].pid = r.pid /\ [r EXCEPT !.parent = t].next = r.next
         /\ [r EXCEPT !.parent = t].parent = t
BY DEF Structs

LEMMA CommSet ==
  ASSUME NEW r \in Structs, NEW c \in CommNames
  PROVE  /\ [r EXCEPT !.comm = c] \in Structs
         /\ [r EXCEPT !.comm = c].pid = r.pid /\ [r EXCEPT !.comm = c].next = r.next
         /\ [r EXCEPT !.comm = c].parent = r.parent
BY DEF Structs

LEMMA ChildSet ==
  ASSUME NEW r \in Structs, NEW n \in AllPids, NEW q \in Tasks, NEW t \in Tasks
  PROVE  /\ [r EXCEPT !.pid = n, !.parent = q, !.next = t] \in Structs
         /\ [r EXCEPT !.pid = n, !.parent = q, !.next = t].pid = n
         /\ [r EXCEPT !.pid = n, !.parent = q, !.next = t].parent = q
         /\ [r EXCEPT !.pid = n, !.parent = q, !.next = t].next = t
BY DEF Structs

\* copy_process links the child at the tail of the list.
LEMMA ForkDoes ==
  ASSUME WalkerType, GuestInv, ListInv, Fork
  PROVE  /\ \E p \in Tasks, a \in UserTasks, l \in Tasks, pid \in UserPids :
              ForkEffect(p, a, l, pid)
         /\ task' \in [Tasks -> Structs]
         /\ state' \in [Tasks -> {"linked", "zombie", "hidden", "free"}]
<1>1. PICK p \in Tasks, a \in Free, pid \in FreePids :
       /\ Runs(p)
       /\ task' = [task EXCEPT ![LastTask].next = a,
                     ![a] = [task[p] EXCEPT !.pid = pid, !.parent = p, !.next = InitTask]]
       /\ state' = [state EXCEPT ![a] = "linked"]
       /\ reused' = (reused \/ a \in left)
  BY Zenon DEF Fork
<1>2. PICK l \in Tasks : l = LastTask /\ Linked(l) /\ task[l].next = 0
  <2>1. \E b \in Tasks : Linked(b) /\ task[b].next = 0
    BY Zenon, Shapes DEF ListInv
  <2> QED
    BY Zenon, <2>1 DEF LastTask, InitTask
<1>3. a \in UserTasks /\ a \in Tasks /\ state[a] = "free" /\ a # l
  BY Zenon, <1>2, Shapes DEF Linked
<1>4. pid \in UserPids /\ pid \in AllPids /\ \A t \in Used : task[t].pid # pid
  BY Zenon DEF FreePids, AllPids, Used
<1>5. state[p] \in {"linked", "hidden"}
  BY Zenon, <1>1 DEF Runs
<1> DEFINE new == [task[p] EXCEPT !.pid = pid, !.parent = p, !.next = InitTask]
           tail == [task[l] EXCEPT !.next = a]
<1>6. task[p] \in Structs /\ task[l] \in Structs
  BY Zenon DEF WalkerType
<1>7. /\ new \in Structs /\ new.pid = pid /\ new.parent = p /\ new.next = 0
      /\ tail \in Structs /\ tail.pid = task[l].pid /\ tail.parent = task[l].parent
      /\ tail.next = a
  <2>1. InitTask \in Tasks
    BY Zenon, Shapes DEF InitTask
  <2>2. new \in Structs /\ new.pid = pid /\ new.parent = p /\ new.next = InitTask
    BY Zenon, <1>4, <1>6, <2>1, ChildSet DEF Structs
  <2>3. /\ tail \in Structs /\ tail.pid = task[l].pid /\ tail.parent = task[l].parent
        /\ tail.next = a
    BY Zenon, <1>3, <1>6, NextSet
  <2> QED
    BY Zenon, <2>2, <2>3 DEF InitTask
<1>8. task' = [task EXCEPT ![l].next = a, ![a] = new]
  BY Zenon, <1>1, <1>2
<1> HIDE DEF new
<1>9. task' = [task EXCEPT ![l] = tail, ![a] = new]
  BY Zenon, <1>8
<1> HIDE DEF tail
<1>10. /\ task' \in [Tasks -> Structs] /\ task'[a] = new /\ task'[l] = tail
       /\ \A t \in Tasks \ {a, l} : task'[t] = task[t]
  BY Zenon, <1>3, <1>7, <1>9 DEF WalkerType
<1>11. /\ state'[a] = "linked" /\ \A t \in Tasks \ {a} : state'[t] = state[t]
       /\ state' \in [Tasks -> {"linked", "zombie", "hidden", "free"}]
  BY Zenon, <1>1, <1>3 DEF WalkerType
<1>12. \A t \in Tasks \ {a} : task'[t].pid = task[t].pid /\ task'[t].parent = task[t].parent
  BY Zenon, <1>7, <1>10
<1>13. UNCHANGED <<stays, left>>
  BY Zenon DEF Fork
<1>14. ForkEffect(p, a, l, pid)
  BY Zenon, <1>1, <1>2, <1>3, <1>4, <1>5, <1>7, <1>10, <1>11, <1>12, <1>13 DEF ForkEffect
<1> QED
  BY Zenon, <1>3, <1>4, <1>10, <1>11, <1>14

\* do_exit gives the children to init.
LEMMA ExitDoes ==
  ASSUME WalkerType, GuestInv, Exit
  PROVE  /\ \E a \in UserTasks : ExitEffect(a)
         /\ task' \in [Tasks -> Structs]
         /\ state' \in [Tasks -> {"linked", "zombie", "hidden", "free"}]
<1>1. PICK a \in UserTasks :
       /\ state[a] = "linked"
       /\ task' = [b \in Tasks |-> IF task[b].parent = a /\ b \notin Free
                                   THEN [task[b] EXCEPT !.parent = 1] ELSE task[b]]
       /\ state' = [state EXCEPT ![a] = "zombie"]
  BY Zenon DEF Exit
<1>2. \A t \in Tasks : task[t] \in Structs
  BY Zenon DEF WalkerType
<1>3. ASSUME NEW t \in Tasks
      PROVE  /\ [task[t] EXCEPT !.parent = 1] \in Structs
             /\ [task[t] EXCEPT !.parent = 1].pid = task[t].pid
             /\ [task[t] EXCEPT !.parent = 1].next = task[t].next
             /\ [task[t] EXCEPT !.parent = 1].parent = 1
  BY Zenon, <1>2, ParentSet, Shapes
<1>4. \A t \in Tasks : task'[t] = IF task[t].parent = a /\ t \notin Free
                                  THEN [task[t] EXCEPT !.parent = 1] ELSE task[t]
  BY Zenon, <1>1
<1>5. task' \in [Tasks -> Structs]
  BY Zenon, <1>1, <1>2, <1>3
<1>6. \A t \in Tasks : task'[t].pid = task[t].pid /\ task'[t].next = task[t].next
  BY Zenon, <1>3, <1>4
<1>7. /\ \A t \in Free : task'[t].parent = task[t].parent
      /\ \A t \in Used : task'[t].parent = IF task[t].parent = a THEN 1 ELSE task[t].parent
  <2>1. ASSUME NEW t \in Free
        PROVE  task'[t].parent = task[t].parent
    <3>1. t \in Tasks
      BY Zenon, Shapes
    <3> QED
      BY Zenon, <1>4, <3>1
  <2>2. ASSUME NEW t \in Used
        PROVE  task'[t].parent = IF task[t].parent = a THEN 1 ELSE task[t].parent
    <3>1. t \in Tasks /\ t \notin Free
      BY Zenon DEF Used
    <3>2. CASE task[t].parent = a
      BY Zenon, <1>3, <1>4, <3>1, <3>2
    <3>3. CASE task[t].parent # a
      BY Zenon, <1>4, <3>1, <3>3
    <3> QED
      BY Zenon, <3>2, <3>3
  <2> QED
    BY Zenon, <2>1, <2>2
<1>8. /\ state'[a] = "zombie" /\ \A t \in Tasks \ {a} : state'[t] = state[t]
      /\ state' \in [Tasks -> {"linked", "zombie", "hidden", "free"}]
  BY Zenon, <1>1, Shapes DEF WalkerType
<1>9. UNCHANGED <<stays, left, reused>>
  BY Zenon DEF Exit
<1>10. a \in UserTasks /\ state[a] = "linked"
  BY Zenon, <1>1
<1>11. ExitEffect(a)
  BY Zenon, <1>6, <1>7, <1>8, <1>9, <1>10 DEF ExitEffect
<1> QED
  BY Zenon, <1>5, <1>8, <1>11

\* A task is taken out of the list between its neighbours.
LEMMA UnlinkDoes ==
  ASSUME WalkerType, GuestInv, ListInv, NEW a \in UserTasks, NEW new,
         \/ state[a] = "zombie" /\ new = "free"
         \/ state[a] = "linked" /\ new = "hidden",
         Unlink(a, new)
  PROVE  /\ \E b \in Tasks : UnlinkEffect(a, b, new)
         /\ task' \in [Tasks -> Structs]
         /\ state' \in [Tasks -> {"linked", "zombie", "hidden", "free"}]
<1>1. /\ task' = [task EXCEPT ![Before(a)].next = task[a].next]
      /\ state' = [state EXCEPT ![a] = new]
      /\ stays' = stays \ {a} /\ left' = left \cup {a} /\ UNCHANGED reused
  BY Zenon DEF Unlink
<1>2. PICK b \in Tasks : b = Before(a) /\ Linked(b) /\ task[b].next = a
  <2>1. Linked(a)
    BY Zenon DEF Linked
  <2>2. \E b \in Tasks : Linked(b) /\ task[b].next = a
    BY Zenon, <2>1, Shapes DEF ListInv
  <2> QED
    BY Zenon, <2>2 DEF Before
<1> DEFINE n == task[a].next
           r == [task[b] EXCEPT !.next = n]
<1>3. task' = [task EXCEPT ![b].next = n]
  BY Zenon, <1>1, <1>2
<1>4. task[b] \in Structs /\ n \in Tasks
  BY Zenon, StructFields, Shapes DEF WalkerType
<1> HIDE DEF n
<1>5. /\ r \in Structs /\ r.pid = task[b].pid /\ r.parent = task[b].parent /\ r.next = n
  BY Zenon, <1>4, NextSet
<1>6. task' = [task EXCEPT ![b] = r]
  BY Zenon, <1>3
<1> HIDE DEF r
<1>7. /\ task' \in [Tasks -> Structs] /\ task'[b] = r
      /\ \A t \in Tasks \ {b} : task'[t] = task[t]
  BY Zenon, <1>5, <1>6 DEF WalkerType
<1>8. /\ state'[a] = new /\ \A t \in Tasks \ {a} : state'[t] = state[t]
      /\ state' \in [Tasks -> {"linked", "zombie", "hidden", "free"}]
  BY Zenon, <1>1, Shapes DEF WalkerType
<1>9. \A t \in Tasks : task'[t].pid = task[t].pid /\ task'[t].parent = task[t].parent
  BY Zenon, <1>5, <1>7
<1>10. UnlinkEffect(a, b, new)
  BY Zenon, <1>1, <1>2, <1>5, <1>7, <1>8, <1>9 DEF UnlinkEffect, n
<1> QED
  BY Zenon, <1>7, <1>8, <1>10

\* execve writes comm.
LEMMA ExecDoes ==
  ASSUME WalkerType, GuestInv, Exec
  PROVE  ExecEffect /\ task' \in [Tasks -> Structs]
<1>1. PICK a \in UserTasks : \E c \in TaskComms \ {task[a].comm} :
        task' = [task EXCEPT ![a].comm = c]
  BY Zenon DEF Exec
<1>2. PICK c \in TaskComms : task' = [task EXCEPT ![a].comm = c]
  BY Zenon, <1>1
<1> DEFINE r == [task[a] EXCEPT !.comm = c]
<1>3. /\ r \in Structs /\ r.pid = task[a].pid /\ r.parent = task[a].parent
      /\ r.next = task[a].next
  <2>1. c \in CommNames /\ task[a] \in Structs
    BY Zenon, Shapes DEF CommNames, WalkerType
  <2> QED
    BY Zenon, <2>1, CommSet
<1>4. task' = [task EXCEPT ![a] = r]
  BY Zenon, <1>2
<1> HIDE DEF r
<1>5. /\ task' \in [Tasks -> Structs] /\ task'[a] = r
      /\ \A t \in Tasks \ {a} : task'[t] = task[t]
  BY Zenon, <1>3, <1>4, Shapes DEF WalkerType
<1>6. UNCHANGED <<state, stays, left, reused>>
  BY Zenon DEF Exec
<1> QED
  BY Zenon, <1>3, <1>5, <1>6 DEF ExecEffect


-----------------------------------------------------------------------------
(* The guest keeps its processes and its list in order.                    *)

LEMMA ForkGuest ==
  ASSUME WalkerType, GuestInv, ListInv,
         NEW p, NEW a, NEW l, NEW pid, ForkEffect(p, a, l, pid)
  PROVE  GuestInv' /\ ListInv'
<1>1. /\ \A t \in Tasks : t \in Used' <=> t \in Used \/ t = a
      /\ \A t \in Tasks : Linked(t)' <=> Linked(t) \/ t = a
      /\ a \notin Used /\ ~Linked(a) /\ a # l /\ a \in Tasks
  BY Zenon, Shapes DEF Used, Free, Linked, ForkEffect
<1>2. \A t \in Used : task'[t].pid = task[t].pid /\ task'[t].parent = task[t].parent
  BY Zenon, <1>1 DEF Used, ForkEffect
<1>3. \A t \in Tasks : Linked(t) /\ t # l => task'[t].next = task[t].next
  BY Zenon, <1>1 DEF ForkEffect
<1>4. \A t \in Tasks : Linked(t) => task[t].next # a
  BY Zenon, <1>1 DEF ListInv, ForkEffect
<1>5. \A t \in Tasks : Linked(t) /\ t # l => task[t].next # 0
  BY Zenon DEF ListInv, ForkEffect
<1>6. GuestInv'
  <2>1. /\ (state[0] = "linked" /\ task[0].pid = 0 /\ task[0].parent = 0)'
        /\ (state[1] = "linked" /\ task[1].pid = 1 /\ task[1].parent = 0)'
    <3>1. 0 \in Tasks \ {a} /\ 1 \in Tasks \ {a}
      BY Zenon, Shapes DEF ForkEffect
    <3>2. /\ state'[0] = state[0] /\ task'[0].pid = task[0].pid
          /\ task'[0].parent = task[0].parent
      BY Zenon, <3>1 DEF ForkEffect
    <3>3. /\ state'[1] = state[1] /\ task'[1].pid = task[1].pid
          /\ task'[1].parent = task[1].parent
      BY Zenon, <3>1 DEF ForkEffect
    <3> QED
      BY Zenon, <3>2, <3>3 DEF GuestInv
  <2>2. \A t \in UserTasks \ Free' : task'[t].pid \in UserPids
    BY <1>1, Shapes DEF GuestInv, Free, ForkEffect
  <2>3. \A t, v \in Used' : task'[t].pid = task'[v].pid => t = v
    BY <1>1, <1>2 DEF GuestInv, Used, ForkEffect
  <2>4. \A t \in Used' : state'[task'[t].parent] \in {"linked", "hidden"}
    <3>1. \A t \in Used : state[task[t].parent] \in {"linked", "hidden"}
      BY Zenon DEF GuestInv
    <3>2. \A t \in Used : task[t].parent \in Tasks /\ task[t].parent # a
      BY Zenon, <3>1, StructFields DEF Used, WalkerType, ForkEffect
    <3>3. p # a
      BY Zenon DEF ForkEffect
    <3> QED
      BY <1>1, <1>2, <3>1, <3>2, <3>3 DEF Used, ForkEffect
  <2> QED
    BY Zenon, <2>1, <2>2, <2>3, <2>4 DEF GuestInv
<1>7. ListInv'
  <2>1. \A t \in Tasks : Linked(t)' => Linked(task[t].next)'
    <3> SUFFICES ASSUME NEW t \in Tasks, Linked(t)'
                 PROVE  Linked(task[t].next)'
      BY Zenon
    <3>1. CASE t = a \/ t = l
      BY <1>1, <3>1, Shapes DEF Linked, ForkEffect
    <3>2. CASE t # a /\ t # l
      <4>1. Linked(task[t].next) /\ task[t].next \in Tasks /\ task[t].next # a
        BY Zenon, <1>1, <1>4, <3>2, StructFields DEF ListInv, WalkerType
      <4> QED
        BY <3>2, <4>1 DEF Linked, ForkEffect
    <3> QED
      BY Zenon, <3>1, <3>2
  <2>2. ASSUME NEW t \in Tasks, NEW v \in Tasks,
               Linked(t)', Linked(v)', task'[t].next = task'[v].next
        PROVE  t = v
    <3>0. a # 0
      BY Zenon, Shapes DEF ForkEffect
    <3>1. CASE t = a \/ v = a
      BY <1>1, <1>3, <1>5, <2>2, <3>0, <3>1 DEF ForkEffect
    <3>2. CASE t # a /\ v # a /\ (t = l \/ v = l)
      <4>1. CASE t = l /\ v # l
        BY Zenon, <1>1, <1>3, <1>4, <2>2, <3>2, <4>1 DEF ForkEffect
      <4>2. CASE v = l /\ t # l
        BY Zenon, <1>1, <1>3, <1>4, <2>2, <3>2, <4>2 DEF ForkEffect
      <4> QED
        BY Zenon, <3>2, <4>1, <4>2
    <3>3. CASE t # a /\ v # a /\ t # l /\ v # l
      BY <1>1, <1>3, <2>2, <3>3 DEF ListInv
    <3> QED
      BY Zenon, <3>1, <3>2, <3>3
  <2>3. ASSUME NEW t \in Tasks, Linked(t)'
        PROVE  \E v \in Tasks : Linked(v)' /\ task'[v].next = t
    <3>1. CASE t = a
      BY Zenon, <1>1, <3>1 DEF ForkEffect
    <3>2. CASE t = 0
      BY Zenon, <1>1, <3>2 DEF ForkEffect
    <3>3. CASE t # a /\ t # 0
      <4>1. PICK v \in Tasks : Linked(v) /\ task[v].next = t
        BY Zenon, <1>1, <2>3, <3>3 DEF ListInv
      <4> QED
        BY Zenon, <1>1, <1>3, <3>3, <4>1 DEF ForkEffect
    <3> QED
      BY Zenon, <3>1, <3>2, <3>3
  <2> QED
    BY Zenon, <2>1, <2>2, <2>3 DEF ListInv
<1> QED
  BY Zenon, <1>6, <1>7

LEMMA ExitGuest ==
  ASSUME WalkerType, GuestInv, ListInv, NEW a, ExitEffect(a)
  PROVE  GuestInv' /\ ListInv'
<1>1. /\ Used' = Used /\ Free' = Free
      /\ \A t \in Tasks : Linked(t)' <=> Linked(t)
      /\ a \in Tasks /\ a # 0 /\ a # 1
  BY Shapes DEF Used, Free, Linked, ExitEffect
<1>2. GuestInv'
  <2>1. /\ (state[0] = "linked" /\ task[0].pid = 0 /\ task[0].parent = 0)'
        /\ (state[1] = "linked" /\ task[1].pid = 1 /\ task[1].parent = 0)'
    BY Zenon, <1>1, Shapes DEF GuestInv, ExitEffect
  <2>2. \A t \in UserTasks \ Free' : task'[t].pid \in UserPids
    BY Zenon, <1>1, Shapes DEF GuestInv, ExitEffect
  <2>3. \A t, v \in Used' : task'[t].pid = task'[v].pid => t = v
    BY <1>1 DEF GuestInv, Used, ExitEffect
  <2>4. ASSUME NEW t \in Used'
        PROVE  state'[task'[t].parent] \in {"linked", "hidden"}
    <3>1. t \in Used /\ t \in Tasks /\ task[t].parent \in Tasks
      BY Zenon, <1>1, StructFields DEF Used, WalkerType
    <3>2. CASE task[t].parent = a
      <4>1. state'[1] = "linked" /\ task'[t].parent = 1
        BY Zenon, <1>1, <3>1, <3>2, Shapes DEF GuestInv, ExitEffect
      <4> QED
        BY Zenon, <4>1
    <3>3. CASE task[t].parent # a
      BY <3>1, <3>3 DEF GuestInv, ExitEffect
    <3> QED
      BY Zenon, <3>2, <3>3
  <2> QED
    BY Zenon, <2>1, <2>2, <2>3, <2>4 DEF GuestInv
<1>3. \A t \in Tasks : task[t].next \in Tasks
  BY Zenon, StructFields DEF WalkerType
<1>4. \A t \in Tasks : Linked(task[t].next)' <=> Linked(task[t].next)
  BY Zenon, <1>1, <1>3 DEF Linked, ExitEffect
<1>5. ListInv'
  <2>1. \A t \in Tasks : Linked(t) => Linked(task[t].next)
    BY Zenon DEF ListInv
  <2>2. \A t, v \in Tasks : Linked(t) /\ Linked(v) /\ task[t].next = task[v].next => t = v
    BY Zenon DEF ListInv
  <2>3. \A t \in Tasks : Linked(t) => \E v \in Tasks : Linked(v) /\ task[v].next = t
    BY Zenon DEF ListInv
  <2>4. \A t \in Tasks : Linked(t)' => Linked(task[t].next)'
    BY Zenon, <1>1, <1>4, <2>1
  <2>5. ASSUME NEW t \in Tasks, NEW v \in Tasks, Linked(t)', Linked(v)',
               task'[t].next = task'[v].next
        PROVE  t = v
    BY Zenon, <1>1, <2>2, <2>5 DEF ExitEffect
  <2>6. \A t \in Tasks : Linked(t)' => \E v \in Tasks : Linked(v)' /\ task'[v].next = t
    BY Zenon, <1>1, <2>3 DEF ExitEffect
  <2> QED
    BY Zenon, <2>4, <2>5, <2>6 DEF ListInv
<1> QED
  BY Zenon, <1>2, <1>5

LEMMA UnlinkGuest ==
  ASSUME WalkerType, GuestInv, ListInv, NEW a, NEW b, NEW new, UnlinkEffect(a, b, new)
  PROVE  GuestInv' /\ ListInv'
<1>1. /\ \A t \in Tasks : t \in Used' => t \in Used
      /\ \A t \in Tasks : Linked(t)' <=> Linked(t) /\ t # a
      /\ a \in Tasks /\ a # 0 /\ a # 1 /\ Linked(a)
  BY Zenon, Shapes DEF Used, Free, Linked, UnlinkEffect
<1>2. GuestInv'
  <2>1. /\ (state[0] = "linked" /\ task[0].pid = 0 /\ task[0].parent = 0)'
        /\ (state[1] = "linked" /\ task[1].pid = 1 /\ task[1].parent = 0)'
    BY Zenon, <1>1, Shapes DEF GuestInv, UnlinkEffect
  <2>2. \A t \in UserTasks \ Free' : task'[t].pid \in UserPids
    <3> SUFFICES ASSUME NEW t \in UserTasks, t \notin Free'
                 PROVE  task'[t].pid \in UserPids
      BY Zenon
    <3>1. t \in Tasks /\ t \in Used
      BY Zenon, <1>1, Shapes DEF Used
    <3>2. t \in UserTasks \ Free
      BY Zenon, <3>1 DEF Used
    <3> QED
      BY Zenon, <3>1, <3>2 DEF GuestInv, UnlinkEffect
  <2>3. \A t, v \in Used' : task'[t].pid = task'[v].pid => t = v
    BY <1>1 DEF GuestInv, Used, UnlinkEffect
  <2>4. ASSUME NEW t \in Used'
        PROVE  state'[task'[t].parent] \in {"linked", "hidden"}
    <3>1. t \in Used /\ t \in Tasks /\ task[t].parent \in Tasks
      BY Zenon, <1>1, StructFields DEF Used, WalkerType
    <3>2. state[task[t].parent] \in {"linked", "hidden"} /\ task'[t].parent = task[t].parent
      BY Zenon, <3>1 DEF GuestInv, UnlinkEffect
    <3> QED
      <4>1. CASE task[t].parent = a
        BY Zenon, <3>2, <4>1 DEF UnlinkEffect
      <4>2. CASE task[t].parent # a
        BY Zenon, <3>1, <3>2, <4>2 DEF UnlinkEffect
      <4> QED
        BY Zenon, <4>1, <4>2
  <2> QED
    BY Zenon, <2>1, <2>2, <2>3, <2>4 DEF GuestInv
<1>3. \A t \in Tasks : Linked(t) /\ task[t].next = a => t = b
  BY Zenon DEF ListInv, UnlinkEffect
<1>4. ListInv'
  <2>1. ASSUME NEW t \in Tasks, Linked(t)'
        PROVE  Linked(task[t].next)'
    <3>1. t # a /\ Linked(t) /\ task[t].next \in Tasks /\ task[a].next \in Tasks
      BY Zenon, <1>1, <2>1, StructFields DEF WalkerType
    <3>2. CASE t = b
      <4>1. task[a].next # a
        BY Zenon, <1>1, <1>3, <3>1, <3>2
      <4>2. Linked(task[a].next)
        BY Zenon, <1>1 DEF ListInv
      <4> QED
        BY <3>1, <3>2, <4>1, <4>2 DEF Linked, UnlinkEffect
    <3>3. CASE t # b
      <4>1. task[t].next # a /\ Linked(task[t].next)
        BY Zenon, <1>3, <3>1, <3>3 DEF ListInv
      <4> QED
        BY <3>1, <3>3, <4>1 DEF Linked, UnlinkEffect
    <3> QED
      BY Zenon, <3>2, <3>3
  <2>2. ASSUME NEW t \in Tasks, NEW v \in Tasks,
               Linked(t)', Linked(v)', task'[t].next = task'[v].next
        PROVE  t = v
    <3>1. t # a /\ v # a /\ Linked(t) /\ Linked(v)
      BY Zenon, <1>1, <2>2
    <3>2. CASE t = b \/ v = b
      BY <1>1, <2>2, <3>1, <3>2 DEF ListInv, UnlinkEffect
    <3>3. CASE t # b /\ v # b
      BY Zenon, <2>2, <3>1, <3>3 DEF ListInv, UnlinkEffect
    <3> QED
      BY Zenon, <3>2, <3>3
  <2>3. ASSUME NEW t \in Tasks, Linked(t)'
        PROVE  \E v \in Tasks : Linked(v)' /\ task'[v].next = t
    <3>1. t # a /\ Linked(t)
      BY Zenon, <1>1, <2>3
    <3>2. PICK v \in Tasks : Linked(v) /\ task[v].next = t
      BY Zenon, <3>1 DEF ListInv
    <3>3. CASE v = a
      <4>1. b # a /\ task'[b].next = t
        BY Zenon, <3>1, <3>2, <3>3 DEF UnlinkEffect
      <4> QED
        BY Zenon, <1>1, <4>1 DEF UnlinkEffect
    <3>4. CASE v # a
      <4>1. v # b
        BY Zenon, <3>1, <3>2 DEF UnlinkEffect
      <4> QED
        BY Zenon, <1>1, <3>2, <3>4, <4>1 DEF UnlinkEffect
    <3> QED
      BY Zenon, <3>3, <3>4
  <2> QED
    BY Zenon, <2>1, <2>2, <2>3 DEF ListInv
<1> QED
  BY Zenon, <1>2, <1>4

LEMMA ExecGuest ==
  ASSUME WalkerType, GuestInv, ListInv, ExecEffect
  PROVE  GuestInv' /\ ListInv'
<1>1. Used' = Used /\ Free' = Free /\ \A t : Linked(t)' <=> Linked(t)
  BY Zenon DEF Used, Free, Linked, ExecEffect
<1>2. GuestInv'
  BY <1>1, Shapes DEF GuestInv, Used, ExecEffect
<1>3. ListInv'
  <2>1. \A t \in Tasks : Linked(t) => Linked(task[t].next)
    BY Zenon DEF ListInv
  <2>2. \A t, v \in Tasks : Linked(t) /\ Linked(v) /\ task[t].next = task[v].next => t = v
    BY Zenon DEF ListInv
  <2>3. \A t \in Tasks : Linked(t) => \E v \in Tasks : Linked(v) /\ task[v].next = t
    BY Zenon DEF ListInv
  <2>4. \A t \in Tasks : Linked(t)' => Linked(task[t].next)'
    BY Zenon, <1>1, <2>1 DEF ExecEffect
  <2>5. ASSUME NEW t \in Tasks, NEW v \in Tasks, Linked(t)', Linked(v)',
               task'[t].next = task'[v].next
        PROVE  t = v
    BY Zenon, <1>1, <2>2, <2>5 DEF ExecEffect
  <2>6. \A t \in Tasks : Linked(t)' => \E v \in Tasks : Linked(v)' /\ task'[v].next = t
    BY Zenon, <1>1, <2>3 DEF ExecEffect
  <2> QED
    BY Zenon, <2>4, <2>5, <2>6 DEF ListInv
<1> QED
  BY Zenon, <1>2, <1>3


-----------------------------------------------------------------------------
(* The reads of the walk.                                                  *)

\* A record joins the snapshot.
LEMMA AppendRecord ==
  ASSUME snap \in Seq(RecordSet), NEW r \in RecordSet, snap' = Append(snap, r)
  PROVE  /\ snap' \in Seq(RecordSet)
         /\ Len(snap) \in Nat /\ DOMAIN snap = 1 .. Len(snap)
         /\ Len(snap) + 1 \in DOMAIN snap' /\ Len(snap) + 1 \notin DOMAIN snap
         /\ \A i \in DOMAIN snap' : i \in DOMAIN snap \/ i = Len(snap) + 1
         /\ \A i \in DOMAIN snap : i \in DOMAIN snap' /\ snap'[i] = snap[i]
         /\ snap'[Len(snap) + 1] = r
<1>1. Len(snap) \in Nat /\ DOMAIN snap = 1 .. Len(snap)
  OBVIOUS
<1>2. /\ snap' \in Seq(RecordSet) /\ DOMAIN snap' = 1 .. Len(snap) + 1
      /\ snap'[Len(snap) + 1] = r
      /\ \A i \in 1 .. Len(snap) : snap'[i] = snap[i]
  OBVIOUS
<1> QED
  BY <1>1, <1>2

LEMMA RecordFields ==
  ASSUME NEW r \in RecordSet
  PROVE  r.pid \in AllPids /\ r.ppid \in AllPids /\ r.comm \in CommNames /\ r.at \in Tasks
BY Zenon DEF RecordSet

\* The walk stays on tasks, and records what it reads.
LEMMA ReadTaskType ==
  ASSUME WalkerType, GuestInv, ReadTask
  PROVE  WalkerType'
<1>1. UNCHANGED <<task, state, events, stays, hid, left, reused, snap>>
  BY Zenon DEF ReadTask, EndWalk, guest, history
<1>2. CASE EndWalk /\ UNCHANGED parent
  BY Zenon, <1>1, <1>2, Shapes DEF EndWalk, WalkerType, InitTask
<1>3. CASE /\ parent' \in OrZero(task[cur].parent, InitTask)
           /\ rec' = [pid |-> task[cur].pid, ppid |-> 0, comm |-> task[cur].comm, at |-> cur]
           /\ pc' = "ppid"
           /\ UNCHANGED <<cur, snap>>
  <2>1. task[cur].pid \in AllPids /\ task[cur].parent \in Tasks /\ task[cur].comm \in CommNames
    BY Zenon, StructFields DEF WalkerType
  <2>2. parent' \in Tasks
    BY Zenon, <1>3, <2>1, Shapes DEF OrZero, InitTask
  <2>3. rec' \in RecordSet
    BY Zenon, <1>3, <2>1 DEF RecordSet, AllPids, WalkerType
  <2> QED
    BY Zenon, <1>1, <1>3, <2>2, <2>3 DEF WalkerType, Walking
<1> QED
  BY Zenon, <1>2, <1>3 DEF ReadTask

LEMMA ReadParentPidType ==
  ASSUME WalkerType, GuestInv, ReadParentPid
  PROVE  /\ WalkerType'
         /\ rec'.at = rec.at /\ rec'.pid = rec.pid
         /\ rec'.ppid \in {task[parent].pid, 0}
<1>1. UNCHANGED <<task, state, events, stays, hid, left, reused, snap, cur>>
  BY Zenon DEF ReadParentPid, guest, history
<1>2. rec \in RecordSet /\ pc' = "next" /\ parent' = 0
  BY Zenon DEF ReadParentPid, WalkerType, InitTask
<1>3. PICK p \in {task[parent].pid, 0} : rec' = [rec EXCEPT !.ppid = p]
  BY Zenon DEF ReadParentPid, OrZero
<1>4. p \in AllPids
  BY Zenon, StructFields DEF WalkerType, AllPids
<1>5. rec' \in RecordSet /\ rec'.at = rec.at /\ rec'.pid = rec.pid /\ rec'.ppid = p
  BY Zenon, <1>2, <1>3, <1>4 DEF RecordSet
<1> QED
  BY Zenon, <1>1, <1>2, <1>5, Shapes DEF WalkerType, Walking

LEMMA ReadNextType ==
  ASSUME WalkerType, GuestInv, ReadNext
  PROVE  WalkerType'
<1>1. UNCHANGED <<task, state, events, stays, hid, left, reused, parent>> /\ pc = "next"
  BY Zenon DEF ReadNext, guest, history
<1>2. CASE EndWalk
  BY Zenon, <1>1, <1>2, Shapes DEF EndWalk, WalkerType, InitTask
<1>3. CASE /\ snap' = Append(snap, rec)
           /\ cur' = task[cur].next
           /\ pc' = IF cur' = InitTask THEN "full" ELSE "task"
  <2>1. cur' \in Tasks
    BY Zenon, <1>3, StructFields DEF WalkerType
  <2>2. snap' \in Seq(RecordSet)
    BY Zenon, <1>1, <1>3, AppendRecord DEF WalkerType
  <2>3. pc' \in {"full", "task"}
    BY Zenon, <1>3
  <2> QED
    BY Zenon, <1>1, <2>1, <2>2, <2>3 DEF WalkerType, Walking
<1> QED
  BY Zenon, <1>2, <1>3 DEF ReadNext

LEMMA NextWalkType ==
  ASSUME WalkerType, GuestInv, NextWalk
  PROVE  WalkerType'
<1>1. /\ UNCHANGED <<task, state, events, rec, parent>>
      /\ pc' = "task" /\ cur' = 0 /\ snap' = <<>>
      /\ stays' = {a \in Tasks : Linked(a)} /\ hid' = Hidden /\ left' = {} /\ reused' = FALSE
  BY Zenon DEF NextWalk, guest, InitTask
<1>2. <<>> \in Seq(RecordSet)
  OBVIOUS
<1> QED
  BY Zenon, <1>1, <1>2, Shapes DEF WalkerType, Walking, Hidden

\* An event of the guest leaves the walk where it is.
LEMMA EventType ==
  ASSUME WalkerType, Event,
         task' \in [Tasks -> Structs],
         state' \in [Tasks -> {"linked", "zombie", "hidden", "free"}],
         stays' \in SUBSET Tasks, left' \in SUBSET UserTasks, reused' \in BOOLEAN
  PROVE  WalkerType'
<1>1. UNCHANGED <<pc, cur, rec, parent, snap, hid>>
  BY Zenon DEF Event, reads
<1>2. events' \in Nat
  BY DEF Event, WalkerType
<1> QED
  BY Zenon, <1>1, <1>2 DEF WalkerType

LEMMA GuestStepType ==
  ASSUME WalkerType, GuestInv, ListInv, GuestStep
  PROVE  WalkerType' /\ GuestInv' /\ ListInv'
<1>1. stays \in SUBSET Tasks /\ left \in SUBSET UserTasks /\ reused \in BOOLEAN
  BY Zenon DEF WalkerType
<1>2. CASE Fork
  <2>1. PICK p \in Tasks, a \in UserTasks, l \in Tasks, pid \in UserPids :
          ForkEffect(p, a, l, pid)
    BY Zenon, <1>2, ForkDoes
  <2>2. reused' \in BOOLEAN /\ UNCHANGED <<stays, left>>
    BY Zenon, <1>1, <2>1 DEF ForkEffect
  <2>3. WalkerType'
    BY Zenon, <1>1, <1>2, <2>2, ForkDoes, EventType DEF Fork
  <2> QED
    BY Zenon, <2>1, <2>3, ForkGuest
<1>3. CASE Exit
  <2>1. PICK a \in UserTasks : ExitEffect(a)
    BY Zenon, <1>3, ExitDoes
  <2>2. WalkerType'
    BY Zenon, <1>1, <1>3, <2>1, ExitDoes, EventType DEF Exit, ExitEffect
  <2> QED
    BY Zenon, <2>1, <2>2, ExitGuest
<1>4. CASE Reap \/ Hide
  <2>1. PICK a \in UserTasks, new \in {"free", "hidden"} :
          /\ \/ state[a] = "zombie" /\ new = "free"
             \/ state[a] = "linked" /\ new = "hidden"
          /\ Unlink(a, new)
    BY Zenon, <1>4 DEF Reap, Hide
  <2>2. PICK b \in Tasks : UnlinkEffect(a, b, new)
    BY Zenon, <2>1, UnlinkDoes
  <2>3. stays' \in SUBSET Tasks /\ left' \in SUBSET UserTasks /\ reused' \in BOOLEAN
    BY Zenon, <1>1, <2>2 DEF UnlinkEffect
  <2>4. /\ task' \in [Tasks -> Structs]
        /\ state' \in [Tasks -> {"linked", "zombie", "hidden", "free"}]
    BY Zenon, <2>1, UnlinkDoes
  <2>5. WalkerType'
    BY Zenon, <2>1, <2>3, <2>4, EventType DEF Unlink
  <2> QED
    BY Zenon, <2>2, <2>5, UnlinkGuest
<1>5. CASE Exec
  <2>1. ExecEffect /\ task' \in [Tasks -> Structs]
    BY Zenon, <1>5, ExecDoes
  <2>2. state' \in [Tasks -> {"linked", "zombie", "hidden", "free"}]
    BY Zenon, <2>1 DEF ExecEffect, WalkerType
  <2>3. WalkerType'
    BY Zenon, <1>1, <1>5, <2>1, <2>2, EventType DEF Exec, ExecEffect
  <2> QED
    BY Zenon, <2>1, <2>3, ExecGuest
<1> QED
  BY Zenon, <1>2, <1>3, <1>4, <1>5 DEF GuestStep


-----------------------------------------------------------------------------
(* A task hidden before the walk is not read by it.                        *)

LEMMA HiddenPid ==
  ASSUME WalkerType, GuestInv, HidInv, NEW h \in hid
  PROVE  /\ h \in UserTasks /\ h \in Tasks /\ state[h] = "hidden" /\ h \in Used
         /\ task[h].pid \in UserPids /\ task[h].pid \notin {0, 1}
<1>1. h \in UserTasks /\ h \in Tasks /\ state[h] = "hidden"
  BY Zenon, Shapes DEF HidInv
<1>2. h \in Used /\ h \notin Free
  BY Zenon, <1>1, Shapes
<1>3. task[h].pid \in UserPids
  BY Zenon, <1>1, <1>2 DEF GuestInv
<1> QED
  BY Zenon, <1>1, <1>2, <1>3, WalkerAssumption

\* The walk alone: what the guest's side of HidInv says is as it was.
LEMMA ReadsHid ==
  ASSUME WalkerType, GuestInv, HidInv, UNCHANGED <<task, state, hid, left>>,
         cur' \in Reach,
         signals' # NoSignals => pc' \in {"judge", "full"},
         (signals.by = "orphans" => signals.pids = orphans)',
         (pc \in {"ppid", "next"} => \A h \in hid : rec.pid # task[h].pid)',
         (\A h \in hid, i \in DOMAIN snap : snap[i].pid # task[h].pid)'
  PROVE  HidInv'
<1>1. Reach' = Reach /\ Hidden' = Hidden
  BY Zenon DEF Reach, Hidden, Linked
<1> QED
  BY Zenon, <1>1 DEF HidInv

LEMMA NextReached ==
  ASSUME WalkerType, ListInv, HidInv, NEW a \in Reach
  PROVE  task[a].next \in Reach
<1>1. CASE a \in left
  BY Zenon, <1>1 DEF HidInv
<1>2. CASE a \in Tasks /\ Linked(a)
  <2>1. task[a].next \in Tasks
    BY Zenon, <1>2, StructFields DEF WalkerType
  <2> QED
    BY Zenon, <1>2, <2>1 DEF ListInv, Reach
<1> QED
  BY Zenon, <1>1, <1>2 DEF Reach

LEMMA ReadTaskHid ==
  ASSUME WalkerType, GuestInv, ListInv, HidInv, ReadTask
  PROVE  HidInv'
<1>1. /\ UNCHANGED <<task, state, hid, left, snap, signals>> /\ pc = "task"
      /\ signals = NoSignals
  BY Zenon DEF ReadTask, EndWalk, guest, history, HidInv
<1>2. (\A h \in hid, i \in DOMAIN snap : snap[i].pid # task[h].pid)'
  BY Zenon, <1>1 DEF HidInv
<1>3. signals'.by # "orphans" /\ signals' = NoSignals
  BY <1>1 DEF NoSignals
<1>4. CASE EndWalk
  <2>1. cur' \in Reach
    BY Zenon, <1>4, Shapes DEF EndWalk, InitTask, Reach
  <2>2. pc' = "judge"
    BY Zenon, <1>4 DEF EndWalk
  <2> QED
    BY Zenon, <1>1, <1>2, <1>3, <2>1, <2>2, ReadsHid
<1>5. CASE /\ rec' = [pid |-> task[cur].pid, ppid |-> 0, comm |-> task[cur].comm, at |-> cur]
           /\ pc' = "ppid"
           /\ UNCHANGED <<cur, snap>>
  <2>1. cur' \in Reach /\ cur \in Reach
    BY Zenon, <1>5 DEF HidInv
  <2>2. rec'.pid = task[cur].pid
    BY Zenon, <1>5
  <2>3. \A h \in hid' : rec'.pid # task'[h].pid
    BY Zenon, <1>1, <2>1, <2>2 DEF HidInv
  <2> QED
    BY Zenon, <1>1, <1>2, <1>3, <2>1, <2>3, ReadsHid
<1> QED
  BY Zenon, <1>4, <1>5 DEF ReadTask

LEMMA ReadParentPidHid ==
  ASSUME WalkerType, GuestInv, HidInv, ReadParentPid
  PROVE  HidInv'
<1>1. /\ UNCHANGED <<task, state, hid, left, snap, signals, cur>> /\ pc = "ppid"
      /\ signals = NoSignals
  BY Zenon DEF ReadParentPid, guest, history, HidInv
<1>2. (\A h \in hid, i \in DOMAIN snap : snap[i].pid # task[h].pid)'
  BY Zenon, <1>1 DEF HidInv
<1>3. signals'.by # "orphans" /\ signals' = NoSignals
  BY <1>1 DEF NoSignals
<1>4. \A h \in hid' : rec'.pid # task'[h].pid
  BY Zenon, <1>1, ReadParentPidType DEF HidInv
<1> QED
  BY Zenon, <1>1, <1>2, <1>3, <1>4, ReadsHid DEF HidInv

LEMMA ReadNextHid ==
  ASSUME WalkerType, GuestInv, ListInv, HidInv, ReadNext
  PROVE  HidInv'
<1>1. /\ UNCHANGED <<task, state, hid, left, signals>> /\ pc = "next"
      /\ signals = NoSignals /\ cur \in Reach
  BY Zenon DEF ReadNext, guest, history, HidInv
<1>2. signals'.by # "orphans" /\ signals' = NoSignals
  BY <1>1 DEF NoSignals
<1>3. CASE EndWalk
  <2>1. cur' \in Reach
    BY Zenon, <1>3, Shapes DEF EndWalk, InitTask, Reach
  <2>2. pc' = "judge" /\ snap' = snap
    BY Zenon, <1>3 DEF EndWalk
  <2>3. (\A h \in hid, i \in DOMAIN snap : snap[i].pid # task[h].pid)'
    BY Zenon, <1>1, <2>2 DEF HidInv
  <2> QED
    BY Zenon, <1>1, <1>2, <2>1, <2>2, <2>3, ReadsHid
<1>4. CASE /\ snap' = Append(snap, rec)
           /\ cur' = task[cur].next
           /\ pc' = IF cur' = InitTask THEN "full" ELSE "task"
  <2>1. cur' \in Reach
    BY Zenon, <1>1, <1>4, NextReached
  <2>2. pc' \notin {"ppid", "next"}
    BY Zenon, <1>4
  <2>3. snap \in Seq(RecordSet) /\ rec \in RecordSet
    BY Zenon, <1>1 DEF WalkerType
  <2>4. \A h \in hid, i \in DOMAIN snap' : snap'[i].pid # task[h].pid
    <3> SUFFICES ASSUME NEW h \in hid, NEW i \in DOMAIN snap'
                 PROVE  snap'[i].pid # task[h].pid
      BY Zenon
    <3>1. CASE i \in DOMAIN snap
      <4>1. snap'[i] = snap[i]
        BY Zenon, <1>4, <2>3, <3>1, AppendRecord
      <4> QED
        BY Zenon, <3>1, <4>1 DEF HidInv
    <3>2. CASE i = Len(snap) + 1
      <4>1. snap'[i] = rec
        BY Zenon, <1>4, <2>3, <3>2, AppendRecord
      <4> QED
        BY Zenon, <1>1, <4>1 DEF HidInv
    <3> QED
      BY Zenon, <1>4, <2>3, <3>1, <3>2, AppendRecord
  <2>5. (\A h \in hid, i \in DOMAIN snap : snap[i].pid # task[h].pid)'
    BY Zenon, <1>1, <2>4
  <2> QED
    BY Zenon, <1>1, <1>2, <2>1, <2>2, <2>5, ReadsHid
<1> QED
  BY Zenon, <1>3, <1>4 DEF ReadNext

\* What is reported depends on the snapshot alone.
LEMMA SameOrphans ==
  ASSUME snap' = snap
  PROVE  orphans' = orphans
<1>1. Records' = Records
  BY Zenon DEF Records
<1> QED
  BY Zenon, <1>1 DEF orphans, pid_exists

\* The judgements do not touch the snapshot.
LEMMA JudgeHid ==
  ASSUME WalkerType, GuestInv, HidInv, NEW who, NEW pids, Judge(who, pids),
         who = "orphans" => pids = orphans
  PROVE  HidInv'
<1>1. /\ UNCHANGED <<task, state, hid, left, snap, pc, cur, rec>>
      /\ pc \in {"judge", "full"} /\ signals' = [by |-> who, pids |-> pids]
  BY Zenon DEF Judge, guest, history, reads
<1>2. signals'.by = who /\ signals'.pids = pids
  BY Zenon, <1>1
<1>3. orphans' = orphans
  BY Zenon, <1>1, SameOrphans
<1>4. (\A h \in hid, i \in DOMAIN snap : snap[i].pid # task[h].pid)'
  BY Zenon, <1>1 DEF HidInv
<1>5. cur' \in Reach
  BY Zenon, <1>1 DEF HidInv
<1> QED
  BY Zenon, <1>1, <1>2, <1>3, <1>4, <1>5, ReadsHid

LEMMA NextWalkHid ==
  ASSUME WalkerType, GuestInv, ListInv, HidInv, NextWalk
  PROVE  HidInv'
<1>1. /\ UNCHANGED <<task, state>> /\ signals' = NoSignals
      /\ pc' = "task" /\ cur' = 0 /\ snap' = <<>>
      /\ hid' = Hidden /\ left' = {}
  BY Zenon DEF NextWalk, guest, InitTask
<1>2. signals'.by # "orphans"
  BY Zenon, <1>1 DEF NoSignals
<1>3. Hidden' = Hidden /\ \A a : a \in Reach' <=> a \in Tasks /\ Linked(a)
  BY Zenon, <1>1 DEF Hidden, Reach, Linked
<1>4. \A h \in Hidden, a \in Reach' : task[a].pid # task[h].pid
  <2> SUFFICES ASSUME NEW h \in Hidden, NEW a \in Tasks, Linked(a)
               PROVE  task[a].pid # task[h].pid
    BY Zenon, <1>3
  <2>1. h \in Tasks /\ h \in Used /\ a \in Used /\ a # h
    BY Zenon, Shapes DEF Linked
  <2> QED
    BY Zenon, <2>1 DEF GuestInv
<1>5. DOMAIN snap' = {}
  BY <1>1
<1> QED
  BY Zenon, <1>1, <1>2, <1>3, <1>4, <1>5, Shapes DEF HidInv


\* The guest alone: the walk's side of HidInv is as it was.
LEMMA EventHid ==
  ASSUME WalkerType, GuestInv, HidInv, Event,
         \A h \in hid : task'[h].pid = task[h].pid /\ state'[h] = state[h],
         hid \cap left' = {}, cur \in Reach', \A a \in left' : task'[a].next \in Reach',
         \A h \in hid, a \in Reach' : task'[a].pid # task[h].pid
  PROVE  HidInv'
<1>1. UNCHANGED <<pc, cur, rec, snap, hid, signals>> /\ signals = NoSignals
  BY Zenon DEF Event, reads
<1>2. signals'.by # "orphans"
  BY <1>1 DEF NoSignals
<1>3. hid' \subseteq Hidden'
  BY Zenon, <1>1, HiddenPid DEF Hidden
<1>4. /\ \A h \in hid', a \in Reach' : task'[a].pid # task'[h].pid
      /\ pc' \in {"ppid", "next"} => \A h \in hid' : rec'.pid # task'[h].pid
      /\ \A h \in hid', i \in DOMAIN snap' : snap'[i].pid # task'[h].pid
  BY <1>1 DEF HidInv
<1> QED
  BY Zenon, <1>1, <1>2, <1>3, <1>4 DEF HidInv

LEMMA ReachTasks ==
  ASSUME WalkerType
  PROVE  \A t \in Reach : t \in Tasks
BY Zenon DEF Reach, WalkerType, Tasks

LEMMA ForkHid ==
  ASSUME WalkerType, GuestInv, ListInv, HidInv, Event,
         NEW p, NEW a, NEW l, NEW pid, ForkEffect(p, a, l, pid)
  PROVE  HidInv'
<1>1. /\ a \in UserTasks /\ a \in Tasks /\ state[a] = "free" /\ state'[a] = "linked"
      /\ left' = left /\ l # a /\ l \in Tasks /\ Linked(l)
      /\ \A t \in Tasks \ {a} : state'[t] = state[t] /\ task'[t].pid = task[t].pid
      /\ task'[a].pid = pid /\ \A t \in Used : task[t].pid # pid
      /\ task'[a].next = 0 /\ task'[l].next = a
      /\ \A t \in Tasks \ {a, l} : task'[t].next = task[t].next
  BY Zenon, Shapes DEF ForkEffect, Linked
<1>2. \A t \in Reach' : t \in Reach \/ t = a
  BY Zenon, <1>1 DEF Reach, Linked
<1>3. \A t \in Reach : t \in Reach'
  BY <1>1 DEF Reach, Linked
<1>4. a \in Reach' /\ 0 \in Reach'
  BY Zenon, <1>1, <1>3, Shapes DEF Reach, Linked
<1>5. \A h \in hid : h # a /\ h \in Tasks /\ h \in Used
  BY Zenon, <1>1, HiddenPid
<1>6. \A t \in left' : task'[t].next \in Reach'
  <2>1. ASSUME NEW t \in left
        PROVE  task'[t].next \in Reach'
    <3>1. t \in Tasks /\ task[t].next \in Reach'
      BY Zenon, <1>3, Shapes DEF HidInv, WalkerType
    <3>2. CASE t = a
      BY Zenon, <1>1, <1>4, <3>2
    <3>3. CASE t = l
      BY Zenon, <1>1, <1>4, <3>3
    <3>4. CASE t # a /\ t # l
      BY Zenon, <1>1, <3>1, <3>4
    <3> QED
      BY Zenon, <3>2, <3>3, <3>4
  <2> QED
    BY Zenon, <1>1, <2>1
<1>7. ASSUME NEW h \in hid, NEW t \in Reach'
      PROVE  task'[t].pid # task[h].pid
  <2>1. CASE t = a
    BY Zenon, <1>1, <1>5, <2>1
  <2>2. CASE t # a
    <3>1. t \in Reach /\ task'[t].pid = task[t].pid
      BY Zenon, <1>1, <1>2, <2>2, ReachTasks
    <3> QED
      BY Zenon, <3>1 DEF HidInv
  <2> QED
    BY Zenon, <2>1, <2>2
<1>8. hid \cap left' = {} /\ cur \in Reach'
  BY Zenon, <1>1, <1>3 DEF HidInv
<1> QED
  BY Zenon, <1>1, <1>5, <1>6, <1>7, <1>8, EventHid

LEMMA UnlinkHid ==
  ASSUME WalkerType, GuestInv, ListInv, HidInv, Event,
         NEW a, NEW b, NEW new, UnlinkEffect(a, b, new)
  PROVE  HidInv'
<1>1. /\ a \in UserTasks /\ a \in Tasks /\ Linked(a) /\ state[a] # "hidden"
      /\ \A t \in Tasks \ {a} : state'[t] = state[t]
      /\ \A t \in Tasks : task'[t].pid = task[t].pid
      /\ b \in Tasks /\ Linked(b) /\ task'[b].next = task[a].next
      /\ \A t \in Tasks \ {b} : task'[t].next = task[t].next
      /\ left' = left \cup {a} /\ state'[a] = new /\ new \in {"free", "hidden"}
  BY Zenon, Shapes DEF UnlinkEffect, Linked
<1>2. \A t \in Tasks : Linked(t)' <=> Linked(t) /\ t # a
  BY Zenon, <1>1 DEF Linked
<1>3. \A t : t \in Reach' <=> t \in Reach
  BY Zenon, <1>1, <1>2 DEF Reach
<1>4. a \in Reach /\ task[a].next \in Reach
  BY Zenon, <1>1, NextReached DEF Reach
<1>5. \A h \in hid : h # a /\ h \in Tasks
  BY Zenon, <1>1, HiddenPid
<1>6. \A t \in left' : task'[t].next \in Reach'
  BY <1>1, <1>3, <1>4, Shapes DEF HidInv, WalkerType
<1>7. \A h \in hid, t \in Reach' : task'[t].pid # task[h].pid
  BY <1>1, <1>3, ReachTasks DEF HidInv
<1>8. hid \cap left' = {} /\ cur \in Reach'
  BY Zenon, <1>1, <1>3, <1>5 DEF HidInv
<1> QED
  BY Zenon, <1>1, <1>5, <1>6, <1>7, <1>8, EventHid

LEMMA QuietHid ==
  ASSUME WalkerType, GuestInv, ListInv, HidInv, Event, left' = left,
         \A t \in Tasks : /\ task'[t].pid = task[t].pid /\ task'[t].next = task[t].next
                          /\ Linked(t)' <=> Linked(t),
         \A t \in Tasks : state[t] = "hidden" => state'[t] = "hidden"
  PROVE  HidInv'
<1>1. \A t : t \in Reach' <=> t \in Reach
  BY Zenon DEF Reach
<1>2. \A t \in left' : task'[t].next \in Reach'
  BY Zenon, <1>1, ReachTasks DEF HidInv, Reach
<1>3. \A h \in hid, t \in Reach' : task'[t].pid # task[h].pid
  BY <1>1, ReachTasks DEF HidInv
<1>4. hid \cap left' = {} /\ cur \in Reach'
  BY Zenon, <1>1 DEF HidInv
<1>5. \A h \in hid : task'[h].pid = task[h].pid /\ state'[h] = state[h]
  BY Zenon, HiddenPid
<1> QED
  BY Zenon, <1>2, <1>3, <1>4, <1>5, EventHid

LEMMA GuestStepHid ==
  ASSUME WalkerType, GuestInv, ListInv, HidInv, GuestStep
  PROVE  HidInv'
<1>1. CASE Fork
  <2>1. PICK p \in Tasks, a \in UserTasks, l \in Tasks, pid \in UserPids :
          ForkEffect(p, a, l, pid)
    BY Zenon, <1>1, ForkDoes
  <2> QED
    BY Zenon, <1>1, <2>1, ForkHid DEF Fork
<1>2. CASE Exit
  <2>1. PICK a \in UserTasks : ExitEffect(a)
    BY Zenon, <1>2, ExitDoes
  <2>2. \A t \in Tasks : Linked(t)' <=> Linked(t)
    BY Zenon, <2>1 DEF ExitEffect, Linked
  <2>3. \A t \in Tasks : state[t] = "hidden" => state'[t] = "hidden"
    BY Zenon, <2>1 DEF ExitEffect
  <2> QED
    BY Zenon, <1>2, <2>1, <2>2, <2>3, QuietHid DEF Exit, ExitEffect
<1>3. CASE Reap \/ Hide
  <2>1. PICK a \in UserTasks, new \in {"free", "hidden"} :
          /\ \/ state[a] = "zombie" /\ new = "free"
             \/ state[a] = "linked" /\ new = "hidden"
          /\ Unlink(a, new)
    BY Zenon, <1>3 DEF Reap, Hide
  <2>2. PICK b \in Tasks : UnlinkEffect(a, b, new)
    BY Zenon, <2>1, UnlinkDoes
  <2> QED
    BY Zenon, <2>1, <2>2, UnlinkHid DEF Unlink
<1>4. CASE Exec
  <2>1. ExecEffect
    BY Zenon, <1>4, ExecDoes
  <2>2. \A t \in Tasks : Linked(t)' <=> Linked(t)
    BY Zenon, <2>1 DEF ExecEffect, Linked
  <2> QED
    BY Zenon, <1>4, <2>1, <2>2, QuietHid DEF Exec, ExecEffect
<1> QED
  BY Zenon, <1>1, <1>2, <1>3, <1>4 DEF GuestStep


-----------------------------------------------------------------------------
(* The start, and the first theorem.                                       *)

\* The list of the start: 0, 1, a and its child b.
InitShape(a, b, p, q) ==
  /\ a \in UserTasks /\ b \in UserTasks /\ a # b
  /\ p \in UserPids /\ q \in UserPids /\ p # q
  /\ task \in [Tasks -> Structs]
  /\ state \in [Tasks -> {"linked", "zombie", "hidden", "free"}]
  /\ task[0].pid = 0 /\ task[0].parent = 0 /\ task[0].next = 1
  /\ task[1].pid = 1 /\ task[1].parent = 0 /\ task[1].next = a
  /\ task[a].pid = p /\ task[a].parent = 1 /\ task[a].next = b
  /\ task[b].pid = q /\ task[b].parent = a /\ task[b].next = 0
  /\ \A t \in {0, 1, a, b} : state[t] = "linked"
  /\ \A t \in Tasks \ {0, 1, a, b} : state[t] = "free"

LEMMA InitHas ==
  ASSUME WalkerInit
  PROVE  \E a, b \in UserTasks, p, q \in UserPids : InitShape(a, b, p, q)
<1> DEFINE a == CHOOSE t \in UserTasks : TRUE
           b == CHOOSE t \in UserTasks \ {a} : TRUE
           p == CHOOSE n \in UserPids : TRUE
           q == CHOOSE n \in UserPids \ {p} : TRUE
<1>1. a \in UserTasks /\ p \in UserPids
  BY Zenon, WalkerAssumption
<1>2. b \in UserTasks \ {a} /\ q \in UserPids \ {p}
  <2>1. \A x : (\E t \in UserTasks \ {x} : TRUE) /\ (\E n \in UserPids \ {x} : TRUE)
    BY WalkerAssumption
  <2> QED
    BY Zenon, <2>1
<1>3. /\ task = [t \in Tasks |->
                   CASE t = 0 -> Struct(0, 0, "swapper", 1)
                     [] t = 1 -> Struct(1, 0, "systemd", a)
                     [] t = a -> Struct(p, 1, "nginx", b)
                     [] t = b -> Struct(q, a, "nginx", 0)
                     [] OTHER -> Struct(0, 0, "swapper", 0)]
      /\ state = [t \in Tasks |-> IF t \in {0, 1, a, b} THEN "linked" ELSE "free"]
  BY Zenon DEF WalkerInit
<1> HIDE DEF a, b, p, q
<1>4. /\ 0 \in Tasks /\ 1 \in Tasks /\ a \in Tasks /\ b \in Tasks
      /\ a # 0 /\ a # 1 /\ b # 0 /\ b # 1
  BY Zenon, <1>1, <1>2, WalkerAssumption DEF Tasks
<1>5. /\ task[0] = Struct(0, 0, "swapper", 1) /\ task[1] = Struct(1, 0, "systemd", a)
      /\ task[a] = Struct(p, 1, "nginx", b) /\ task[b] = Struct(q, a, "nginx", 0)
      /\ \A t \in Tasks \ {0, 1, a, b} : task[t] = Struct(0, 0, "swapper", 0)
  BY <1>2, <1>3, <1>4
<1>6. /\ 0 \in AllPids /\ 1 \in AllPids /\ p \in AllPids /\ q \in AllPids
      /\ "swapper" \in CommNames /\ "systemd" \in CommNames /\ "nginx" \in CommNames
  BY Zenon, <1>1, <1>2 DEF AllPids, CommNames
<1>7. /\ Struct(0, 0, "swapper", 1) \in Structs /\ Struct(1, 0, "systemd", a) \in Structs
      /\ Struct(p, 1, "nginx", b) \in Structs /\ Struct(q, a, "nginx", 0) \in Structs
      /\ Struct(0, 0, "swapper", 0) \in Structs
  BY Zenon, <1>4, <1>6 DEF Struct, Structs
<1>8. \A t \in Tasks : task[t] \in Structs
  BY Zenon, <1>5, <1>7
<1>9. task \in [Tasks -> Structs]
  BY Zenon, <1>3, <1>8
<1>10. /\ task[0].pid = 0 /\ task[0].parent = 0 /\ task[0].next = 1
       /\ task[1].pid = 1 /\ task[1].parent = 0 /\ task[1].next = a
       /\ task[a].pid = p /\ task[a].parent = 1 /\ task[a].next = b
       /\ task[b].pid = q /\ task[b].parent = a /\ task[b].next = 0
  BY <1>5 DEF Struct
<1>11. /\ \A t \in {0, 1, a, b} : state[t] = "linked"
       /\ \A t \in Tasks \ {0, 1, a, b} : state[t] = "free"
       /\ state \in [Tasks -> {"linked", "zombie", "hidden", "free"}]
  BY Zenon, <1>3, <1>4
<1>12. InitShape(a, b, p, q)
  BY Zenon, <1>1, <1>2, <1>9, <1>10, <1>11 DEF InitShape
<1> QED
  BY Zenon, <1>1, <1>2, <1>12

WalkBase == WalkerType /\ GuestInv /\ ListInv /\ HidInv

LEMMA InitBase ==
  ASSUME WalkerInit
  PROVE  WalkBase
<1>1. PICK a, b \in UserTasks, p, q \in UserPids : InitShape(a, b, p, q)
  BY Zenon, InitHas
<1> USE <1>1 DEF InitShape
<1>2. /\ pc = "task" /\ cur = 0 /\ snap = <<>> /\ parent = 0
      /\ signals = NoSignals /\ events = 0
      /\ stays = {t \in Tasks : Linked(t)} /\ hid = {} /\ left = {} /\ reused = FALSE
  BY Zenon DEF WalkerInit, InitTask
<1>3. /\ 0 \in Tasks /\ 1 \in Tasks /\ a \in Tasks /\ b \in Tasks
      /\ a # 0 /\ a # 1 /\ b # 0 /\ b # 1
      /\ p # 0 /\ p # 1 /\ q # 0 /\ q # 1
  BY Zenon, WalkerAssumption DEF Tasks
<1>4. WalkerType
  <2>1. <<>> \in Seq(RecordSet) /\ 0 \in Nat
    OBVIOUS
  <2> QED
    BY Zenon, <1>2, <1>3, <2>1 DEF WalkerType, Walking
<1>5. /\ \A t \in Tasks : t \in Used <=> t \in {0, 1, a, b}
      /\ \A t \in Tasks : Linked(t) <=> t \in {0, 1, a, b}
      /\ \A t \in UserTasks \ Free : t \in {a, b}
  BY Zenon, <1>3, WalkerAssumption DEF Used, Free, Linked, Tasks
<1>6. GuestInv
  <2>1. \A t, v \in Used : task[t].pid = task[v].pid => t = v
    <3>1. 0 # 1
      OBVIOUS
    <3> QED
      BY <1>3, <1>5, <3>1 DEF Used
  <2>2. \A t \in Used : state[task[t].parent] \in {"linked", "hidden"}
    BY <1>3, <1>5 DEF Used
  <2> QED
    BY Zenon, <1>5, <2>1, <2>2 DEF GuestInv
<1>7. ListInv
  BY <1>3, <1>5 DEF ListInv
<1>8. HidInv
  <2>1. signals.by # "orphans" /\ DOMAIN snap = {}
    BY <1>2 DEF NoSignals
  <2>2. cur \in Reach
    BY Zenon, <1>2, <1>3, <1>5 DEF Reach
  <2> QED
    BY Zenon, <1>2, <2>1, <2>2 DEF HidInv
<1> QED
  BY Zenon, <1>4, <1>6, <1>7, <1>8 DEF WalkBase

LEMMA SameGuest ==
  ASSUME GuestInv, ListInv, UNCHANGED <<task, state>>
  PROVE  GuestInv' /\ ListInv'
<1>1. Used' = Used /\ Free' = Free /\ \A t : Linked(t)' <=> Linked(t)
  BY Zenon DEF Used, Free, Linked
<1>2. GuestInv'
  BY Zenon, <1>1 DEF GuestInv
<1>3. ListInv'
  BY <1>1 DEF ListInv
<1> QED
  BY Zenon, <1>2, <1>3

LEMMA BaseStep ==
  ASSUME WalkBase, [WalkerNext]_walkerVars
  PROVE  WalkBase'
<1> USE DEF WalkBase
<1>1. CASE ReadTask
  <2>1. UNCHANGED <<task, state>>
    BY Zenon, <1>1 DEF ReadTask, guest
  <2>2. GuestInv' /\ ListInv'
    BY Zenon, <2>1, SameGuest
  <2> QED
    BY Zenon, <1>1, <2>2, ReadTaskType, ReadTaskHid
<1>2. CASE ReadParentPid
  <2>1. UNCHANGED <<task, state>>
    BY Zenon, <1>2 DEF ReadParentPid, guest
  <2>2. GuestInv' /\ ListInv'
    BY Zenon, <2>1, SameGuest
  <2> QED
    BY Zenon, <1>2, <2>2, ReadParentPidType, ReadParentPidHid
<1>3. CASE ReadNext
  <2>1. UNCHANGED <<task, state>>
    BY Zenon, <1>3 DEF ReadNext, guest
  <2>2. GuestInv' /\ ListInv'
    BY Zenon, <2>1, SameGuest
  <2> QED
    BY Zenon, <1>3, <2>2, ReadNextType, ReadNextHid
<1>4. CASE detect_orphans \/ detect_fork_bomb \/ detect_suspicious_ancestry
  <2>1. PICK who, pids : Judge(who, pids) /\ (who = "orphans" => pids = orphans)
    <3>1. CASE detect_orphans
      BY Zenon, <3>1 DEF detect_orphans
    <3>2. CASE detect_fork_bomb
      BY Zenon, <3>2, "fork_bomb" # "orphans" DEF detect_fork_bomb
    <3>3. CASE detect_suspicious_ancestry
      BY Zenon, <3>3, "ancestry" # "orphans" DEF detect_suspicious_ancestry
    <3> QED
      BY Zenon, <1>4, <3>1, <3>2, <3>3
  <2>2. UNCHANGED <<task, state, events, pc, cur, rec, parent, snap, stays, hid, left, reused>>
    BY Zenon, <2>1 DEF Judge, guest, reads, history
  <2>3. GuestInv' /\ ListInv' /\ WalkerType'
    BY Zenon, <2>2, SameGuest DEF WalkerType
  <2> QED
    BY Zenon, <2>1, <2>3, JudgeHid
<1>5. CASE NextWalk
  <2>1. UNCHANGED <<task, state>>
    BY Zenon, <1>5 DEF NextWalk, guest
  <2>2. GuestInv' /\ ListInv'
    BY Zenon, <2>1, SameGuest
  <2> QED
    BY Zenon, <1>5, <2>2, NextWalkType, NextWalkHid
<1>6. CASE GuestStep
  BY Zenon, <1>6, GuestStepType, GuestStepHid
<1>7. CASE UNCHANGED walkerVars
  <2>1. UNCHANGED <<task, state, events, pc, cur, rec, parent, snap, signals, stays, hid,
                    left, reused>>
    BY Zenon, <1>7 DEF walkerVars
  <2>2. GuestInv' /\ ListInv' /\ WalkerType'
    BY Zenon, <2>1, SameGuest DEF WalkerType
  <2>3. Hidden' = Hidden /\ Reach' = Reach /\ orphans' = orphans
    BY Zenon, <2>1, SameOrphans DEF Hidden, Reach, Linked
  <2>4. HidInv'
    BY Zenon, <2>1, <2>3 DEF HidInv
  <2> QED
    BY Zenon, <2>2, <2>4
<1> QED
  BY Zenon, <1>1, <1>2, <1>3, <1>4, <1>5, <1>6, <1>7 DEF WalkerNext, GuestStep

\* task_walker_detect_orphans, for every number of task_structs, PIDs, events and
\* walks: a process in the snapshot whose parent was unlinked while alive, before
\* the walk began, is reported.
THEOREM HiddenParentFoundAlways == WalkerSpec => []HiddenParentFound
<1>1. WalkerInit => WalkBase
  BY Zenon, InitBase
<1>2. WalkBase /\ [WalkerNext]_walkerVars => WalkBase'
  BY Zenon, BaseStep
<1>3. WalkBase => HiddenParentFound
  <2> SUFFICES ASSUME WalkBase, signals.by = "orphans", NEW h \in hid, NEW r \in Records,
                      r.ppid = task[h].pid
               PROVE  r.pid \in signals.pids
    BY Zenon DEF HiddenParentFound
  <2>1. task[h].pid \notin {0, 1}
    BY Zenon, HiddenPid DEF WalkBase
  <2>2. \A x \in Records : x.pid # task[h].pid
    BY Zenon DEF WalkBase, HidInv, Records
  <2>3. r.pid \in orphans
    BY Zenon, <2>1, <2>2 DEF orphans, pid_exists
  <2> QED
    BY Zenon, <2>3 DEF WalkBase, HidInv
<1> QED
  BY <1>1, <1>2, <1>3, PTL DEF WalkerSpec


-----------------------------------------------------------------------------
(* The order of the list: f[a] is a number task a got when it was forked.  *)

OrderInv(f) ==
  /\ f[0] = 0 /\ f[1] = 1
  /\ \A a \in Tasks : f[a] <= events + 3
  /\ \A a \in UserTasks \ Free : f[a] > 1
  /\ \A a, b \in Used : f[a] = f[b] => a = b
  /\ \A a \in Used : task[a].parent = 0 \/ f[task[a].parent] < f[a]
  /\ \A a \in Tasks : Linked(a) => task[a].next = 0 \/ f[a] < f[task[a].next]
  /\ \A a, c \in Tasks : Linked(a) /\ Linked(c) =>
       f[c] <= f[a] \/ (task[a].next # 0 /\ f[task[a].next] <= f[c])

\* The child gets the largest number.
LEMMA ForkOrder ==
  ASSUME WalkerType, GuestInv, ListInv, Event, NEW f \in [Tasks -> Nat], OrderInv(f),
         NEW p, NEW a, NEW l, NEW pid, ForkEffect(p, a, l, pid),
         NEW g \in [Tasks -> Nat], g[a] = events + 4, \A t \in Tasks \ {a} : g[t] = f[t]
  PROVE  OrderInv(g)'
<1>ids. \A t, v \in Used : f[t] = f[v] => t = v
  BY Zenon DEF OrderInv
<1>parents. \A t \in Used : task[t].parent = 0 \/ f[task[t].parent] < f[t]
  BY Zenon DEF OrderInv
<1>next. \A t \in Tasks : Linked(t) => task[t].next = 0 \/ f[t] < f[task[t].next]
  BY Zenon DEF OrderInv
<1>between. \A t, c \in Tasks : Linked(t) /\ Linked(c) =>
              f[c] <= f[t] \/ (task[t].next # 0 /\ f[task[t].next] <= f[c])
  BY Zenon DEF OrderInv
<1>1. events \in Nat /\ events' = events + 1 /\ \A t \in Tasks : f[t] \in Nat /\ g[t] \in Nat
  BY Zenon DEF Event, WalkerType
<1>2. /\ \A t \in Tasks : t \in Used' <=> t \in Used \/ t = a
      /\ \A t \in Tasks : Linked(t)' <=> Linked(t) \/ t = a
      /\ a \notin Used /\ ~Linked(a) /\ a # l /\ a \in Tasks
      /\ \A t : t \in Used => t \in Tasks
      /\ \A t \in UserTasks \ Free' : t = a \/ t \in UserTasks \ Free
  BY Zenon, Shapes DEF Used, Free, Linked, ForkEffect
<1>3. \A t \in Used : task'[t].parent = task[t].parent
  BY Zenon, <1>2 DEF ForkEffect
<1>4. \A t \in Tasks : Linked(t) => task[t].next # a /\ task[t].next \in Tasks
  BY Zenon, <1>2, StructFields DEF ListInv, WalkerType, ForkEffect
<1>5. \A t \in Tasks : Linked(t) /\ t # l => task[t].next # 0 /\ task'[t].next = task[t].next
  <2>1. \A t, v \in Tasks : Linked(t) /\ Linked(v) /\ task[t].next = task[v].next => t = v
    BY Zenon DEF ListInv
  <2>2. ASSUME NEW t \in Tasks, Linked(t), t # l
        PROVE  task[t].next # 0 /\ task'[t].next = task[t].next
    <3>1. t # a
      BY Zenon, <1>2, <2>2
    <3>2. task[l].next = 0 /\ l \in Tasks /\ Linked(l)
      BY Zenon DEF ForkEffect
    <3> QED
      BY Zenon, <2>1, <2>2, <3>1, <3>2 DEF ForkEffect
  <2> QED
    BY Zenon, <2>2
<1>6. \A t \in Used : task[t].parent \in Tasks /\ task[t].parent # a
  BY Zenon, <1>2, StructFields, Shapes DEF GuestInv, WalkerType
<1>7. \A t \in Tasks : f[t] <= events + 3
  BY Zenon DEF OrderInv
<1>8. \A t \in Tasks \ {a} : g[t] < g[a]
  BY <1>1, <1>7
<1>9. g[0] = 0 /\ g[1] = 1
  BY Zenon, Shapes DEF OrderInv, ForkEffect
<1>10. \A t \in Tasks : g[t] <= events' + 3
  BY <1>1, <1>7
<1>11. \A t \in UserTasks \ Free' : g[t] > 1
  <2>1. g[a] > 1
    BY <1>1
  <2> QED
    BY Zenon, <1>2, <2>1, Shapes DEF OrderInv
<1>12. \A t, v \in Used' : g[t] = g[v] => t = v
  <2> SUFFICES ASSUME NEW t \in Tasks, NEW v \in Tasks, t \in Used', v \in Used', g[t] = g[v]
               PROVE  t = v
    BY Zenon DEF Used
  <2>1. CASE t = a \/ v = a
    BY <1>1, <1>2, <1>8, <2>1
  <2>2. CASE t # a /\ v # a
    <3>1. t \in Used /\ v \in Used /\ f[t] = f[v]
      BY Zenon, <1>2, <2>2
    <3> QED
      BY Zenon, <1>ids, <3>1
  <2> QED
    BY Zenon, <2>1, <2>2
<1>13. \A t \in Used' : task'[t].parent = 0 \/ g[task'[t].parent] < g[t]
  <2> SUFFICES ASSUME NEW t \in Tasks, t \in Used'
               PROVE  task'[t].parent = 0 \/ g[task'[t].parent] < g[t]
    BY Zenon DEF Used
  <2>1. CASE t = a
    <3>1. p # a /\ p \in Tasks /\ task'[t].parent = p
      BY Zenon, <2>1 DEF ForkEffect
    <3> QED
      BY Zenon, <1>8, <2>1, <3>1
  <2>2. CASE t # a
    <3>1. t \in Used /\ g[t] = f[t] /\ task'[t].parent = task[t].parent
      BY Zenon, <1>2, <1>3, <2>2
    <3>2. g[task[t].parent] = f[task[t].parent]
      BY Zenon, <1>6, <3>1
    <3> QED
      BY Zenon, <1>parents, <3>1, <3>2
  <2> QED
    BY Zenon, <2>1, <2>2
<1>14. ASSUME NEW t \in Tasks, Linked(t)'
       PROVE  task'[t].next = 0 \/ g[t] < g[task'[t].next]
  <2>1. CASE t = a
    BY Zenon, <2>1 DEF ForkEffect
  <2>2. CASE t = l
    BY Zenon, <1>2, <1>8, <2>2 DEF ForkEffect
  <2>3. CASE t # a /\ t # l
    <3>1. /\ Linked(t) /\ task'[t].next = task[t].next /\ g[t] = f[t]
          /\ g[task[t].next] = f[task[t].next]
      BY Zenon, <1>2, <1>4, <1>5, <1>14, <2>3
    <3> QED
      BY Zenon, <1>next, <3>1
  <2> QED
    BY Zenon, <2>1, <2>2, <2>3
<1>15. ASSUME NEW t \in Tasks, NEW c \in Tasks, Linked(t)', Linked(c)'
       PROVE  g[c] <= g[t] \/ (task'[t].next # 0 /\ g[task'[t].next] <= g[c])
  <2>1. CASE t = a
    <3>1. g[c] <= g[t]
      BY <1>1, <1>8, <2>1
    <3> QED
      BY Zenon, <3>1
  <2>2. CASE t = l /\ c = a
    <3>1. task'[t].next = a /\ a # 0 /\ g[a] <= g[c]
      BY <1>1, <2>2, Shapes DEF ForkEffect
    <3> QED
      BY Zenon, <3>1
  <2>3. CASE t = l /\ c # a
    <3>1. Linked(c) /\ g[c] = f[c] /\ g[t] = f[t]
      BY Zenon, <1>2, <1>15, <2>3
    <3> QED
      BY Zenon, <2>3, <3>1 DEF OrderInv, ForkEffect
  <2>4. CASE t # a /\ t # l
    <3>1. /\ Linked(t) /\ task'[t].next = task[t].next /\ g[t] = f[t] /\ task[t].next # 0
          /\ task[t].next \in Tasks /\ task[t].next # a /\ g[task[t].next] = f[task[t].next]
      BY Zenon, <1>2, <1>4, <1>5, <1>15, <2>4
    <3>2. CASE c = a
      <4>1. g[task[t].next] <= g[c]
        BY <1>1, <1>8, <3>1, <3>2
      <4> QED
        BY Zenon, <3>1, <4>1
    <3>3. CASE c # a
      <4>1. Linked(c) /\ g[c] = f[c]
        BY Zenon, <1>2, <1>15, <3>3
      <4> QED
        BY Zenon, <1>between, <3>1, <4>1
    <3> QED
      BY Zenon, <3>2, <3>3
  <2> QED
    BY Zenon, <2>1, <2>2, <2>3, <2>4
<1> QED
  BY Zenon, <1>9, <1>10, <1>11, <1>12, <1>13, <1>14, <1>15 DEF OrderInv


\* init was there before every other process.
LEMMA ExitOrder ==
  ASSUME WalkerType, GuestInv, ListInv, Event, NEW f \in [Tasks -> Nat], OrderInv(f),
         NEW a, ExitEffect(a)
  PROVE  OrderInv(f)'
<1>1. events \in Nat /\ events' = events + 1 /\ \A t \in Tasks : f[t] \in Nat
  BY Zenon DEF Event, WalkerType
<1>2. /\ Used' = Used /\ Free' = Free
      /\ \A t \in Tasks : Linked(t)' <=> Linked(t)
      /\ a \in Tasks /\ a # 0 /\ a # 1 /\ \A t \in Used : t \in Tasks
  BY Shapes DEF Used, Free, Linked, ExitEffect
<1>3. \A t \in Tasks : f[t] <= events' + 3
  <2>1. \A t \in Tasks : f[t] <= events + 3
    BY Zenon DEF OrderInv
  <2> QED
    BY <1>1, <2>1
<1>4. ASSUME NEW t \in Used
      PROVE  task'[t].parent = 0 \/ f[task'[t].parent] < f[t]
  <2>1. CASE task[t].parent = a
    <3>1. task'[t].parent = 1 /\ f[1] = 1
      BY Zenon, <2>1 DEF OrderInv, ExitEffect
    <3>2. t \in UserTasks \ Free
      BY Zenon, <1>2, <2>1, Shapes DEF Used, GuestInv
    <3>3. f[t] > 1
      BY Zenon, <3>2 DEF OrderInv
    <3> QED
      BY Zenon, <3>1, <3>3
  <2>2. CASE task[t].parent # a
    BY Zenon, <2>2 DEF OrderInv, ExitEffect
  <2> QED
    BY Zenon, <2>1, <2>2
<1>5. \A t \in Tasks : Linked(t)' => task'[t].next = 0 \/ f[t] < f[task'[t].next]
  BY Zenon, <1>2 DEF OrderInv, ExitEffect
<1>6. ASSUME NEW t \in Tasks, NEW c \in Tasks, Linked(t)', Linked(c)'
      PROVE  f[c] <= f[t] \/ (task'[t].next # 0 /\ f[task'[t].next] <= f[c])
  <2>1. Linked(t) /\ Linked(c) /\ task'[t].next = task[t].next
    BY Zenon, <1>2, <1>6 DEF ExitEffect
  <2> QED
    BY Zenon, <2>1 DEF OrderInv
<1>7. \A t \in UserTasks \ Free' : f[t] > 1
  BY Zenon, <1>2 DEF OrderInv
<1>8. f[0] = 0 /\ f[1] = 1 /\ \A t, v \in Used' : f[t] = f[v] => t = v
  BY Zenon, <1>2 DEF OrderInv
<1> QED
  BY Zenon, <1>2, <1>3, <1>4, <1>5, <1>6, <1>7, <1>8 DEF OrderInv

\* The neighbours of a task that is unlinked become neighbours.
LEMMA UnlinkOrder ==
  ASSUME WalkerType, GuestInv, ListInv, Event, NEW f \in [Tasks -> Nat], OrderInv(f),
         NEW a, NEW b, NEW new, UnlinkEffect(a, b, new)
  PROVE  OrderInv(f)'
<1>ids. \A t, v \in Used : f[t] = f[v] => t = v
  BY Zenon DEF OrderInv
<1>1. events \in Nat /\ events' = events + 1 /\ \A t \in Tasks : f[t] \in Nat
  BY Zenon DEF Event, WalkerType
<1>2. /\ \A t \in Tasks : t \in Used' => t \in Used
      /\ \A t \in Tasks : Linked(t)' <=> Linked(t) /\ t # a
      /\ a \in Tasks /\ a # 0 /\ a # 1 /\ Linked(a)
      /\ \A t \in UserTasks \ Free' : t \in UserTasks \ Free
      /\ \A t \in Used' : t \in Tasks
  BY Zenon, Shapes DEF Used, Free, Linked, UnlinkEffect
<1>3. \A t \in Tasks : f[t] <= events' + 3
  <2>1. \A t \in Tasks : f[t] <= events + 3
    BY Zenon DEF OrderInv
  <2> QED
    BY <1>1, <2>1
<1>4. \A t \in Used' : task'[t].parent = 0 \/ f[task'[t].parent] < f[t]
  BY Zenon, <1>2 DEF OrderInv, UnlinkEffect
<1>5. f[b] < f[a] /\ (task[a].next = 0 \/ f[a] < f[task[a].next]) /\ task[a].next \in Tasks
  BY Zenon, <1>2, StructFields DEF OrderInv, WalkerType, UnlinkEffect
<1>6. ASSUME NEW t \in Tasks, Linked(t)'
      PROVE  task'[t].next = 0 \/ f[t] < f[task'[t].next]
  <2>1. CASE t = b
    BY <1>1, <1>2, <1>5, <2>1 DEF UnlinkEffect
  <2>2. CASE t # b
    BY Zenon, <1>2, <1>6, <2>2 DEF OrderInv, UnlinkEffect
  <2> QED
    BY Zenon, <2>1, <2>2
<1>7. ASSUME NEW t \in Tasks, NEW c \in Tasks, Linked(t)', Linked(c)'
      PROVE  f[c] <= f[t] \/ (task'[t].next # 0 /\ f[task'[t].next] <= f[c])
  <2>1. Linked(t) /\ Linked(c) /\ c # a
    BY Zenon, <1>2, <1>7
  <2>2. CASE t = b
    <3>1. f[c] <= f[b] \/ f[a] <= f[c]
      BY Zenon, <2>1 DEF OrderInv, UnlinkEffect
    <3>2. CASE f[a] <= f[c]
      <4>1. a \in Used /\ c \in Used
        BY Zenon, <1>2, <2>1, Shapes DEF Linked
      <4>2. f[a] # f[c]
        BY Zenon, <1>ids, <2>1, <4>1
      <4>3. f[c] <= f[a] \/ (task[a].next # 0 /\ f[task[a].next] <= f[c])
        BY Zenon, <1>2, <2>1 DEF OrderInv
      <4>4. ~(f[c] <= f[a])
        BY <1>1, <1>2, <3>2, <4>2
      <4> QED
        BY Zenon, <2>2, <4>3, <4>4 DEF UnlinkEffect
    <3> QED
      BY Zenon, <2>2, <3>1, <3>2
  <2>3. CASE t # b
    <3>1. task'[t].next = task[t].next
      BY Zenon, <2>3 DEF UnlinkEffect
    <3> QED
      BY Zenon, <2>1, <3>1 DEF OrderInv
  <2> QED
    BY Zenon, <2>2, <2>3
<1>8. \A t \in UserTasks \ Free' : f[t] > 1
  BY Zenon, <1>2 DEF OrderInv
<1>9. f[0] = 0 /\ f[1] = 1 /\ \A t, v \in Used' : f[t] = f[v] => t = v
  BY Zenon, <1>2 DEF OrderInv
<1> QED
  BY Zenon, <1>3, <1>4, <1>6, <1>7, <1>8, <1>9 DEF OrderInv

\* The order is one of links, parents and states.
LEMMA SameOrder ==
  ASSUME WalkerType, NEW f \in [Tasks -> Nat], OrderInv(f),
         state' = state, events' \in Nat, events <= events',
         \A t \in Tasks : task'[t].next = task[t].next /\ task'[t].parent = task[t].parent
  PROVE  OrderInv(f)'
<1>1. /\ Used' = Used /\ Free' = Free /\ \A t : Linked(t)' <=> Linked(t)
      /\ \A t \in Used : t \in Tasks
  BY Zenon DEF Used, Free, Linked
<1>2. \A t \in Tasks : f[t] <= events' + 3
  <2>1. \A t \in Tasks : f[t] \in Nat /\ f[t] <= events + 3 /\ events \in Nat
    BY Zenon DEF OrderInv, WalkerType
  <2> QED
    BY <2>1
<1>3. \A t \in Used' : task'[t].parent = 0 \/ f[task'[t].parent] < f[t]
  BY Zenon, <1>1 DEF OrderInv
<1>4. \A t \in Tasks : Linked(t)' => task'[t].next = 0 \/ f[t] < f[task'[t].next]
  BY Zenon, <1>1 DEF OrderInv
<1>5. ASSUME NEW t \in Tasks, NEW c \in Tasks, Linked(t)', Linked(c)'
      PROVE  f[c] <= f[t] \/ (task'[t].next # 0 /\ f[task'[t].next] <= f[c])
  <2>1. Linked(t) /\ Linked(c) /\ task'[t].next = task[t].next
    BY Zenon, <1>1, <1>5
  <2> QED
    BY Zenon, <2>1 DEF OrderInv
<1>6. /\ \A t \in UserTasks \ Free' : f[t] > 1
      /\ f[0] = 0 /\ f[1] = 1 /\ \A t, v \in Used' : f[t] = f[v] => t = v
  BY Zenon, <1>1 DEF OrderInv
<1> QED
  BY Zenon, <1>2, <1>3, <1>4, <1>5, <1>6 DEF OrderInv


-----------------------------------------------------------------------------
(* The tasks unlinked during the walk.  Such a task keeps its next pointer, *)
(* so the walk may stand on it, or come to it from another: u[y] is when y *)
(* was unlinked.                                                           *)

\* c was still in the list when y was unlinked.
Outlives(u, c, y) == Linked(c) \/ (c \in left /\ y \in left /\ u[c] > u[y])

LeftInv(f, u) ==
  ~reused =>
  /\ \A y \in left : ~Linked(y) /\ u[y] <= events
  /\ \A s \in stays : Linked(s)
  /\ \A a, b \in Reach : f[a] = f[b] => a = b
  /\ \A y \in left : task[y].next # 0 =>
       /\ f[y] < f[task[y].next] /\ Outlives(u, task[y].next, y)
       /\ \A c \in Reach : Outlives(u, c, y) => f[c] <= f[y] \/ f[task[y].next] <= f[c]
  /\ \A y \in left : task[y].next = 0 => \A s \in stays : f[s] < f[y]
  /\ \A y \in left \cap Free :
       \/ task[y].parent = 0
       \/ /\ f[task[y].parent] < f[y]
          /\ task[y].parent \in Hidden \/ Outlives(u, task[y].parent, y)

LEMMA ForkLeft ==
  ASSUME WalkBase, Event, NEW f \in [Tasks -> Nat], NEW u \in [Tasks -> Nat],
         OrderInv(f), LeftInv(f, u),
         NEW p, NEW a, NEW l, NEW pid, ForkEffect(p, a, l, pid),
         NEW g \in [Tasks -> Nat], g[a] = events + 4, \A t \in Tasks \ {a} : g[t] = f[t]
  PROVE  LeftInv(g, u)'
<1> SUFFICES ASSUME ~reused'
             PROVE  LeftInv(g, u)'
  BY Zenon DEF LeftInv
<1>1. /\ a \in UserTasks /\ a \in Tasks /\ state[a] = "free" /\ state'[a] = "linked"
      /\ left' = left /\ stays' = stays /\ l \in Tasks /\ Linked(l)
      /\ \A t \in Tasks \ {a} : state'[t] = state[t] /\ task'[t].parent = task[t].parent
      /\ \A t \in Tasks \ {a, l} : task'[t].next = task[t].next
      /\ reused' = (reused \/ a \in left)
  BY Zenon, Shapes DEF ForkEffect, WalkBase
<1>2. ~reused /\ a \notin left /\ reused = FALSE
  BY <1>1 DEF WalkBase, WalkerType
<1>3. /\ events \in Nat /\ events' = events + 1 /\ \A t \in Tasks : f[t] \in Nat /\ g[t] \in Nat
      /\ \A t \in Tasks : u[t] \in Nat
  BY Zenon DEF Event, WalkerType, WalkBase
<1>4. /\ \A t \in Tasks \ {a} : Linked(t)' <=> Linked(t)
      /\ Linked(a)' /\ ~Linked(a)
  BY Zenon, <1>1 DEF Linked
<1>5. /\ a \notin Reach /\ \A t : t \in Reach' <=> t \in Reach \/ t = a
      /\ \A t \in Reach : t \in Tasks \ {a}
  <2>1. \A t \in left : t \in Tasks \ {a}
    BY Zenon, <1>2, Shapes DEF WalkBase, WalkerType
  <2> QED
    BY <1>1, <1>2, <1>4, <2>1 DEF Reach
<1>6. \A t \in Reach : g[t] = f[t] /\ g[t] < g[a]
  <2>1. \A t \in Tasks : f[t] <= events + 3
    BY Zenon DEF OrderInv
  <2> QED
    BY <1>3, <1>5, <2>1
<1>7. \A y \in left : y \in Reach /\ y # a /\ y # l /\ y \in Tasks /\ task[y].next \in Reach
  <2>1. \A y \in left : y # l
    BY Zenon, <1>1, <1>2 DEF LeftInv
  <2> QED
    BY Zenon, <1>5, <2>1, NextReached DEF Reach, WalkBase
<1>8. \A y \in left : task'[y].next = task[y].next /\ task'[y].parent = task[y].parent
  BY Zenon, <1>1, <1>7
<1>9. \A y \in left, c \in Tasks \ {a} : Outlives(u, c, y)' <=> Outlives(u, c, y)
  BY Zenon, <1>1, <1>4 DEF Outlives
<1>10. \A y \in left : ~Linked(y)' /\ u[y] <= events'
  <2>1. \A y \in left : ~Linked(y) /\ u[y] <= events
    BY Zenon, <1>2 DEF LeftInv
  <2> QED
    BY <1>3, <1>4, <1>7, <2>1
<1>11. \A s \in stays : Linked(s) /\ s \in Tasks /\ s # a /\ Linked(s)'
  <2>1. \A s \in stays : Linked(s) /\ s \in Tasks
    BY Zenon, <1>2 DEF LeftInv, WalkBase, WalkerType
  <2> QED
    BY Zenon, <1>4, <2>1
<1>12. ASSUME NEW t \in Reach', NEW c \in Reach', g[t] = g[c]
       PROVE  t = c
  <2>1. CASE t = a \/ c = a
    BY <1>3, <1>5, <1>6, <1>12, <2>1
  <2>2. CASE t # a /\ c # a
    <3>1. t \in Reach /\ c \in Reach /\ f[t] = f[c]
      BY Zenon, <1>5, <1>6, <1>12, <2>2
    <3> QED
      BY Zenon, <1>2, <3>1 DEF LeftInv
  <2> QED
    BY Zenon, <2>1, <2>2
<1>13. ASSUME NEW y \in left', task'[y].next # 0
       PROVE  /\ g[y] < g[task'[y].next] /\ Outlives(u, task[y].next, y)'
              /\ \A c \in Reach' : Outlives(u, c, y)' =>
                   g[c] <= g[y] \/ g[task'[y].next] <= g[c]
  <2>1. PICK n \in Reach :
          /\ y \in left /\ n = task[y].next /\ n # 0 /\ task'[y].next = n
          /\ n \in Tasks \ {a} /\ g[y] = f[y] /\ g[n] = f[n]
    BY Zenon, <1>1, <1>5, <1>6, <1>7, <1>8, <1>13
  <2>2. /\ f[y] < f[n] /\ Outlives(u, n, y)
        /\ \A c \in Reach : Outlives(u, c, y) => f[c] <= f[y] \/ f[n] <= f[c]
    BY Zenon, <1>2, <2>1 DEF LeftInv
  <2>3. Outlives(u, n, y)' => Outlives(u, task[y].next, y)'
    BY Zenon, <2>1 DEF Outlives, Linked
  <2>4. ASSUME NEW c \in Reach', Outlives(u, c, y)'
        PROVE  g[c] <= g[y] \/ g[n] <= g[c]
    <3>1. CASE c = a
      BY <1>3, <1>6, <2>1, <3>1
    <3>2. CASE c # a
      <4>1. c \in Reach /\ c \in Tasks \ {a} /\ g[c] = f[c]
        BY Zenon, <1>5, <1>6, <3>2
      <4>2. Outlives(u, c, y)
        BY Zenon, <1>9, <2>1, <2>4, <4>1
      <4> QED
        BY Zenon, <2>1, <2>2, <4>1, <4>2
    <3> QED
      BY Zenon, <3>1, <3>2
  <2>5. Outlives(u, n, y)'
    BY Zenon, <1>9, <2>1, <2>2
  <2> QED
    BY Zenon, <2>1, <2>2, <2>3, <2>4, <2>5
<1>14. ASSUME NEW y \in left', task'[y].next = 0, NEW s \in stays'
       PROVE  g[s] < g[y]
  <2>1. y \in left /\ s \in stays /\ task[y].next = 0 /\ g[s] = f[s] /\ g[y] = f[y]
    BY Zenon, <1>1, <1>6, <1>7, <1>8, <1>11, <1>14
  <2> QED
    BY Zenon, <1>2, <2>1 DEF LeftInv
<1>15. ASSUME NEW y \in left' \cap Free'
       PROVE  \/ task'[y].parent = 0
              \/ /\ g[task'[y].parent] < g[y]
                 /\ task'[y].parent \in Hidden' \/ Outlives(u, task[y].parent, y)'
  <2>1. PICK q \in Tasks :
          /\ y \in left /\ y \in Free /\ q = task[y].parent /\ task'[y].parent = q
          /\ g[y] = f[y]
    BY Zenon, <1>1, <1>6, <1>7, <1>8, StructFields DEF Free, WalkBase, WalkerType
  <2>2. q = 0 \/ (f[q] < f[y] /\ (q \in Hidden \/ Outlives(u, q, y)))
    BY Zenon, <1>2, <2>1 DEF LeftInv
  <2>3. Outlives(u, q, y)' => Outlives(u, task[y].parent, y)'
    BY Zenon, <2>1 DEF Outlives, Linked
  <2>4. CASE q # 0
    <3>1. q # a
      BY Zenon, <1>1, <1>2, <1>4, <2>2, <2>4 DEF Hidden, Outlives
    <3>2. g[q] = f[q] /\ (q \in Hidden => q \in Hidden') /\ (Outlives(u, q, y) => Outlives(u, q, y)')
      BY Zenon, <1>1, <1>9, <2>1, <3>1 DEF Hidden
    <3> QED
      BY Zenon, <2>1, <2>2, <2>3, <2>4, <3>2
  <2> QED
    BY Zenon, <2>1, <2>4
<1> QED
  BY Zenon, <1>1, <1>10, <1>11, <1>12, <1>13, <1>14, <1>15 DEF LeftInv


LEMMA UnlinkLeft ==
  ASSUME WalkBase, Event, NEW f \in [Tasks -> Nat], NEW u \in [Tasks -> Nat],
         OrderInv(f), LeftInv(f, u),
         NEW a, NEW b, NEW new, UnlinkEffect(a, b, new),
         NEW w \in [Tasks -> Nat], w[a] = events + 1, \A t \in Tasks \ {a} : w[t] = u[t]
  PROVE  LeftInv(f, w)'
<1> SUFFICES ASSUME ~reused'
             PROVE  LeftInv(f, w)'
  BY Zenon DEF LeftInv
<1>1. /\ a \in UserTasks /\ a \in Tasks /\ Linked(a)
      /\ \/ state[a] = "zombie" /\ new = "free"
         \/ state[a] = "linked" /\ new = "hidden"
      /\ \A t \in Tasks \ {a} : state'[t] = state[t]
      /\ b \in Tasks /\ Linked(b) /\ task[b].next = a
      /\ \A t \in Tasks : task'[t].parent = task[t].parent
      /\ \A t \in Tasks \ {b} : task'[t].next = task[t].next
      /\ left' = left \cup {a} /\ stays' = stays \ {a} /\ state'[a] = new
      /\ reused' = reused
  BY Zenon, Shapes DEF UnlinkEffect, Linked, WalkBase
<1>2. ~reused
  BY Zenon, <1>1
<1>3. /\ events \in Nat /\ events' = events + 1 /\ \A t \in Tasks : f[t] \in Nat
      /\ \A t \in Tasks : u[t] \in Nat /\ w[t] \in Nat
  BY Zenon DEF Event, WalkerType, WalkBase
<1>4. \A t \in Tasks : Linked(t)' <=> Linked(t) /\ t # a
  BY Zenon, <1>1 DEF Linked
<1>5. \A t \in Reach' : t \in Reach /\ t \in Tasks
  BY Zenon, <1>1, <1>4, ReachTasks DEF Reach, WalkBase
<1>6. \A y \in left : /\ y \in Tasks /\ y # a /\ y # b /\ ~Linked(y) /\ u[y] <= events
                      /\ w[y] = u[y] /\ w[y] < w[a] /\ task'[y].next = task[y].next
  <2>1. \A y \in left : y \in Tasks /\ ~Linked(y) /\ u[y] <= events
    BY Zenon, <1>2, Shapes DEF LeftInv, WalkBase, WalkerType
  <2>2. \A y \in left : y # a /\ y # b
    BY Zenon, <1>1, <2>1
  <2> QED
    <3>1. \A y \in left : w[y] = u[y] /\ task'[y].next = task[y].next
      BY Zenon, <1>1, <2>1, <2>2
    <3>2. \A y \in left : w[y] < w[a]
      BY <1>3, <2>1, <3>1
    <3> QED
      BY Zenon, <2>1, <2>2, <3>1, <3>2
<1>7. f[b] < f[a] /\ b # a
  <2>1. f[b] < f[a]
    BY Zenon, <1>1, Shapes DEF OrderInv, WalkBase
  <2> QED
    BY <1>1, <1>3, <2>1
<1>8. ASSUME NEW y \in left, NEW c \in Tasks
      PROVE  Outlives(w, c, y)' <=> Outlives(u, c, y)
  <2>1. CASE c = a
    BY Zenon, <1>1, <1>6, <2>1 DEF Outlives
  <2>2. CASE c # a
    BY Zenon, <1>1, <1>4, <1>6, <2>2 DEF Outlives
  <2> QED
    BY Zenon, <2>1, <2>2
<1>9. ASSUME NEW c \in Tasks, Outlives(w, c, a)'
      PROVE  Linked(c) /\ c # a
  <2>1. ~(c \in left' /\ w[c] > w[a])
    BY <1>1, <1>3, <1>6
  <2> QED
    BY Zenon, <1>4, <1>9, <2>1 DEF Outlives
<1>10. \A y \in left' : ~Linked(y)' /\ w[y] <= events'
  BY <1>1, <1>3, <1>4, <1>6
<1>11. \A s \in stays' : s \in stays /\ s \in Tasks /\ s # a /\ Linked(s) /\ Linked(s)'
  <2>1. \A s \in stays : Linked(s) /\ s \in Tasks
    BY Zenon, <1>2 DEF LeftInv, WalkBase, WalkerType
  <2> QED
    BY Zenon, <1>1, <1>4, <2>1
<1>12. \A t, c \in Reach' : f[t] = f[c] => t = c
  BY Zenon, <1>2, <1>5 DEF LeftInv
<1>13. \A t \in Tasks : Linked(t) /\ f[t] = f[a] => t = a
  <2>1. \A t \in Tasks : Linked(t) => t \in Reach
    BY Zenon DEF Reach
  <2> QED
    BY Zenon, <1>1, <1>2, <2>1 DEF LeftInv
<1>14. ASSUME NEW y \in left', task'[y].next # 0
       PROVE  /\ f[y] < f[task'[y].next] /\ Outlives(w, task[y].next, y)'
              /\ \A c \in Reach' : Outlives(w, c, y)' =>
                   f[c] <= f[y] \/ f[task'[y].next] <= f[c]
  <2>1. PICK n \in Tasks : n = task[y].next /\ n = task'[y].next /\ n # 0 /\ y \in Tasks
    <3>1. y \in Tasks /\ y # b
      BY Zenon, <1>1, <1>6, <1>7
    <3> QED
      BY Zenon, <1>1, <1>14, <3>1, StructFields DEF WalkBase, WalkerType
  <2>2. Outlives(w, n, y)' => Outlives(w, task[y].next, y)'
    BY Zenon, <2>1 DEF Outlives, Linked
  <2>3. CASE y = a
    <3>1. f[a] < f[n] /\ Linked(n)
      <4>1. Linked(n)
        BY Zenon, <1>1, <2>1, <2>3 DEF WalkBase, ListInv, Linked
      <4>2. f[a] < f[n]
        BY Zenon, <1>1, <2>1, <2>3 DEF OrderInv
      <4> QED
        BY Zenon, <4>1, <4>2
    <3>2. n # a
      BY <1>3, <3>1
    <3>3. Outlives(w, n, y)'
      BY Zenon, <1>4, <3>1, <3>2 DEF Outlives
    <3>4. ASSUME NEW c \in Reach', Outlives(w, c, y)'
          PROVE  f[c] <= f[y] \/ f[n] <= f[c]
      <4>1. c \in Tasks /\ Linked(c)
        BY Zenon, <1>5, <1>9, <2>3, <3>4
      <4> QED
        BY Zenon, <1>1, <2>1, <2>3, <4>1 DEF OrderInv
    <3> QED
      BY Zenon, <2>1, <2>2, <2>3, <3>1, <3>3, <3>4
  <2>4. CASE y # a
    <3>1. y \in left
      BY Zenon, <1>1, <2>4
    <3>2. /\ f[y] < f[n] /\ Outlives(u, n, y)
          /\ \A c \in Reach : Outlives(u, c, y) => f[c] <= f[y] \/ f[n] <= f[c]
      BY Zenon, <1>2, <2>1, <3>1 DEF LeftInv
    <3>3. Outlives(w, n, y)'
      BY Zenon, <1>8, <3>1, <3>2
    <3>4. \A c \in Reach' : Outlives(w, c, y)' => f[c] <= f[y] \/ f[n] <= f[c]
      BY Zenon, <1>5, <1>8, <3>1, <3>2
    <3> QED
      BY Zenon, <2>1, <2>2, <3>2, <3>3, <3>4
  <2> QED
    BY Zenon, <2>3, <2>4
<1>15. ASSUME NEW y \in left', task'[y].next = 0, NEW s \in stays'
       PROVE  f[s] < f[y]
  <2>1. CASE y = a
    <3>1. task[a].next = 0
      BY Zenon, <1>1, <1>7, <1>15, <2>1
    <3>2. f[s] <= f[a]
      BY Zenon, <1>1, <1>11, <3>1 DEF OrderInv
    <3>3. f[s] # f[a]
      BY Zenon, <1>11, <1>13
    <3>4. f[s] \in Nat /\ f[a] \in Nat
      BY Zenon, <1>1, <1>3, <1>11
    <3> QED
      BY <2>1, <3>2, <3>3, <3>4
  <2>2. CASE y # a
    <3>1. y \in left /\ task[y].next = 0
      BY Zenon, <1>1, <1>6, <1>15, <2>2
    <3> QED
      BY Zenon, <1>2, <1>11, <3>1 DEF LeftInv
  <2> QED
    BY Zenon, <2>1, <2>2
<1>16. ASSUME NEW y \in left' \cap Free'
       PROVE  \/ task'[y].parent = 0
              \/ /\ f[task'[y].parent] < f[y]
                 /\ task'[y].parent \in Hidden' \/ Outlives(w, task[y].parent, y)'
  <2>1. PICK q \in Tasks : q = task[y].parent /\ q = task'[y].parent /\ y \in Tasks
    <3>1. y \in Tasks
      BY Zenon, <1>1, <1>6
    <3> QED
      BY Zenon, <1>1, <3>1, StructFields DEF WalkBase, WalkerType
  <2>2. Outlives(w, q, y)' => Outlives(w, task[y].parent, y)'
    BY Zenon, <2>1 DEF Outlives, Linked
  <2>3. CASE y = a
    <3>1. a \in Used
      BY Zenon, <1>1 DEF Used, Free
    <3>2. (q = 0 \/ f[q] < f[a]) /\ state[q] \in {"linked", "hidden"}
      BY Zenon, <2>1, <2>3, <3>1 DEF OrderInv, WalkBase, GuestInv
    <3>3. CASE f[q] < f[a]
      <4>1. q # a
        BY <1>3, <2>1, <3>3
      <4>2. q \in Hidden' \/ Linked(q)'
        BY Zenon, <1>1, <3>2, <4>1 DEF Hidden, Linked
      <4> QED
        BY Zenon, <2>1, <2>2, <2>3, <3>3, <4>2 DEF Outlives
    <3> QED
      BY Zenon, <2>1, <3>2, <3>3
  <2>4. CASE y # a
    <3>1. y \in left /\ y \in Free
      BY Zenon, <1>1, <1>6, <2>4 DEF Free
    <3>2. q = 0 \/ (f[q] < f[y] /\ (q \in Hidden \/ Outlives(u, q, y)))
      BY Zenon, <1>2, <2>1, <3>1 DEF LeftInv
    <3>3. Outlives(u, q, y) => Outlives(w, q, y)'
      BY Zenon, <1>8, <3>1
    <3>4. q \in Hidden => q \in Hidden'
      BY Zenon, <1>1 DEF Hidden
    <3> QED
      BY Zenon, <2>1, <2>2, <3>2, <3>3, <3>4
  <2> QED
    BY Zenon, <2>3, <2>4
<1> QED
  BY Zenon, <1>10, <1>11, <1>12, <1>14, <1>15, <1>16 DEF LeftInv


\* What LeftInv is about is as it was.
LEMMA SameLeft ==
  ASSUME WalkBase, NEW f \in [Tasks -> Nat], NEW u \in [Tasks -> Nat], LeftInv(f, u),
         UNCHANGED <<left, stays, reused>>, events' \in Nat, events <= events',
         \A t \in Tasks : /\ Linked(t)' <=> Linked(t)
                          /\ state'[t] = "hidden" <=> state[t] = "hidden"
                          /\ state'[t] = "free" <=> state[t] = "free"
                          /\ task'[t].next = task[t].next,
         \A t \in Free : task'[t].parent = task[t].parent
  PROVE  LeftInv(f, u)'
<1> SUFFICES ASSUME ~reused
             PROVE  LeftInv(f, u)'
  BY Zenon DEF LeftInv
<1>1. \A t : (t \in Reach' <=> t \in Reach) /\ (t \in Free' <=> t \in Free)
             /\ (t \in Hidden' <=> t \in Hidden)
  BY Zenon DEF Reach, Free, Hidden
<1>2. \A t \in Reach : t \in Tasks /\ task[t].next \in Tasks
  BY Zenon, ReachTasks, StructFields DEF WalkBase, WalkerType
<1>3. \A y \in left : y \in Reach /\ y \in Tasks /\ task'[y].next = task[y].next
  BY Zenon, <1>2 DEF Reach
<1>4. \A c \in Tasks : \A y : Outlives(u, c, y)' <=> Outlives(u, c, y)
  BY Zenon DEF Outlives
<1>5. \A y \in left : ~Linked(y)' /\ u[y] <= events'
  <2>1. \A y \in left : ~Linked(y) /\ u[y] <= events /\ u[y] \in Nat /\ events \in Nat
    BY Zenon, <1>3 DEF LeftInv, WalkBase, WalkerType
  <2> QED
    BY <1>3, <2>1
<1>6. \A s \in stays : Linked(s)'
  BY Zenon DEF LeftInv, WalkBase, WalkerType
<1>7. \A t, c \in Reach' : f[t] = f[c] => t = c
  BY Zenon, <1>1 DEF LeftInv
<1>8. ASSUME NEW y \in left, task'[y].next # 0
      PROVE  /\ f[y] < f[task'[y].next] /\ Outlives(u, task[y].next, y)'
             /\ \A c \in Reach' : Outlives(u, c, y)' =>
                  f[c] <= f[y] \/ f[task'[y].next] <= f[c]
  <2>1. PICK n \in Tasks : n = task[y].next /\ n = task'[y].next /\ n # 0
    BY Zenon, <1>2, <1>3, <1>8
  <2>2. Outlives(u, n, y)' => Outlives(u, task[y].next, y)'
    BY Zenon, <2>1 DEF Outlives, Linked
  <2>3. /\ f[y] < f[n] /\ Outlives(u, n, y)
        /\ \A c \in Reach : Outlives(u, c, y) => f[c] <= f[y] \/ f[n] <= f[c]
    BY Zenon, <2>1 DEF LeftInv
  <2>4. Outlives(u, n, y)'
    BY Zenon, <1>4, <2>3
  <2>5. \A c \in Reach' : Outlives(u, c, y)' => f[c] <= f[y] \/ f[n] <= f[c]
    BY Zenon, <1>1, <1>2, <1>4, <2>3
  <2> QED
    BY Zenon, <2>1, <2>2, <2>3, <2>4, <2>5
<1>9. \A y \in left : task'[y].next = 0 => \A s \in stays : f[s] < f[y]
  BY Zenon, <1>3 DEF LeftInv
<1>10. ASSUME NEW y \in left, y \in Free'
       PROVE  \/ task'[y].parent = 0
              \/ /\ f[task'[y].parent] < f[y]
                 /\ task'[y].parent \in Hidden' \/ Outlives(u, task[y].parent, y)'
  <2>1. PICK q \in Tasks : q = task[y].parent /\ q = task'[y].parent /\ y \in Free
    BY Zenon, <1>1, <1>3, <1>10, StructFields DEF WalkBase, WalkerType
  <2>2. Outlives(u, q, y)' => Outlives(u, task[y].parent, y)'
    BY Zenon, <2>1 DEF Outlives, Linked
  <2>3. q = 0 \/ (f[q] < f[y] /\ (q \in Hidden \/ Outlives(u, q, y)))
    BY Zenon, <2>1 DEF LeftInv
  <2> QED
    BY Zenon, <1>1, <1>4, <2>1, <2>2, <2>3
<1> QED
  BY Zenon, <1>5, <1>6, <1>7, <1>8, <1>9, <1>10 DEF LeftInv

LEMMA NextWalkLeft ==
  ASSUME WalkBase, NextWalk, NEW f \in [Tasks -> Nat], NEW u \in [Tasks -> Nat], OrderInv(f)
  PROVE  LeftInv(f, u)'
<1>1. /\ UNCHANGED <<task, state, events>> /\ left' = {}
      /\ stays' = {a \in Tasks : Linked(a)}
  BY Zenon DEF NextWalk, guest
<1>2. \A t : (Linked(t)' <=> Linked(t)) /\ (t \in Reach' => t \in Tasks /\ Linked(t))
  BY Zenon, <1>1 DEF Linked, Reach
<1>3. \A t \in Reach' : t \in Used
  BY <1>2 DEF Linked, Used, Free
<1>4. \A t, c \in Reach' : f[t] = f[c] => t = c
  BY Zenon, <1>3 DEF OrderInv
<1> QED
  BY Zenon, <1>1, <1>2, <1>4 DEF LeftInv


-----------------------------------------------------------------------------
(* The snapshot: what the walk has recorded is what lies before cur in the *)
(* order of the list, as far as it was still there for cur.                *)

Once(s) == \E i \in DOMAIN snap : \A j \in DOMAIN snap : snap[j].at = s <=> j = i
Never(s) == \A j \in DOMAIN snap : snap[j].at # s
Recorded(c) == \E i \in DOMAIN snap : snap[i].at = c /\ snap[i].pid = task[c].pid

\* A record whose parent is not reported missing, or is hidden.
Explained(r) ==
  \/ r.ppid \in {0, 1}
  \/ \E i \in DOMAIN snap : snap[i].pid = r.ppid
  \/ \E h \in Hidden : task[h].pid = r.ppid

SnapInv(f, u) ==
  ~reused =>
  /\ pc \in Walking =>
       /\ \A s \in stays : (f[s] < f[cur] => Once(s)) /\ (~(f[s] < f[cur]) => Never(s))
       /\ \A c \in Reach : f[c] < f[cur] /\ Outlives(u, c, cur) => Recorded(c)
  /\ pc \in {"ppid", "next"} => rec.at = cur /\ rec.pid = task[cur].pid
  /\ pc = "ppid" => \/ parent \in {0, 1} \/ parent \in Hidden
                    \/ parent \in Reach /\ Recorded(parent)
  /\ pc = "next" => Explained(rec)
  /\ \A i \in DOMAIN snap : Explained(snap[i])
  /\ pc = "full" => \A s \in stays : Once(s)

\* An event of the guest takes nothing from the snapshot.
LEMMA EventSnap ==
  ASSUME WalkBase, Event, NEW f, NEW u, NEW g, NEW w, SnapInv(f, u),
         ~reused' => ~reused, stays' \subseteq stays,
         ~reused => g[cur] = f[cur] /\ \A s \in stays' : g[s] = f[s],
         ~reused => \A c \in Reach' :
           g[c] < g[cur] /\ Outlives(w, c, cur)' => c \in Reach /\ f[c] < f[cur] /\ Outlives(u, c, cur),
         ~reused => \A c \in Reach : c \in Reach' /\ task'[c].pid = task[c].pid,
         ~reused => \A h \in Hidden : h \in Hidden' /\ task'[h].pid = task[h].pid
  PROVE  SnapInv(g, w)'
<1> SUFFICES ASSUME ~reused, ~reused'
             PROVE  SnapInv(g, w)'
  BY Zenon DEF SnapInv
<1>1. UNCHANGED <<pc, cur, rec, parent, snap>> /\ cur \in Reach
  BY Zenon DEF Event, reads, WalkBase, HidInv
<1>2. \A s : (Once(s)' <=> Once(s)) /\ (Never(s)' <=> Never(s))
  BY Zenon, <1>1 DEF Once, Never
<1>3. \A c \in Reach : Recorded(c) => Recorded(c)'
  BY Zenon, <1>1 DEF Recorded
<1>4. (\A i \in DOMAIN snap : Explained(snap[i]) => Explained(snap[i])') /\ (Explained(rec) => Explained(rec)')
  BY Zenon, <1>1 DEF Explained
<1>5. ASSUME pc \in Walking
      PROVE  \A s \in stays' : (g[s] < g[cur'] => Once(s)') /\ (~(g[s] < g[cur']) => Never(s)')
  BY Zenon, <1>1, <1>2, <1>5 DEF SnapInv
<1>6. ASSUME pc \in Walking
      PROVE  \A c \in Reach' : g[c] < g[cur'] /\ Outlives(w, c, cur)' => Recorded(c)'
  <2> SUFFICES ASSUME NEW c \in Reach', g[c] < g[cur'], Outlives(w, c, cur)'
               PROVE  Recorded(c)'
    BY Zenon
  <2>1. c \in Reach /\ f[c] < f[cur] /\ Outlives(u, c, cur)
    BY Zenon, <1>1
  <2>2. Recorded(c)
    BY Zenon, <1>6, <2>1 DEF SnapInv
  <2> QED
    BY Zenon, <1>3, <2>1, <2>2
<1>7. pc \in {"ppid", "next"} => rec'.at = cur' /\ rec'.pid = task'[cur'].pid
  BY Zenon, <1>1 DEF SnapInv
<1>8. pc = "ppid" => \/ parent' \in {0, 1} \/ parent' \in Hidden'
                     \/ parent' \in Reach' /\ Recorded(parent)'
  <2> SUFFICES ASSUME pc = "ppid", parent \in Reach, Recorded(parent)
               PROVE  parent' \in Reach' /\ Recorded(parent)'
    BY Zenon, <1>1 DEF SnapInv
  <2> QED
    BY Zenon, <1>1 DEF Recorded
<1>9. /\ pc = "next" => Explained(rec)'
      /\ \A i \in DOMAIN snap' : Explained(snap[i])'
      /\ pc = "full" => \A s \in stays' : Once(s)'
  BY Zenon, <1>1, <1>2, <1>4 DEF SnapInv
<1> QED
  BY Zenon, <1>1, <1>5, <1>6, <1>7, <1>8, <1>9 DEF SnapInv

LEMMA ForkSnap ==
  ASSUME WalkBase, Event, NEW f \in [Tasks -> Nat], NEW u \in [Tasks -> Nat],
         OrderInv(f), LeftInv(f, u), SnapInv(f, u),
         NEW p, NEW a, NEW l, NEW pid, ForkEffect(p, a, l, pid),
         NEW g \in [Tasks -> Nat], g[a] = events + 4, \A t \in Tasks \ {a} : g[t] = f[t]
  PROVE  SnapInv(g, u)'
<1> SUFFICES ASSUME ~reused'
             PROVE  SnapInv(g, u)'
  BY Zenon DEF SnapInv
<1>1. /\ a \in UserTasks /\ a \in Tasks /\ state[a] = "free" /\ state'[a] = "linked"
      /\ left' = left /\ stays' = stays
      /\ \A t \in Tasks \ {a} : state'[t] = state[t] /\ task'[t].pid = task[t].pid
      /\ reused' = (reused \/ a \in left) /\ cur \in Reach /\ cur' = cur
  BY Zenon, Shapes DEF ForkEffect, WalkBase, HidInv, Event, reads
<1>2. ~reused /\ a \notin left
  BY <1>1 DEF WalkBase, WalkerType
<1>3. events \in Nat /\ \A t \in Tasks : f[t] \in Nat /\ g[t] \in Nat
  BY Zenon DEF WalkerType, WalkBase
<1>4. /\ \A t \in Tasks \ {a} : Linked(t)' <=> Linked(t)
      /\ Linked(a)' /\ ~Linked(a)
  BY Zenon, <1>1 DEF Linked
<1>5. /\ \A t \in Reach' : t \in Reach \/ t = a
      /\ \A t \in Reach : t \in Tasks \ {a} /\ t \in Reach'
  <2>1. \A t \in left : t \in Tasks \ {a}
    BY Zenon, <1>2, Shapes DEF WalkBase, WalkerType
  <2> QED
    BY <1>1, <1>2, <1>4, <2>1 DEF Reach
<1>6. \A t \in Reach : g[t] = f[t] /\ g[t] < g[a]
  <2>1. \A t \in Tasks : f[t] <= events + 3
    BY Zenon DEF OrderInv
  <2> QED
    BY <1>3, <1>5, <2>1
<1>7. \A s \in stays : s \in Reach
  BY Zenon, <1>2 DEF LeftInv, Reach, WalkBase, WalkerType
<1>8. ASSUME NEW c \in Reach', g[c] < g[cur], Outlives(u, c, cur)'
      PROVE  c \in Reach /\ f[c] < f[cur] /\ Outlives(u, c, cur)
  <2>1. c # a
    BY <1>1, <1>3, <1>5, <1>6, <1>8
  <2>2. c \in Reach /\ f[c] < f[cur]
    BY Zenon, <1>1, <1>5, <1>6, <1>8, <2>1
  <2>3. Outlives(u, c, cur)
    BY Zenon, <1>1, <1>4, <1>5, <1>8, <2>2 DEF Outlives
  <2> QED
    BY Zenon, <2>2, <2>3
<1>9. \A h \in Hidden : h \in Hidden' /\ task'[h].pid = task[h].pid
  BY Zenon, <1>1 DEF Hidden
<1>10. g[cur] = f[cur] /\ \A s \in stays' : g[s] = f[s]
  BY Zenon, <1>1, <1>6, <1>7
<1>11. \A c \in Reach : c \in Reach' /\ task'[c].pid = task[c].pid
  BY Zenon, <1>1, <1>5
<1> QED
  BY Zenon, <1>1, <1>2, <1>8, <1>9, <1>10, <1>11, EventSnap


LEMMA UnlinkSnap ==
  ASSUME WalkBase, Event, NEW f \in [Tasks -> Nat], NEW u \in [Tasks -> Nat],
         OrderInv(f), LeftInv(f, u), SnapInv(f, u),
         NEW a, NEW b, NEW new, UnlinkEffect(a, b, new),
         NEW w \in [Tasks -> Nat], w[a] = events + 1, \A t \in Tasks \ {a} : w[t] = u[t]
  PROVE  SnapInv(f, w)'
<1> SUFFICES ASSUME ~reused'
             PROVE  SnapInv(f, w)'
  BY Zenon DEF SnapInv
<1>1. /\ a \in Tasks /\ Linked(a) /\ state[a] # "hidden" /\ state'[a] \in {"free", "hidden"}
      /\ \A t \in Tasks \ {a} : state'[t] = state[t]
      /\ \A t \in Tasks : task'[t].pid = task[t].pid
      /\ left' = left \cup {a} /\ stays' = stays \ {a} /\ reused' = reused
  BY Zenon, Shapes DEF UnlinkEffect, Linked, WalkBase
<1>2. ~reused /\ cur \in Reach /\ cur' = cur /\ cur \in Tasks
  BY Zenon, <1>1 DEF WalkBase, HidInv, Event, reads, WalkerType
<1>3. \A t \in Tasks : Linked(t)' <=> Linked(t) /\ t # a
  BY Zenon, <1>1 DEF Linked
<1>4. \A t : t \in Reach' <=> t \in Reach
  BY Zenon, <1>1, <1>3 DEF Reach
<1>5. events \in Nat /\ \A t \in Tasks : u[t] \in Nat /\ w[t] \in Nat
  BY Zenon DEF WalkerType, WalkBase
<1>6. \A y \in left : y \in Tasks /\ y # a /\ ~Linked(y) /\ w[y] = u[y] /\ ~(w[y] > w[a])
  <2>1. \A y \in left : y \in Tasks /\ ~Linked(y) /\ u[y] <= events
    BY Zenon, <1>2, Shapes DEF LeftInv, WalkBase, WalkerType
  <2>2. \A y \in left : y # a
    BY Zenon, <1>1, <2>1
  <2> QED
    BY <1>1, <1>5, <2>1, <2>2
<1>7. ASSUME NEW c \in Reach', Outlives(w, c, cur)'
      PROVE  Outlives(u, c, cur)
  <2>1. c \in Tasks
    BY Zenon, <1>4, ReachTasks DEF WalkBase
  <2>2. Linked(c)' \/ (c \in left' /\ cur \in left' /\ w[c] > w[cur])
    BY Zenon, <1>2, <1>7 DEF Outlives
  <2>3. CASE Linked(c)' \/ c = a
    BY Zenon, <1>1, <1>3, <2>1, <2>3 DEF Outlives
  <2>4. CASE c # a /\ c \in left' /\ cur \in left' /\ w[c] > w[cur]
    <3>1. c \in left /\ cur # a
      BY Zenon, <1>1, <1>6, <2>4
    <3> QED
      BY Zenon, <1>1, <1>6, <2>4, <3>1 DEF Outlives
  <2> QED
    BY Zenon, <2>2, <2>3, <2>4
<1>8. \A h \in Hidden : h \in Hidden' /\ task'[h].pid = task[h].pid
  BY Zenon, <1>1 DEF Hidden
<1>9. \A c \in Reach : c \in Reach' /\ task'[c].pid = task[c].pid
  BY Zenon, <1>1, <1>4, ReachTasks DEF WalkBase
<1> QED
  BY Zenon, <1>1, <1>2, <1>4, <1>7, <1>8, <1>9, EventSnap

\* Exit and Exec.
LEMMA QuietSnap ==
  ASSUME WalkBase, Event, NEW f, NEW u, SnapInv(f, u), UNCHANGED <<left, stays, reused>>,
         \A t \in Tasks : /\ Linked(t)' <=> Linked(t)
                          /\ state'[t] = "hidden" <=> state[t] = "hidden"
                          /\ task'[t].pid = task[t].pid
  PROVE  SnapInv(f, u)'
<1>1. \A t : (t \in Reach' <=> t \in Reach) /\ (t \in Hidden => t \in Hidden' /\ t \in Tasks)
  BY Zenon DEF Reach, Hidden
<1>2. cur' = cur
  BY Zenon DEF Event, reads
<1>3. \A c \in Reach : c \in Tasks /\ (Outlives(u, c, cur)' => Outlives(u, c, cur))
  BY Zenon, <1>2, ReachTasks DEF Outlives, WalkBase
<1> QED
  BY Zenon, <1>1, <1>3, EventSnap

-----------------------------------------------------------------------------
(* The steps of the walk.                                                  *)

\* The pointer to the parent leads to 0 or 1, to a hidden task or to one that
\* has its record.
LEMMA ParentKnown ==
  ASSUME WalkBase, NEW f \in [Tasks -> Nat], NEW u \in [Tasks -> Nat],
         OrderInv(f), LeftInv(f, u), SnapInv(f, u), ~reused, pc \in Walking,
         NEW q, q = task[cur].parent
  PROVE  q \in {0, 1} \/ q \in Hidden \/ (q \in Reach /\ Recorded(q))
<1>1. cur \in Reach /\ cur \in Tasks /\ q \in Tasks
  BY Zenon, StructFields DEF WalkBase, HidInv, WalkerType
<1>2. q = 0 \/ (f[q] < f[cur] /\ (q \in Hidden \/ Outlives(u, q, cur)))
  <2>1. CASE cur \in Used
    <3>1. q = 0 \/ f[q] < f[cur]
      BY Zenon, <2>1 DEF OrderInv
    <3>2. state[q] \in {"linked", "hidden"}
      BY Zenon, <2>1 DEF WalkBase, GuestInv
    <3>3. q \in Hidden \/ Linked(q)
      BY Zenon, <1>1, <3>2 DEF Hidden, Linked
    <3> QED
      BY Zenon, <3>1, <3>3 DEF Outlives
  <2>2. CASE cur \notin Used
    <3>1. cur \in Free /\ cur \in left
      BY <1>1, <2>2 DEF Used, Free, Reach, Linked
    <3> QED
      BY Zenon, <3>1 DEF LeftInv
  <2> QED
    BY Zenon, <2>1, <2>2
<1>3. Outlives(u, q, cur) => q \in Reach
  BY Zenon, <1>1 DEF Outlives, Reach
<1> QED
  BY Zenon, <1>2, <1>3 DEF SnapInv

LEMMA SameGuestSets ==
  ASSUME UNCHANGED <<task, state, left>>
  PROVE  Reach' = Reach /\ Hidden' = Hidden /\ \A c : Linked(c)' <=> Linked(c)
BY Zenon DEF Reach, Hidden, Linked

\* A read of the task at cur adds no record.
LEMMA WalkOn ==
  ASSUME NEW f, NEW u, SnapInv(f, u), ~reused, pc \in {"task", "ppid"},
         UNCHANGED <<task, state, snap, stays, left, reused, cur>>,
         pc' \in {"ppid", "next"}, rec'.at = cur', rec'.pid = task'[cur'].pid,
         pc' = "ppid" => \/ parent' \in {0, 1} \/ parent' \in Hidden'
                         \/ parent' \in Reach' /\ Recorded(parent)',
         pc' = "next" => Explained(rec)'
  PROVE  SnapInv(f, u)'
<1>1. pc \in Walking /\ pc' # "full"
  BY Zenon DEF Walking
<1>2. Reach' = Reach /\ Hidden' = Hidden /\ \A c : Linked(c)' <=> Linked(c)
  BY Zenon, SameGuestSets
<1>3. \A s \in stays' : /\ f[s] < f[cur'] => Once(s)'
                        /\ ~(f[s] < f[cur']) => Never(s)'
  <2>1. \A s : (Once(s)' <=> Once(s)) /\ (Never(s)' <=> Never(s))
    BY Zenon DEF Once, Never
  <2> QED
    BY Zenon, <1>1, <2>1 DEF SnapInv
<1>4. \A c \in Reach' : f[c] < f[cur'] /\ Outlives(u, c, cur)' => Recorded(c)'
  <2>1. \A c : (Recorded(c)' <=> Recorded(c)) /\ (Outlives(u, c, cur)' <=> Outlives(u, c, cur))
    BY Zenon, <1>2 DEF Recorded, Outlives
  <2> QED
    BY Zenon, <1>1, <1>2, <2>1 DEF SnapInv
<1>5. \A i \in DOMAIN snap' : Explained(snap[i])'
  <2>1. \A i \in DOMAIN snap : Explained(snap[i])
    BY Zenon DEF SnapInv
  <2> QED
    BY Zenon, <1>2, <2>1 DEF Explained
<1> QED
  BY Zenon, <1>1, <1>3, <1>4, <1>5 DEF SnapInv

LEMMA ReadTaskSnap ==
  ASSUME WalkBase, NEW f \in [Tasks -> Nat], NEW u \in [Tasks -> Nat],
         OrderInv(f), LeftInv(f, u), SnapInv(f, u), ReadTask
  PROVE  SnapInv(f, u)'
<1> SUFFICES ASSUME ~reused
             PROVE  SnapInv(f, u)'
  BY Zenon DEF SnapInv, ReadTask, history
<1>1. UNCHANGED <<task, state, snap, stays, left, reused>> /\ pc = "task"
  BY Zenon DEF ReadTask, EndWalk, guest, history
<1>2. CASE EndWalk
  <2>1. pc' = "judge" /\ "judge" \notin Walking
    BY Zenon, <1>2 DEF EndWalk, Walking
  <2>2. \A i \in DOMAIN snap' : Explained(snap[i])'
    <3>1. \A i \in DOMAIN snap : Explained(snap[i])
      BY Zenon DEF SnapInv
    <3> QED
      BY Zenon, <1>1, <3>1, SameGuestSets DEF Explained
  <2> QED
    BY Zenon, <2>1, <2>2 DEF SnapInv
<1>3. CASE /\ parent' \in OrZero(task[cur].parent, InitTask)
           /\ rec' = [pid |-> task[cur].pid, ppid |-> 0, comm |-> task[cur].comm, at |-> cur]
           /\ pc' = "ppid"
           /\ UNCHANGED <<cur, snap>>
  <2>1. rec'.at = cur /\ rec'.pid = task[cur].pid /\ cur' = cur /\ pc' = "ppid"
    BY Zenon, <1>3
  <2>2. \/ parent' \in {0, 1} \/ parent' \in Hidden
        \/ parent' \in Reach /\ Recorded(parent')
    <3>1. parent' = 0 \/ parent' = task[cur].parent
      BY Zenon, <1>3 DEF OrZero, InitTask
    <3>2. pc \in Walking
      BY Zenon, <1>1 DEF Walking
    <3> QED
      BY Zenon, <3>1, <3>2, ParentKnown
  <2>3. \/ parent' \in {0, 1} \/ parent' \in Hidden'
        \/ parent' \in Reach' /\ Recorded(parent)'
    BY Zenon, <1>1, <2>2, SameGuestSets DEF Recorded
  <2> QED
    BY Zenon, <1>1, <2>1, <2>3, WalkOn
<1> QED
  BY Zenon, <1>2, <1>3 DEF ReadTask

LEMMA ReadParentPidSnap ==
  ASSUME WalkBase, NEW f \in [Tasks -> Nat], NEW u \in [Tasks -> Nat],
         SnapInv(f, u), ReadParentPid
  PROVE  SnapInv(f, u)'
<1> SUFFICES ASSUME ~reused
             PROVE  SnapInv(f, u)'
  BY Zenon DEF SnapInv, ReadParentPid, history
<1>1. UNCHANGED <<task, state, snap, stays, left, reused, cur>> /\ pc = "ppid" /\ pc' = "next"
  BY Zenon DEF ReadParentPid, guest, history
<1>2. rec'.at = rec.at /\ rec'.pid = rec.pid /\ rec'.ppid \in {task[parent].pid, 0}
  BY Zenon, ReadParentPidType DEF WalkBase
<1>3. rec'.at = cur' /\ rec'.pid = task'[cur'].pid
  BY Zenon, <1>1, <1>2 DEF SnapInv
<1>4. Explained(rec')
  <2>1. CASE rec'.ppid = 0
    BY Zenon, <2>1 DEF Explained
  <2>2. CASE rec'.ppid = task[parent].pid
    <3>1. CASE parent \in {0, 1}
      BY Zenon, <2>2, <3>1 DEF Explained, WalkBase, GuestInv
    <3>2. CASE parent \in Hidden
      BY Zenon, <2>2, <3>2 DEF Explained
    <3>3. CASE Recorded(parent)
      BY Zenon, <2>2, <3>3 DEF Explained, Recorded
    <3> QED
      BY Zenon, <1>1, <3>1, <3>2, <3>3 DEF SnapInv
  <2> QED
    BY Zenon, <1>2, <2>1, <2>2
<1>5. Explained(rec)'
  BY Zenon, <1>1, <1>4, SameGuestSets DEF Explained
<1> QED
  BY Zenon, <1>1, <1>3, <1>5, WalkOn


\* What the new record does to the snapshot.
LEMMA Appended ==
  ASSUME snap \in Seq(RecordSet), rec \in RecordSet, snap' = Append(snap, rec),
         UNCHANGED <<task, state>>
  PROVE  /\ \A s : Once(s) /\ s # rec.at => Once(s)'
         /\ \A s : Never(s) /\ s = rec.at => Once(s)'
         /\ \A s : Never(s) /\ s # rec.at => Never(s)'
         /\ \A c : Recorded(c) => Recorded(c)'
         /\ \A c : rec.at = c /\ rec.pid = task[c].pid => Recorded(c)'
         /\ (\A i \in DOMAIN snap : Explained(snap[i])) /\ Explained(rec) =>
              \A i \in DOMAIN snap' : Explained(snap[i])'
<1> DEFINE n == Len(snap) + 1
<1>1. /\ n \in DOMAIN snap' /\ n \notin DOMAIN snap
      /\ \A i \in DOMAIN snap' : i \in DOMAIN snap \/ i = n
      /\ \A i \in DOMAIN snap : i \in DOMAIN snap' /\ snap'[i] = snap[i]
      /\ snap'[n] = rec
  BY Zenon, AppendRecord
<1> HIDE DEF n
<1>2. ASSUME NEW s, Once(s), s # rec.at PROVE Once(s)'
  <2>1. PICK i \in DOMAIN snap : \A j \in DOMAIN snap : snap[j].at = s <=> j = i
    BY Zenon, <1>2 DEF Once
  <2>2. \A j \in DOMAIN snap' : snap'[j].at = s <=> j = i
    BY <1>1, <1>2, <2>1
  <2> QED
    BY Zenon, <1>1, <2>2 DEF Once
<1>3. ASSUME NEW s, Never(s), s = rec.at PROVE Once(s)'
  <2>1. \A j \in DOMAIN snap' : snap'[j].at = s <=> j = n
    BY <1>1, <1>3 DEF Never
  <2>2. PICK i \in DOMAIN snap' : i = n
    BY Zenon, <1>1
  <2> QED
    BY Zenon, <2>1, <2>2 DEF Once
<1>4. ASSUME NEW s, Never(s), s # rec.at PROVE Never(s)'
  BY Zenon, <1>1, <1>4 DEF Never
<1>5. ASSUME NEW c, Recorded(c) PROVE Recorded(c)'
  BY Zenon, <1>1, <1>5 DEF Recorded
<1>6. ASSUME NEW c, rec.at = c, rec.pid = task[c].pid PROVE Recorded(c)'
  <2>1. PICK i \in DOMAIN snap' : snap'[i] = rec
    BY Zenon, <1>1
  <2> QED
    BY Zenon, <1>6, <2>1 DEF Recorded
<1>7. ASSUME \A i \in DOMAIN snap : Explained(snap[i]), Explained(rec), NEW i \in DOMAIN snap'
      PROVE  Explained(snap[i])'
  <2>1. PICK r : r = snap'[i] /\ Explained(r)
    BY Zenon, <1>1, <1>7
  <2>2. Hidden' = Hidden
    BY Zenon DEF Hidden
  <2>3. \/ r.ppid \in {0, 1}
        \/ \E j \in DOMAIN snap' : snap'[j].pid = r.ppid
        \/ \E h \in Hidden' : task'[h].pid = r.ppid
    BY Zenon, <1>1, <2>1, <2>2 DEF Explained
  <2> QED
    BY Zenon, <2>1, <2>3 DEF Explained
<1> QED
  BY Zenon, <1>2, <1>3, <1>4, <1>5, <1>6, <1>7

\* No task that stays lies between cur and the next task, and what the next task
\* finds in the list before it, cur found or is.
LEMMA NextInOrder ==
  ASSUME WalkBase, NEW f \in [Tasks -> Nat], NEW u \in [Tasks -> Nat],
         OrderInv(f), LeftInv(f, u), ~reused, NEW n, n = task[cur].next
  PROVE  /\ n = 0 => \A s \in stays : f[s] <= f[cur]
         /\ n # 0 => /\ f[cur] < f[n]
                     /\ \A c \in Reach : Outlives(u, c, n) =>
                          Outlives(u, c, cur) /\ (f[c] <= f[cur] \/ f[n] <= f[c])
<1>1. cur \in Reach /\ cur \in Tasks /\ n \in Tasks /\ \A t \in Tasks : f[t] \in Nat /\ u[t] \in Nat
  BY Zenon, StructFields DEF WalkBase, HidInv, WalkerType
<1>2. /\ \A s \in stays : s \in Tasks /\ Linked(s)
      /\ \A y \in left : ~Linked(y) /\ y \in Tasks
  BY Zenon, Shapes DEF LeftInv, WalkBase, WalkerType
<1>3. CASE Linked(cur)
  <2>1. Linked(n) /\ n \notin left
    <3>1. Linked(n)
      BY Zenon, <1>1, <1>3 DEF WalkBase, ListInv, Linked
    <3> QED
      BY Zenon, <1>2, <3>1
  <2>2. \A s \in stays : f[s] <= f[cur] \/ n # 0
    BY Zenon, <1>1, <1>2, <1>3 DEF OrderInv
  <2>3. n # 0 => f[cur] < f[n]
    BY Zenon, <1>1, <1>3 DEF OrderInv
  <2>4. \A c \in Reach : Outlives(u, c, n) => Linked(c) /\ c \in Tasks
    BY Zenon, <2>1, ReachTasks DEF Outlives, WalkBase
  <2>5. \A c \in Tasks : Linked(c) => Outlives(u, c, cur) /\ (f[c] <= f[cur] \/ f[n] <= f[c])
    BY Zenon, <1>1, <1>3 DEF OrderInv, Outlives
  <2> QED
    BY Zenon, <2>2, <2>3, <2>4, <2>5
<1>4. CASE cur \in left
  <2>1. ASSUME NEW s \in stays, n = 0 PROVE f[s] <= f[cur]
    <3>1. f[s] < f[cur]
      BY Zenon, <1>4, <2>1 DEF LeftInv
    <3>2. f[s] \in Nat /\ f[cur] \in Nat
      BY Zenon, <1>1, <1>2
    <3> QED
      BY <3>1, <3>2
  <2>2. CASE n # 0
    <3>1. /\ f[cur] < f[n] /\ Outlives(u, n, cur)
          /\ \A c \in Reach : Outlives(u, c, cur) => f[c] <= f[cur] \/ f[n] <= f[c]
      BY Zenon, <1>4, <2>2 DEF LeftInv
    <3>2. ASSUME NEW c \in Reach, Outlives(u, c, n) PROVE Outlives(u, c, cur)
      <4>1. CASE Linked(c)
        BY Zenon, <4>1 DEF Outlives
      <4>2. CASE c \in left /\ n \in left /\ u[c] > u[n]
        <5>1. u[n] > u[cur]
          BY Zenon, <1>2, <3>1, <4>2 DEF Outlives
        <5>2. u[c] > u[cur]
          BY <1>1, <1>2, <4>2, <5>1
        <5> QED
          BY Zenon, <1>4, <4>2, <5>2 DEF Outlives
      <4> QED
        BY Zenon, <3>2, <4>1, <4>2 DEF Outlives
    <3> QED
      BY Zenon, <2>2, <3>1, <3>2
  <2> QED
    BY Zenon, <2>1, <2>2
<1> QED
  BY Zenon, <1>1, <1>3, <1>4 DEF Reach

LEMMA ReadNextSnap ==
  ASSUME WalkBase, NEW f \in [Tasks -> Nat], NEW u \in [Tasks -> Nat],
         OrderInv(f), LeftInv(f, u), SnapInv(f, u), ReadNext
  PROVE  SnapInv(f, u)'
<1> SUFFICES ASSUME ~reused
             PROVE  SnapInv(f, u)'
  BY Zenon DEF SnapInv, ReadNext, history
<1>1. UNCHANGED <<task, state, stays, left, reused>> /\ pc = "next" /\ pc \in Walking
  BY Zenon DEF ReadNext, guest, history, Walking
<1>2. Reach' = Reach /\ Hidden' = Hidden /\ \A c : Linked(c)' <=> Linked(c)
  BY Zenon, <1>1, SameGuestSets
<1>3. /\ rec.at = cur /\ rec.pid = task[cur].pid /\ Explained(rec)
      /\ \A i \in DOMAIN snap : Explained(snap[i])
      /\ \A s \in stays : (f[s] < f[cur] => Once(s)) /\ (~(f[s] < f[cur]) => Never(s))
      /\ \A c \in Reach : f[c] < f[cur] /\ Outlives(u, c, cur) => Recorded(c)
  BY Zenon, <1>1 DEF SnapInv
<1>4. CASE EndWalk
  <2>1. pc' = "judge" /\ "judge" \notin Walking /\ snap' = snap
    BY Zenon, <1>4 DEF EndWalk, Walking
  <2>2. \A i \in DOMAIN snap' : Explained(snap[i])'
    BY Zenon, <1>1, <1>2, <1>3, <2>1 DEF Explained
  <2> QED
    BY Zenon, <2>1, <2>2 DEF SnapInv
<1>5. CASE /\ snap' = Append(snap, rec)
           /\ cur' = task[cur].next
           /\ pc' = IF cur' = InitTask THEN "full" ELSE "task"
  <2>1. snap \in Seq(RecordSet) /\ rec \in RecordSet
    BY Zenon, <1>1 DEF WalkBase, WalkerType
  <2>2. /\ \A s : Once(s) /\ s # cur => Once(s)'
        /\ \A s : Never(s) /\ s = cur => Once(s)'
        /\ \A s : Never(s) /\ s # cur => Never(s)'
        /\ \A c : Recorded(c) => Recorded(c)'
        /\ \A c : c = cur => Recorded(c)'
        /\ \A i \in DOMAIN snap' : Explained(snap[i])'
    BY Zenon, <1>1, <1>3, <1>5, <2>1, Appended
  <2>3. PICK n \in Tasks : n = task[cur].next /\ cur' = n
    BY Zenon, <1>5, StructFields DEF WalkBase, WalkerType
  <2>4. /\ n = 0 => \A s \in stays : f[s] <= f[cur]
        /\ n # 0 => /\ f[cur] < f[n]
                    /\ \A c \in Reach : Outlives(u, c, n) =>
                         Outlives(u, c, cur) /\ (f[c] <= f[cur] \/ f[n] <= f[c])
    BY Zenon, <2>3, NextInOrder
  <2>5. /\ \A s \in stays : s \in Reach /\ s \in Tasks /\ Linked(s)
        /\ cur \in Reach /\ cur \in Tasks
        /\ \A t \in Tasks : f[t] \in Nat
        /\ \A t \in Reach : t \in Tasks /\ (f[t] = f[cur] => t = cur)
    <3>1. \A s \in stays : s \in Tasks /\ Linked(s)
      BY Zenon DEF LeftInv, WalkBase, WalkerType
    <3>2. cur \in Reach /\ cur \in Tasks
      BY Zenon DEF WalkBase, WalkerType, HidInv
    <3> QED
      BY Zenon, <3>1, <3>2, ReachTasks DEF LeftInv, Reach, WalkBase
  <2>6. ASSUME NEW s \in stays, f[s] <= f[cur] PROVE Once(s)'
    <3>1. CASE s = cur
      <4>1. ~(f[s] < f[cur])
        BY <2>5, <3>1
      <4> QED
        BY Zenon, <1>3, <2>2, <3>1, <4>1
    <3>2. CASE s # cur
      <4>1. f[s] < f[cur]
        BY <2>5, <2>6, <3>2
      <4> QED
        BY Zenon, <1>3, <2>2, <3>2, <4>1
    <3> QED
      BY Zenon, <3>1, <3>2
  <2>7. CASE n = 0
    <3>1. pc' = "full" /\ "full" \notin Walking
      BY Zenon, <1>5, <2>3, <2>7 DEF InitTask, Walking
    <3>2. \A s \in stays' : Once(s)'
      BY Zenon, <1>1, <2>4, <2>6, <2>7
    <3> QED
      BY Zenon, <2>2, <3>1, <3>2 DEF SnapInv
  <2>8. CASE n # 0
    <3>1. pc' = "task"
      BY Zenon, <1>5, <2>3, <2>8 DEF InitTask
    <3>2. ASSUME NEW s \in stays'
          PROVE  (f[s] < f[n] => Once(s)') /\ (~(f[s] < f[n]) => Never(s)')
      <4>1. s \in stays /\ s \in Reach /\ s \in Tasks /\ Linked(s)
        BY Zenon, <1>1, <2>5
      <4>2. f[s] <= f[cur] \/ f[n] <= f[s]
        <5>1. Outlives(u, s, n)
          BY Zenon, <4>1 DEF Outlives
        <5> QED
          BY Zenon, <2>4, <2>8, <4>1, <5>1
      <4>3. CASE f[s] <= f[cur]
        <5>1. f[s] < f[n]
          BY <2>3, <2>4, <2>5, <2>8, <4>1, <4>3
        <5> QED
          BY Zenon, <2>6, <4>1, <4>3, <5>1
      <4>4. CASE f[n] <= f[s]
        <5>1. ~(f[s] < f[n]) /\ ~(f[s] < f[cur]) /\ s # cur
          BY <2>3, <2>4, <2>5, <2>8, <4>1, <4>4
        <5> QED
          BY Zenon, <1>3, <2>2, <4>1, <5>1
      <4> QED
        BY Zenon, <4>2, <4>3, <4>4
    <3>3. ASSUME NEW c \in Reach', f[c] < f[n], Outlives(u, c, n)
          PROVE  Recorded(c)'
      <4>1. /\ c \in Reach /\ c \in Tasks /\ Outlives(u, c, cur)
            /\ f[c] <= f[cur] \/ f[n] <= f[c]
        BY Zenon, <1>2, <2>4, <2>5, <2>8, <3>3
      <4>2. f[c] <= f[cur]
        BY <2>3, <2>5, <3>3, <4>1
      <4>3. CASE c = cur
        BY Zenon, <2>2, <4>3
      <4>4. CASE c # cur
        <5>1. f[c] < f[cur]
          BY <2>5, <4>1, <4>2, <4>4
        <5> QED
          BY Zenon, <1>3, <2>2, <4>1, <5>1
      <4> QED
        BY Zenon, <4>3, <4>4
    <3>4. \A c : Outlives(u, c, cur)' => Outlives(u, c, n)
      BY Zenon, <1>1, <1>2, <2>3 DEF Outlives
    <3>5. /\ \A s \in stays' : (f[s] < f[cur'] => Once(s)') /\ (~(f[s] < f[cur']) => Never(s)')
          /\ \A c \in Reach' : f[c] < f[cur'] /\ Outlives(u, c, cur)' => Recorded(c)'
      BY Zenon, <2>3, <3>2, <3>3, <3>4
    <3> QED
      BY Zenon, <2>2, <3>1, <3>5 DEF SnapInv
  <2> QED
    BY Zenon, <2>7, <2>8
<1> QED
  BY Zenon, <1>4, <1>5 DEF ReadNext


-----------------------------------------------------------------------------
(* The inductive invariant, and the theorems.                              *)

WalkInv ==
  WalkBase /\ \E f, u \in [Tasks -> Nat] : OrderInv(f) /\ LeftInv(f, u) /\ SnapInv(f, u)

LEMMA InitWalk ==
  ASSUME WalkerInit
  PROVE  WalkInv
<1>1. PICK a, b \in UserTasks, p, q \in UserPids : InitShape(a, b, p, q)
  BY Zenon, InitHas
<1>2. /\ a # b /\ a \in Tasks /\ b \in Tasks /\ 0 \in Tasks /\ 1 \in Tasks
      /\ a # 0 /\ a # 1 /\ b # 0 /\ b # 1
      /\ task[0].parent = 0 /\ task[0].next = 1 /\ task[1].parent = 0 /\ task[1].next = a
      /\ task[a].parent = 1 /\ task[a].next = b /\ task[b].parent = a /\ task[b].next = 0
      /\ \A t \in {0, 1, a, b} : state[t] = "linked"
      /\ \A t \in Tasks \ {0, 1, a, b} : state[t] = "free"
  BY Zenon, <1>1, WalkerAssumption DEF InitShape, Tasks
<1>3. /\ pc = "task" /\ cur = 0 /\ snap = <<>> /\ events = 0
      /\ stays = {t \in Tasks : Linked(t)} /\ left = {} /\ reused = FALSE
  BY Zenon DEF WalkerInit, InitTask
<1>4. /\ \A t \in Used : t \in {0, 1, a, b}
      /\ \A t \in Tasks : Linked(t) <=> t \in {0, 1, a, b}
      /\ \A t \in UserTasks \ Free : t \in {a, b}
  BY Zenon, <1>2, WalkerAssumption DEF Used, Free, Linked, Tasks
<1> DEFINE h == [t \in Tasks |-> IF t = 1 THEN 1 ELSE IF t = a THEN 2
                                 ELSE IF t = b THEN 3 ELSE 0]
<1>5. PICK f \in [Tasks -> Nat] :
        f[0] = 0 /\ f[1] = 1 /\ f[a] = 2 /\ f[b] = 3 /\ \A t \in Tasks : f[t] <= 3
  <2>1. h \in [Tasks -> Nat]
    OBVIOUS
  <2>2. h[0] = 0 /\ h[1] = 1 /\ h[a] = 2 /\ h[b] = 3 /\ \A t \in Tasks : h[t] <= 3
    BY <1>2
  <2> QED
    BY Zenon, <2>1, <2>2
<1>6. OrderInv(f)
  <2>1. \A t \in Tasks : f[t] <= events + 3
    BY <1>3, <1>5
  <2>2. \A t \in UserTasks \ Free : f[t] > 1
    BY <1>4, <1>5
  <2>3. \A t, v \in Used : f[t] = f[v] => t = v
    BY <1>4, <1>5
  <2>4. \A t \in Used : task[t].parent = 0 \/ f[task[t].parent] < f[t]
    BY <1>2, <1>4, <1>5
  <2>5. \A t \in Tasks : Linked(t) => task[t].next = 0 \/ f[t] < f[task[t].next]
    BY <1>2, <1>4, <1>5
  <2>6. \A t, c \in Tasks : Linked(t) /\ Linked(c) =>
          f[c] <= f[t] \/ (task[t].next # 0 /\ f[task[t].next] <= f[c])
    BY <1>2, <1>4, <1>5
  <2> QED
    BY Zenon, <1>5, <2>1, <2>2, <2>3, <2>4, <2>5, <2>6 DEF OrderInv
<1>7. LeftInv(f, f)
  <2>1. \A t \in Reach : t \in {0, 1, a, b}
    BY Zenon, <1>3, <1>4 DEF Reach
  <2>2. \A t, v \in Reach : f[t] = f[v] => t = v
    BY <1>5, <2>1
  <2> QED
    BY Zenon, <1>3, <2>2 DEF LeftInv
<1>8. SnapInv(f, f)
  <2>1. DOMAIN snap = {} /\ "task" \notin {"ppid", "next", "full"}
    BY <1>3
  <2>2. \A t \in Tasks : ~(f[t] < f[cur])
    BY <1>3, <1>5
  <2>3. /\ \A s \in stays : s \in Tasks
        /\ \A t \in Reach : t \in Tasks
    BY Zenon, <1>3 DEF Reach
  <2> QED
    BY Zenon, <1>3, <2>1, <2>2, <2>3 DEF SnapInv, Never
<1> QED
  BY Zenon, <1>6, <1>7, <1>8, InitBase DEF WalkInv

\* An event of the guest.
LEMMA GuestStepWalk ==
  ASSUME WalkBase, GuestStep, NEW f \in [Tasks -> Nat], NEW u \in [Tasks -> Nat],
         OrderInv(f), LeftInv(f, u), SnapInv(f, u)
  PROVE  \E g, w \in [Tasks -> Nat] : OrderInv(g)' /\ LeftInv(g, w)' /\ SnapInv(g, w)'
<1>1. WalkerType /\ GuestInv /\ ListInv /\ events \in Nat
  BY Zenon DEF WalkBase, WalkerType
<1>2. CASE Fork
  <2>1. PICK p \in Tasks, a \in UserTasks, l \in Tasks, pid \in UserPids :
          ForkEffect(p, a, l, pid)
    BY Zenon, <1>1, <1>2, ForkDoes
  <2>2. a \in Tasks
    BY Zenon DEF Tasks
  <2>3. PICK g \in [Tasks -> Nat] : g[a] = events + 4 /\ \A t \in Tasks \ {a} : g[t] = f[t]
    <3>1. [f EXCEPT ![a] = events + 4] \in [Tasks -> Nat]
      <4>1. events + 4 \in Nat
        BY <1>1
      <4> QED
        BY Zenon, <4>1
    <3>2. /\ [f EXCEPT ![a] = events + 4][a] = events + 4
          /\ \A t \in Tasks \ {a} : [f EXCEPT ![a] = events + 4][t] = f[t]
      BY Zenon, <2>2
    <3> QED
      BY Zenon, <3>1, <3>2
  <2>4. Event
    BY Zenon, <1>2 DEF Fork
  <2>5. OrderInv(g)'
    BY Zenon, <1>1, <2>1, <2>3, <2>4, ForkOrder
  <2>6. LeftInv(g, u)'
    BY Zenon, <2>1, <2>3, <2>4, ForkLeft
  <2>7. SnapInv(g, u)'
    BY Zenon, <2>1, <2>3, <2>4, ForkSnap
  <2> QED
    BY Zenon, <2>5, <2>6, <2>7
<1>3. CASE Exit
  <2>1. PICK a \in UserTasks : ExitEffect(a)
    BY Zenon, <1>1, <1>3, ExitDoes
  <2>2. \A t \in Tasks : /\ Linked(t)' <=> Linked(t)
                         /\ state'[t] = "hidden" <=> state[t] = "hidden"
                         /\ state'[t] = "free" <=> state[t] = "free"
    BY <2>1 DEF ExitEffect, Linked
  <2>3. Event /\ events' \in Nat /\ events <= events'
    BY <1>1, <1>3 DEF Exit, Event
  <2>4. OrderInv(f)'
    BY Zenon, <1>1, <2>1, <2>3, ExitOrder
  <2>5. LeftInv(f, u)'
    BY Zenon, <2>1, <2>2, <2>3, SameLeft DEF ExitEffect
  <2>6. SnapInv(f, u)'
    BY Zenon, <2>1, <2>2, <2>3, QuietSnap DEF ExitEffect
  <2> QED
    BY Zenon, <2>4, <2>5, <2>6
<1>4. CASE Reap \/ Hide
  <2>1. PICK a \in UserTasks, new \in {"free", "hidden"} :
          /\ \/ state[a] = "zombie" /\ new = "free"
             \/ state[a] = "linked" /\ new = "hidden"
          /\ Unlink(a, new)
    BY Zenon, <1>4 DEF Reap, Hide
  <2>2. PICK b \in Tasks : UnlinkEffect(a, b, new)
    BY Zenon, <1>1, <2>1, UnlinkDoes
  <2>3. Event /\ a \in Tasks
    BY Zenon, <2>1 DEF Unlink, Tasks
  <2>4. PICK w \in [Tasks -> Nat] : w[a] = events + 1 /\ \A t \in Tasks \ {a} : w[t] = u[t]
    <3>1. [u EXCEPT ![a] = events + 1] \in [Tasks -> Nat]
      <4>1. events + 1 \in Nat
        BY <1>1
      <4> QED
        BY Zenon, <4>1
    <3>2. /\ [u EXCEPT ![a] = events + 1][a] = events + 1
          /\ \A t \in Tasks \ {a} : [u EXCEPT ![a] = events + 1][t] = u[t]
      BY Zenon, <2>3
    <3> QED
      BY Zenon, <3>1, <3>2
  <2>5. OrderInv(f)'
    BY Zenon, <1>1, <2>2, <2>3, UnlinkOrder
  <2>6. LeftInv(f, w)'
    BY Zenon, <2>2, <2>3, <2>4, UnlinkLeft
  <2>7. SnapInv(f, w)'
    BY Zenon, <2>2, <2>3, <2>4, UnlinkSnap
  <2> QED
    BY Zenon, <2>5, <2>6, <2>7
<1>5. CASE Exec
  <2>1. ExecEffect
    BY Zenon, <1>1, <1>5, ExecDoes
  <2>2. \A t \in Tasks : /\ Linked(t)' <=> Linked(t)
                         /\ state'[t] = "hidden" <=> state[t] = "hidden"
                         /\ state'[t] = "free" <=> state[t] = "free"
    BY Zenon, <2>1 DEF ExecEffect, Linked
  <2>3. Event /\ events' \in Nat /\ events <= events'
    BY <1>1, <1>5 DEF Exec, Event
  <2>4. \A t \in Free : task'[t].parent = task[t].parent
    BY Zenon, <2>1 DEF ExecEffect, Free
  <2>5. OrderInv(f)'
    BY Zenon, <1>1, <2>1, <2>3, SameOrder DEF ExecEffect
  <2>6. LeftInv(f, u)'
    BY Zenon, <2>1, <2>2, <2>3, <2>4, SameLeft DEF ExecEffect
  <2>7. SnapInv(f, u)'
    BY Zenon, <2>1, <2>2, <2>3, QuietSnap DEF ExecEffect
  <2> QED
    BY Zenon, <2>5, <2>6, <2>7
<1> QED
  BY Zenon, <1>2, <1>3, <1>4, <1>5 DEF GuestStep


\* Nothing that the order and the snapshot depend on has changed.
LEMMA SameOrderLeft ==
  ASSUME WalkBase, NEW f \in [Tasks -> Nat], NEW u \in [Tasks -> Nat],
         OrderInv(f), LeftInv(f, u), UNCHANGED <<task, state, events, stays, left, reused>>
  PROVE  OrderInv(f)' /\ LeftInv(f, u)'
<1>1. WalkerType /\ events' \in Nat /\ events <= events'
  BY DEF WalkBase, WalkerType
<1>2. \A t : Linked(t)' <=> Linked(t)
  BY Zenon DEF Linked
<1>3. OrderInv(f)'
  BY Zenon, <1>1, SameOrder
<1>4. LeftInv(f, u)'
  BY Zenon, <1>1, <1>2, SameLeft
<1> QED
  BY Zenon, <1>3, <1>4

LEMMA SameSnap ==
  ASSUME NEW f, NEW u, SnapInv(f, u),
         UNCHANGED <<task, state, pc, cur, rec, parent, snap, stays, left, reused>>
  PROVE  SnapInv(f, u)'
<1>1. Reach' = Reach /\ Hidden' = Hidden /\ \A c : Linked(c)' <=> Linked(c)
  BY Zenon, SameGuestSets
<1>2. \A s : (Once(s)' <=> Once(s)) /\ (Never(s)' <=> Never(s))
  BY Zenon DEF Once, Never
<1>3. \A c : (Recorded(c)' <=> Recorded(c)) /\ (Outlives(u, c, cur)' <=> Outlives(u, c, cur))
  BY Zenon, <1>1 DEF Recorded, Outlives
<1>4. /\ \A i \in DOMAIN snap : Explained(snap[i]) => Explained(snap[i])'
      /\ Explained(rec) => Explained(rec)'
      /\ Recorded(parent) => Recorded(parent)'
  BY Zenon, <1>1 DEF Explained, Recorded
<1> SUFFICES ASSUME ~reused
             PROVE  SnapInv(f, u)'
  BY Zenon DEF SnapInv
<1>5. ASSUME pc \in Walking
      PROVE  /\ \A s \in stays' : (f[s] < f[cur'] => Once(s)') /\ (~(f[s] < f[cur']) => Never(s)')
             /\ \A c \in Reach' : f[c] < f[cur'] /\ Outlives(u, c, cur)' => Recorded(c)'
  BY Zenon, <1>1, <1>2, <1>3, <1>5 DEF SnapInv
<1>6. /\ pc \in {"ppid", "next"} => rec'.at = cur' /\ rec'.pid = task'[cur'].pid
      /\ pc = "ppid" => \/ parent' \in {0, 1} \/ parent' \in Hidden'
                        \/ parent' \in Reach' /\ Recorded(parent)'
  BY Zenon, <1>1, <1>4 DEF SnapInv
<1>7. /\ pc = "next" => Explained(rec)'
      /\ \A i \in DOMAIN snap' : Explained(snap[i])'
      /\ pc = "full" => \A s \in stays' : Once(s)'
  BY Zenon, <1>2, <1>4 DEF SnapInv
<1> QED
  BY Zenon, <1>5, <1>6, <1>7 DEF SnapInv

\* A step of the walk, or of the judge.
LEMMA ReadStepWalk ==
  ASSUME WalkBase, NEW f \in [Tasks -> Nat], NEW u \in [Tasks -> Nat],
         OrderInv(f), LeftInv(f, u), SnapInv(f, u),
         ReadTask \/ ReadParentPid \/ ReadNext
  PROVE  OrderInv(f)' /\ LeftInv(f, u)' /\ SnapInv(f, u)'
<1>1. UNCHANGED <<task, state, events, stays, left, reused>>
  BY Zenon DEF ReadTask, ReadParentPid, ReadNext, guest, history
<1>2. OrderInv(f)' /\ LeftInv(f, u)'
  BY Zenon, <1>1, SameOrderLeft
<1>3. SnapInv(f, u)'
  BY Zenon, ReadTaskSnap, ReadParentPidSnap, ReadNextSnap
<1> QED
  BY Zenon, <1>2, <1>3

LEMMA NextWalkWalk ==
  ASSUME WalkBase, NEW f \in [Tasks -> Nat], NEW u \in [Tasks -> Nat],
         OrderInv(f), NextWalk
  PROVE  OrderInv(f)' /\ LeftInv(f, u)' /\ SnapInv(f, u)'
<1>1. /\ UNCHANGED <<task, state, events>> /\ pc' = "task" /\ cur' = 0 /\ snap' = <<>>
      /\ stays' = {a \in Tasks : Linked(a)} /\ left' = {}
  BY Zenon DEF NextWalk, guest, InitTask
<1>2. WalkerType /\ events' \in Nat /\ events <= events'
  BY <1>1 DEF WalkBase, WalkerType
<1>3. OrderInv(f)'
  BY Zenon, <1>1, <1>2, SameOrder
<1>4. SnapInv(f, u)'
  <2>1. DOMAIN snap' = {} /\ "task" \notin {"ppid", "next", "full"}
    BY <1>1
  <2>2. f[0] = 0 /\ \A t \in Tasks : f[t] \in Nat
    BY Zenon DEF OrderInv
  <2>3. \A t \in Tasks : ~(f[t] < f[cur'])
    BY <1>1, <2>2
  <2>4. /\ \A s \in stays' : s \in Tasks
        /\ \A t \in Reach' : t \in Tasks
    BY Zenon, <1>1 DEF Reach
  <2> QED
    BY Zenon, <1>1, <2>1, <2>3, <2>4 DEF SnapInv, Never
<1> QED
  BY Zenon, <1>3, <1>4, NextWalkLeft

LEMMA WalkStep ==
  ASSUME WalkInv, [WalkerNext]_walkerVars
  PROVE  WalkInv'
<1>1. WalkBase /\ WalkBase'
  BY Zenon, BaseStep DEF WalkInv
<1>2. PICK f, u \in [Tasks -> Nat] : OrderInv(f) /\ LeftInv(f, u) /\ SnapInv(f, u)
  BY Zenon DEF WalkInv
<1>3. \E g, w \in [Tasks -> Nat] : OrderInv(g)' /\ LeftInv(g, w)' /\ SnapInv(g, w)'
  <2>1. CASE ReadTask \/ ReadParentPid \/ ReadNext
    BY Zenon, <1>1, <1>2, <2>1, ReadStepWalk
  <2>2. CASE \/ detect_orphans \/ detect_fork_bomb \/ detect_suspicious_ancestry
             \/ UNCHANGED walkerVars
    <3>1. UNCHANGED <<task, state, events, pc, cur, rec, parent, snap, stays, left, reused>>
      BY Zenon, <2>2 DEF detect_orphans, detect_fork_bomb, detect_suspicious_ancestry,
                         Judge, guest, reads, history, walkerVars
    <3>2. OrderInv(f)' /\ LeftInv(f, u)'
      BY Zenon, <1>1, <1>2, <3>1, SameOrderLeft
    <3>3. SnapInv(f, u)'
      BY Zenon, <1>2, <3>1, SameSnap
    <3> QED
      BY Zenon, <3>2, <3>3
  <2>3. CASE NextWalk
    BY Zenon, <1>1, <1>2, <2>3, NextWalkWalk
  <2>4. CASE GuestStep
    BY Zenon, <1>1, <1>2, <2>4, GuestStepWalk
  <2> QED
    BY Zenon, <2>1, <2>2, <2>3, <2>4 DEF WalkerNext, GuestStep
<1> QED
  BY Zenon, <1>1, <1>3 DEF WalkInv

LEMMA WalkInductive == WalkerSpec => []WalkInv
<1>1. WalkerInit => WalkInv
  BY Zenon, InitWalk
<1>2. WalkInv /\ [WalkerNext]_walkerVars => WalkInv'
  BY Zenon, WalkStep
<1> QED
  BY <1>1, <1>2, PTL DEF WalkerSpec

\* snapshot_processes, for every number of task_structs, PIDs, events and walks:
\* a task that is linked for the whole of a walk that comes round to init_task is
\* in the snapshot exactly once, unless memory of a task unlinked during the walk
\* is used again before it is over.
THEOREM SnapshotCompleteAlways == WalkerSpec => []SnapshotComplete
<1>1. WalkInv => SnapshotComplete
  <2> SUFFICES ASSUME WalkInv, pc = "full", ~reused
               PROVE  \A a \in stays : Once(a)
    BY Zenon DEF SnapshotComplete, Once
  <2> QED
    BY Zenon DEF WalkInv, SnapInv
<1> QED
  BY <1>1, WalkInductive, PTL

\* task_walker_detect_orphans, for every number of task_structs, PIDs, events and
\* walks: a PID is reported only for a record whose parent is a live process that
\* was unlinked, also when the walk was cut short, and whatever exits during it.
THEOREM NoFalseOrphanAlways == WalkerSpec => []NoFalseOrphan
<1>1. WalkInv => NoFalseOrphan
  <2> SUFFICES ASSUME WalkInv, signals.by = "orphans", ~reused, NEW p \in signals.pids
               PROVE  \E r \in Records : r.pid = p /\ \E h \in Hidden : task[h].pid = r.ppid
    BY Zenon DEF NoFalseOrphan
  <2>1. signals.pids = orphans
    BY Zenon DEF WalkInv, WalkBase, HidInv
  <2>2. PICK r \in Records : r.pid = p /\ r.ppid \notin {0, 1} /\ ~pid_exists(r.ppid)
    BY Zenon, <2>1 DEF orphans
  <2>3. PICK i \in DOMAIN snap : r = snap[i]
    BY Zenon DEF Records
  <2>4. Explained(r)
    BY Zenon, <2>3 DEF WalkInv, SnapInv
  <2>5. ~\E j \in DOMAIN snap : snap[j].pid = r.ppid
    BY Zenon, <2>2 DEF pid_exists, Records
  <2> QED
    BY Zenon, <2>2, <2>4, <2>5 DEF Explained
<1> QED
  BY <1>1, WalkInductive, PTL
=============================================================================
