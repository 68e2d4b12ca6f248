---------------------------- MODULE KvmiSession -----------------------------
(***************************************************************************)
(* The introspection session of the VMI daemon (kvmi_setup.c): opening the *)
(* KVM resources, attaching to libkvmi, the heartbeat with its reconnect   *)
(* and the teardown.  QEMU connects to the daemon's socket whenever it     *)
(* likes; libkvmi's own thread then calls the handshake and the accept     *)
(* callback, while the daemon's thread sleeps in its wait loop, runs       *)
(* main's loop, or tears the listener down.  fn_uninit stops the library   *)
(* thread, so no callback of an old listener runs after it.                *)
(***************************************************************************)
EXTENDS Naturals, FiniteSets

CONSTANTS
  WaitSteps,  \* KVMI_CONNECT_WAIT_STEPS
  MaxMisses,  \* KVMI_HEARTBEAT_MAX_MISSES
  MaxDoms     \* bound: connections QEMU makes

ASSUME SessionAssumption ==
  /\ WaitSteps \in Nat
  /\ MaxMisses \in Nat \ {0}
  /\ MaxDoms \in Nat

VARIABLES
  pc,        \* where the daemon's thread is
  caller,    \* who called kvmi_runtime_connect: "attach" or "reconnect"
  open,      \* descriptors, mappings and the library handle that are held
  runtime,   \* session->kvmi_runtime is set
  listener,  \* listener_ctx: 0, or the number of the listener
  epoch,     \* history: listeners created so far
  waits,     \* i of the wait loop
  dom,       \* runtime->dom, 0 for NULL
  pendingDom,\* runtime->pending_dom
  shaken,    \* runtime->pending_handshake
  missed,    \* missed_heartbeats
  conn,      \* the connection libkvmi's thread is serving, 0 for none
  greeted,   \* its handshake callback has run
  made,      \* history: connections made so far
  alive,     \* connections QEMU has not closed
  born       \* history: the listener a connection came through

pending == <<pendingDom, shaken>>
library == <<conn, greeted, made, alive, born>>
session == <<open, runtime>>
vars == <<pc, caller, open, runtime, listener, epoch, waits, dom, pendingDom,
          shaken, missed, conn, greeted, made, alive, born>>

Doms == 1 .. MaxDoms
Local == {"kvm"}
OfQemu == {"vm", "vcpus", "control"}
Resources == Local \cup OfQemu \cup {"lib", "memslots"}

TypeOK ==
  /\ pc \in {"start", "listen", "wait", "memslots", "loop", "exited"}
  /\ caller \in {"attach", "reconnect"}
  /\ open \subseteq Resources
  /\ runtime \in BOOLEAN
  /\ epoch \in 0 .. MaxDoms + 1
  /\ listener \in {0, epoch}
  /\ waits \in 0 .. WaitSteps
  /\ dom \in Doms \cup {0}
  /\ pendingDom \in Doms \cup {0}
  /\ shaken \in BOOLEAN
  /\ missed \in 0 .. MaxMisses
  /\ conn \in Doms \cup {0}
  /\ greeted \in BOOLEAN
  /\ made \in 0 .. MaxDoms
  /\ alive \subseteq 1 .. made
  /\ born \in [Doms -> 0 .. MaxDoms + 1]

Init ==
  /\ pc = "start"
  /\ caller = "attach"
  /\ open = {}
  /\ runtime = FALSE
  /\ listener = 0
  /\ epoch = 0
  /\ waits = 0
  /\ dom = 0
  /\ pendingDom = 0
  /\ shaken = FALSE
  /\ missed = 0
  /\ conn = 0
  /\ greeted = FALSE
  /\ made = 0
  /\ alive = {}
  /\ born = [d \in Doms |-> 0]

-----------------------------------------------------------------------------
(* Setup: every part is optional, and failures are only logged.            *)

\* kvmi_setup up to attach_libkvmi.  Without a QEMU process only /dev/kvm is
\* opened; attaching needs a socket path and the library.
kvmi_setup ==
  /\ pc = "start"
  /\ \/ /\ \E got \in SUBSET Local : open' = got
        /\ pc' = "loop"
        /\ UNCHANGED caller
     \/ /\ \E got \in SUBSET (Local \cup OfQemu) : open' = got
        /\ pc' = "memslots"
        /\ UNCHANGED caller
     \/ /\ \E got \in SUBSET (Local \cup OfQemu) : open' = got \cup {"lib"}
        /\ pc' = "listen"
        /\ caller' = "attach"
  /\ UNCHANGED <<runtime, listener, epoch, waits, dom, pending, missed, library>>

enumerate_memslots ==
  /\ pc = "memslots"
  /\ \E got \in SUBSET {"memslots"} : open' = open \cup got
  /\ pc' = "loop"
  /\ UNCHANGED <<caller, runtime, listener, epoch, waits, dom, pending, missed,
                 library>>

-----------------------------------------------------------------------------
(* kvmi_runtime_connect.                                                   *)

\* fn_uninit: the listener and the connection it is serving are gone.
Uninit == listener' = 0 /\ conn' = 0 /\ greeted' = FALSE

\* A failed connect: attach_libkvmi destroys the runtime, a reconnect leaves it
\* behind with dom = NULL.
ConnectFailed ==
  \/ /\ caller = "attach"
     /\ open' = open \ {"lib"}
     /\ pc' = "memslots"
  \/ /\ caller = "reconnect"
     /\ pc' = "loop"
     /\ UNCHANGED open

\* Mutated form of ClearPending: what the old listener left behind is kept.
KeepPending == UNCHANGED pending
ClearPending == pendingDom' = 0 /\ shaken' = FALSE

\* The old listener is closed and a new one opened, which may fail.
Listen ==
  /\ pc = "listen"
  /\ dom' = 0
  /\ ClearPending
  /\ \/ /\ epoch' = epoch + 1
        /\ listener' = epoch + 1
        /\ conn' = 0
        /\ greeted' = FALSE
        /\ waits' = 0
        /\ pc' = "wait"
        /\ UNCHANGED open
     \/ /\ Uninit
        /\ ConnectFailed
        /\ UNCHANGED <<epoch, waits>>
  /\ UNCHANGED <<caller, runtime, missed, made, alive, born>>

Ready == pendingDom # 0 /\ shaken

WaitStep ==
  /\ pc = "wait" /\ ~Ready /\ waits < WaitSteps
  /\ waits' = waits + 1
  /\ UNCHANGED <<pc, caller, session, listener, epoch, dom, pending, missed,
                 library>>

\* The loop is left with both callbacks seen, if only after the last sleep.
Adopt ==
  /\ pc = "wait" /\ Ready
  /\ dom' = pendingDom
  /\ missed' = 0
  /\ runtime' = TRUE
  /\ pc' = IF caller = "attach" THEN "memslots" ELSE "loop"
  /\ UNCHANGED <<caller, open, listener, epoch, waits, pending, library>>

\* Mutated form of GiveUp: the listener is left open.
GiveUpListening ==
  /\ pc = "wait" /\ ~Ready /\ waits = WaitSteps
  /\ ConnectFailed
  /\ UNCHANGED <<caller, runtime, listener, epoch, waits, dom, pending, missed,
                 library>>

GiveUp ==
  /\ pc = "wait" /\ ~Ready /\ waits = WaitSteps
  /\ Uninit
  /\ ConnectFailed
  /\ UNCHANGED <<caller, runtime, epoch, waits, dom, pending, missed, made, alive,
                 born>>

-----------------------------------------------------------------------------
(* main's loop.                                                            *)

\* Mutated form of Missed: the count never grows.
MissedForgotten == 0
Missed == missed + 1

\* Mutated form of Lost: one miss too many is tolerated.
LostLate == Missed > MaxMisses
Lost == Missed >= MaxMisses

\* kvmi_session_heartbeat.  Without a domain it reports success and does nothing.
kvmi_session_heartbeat ==
  /\ pc = "loop" /\ runtime /\ dom # 0
  /\ \/ /\ dom \in alive
        /\ missed' = 0
        /\ UNCHANGED <<pc, caller>>
     \/ /\ dom \notin alive
        /\ ~Lost
        /\ missed' = Missed
        /\ UNCHANGED <<pc, caller>>
     \/ /\ dom \notin alive
        /\ Lost
        /\ missed' = Missed
        /\ pc' = "listen"
        /\ caller' = "reconnect"
  /\ UNCHANGED <<session, listener, epoch, waits, dom, pending, library>>

\* kvmi_teardown closes what the session refers to; the listener and the library
\* only through the runtime.
kvmi_teardown ==
  /\ pc = "loop"
  /\ pc' = "exited"
  /\ open' = IF runtime THEN {} ELSE open \cap {"lib"}
  /\ IF runtime THEN Uninit ELSE UNCHANGED <<listener, conn, greeted>>
  /\ runtime' = FALSE
  /\ dom' = 0
  /\ UNCHANGED <<caller, epoch, waits, pending, missed, made, alive, born>>

-----------------------------------------------------------------------------
(* QEMU and libkvmi's thread.                                              *)

QemuConnects ==
  /\ listener # 0 /\ conn = 0 /\ made < MaxDoms
  /\ made' = made + 1
  /\ conn' = made + 1
  /\ greeted' = FALSE
  /\ alive' = alive \cup {made + 1}
  /\ born' = [born EXCEPT ![made + 1] = listener]
  /\ UNCHANGED <<pc, caller, session, listener, epoch, waits, dom, pending, missed>>

kvmi_handshake_cb ==
  /\ conn # 0 /\ ~greeted
  /\ greeted' = TRUE
  /\ shaken' = TRUE
  /\ UNCHANGED <<pc, caller, session, listener, epoch, waits, dom, pendingDom,
                 missed, conn, made, alive, born>>

kvmi_accept_cb ==
  /\ conn # 0 /\ greeted
  /\ pendingDom' = conn
  /\ conn' = 0
  /\ greeted' = FALSE
  /\ UNCHANGED <<pc, caller, session, listener, epoch, waits, dom, shaken, missed,
                 made, alive, born>>

QemuCloses(d) ==
  /\ d \in alive
  /\ alive' = alive \ {d}
  /\ UNCHANGED <<pc, caller, session, listener, epoch, waits, dom, pending, missed,
                 conn, greeted, made, born>>

Daemon ==
  \/ kvmi_setup
  \/ enumerate_memslots
  \/ Listen
  \/ WaitStep
  \/ Adopt
  \/ GiveUp
  \/ kvmi_session_heartbeat

Next ==
  \/ Daemon
  \/ kvmi_teardown
  \/ QemuConnects
  \/ kvmi_handshake_cb
  \/ kvmi_accept_cb
  \/ \E d \in Doms : QemuCloses(d)

Spec == Init /\ [][Next]_vars

\* The daemon's thread runs main's loop, and libkvmi serves what has connected.
\* QEMU connects again to a listener that stays open.  Nobody has to stop the
\* daemon.
FairSpec ==
  /\ Spec
  /\ WF_vars(Daemon)
  /\ WF_vars(kvmi_handshake_cb)
  /\ WF_vars(kvmi_accept_cb)
  /\ WF_vars(QemuConnects)

-----------------------------------------------------------------------------
(* Properties.                                                             *)

\* The domain in use came through the listener that is open now, with the
\* handshake of that listener: what callbacks of an earlier one, or of a guest
\* that came late, left in pending_dom is never taken over by a reconnect.
FreshDomain == dom # 0 => listener # 0 /\ born[dom] = listener

\* The listener and the library are owned by a runtime that the teardown will
\* find: whatever connect attempts fail, nothing of libkvmi stays open when
\* nobody refers to it any more.
NothingLeaks ==
  /\ pc \in {"memslots", "loop", "exited"} /\ ~runtime =>
       listener = 0 /\ "lib" \notin open
  /\ pc = "exited" => open = {}

\* A dead connection is noticed: the heartbeat gives it up for a reconnect, and
\* does not count its misses for ever.
LossNoticed ==
  (dom # 0 /\ dom \notin alive) ~> (dom = 0 \/ dom \in alive)

\* What the feature list says ("Session heartbeat and auto-reconnect"): a session
\* that has lost its connection gets a new one, or ends.  QEMU still has a
\* connection to make.
AutoReconnect ==
  (pc = "loop" /\ runtime /\ dom = 0 /\ made < MaxDoms)
    ~> (dom # 0 \/ pc = "exited")

-----------------------------------------------------------------------------
(* The invariants behind FreshDomain and NothingLeaks.                     *)

\* A connection came through listener l.
Through(d, l) == d \in 1 .. made /\ l # 0 /\ born[d] = l

\* All that the callbacks and the daemon hold on to belongs to the open listener;
\* while the daemon waits there is one, and no domain yet.
ListenerInv ==
  /\ epoch \in Nat /\ made \in 0 .. MaxDoms /\ DOMAIN born = Doms
  /\ listener \in {0, epoch}
  /\ conn # 0 => Through(conn, listener)
  /\ pendingDom # 0 /\ listener # 0 => Through(pendingDom, listener)
  /\ dom # 0 => Through(dom, listener)
  /\ pc = "wait" => listener # 0 /\ dom = 0

\* The runtime owns the listener and the library, except during the first connect.
OwnerInv ==
  /\ pc \in {"start", "listen", "wait", "memslots", "loop", "exited"}
  /\ caller \in {"attach", "reconnect"}
  /\ pc = "start" => ~runtime /\ listener = 0
  /\ pc \in {"listen", "wait"} => (runtime <=> caller = "reconnect")
  /\ NothingLeaks

SessionInv == ListenerInv /\ OwnerInv

\* Only a domain that was adopted and lost leads to another listener, so there is at
\* most one more of them than connections; and only a domain in use is missed.
CountInv ==
  /\ epoch <= made + 1
  /\ pc \in {"start", "listen"} => epoch <= made
  /\ \A d \in 1 .. made : born[d] <= d
  /\ dom # 0 /\ pc # "listen" => missed < MaxMisses
=============================================================================
