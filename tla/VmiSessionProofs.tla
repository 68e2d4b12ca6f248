-------------------------- MODULE VmiSessionProofs --------------------------
(***************************************************************************)
(* Proofs about what the VMI daemon opens and reads through.  Those about  *)
(* the introspection session hold for any number of connections of QEMU,   *)
(* of wait steps and of tolerated misses; those about GuestMemory for every*)
(* page size, layout of the slots, retry limit, contents of the tables and *)
(* size of a call.                                                         *)
(***************************************************************************)
EXTENDS KvmiSession, GuestMemory, Integers, TLAPS

-----------------------------------------------------------------------------
(* The introspection session.                                              *)

\* The steps that leave the listener, the connections and the domains alone.
LEMMA ListenerFrame ==
  ASSUME ListenerInv,
         UNCHANGED <<listener, epoch, made, born, conn, pendingDom, dom>>,
         pc' = "wait" => pc = "wait"
  PROVE  ListenerInv'
BY Zenon DEF ListenerInv, Through

\* Connecting: a new listener starts with nothing pending, and what is adopted
\* came through it.
LEMMA ListenerConnect ==
  ASSUME ListenerInv, Listen \/ Adopt \/ GiveUp \/ kvmi_teardown
  PROVE  ListenerInv'
<1>1. CASE Listen
  <2>1. /\ dom' = 0 /\ pendingDom' = 0 /\ conn' = 0 /\ UNCHANGED <<made, born>>
        /\ \/ epoch' = epoch + 1 /\ listener' = epoch + 1
           \/ epoch' = epoch /\ listener' = 0 /\ pc' # "wait"
    BY Zenon, <1>1 DEF Listen, ClearPending, Uninit, ConnectFailed
  <2> QED
    BY <2>1 DEF ListenerInv
<1>2. CASE Adopt
  <2>1. /\ pc = "wait" /\ pendingDom # 0 /\ dom' = pendingDom /\ pc' # "wait"
        /\ UNCHANGED <<listener, epoch, made, born, conn, pendingDom>>
    BY Zenon, <1>2 DEF Adopt, Ready, pending, library
  <2> QED
    BY Zenon, <2>1 DEF ListenerInv, Through
<1>3. CASE GiveUp
  <2>1. /\ pc = "wait" /\ listener' = 0 /\ conn' = 0 /\ pc' # "wait"
        /\ UNCHANGED <<epoch, made, born, dom>>
    BY Zenon, <1>3 DEF GiveUp, Uninit, ConnectFailed
  <2> QED
    BY Zenon, <2>1 DEF ListenerInv
<1>4. CASE kvmi_teardown
  <2>1. /\ dom' = 0 /\ pc' = "exited" /\ UNCHANGED <<epoch, made, born, pendingDom>>
        /\ \/ listener' = 0 /\ conn' = 0
           \/ UNCHANGED <<listener, conn>>
    BY Zenon, <1>4 DEF kvmi_teardown, Uninit, pending
  <2> QED
    BY Zenon, <2>1 DEF ListenerInv, Through
<1> QED
  BY Zenon, <1>1, <1>2, <1>3, <1>4

\* QEMU's connections and the callbacks of libkvmi's thread, which interleave
\* with all of the above.
LEMMA ListenerLibrary ==
  ASSUME ListenerInv, QemuConnects \/ kvmi_accept_cb
  PROVE  ListenerInv'
<1>1. CASE QemuConnects
  <2>1. /\ listener # 0 /\ made < MaxDoms /\ made' = made + 1 /\ conn' = made + 1
        /\ born' = [born EXCEPT ![made + 1] = listener]
        /\ UNCHANGED <<pc, listener, epoch, dom, pendingDom>>
    BY Zenon, <1>1 DEF QemuConnects, pending
  <2>2. made \in Nat /\ MaxDoms \in Nat /\ made + 1 \in Doms
    BY <2>1, SessionAssumption DEF ListenerInv, Doms
  <2>3. /\ DOMAIN born' = Doms /\ born'[made + 1] = listener
        /\ \A d \in 1 .. made : born'[d] = born[d]
    BY <2>1, <2>2 DEF ListenerInv
  <2>4. ASSUME NEW d, Through(d, listener)
        PROVE  Through(d, listener)'
    BY <2>1, <2>2, <2>3, <2>4 DEF Through
  <2>5. Through(conn, listener)'
    BY <2>1, <2>2, <2>3 DEF Through
  <2> QED
    BY <2>1, <2>2, <2>3, <2>4, <2>5 DEF ListenerInv, Through
<1>2. CASE kvmi_accept_cb
  <2>1. /\ conn # 0 /\ pendingDom' = conn /\ conn' = 0
        /\ UNCHANGED <<pc, listener, epoch, dom, made, born>>
    BY Zenon, <1>2 DEF kvmi_accept_cb
  <2> QED
    BY Zenon, <2>1 DEF ListenerInv, Through
<1> QED
  BY Zenon, <1>1, <1>2

\* Every step keeps ListenerInv.
LEMMA ListenerStep ==
  ASSUME ListenerInv, [Next]_vars
  PROVE  ListenerInv'
<1>1. CASE kvmi_setup \/ enumerate_memslots \/ WaitStep \/ kvmi_session_heartbeat
  BY Zenon, <1>1, ListenerFrame
  DEF kvmi_setup, enumerate_memslots, WaitStep, kvmi_session_heartbeat, library,
      pending
<1>2. CASE kvmi_handshake_cb \/ \E d \in Doms : QemuCloses(d)
  BY Zenon, <1>2, ListenerFrame DEF kvmi_handshake_cb, QemuCloses, pending
<1>3. CASE UNCHANGED vars
  BY Zenon, <1>3, ListenerFrame DEF vars
<1> QED
  BY Zenon, <1>1, <1>2, <1>3, ListenerConnect, ListenerLibrary DEF Next, Daemon

\* Every step keeps OwnerInv.
LEMMA OwnerStep ==
  ASSUME ListenerInv, OwnerInv, [Next]_vars
  PROVE  OwnerInv'
<1>1. CASE kvmi_setup
  <2>1. /\ pc = "start" /\ runtime' = runtime /\ listener' = listener
        /\ \/ pc' \in {"memslots", "loop"} /\ "lib" \notin open' /\ caller' = caller
           \/ pc' = "listen" /\ caller' = "attach"
    BY <1>1 DEF kvmi_setup, Local, OfQemu
  <2> QED
    BY Zenon, <2>1 DEF OwnerInv, NothingLeaks
<1>2. CASE enumerate_memslots
  <2>1. /\ pc = "memslots" /\ pc' = "loop" /\ UNCHANGED <<caller, runtime, listener>>
        /\ "lib" \notin open => "lib" \notin open'
    BY Zenon, <1>2 DEF enumerate_memslots
  <2> QED
    BY Zenon, <2>1 DEF OwnerInv, NothingLeaks
<1>3. CASE Listen \/ GiveUp
  <2>1. pc \in {"listen", "wait"} /\ UNCHANGED <<caller, runtime>>
    BY Zenon, <1>3 DEF Listen, GiveUp
  <2>2. \/ pc' = "wait"
        \/ /\ listener' = 0
           /\ \/ caller = "attach" /\ pc' = "memslots" /\ "lib" \notin open'
              \/ caller = "reconnect" /\ pc' = "loop"
    BY Zenon, <1>3 DEF Listen, GiveUp, Uninit, ConnectFailed
  <2> QED
    BY Zenon, <2>1, <2>2 DEF OwnerInv, NothingLeaks
<1>4. CASE Adopt
  BY Zenon, <1>4 DEF Adopt, OwnerInv, NothingLeaks
<1>5. CASE kvmi_session_heartbeat
  BY Zenon, <1>5 DEF kvmi_session_heartbeat, session, OwnerInv, NothingLeaks
<1>6. CASE kvmi_teardown
  <2>1. /\ pc = "loop" /\ pc' = "exited" /\ ~runtime' /\ caller' = caller
        /\ runtime => open' = {} /\ listener' = 0
        /\ ~runtime => open' = open \cap {"lib"} /\ listener' = listener
    BY Zenon, <1>6 DEF kvmi_teardown, Uninit
  <2> QED
    BY Zenon, <2>1 DEF OwnerInv, NothingLeaks
<1>7. CASE UNCHANGED <<pc, caller, open, runtime, listener>>
  BY Zenon, <1>7 DEF OwnerInv, NothingLeaks
<1>8. WaitStep \/ QemuConnects \/ kvmi_handshake_cb \/ kvmi_accept_cb
        \/ (\E d \in Doms : QemuCloses(d)) \/ UNCHANGED vars
        => UNCHANGED <<pc, caller, open, runtime, listener>>
  BY
  DEF WaitStep, QemuConnects, kvmi_handshake_cb, kvmi_accept_cb, QemuCloses, vars,
      session
<1> QED
  BY Zenon, <1>1, <1>2, <1>3, <1>4, <1>5, <1>6, <1>7, <1>8 DEF Next, Daemon

\* SessionInv holds of every behaviour.
LEMMA SessionAlways == Spec => []SessionInv
<1>1. Init => SessionInv
  BY SessionAssumption
  DEF Init, SessionInv, ListenerInv, OwnerInv, NothingLeaks
<1>2. SessionInv /\ [Next]_vars => SessionInv'
  BY Zenon, ListenerStep, OwnerStep DEF SessionInv
<1> QED
  BY <1>1, <1>2, PTL DEF Spec

\* kvmi_runtime_connect takes over only a domain that came through the listener it
\* has just opened, whenever QEMU connects and whenever libkvmi's callbacks run.
THEOREM FreshDomainAlways == Spec => []FreshDomain
<1>1. SessionInv => FreshDomain
  BY Zenon DEF SessionInv, ListenerInv, Through, FreshDomain
<1> QED
  BY <1>1, SessionAlways, PTL

\* attach_libkvmi, kvmi_session_heartbeat and kvmi_teardown between them close
\* the listener, the library and every descriptor, whatever connects fail.
THEOREM NothingLeaksAlways == Spec => []NothingLeaks
<1>1. SessionInv => NothingLeaks
  BY Zenon DEF SessionInv, OwnerInv
<1> QED
  BY <1>1, SessionAlways, PTL

\* What the counters of the session are bounded by.
LEMMA SessionBounds ==
  /\ \A e, m \in Nat : e <= m /\ m <= MaxDoms => e + 1 <= m + 1 /\ e + 1 \in 0 .. MaxDoms + 1
  /\ \A e, m \in Nat : e <= m + 1 /\ m < MaxDoms =>
       /\ m + 1 \in Doms /\ m + 1 \in 0 .. MaxDoms /\ e <= (m + 1) + 1
       /\ e <= m + 1 /\ 1 .. m \subseteq 1 .. m + 1 /\ m + 1 \in 1 .. m + 1
       /\ \A d \in 1 .. m + 1 : d # m + 1 => d \in 1 .. m
  /\ \A n \in 0 .. MaxMisses : n < MaxMisses => n + 1 \in 0 .. MaxMisses
  /\ \A w \in 0 .. WaitSteps : w < WaitSteps => w + 1 \in 0 .. WaitSteps
  /\ \A m \in 0 .. MaxDoms : m \in Nat /\ m <= MaxDoms /\ 1 .. m \subseteq Doms
  /\ \A e \in 0 .. MaxDoms + 1 : e \in Nat
  /\ 0 < MaxMisses /\ 0 \in 0 .. MaxMisses /\ 0 \in 0 .. WaitSteps
  /\ \A n \in 0 .. MaxMisses : ~(n + 1 >= MaxMisses) => n + 1 < MaxMisses
BY SessionAssumption DEF Doms

\* Setting up, and the wait loop.
LEMMA SetupTypes ==
  ASSUME TypeOK, CountInv, kvmi_setup \/ enumerate_memslots \/ WaitStep
  PROVE  TypeOK' /\ CountInv'
<1>1. /\ UNCHANGED <<runtime, listener, epoch, dom, pendingDom, shaken, missed, conn>>
      /\ UNCHANGED <<greeted, made, alive, born>>
  BY Zenon DEF kvmi_setup, enumerate_memslots, WaitStep, pending, library, session
<1>2. /\ pc' \in {"start", "listen", "wait", "memslots", "loop", "exited"}
      /\ caller' \in {"attach", "reconnect"}
      /\ pc' = "start" => pc = "start"
      /\ pc' = "listen" => pc = "start"
      /\ pc # "listen"
  BY Zenon DEF kvmi_setup, enumerate_memslots, WaitStep, TypeOK
<1>3. open' \subseteq Resources
  BY Zenon DEF kvmi_setup, enumerate_memslots, WaitStep, session, TypeOK, Resources
<1>4. waits' \in 0 .. WaitSteps
  BY Zenon, SessionBounds DEF kvmi_setup, enumerate_memslots, WaitStep, TypeOK
<1>5. TypeOK'
  BY Zenon, <1>1, <1>2, <1>3, <1>4 DEF TypeOK
<1>6. CountInv'
  BY Zenon, <1>1, <1>2 DEF CountInv
<1> QED
  BY Zenon, <1>5, <1>6

\* A new listener, which only a lost domain or the first attach leads to.
LEMMA ListenTypes ==
  ASSUME TypeOK, CountInv, Listen \/ GiveUp
  PROVE  TypeOK' /\ CountInv'
<1>1. /\ UNCHANGED <<caller, runtime, missed, made, alive, born>>
      /\ conn' = 0 /\ greeted' = FALSE
  BY Zenon DEF Listen, GiveUp, Uninit
<1>2. /\ pc' \in {"wait", "memslots", "loop"}
      /\ open' \subseteq Resources
  BY Zenon DEF Listen, GiveUp, ConnectFailed, TypeOK
<1>3. /\ dom' \in Doms \cup {0} /\ pendingDom' \in Doms \cup {0} /\ shaken' \in BOOLEAN
      /\ waits' \in 0 .. WaitSteps
      /\ dom' # 0 => dom' = dom /\ pc # "listen"
  BY Zenon, SessionBounds DEF Listen, GiveUp, ClearPending, pending, TypeOK
<1>4. /\ made \in Nat /\ made <= MaxDoms /\ epoch \in Nat
  BY Zenon, SessionBounds DEF TypeOK
<1>5. /\ epoch' \in 0 .. MaxDoms + 1 /\ listener' \in {0, epoch'} /\ epoch' <= made + 1
  <2>1. CASE /\ pc = "listen" /\ epoch' = epoch + 1 /\ listener' = epoch + 1
    <3>1. epoch <= made
      BY Zenon, <2>1 DEF CountInv
    <3> QED
      BY Zenon, <2>1, <3>1, <1>4, SessionBounds
  <2>2. CASE epoch' = epoch /\ listener' = 0
    BY Zenon, <2>2 DEF TypeOK, CountInv
  <2> QED
    BY Zenon, <2>1, <2>2 DEF Listen, GiveUp, Uninit
<1>6. TypeOK'
  BY Zenon, <1>1, <1>2, <1>3, <1>5 DEF TypeOK
<1>7. CountInv'
  <2>1. pc' \notin {"start", "listen"}
    BY Zenon, <1>2
  <2> QED
    BY Zenon, <1>1, <1>3, <1>5, <2>1 DEF CountInv
<1> QED
  BY Zenon, <1>6, <1>7

\* A domain is taken over, or the session ends.
LEMMA AdoptTypes ==
  ASSUME TypeOK, CountInv, Adopt \/ kvmi_teardown
  PROVE  TypeOK' /\ CountInv'
<1>1. UNCHANGED <<caller, epoch, waits, pendingDom, shaken, made, alive, born>>
  BY Zenon DEF Adopt, kvmi_teardown, pending, library
<1>2. pc' \in {"memslots", "loop", "exited"} /\ runtime' \in BOOLEAN /\ open' \subseteq Resources
  BY Zenon DEF Adopt, kvmi_teardown, TypeOK
<1>3. /\ dom' \in Doms \cup {0}
      /\ missed' \in 0 .. MaxMisses /\ (dom' # 0 => missed' < MaxMisses)
  BY Zenon, SessionBounds DEF Adopt, kvmi_teardown, TypeOK
<1>4. listener' \in {0, epoch} /\ conn' \in Doms \cup {0} /\ greeted' \in BOOLEAN
  BY Zenon DEF Adopt, kvmi_teardown, Uninit, library, TypeOK
<1>5. TypeOK'
  BY Zenon, <1>1, <1>2, <1>3, <1>4 DEF TypeOK
<1>6. CountInv'
  <2>1. pc' \notin {"start", "listen"}
    BY Zenon, <1>2
  <2> QED
    BY Zenon, <1>1, <1>3, <2>1 DEF CountInv
<1> QED
  BY Zenon, <1>5, <1>6

\* The heartbeat gives up a domain that came through the last listener, so that
\* there have been as many connections as listeners.
LEMMA HeartbeatTypes ==
  ASSUME TypeOK, CountInv, ListenerInv, kvmi_session_heartbeat
  PROVE  TypeOK' /\ CountInv'
<1>1. /\ pc = "loop" /\ dom # 0
      /\ UNCHANGED <<open, runtime, listener, epoch, waits, dom, pendingDom, shaken>>
      /\ UNCHANGED <<conn, greeted, made, alive, born>>
  BY Zenon DEF kvmi_session_heartbeat, session, pending, library
<1>2. missed \in 0 .. MaxMisses /\ missed < MaxMisses
  BY Zenon, <1>1 DEF TypeOK, CountInv
<1>3. /\ pc' \in {"loop", "listen"} /\ caller' \in {"attach", "reconnect"}
      /\ missed' \in 0 .. MaxMisses
      /\ pc' # "listen" => missed' < MaxMisses
  BY Zenon, <1>1, <1>2, SessionBounds DEF kvmi_session_heartbeat, Lost, Missed, TypeOK
<1>4. TypeOK'
  BY Zenon, <1>1, <1>3 DEF TypeOK
<1>5. epoch <= made
  <2>1. dom \in 1 .. made /\ born[dom] = epoch
    BY Zenon, <1>1 DEF ListenerInv, Through
  <2>2. epoch <= dom
    BY Zenon, <2>1 DEF CountInv
  <2>3. made \in Nat /\ epoch \in Nat
    BY Zenon, SessionBounds DEF TypeOK
  <2> QED
    BY <2>1, <2>2, <2>3
<1>6. CountInv'
  BY Zenon, <1>1, <1>3, <1>5 DEF CountInv
<1> QED
  BY Zenon, <1>4, <1>6

\* QEMU's connection is the next one, through the last listener.
LEMMA ConnectTypes ==
  ASSUME TypeOK, CountInv, QemuConnects
  PROVE  TypeOK' /\ CountInv'
<1>1. /\ listener # 0 /\ made < MaxDoms /\ made' = made + 1 /\ conn' = made + 1
      /\ greeted' = FALSE /\ alive' = alive \cup {made + 1}
      /\ born' = [born EXCEPT ![made + 1] = listener]
      /\ UNCHANGED <<pc, caller, open, runtime, listener, epoch, waits, dom, pendingDom,
                     shaken, missed>>
  BY Zenon DEF QemuConnects, session, pending
<1>2. made \in Nat /\ epoch \in Nat /\ epoch <= made + 1 /\ listener = epoch
  BY Zenon, <1>1, SessionBounds DEF TypeOK, CountInv
<1>3. /\ made + 1 \in Doms /\ made + 1 \in 0 .. MaxDoms /\ epoch <= (made + 1) + 1
      /\ 1 .. made \subseteq 1 .. made + 1 /\ made + 1 \in 1 .. made + 1
      /\ \A d \in 1 .. made + 1 : d # made + 1 => d \in 1 .. made
  BY Zenon, <1>1, <1>2, SessionBounds
<1>4. /\ born \in [Doms -> 0 .. MaxDoms + 1] /\ alive \subseteq 1 .. made
      /\ epoch \in 0 .. MaxDoms + 1 /\ 1 .. made \subseteq Doms
  BY Zenon, SessionBounds DEF TypeOK
<1>5. /\ born' \in [Doms -> 0 .. MaxDoms + 1] /\ born'[made + 1] = epoch
      /\ \A d \in 1 .. made : d # made + 1 => born'[d] = born[d]
  BY Zenon, <1>1, <1>2, <1>3, <1>4
<1>6. alive' \subseteq 1 .. made'
  BY Zenon, <1>1, <1>3, <1>4
<1>7. TypeOK'
  BY Zenon, <1>1, <1>3, <1>5, <1>6 DEF TypeOK
<1>8. \A d \in 1 .. made' : born'[d] <= d
  <2>1. \A d \in 1 .. made : born[d] <= d
    BY Zenon DEF CountInv
  <2>2. ASSUME NEW d \in 1 .. made + 1 PROVE born'[d] <= d
    <3>1. CASE d = made + 1
      BY Zenon, <3>1, <1>2, <1>5
    <3>2. CASE d # made + 1
      BY Zenon, <3>2, <1>3, <1>5, <2>1
    <3> QED
      BY Zenon, <3>1, <3>2
  <2> QED
    BY Zenon, <2>2, <1>1
<1>9. CountInv'
  BY Zenon, <1>1, <1>2, <1>3, <1>8 DEF CountInv
<1> QED
  BY Zenon, <1>7, <1>9

\* The callbacks and QEMU's closes.
LEMMA CallbackTypes ==
  ASSUME TypeOK, CountInv,
         kvmi_handshake_cb \/ kvmi_accept_cb \/ \E d \in Doms : QemuCloses(d)
  PROVE  TypeOK' /\ CountInv'
<1>1. /\ UNCHANGED <<pc, caller, open, runtime, listener, epoch, waits, dom, missed>>
      /\ UNCHANGED <<made, born>>
  BY Zenon DEF kvmi_handshake_cb, kvmi_accept_cb, QemuCloses, session
<1>2. /\ conn' \in Doms \cup {0} /\ pendingDom' \in Doms \cup {0}
      /\ greeted' \in BOOLEAN /\ shaken' \in BOOLEAN /\ alive' \subseteq 1 .. made
  BY Zenon DEF kvmi_handshake_cb, kvmi_accept_cb, QemuCloses, pending, TypeOK
<1>3. TypeOK'
  BY Zenon, <1>1, <1>2 DEF TypeOK
<1>4. CountInv'
  BY Zenon, <1>1 DEF CountInv
<1> QED
  BY Zenon, <1>3, <1>4

\* The state of the session keeps its types; in particular kvmi_session_heartbeat
\* never counts past KVMI_HEARTBEAT_MAX_MISSES, and kvmi_runtime_connect opens at
\* most one listener more than QEMU makes connections.
THEOREM SessionTypeCorrect == Spec => []TypeOK
<1>1. Init => TypeOK /\ CountInv
  <2> SUFFICES ASSUME Init PROVE TypeOK /\ CountInv
    BY Zenon
  <2>1. /\ 0 \in 0 .. MaxDoms /\ 0 \in 0 .. MaxDoms + 1 /\ 0 \in 0 .. WaitSteps
        /\ 0 \in 0 .. MaxMisses /\ 0 < MaxMisses /\ 0 <= 0 + 1 /\ 0 <= 0 /\ 1 .. 0 = {}
    BY SessionAssumption
  <2>2. TypeOK
    BY Zenon, <2>1 DEF Init, TypeOK
  <2>3. CountInv
    BY Zenon, <2>1 DEF Init, CountInv
  <2> QED
    BY Zenon, <2>2, <2>3
<1>2. TypeOK /\ CountInv /\ SessionInv /\ [Next]_vars => TypeOK' /\ CountInv'
  <2> SUFFICES ASSUME TypeOK, CountInv, SessionInv, [Next]_vars PROVE TypeOK' /\ CountInv'
    BY Zenon
  <2>1. CASE UNCHANGED vars
    <3>1. /\ UNCHANGED <<pc, caller, open, runtime, listener, epoch, waits, dom>>
          /\ UNCHANGED <<pendingDom, shaken, missed, conn, greeted, made, alive, born>>
      BY Zenon, <2>1 DEF vars
    <3>2. TypeOK'
      BY <3>1 DEF TypeOK
    <3>3. CountInv'
      BY Zenon, <3>1 DEF CountInv
    <3> QED
      BY Zenon, <3>2, <3>3
  <2>2. ListenerInv
    BY Zenon DEF SessionInv
  <2> QED
    BY Zenon, <2>1, <2>2, SetupTypes, ListenTypes, AdoptTypes, HeartbeatTypes, ConnectTypes,
       CallbackTypes
    DEF Next, Daemon
<1> QED
  BY <1>1, <1>2, SessionAlways, PTL DEF Spec

-----------------------------------------------------------------------------
(* Arithmetic.                                                             *)

\* Remainders and quotients of natural numbers are natural numbers.
LEMMA DivNat ==
  ASSUME NEW a \in Nat, NEW b \in Nat \ {0}
  PROVE  a % b \in Nat /\ a \div b \in Nat /\ a % b < b
OBVIOUS

\* Products of positive numbers are positive.
LEMMA TimesPos ==
  ASSUME NEW a \in Nat \ {0}, NEW b \in Nat \ {0}
  PROVE  a * b \in Nat \ {0}
OBVIOUS

\* Progress by n bytes pays for the retries before it.
LEMMA Progress ==
  ASSUME NEW d \in Nat, NEW n \in Nat \ {0}, NEW r \in Nat, NEW c \in Nat,
         NEW R \in Nat, r <= R, c <= d * (R + 1) + r
  PROVE  c + 1 <= (d + n) * (R + 1)
OBVIOUS

\* An access that is not complete is within the price of the bytes asked for.
LEMMA Unfinished ==
  ASSUME NEW d \in Nat, NEW w \in Nat, NEW r \in Nat, NEW c \in Nat,
         NEW R \in Nat, d <= w, r <= R, d = w => r = 0, c <= d * (R + 1) + r
  PROVE  c <= w * (R + 1)
OBVIOUS

\* Twice the price of the bytes asked for.
LEMMA Twice ==
  ASSUME NEW w \in Nat, NEW R \in Nat
  PROVE  /\ w * (R + 1) \in Nat
         /\ 2 * w * (R + 1) = w * (R + 1) + w * (R + 1)
OBVIOUS

\* The bound on the calls of an access follows from what each route costs.
LEMMA WithinBound ==
  ASSUME NEW w \in Nat, NEW d \in Nat, NEW r \in Nat, NEW c \in Nat, NEW R \in Nat,
         d <= w, r <= R, d = w => r = 0,
         \/ c <= d * (R + 1) + r
         \/ c <= w * (R + 1) + (d * (R + 1) + r)
  PROVE  c <= 2 * w * (R + 1)
<1> DEFINE W == w * (R + 1)
           D == d * (R + 1) + r
<1>1. W \in Nat /\ 2 * w * (R + 1) = W + W
  BY Zenon, Twice
<1>2. D \in Nat /\ D <= W
  BY Unfinished
<1>3. c <= D \/ c <= W + D
  BY Zenon
<1>4. c <= W + W
  <2> HIDE DEF W, D
  <2> QED
    BY <1>1, <1>2, <1>3
<1> QED
  BY Zenon, <1>1, <1>4

-----------------------------------------------------------------------------
(* Addresses.                                                              *)

\* The spans of the four levels are positive.
LEMMA SpanPos == \A l \in 1 .. 4 : Span[l] \in Nat \ {0}
<1>1. PageCells \in Nat \ {0}
  BY Zenon, MemoryAssumption
<1> DEFINE P2 == PageCells * PageCells
           P3 == PageCells * PageCells * PageCells
           P4 == PageCells * PageCells * PageCells * PageCells
<1>2. P2 \in Nat \ {0}
  BY Zenon, <1>1, TimesPos
<1>3. P3 \in Nat \ {0}
  BY Zenon, <1>1, <1>2, TimesPos
<1>4. P4 \in Nat \ {0}
  BY Zenon, <1>1, <1>3, TimesPos
<1>5. Span = <<PageCells, P2, P3, P4>>
  BY Zenon DEF Span
<1> HIDE DEF P2, P3, P4
<1>6. /\ Span[1] = PageCells /\ Span[2] = P2 /\ Span[3] = P3 /\ Span[4] = P4
  BY Zenon, <1>5
<1>7. \A l \in 1 .. 4 : l = 1 \/ l = 2 \/ l = 3 \/ l = 4
  OBVIOUS
<1> QED
  BY Zenon, <1>1, <1>2, <1>3, <1>4, <1>6, <1>7

\* Table indices and leaf addresses are addresses.
LEMMA IndexNat ==
  ASSUME NEW l \in 1 .. 4, NEW va \in Nat
  PROVE  Index(l, va) \in Nat
<1>1. va \div Span[l] \in Nat
  BY Zenon, SpanPos, DivNat
<1> QED
  BY Zenon, <1>1, DivNat, MemoryAssumption DEF Index

LEMMA LeafNat ==
  ASSUME NEW l \in 1 .. 4, NEW va \in Nat, NEW e, e.addr \in Nat
  PROVE  LeafGpa(l, e, va) \in Nat
<1>1. Span[l] \in Nat \ {0}
  BY Zenon, SpanPos
<1>2. e.addr \div Span[l] \in Nat /\ va % Span[l] \in Nat
  BY Zenon, <1>1, DivNat
<1>3. Span[l] * (e.addr \div Span[l]) \in Nat
  BY <1>1, <1>2
<1> QED
  BY <1>2, <1>3 DEF LeafGpa

\* A chunk of a page is not empty and stays within what is left of the read.
LEMMA PageChunkRange ==
  ASSUME gva \in Nat, size \in Nat, bytes_read \in Nat, bytes_read < size
  PROVE  PageChunk \in Nat /\ bytes_read + PageChunk <= size
<1>1. gva % PageCells \in Nat /\ gva % PageCells < PageCells /\ PageCells \in Nat
  BY Zenon, DivNat, MemoryAssumption
<1> QED
  BY <1>1 DEF PageChunk, MinOf

\* The slot an address is found in is one of memslots.
LEMMA SlotTypes ==
  ASSUME NEW a, NEW i \in find_memslot(a)
  PROVE  i \in DOMAIN memslots /\ memslots[i].gpa \in Nat /\ memslots[i].size \in Nat
<1>1. i \in DOMAIN memslots
  BY Zenon DEF find_memslot
<1> DEFINE S == [gpa : Nat, size : Nat \ {0}]
<1>2. memslots \in Seq(S)
  BY Zenon, MemoryAssumption
<1>3. memslots[i] \in S
  <2> HIDE DEF S
  <2> QED
    BY <1>1, <1>2
<1> QED
  BY Zenon, <1>1, <1>3

\* Where the byte at an address lies, given its slot.
LEMMA LocatedIn ==
  ASSUME NEW a, NEW i \in find_memslot(a)
  PROVE  Host(i, a - memslots[i].gpa) \in Located(a)
BY Zenon DEF Located

\* What one call may move is at most the rest of the access.
LEMMA SlotChunkRange ==
  ASSUME AccessInv, NEW i \in find_memslot(gpa + done), NEW n \in 1 .. SlotChunk(i)
  PROVE  n \in Nat \ {0} /\ done + n <= want
<1>1. memslots[i].gpa \in Nat /\ memslots[i].size \in Nat
  BY Zenon, SlotTypes
<1>2. gpa \in Nat /\ want \in Nat /\ done \in Nat /\ done <= want
  BY DEF AccessInv
<1> DEFINE A == want - done
           B == memslots[i].gpa + memslots[i].size - (gpa + done)
<1>3. A \in Int /\ B \in Int
  BY <1>1, <1>2
<1>4. n \in 1 .. MinOf(A, B)
  BY Zenon DEF SlotChunk
<1>5. n \in Nat \ {0} /\ n <= A
  <2> HIDE DEF A, B
  <2> QED
    BY <1>3, <1>4 DEF MinOf
<1> QED
  BY <1>2, <1>5

\* The bytes one call moves all lie in its slot.
LEMMA SlotReach ==
  ASSUME gpa \in Nat, done \in Nat, want \in Nat, done < want,
         NEW i \in find_memslot(gpa + done), NEW n \in 1 .. SlotChunk(i),
         NEW k \in Nat, k > done, k <= done + n
  PROVE  i \in find_memslot(gpa + k - 1)
<1>1. memslots[i].gpa \in Nat /\ memslots[i].size \in Nat /\ i \in DOMAIN memslots
  BY Zenon, SlotTypes
<1> DEFINE A == want - done
           B == memslots[i].gpa + memslots[i].size - (gpa + done)
<1>2. A \in Int /\ B \in Int
  BY <1>1
<1>3. n \in 1 .. MinOf(A, B)
  BY Zenon DEF SlotChunk
<1>4. n \in Nat /\ n <= B
  <2> HIDE DEF A, B
  <2> QED
    BY <1>2, <1>3 DEF MinOf
<1>5. memslots[i].gpa <= gpa + done
  BY Zenon DEF find_memslot
<1>6. /\ memslots[i].gpa <= gpa + k - 1
      /\ gpa + k - 1 < memslots[i].gpa + memslots[i].size
  BY <1>1, <1>4, <1>5
<1> QED
  BY Zenon, <1>1, <1>6 DEF find_memslot

-----------------------------------------------------------------------------
(* The invariant.                                                          *)

\* A new access satisfies the part of the invariant that is about it.
LEMMA StartKeeps ==
  ASSUME NEW a \in Nat, NEW n \in Nat, StartAccess(a, n)
  PROVE  /\ AccessInv' /\ SlotsInv' /\ DevmemInv' /\ CallsBounded'
         /\ want' = n /\ at' = "slots"
<1>1. /\ at' = "slots" /\ gpa' = a /\ want' = n /\ done' = 0 /\ retries' = 0
      /\ calls' = 0 /\ DOMAIN out' = 1 .. n
  BY Zenon DEF StartAccess
<1>2. RetryMax \in Nat
  BY Zenon, MemoryAssumption
<1>3. AccessInv'
  BY <1>1, <1>2 DEF AccessInv
<1>4. SlotsInv' /\ DevmemInv'
  BY <1>1, <1>2 DEF SlotsInv, DevmemInv
<1>5. CallsBounded'
  <2>1. n * (RetryMax + 1) \in Nat /\ 2 * n * (RetryMax + 1) = n * (RetryMax + 1) + n * (RetryMax + 1)
    BY Zenon, <1>2, Twice
  <2>2. 0 <= 2 * n * (RetryMax + 1)
    BY <2>1
  <2> QED
    BY Zenon, <1>1, <2>2 DEF CallsBounded
<1> QED
  BY Zenon, <1>1, <1>3, <1>4, <1>5

\* One system call on the slots.
LEMMA SlotCallKeeps ==
  ASSUME MemoryInv, SlotCall
  PROVE  MemoryInv'
<1>1. AccessInv /\ SlotsInv /\ at = "slots" /\ at' = "slots" /\ calls' = calls + 1
  BY Zenon DEF MemoryInv, SlotCall
<1>2. /\ RetryMax \in Nat /\ want \in Nat /\ done \in Nat /\ retries \in Nat
      /\ calls \in Nat /\ gpa \in Nat /\ done < want /\ retries <= RetryMax
      /\ calls <= done * (RetryMax + 1) + retries
  BY <1>1, MemoryAssumption DEF AccessInv, SlotsInv, SlotCall
<1>3. UNCHANGED <<cells, op, gva, size, bytes_read, level, gpa, want>>
  BY Zenon DEF SlotCall, Moved, Retry
<1>4. PICK i \in find_memslot(gpa + done) :
        \/ \E n \in 1 .. SlotChunk(i) :
             Moved(n, [k \in 1 .. want |-> Host(i, (gpa + k - 1) - memslots[i].gpa)])
        \/ Retry
  BY Zenon DEF SlotCall
<1>5. AccessInv' /\ SlotsInv'
  <2>1. CASE Retry
    <3>1. /\ retries' = retries + 1 /\ retries < RetryMax
          /\ UNCHANGED <<gpa, want, done, out>>
      BY Zenon, <2>1 DEF Retry
    <3>2. calls' <= done' * (RetryMax + 1) + retries'
      <4>1. done * (RetryMax + 1) \in Nat
        BY <1>2
      <4> QED
        BY <1>1, <1>2, <3>1, <4>1
    <3>3. retries' \in 0 .. RetryMax /\ calls' \in Nat /\ done' # want'
      BY <1>1, <1>2, <3>1
    <3>4. AccessInv'
      BY Zenon, <1>1, <3>1, <3>3 DEF AccessInv
    <3> QED
      BY Zenon, <1>1, <3>1, <3>2, <3>4 DEF SlotsInv, Located, find_memslot
  <2>2. ASSUME NEW n \in 1 .. SlotChunk(i),
               Moved(n, [k \in 1 .. want |-> Host(i, (gpa + k - 1) - memslots[i].gpa)])
        PROVE  AccessInv' /\ SlotsInv'
    <3>1. n \in Nat \ {0} /\ done + n <= want
      BY Zenon, <1>1, SlotChunkRange
    <3>2. /\ done' = done + n /\ retries' = 0 /\ gpa' = gpa /\ want' = want
          /\ out' = [k \in 1 .. want |->
                       IF k > done /\ k <= done + n
                       THEN Host(i, (gpa + k - 1) - memslots[i].gpa) ELSE out[k]]
      BY Zenon, <2>2 DEF Moved
    <3>3. AccessInv'
      <4>1. done' \in 0 .. want' /\ retries' \in 0 .. RetryMax /\ calls' \in Nat
        BY <1>1, <1>2, <3>1, <3>2
      <4> QED
        BY Zenon, <1>1, <3>2, <4>1 DEF AccessInv
    <3>4. \A k \in 1 .. done' : out'[k] \in Located(gpa' + k - 1)
      <4> SUFFICES ASSUME NEW k \in 1 .. done + n
                   PROVE  out'[k] \in Located(gpa + k - 1)
        BY Zenon, <3>2
      <4>1. k \in Nat /\ k \in 1 .. want
        BY <1>2, <3>1
      <4>2. CASE k <= done
        <5>1. out'[k] = out[k]
          BY <1>2, <3>2, <4>1, <4>2
        <5>2. k \in 1 .. done
          BY <1>2, <4>1, <4>2
        <5> QED
          BY Zenon, <1>1, <5>1, <5>2 DEF SlotsInv
      <4>3. CASE k > done
        <5>1. out'[k] = Host(i, (gpa + k - 1) - memslots[i].gpa)
          BY <1>2, <3>1, <3>2, <4>1, <4>3
        <5>2. i \in find_memslot(gpa + k - 1)
          BY <1>2, <2>2, <3>1, <4>1, <4>3, SlotReach
        <5> QED
          BY Zenon, <5>1, <5>2, LocatedIn
      <4> QED
        BY <1>2, <4>1, <4>2, <4>3
    <3>5. calls' <= done' * (RetryMax + 1) + retries'
      <4>1. calls + 1 <= (done + n) * (RetryMax + 1)
        BY Zenon, <1>2, <3>1, Progress
      <4>2. (done + n) * (RetryMax + 1) \in Nat
        BY <1>2, <3>1
      <4> QED
        BY <1>1, <3>2, <4>1, <4>2
    <3> QED
      BY Zenon, <3>3, <3>4, <3>5 DEF SlotsInv
  <2> QED
    BY Zenon, <1>4, <2>1, <2>2
<1>6. DevmemInv'
  BY Zenon, <1>1 DEF DevmemInv
<1>7. CallsBounded'
  <2>1. /\ want' \in Nat /\ done' \in Nat /\ retries' \in Nat /\ calls' \in Nat
        /\ done' <= want' /\ retries' <= RetryMax /\ (done' = want' => retries' = 0)
    BY <1>2, <1>5 DEF AccessInv
  <2>2. calls' <= done' * (RetryMax + 1) + retries'
    BY Zenon, <1>1, <1>5 DEF SlotsInv
  <2> QED
    BY Zenon, <1>2, <2>1, <2>2, WithinBound DEF CallsBounded
<1>8. CellsInv' /\ VirtualInv' /\ (at' = "idle" => bytes_read' = 0)
  BY Zenon, <1>1, <1>3 DEF MemoryInv, CellsInv, VirtualInv
<1> QED
  BY Zenon, <1>5, <1>6, <1>7, <1>8 DEF MemoryInv

\* One read of /dev/mem.
LEMMA DevCallKeeps ==
  ASSUME MemoryInv, DevCall
  PROVE  MemoryInv'
<1>1. AccessInv /\ DevmemInv /\ at = "devmem" /\ at' = "devmem" /\ calls' = calls + 1
  BY Zenon DEF MemoryInv, DevCall
<1> DEFINE W == want * (RetryMax + 1)
<1>2. /\ RetryMax \in Nat /\ want \in Nat /\ done \in Nat /\ retries \in Nat
      /\ calls \in Nat /\ gpa \in Nat /\ done < want /\ retries <= RetryMax
      /\ calls <= W + (done * (RetryMax + 1) + retries)
  BY <1>1, MemoryAssumption DEF AccessInv, DevmemInv, DevCall
<1>3. UNCHANGED <<cells, op, gva, size, bytes_read, level, gpa, want>>
  BY Zenon DEF DevCall, Moved, Retry
<1>4. W \in Nat
  BY <1>2
<1>5. AccessInv' /\ DevmemInv'
  <2>1. CASE Retry
    <3>1. /\ retries' = retries + 1 /\ retries < RetryMax
          /\ UNCHANGED <<gpa, want, done, out>>
      BY Zenon, <2>1 DEF Retry
    <3>2. calls' <= want' * (RetryMax + 1) + (done' * (RetryMax + 1) + retries')
      <4>1. done * (RetryMax + 1) \in Nat
        BY <1>2
      <4> QED
        BY <1>1, <1>2, <1>4, <3>1, <4>1
    <3>3. AccessInv'
      BY <1>1, <1>2, <3>1 DEF AccessInv
    <3> QED
      BY Zenon, <1>1, <1>3, <3>1, <3>2, <3>3 DEF DevmemInv
  <2>2. ASSUME NEW n \in 1 .. want - done,
               Moved(n, [k \in 1 .. want |-> Device(gpa + k - 1)])
        PROVE  AccessInv' /\ DevmemInv'
    <3>1. n \in Nat \ {0} /\ done + n <= want
      BY <1>2
    <3>2. /\ done' = done + n /\ retries' = 0 /\ gpa' = gpa /\ want' = want
          /\ out' = [k \in 1 .. want |->
                       IF k > done /\ k <= done + n
                       THEN Device(gpa + k - 1) ELSE out[k]]
      BY Zenon, <2>2 DEF Moved
    <3>3. AccessInv'
      BY <1>1, <1>2, <3>1, <3>2 DEF AccessInv
    <3>4. \A k \in 1 .. done' : out'[k] = Device(gpa' + k - 1)
      <4> SUFFICES ASSUME NEW k \in 1 .. done + n
                   PROVE  out'[k] = Device(gpa + k - 1)
        BY Zenon, <3>2
      <4>1. k \in 1 .. want /\ (k <= done => k \in 1 .. done)
        BY <1>2, <3>1
      <4>2. k <= done => out[k] = Device(gpa + k - 1)
        BY Zenon, <1>1, <4>1 DEF DevmemInv
      <4> QED
        BY <1>2, <3>1, <3>2, <4>1, <4>2
    <3>5. calls' <= want' * (RetryMax + 1) + (done' * (RetryMax + 1) + retries')
      <4> DEFINE D == done * (RetryMax + 1) + retries
                 E == (done + n) * (RetryMax + 1)
      <4>1. D \in Nat /\ E \in Nat
        BY <1>2, <3>1
      <4>2. D + 1 <= E
        BY <1>2, <3>1, <4>1, Progress
      <4>3. calls <= W + D
        BY Zenon, <1>2
      <4>4. calls + 1 <= W + E
        <5> HIDE DEF W, D, E
        <5> QED
          BY <1>2, <1>4, <4>1, <4>2, <4>3
      <4> QED
        BY <1>1, <1>4, <3>2, <4>1, <4>4
    <3> QED
      BY Zenon, <1>1, <1>3, <3>3, <3>4, <3>5 DEF DevmemInv
  <2> QED
    BY Zenon, <2>1, <2>2 DEF DevCall
<1>6. SlotsInv'
  BY Zenon, <1>1 DEF SlotsInv
<1>7. CallsBounded'
  <2>1. /\ want' \in Nat /\ done' \in Nat /\ retries' \in Nat /\ calls' \in Nat
        /\ done' <= want' /\ retries' <= RetryMax /\ (done' = want' => retries' = 0)
    BY <1>2, <1>5 DEF AccessInv
  <2>2. calls' <= want' * (RetryMax + 1) + (done' * (RetryMax + 1) + retries')
    BY Zenon, <1>1, <1>5 DEF DevmemInv
  <2> QED
    BY Zenon, <1>2, <2>1, <2>2, WithinBound DEF CallsBounded
<1>8. CellsInv' /\ VirtualInv' /\ (at' = "idle" => bytes_read' = 0)
  BY Zenon, <1>1, <1>3 DEF MemoryInv, CellsInv, VirtualInv
<1> QED
  BY Zenon, <1>5, <1>6, <1>7, <1>8 DEF MemoryInv

\* The end of a call leaves the access as it is.
LEMMA FinishKeeps ==
  ASSUME MemoryInv, NEW rc \in {"ok", "failed"}, Finish(rc), cells' = cells
  PROVE  MemoryInv'
<1>1. at' = rc /\ UNCHANGED <<cells, gpa, want, done, retries, out, calls>>
  BY Zenon DEF Finish, access
<1>2. AccessInv' /\ CellsInv' /\ CallsBounded'
  BY Zenon, <1>1 DEF MemoryInv, AccessInv, CellsInv, CallsBounded
<1>3. SlotsInv' /\ DevmemInv' /\ VirtualInv' /\ at' # "idle"
  BY Zenon, <1>1 DEF SlotsInv, DevmemInv, VirtualInv
<1> QED
  BY Zenon, <1>2, <1>3 DEF MemoryInv

\* The slots fail: what they cost stays within the first half of the bound.
LEMMA SlotsFailKeeps ==
  ASSUME MemoryInv, SlotsFail
  PROVE  MemoryInv'
<1>1. CASE op = "write"
  <2>1. Finish("failed") /\ cells' = cells
    BY Zenon, <1>1 DEF SlotsFail
  <2> QED
    BY Zenon, <2>1, FinishKeeps
<1>2. CASE op # "write"
  <2>1. /\ at = "slots" /\ at' = "devmem" /\ done' = 0 /\ retries' = 0 /\ done < want
        /\ UNCHANGED <<gpa, want, out, calls, cells, op, gva, size, bytes_read, level>>
    BY Zenon, <1>2 DEF SlotsFail, ReadDevmem
  <2>2. /\ RetryMax \in Nat /\ want \in Nat /\ done \in Nat /\ retries \in Nat
        /\ calls \in Nat /\ done <= want /\ retries <= RetryMax
        /\ calls <= done * (RetryMax + 1) + retries
    BY <2>1, MemoryAssumption DEF MemoryInv, AccessInv, SlotsInv
  <2>3. calls <= want * (RetryMax + 1)
    BY <2>1, <2>2, Unfinished
  <2>4. want * (RetryMax + 1) \in Nat /\ 0 * (RetryMax + 1) = 0
    BY <2>2
  <2>5. calls' <= want' * (RetryMax + 1) + (done' * (RetryMax + 1) + retries')
    BY <2>1, <2>2, <2>3, <2>4
  <2>6. AccessInv' /\ SlotsInv'
    BY <2>1, <2>2 DEF MemoryInv, AccessInv, SlotsInv
  <2>7. DevmemInv'
    BY <1>2, <2>1, <2>5 DEF DevmemInv
  <2>8. CellsInv' /\ VirtualInv' /\ CallsBounded' /\ (at' = "idle" => bytes_read' = 0)
    BY Zenon, <2>1 DEF MemoryInv, CellsInv, VirtualInv, CallsBounded
  <2> QED
    BY Zenon, <2>6, <2>7, <2>8 DEF MemoryInv
<1> QED
  BY Zenon, <1>1, <1>2

\* The entry the walk has read holds an address.
LEMMA EntryAddr ==
  ASSUME MemoryInv, AccessDone, op = "virtual", level > 0, NEW e \in EntriesRead
  PROVE  e.addr \in Nat
<1>1. CASE at = "devmem"
  BY Zenon, <1>1, MemoryAssumption DEF EntriesRead
<1>2. CASE at # "devmem"
  <2>1. at = "slots" /\ done = want /\ want = 1 /\ e = cells[gpa] /\ gpa \in Nat
    BY Zenon, <1>2 DEF AccessDone, EntriesRead, MemoryInv, VirtualInv, AccessInv
  <2>2. out[1] \in Located(gpa + 1 - 1)
    BY <2>1 DEF MemoryInv, SlotsInv
  <2>3. gpa + 1 - 1 = gpa
    BY <2>1
  <2>4. PICK i \in find_memslot(gpa) : TRUE
    BY Zenon, <2>2, <2>3 DEF Located
  <2>5. i \in DOMAIN memslots /\ memslots[i].gpa \in Nat /\ memslots[i].size \in Nat
    BY Zenon, <2>4, SlotTypes
  <2>6. gpa \in memslots[i].gpa .. memslots[i].gpa + memslots[i].size - 1
    BY <2>1, <2>4, <2>5 DEF find_memslot
  <2>7. gpa \in RamCells
    BY Zenon, <2>5, <2>6 DEF RamCells
  <2> QED
    BY Zenon, <2>1, <2>7 DEF MemoryInv, CellsInv
<1> QED
  BY Zenon, <1>1, <1>2

\* The walk goes down one level, reads the page it found, or fails.
LEMMA WalkStepKeeps ==
  ASSUME MemoryInv, WalkStep
  PROVE  MemoryInv'
<1>1. /\ AccessDone /\ op = "virtual" /\ level > 0 /\ cells' = cells
      /\ at \in {"slots", "devmem"}
  BY Zenon DEF WalkStep, AccessDone
<1>2. /\ gva \in Nat /\ size \in Nat /\ bytes_read \in Nat /\ bytes_read < size
      /\ level \in 1 .. 4
  BY <1>1 DEF MemoryInv, VirtualInv
<1>3. PICK e \in EntriesRead :
        \/ ~e.present /\ Finish("failed")
        \/ /\ e.present /\ ~IsLeaf(level, e)
           /\ level' = level - 1
           /\ StartAccess(e.addr + Index(level - 1, gva), 1)
           /\ UNCHANGED <<op, gva, size, bytes_read, buf>>
        \/ /\ e.present /\ IsLeaf(level, e)
           /\ level' = 0
           /\ StartAccess(LeafGpa(level, e, gva), PageChunk)
           /\ UNCHANGED <<op, gva, size, bytes_read, buf>>
  BY Zenon DEF WalkStep
<1>4. e.addr \in Nat
  BY Zenon, <1>1, EntryAddr
<1>5. CellsInv'
  BY Zenon, <1>1 DEF MemoryInv, CellsInv
<1>6. CASE Finish("failed")
  BY Zenon, <1>1, <1>6, FinishKeeps
<1>7. CASE /\ ~IsLeaf(level, e)
           /\ level' = level - 1
           /\ StartAccess(e.addr + Index(level - 1, gva), 1)
           /\ UNCHANGED <<op, gva, size, bytes_read, buf>>
  <2>1. level - 1 \in 1 .. 4
    BY <1>2, <1>7 DEF IsLeaf
  <2>2. e.addr + Index(level - 1, gva) \in Nat
    BY <1>2, <1>4, <2>1, IndexNat
  <2>3. /\ AccessInv' /\ SlotsInv' /\ DevmemInv' /\ CallsBounded'
        /\ want' = 1 /\ at' = "slots"
    BY Zenon, <1>7, <2>2, StartKeeps
  <2>4. VirtualInv'
    BY <1>2, <1>7, <2>1, <2>3 DEF VirtualInv
  <2> QED
    BY Zenon, <1>5, <2>3, <2>4 DEF MemoryInv
<1>8. CASE /\ level' = 0
           /\ StartAccess(LeafGpa(level, e, gva), PageChunk)
           /\ UNCHANGED <<op, gva, size, bytes_read, buf>>
  <2>1. LeafGpa(level, e, gva) \in Nat
    BY Zenon, <1>2, <1>4, LeafNat
  <2>2. PageChunk \in Nat /\ bytes_read + PageChunk <= size
    BY Zenon, <1>2, PageChunkRange
  <2>3. /\ AccessInv' /\ SlotsInv' /\ DevmemInv' /\ CallsBounded'
        /\ want' = PageChunk /\ at' = "slots"
    BY Zenon, <1>8, <2>1, <2>2, StartKeeps
  <2>4. VirtualInv'
    BY <1>2, <1>8, <2>2, <2>3 DEF VirtualInv
  <2> QED
    BY Zenon, <1>5, <2>3, <2>4 DEF MemoryInv
<1> QED
  BY Zenon, <1>3, <1>6, <1>7, <1>8

\* A page is complete.
LEMMA PageDoneKeeps ==
  ASSUME MemoryInv, PageDone
  PROVE  MemoryInv'
<1>1. /\ op = "virtual" /\ level = 0 /\ cells' = cells /\ op' = op /\ size' = size
      /\ at \in {"slots", "devmem"}
      /\ bytes_read' = bytes_read + want /\ gva' = gva + want
  BY Zenon DEF PageDone, AccessDone
<1>2. /\ gva \in Nat /\ size \in Nat /\ bytes_read \in Nat /\ want \in Nat
  BY Zenon, <1>1 DEF MemoryInv, VirtualInv, AccessInv
<1>3. CellsInv'
  BY Zenon, <1>1 DEF MemoryInv, CellsInv
<1>4. CASE /\ bytes_read + want < size
           /\ level' = 4 /\ StartAccess(Cr3 + Index(4, gva + want), 1)
  <2>0. gva + want \in Nat /\ Cr3 \in Nat
    BY <1>2, MemoryAssumption
  <2>1. Cr3 + Index(4, gva + want) \in Nat
    <3>1. Index(4, gva + want) \in Nat
      BY <2>0, IndexNat
    <3> QED
      BY <2>0, <3>1
  <2>2. /\ AccessInv' /\ SlotsInv' /\ DevmemInv' /\ CallsBounded'
        /\ want' = 1 /\ at' = "slots"
    BY Zenon, <1>4, <2>1, StartKeeps
  <2>3. VirtualInv'
    BY <1>1, <1>2, <1>4, <2>2 DEF VirtualInv
  <2> QED
    BY Zenon, <1>3, <2>2, <2>3 DEF MemoryInv
<1>5. CASE at' = "ok" /\ UNCHANGED <<level, access>>
  <2>1. AccessInv' /\ CallsBounded'
    BY Zenon, <1>5 DEF access, MemoryInv, AccessInv, CallsBounded
  <2>2. SlotsInv' /\ DevmemInv' /\ VirtualInv' /\ at' # "idle"
    BY Zenon, <1>5 DEF SlotsInv, DevmemInv, VirtualInv
  <2> QED
    BY Zenon, <1>3, <2>1, <2>2 DEF MemoryInv
<1> QED
  BY Zenon, <1>4, <1>5 DEF PageDone

\* Every step keeps the invariant.
LEMMA MemoryStep ==
  ASSUME MemoryInv, [MemoryNext]_memoryVars
  PROVE  MemoryInv'
<1>1. ASSUME NEW va \in Gvas, NEW n \in 1 .. MaxSize, vmi_read_virtual(va, n)
      PROVE  MemoryInv'
  <2>1. va \in Nat /\ n \in Nat /\ n > 0 /\ Cr3 \in Nat
    BY MemoryAssumption
  <2>2. Cr3 + Index(4, va) \in Nat
    BY <2>1, IndexNat
  <2>3. /\ AccessInv' /\ SlotsInv' /\ DevmemInv' /\ CallsBounded'
        /\ want' = 1 /\ at' = "slots"
    BY Zenon, <1>1, <2>2, StartKeeps DEF vmi_read_virtual
  <2>4. CellsInv' /\ VirtualInv'
    BY <1>1, <2>1, <2>3 DEF vmi_read_virtual, MemoryInv, CellsInv, VirtualInv
  <2> QED
    BY Zenon, <2>3, <2>4 DEF MemoryInv
<1>2. ASSUME NEW kind \in {"read", "write"}, NEW a \in Gpas, NEW n \in 1 .. MaxSize,
             vmi_physical(kind, a, n)
      PROVE  MemoryInv'
  <2>1. a \in Nat /\ n \in Nat
    BY MemoryAssumption
  <2>2. AccessInv' /\ SlotsInv' /\ DevmemInv' /\ CallsBounded' /\ at' = "slots"
    BY Zenon, <1>2, <2>1, StartKeeps DEF vmi_physical
  <2>3. CellsInv' /\ VirtualInv'
    BY Zenon, <1>2 DEF vmi_physical, MemoryInv, CellsInv, VirtualInv
  <2> QED
    BY Zenon, <2>2, <2>3 DEF MemoryInv
<1>3. CASE DevFails
  BY Zenon, <1>3, FinishKeeps DEF DevFails
<1>4. CASE PhysicalDone
  BY Zenon, <1>4, FinishKeeps DEF PhysicalDone
<1>5. CASE Remap
  <2>1. UNCHANGED <<op, gva, size, bytes_read, level, at, gpa, want, done, retries,
                    out, calls>>
    BY Zenon, <1>5 DEF Remap, access
  <2>2. CellsInv'
    BY Zenon, <1>5, MemoryAssumption DEF Remap, MemoryInv, CellsInv
  <2>3. AccessInv' /\ SlotsInv' /\ DevmemInv' /\ VirtualInv' /\ CallsBounded'
    BY Zenon, <2>1 DEF MemoryInv, AccessInv, SlotsInv, DevmemInv, VirtualInv, CallsBounded
  <2> QED
    BY Zenon, <2>1, <2>2, <2>3 DEF MemoryInv
<1>6. CASE UNCHANGED memoryVars
  BY Zenon, <1>6
  DEF memoryVars, access, MemoryInv, CellsInv, AccessInv, SlotsInv, DevmemInv,
      VirtualInv, CallsBounded
<1> QED
  BY Zenon, <1>1, <1>2, <1>3, <1>4, <1>5, <1>6, SlotCallKeeps, DevCallKeeps, SlotsFailKeeps,
     WalkStepKeeps, PageDoneKeeps
  DEF MemoryNext

\* MemoryInv holds of every behaviour.
LEMMA MemoryAlways == MemorySpec => []MemoryInv
<1>1. MemoryInit => MemoryInv
  <2> SUFFICES ASSUME MemoryInit PROVE MemoryInv
    BY Zenon
  <2>1. RetryMax \in Nat /\ 2 * 0 * (RetryMax + 1) = 0
    BY MemoryAssumption
  <2>2. CellsInv
    BY Zenon, TablesAssumption DEF MemoryInit, CellsInv
  <2>3. AccessInv /\ CallsBounded
    BY <2>1 DEF MemoryInit, AccessInv, CallsBounded
  <2>4. SlotsInv /\ DevmemInv /\ VirtualInv
    BY Zenon DEF MemoryInit, SlotsInv, DevmemInv, VirtualInv
  <2> QED
    BY Zenon, <2>2, <2>3, <2>4 DEF MemoryInit, MemoryInv
<1>2. MemoryInv /\ [MemoryNext]_memoryVars => MemoryInv'
  BY Zenon, MemoryStep
<1> QED
  BY <1>1, <1>2, PTL DEF MemorySpec

-----------------------------------------------------------------------------
(* The theorems.                                                           *)

\* vmi_read_physical and vmi_write_physical, for every layout of the slots and
\* every address and size: a complete access has moved every byte, all of them
\* from the slots (each from the slot and offset its address stands for) or, for
\* a read, all of them from /dev/mem.
THEOREM OneSourceAlways == MemorySpec => []OneSource
<1>1. MemoryInv => OneSource
  <2> SUFFICES ASSUME MemoryInv, AccessDone PROVE OneSource
    BY Zenon DEF OneSource
  <2>1. done = want /\ (at = "slots" \/ at = "devmem")
    BY Zenon DEF AccessDone
  <2>2. CASE at = "slots"
    BY Zenon, <2>1, <2>2 DEF MemoryInv, SlotsInv, OneSource
  <2>3. CASE at = "devmem"
    BY Zenon, <2>1, <2>3 DEF MemoryInv, DevmemInv, OneSource
  <2> QED
    BY Zenon, <2>1, <2>2, <2>3
<1> QED
  BY <1>1, MemoryAlways, PTL

\* The loops of read_remote_process, write_remote_process and read_via_devmem end,
\* whatever the system calls return, for every retry limit and size: an access
\* takes at most twice RetryMax + 1 calls per byte.
THEOREM CallsBoundedAlways == MemorySpec => []CallsBounded
<1>1. MemoryInv => CallsBounded
  BY Zenon DEF MemoryInv
<1> QED
  BY <1>1, MemoryAlways, PTL
=============================================================================
