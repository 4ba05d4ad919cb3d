---------------------------- MODULE RefreshProofs ----------------------------
(***************************************************************************)
(* Proofs of the types of Refresh and of what lcdlist_mutex protects, for  *)
(* any number of clients and threads in a handler.                         *)
(***************************************************************************)
EXTENDS RefreshProps, TLAPS

Drawing == dpc \in {"write", "state", "clear"}

(* Whoever works on a screen's buffer or on the display holds the mutex.   *)
MutexProtects ==
  /\ Drawing <=> lcdlist_mutex = "draw"
  /\ \A s \in Client : pc[s] = "copy" => lcdlist_mutex = s
  /\ pc[Kbd] = "walk" => lcdlist_mutex = Kbd

Picked == Drawing => displaying = current

DrawInv == TypeOK /\ MutexProtects /\ Picked

LEMMA DrawInit == Init => DrawInv
<1> SUFFICES ASSUME Init PROVE DrawInv
  OBVIOUS
<1> USE RefreshAssumption DEF Init, Screen, Thread, Visible
<1>1. 0 \in -MaxPending .. MaxPending
  OBVIOUS
<1>2. connected \subseteq Client /\ current \in Visible /\ displaying \in Screen
  OBVIOUS
<1>3. TypeOK
  BY <1>1, <1>2 DEF TypeOK, Places, DrawPlaces
<1>4. MutexProtects /\ Picked
  BY DEF MutexProtects, Picked, Drawing
<1> QED
  BY <1>3, <1>4 DEF DrawInv

(* refresh_pending stays within the bound of the model.                    *)
LEMMA SaturatedType ==
  ASSUME NEW n \in Int
  PROVE  Saturated(n) \in -MaxPending .. MaxPending
BY RefreshAssumption DEF Saturated

LEMMA PlaceOf ==
  ASSUME TypeOK, NEW t \in Thread, NEW place \in Places, Goto(t, place)
  PROVE  /\ pc' \in [Thread -> Places]
         /\ pc'[t] = place
         /\ \A u \in Thread \ {t} : pc'[u] = pc[u]
BY DEF TypeOK, Goto

-----------------------------------------------------------------------------
(* Steps that leave the display, the mutex and the drawing thread alone    *)

LEMMA QuietStep ==
  ASSUME DrawInv, NEW t \in Thread, NEW place \in Places \ {"copy", "walk"},
         Goto(t, place), UNCHANGED <<current, lcdlist_mutex, dpc, displaying>>
  PROVE  MutexProtects' /\ Picked'
<1> USE DEF DrawInv
<1>1. /\ pc'[t] = place
      /\ \A u \in Thread \ {t} : pc'[u] = pc[u]
  BY PlaceOf
<1> QED
  BY <1>1 DEF MutexProtects, Picked, Drawing, Thread, Screen

LEMMA LoadSubjectKeeps ==
  ASSUME DrawInv, NEW t \in Thread, LoadSubject(t)
  PROVE  DrawInv'
<1> USE DEF DrawInv, LoadSubject
<1>1. pc' \in [Thread -> Places]
  BY PlaceOf DEF Places
<1>2. TypeOK'
  BY <1>1 DEF TypeOK, lcds, mutexes, drawer, Visible, Screen
<1>3. MutexProtects' /\ Picked'
  BY QuietStep DEF Places, mutexes, drawer
<1> QED
  BY <1>2, <1>3

LEMMA LoadPendingKeeps ==
  ASSUME DrawInv, NEW t \in Thread, LoadPending(t)
  PROVE  DrawInv'
<1> USE DEF DrawInv, LoadPending
<1>1. pc' \in [Thread -> Places]
  BY PlaceOf DEF Places
<1>2. TypeOK'
  BY <1>1 DEF TypeOK, lcds, mutexes, drawer, Visible
<1>3. MutexProtects' /\ Picked'
  BY QuietStep DEF Places, mutexes, drawer
<1> QED
  BY <1>2, <1>3

(* A broadcast wakes a thread that does not hold the mutex.                *)
LEMMA BroadcastKeeps ==
  ASSUME DrawInv, NEW t \in Thread, Broadcast(t)
  PROVE  DrawInv'
<1> USE DEF DrawInv, Broadcast
<1>1. /\ pc' \in [Thread -> Places]
      /\ pc'[t] = "load"
      /\ \A u \in Thread \ {t} : pc'[u] = pc[u]
  BY PlaceOf DEF Places
<1>2. dpc' \in DrawPlaces /\ Drawing' = Drawing
  BY DEF Woken, TypeOK, DrawPlaces, Drawing
<1>3. TypeOK'
  BY <1>1, <1>2 DEF TypeOK, lcds, mutexes, Visible, Screen
<1>4. MutexProtects' /\ Picked'
  BY <1>1, <1>2 DEF MutexProtects, Picked, mutexes, Thread, Screen
<1> QED
  BY <1>3, <1>4

(* The end of g15daemon_send_refresh: the caller releases what it holds.   *)
LEMMA ReturnKeeps ==
  ASSUME DrawInv, NEW t \in Thread, pc[t] \in {"notify", "store"}, Return(t),
         UNCHANGED <<current, lcds, fresh, drawer>>
  PROVE  /\ pc' \in [Thread -> Places]
         /\ lcdlist_mutex' \in Thread \cup {"draw", None}
         /\ g15lib_mutex' \in {Kbd, None}
         /\ MutexProtects' /\ Picked'
<1> USE DEF DrawInv, Return
<1>1. CASE t = Kbd /\ lcdlist_mutex = Kbd
  <2>1. /\ pc' \in [Thread -> Places]
        /\ pc'[Kbd] = "walk"
        /\ \A u \in Thread \ {Kbd} : pc'[u] = pc[u]
    BY <1>1, PlaceOf DEF Places
  <2> QED
    BY <1>1, <2>1, RefreshAssumption
    DEF TypeOK, MutexProtects, Picked, Drawing, mutexes, drawer, Thread, Screen
<1>2. CASE ~(t = Kbd /\ lcdlist_mutex = Kbd)
  <2>1. /\ pc' \in [Thread -> Places]
        /\ pc'[t] = "idle"
        /\ \A u \in Thread \ {t} : pc'[u] = pc[u]
    BY <1>2, PlaceOf DEF Places
  <2>2. t # "draw" /\ None # "draw"
    BY RefreshAssumption DEF Thread, Screen
  <2>3. Drawing' <=> lcdlist_mutex' = "draw"
    BY <1>2, <2>2 DEF MutexProtects, Drawing, drawer
  <2>4. \A s \in Client : pc'[s] = "copy" => lcdlist_mutex' = s
    BY <1>2, <2>1 DEF MutexProtects, Thread, Screen
  <2>5. pc'[Kbd] = "walk" => lcdlist_mutex' = Kbd
    BY <1>2, <2>1 DEF MutexProtects, Thread, Screen
  <2>6. Picked'
    BY DEF Picked, Drawing, drawer
  <2> QED
    BY <1>2, <2>1, <2>3, <2>4, <2>5, <2>6 DEF TypeOK, MutexProtects
<1> QED
  BY <1>1, <1>2

LEMMA NoBroadcastKeeps ==
  ASSUME DrawInv, NEW t \in Thread, NoBroadcast(t)
  PROVE  DrawInv'
<1> USE DEF DrawInv, NoBroadcast
<1>1. /\ pc' \in [Thread -> Places]
      /\ lcdlist_mutex' \in Thread \cup {"draw", None}
      /\ g15lib_mutex' \in {Kbd, None}
      /\ MutexProtects' /\ Picked'
  BY ReturnKeeps
<1>2. TypeOK'
  BY <1>1 DEF TypeOK, lcds, drawer, Visible, Screen
<1> QED
  BY <1>1, <1>2

LEMMA StorePendingKeeps ==
  ASSUME DrawInv, NEW t \in Thread, StorePending(t)
  PROVE  DrawInv'
<1> USE DEF DrawInv, StorePending
<1>1. /\ pc' \in [Thread -> Places]
      /\ lcdlist_mutex' \in Thread \cup {"draw", None}
      /\ g15lib_mutex' \in {Kbd, None}
      /\ MutexProtects' /\ Picked'
  BY ReturnKeeps
<1>2. tmp[t] + 1 \in Int
  BY RefreshAssumption DEF TypeOK
<1>3. refresh_pending' \in -MaxPending .. MaxPending
  BY <1>2, SaturatedType
<1>4. tmp' \in [Thread -> -MaxPending .. MaxPending]
  BY RefreshAssumption DEF TypeOK
<1>5. TypeOK'
  BY <1>1, <1>3, <1>4 DEF TypeOK, lcds, drawer, Visible
<1> QED
  BY <1>1, <1>5

-----------------------------------------------------------------------------
(* The handlers                                                            *)

(* A client takes the mutex for its copy only when nobody has it.          *)
LEMMA FrameKeeps ==
  ASSUME DrawInv, NEW s \in Client, Frame(s)
  PROVE  DrawInv'
<1> USE RefreshAssumption DEF DrawInv, Frame
<1>1. s \in Thread /\ s # Kbd /\ s # "draw" /\ None # "draw"
  BY DEF Thread, Screen
<1>2. /\ pc' \in [Thread -> Places]
      /\ pc'[s] = "copy"
      /\ \A u \in Thread \ {s} : pc'[u] = pc[u]
  BY <1>1, PlaceOf DEF Places
<1>3. ~Drawing /\ \A u \in Client : pc[u] # "copy"
  BY <1>1 DEF MutexProtects
<1>4. pc[Kbd] # "walk"
  BY DEF MutexProtects
<1>5. TypeOK'
  BY <1>1, <1>2 DEF TypeOK, lcds, drawer, Visible
<1>6. MutexProtects' /\ Picked'
  BY <1>1, <1>2, <1>3, <1>4 DEF MutexProtects, Picked, Drawing, drawer, Thread, Screen
<1> QED
  BY <1>5, <1>6

LEMMA ClockTickKeeps ==
  ASSUME DrawInv, ClockTick
  PROVE  DrawInv'
<1> USE RefreshAssumption DEF DrawInv, ClockTick
<1>1. Clock \in Thread /\ Clock \notin Client /\ Clock # Kbd
  BY DEF Thread, Screen
<1>2. /\ pc' \in [Thread -> Places]
      /\ \A u \in Thread \ {Clock} : pc'[u] = pc[u]
  BY <1>1, PlaceOf DEF Places
<1>3. TypeOK'
  BY <1>2 DEF TypeOK, lcds, mutexes, drawer, Visible
<1>4. MutexProtects' /\ Picked'
  BY <1>1, <1>2 DEF MutexProtects, Picked, Drawing, mutexes, drawer, Thread, Screen
<1> QED
  BY <1>3, <1>4

LEMMA CopiedKeeps ==
  ASSUME DrawInv, NEW s \in Screen, Copied(s)
  PROVE  DrawInv'
<1> USE DEF DrawInv, Copied
<1>1. s \in Thread
  BY DEF Thread
<1>2. pc' \in [Thread -> Places]
  BY <1>1, PlaceOf DEF Places
<1>3. subject' \in [Thread -> Screen]
  BY DEF TypeOK
<1>4. fresh' \in BOOLEAN
  BY DEF TypeOK
<1>5. TypeOK'
  BY <1>2, <1>3, <1>4 DEF TypeOK, lcds, mutexes, drawer, Visible
<1>6. MutexProtects' /\ Picked'
  BY <1>1, QuietStep DEF Places, mutexes, drawer
<1> QED
  BY <1>5, <1>6

LEMMA RequestPriorityKeeps ==
  ASSUME DrawInv, NEW t \in Client, NEW s \in Screen, RequestPriority(t, s)
  PROVE  DrawInv'
<1> USE RefreshAssumption DEF DrawInv, RequestPriority
<1>1. t \in Thread /\ t # Kbd /\ None # "draw"
  BY DEF Thread, Screen
<1>2. /\ pc' \in [Thread -> Places]
      /\ pc'[t] = "subject"
      /\ \A u \in Thread \ {t} : pc'[u] = pc[u]
  BY <1>1, PlaceOf DEF Places
<1>3. ~Drawing
  BY <1>1 DEF MutexProtects
<1>4. TypeOK'
  BY <1>2 DEF TypeOK, lcds, mutexes, drawer, Visible
<1>5. MutexProtects' /\ Picked'
  BY <1>1, <1>2, <1>3 DEF MutexProtects, Picked, Drawing, mutexes, drawer, Thread, Screen
<1> QED
  BY <1>4, <1>5

LEMMA CycleBeginKeeps ==
  ASSUME DrawInv, CycleBegin
  PROVE  DrawInv'
<1> USE RefreshAssumption DEF DrawInv, CycleBegin
<1>1. Kbd \in Thread /\ Kbd \notin Client /\ Kbd # "draw" /\ None # "draw"
  BY DEF Thread, Screen
<1>2. /\ pc' \in [Thread -> Places]
      /\ pc'[Kbd] = "notify"
      /\ \A u \in Thread \ {Kbd} : pc'[u] = pc[u]
  BY <1>1, PlaceOf DEF Places
<1>3. ~Drawing /\ \A u \in Client : pc[u] # "copy"
  BY <1>1 DEF MutexProtects
<1>4. current \in Screen
  BY DEF TypeOK, Visible, Screen
<1>5. TypeOK'
  BY <1>1, <1>2, <1>4 DEF TypeOK, lcds, drawer, Visible
<1>6. MutexProtects' /\ Picked'
  BY <1>1, <1>2, <1>3 DEF MutexProtects, Picked, Drawing, drawer, Thread, Screen
<1> QED
  BY <1>5, <1>6

(* The display moves while the keyboard thread holds the mutex.            *)
LEMMA CycleLandKeeps ==
  ASSUME DrawInv, NEW s \in Screen, CycleLand(s)
  PROVE  DrawInv'
<1> USE RefreshAssumption DEF DrawInv, CycleLand
<1>1. Kbd \in Thread /\ Kbd \notin Client /\ Kbd # "draw" /\ None # "draw"
  BY DEF Thread, Screen
<1>2. /\ pc' \in [Thread -> Places]
      /\ pc'[Kbd] = "subject"
      /\ \A u \in Thread \ {Kbd} : pc'[u] = pc[u]
  BY <1>1, PlaceOf DEF Places
<1>3. ~Drawing /\ \A u \in Client : pc[u] # "copy"
  BY <1>1 DEF MutexProtects
<1>4. fresh' \in BOOLEAN
  BY DEF TypeOK
<1>5. TypeOK'
  BY <1>2, <1>4 DEF TypeOK, lcds, drawer, Visible
<1>6. MutexProtects' /\ Picked'
  BY <1>1, <1>2, <1>3 DEF MutexProtects, Picked, Drawing, drawer, Thread, Screen
<1> QED
  BY <1>5, <1>6

LEMMA ConnectKeeps ==
  ASSUME DrawInv, NEW s \in Client, Connect(s)
  PROVE  DrawInv'
<1> USE RefreshAssumption DEF DrawInv, Connect
<1>1. ~Drawing
  BY DEF MutexProtects
<1>2. state_changed' \in [Screen -> BOOLEAN]
  BY DEF TypeOK
<1>3. connected' \subseteq Client /\ current' \in Visible'
  BY DEF TypeOK, Visible
<1>4. TypeOK'
  BY <1>2, <1>3 DEF TypeOK, mutexes, drawer, sender
<1>5. MutexProtects' /\ Picked'
  BY <1>1 DEF MutexProtects, Picked, Drawing, mutexes, drawer, sender
<1> QED
  BY <1>4, <1>5

(* The heir is connected, and nobody draws while the display moves.        *)
LEMMA DisconnectKeeps ==
  ASSUME DrawInv, NEW s \in Client, NEW heir \in Screen, Disconnect(s, heir)
  PROVE  DrawInv'
<1> USE RefreshAssumption DEF DrawInv, Disconnect
<1>1. s \in Thread /\ s # Kbd /\ s # "draw" /\ None # "draw" /\ s # Clock
  BY DEF Thread, Screen
<1>2. /\ pc' \in [Thread -> Places]
      /\ pc'[s] = "notify"
      /\ \A u \in Thread \ {s} : pc'[u] = pc[u]
  BY <1>1, PlaceOf DEF Places
<1>3. ~Drawing /\ \A u \in Client : pc[u] # "copy"
  BY <1>1 DEF MutexProtects
<1>4. pc[Kbd] # "walk"
  BY DEF MutexProtects
<1>5. state_changed' \in [Screen -> BOOLEAN] /\ fresh' \in BOOLEAN
  BY DEF TypeOK
<1>6. connected' \subseteq Client /\ current' \in Visible'
  BY <1>1 DEF TypeOK, Visible
<1>7. subject' \in [Thread -> Screen]
  BY DEF TypeOK
<1>8. TypeOK'
  BY <1>1, <1>2, <1>5, <1>6, <1>7 DEF TypeOK, drawer
<1>9. MutexProtects' /\ Picked'
  BY <1>1, <1>2, <1>3, <1>4 DEF MutexProtects, Picked, Drawing, drawer, Thread, Screen
<1> QED
  BY <1>8, <1>9

LEMMA KeyboardGoneKeeps ==
  ASSUME DrawInv, KeyboardGone
  PROVE  DrawInv'
<1> USE DEF DrawInv, KeyboardGone
<1>1. Kbd \in Thread
  BY DEF Thread
<1>2. pc' \in [Thread -> Places]
  BY <1>1, PlaceOf DEF Places
<1>3. TypeOK'
  BY <1>2 DEF TypeOK, lcds, drawer, Visible
<1>4. MutexProtects' /\ Picked'
  BY <1>1, QuietStep DEF Places, drawer
<1> QED
  BY <1>3, <1>4

LEMMA KeyboardBackKeeps ==
  ASSUME DrawInv, KeyboardBack
  PROVE  DrawInv'
<1> USE DEF DrawInv, KeyboardBack
<1>1. Kbd \in Thread
  BY DEF Thread
<1>2. pc' \in [Thread -> Places]
  BY <1>1, PlaceOf DEF Places
<1>3. state_changed' \in [Screen -> BOOLEAN]
  BY DEF TypeOK
<1>4. TypeOK'
  BY <1>2, <1>3 DEF TypeOK, mutexes, drawer, Visible
<1>5. MutexProtects' /\ Picked'
  BY <1>1, QuietStep DEF Places, mutexes, drawer
<1> QED
  BY <1>4, <1>5

LEMMA StateCommandKeeps ==
  ASSUME DrawInv, NEW s \in Client, StateCommand(s)
  PROVE  DrawInv'
<1> USE DEF DrawInv, StateCommand
<1>1. state_changed' \in [Screen -> BOOLEAN]
  BY DEF TypeOK
<1>2. TypeOK'
  BY <1>1 DEF TypeOK, mutexes, sender, drawer, Visible
<1>3. MutexProtects' /\ Picked'
  BY DEF MutexProtects, Picked, Drawing, mutexes, sender, drawer
<1> QED
  BY <1>2, <1>3

-----------------------------------------------------------------------------
(* The drawing thread                                                      *)

(* While it waits, nothing it does concerns the mutex.                     *)
LEMMA WaitingKeeps ==
  ASSUME DrawInv,
         CheckPending \/ Arm \/ TimedOut \/ SpuriousWakeup \/ DecrementLoad \/ DecrementStore
  PROVE  DrawInv'
<1> USE DEF DrawInv, CheckPending, Arm, TimedOut, SpuriousWakeup, DecrementLoad,
            DecrementStore, DrawStep
<1>1. dpc' \in DrawPlaces /\ ~Drawing /\ ~Drawing'
  BY DEF DrawPlaces, Drawing
<1>2. UNCHANGED <<current, lcds, fresh, mutexes, sender, displaying>>
  OBVIOUS
<1>3. 0 \in -MaxPending .. MaxPending
  BY RefreshAssumption
<1>4. dtmp' \in -MaxPending .. MaxPending
  BY <1>3 DEF TypeOK
<1>5. dtmp - 1 \in Int
  BY RefreshAssumption DEF TypeOK
<1>6. refresh_pending' \in -MaxPending .. MaxPending
  BY <1>5, SaturatedType DEF TypeOK
<1>7. TypeOK'
  BY <1>1, <1>2, <1>4, <1>6 DEF TypeOK, lcds, mutexes, sender, Visible
<1>8. MutexProtects' /\ Picked'
  BY <1>1, <1>2 DEF MutexProtects, Picked, mutexes, sender
<1> QED
  BY <1>7, <1>8

(* The screen on display is picked with the mutex.                         *)
LEMMA DrawLockKeeps ==
  ASSUME DrawInv, DrawLock
  PROVE  DrawInv'
<1> USE RefreshAssumption DEF DrawInv, DrawLock, DrawStep
<1>1. (\A u \in Client : pc[u] # "copy") /\ pc[Kbd] # "walk"
  BY DEF MutexProtects
<1>2. current \in Screen
  BY DEF TypeOK, Visible, Screen
<1>3. TypeOK'
  BY <1>2 DEF TypeOK, DrawPlaces, lcds, sender, Visible
<1>4. MutexProtects' /\ Picked'
  BY <1>1 DEF MutexProtects, Picked, Drawing, sender
<1> QED
  BY <1>3, <1>4

LEMMA WriteKeeps ==
  ASSUME DrawInv, WriteLCD \/ ApplyState
  PROVE  DrawInv'
<1> USE DEF DrawInv, WriteLCD, ApplyState, DrawStep
<1>1. dpc' \in DrawPlaces /\ Drawing /\ Drawing'
  BY DEF DrawPlaces, Drawing
<1>2. UNCHANGED <<current, lcds, refresh_pending, mutexes, sender, dtmp, displaying>>
  OBVIOUS
<1>3. fresh' \in BOOLEAN
  BY DEF TypeOK
<1>4. TypeOK'
  BY <1>1, <1>2, <1>3 DEF TypeOK, lcds, mutexes, sender, Visible
<1>5. MutexProtects' /\ Picked'
  BY <1>1, <1>2 DEF MutexProtects, Picked, mutexes, sender
<1> QED
  BY <1>4, <1>5

LEMMA DrawUnlockKeeps ==
  ASSUME DrawInv, DrawUnlock
  PROVE  DrawInv'
<1> USE RefreshAssumption DEF DrawInv, DrawUnlock
<1>1. Drawing /\ ~Drawing' /\ dpc' \in DrawPlaces
  BY DEF Drawing, DrawPlaces
<1>2. (\A u \in Client : pc[u] # "copy") /\ pc[Kbd] # "walk"
  BY <1>1 DEF MutexProtects
<1>3. state_changed' \in [Screen -> BOOLEAN]
  BY DEF TypeOK
<1>4. TypeOK'
  BY <1>1, <1>3 DEF TypeOK, sender, Visible, Screen
<1>5. MutexProtects' /\ Picked'
  BY <1>1, <1>2 DEF MutexProtects, Picked, sender
<1> QED
  BY <1>4, <1>5

-----------------------------------------------------------------------------

LEMMA DrawInvStep == DrawInv /\ [Next]_vars => DrawInv'
<1> SUFFICES ASSUME DrawInv, [Next]_vars PROVE DrawInv'
  OBVIOUS
<1>1. ASSUME NEW t \in Thread, SendRefresh(t) PROVE DrawInv'
  BY <1>1, LoadSubjectKeeps, BroadcastKeeps, NoBroadcastKeeps, LoadPendingKeeps,
     StorePendingKeeps DEF SendRefresh
<1>2. ASSUME NEW s \in Client, Frame(s) \/ StateCommand(s) \/ Connect(s) PROVE DrawInv'
  BY <1>2, FrameKeeps, StateCommandKeeps, ConnectKeeps
<1>3. ASSUME NEW s \in Client, NEW other \in Screen,
             RequestPriority(s, other) \/ Disconnect(s, other)
      PROVE  DrawInv'
  BY <1>3, RequestPriorityKeeps, DisconnectKeeps
<1>4. CASE ClockTick
  BY <1>4, ClockTickKeeps
<1>5. ASSUME NEW s \in Screen, Copied(s) \/ CycleLand(s) PROVE DrawInv'
  BY <1>5, CopiedKeeps, CycleLandKeeps
<1>6. CASE CycleBegin
  BY <1>6, CycleBeginKeeps
<1>7. CASE KeyboardGone \/ KeyboardBack
  BY <1>7, KeyboardGoneKeeps, KeyboardBackKeeps
<1>8. CASE TimedOut \/ SpuriousWakeup
  BY <1>8, WaitingKeeps
<1>9. CASE DrawThread
  BY <1>9, WaitingKeeps, DrawLockKeeps, WriteKeeps, DrawUnlockKeeps DEF DrawThread
<1>10. CASE UNCHANGED vars
  BY <1>10 DEF vars, lcds, mutexes, sender, drawer, DrawInv, TypeOK, MutexProtects, Picked,
               Drawing, Visible
<1> QED
  BY <1>1, <1>2, <1>3, <1>4, <1>5, <1>6, <1>7, <1>8, <1>9, <1>10 DEF Next

LEMMA DrawInvImplies == DrawInv => TypeOK /\ DrawsStableScreen
<1> SUFFICES ASSUME DrawInv PROVE DrawsStableScreen
  BY DEF DrawInv
<1> USE RefreshAssumption DEF DrawInv
<1> SUFFICES ASSUME Drawing
             PROVE  /\ displaying = current
                    /\ displaying \in Visible
                    /\ \A s \in Client : pc[s] # "copy"
  BY DEF DrawsStableScreen, Drawing
<1>1. lcdlist_mutex = "draw" /\ "draw" \notin Client
  BY DEF MutexProtects
<1>2. displaying = current /\ current \in Visible
  BY DEF Picked, TypeOK
<1> QED
  BY <1>1, <1>2 DEF MutexProtects

(* For any number of clients, and of threads inside a handler: every       *)
(* variable of the refresh holds a value of its kind, and the screen on    *)
(* display is a connected one.                                             *)
THEOREM RefreshTypes == Spec => []TypeOK
BY DrawInit, DrawInvStep, DrawInvImplies, PTL DEF Spec

(* For any number of clients: nobody touches what the drawing thread works *)
(* on during a pass.                                                       *)
THEOREM DrawsStable == Spec => []DrawsStableScreen
BY DrawInit, DrawInvStep, DrawInvImplies, PTL DEF Spec
==============================================================================
