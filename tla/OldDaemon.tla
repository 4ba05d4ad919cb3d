------------------------------ MODULE OldDaemon -------------------------------
(***************************************************************************)
(* g15daemon 1.2: the screens of its clients, the keyboard thread with the *)
(* cycle key, and the drawing thread.  The list is the sequence of its     *)
(* screens from the tail, the clock, to the head.  The drawing thread      *)
(* takes g15lib_mutex with lcdlist_mutex held, the keyboard thread takes   *)
(* one after the other, and keeps g15lib_mutex while the keyboard is away. *)
(***************************************************************************)
EXTENDS Integers, Sequences, FiniteSets

CONSTANTS Client, CLOCK, NULL

VARIABLES list, current, last_priority,
          lastlcd,            \* the screen whose last frame counts as sent, or NULL
          connected,          \* the clients whose thread runs
          lcdlist_mutex, g15lib_mutex,   \* "free" or the thread that has it
          kpc, dpc,
          unplugged, broken,  \* the keyboard is away; libg15 must be opened again
          lcd,                \* the screen whose last frame the LCD shows, or NULL
          unsent              \* history: libg15 came back to a frame that counts as
                              \* sent and is not

ovars == <<list, current, last_priority, lastlcd, connected, lcdlist_mutex,
           g15lib_mutex, kpc, dpc, unplugged, broken, lcd, unsent>>
device  == <<unplugged, broken, lcd, unsent>>
threads == <<kpc, dpc, g15lib_mutex, device>>

Screen == Client \cup {CLOCK}

Listed == {list[i] : i \in DOMAIN list}
Place(s) == CHOOSE i \in DOMAIN list : list[i] = s
Newest == list[Len(list)]
Older(s) == IF s = CLOCK THEN Newest ELSE list[Place(s) - 1]
LcdlistFree == lcdlist_mutex = "free"

-----------------------------------------------------------------------------
(* g15_clientconnect, lcdnode_add *)
Connect(c) ==
  /\ c \notin connected /\ LcdlistFree
  /\ list' = Append(list, c) /\ current' = c
  /\ last_priority' = [last_priority EXCEPT ![c] = NULL]
  /\ connected' = connected \cup {c}
  /\ UNCHANGED <<lastlcd, lcdlist_mutex, threads>>

(* lcd_client_thread: a whole buffer arrived. *)
Frame(c) ==
  /\ c \in connected /\ LcdlistFree
  /\ lastlcd' = IF lastlcd = c THEN NULL ELSE lastlcd
  /\ lcd' = IF lcd = c THEN NULL ELSE lcd
  /\ UNCHANGED <<list, current, last_priority, connected, lcdlist_mutex, kpc, dpc,
                 g15lib_mutex, unplugged, broken, unsent>>

(* process_client_cmds, 'p' *)
SwitchPriorities(c) ==
  /\ c \in connected /\ LcdlistFree
  /\ IF current # c
     THEN current' = c /\ last_priority' = [last_priority EXCEPT ![c] = current]
     ELSE IF last_priority[c] \notin {NULL, c}
     THEN /\ current' = last_priority[c]
          /\ last_priority' = [last_priority EXCEPT ![c] = NULL]
     ELSE current' = Older(c) /\ UNCHANGED last_priority
  /\ UNCHANGED <<list, lastlcd, connected, lcdlist_mutex, threads>>

(* exitthread, lcdnode_remove: on display, the screen of the client gives    *)
(* way to the next newer one, or to the next older one at the head.          *)
Successor(c) ==
  IF current # c THEN current
  ELSE IF c # Newest THEN list[Place(c) + 1] ELSE list[Place(c) - 1]
Disconnect(c) ==
  /\ c \in connected /\ LcdlistFree
  /\ current' = Successor(c)
  /\ list' = SelectSeq(list, LAMBDA s : s # c)
  /\ connected' = connected \ {c}
  /\ UNCHANGED <<last_priority, lastlcd, lcdlist_mutex, threads>>

-----------------------------------------------------------------------------
(* keyboard_watch_thread.  A screen that was freed on display is of no use to*)
(* any thread: what would use it stops here.                                 *)
screens == <<list, last_priority, connected, lcdlist_mutex>>

(* getPressedKeys is called with the mutex, and so is re_initLibG15. *)
KeyboardLock ==
  /\ kpc \in {"sleep", "gone"} /\ g15lib_mutex = "free"
  /\ g15lib_mutex' = "keyboard"
  /\ kpc' = IF kpc = "sleep" THEN "read" ELSE "reinit"
  /\ UNCHANGED <<screens, lastlcd, current, dpc, device>>

(* The keyboard is away, or there is a key: the cycle key, if anyone is      *)
(* connected, or another one.  The threads of clients count themselves in    *)
(* and out of connected_clients without a lock, so that it may be 0 or not,  *)
(* whoever is connected.                                                     *)
KeyboardRead ==
  /\ kpc = "read"
  /\ g15lib_mutex' = "free"
  /\ kpc' \in IF broken THEN {"gone"} ELSE {"sleep", "cycle"}
  /\ UNCHANGED <<screens, lastlcd, current, dpc, device>>

(* With a bug: the frame on display still counts as sent. *)
KeyboardBackSilent ==
  /\ kpc = "reinit" /\ ~unplugged /\ current \in Listed
  /\ unsent' = (dpc = "remember" \/ (lastlcd # NULL /\ lastlcd # current))
  /\ broken' = FALSE
  /\ g15lib_mutex' = "free" /\ kpc' = "sleep"
  /\ UNCHANGED <<screens, lastlcd, current, dpc, unplugged, lcd>>

(* re_initLibG15 succeeds: the screen on display counts as a new frame.  One *)
(* that the drawing thread could not write and remembers only now, or that   *)
(* left the display since, counts as sent.                                   *)
KeyboardBack ==
  /\ kpc = "reinit" /\ ~unplugged /\ current \in Listed
  /\ lastlcd' = IF lastlcd = current THEN NULL ELSE lastlcd
  /\ unsent' = (dpc = "remember" \/ lastlcd' # NULL)
  /\ broken' = FALSE
  /\ g15lib_mutex' = "free" /\ kpc' = "sleep"
  /\ UNCHANGED <<screens, current, dpc, unplugged, lcd>>

(* g15_process_keys: once around the list to clear the marks, then one back. *)
Cycle ==
  /\ kpc = "cycle" /\ LcdlistFree /\ current \in Listed
  /\ current' = Older(current)
  /\ last_priority' = [last_priority EXCEPT ![current'] = current']
  /\ kpc' = "sleep"
  /\ UNCHANGED <<list, lastlcd, connected, lcdlist_mutex, g15lib_mutex, dpc, device>>

(* The keyboard that is plugged in again is a new device, with a dark LCD. *)
Plug ==
  /\ unplugged' = ~unplugged
  /\ broken' = TRUE /\ lcd' = NULL
  /\ UNCHANGED <<screens, lastlcd, current, kpc, dpc, g15lib_mutex, unsent>>

-----------------------------------------------------------------------------
(* lcd_draw_thread: nothing is written while the frame is the one sent last; *)
(* the clock, on display, draws a new one after a minute (lcdclock).         *)
DrawLock ==
  /\ dpc = "sleep" /\ LcdlistFree /\ current \in Listed
  /\ \E ticked \in {FALSE, current = CLOCK} :
       IF ticked \/ current # lastlcd THEN lcdlist_mutex' = "draw" /\ dpc' = "write"
                                      ELSE UNCHANGED <<lcdlist_mutex, dpc>>
  /\ UNCHANGED <<list, current, last_priority, lastlcd, connected, kpc, g15lib_mutex,
                 device>>

(* write_buf_to_g15, whatever writePixmapToLCD returns, ... *)
DrawWrite ==
  /\ dpc = "write" /\ g15lib_mutex = "free"
  /\ IF broken THEN UNCHANGED <<lcd, unsent>> ELSE lcd' = current /\ unsent' = FALSE
  /\ dpc' = "remember"
  /\ UNCHANGED <<list, current, last_priority, lastlcd, connected, lcdlist_mutex,
                 kpc, g15lib_mutex, unplugged, broken>>

(* ... and lastlcd = displaying->ident. *)
DrawRemember ==
  /\ dpc = "remember"
  /\ lastlcd' = current
  /\ dpc' = "sleep" /\ lcdlist_mutex' = "free"
  /\ UNCHANGED <<list, current, last_priority, connected, kpc, g15lib_mutex, device>>

Init ==
  /\ list = <<CLOCK>> /\ current = CLOCK
  /\ last_priority = [s \in Screen |-> NULL]
  /\ lastlcd = NULL /\ connected = {}
  /\ lcdlist_mutex = "free" /\ g15lib_mutex = "free"
  /\ kpc = "sleep" /\ dpc = "sleep"
  /\ unplugged = FALSE /\ broken = FALSE /\ lcd = NULL /\ unsent = FALSE

ClientStep(c) == Connect(c) \/ Frame(c) \/ SwitchPriorities(c) \/ Disconnect(c)
KeyboardStep == KeyboardLock \/ KeyboardRead \/ KeyboardBack \/ Cycle
Next ==
  \/ \E c \in Client : ClientStep(c)
  \/ KeyboardStep \/ Plug
  \/ DrawLock \/ DrawWrite \/ DrawRemember

(* The threads sleep between their turns at a mutex, so that another thread *)
(* that waits for it gets it.                                               *)
Spec ==
  Init /\ [][Next]_ovars /\ SF_ovars(KeyboardStep) /\ WF_ovars(DrawRemember)
       /\ SF_ovars(DrawLock) /\ SF_ovars(DrawWrite)

-----------------------------------------------------------------------------
(* What is displayed reaches the LCD, however the keyboard thread and the   *)
(* clients contend for the mutexes and whenever the keyboard was away, once *)
(* it stays plugged in: unless it came back between the write that failed   *)
(* and its end, or while another screen had the display (lcd_draw_thread,   *)
(* keyboard_watch_thread, write_buf_to_g15).                                *)
ScreenReachesLcd ==
  \A s \in Screen :
    <>[](~unplugged /\ current = s /\ s \in Listed) => []<>(lcd = s \/ unsent)
=============================================================================
