---------------------------- MODULE DeviceState -----------------------------
(***************************************************************************)
(* Backlight, contrast and M-key lights: what each screen asks for, what   *)
(* the keyboard shows, and lcd_draw_thread (main.c) which carries one over *)
(* to the other.  Commands of clients (g15_plugin_net.c) and the light key *)
(* write the settings of a screen without a lock, so each access of a pass *)
(* to them is a step.  A switch, a connect and a leave wait for            *)
(* lcdlist_mutex, which the pass holds.                                    *)
(***************************************************************************)
EXTENDS Naturals

CONSTANTS
  Client, Splash,        \* the screens
  Backlight, Contrast, Leds, \* what clients ask for
  set_backlight,         \* --set-backlight was given
  LcdLevel               \* --lcdlevel

Level == 0 .. 2
Medium == 1

ASSUME SettingsAssumption ==
  /\ Splash \notin Client
  /\ Backlight \subseteq Level /\ Contrast \subseteq Level /\ Leds \subseteq Nat
  /\ set_backlight \in BOOLEAN /\ LcdLevel \in Level

Screen == Client \cup {Splash}

VARIABLES
  list, current,         \* the screens connected, the one on display
  backlight_state, contrast_state, mkey_state, state_changed,
  remote_keyhandler,     \* the screen whose client handles all keys, or Splash for none
  lcdBrightness, lcdContrast, leds,    \* the keyboard
  prev_state,            \* of lcd_draw_thread
  displaying, dpc,       \* the screen it draws, and where it is
  owner,                 \* history: the screen whose contrast the LCD has, if any
  disturbed,             \* history: a setting moved while it was being carried over
  aside                  \* history: somebody else than lcd_draw_thread set the brightness last

settings == <<backlight_state, contrast_state, mkey_state, state_changed>>
keyboard == <<lcdBrightness, lcdContrast, leds>>
history  == <<disturbed, aside>>
pass     == <<prev_state, displaying, dpc, owner>>
vars     == <<list, current, settings, remote_keyhandler, keyboard, pass, history>>

NewScreen(s) ==
  /\ backlight_state' = [backlight_state EXCEPT ![s] = Medium]
  /\ contrast_state' = [contrast_state EXCEPT ![s] = Medium]
  /\ mkey_state' = [mkey_state EXCEPT ![s] = 0]
  /\ state_changed' = [state_changed EXCEPT ![s] = TRUE]

Init ==
  /\ list = {Splash} /\ current = Splash
  /\ backlight_state = [s \in Screen |-> IF s = Splash THEN LcdLevel ELSE Medium]
  /\ contrast_state = [s \in Screen |-> Medium]
  /\ mkey_state = [s \in Screen |-> 0]
  /\ state_changed = [s \in Screen |-> TRUE]
  /\ remote_keyhandler = Splash
  /\ lcdBrightness = LcdLevel /\ lcdContrast = 1 /\ leds = 0
  /\ prev_state = 0 /\ displaying = Splash /\ dpc = "wait"
  /\ owner = {} /\ disturbed = FALSE
  /\ aside = (LcdLevel # 0)   \* main sets it, and prev_state does not know

-----------------------------------------------------------------------------
(* Clients and the user *)

InPass(s) == dpc # "wait" /\ displaying = s
Disturbs(s) == disturbed' = (disturbed \/ InPass(s))

(* With a bug: a new screen does not ask for its settings. *)
ConnectUnasked(c) ==
  /\ c \notin list /\ dpc = "wait"
  /\ list' = list \cup {c} /\ current' = c
  /\ backlight_state' = [backlight_state EXCEPT ![c] = Medium]
  /\ contrast_state' = [contrast_state EXCEPT ![c] = Medium]
  /\ mkey_state' = [mkey_state EXCEPT ![c] = 0]
  /\ state_changed' = [state_changed EXCEPT ![c] = FALSE]
  /\ UNCHANGED <<remote_keyhandler, keyboard, pass, history>>

Connect(c) ==
  /\ c \notin list /\ dpc = "wait"
  /\ list' = list \cup {c} /\ current' = c
  /\ NewScreen(c)
  /\ UNCHANGED <<remote_keyhandler, keyboard, pass, history>>

(* The key handler is given up; if the screen was on display its neighbour *)
(* is, and asks for its settings again.                                    *)
Disconnect(c, heir) ==
  /\ c \in list \ {Splash} /\ dpc = "wait"
  /\ list' = list \ {c}
  /\ IF current = c
     THEN /\ heir \in list' /\ current' = heir
          /\ state_changed' = [state_changed EXCEPT ![heir] = TRUE]
     ELSE heir = current /\ UNCHANGED <<current, state_changed>>
  /\ remote_keyhandler' = IF remote_keyhandler = c THEN Splash ELSE remote_keyhandler
  /\ UNCHANGED <<backlight_state, contrast_state, mkey_state, keyboard, pass, history>>

(* CLIENT_CMD_SWITCH_PRIORITIES and the cycle key *)
Switch(s) ==
  /\ s \in list \ {current} /\ dpc = "wait"
  /\ current' = s
  /\ UNCHANGED <<list, settings, remote_keyhandler, keyboard, pass, history>>

(* CLIENT_CMD_MKEY_LIGHTS: the key handler's lights are set at once. *)
MkeyLights(c, l) ==
  /\ c \in list \ {Splash} /\ mkey_state[c] # l
  /\ mkey_state' = [mkey_state EXCEPT ![c] = l]
  /\ state_changed' = [state_changed EXCEPT ![c] = TRUE]
  /\ leds' = IF remote_keyhandler = c THEN l ELSE leds
  /\ Disturbs(c)
  /\ UNCHANGED <<list, current, backlight_state, contrast_state, remote_keyhandler,
                 lcdBrightness, lcdContrast, pass, aside>>

BacklightCommand(c, l) ==
  /\ c \in list \ {Splash} /\ backlight_state[c] # l
  /\ backlight_state' = [backlight_state EXCEPT ![c] = l]
  /\ state_changed' = [state_changed EXCEPT ![c] = TRUE]
  /\ Disturbs(c)
  /\ UNCHANGED <<list, current, contrast_state, mkey_state, remote_keyhandler, keyboard, pass, aside>>

ContrastCommand(c, l) ==
  /\ c \in list \ {Splash} /\ contrast_state[c] # l
  /\ contrast_state' = [contrast_state EXCEPT ![c] = l]
  /\ state_changed' = [state_changed EXCEPT ![c] = TRUE]
  /\ Disturbs(c)
  /\ UNCHANGED <<list, current, backlight_state, mkey_state, remote_keyhandler, keyboard, pass, aside>>

(* CLIENT_CMD_KEY_HANDLER; the lights are the client's from now on. *)
TakeOver(c) ==
  /\ c \in list \ {Splash, remote_keyhandler}
  /\ remote_keyhandler' = c
  /\ UNCHANGED <<list, current, settings, keyboard, pass, history>>

(* g15daemon_send_event: the light key moves the screen on display on. *)
LightKey ==
  /\ backlight_state' = [backlight_state EXCEPT ![current] = (@ + 1) % 3]
  /\ Disturbs(current)
  /\ UNCHANGED <<list, current, contrast_state, mkey_state, state_changed, remote_keyhandler,
                 keyboard, pass, aside>>

(* keyboard_watch_thread: the keyboard is back, its lights and contrast as *)
(* they come up.  Only g15lib_mutex is held.                               *)
Replug(light) ==
  /\ dpc \in {"wait", "backlight", "settings", "clear"}
  /\ lcdBrightness' = light /\ lcdContrast' = Medium /\ leds' = 0
  /\ owner' = {}
  /\ state_changed' = [state_changed EXCEPT ![current] = TRUE]
  /\ Disturbs(current) /\ aside' = TRUE
  /\ UNCHANGED <<list, current, backlight_state, contrast_state, mkey_state,
                 remote_keyhandler, prev_state, displaying, dpc>>

-----------------------------------------------------------------------------
(* lcd_draw_thread *)

Moves(from, to) == dpc = from /\ dpc' = to
Untouched == UNCHANGED <<list, current, settings, remote_keyhandler, history>>

Begin ==
  /\ Moves("wait", "backlight")
  /\ displaying' = current
  /\ UNCHANGED <<keyboard, prev_state, owner>> /\ Untouched

NewBacklight == set_backlight /\ prev_state # backlight_state[displaying]

SameBacklight ==
  /\ Moves("backlight", "settings") /\ ~NewBacklight
  /\ UNCHANGED <<keyboard, prev_state, displaying, owner>> /\ Untouched

RememberBacklight ==
  /\ Moves("backlight", "brightness") /\ NewBacklight
  /\ prev_state' = backlight_state[displaying]
  /\ UNCHANGED <<keyboard, displaying, owner>> /\ Untouched

(* With a bug: the brightness of the last pass is set. *)
SetBrightnessOnce ==
  /\ Moves("brightness", "settings")
  /\ aside' = FALSE
  /\ UNCHANGED <<keyboard, prev_state, displaying, owner, list, current, settings,
                 remote_keyhandler, disturbed>>

SetBrightness ==
  /\ Moves("brightness", "settings")
  /\ lcdBrightness' = backlight_state[displaying] /\ aside' = FALSE
  /\ UNCHANGED <<lcdContrast, leds, prev_state, displaying, owner, list, current, settings,
                 remote_keyhandler, disturbed>>

NothingToSet ==
  /\ Moves("settings", "wait") /\ ~state_changed[displaying]
  /\ UNCHANGED <<keyboard, prev_state, displaying, owner>> /\ Untouched

(* The contrast is set and the key handler read: only without one ...      *)
SetContrast ==
  /\ dpc = "settings" /\ state_changed[displaying]
  /\ lcdContrast' = contrast_state[displaying]
  /\ dpc' = IF remote_keyhandler = Splash THEN "leds" ELSE "clear"
  /\ owner' = {displaying}
  /\ UNCHANGED <<lcdBrightness, leds, prev_state, displaying>> /\ Untouched

(* ... are the lights set.                                                 *)
SetLEDs ==
  /\ Moves("leds", "clear")
  /\ leds' = mkey_state[displaying]
  /\ UNCHANGED <<lcdBrightness, lcdContrast, prev_state, displaying, owner>> /\ Untouched

ClearChanged ==
  /\ Moves("clear", "wait")
  /\ state_changed' = [state_changed EXCEPT ![displaying] = FALSE]
  /\ UNCHANGED <<list, current, backlight_state, contrast_state, mkey_state,
                 remote_keyhandler, history, keyboard, prev_state, displaying, owner>>

DrawThread ==
  \/ Begin \/ SameBacklight \/ RememberBacklight \/ SetBrightness
  \/ NothingToSet \/ SetContrast \/ SetLEDs \/ ClearChanged

Ask(c) ==
  \/ \E l \in Leds : MkeyLights(c, l)
  \/ \E l \in Backlight : BacklightCommand(c, l)
  \/ \E l \in Contrast : ContrastCommand(c, l)
  \/ TakeOver(c)

Next ==
  \/ \E c \in Client : Connect(c) \/ Ask(c)
  \/ \E c \in Client, s \in Screen : Disconnect(c, s)
  \/ \E s \in Screen : Switch(s)
  \/ LightKey
  \/ \E light \in Level : Replug(light)
  \/ DrawThread

Spec == Init /\ [][Next]_vars

-----------------------------------------------------------------------------
(* Every variable holds a value of its kind; what is drawn is in the list. *)
TypeOK ==
  /\ list \subseteq Screen /\ Splash \in list /\ current \in list
  /\ backlight_state \in [Screen -> Level]
  /\ contrast_state \in [Screen -> Contrast \cup {Medium}]
  /\ mkey_state \in [Screen -> Leds \cup {0}]
  /\ state_changed \in [Screen -> BOOLEAN]
  /\ remote_keyhandler \in list
  /\ lcdBrightness \in Level /\ lcdContrast \in Level /\ leds \in Leds \cup {0}
  /\ prev_state \in Level
  /\ displaying \in Screen /\ (dpc # "wait" => displaying = current)
  /\ dpc \in {"wait", "backlight", "brightness", "settings", "leds", "clear"}
  /\ owner \subseteq Screen /\ disturbed \in BOOLEAN /\ aside \in BOOLEAN

PassEnds == dpc # "wait" /\ dpc' = "wait"

(* main.c:257: the thread skips the brightness when it equals that of the  *)
(* last pass.  Whatever screens come and go in between, a pass ends with   *)
(* the brightness of the screen it has drawn, if none was disturbed by a   *)
(* setting that moved and nobody else has set the brightness since the     *)
(* thread did: main with --lcdlevel, or a keyboard that was plugged in.    *)
BacklightOfDrawn ==
  [][PassEnds /\ set_backlight /\ ~disturbed /\ ~aside
       => lcdBrightness' = backlight_state[displaying]]_vars

(* main.c:267: settings are carried over only when state_changed is set.   *)
(* As long as nothing moves in the middle of a pass, that never leaves the *)
(* screen that set the contrast last with one it no longer asks for, a     *)
(* screen that leaves and comes back included.                             *)
OwnerIsUpToDate ==
  [][PassEnds /\ ~disturbed /\ displaying \in owner'
       => lcdContrast' = contrast_state[displaying]]_vars

(* main.c:267 and :273: what a client asks for reaches the keyboard: once  *)
(* nothing is marked as changed, the screen that set the contrast last has *)
(* the contrast it asked for.  It does not hold: DeviceLost.cfg.           *)
NoUpdateLost ==
  dpc = "wait" /\ displaying \in owner /\ ~state_changed[displaying]
    => lcdContrast = contrast_state[displaying]
=============================================================================
