# A TLA+ verification of g15daemon

`g15daemon` drives the LCD and the extra keys of the Logitech G15 keyboard. It keeps a list of
screens, one per client, draws the one on display, and sends the keys to whom they belong. It is
a few thousand lines of C with a thread for the keyboard, one for the LCD, one per plugin and one
per network client, two mutexes, and a good deal of state that is used without either. Around it
stand its clients: a macro recorder, a system monitor, spectrum plugins for two players and a
client of mpd, each with threads of its own. The modules here model `src/g15daemon-wip`, the
version with plugins; what differs in version 1.2 (`src/g15daemon`); and the clients that keep
state (`src/g15daemon-clients`, `src/g15daemon-audio-plugins`).

## The system

| Component | State | Operations | Talks to |
|---|---|---|---|
| Screen list (`linked_lists.c`, `main.c`) | ring of heap nodes from `tail` (splash) to `head` (newest), `current`, `last_priority`, `usr_foreground`, `never_select`, `numclients`; `lcdlist_mutex` | add, remove, cycle, REQ_PRIORITY, NEVER_SELECT | called by client, plugin and keyboard threads; read by all, often without the mutex |
| Refresh and drawing (`utility_funcs.c`, `main.c`) | condition `lcd_refresh`, `refresh_pending`, `state_changed`; `g15lib_mutex` | `send_refresh`, `wait_refresh`, drawing pass, re-initialisation of an unplugged keyboard | every thread that changes a screen notifies the drawing thread |
| Key events (`main.c`) | two `lastkeys`, `clicktime` | read the keys, send an event, short and long press of the cycle key | calls the event handler of the screen on display, the uinput plugin or the key handler's socket |
| Device settings (`main.c`, `g15_plugin_net.c`) | `backlight_state`, `contrast_state`, `mkey_state`, `kb_backlight_state`, `prev_state` | client commands, light key, drawing pass | written without a lock, carried over by the drawing thread |
| Network server (`g15_plugin_net.c`) | sockets, `connection`, `remote_keyhandler_sock` | accept, frames, out-of-band commands, exit | list, refresh, keys, settings |
| Client library (`g15daemon_net.c`) | a socket | open, send a frame, send a command, wait for its answer | the server's thread, over TCP |
| Configuration (`utility_funcs.c`) | sections and keys as linked lists; `/etc/g15daemon.conf` | read, write, remove a key, open, write out | plugins, loader, start and end |
| Plugin loader (`g15_plugins.c`) | section `PLUGIN_LOAD_ORDER` | count, load by the list, rebuild the list | configuration |
| Start and shutdown, pid file (`main.c`, `utility_funcs.c`) | `leaving`; `/var/run/g15daemon.pid` | check, attach, create, pause, signal, unlink | other processes, all threads |
| Clock, uinput (`plugins/`) | a screen; `lastkeys` | tick every 500 ms; report differences to the kernel | refresh; key events |
| g15daemon 1.2 (`src/g15daemon`) | list, `ident`, `connected_clients`, both mutexes | as above, without refresh condition and plugins | |
| g15macro | recording, macros of the configuration in use, selection on the LCD; `config_mutex` | record, play, choose, save, restore, exit | three threads, a signal handler, a forked child |
| g15stats | `cycle`, what is there, sensors with their paths and retries | keys, drawing pass, probing | three threads |
| Spectrum plugins (xmms, audacious) | settings, sliders, file, bars, volume, socket; `g15buf_mutex` | render, draw, dialog, keys, reconnect | player, daemon |
| g15mpd | selection, song highlighted, volume; `daemon_mutex` | keys, drawing, main loop | four threads, mpd, daemon |

What is hard: every structure is shared by threads that take a mutex for some accesses and not
for others; nodes are freed while others point to them; the notification of the drawing thread is
made without the mutex a condition variable wants; keys of one event go to up to three receivers
whose identity may change in between; the clients step a variable on one thread and correct it on
another, or read a value, wait, and use it. What each component must guarantee:

* list: the ring is whole, the display never points outside of it, at most one screen is the
  user's choice, the toggling and cycling do what the documents say;
* refresh: what is drawn is stable while it is drawn, no lock is held for good, changes reach the
  LCD;
* keys: each reaches the client on display and the handler or the kernel, once, and nobody else;
* settings: the keyboard has those of the screen on display;
* connection: whole frames, commands as they were sent, each answer to its command, the end of
  the thread with its client;
* configuration, loader, process: what was set is read, no plugin twice, a start ends with a
  daemon that runs;
* clients: what is recorded is what is played and stays saved; what is on the LCD is what the
  keys act on; a bar stays where there is room for it.

PROJECT.json lists every component and every hazard with its line.

## The modules

A module models one component and has its variables, `Init`, an action per operation and `Next`.
Where a component has many properties or theorems they stand in modules of their own
(`...Props`, `...Proofs`); otherwise the properties close the module. A definition whose comment
says "With a bug:" is a changed form of the one it stands before, which no specification uses:
with it in that definition's place the property that PROJECT.json names must fail.

The daemon:

* `ScreenStack` - the abstract specification of the list: a sequence of screens, a set of hidden
  ones, and the one shown; Connect, Disconnect, Hide, Toggle, Cycle.
* `ScreenList` - the pointer ring. An address is a member of `Node`; freeing it takes it out of
  `live`, adding may take the same address again, and pointers to it survive. A critical section
  of `lcdlist_mutex` is one action, except for the walk of `g15daemon_lcdnode_cycle`: one action
  per turn of its `skip` loop, the mutex being held while `kpc = "cycling"`. What the code does
  after the unlock (`CycleLoad`, `CycleMark`, `RefreshAfterSwitch`) are actions of their own. A
  step that would dereference a freed node sets `fault`, and the system stops: what is stated
  holds up to the first undefined access. `order` and `choice` are history variables.
* `ScreenListProps` - its properties, and the mapping to `ScreenStack`: while the keyboard thread
  walks under the mutex the screen shown is still the one it started from, and a pointer to freed
  memory shows `Gone`.
* `ScreenListProofs` - the theorems, the refinement among them.
* `Refresh` - each thread's place in `g15daemon_send_refresh` (load the argument, test and
  broadcast, load and store `refresh_pending`), the drawing thread's in `g15daemon_wait_refresh`
  and in its pass, and the holders of both mutexes. A broadcast wakes the drawing thread only in
  `"wait"`. Frames, the clock's tick, REQ_PRIORITY, the cycle key, connecting, leaving and the
  unplugged keyboard are the callers. The screen to which the display moves is any screen: which
  one is `ScreenList`'s subject. `fresh` says that the LCD was written from the screen on display
  since its contents were last completed.
* `RefreshProps` - its properties and the assumptions on scheduling.
* `RefreshProofs` - its theorems.
* `KeyRouting` - the keyboard thread from the read of the keys to the end of the event, one action
  per receiver; the life of each connection from `accept` to `lcdnode_remove`, with the numbers of
  sockets reused (lowest first); `remote_keyhandler_sock`. Time is two flags: half a second has
  passed since the daemon saw the cycle key go down, and since `clicktime`. `got`, `osGot` and
  `raced` are history of the present event.
* `KeyRoutingProps` - its properties. `KeyRoutingProofs` - its theorems.
* `DeviceState` - what each screen asks for, what the keyboard shows, and `lcd_draw_thread`, whose
  every access to a setting is a step, since commands and the light key write them without a
  lock. `owner`, `disturbed` and `aside` are history: the screens whose contrast was set last,
  whether a setting moved during this pass, and whether somebody other than the drawing thread set
  the brightness last (`main` with `--lcdlevel`, a keyboard plugged in again).
* `ClientProtocol` - both ends of one connection. The stream holds pieces of frames; an
  out-of-band byte is one slot in each direction, overwritten by the next. As neither side sets
  `SO_OOBINLINE`, TCP leaves the byte that is superseded in the stream as data, unless its place
  (`mark`) was read past already; `g15_recv` takes it for part of a frame, and every frame after it
  is shifted (`Supersede`, `stray`). In the other direction such a byte is read as a key press.
  Commands are numbered (history), so that a lost one or an answer to another shows. `Encode` and
  `Decode` are the bytes the library makes and the server takes apart.
* `ConfigStore` - one section: `items` is the chain of `next`, `head` the pointer the first item
  keeps to the last, `file` what is on disk; the daemon may be killed at any step and started again.
* `PluginLoader` - the directory, the section, what a start loads: of a list of names those that
  are there and not refused, by their places (`Loads`).
* `DaemonLife` - processes that start, attach to the keyboard, test, remove, create and write the
  pid file, pause, are told to leave or die. Attaching is exclusive. A signal handled before
  `pause` sets `leaving`, which nobody looks at until the next one.
* `OldDaemon` - list, cycle key, priorities, drawing and the unplugged keyboard of version 1.2,
  which draws when `ident` changes instead of on a condition. `lcd` is what the LCD really shows,
  `lastlcd` what the drawing thread takes for sent. `connected_clients`, counted without a lock, is
  left open: the cycle key may find it zero or not.

The clients:

* `MacroRecorder` - `Lkeys_thread` and `xevent_thread` of g15macro at each access to `recording`,
  `rec_index` and `current_recording`; a macro is the sequence of its steps, and a playback sends
  them one by one (`played`). The step written at `rec_index = MAX_KEYSTEPS` lies beyond the array:
  `TypeBeyond` leaves open what the index, which may lie there, is afterwards, and marks the state
  (`spilled`). `typed` and `meant` are history.
* `MacroConfig` - files and their versions, the macros in memory, selection, list on the LCD,
  `config_mutex`; the saving of the key thread, of a recording cut off, of the clean-up and of a
  child that could not run its program. A save empties the file, then writes palette after palette,
  counting with the global `mkey_state` that `MKey` sets without the lock. A file of version 1 is
  accepted and read by neither restore. The clean-up frees the names of the configurations before
  it waits for the threads: `UseFreed` is the key thread that looks one up, which ends the program
  in a crash. Macros are numbered; `owned` is the history of what each configuration has.
* `StatsScreens`, `StatsSensors`, `StatsLayout`, `StatsInfo` - of g15stats: the screen shown, the
  search for a sensor, the rows that bars take for every number of cores and set of sensors, and
  the rotation of the bottom row.
* `SpectrumBars`, `SpectrumLink` (audacious), `SpectrumSettings` (xmms) - the height of a bar under
  each combination of settings, `limit` as the unsigned number it is; the callbacks that share
  `lastvolume` and the connection; dialog, sliders, file, start and end of the plugin. The slider of
  `num_bars` doubles or halves (`Follow`), and GTK keeps it in its range (`OnSlider`): a file may
  hold any number in the range (3, say), and a plugin that was never started has 0.
* `MpdPlaylist`, `MpdVolume` - of g15mpd: what is highlighted against what is played, a frame being
  drawn (`on_canvas`) and sent under `daemon_mutex` (`shown`) in two steps; and the volume between
  the keys, the main loop and other clients of mpd.

The instances for TLC are `MCScreenList`, `MCRefresh`, `MCKeyRouting`, `MCServer`, `MCMacro`,
`MCDaemon` and `MCPrograms`; the theorems about the components of the last four are in
`ServerProofs`, `MacroProofs`, `DaemonProofs`, and `StatsProofs` and `PlayerProofs`. Those four
check components that share no variable in one run: `part`, chosen at the start, says which one
moves while the others keep an initial state. The states of the run are those of its parts added up,
not multiplied, and each property speaks of its own part. Where the components do interact, the
interaction is in the module: handlers, drawing and locks in `Refresh`, connections and keys in
`KeyRouting`, connections and the ring in `ScreenList`.

## The runs

| Run | Question | Result |
|---|---|---|
| `screen_list` | ring, flags, toggling, cycling, the walk ends, refinement of `ScreenStack` | holds, 515,514 states |
| `stale_priority` | is a screen that is gone never displayed? | no: `last_priority` outlives its screen |
| `refresh` | is what a pass draws stable, are locks released, does the clock reach the LCD? | holds, 460,534 states |
| `refresh_missed` | is no refresh missed? | one that comes between the test and the wait is |
| `keys` | each key once, the handler connected, short presses | holds, 1,594,120 states |
| `keys_kernel` | are released keys up for the kernel? | not when the cycle key or a handler intervenes |
| `server` | settings reach the keyboard; frames, commands, answers and the end of a connection | holds, 889,079 states |
| `macro` | what was typed is played and stays saved, the list is up to date, no thread waits for ever after a signal | holds, 868,412 states |
| `macro_newer` | does a file of a later version end g15macro, as it says? | it waits for its own mutex, the file emptied |
| `daemon` | settings are read as set, no plugin twice, a start ends with a daemon, version 1.2 draws, the bottom row rotates | holds, 203,369 states |
| `config_remove` | does removing a key leave the others? | removing the first drops some with the next new key |
| `programs` | what g15stats, the spectrum plugins and g15mpd show and do | holds, 957,053 states |

Further questions have a configuration but no run of their own in PROJECT.json; TLC answers each
with a counterexample:

| Configuration | Module | Question | Answer |
|---|---|---|---|
| `ScreenListForeground.cfg` | `MCScreenList` | is the screen marked as the user's the one the user chose? | marked after the unlock, on whatever is shown by then |
| `KeyRoutingLong.cfg` | `MCKeyRouting` | does a long press never cycle? | another key restarts the half second |
| `KeyRoutingTakeover.cfg` | `MCKeyRouting` | do handlers keep the keys? | an exiting client clears another's takeover |
| `DeviceLost.cfg` | `MCServer` | is every change of a setting applied? | not one made just before `state_changed` is cleared |
| `FramesShifted.cfg` | `MCServer` | is a screen update what the client sent as one? | not after two commands in a row: the first one's byte becomes data |
| `MacroExit.cfg` | `MCMacro` | does g15macro leave safely on a signal (ChangeLog:10)? | not when L5 is pressed meanwhile: it uses configurations that are freed, and crashes |
| `DaemonPidFile.cfg` | `MCDaemon` | can a daemon that runs be found by its pid file? | another start may have removed or emptied it |

`FramesShifted.cfg` and `MacroExit.cfg` contradict what g15_plugin_net.c:276 and the ChangeLog of
g15macro say, as the runs with an expected violation do. `SignalEnds`, which holds, must not be
read as the answer to the latter: it only says that no thread waits for ever, and a crash is an end.

Properties that hold state their exceptions, which are defects or limits the code has:

* `ShowsFrames`: frames are whole whatever happens, but their pieces are in order only until a
  superseded urgent byte has strayed into the stream. `AnswersMatch`: until a wait timed out.
  `GoneIsRemoved`: not after a read that left `EAGAIN` behind.
* `BacklightOfDrawn`: not for the brightness that `--lcdlevel` or a keyboard plugged in again has
  set (`prev_state`, main.c:237, does not know of it: a screen that asks for none before any other
  did keeps the light of the start).
* `MacrosKept`: until two threads save or switch at the same time, or an M key is pressed while one
  saves; and not for a file that says it is of version 1, whose macros are not read when it is
  chosen and overwritten by the next save. Pauses between the steps of a macro are never written.
* `PlaysWhatWasTyped`: until a key was typed while the key thread was in a handler of a recording, or
  a step was written beyond the array, after which nothing is certain.
* `StartedRuns`: not with a pid file left empty. `ScreenReachesLcd`: not for a write that failed and
  is remembered as sent after the keyboard came back (`unsent`).
* `ShowsSelected`: not for a pass in which the last screen turned out to be missing.
* `BarsApart`: in the second variant of the CPU screen a core's bar begins on the last row of the one
  before, from two cores on, and from ten on all lie on one row. Of it the property says that two
  cores share no more than that row, and that user, system and nice time lie apart.
* `BarsOffTheTitle`: not for four rows of title under a progress bar (`limit` wraps below zero); leds
  of the analog effect reach onto the title by less than a step, and by one row does the mark of a
  peak from before the settings were changed.
* `AppliedIsShown`, field by field: buttons always; the bars not when the open dialog was asked for
  again (`tmp_bars` is set, the slider is not) or the slider stands at its end for a value beyond it
  (a file with three bars, slid down: 1 is stored and 2 shown); the rows not when they were moved in
  a dialog that was cancelled or closed before, or the plugin was started with the dialog open.
* `PlaysTheHighlighted`: a frame that is drawn but still waits for `daemon_mutex` counts, since the
  play key acts on it already; not for the song of id 0 nor for presses taken together past the end.
* `LastFrameIsShown`: not for a frame whose sending failed, which is not sent again.
* `MuteGivesBack` speaks of g15mpd, as long as the L keys or another client did not set the volume in
  between. Of the spectrum plugin nothing is claimed: its display stores the volume of now, 0 while
  muted, in `lastvolume` every 75 ms, and muting once more gives 0 back.

Bounds. `ScreenList`: three client nodes, two of them network clients that send commands, one a
plugin: an only, oldest, middle and newest node exist, and addresses are freed and reused; nothing
else is bounded. `Refresh`: one client, the clock, the keyboard and the drawing thread;
`refresh_pending` saturates at +/- `MaxPending` = 1, which keeps the only distinction the drawing
thread makes (`< 1`) and its drift below zero; `MaxBusy` bounds the threads inside a handler, three
in `refresh` (all there are) and two in `refresh_missed`, beside the drawing thread. Within them
each order of test, broadcast, load and store of two notifiers and the drawing thread occurs.
`KeyRouting`: two clients, one may leave while the other comes; two socket numbers; the cycle key
and one other. The clients are symmetric there (invariants and an action property only).
`DeviceState`: a client and the splash, two values of the backlight, so that a pass may find it
changed, unchanged or changed back, and `LcdLevel` = 1, a third one that `main` sets at the start.
`ClientProtocol`: frames of two pieces, two frames, two commands out of six that cover each class of
byte (with and without answer, with and without value): a command may come before, in the middle of
and after a frame, and overrun another; `MaxQueued` = 2 pieces wait in the stream before the client
sends another, so that a superseded byte may come before, between and after them. `ConfigStore`:
three keys, the least with a first, a middle and a last. `PluginLoader`: three files. `DaemonLife`:
three processes, so that two may find what a third left. `OldDaemon`: two clients and the clock.
`MacroRecorder`: two keys, two steps to a macro and three keys typed, one more than fit; it stops
where its threads have mixed, after which nothing is claimed. `MacroConfig`: two configurations
(`MCConfig`), the first of version 2 with a second of version 1, or the first without a version and
a second of version 3 (`Versions`); two palettes (`NumPalettes`), enough for one to be skipped;
macros numbered up to `MaxRecorded` = 33: a number is that of its configuration plus a multiple of
`MAX_CONFIGS` = 32, so that the first configuration is recorded into once. After the first overlap
the threads finish what they do, but no more keys are pressed and no signal comes. `StatsScreens`,
`StatsInfo`: the screens of the code, each there or not. `StatsSensors`: three sensors of two paths
and two retries. `StatsLayout`: 1 to 40 cores, every view, every set of sensors. `SpectrumBars`:
titles of one, three and four rows (`RowNumbers`), steps of 2 and 9 (`AnalogSteps`), each
combination of the other settings, one bar, heights below zero, in between and over the limit
(`SomeHeights`). `SpectrumSettings`: sliders up to four bars (`MaxBars`) and two rows (`MaxRows`), a
file with one, three or four bars and with rows in and out of range. `SpectrumLink`, `MpdVolume`:
volumes 0 to 3, silence, the ends and one between. `MpdPlaylist`: three songs, two presses not yet
taken, and two places above the list.

Fairness. The keyboard thread inside the walk of `ScreenList` holds the mutex and waits for nobody:
weak fairness (`FairSpec`). In `Refresh` each thread inside a handler goes on (weak fairness), the
keyboard is plugged in again, the clock ticks, and the drawing thread, which competes for a mutex
that others hold for microseconds, gets it in the end (strong fairness). For `ClockIsShown` and
`NoRefreshMissed` one assumption more: infinitely often a tick comes outside of the microseconds
between the drawing thread's test and its wait. Without it a clock that always hits the window is
never drawn. The server's thread polls in a loop and goes on (weak). g15macro's threads go on, the
key thread and a save that was begun included; none has to win a race. A process that starts or
leaves goes on. In version 1.2 the keyboard and the drawing thread get the mutexes, which both
release before they sleep for 10 ms or more, in the end (strong). The main loop of g15stats runs
every second. Nobody is ever obliged to connect, to send, to press a key or to signal.

Deadlock is checked in the three runs of the list, the refresh and the keys, where the system only
stops after a fault, which the `Stopped` step shows. It is not in the others: there a connection is
over, every process was started once, a macro program has ended. `CycleEnds` has the premise that
something may be selected: when each client has hidden itself the code walks for ever, holding the
mutex.

## The proofs

TLC checks these for one instance; TLAPS for every value of the constants, from the assumptions
named in the modules, which TLC evaluates. Every invariant that a passing run checks, and every
action property, is also a theorem, and so is the refinement. Each inductive invariant below was
checked by TLC on the instance of its run before it was proved. The layout is the same everywhere:
one lemma for an action or for the actions of one thread that preserve the invariant, one step per
conjunct where an action disturbs several, and a last step that puts them together.

`ScreenListProofs`. `RingIsWellFormed` is the core: `TypeOK /\ RingWellFormed` with two facts about
the walk is inductive (`IInv`). `RingWellFormed` relates the pointers to the history `order`; adding
appends to it and removing takes one place out, and `AddKeepsRing`, `UnlinkKeepsRing` show it for
each relinking with the lemmas `Neighbours` and `RemoveAtPlaces` on what removal does to places.
From it follow `ScreenListTypes`, `OneScreenIsUserForeground`, `DisplayLostOnlyByGivingBack`
(whoever takes over is a neighbour in the ring, hence allocated), `SwitchAlwaysToggles` (a client's
predecessor is not itself) and `CycleLandsWell`.

`RingImplementsStack` is the refinement of `ScreenStack`, for any set of addresses and clients. The
abstract Cycle is atomic and the walk is not, so the screen the walk stands on says too little
about the step it will end with. `WalkSkipped` remembers it: between the screen the user left
(`choice`) and the one the walk is at, in the order of the ring, every screen is hidden. With it
`IInv` becomes `WalkInv`, and `LandIsCycle` shows that the screen where the walk ends is the greatest
selectable place below the one it left, or the greatest at all. `AddIsConnect`, `RemoveIsDisconnect`,
`NeverSelectIsHide` and `RequestIsToggle` map the other operations, `OthersStutter` every other
step: the turns of the walk, the stores after the unlock, a fault.

`RefreshProofs`. `RefreshTypes` and `DrawsStable` come from one inductive invariant, `DrawInv`:
`TypeOK` with `MutexProtects` (the drawing thread is in its pass exactly when it holds
`lcdlist_mutex`; a client that copies a frame holds it; so does the keyboard thread in its walk)
and `Picked` (the screen picked is still the one on display). `DrawsStableScreen` alone is not
inductive: that nobody else is in a critical section does not follow from what a pass sees. One
lemma per action; `ReturnKeeps` is the release at the end of `g15daemon_send_refresh`.

`KeyRoutingProofs`. `HandlerAlwaysConnected` needs, beside the types, that a connection not yet
served has a socket (`HasSocket`) and that a served one owns the number in `lcd->connection` until
it closes it (`Connected`): two clients that are served never have the same number, so the
comparison in `Exit` tells whether the handler is the client that goes (`ExitKeeps`), and neither
`Close` nor `NoThread` takes away the handler's socket (`ClosingKeeps`). The assumption is that
sockets are positive numbers (`KeyAssumption`). `KeysGoOnce` speaks of the end of an event, so its
invariant `KeyInv` says at each place of the keyboard thread who has been given the keys by then
(`Event`); `Sockets`, that no two numbers are those of one connection, keeps a client that is both
on display and the handler from being counted twice. `Times` relates the flags of the clock to the
keys and carries `ShortPress`.

`ServerProofs`. Of a connection: `CommandsAreCarriedOut` and `AnswersAreTheirOwn` from `CommandInv`,
in which `Urgent` says what the out-of-band byte of the moment is (the command of the greatest
number, every number between it and the one carried out last having been overrun) and `Answers`
whose answer is on its way; `DecodesWhatIsEncoded` is the arithmetic of the byte.
`ScreenShowsFrames` from two invariants: `LengthInv`, which holds with any bytes strayed into the
stream, for whole frames; and `StreamInv` for the order of their pieces until one has (`stray` never
goes back, `StrayStays`): what the screen holds, what the server has read, what is under way and
what the client has still to send are, put together, whole frames; `ReadOff` splits them where
`g15_recv` stops. Of the settings: `BacklightIsOfDrawn` and `ContrastIsUpToDate` from `DevInv`,
whose `Brightness` and `ContrastSet` say what each place of the drawing pass has carried over
already, given that nothing disturbed it. It is not inductive, and `BacklightOfDrawn` does not hold,
unless `aside` leaves out the passes before the thread has set a brightness itself.

`MacroProofs`. `MacrosStay` from `ConfigInv`: until two threads overlap at most one is in the middle
of something, and the place it is at tells which file may lack macros and where they still are
(`Saved`), and the palettes written so far are those below `mkey_state` (`Counting`). Macros belong
to their configuration by their number modulo `MAX_CONFIGS`, hence the assumption that there are no
more configurations than that, which g15macro.c:930 makes sure of. `ListStaysRight` from `ListInv`,
what the list may miss at each place of the main loop. `WhatIsTypedIsPlayed` from `RecorderInv`: as
long as the two threads are not in their handlers together and no step was written beyond the array,
the steps up to the index are the keys typed, those of the macro the keys meant for it, and what a
playback has sent is their beginning.

`StatsProofs`. `SelectedIsShown` (the screen that a pass tries is the one `cycle` stands for),
`KeysUndoEachOther` (for every set of screens that are missing), `DisabledWithCause` (`Tried`: of a
sensor that never failed, the path it is tried under and its count of retries tell that it is not
there; when the screen is disabled all counts are used up) and `BarsLieApart`, for any number of
cores: `CoresFit` shows that the quotient leaves room for bars and gaps, `GroupsFit` that groups of
bars do not meet, `StackedFit` what the second variant of the CPU screen keeps, `IndicatorsFit`
that there are no more indicators than rows below them.

`PlayerProofs`. `LastFrameStays`, inductive as it is; `MutedVolumeComesBack` from `VolumeInv`, what
is kept while g15mpd is muted; `HighlightedIsPlayed` from `HighlightedIsSelected`, which tells the
song on the canvas from the one on the LCD; `BarsStayOffTitle` from `BarsInv`, where `PeakBelow`
bounds a peak by the limit it was cut off at, `LedRows` the topmost led by the step, and
`UnsignedIs` says when the subtraction wraps; `DialogIsApplied` from `SettingsInv`, whose
`SlidersAgree` ties each slider to the variable Apply reads, for any bars a file may hold.

`DaemonProofs`. `SettingsAreKept` from `ChainInv`: as long as no key is removed the chain names each
key once and its head is its last item, which is what appending behind the head needs; the file
is the same kind of list. `PluginsLoadOnce` from `PluginInv`: the entries that a daemon would load
by are different as far as `TotalPlugins` says they were written, in the section and in the file. It
rests on `LoadsDifferent`, what is loaded of different names is different, and `NthExists`, the
counting of places below a place, which avoids an induction over the list.

What stays with TLC, and why. Liveness under fairness (`CycleEnds`, `MutexReleased`, `ClockIsShown`,
`GoneIsRemoved`, `SignalEnds`, `StartedRuns`, `InfoRotates`, `ScreenReachesLcd`): no installed
prover reasons about fairness or ENABLED. The violations: they are counterexamples.

## Not modelled, and the plan

1. Lemmas towards liveness that are not themselves temporal: that the walk of the cycle key comes
   closer to a screen that may be selected with each turn, that a start comes closer to its end.
2. The end of the daemon below the process: joins of threads, and the list freed while threads of
   clients run. `DaemonLife` takes it as one step.
3. The clock's face and the keys that change its looks; the screen dump; the sections of the
   configuration, which are appended without a lock by threads of plugins.
4. Key maps and the format of the files in g15macro; values and texts in g15stats; title,
   progress bar and the texts of the players.

Drawing itself (`libg15render`), g15message, g15scriptool, g15term, g15tailf and g15dpms-monitor,
the test client and the plugin template, packaging and scripts are left out: they keep no state
beyond a loop, or none at all. Splash screen and plugins other than the clock appear in
`ScreenList` only.
