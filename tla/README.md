# A TLA+ model of the input daemon

`input_server` is the OpenXT daemon that owns the keyboards, mice, touchpads
and tablets of a host and gives their events to one guest at a time. This
directory holds TLA+ modules that model it, TLC configurations that check them
on small instances, and proofs that TLAPS checks for instances of any size.
`PROJECT.json` names every run, mutant, hazard, theorem, and the source lines
each definition stands for. Paths below are relative to `src/`.

    tlc -config MCFocusDiverts.cfg MCDomainFocus      # one run
    tlapm DomainFocus_proofs.tla                      # the proofs of one component

## 1. The system

The daemon is one thread around libevent (`main.c`). Everything it does is a
callback: a readable evdev device, a dmbus message from a guest's device
model, a D-Bus call of the toolstack or of a guest, a xenstore watch, a timer,
a plugin socket. A callback runs to completion, except that a blocking D-Bus
request (to surfman, to the database) may dispatch other D-Bus calls while it
waits; the comment at `switch.c:80` is about exactly that.

| Component | Files | State it keeps | Operations |
|---|---|---|---|
| Domain table | `domains.c`, `server.c`, `switch.h` | `domains[20]`: domid, slot, PVM flag, power state, dmbus client, vkbd, plugin, `divert_info`, remembered keyboard domain | connect, attach/detach vkbd, salvage a slot, remove, power state, shutdown reason, commands, adapters |
| Event routing | `input.c`, `encapsulate.c` | `mouse_dest`, `keyb_dest`, `mouse_parent`, `keyb_parent`, `keyb_waits_for_click`, pressed buttons and keys, scaling | `input_set*`, give/return keyboard, inject, send, clean-up of a dead domain |
| Switcher | `switch.c` | `current`, `surface_current`, the flag `switching` | switch (hot key, D-Bus, mouse edge), GPU unfocus, S3, domain gone |
| Focus rules | `focus.c` | one death window per slot | focus on connection, fallback to the UIVM on death, reboot detection |
| Diverts | `bus.c`, `input.c` | the `divert_info` of a viewer | divert mouse or keyboard, stop, mode, click |
| Plugin socket | `socket.c`, `superhidplugin.c`, `testsocketclient.c` | per plugin: announced slot, `dropped`, `slot_dropped`, `resetall`, queued configuration, delayed tail, receive buffer | send event, send configuration, reset, partial writes, kill |
| Keyboard | `input.c`, `switch.c` | `key_status`, `keyb_modbits`; matched/down/force state of each binding; numlock bits of guests | match, fire and force bindings, filter, inject, key-ups and numlock for the guest that loses the keyboard |
| Pointer | `input.c` | buttons, `mouse_pressed[5]`, `button_holding`, the guest of the last event | frame, focus modes, clones, clicks, key-ups in the guest of the press |
| Touchpad | `touchpad.c` | tap state, the last packet, click timer, corner timer, limits | packets to clicks, movements and scrolling; turn on and off; settings |
| Tablet, gestures | `usb-tablet.c`, `gesture.c` | `btnleft`, tool, `ignore_events`; strokes of five gestures, silence | events of a touch screen; recognise a gesture; keep the guest silent meanwhile |
| Secure mode, lock | `secure.c`, `secure_scripts.c`, `user.c`, `input.c` | context, status, typed fields, window, hash files, timer | enter and leave, collect keys, local and remote logins, password changes, lock |
| Xen virtual keyboard | `xen_vkbd.c`, `xen_event.c`, `input.c` | `demultitouch` statics, shared ring, lock lights | one contact of a touchscreen to a button and a place; write the ring |
| Input devices | `input.c` | slot table, device kinds, grabs, udev monitor | add, remove, probe |
| Keymaps, LEDs | `keymap.c`, `input.c` | none that is read again | load a keymap, light LEDs |
| D-Bus interface | `bus.c` | settings | getters and setters |
| Power button, lid | `pm.c`, `lid.c` | none | one signal each |
| superhid gadget | `superhid/` | kernel USB gadget: request queue, configuration | kernel module |
| Utilities | `util.c`, `user.c`, `debug.c`, `putpic.c`, `client.c` | none of their own | database, logging, pictures |

### How they interact

A device event goes through `input_inject`: key bindings first (they may
switch), then wake-up and click handling, then `input_send` to `mouse_dest` or
`keyb_dest`, which is a pointer into the domain table; the record's plugin,
vkbd or dmbus client carries the event away. The pointers are moved by the
switcher, the focus rules, the seamless commands and the diverts. All of these
hold *raw pointers to records* that the domain table frees and reuses, so the
central question of the daemon is whether any sequence of its handlers leaves
a pointer on a record that is gone, or two pointers that no longer agree.

### What is hard

* Records die in the middle of other handlers: a connection that finds its
  slot taken removes the old occupant, switches the focus, and goes on.
* The order inside `domain_gone` matters: it switches to the UIVM, which
  follows diverts, before it removes the dead record from the diverts.
* `keyb_waits_for_click` is one flag shared by mouse switches, keyboard
  switches and diverts.
* A record is made by dmbus and by D-Bus, in either order, and can be left
  half-made by a failure.
* The plugin stream is one ordered byte stream on which an event means nothing
  without the slot that was announced before it, and every write may be
  refused or half done.
* D-Bus requests nest.
* A press and its release are separate events, and anything may move the
  destination in between: the guest that has the press must get the release.
* The touchpad delays a click until a timer says that no second touch came;
  packets, settings and the keys that turn the pad off come before or after it.
* The backend that checks a password of a remote user answers late, more than
  once, or without having been asked, when another session may be on.

`PROJECT.json` lists the forty hazards that matter most, each at its line with
the properties that would catch it, or the reason there is none. Smaller ones
are in section 6.

### What makes each component correct

* Domain table: domids and slots name one record; removal leaves no pointer
  behind; a failed attachment leaves the table well formed.
* Routing: destinations are live records; a parent has a `divert_info` and its
  destination is what that names; after a mouse switch a click brings the
  keyboard.
* Switcher: the displayed record is live; a nested switch does not change the
  outcome of the outer one.
* Focus rules: the UIVM gets the focus when a PVM dies, and not while it reboots.
* Plugin socket: an event is read under the slot it came from; lost events of
  a slot are reported as lost; the plugin knows the devices of the daemon.
* Secure mode: there is a context whenever the mode is on; nothing that was
  typed and no hash file outlasts its use; a locked screen comes back.
* Keyboard: a key that went down in a guest goes up in that guest; a binding
  fires on held keys only; numlock is off in a guest that is left.
* Pointer: no guest takes a button for held that nobody holds.
* Touchpad: a tap is one click whatever the packets that follow it are, and a
  button that went down comes up.
* Tablet and gestures: only a gesture that was drawn is recognised, and the
  guest is kept in the dark only while one is under way.

## 2. Modules

### DomainFocus

The statics of `domains.c`, `input.c`, `switch.c` and `focus.c` that decide
where events go, and every handler that moves them. The state is one record
`sw`: in C the handlers are nested calls on shared statics, so each C function
is an operator with the C name from those statics to those statics, and a
handler composes them in the order of the code. `domain_gone`, for example, is

    focus_domain_gone -> FreeRecord -> input_domain_gone
        -> switcher_domain_gone -> check_diverts_for_the_dead

as in `domains.c:395`, with all the switching its parts may do. An action is a
whole handler: its guard is what must hold for the event to arrive, its
nondeterminism is what other programs answer.

| Model | Code |
|---|---|
| `sw.domains[r]` | `domains[r]`, the fields the focus depends on |
| `NULL`, `Rec` | no record; the index of a record |
| `client`, `vkbd`, `watched` | the record has a dmbus client, a vkbd backend, xenstore watches |
| `has_divert`, `key_domain`, `mouse_domain`, `key_follows` | `divert_info` and the fields of it the destinations depend on |
| `prev_ptr`, `prev_domid` | `prev_keyb_domain` |
| `death_window` | slots whose `focus.c` window is open |
| `shown` | the records surfman agrees to display during the handler |
| `match` | `switcher/focus-uuid` names the domain |
| `dead` | the toolstack reports the occupant of a slot as gone |

A freed record keeps what the code leaves in it: `domid`, `is_in_s3`, the GPU
flags. `current` may point at a freed record (see the hazards), and the other
properties are checked in the presence of that.

Two modelling decisions need saying. Handlers are atomic, so what nested D-Bus
calls can do is not part of this module. A dmbus client whose record has been
freed is not served again: the code would run its handlers on a cleared
record, which is undefined and is listed as a hazard.

Properties (all stated with the code they are about, at the end of the module):

| Property | Says |
|---|---|
| `TypeOK` | the statics have their types |
| `DomidsUnique`, `SlotsUnique` | a domid, a slot, names one live record |
| `ParentHasDivert` | a parent is a live record with a `divert_info` |
| `DestinationsAlive` | a destination is a live record |
| `ParentNamesDestination` | under a parent, the destination is what its divert names now |
| `DivertTargetsAlive` | no divert names a freed record |
| `ClickBringsKeyboard` | mouse and keyboard are apart only while a click is awaited |
| `RestoreIsSafe` | a remembered keyboard domain that passes the code's test is that domain |
| `SurfaceAlive` | surfman's record is live |
| `SleepResetsPrevious` | going to sleep forgets the keyboard domain |

### PluginSocket

What `socket.c` says to a plugin and hears from it, with the parts of
`input.c` and `domains.c` that call it. The statics and `struct sock_plugin`
are one record `ps` for the same reason as `sw` above. Every write has several
outcomes, so an operator for a C function maps a state to the *set* of states
it may leave, or of outcomes `[ok, s]` when it returns a value.

| Model | Code |
|---|---|
| `open` | `plug->s` is a socket |
| `src`, `dest` | the record the plugin takes from, sends to |
| `slot`, `recived_slot` | the slot last announced to the plugin, by the plugin |
| `dropped`, `slot_dropped`, `resetall`, `error` | what is still owed to the plugin |
| `dev_events` | the queue of configurations that were refused |
| `fds`, `types` | `input_dev.fd` and `input_dev.types`: which devices are open, and what the table says of them |
| `domains[r]` | `domid`, whether it has the plugin, the slot last told to it |
| `view` | what the client has made of the stream so far |

`view` follows the two clients in the tree (`superhidplugin.c`,
`testsocketclient.c`): a slot announced applies to all that follows,
`DEV_CONF` and `DEV_RESET` add and remove devices, `SYN_DROPPED` says that
events of the current slot are missing. Its other fields, and `asked` and
`crossed`, are history that the properties are about.

A write goes through, is refused because the socket is full, or finds the
connection broken. The third kills the connection and returns *true*, unless a
tail of an earlier record was still to be sent, when it returns false
(`socket.c:363`, `379`); the caller goes on with a closed socket either way.
What a read of several records does after a kill in the middle of it, and the
use of queue memory that `kill_connection` frees, are not modelled and are
listed as hazards.

`TakeWhenStale` is a proviso, not a feature of the code: with it false, no
`VM_TAKE_FROM` comes while the type table still lists a device that has been
dropped. The passing run uses it to show that the *rest* of the device protocol
is sound; section 3 says what happens without it (`input.c:2458`).

| Property | Says |
|---|---|
| `TypeOK` | the state has its type |
| `PluginPointsBack` | a live domain with a plugin is the source of the open connection |
| `LossReported` | an event lost under the announced slot is reported before the next of that slot |
| `NoGhostDevices`, `NoMissingDevices` | once nothing is owed, the plugin knows exactly the devices that are there |
| `DestAsAsked` | the destination is the domain that was asked for |
| `SlotKept` | an event is read under the slot it came from |
| `SkipReported` | an event lost because its slot could not be announced is reported |
| `DestSlotKept` | an event of the plugin reaches its destination under the plugin's slot |

`NoMissingDevices`, `DestAsAsked`, `SlotKept`, `SkipReported` and
`DestSlotKept` do not hold, and no run lists them: see "Statements that fail"
in section 3. Of the last three:

* `SlotKept`: when `send_slot` cannot announce a slot, `send_plugin_event`
  goes on and writes the event if the client has read something in between
  (`socket.c:172`).
* `SkipReported`: `slot_dropped` is one flag, and it is charged to the slot
  that is announced next, which may be another one.
* `DestSlotKept`: an event of the daemon to the destination announces its own
  slot, and the plugin's next event follows without a new announcement
  (`socket.c:484`).

### PluginWire and PluginChannel

`PluginSocket` treats a record that `send_to_plugin` accepts as one that
arrives. `PluginWire` is where that is shown. It models the bytes: a write
that takes any part of a record, the tail kept in `partialBuffer`, a reader
that receives pieces of any length and cuts them into records with `findnext`
(`socket.c` and `superhidplugin.c` use the same loop). A byte is the record it
belongs to and its place in it; the first is the magic number. `PluginChannel`
is the promise: a FIFO of whole records, emptied when the connection ends.
`PluginWire` implements it under the mapping of a record to its bytes
(`ImplementsChannel`). `sent` and `got` are history on both levels.

Fairness is `WF(Receive)`: libevent calls the reader as long as its descriptor
is readable, and the reader is never disabled while bytes wait, since what it
keeps is always shorter than a record. Nothing obliges the writer to write, so
the tail of the *last* record may wait for ever, and `EarlierArrives` claims no
more than that earlier ones arrive.

### Touchpad

A packet of the pad goes through `process_packet` and everything it calls:
finger detection with its hysteresis, tap states, clickpad zones, scrolling,
movement. `tpad` holds the statics of `touchpad.c`, `held` the buttons that are
physically down, `pointer` what a reader of the events has made of them. The two
timers are actions of their own, and so are the keys that turn the pad off and
on, the D-Bus settings, and a pad that is plugged in again (`touchpad_added`).

What the code forgets is counted and not wiped away. `init_touchpad_state`, when
the pad is turned on or found again, sets the tap state back: a tap that waits is
then not clicked, although its timer still fires (`touchpad.c:1082`, `383`), and is
counted in `dropped`; a drag is not ended, and its button joins `lost`. So does
the button of a clickpad whose release comes with the finger above the bottom
edge (`touchpad.c:929`) or while the pad is off (`999`): `Swallows`. `travelled`
is about the finger since the filter saw it come down, which after a restart it
does anew.

Pressure is what `detect_finger` makes of it (on, off, keep). How far the
pointer moves and how often the wheel turns is left open: whether a packet of a
moving finger moves the pointer is a choice.

| Property | Says |
|---|---|
| `TapsMatchClicks` | no click is made twice or made up, and none is missing but those of the tap that waits for a second touch and of taps dropped by a restart |
| `TapClicks` | a tap does not wait for ever: the wait ends, with a click or without (liveness) |
| `DownButtonsAreHeld` | a button that is down for the reader is held on the device, a clickpad's as the button it was pressed for; or it is that of a drag, or one whose release is in `lost` |
| `AutoscrollHasFinger` | the corner timer runs only while a finger rests there |
| `MovesOnlyTravellers` | a tap leaves the pointer where it is |

Fairness is `WF(send_left_click_event)`: libevent runs a timer that is due. The
timer is never disabled while a tap waits for it; that is what the property
would show broken.

### Gesture and UsbTablet

`Gesture` is `gesture.c`: five gestures, each a list of strokes that a contact
fits or does not, side by side on one stream of contacts. The table of the
one-finger drag has no end mark (`gesture.c:140`); what is read past it is a
choice made once, in the initial state. `UsbTablet` extends it with
`usb-tablet.c`: a device that reports slots, contacts, positions, pen and finger
one change at a time, and may drop the rest of a packet. While the pen or the
rubber of a monotouch tablet is in range, every EV_ABS event stays away from the
gestures and from the guest (`PenHides`, `usb-tablet.c:143`); a touch with the
rubber is the right button, which is not followed. `drawing` is history: whether
a gesture was under way at the last report that `handle_gestures` looked at. A
report that presses the left button is not looked at, and goes to the guest even
in silence (`usb-tablet.c:204`); the release that follows may then be kept from it
(`lost`).

| Property | Says |
|---|---|
| `SilentForAGesture` | `goSilent` says whether a gesture is under way, and from one report to the next the guest meets silence exactly if one was under way at the first |
| `LeftFollowsTouch` | the guest's left button is the daemon's, but for a release that was lost |
| `GestureWasDrawn` | a recognised gesture was drawn in all its strokes and by nothing else |

### SecureMode

The window in which a user signs in or sets a password. `auth` holds the
statics of `secure.c` and of the fields in `input.c`, the platform user in the
database and the hash files; `screen` says whom the screen shows; `backend` what
the program that talks to the server has been asked. The scripts of
`secure_scripts.c` are sets of exit codes, so each function that runs some is a
set of states, as in `PluginSocket`. The backend answers late, more than once,
or for a login it began by itself.

| Property | Says |
|---|---|
| `SecureHasContext` | in secure mode there is a context (the escape key reads its flags unchecked) |
| `PasswordsForgotten` | nothing that was typed outlasts the session |
| `HashFilesExplained` | a hash file exists only while its user's answer is awaited, or a write failed |
| `OkMeansDone` | when success is told no session goes on |
| `InProgressIsAnswered` | "in progress" is told only while more will be said |
| `LockHolds` | the timer of a locked screen runs as long as the session |
| `LockedScreenReturns` | a guest that gets the locked screen loses it again (liveness) |

Fairness is `WF(revert_to_auth)`, the timer of a locked screen.

### Vkbd and Pointer

`Vkbd` is the last step to a PV guest: `demultitouch`, which makes a button and
a place of the first contact of a touchscreen and holds the button back until
the place has gone, the drain of its queue, and what the guest has been told.
`Pointer` is the half of `input_inject` that is not about keys. It extends
`DomainFocus`, so that the routing it uses is the same `sw`, moved by the same
requests; `pt` holds the other statics of the path, `told` what each guest takes
for held, `hw` the hands of the user. A place is in or out of the viewer's frame.
`MouseEdge` is the end of `input_inject`: a step past the edge of the screen
switches (`switcher_switch_on_mouse`, `input.c:1763`), unless a diverted guest
gets the step.

| Property | Says |
|---|---|
| `NothingStuck` | no guest takes a button for held that nobody holds |
| `ListedAreHeld` | `mouse_pressed` has one entry for each held button while the mouse is diverted, and none otherwise |
| `HoldKeepsGuest` | CLICKHOLDFOCUS keeps the guest from the press to the report after the release |
| `TouchSettles` | between two reports nothing is held back, the button is what `demultitouch` believes, and it is up without fingers |

### Keyboard

The half of `input_inject` that is about keys: `key_status`, bindings that fire
once or with force after being held, the filter of a viewer, secure mode's
share, the old seamless mode in which two guests get keys, and each way the
keyboard moves, with `input_keyboard_reset` and `turn_numlock_off` for the guest
that loses it. It extends `DomainFocus` for the routing and `Vkbd` for `Told`.
`SecureMode` is reduced to its two effects here, off or on and locked or not.
`KeyboardInit` starts from any routing that `DomainFocus` may have come to, with
no key down; the run takes one of them.

Some releases the code keeps from a guest that has the press. They are excepted
by name, so that `NoKeyStuck` is about the rest: `Leave_behind` (a filter at
`input.c:753`, the old seamless mode at 914, a viewer that dies at 622) and
`Withheld` (secure mode, 2365). `missed` holds the keys whose release the
bindings did not see.

| Property | Says |
|---|---|
| `NoKeyStuck` | the guest with the keyboard takes no key for held that `key_status` has not, the others none |
| `MatchIsHeld` | a binding has matched, and goes on to its force, on held keys only |
| `ModbitsHeld` | the modifiers a filter has seen are held, and are those of this viewer |
| `NumlockOff` | an HVM guest that the keyboard leaves has numlock off |

`PointerTypeOK`, `KeyboardTypeOK`, `TouchpadTypeOK`, `TabletTypeOK` and the
`TypeOK` of `PluginWire` hold too; no run lists them, since every property above
says more. `SecureTypeOK` is proved (section 4).

## 3. Runs

`PROJECT.json` lists twelve runs. None uses symmetry or a state constraint, and
every one that passes explores its whole state space. Deadlock is checked.

### The focus

`MCDomainFocus` gives the slots: domain 1 is the UIVM (slot 0), and all the
others want slot 1, so that connections and attachments salvage it. What these
invariants say is proved for tables of any size (section 4); the runs are there
to show that they can be violated (the mutants), to fire every action, and to
check what the theorems except. They are small for that reason. Each run
switches on the callers that can disturb its properties: the sets `Viewers`,
`Seamless`, `Sleepers`, `Rebooters`, `GpuDomains`, `VkbdDomains` and `SlotCalls`
say which domains use a feature. Requests to switch (D-Bus, hot keys, mouse
edges), connections and deaths are on in every run.

| Run | Shows |
|---|---|
| `focus_table` | two records for three domains, so that the table is full and records are reused: domids, slots and click hold while a PV guest with its own GPU that attaches its vkbd and a PVM that sleeps and reboots compete for a slot (salvage, `set_slot` to -1 and 0) |
| `focus_diverts` | three records for a UIVM, a viewer and a seamless PVM that wants the viewer's slot: no dangling pointer, the surface's and the remembered keyboard domain's included, and destinations and diverts agree, **provided the UIVM does not divert its own input** (`UivmDiverts = FALSE`) and no dead PVM loses its slot to an attachment (`VkbdDomains = {}`) |
| `focus_salvage` | without the second proviso a remembered keyboard domain is a freed record, and gets the keyboard (finding) |

Three records are enough for a viewer, its target and the UIVM, and for a mouse
and a keyboard domain and a third that takes one of them. The bounds that are
not instance sizes: slots asked of `set_slot` are -1 and 0 (`MCSlots`); the
mouse-edge configuration gives 0..9 or "previous". `focus_salvage` is one
behaviour of `DomainFocus`, written down in `MCFocusSalvage` as the twelve
actions it takes, since the instance that has it is too large to search.

### The plugin socket

One or two device slots: two are needed to announce one slot after another and
for a queue with more than one entry, which is written from its end. One domain
record is enough for the stream, and two for `PluginPointsBack`, which is about
a source that moves or is reused. Event values do not matter to the protocol and
are left out, so nothing needs a bound: the queue has at most one entry per
slot.

| Run | Shows |
|---|---|
| `plugin_stream` | with any writes refused or broken, a loss under the announced slot is reported and no device survives its removal, **provided no plugin asks while the type table is stale** |
| `plugin_domains` | domains created, removed and reused while plugins come, go and change their source |
| `plugin_wire` | bytes make records again, in order and once; the refinement and its liveness |

`plugin_wire` uses records of 3 bytes (a first, a middle, a last), a reader's
buffer of 6 (a rest and more than a record besides; the code has 100 records), a
socket of 7 (never a whole number of records) and 4 records per connection, so
that a tail, two records under way and one delivered can coexist.

### Touchpad, tablet, secure mode

| Run | Shows |
|---|---|
| `touchpad` | any packets, both timers, keys and settings in every order: each tap becomes one click, but one that a restart drops; no button hangs but those whose release is swallowed |
| `usb_tablet` | a tablet that draws, and gestures alone with contacts at will: silence and recognition agree with what was drawn |
| `secure_mode` | sessions, locks and late answers with scripts failing in each way: a session ends with its window, its passwords and its files, and a locked screen comes back |

`touchpad` reports two values of x and two of y on a pad of ten by ten: inside
and in the zones at the edge and in the corner, farther apart than a tap may
move, and within the range, so that the limits stay what they were. There is no
zone at the top (`TopEdge = 0`): its corner does what the one at the bottom
does. A tap may be dropped once (`MaxDropped = 1`), at any time.
`MinScrollPackets = 0` shortens the wait in a corner (3 in the code) by packets
that all do the same. Clickpads and pads with buttons, and both settings, are
initial states.

`usb_tablet` has two kinds of behaviour, told apart by `driven`: a monotouch
tablet (`MONOTOUCH = TRUE`) with pen, rubber and
one finger, two slots (the second above the daemon's arrays) and the two ends of
a diagonal; and the gestures alone, with four places of which two lie in two
regions at once, which is what makes several gestures advance together.

`secure_mode` has one user, who is also the platform user; the contexts are a
remote login, a local password to be set with confirmation, and the root
password. The backend works on one login at a time (`MaxLogins = 1`) besides
those it begins by itself; two users would add only interleavings of files and
counts that are kept per user. Its answers are one of each class
of `auth_remote_status`.

### Pointer and keyboard

Both start with the UIVM, a viewer and a third guest connected and the viewer
on the screen: the connections are those of `DomainFocus`, taken as one step.

| Run | Shows |
|---|---|
| `pointer` | two mice, or two fingers, with every focus mode and the frame crossed with buttons down: no button is left held, no contact is held back |
| `keyboard` | keys alone, as binding and as shortcut while everything that can move the keyboard does: no guest is left with a key held or numlock on |
| `pointer_repeat` | a click inside the frame is not repeated (finding) |

`pointer` has a mouse with two buttons and one with one: a button that is down
on both mice, and one that is down besides another. In it the routing changes
only at rest (`MayInterrupt = FALSE`), at the edge of the screen as well as by a
request: with a button held, `set_mouse_domain`
sends no key-up, and the release goes to another guest than the press; the run
that allows it is `pointer_repeat`. A viewer with CLONEEVENTS but without
CLICKHOLDFOCUS is not in `Modes`, and touch is not mixed with mice.

`keyboard` has one binding of two keys that is a shortcut of the viewer as well,
so that filter and binding meet, at most two keys down on one of two keyboards
(`used`), `FORCE_TICKS = 0` (six in the code: ticks that only count) and a
numlock that is followed in one guest.

### Mutants

Every property of a passing run has a mutant: an operator beside the one it
replaces, marked as a slip or a mutant, with a plausible slip of the pen (a
parent not cleared, one of two diverts not looked at, a flag not set, a tail
forgotten). With the slip in place the run finds the property violated.

### Findings

`input.c:1490` (`pointer_repeat`). `dup_mouse_clicks` is to repeat a click that
is within the frame when a viewer diverts the mouse elsewhere ("if mouse
pressed, and click was within current frame, repeat click", `input.c:794`). Its
test asks for a y above `sframe_y1` and below `sframe_y1`; no click is.

`domains.c:181` (`focus_salvage`). `reset_prev_keyb_domain` is to make every
record forget a domain that goes, and looks only at initialised records. When
`domain_attach_vkbd` sets a record up to which `current` still points, and its
`domain_assign_slot` salvages the slot from a dead PVM with the keyboard, the
switch to the UIVM remembers that PVM in the record being set up
(`switch.c:93`), which is not initialised before `domains.c:1322`. The removal
leaves it there, and the next switch to the guest gives the keyboard to a freed
record, or to whoever has it by then if the domid is the same. It was met when
the invariant behind `RestoreIsSafe` would not go through the attachment.

### Statements that fail

These are stated in the modules and refuted by TLC when they are added to the
configuration named; no run lists them.

About the focus (in `MCFocusDiverts.cfg`):

* `DestinationsAlive` with `UivmDiverts = TRUE` and `Viewers = {1}`. `domain_gone` switches to the
  UIVM before it removes the dead record from the diverts (`domains.c:434`). If
  the UIVM diverts its input to that record, the destination is set to it again
  after `input_domain_gone` had cleared it.
* `ClickBringsKeyboard` in a run with viewers. `input_set_keyb` clears the wait
  for a click even when the mouse is in another domain (`input.c:858`), so that
  the click of `input.c:1750` ("If your keyboard is in another castle, get it
  back on click") does nothing after a divert has been stopped.
* `SleepResetsPrevious` with `Sleepers = {2}` and `Seamless = {1}`. The comment at `domains.c:502` says a
  sleeping domain forgets its remembered keyboard domain; the switch to the UIVM
  on the next line saves it again.

About the plugin socket (`MCPluginStream.cfg`; `DestAsAsked` and `DestSlotKept`
in `MCPluginDomains.cfg`):

* `NoGhostDevices` with `TakeWhenStale = TRUE`. Dropping a device leaves its
  type in `input_dev.types` (`input.c:2458`), and `sock_plugin_sendconfig` goes
  by the types (`input.c:2966`).
* `NoMissingDevices`. `send_plugin_dev_event` flushes the queued configurations
  and then sends the reset that was owed before them (`socket.c:297`);
  `send_plugin_event` has the two in the right order (`socket.c:315`).
* `DestAsAsked`. `plug->dest` keeps pointing at the record of a domain that is
  gone (`socket.c:472`).
* `SlotKept`, `SkipReported`, `DestSlotKept`: see PluginSocket in section 2.

About the others:

* `NoTapDropped` in `MCTouchpad.cfg`. The tap that waits for its timer when the
  pad is turned on or found again gets no click (`touchpad.c:1082`, `383`).
* `NoReleaseLost` in `MCTouchpad.cfg`. `handle_clickpad` looks at the buttons only
  while the finger is at the bottom edge (`touchpad.c:929`), so a button that is
  pressed there and released farther up stays down for the reader; so it does
  when the release comes while the pad is off (`999`), and at the end of a drag
  during which the pad is turned on again (`1082`).
* `ZonesPreserved` in `MCTouchpad.cfg` with a range from 1 to 11 (`RightEdge = 9`)
  and a pad that reports 12. `adjust_overflow` ("Preserve the
  reported zone size", `touchpad.c:969`) moves the edge once for each larger
  value.
* `ClickpadPressedIsHeld` in `MCTouchpad.cfg`: the flag of `touchpad.c:133` stays
  set where a release is swallowed.
* `LockAsAsked` in `MCSecureMode.cfg`. The flags of a locked session are stored
  with the platform user (`switch.c:288-295`), so that a lock that may be left
  is one that may not.
* `FilesOutlastProgress` in `MCSecureMode.cfg`. An answer that says "in progress"
  removes both hash files (`secure.c:714`); the local one is wanted when the
  login succeeds.
* `LockForcesScreen` in `MCSecureMode.cfg`. A session that begins while the old
  window closes sets no timer (`secure.c:331`).
* `PressedAlive` in `MCPointer.cfg` with `MayInterrupt = TRUE`. The loop that
  takes a dead guest's entries off the list ends after the first
  (`input.c:633-643`).
* `NothingStuck` in `MCPointer.cfg` with a mode `{"CLONEEVENTS"}`. The release of
  a button that went down in the frame and comes up outside goes to the guest of
  its entry (`input.c:1533`); the viewer that had a clone of the press gets none.
* `PvNumlockOff` in `MCKeyboard.cfg` with `PvDomains = {3}`. The numlock press
  that `turn_numlock_off` injects toggles the bit it has just cleared
  (`input.c:1009`, `xen_vkbd.c:50`).

## 4. Proofs

### DomainFocus_proofs

For every table size, every set of domains and every assignment of features,
from `ConstantsAssumption` alone:

| Theorem | Statement |
|---|---|
| `TypeCorrect` | `Spec => []TypeOK` |
| `ParentsSafe` | `Spec => []ParentHasDivert` |
| `DomidNamesOneRecord` | `Spec => []DomidsUnique` |
| `SlotNamesOneRecord` | `Spec => []SlotsUnique` |
| `Soundness` | `Spec => []IInv`, from which the four follow |

The inductive invariant is `Sound(sw)`: the state has its type, parents are
live records with a divert (`ParentsIn`), *every record with a divert target
has a divert_info* (`TargetsOwned`), and domids and slots are unique among live
records. `TargetsOwned` is the strengthening: `set_kbd_domain` and
`set_mouse_domain` make a parent of any record with a target, so without it the
parent they make need not have a `divert_info`. It is needed for freed records
as well, which may still be pointed at by `current` and switched to.

Two facts shape the argument. The parents are *not* safe in the middle of
`domain_gone`: between the release of the record and `input_domain_gone` a
parent may be free. So the lemma is about the composition of the two, and
everything after it starts from a sound state again. And a removal may happen
in the middle of a connection: `SetupDomain` writes a domid into a record that
is not live yet, then may salvage the slot, which removes another. The relation
`Removes(s, d, t)` says what such a nested removal keeps (the domids and the
slots of all others), so that uniqueness survives; `Moves(s, t)` says the same
of routing and switching, which change pointers and never the table. There is
one lemma per C function, one per group of handlers, and `NextSound` joins them.

There is no liveness property of `DomainFocus`: every step is a reaction to the
environment and nothing in the table must eventually happen.

The second half of the module is about where events go:

| Theorem | Statement |
|---|---|
| `SurfaceInUse` | `Spec => []SurfaceAlive` |
| `TargetsInUse` | `~UivmDiverts => (Spec => []DivertTargetsAlive)` |
| `DivertNamesDestination` | `~UivmDiverts => (Spec => []ParentNamesDestination)` |
| `DestinationsInUse` | `Orderly => (Spec => []DestinationsAlive)` |
| `RestoresTheLiving` | `Orderly => (Spec => []RestoreIsSafe)` |
| `RoutesKept` | `Spec => []RInv`, from which the five follow |
| `ClickFetchesKeyboard` | `Seamless = {} /\ Viewers = {} => (Spec => []ClickBringsKeyboard)` |

`~UivmDiverts` is needed: `domain_gone` switches to the UIVM before it removes
the dead record from the diverts, and TLC shows what a divert of the UIVM does
then (section 3). `Orderly` is `~UivmDiverts /\ (VkbdDomains = {} \/ Pvms = {})`:
it leaves out the attachment that salvages a slot from a PVM, and the finding of
`focus_salvage` is what happens there. No other constant is restricted, and no
smaller proviso would do.

The invariant is stated for a state *and* a record `g`: the one that a removal
has freed and diverts may still name. `Fit(s, g)` says that targets are in use
or are `g`, that a destination under a parent is what the divert names once `g`
has been dropped (`Left`), and that what records remember of the keyboard is
alive. Between handlers `g` is `NULL`; `domain_gone` makes it the dead record,
all the switching inside is shown to keep `Fit(s, g)`, and
`check_diverts_for_the_dead` turns it back into `Fit(s, NULL)`. The UIVM has no
divert at every one of these states, which is why a switch to it cannot lead the
mouse to `g`. `Idle` says which flags a freed record has lost, without which a
connection that reuses it would inherit them.

The invariant of the last theorem, `Calm`, is that only viewers have a divert and
no record remembers a keyboard domain, so that without viewers every function
that moves one destination moves the other or sets the wait. With a viewer the
property is false: `input_set_keyb` ends the wait wherever the mouse is, and a
guest may end a divert that it never made (section 3). A seamless guest takes
the keyboard without the mouse on purpose.

### PluginSocket_proofs

For any number of devices, domains and records, from `PluginAssumption`:

| Theorem | Statement |
|---|---|
| `TypeCorrect` | `Spec => []TypeOK` |
| `PluginAttached` | `Spec => []PluginPointsBack` |
| `LossIsReported` | `Spec => []LossReported` |
| `NoGhosts` | `Spec => [](~TakeWhenStale => NoGhostDevices)` |
| `Soundness` | `Spec => []IInv`, from which the first three follow |

`PluginPointsBack` is about records in use, and is not inductive: a record that
is freed keeps its plugin pointer. The invariant is `ps \in Safe`, the states of
the right type in which *every* record with the plugin, in use or not, is the
source of the open connection (`Attached`); a record that is reused starts
without one. As each C function is a set of states or outcomes, its lemma is an
inclusion: from a safe state it leaves only safe ones, whatever its writes did.
The configuration loop is a recursive function inside an operator, and the
prover must be shown that such a function exists: `TurnsExist` does this by a
least counterexample among the numbers of turns, since the induction theorems of
the library take an operator as a parameter and cannot be used.

`LossReported` is about what the client has read. `Heard`, the other part of
`Safe`, ties that to the statics: on an open connection the slot the client was
told last is `slot`, and the only slot of which it may have missed an event since
the last SYN_DROPPED is that one, and then `dropped` is set. It breaks in the
middle of the C functions only where the flag is cleared after the report has
gone through, so `ReportSafe` is about the outcome and not the state.

`NoGhosts` needs what the queue stands for. `Owes` says, of a queue, the flag
`resetall`, the devices the client knows and the pointers there are: a device has
one entry; what the client knows and is no pointer is to be reset; only pointers
are to be configured, and one that the client knows only after a reset. Each way
a flush may end, all of the queue written, stopped at an entry or in the middle
of one, leaves it true of what is left (`FlushedOwes`, `StoppedOwes`,
`HalfOwes`), and so does adding to the queue (`ConfOwes`, `ResetOwes`). `Tracks`
puts it in a state, and `Apart` is the relation of two states between which only
other things happened, which every write of an event or an error is. `KnowsInv`
is that the client of a domain in use is so tracked. It is not true of a plugin
that nobody listens to: such a plugin misses removals, and is told to forget
everything when a domain is taken (`ForgetTracks`, `SendConfigTracks`).

The hypothesis `~TakeWhenStale` is the proviso of section 2: with a stale type in
the table, the configuration that follows VM_TAKE_FROM announces a device that
is gone, and the property is false.

### PluginWire_proofs

For any size of records, of the reader's buffer and of the socket, and any
number of records, from `WireAssumption`:

| Theorem | Statement |
|---|---|
| `StreamIsChannel` | `Spec => ImplementsChannel`: the byte stream implements `PluginChannel` |
| `RecordsHandedOn` | `Spec => []NoRecordWaits` |
| `TypeCorrect` | `Spec => []TypeOK` |
| `StreamInvariant` | `Spec => []IInv`, from which the three follow |

The invariant is the abstraction of a byte stream that TCP books draw: what the
reader keeps, then what is in the socket, then the tail the writer keeps
(`InFlight`), are the bytes of the records accepted and not delivered
(`Pending`), record by record and in order (`Carries`). A write moves bytes from
one part to the next or appends a record at the end; a read takes records off
the front. That `findnext` takes *all* whole records, and that they are the
first of `Pending`, would be an induction on the length of what was read; here
it is a least counterexample in the well-founded order of the numbers
(`Least`), which the prover can do. It needs that a record begins with the only
byte that passes for a magic number.

### Touchpad_proofs

For a pad of any size, edges, tap distance and buttons, any number of dropped
taps, and from `TouchpadAssumption`:

| Theorem | Statement |
|---|---|
| `TapsBecomeClicks` | `TouchpadSpec => []TapsMatchClicks` |
| `CornerNeedsFinger` | `TouchpadSpec => []AutoscrollHasFinger` |
| `TapsDoNotMove` | `TouchpadSpec => []MovesOnlyTravellers` |
| `NoOtherButtonHangs` | `TouchpadSpec => []DownButtonsAreHeld` |
| `PadInvariant` | `TouchpadSpec => []IInv`, from which the four follow |

The first three are not inductive. What they need besides the type is that the tap
state tells the truth: a finger is on the pad exactly in `Touching`, it has
travelled exactly in `Moving` (while packets are looked at), and a timer that
nobody frees is loose. The proof follows the stages of
`process_packet`; each has a lemma that says what it leaves alone
(`SameSettings`, `SameTap`, `SameEdges`, `SameButtons`) and `OnPacket` puts them
together. `TapStep` is the one about the gestures: clicks made and taps waiting
after a packet are those before it and the tap it completes. For the buttons,
`ButtonStep` says of the stages that look at them that a button left down is held
afterwards, or was not held before either, or its release was overlooked;
`LeftStep` that the gestures leave the left one down only in a drag.

### UsbTablet_proofs

For any screen, fingers, slots and places, from `GestureAssumption`,
`GesturePointsAssumption` and `TabletAssumption`:

| Theorem | Statement |
|---|---|
| `LeftFollows` | `TabletSpec => []LeftFollowsTouch` |
| `SilenceIsForGestures` | `TabletSpec => []SilentForAGesture` |
| `RecognisedWasDrawn` | `GestureSpec => []GestureWasDrawn` |

`LeftFollowsTouch` is not inductive: the tool may become a finger while a pen
has the button down. `LeftInv` adds that a button that is not up has a finger on
the screen (`PressTouches`) and that a press in the guest is a finger's or that
of a pen that touches (`LeftExplained`). Both rest on the device, which changes
its tool only while nothing touches.

The other two are about the loop of `gesture_handler` over the list of gestures,
a recursive function in the model. `HandlerEnds` reasons about it once: if
trying the gesture `k` leads from `R[k - 1]` to `R[k]`, the last result is in
`R[Len(L)]`. That the function exists, and the step from one index to the next,
are least counterexamples again (`Least`). For the silence, `R[k]` says that
`tracking` counts, among the first `k` gestures, those under way; trying one
leaves the counts of the others alone (`At`) and no gesture is in the list
twice; that the silence is that of the last report follows then (`SilenceInv`).
For what was drawn it says that the last `n` contacts are the first `n` of
the gesture, for the `n` that its two counts stand for (`Matched`): what a step of
the table asks (`NextStep`) is what the property asks of that contact. Drags
that are not in the list while the daemon stands back have matched nothing, or
the contacts made meanwhile would come between theirs. The crosses are claimed
only where their table has an end; the proof needs `past = "end"` at the one
place where the end is looked for.

### SecureMode_proofs

For any users, contexts, answers and number of logins, from `SecureAssumption`:

| Theorem | Statement |
|---|---|
| `TypeCorrect` | `SecureSpec => []SecureTypeOK` |
| `ContextInSecureMode` | `SecureSpec => []SecureHasContext` |
| `TypedIsForgotten` | `SecureSpec => []PasswordsForgotten` |
| `SuccessEndsSession` | `SecureSpec => []OkMeansDone` |
| `HashesAreRemoved` | `SecureSpec => []HashFilesExplained` |
| `InProgressIsHeard` | `SecureSpec => []InProgressIsAnswered` |
| `LockTimerRuns` | `SecureSpec => LockHolds` |

The invariant of the first four is these together (`Sound`), with the types of
`screen` and `backend`. It is inductive as it stands, but not every function preserves it:
`input_clear_passwd` copies the user name of the context into its field, so
that, called without a session and with a context set, it would leave a name
behind. Its callers are the escape and the enter key, which need secure mode.
Between their first call and the last the session may have ended, though, and
what saves the field is that whatever ends a session clears the context first.
That is `Closed(s)`, a context only in secure mode, and the lemmas say
`Session(s, t)`: `t` is sound, and closed if `s` was. `Closed` is no invariant of
the specification, since a client may set a context before it begins.

The functions that run scripts are sets of outcomes; each lemma takes one
outcome and shows that its state is reached by steps that are sessions, whatever
the exit codes. `awaits` stays in its type because an answer needs a login that
was asked for and only one that was started automatically comes without.

### Keyboard_proofs

For any keyboards, bindings, shortcuts and number of keys held, and any routing
to start from, on top of `DomainFocus_proofs` and from `KeyboardAssumption`:

| Theorem | Statement |
|---|---|
| `AnyRoutingStarts` | `Spec => [](AtRest => KeyboardInit)`: every routing `DomainFocus` comes to is one to start from |
| `NoKeyHangs` | `KeyboardSpec => [](NoVideoKey => NoKeyStuck)` |
| `MatchesAreHeld` | `KeyboardSpec => []MatchIsHeld` |
| `FilterModbitsHeld` | `KeyboardSpec => []ModbitsHeld` |
| `KeyboardTypeCorrect` | `KeyboardSpec => [](NoVideoKey => KeyboardTypeOK)` |
| `NumlockGoesOff` | `KeyboardSpec => NumlockOff`, if `~numlock_restore` |
| `KeyboardSoundness` | `KeyboardSpec => []KInv`, from which the last five follow |

The invariant is stated of a *path state* `c`, the value that is passed from
`input_read` to the function that sends: `PathOK(c, H)` says that the routing is
sound in the sense of `DomainFocus_proofs`, that no guest is told of more than
`key_status` (`HeldAmong`), and that bindings and modifiers go no further than
the keys of `H` (`MatchedIn`, `ModbitsIn`). `KInv` is that of the state between
handlers, with the keys that are held or missed for `H`. None of the three
properties is inductive: a release is sent to the guest that has the keyboard
*then*, so `NoKeyStuck` needs the parents and targets of the routing, and a
filter that is removed must leave no modifiers, so `ModbitsIn` says that a viewer
without a filter has none. A binding may fire a switch in the middle of a key's
way to the guest, between the update of `key_status` and the send, so each
lemma is about a path state in which the key has been noted but not sent
(`Ready`), and the loop over the bindings is a fold whose every prefix is one.

`NoVideoKey` is that no keyboard has KEY_SWITCHVIDEOMODE, which becomes Windows
and P on the way to the guest (`input.c:1660`): `key_status` knows neither of
the two, so a switch sends no release for them. Where such a key is held, the
theorem would be false; what the code does with bindings and filters does not
depend on it, and the other two have no hypothesis.

`NumlockOff` is about a step, so the same lemmas say of each function how it
takes one path state to another. `Dims(c, T)` is that of a function that may run
before the keyboard moves: a guest whose light is known, or that has numlock off,
is so again afterwards, unless it is one the daemon works out the light of. The
keyboard moves only out of a path state that `turn_numlock_off` has left
(`AllOff`), and `Quits(c, T)` says that of a whole handler. What makes it true is
where the injected numlock press goes: it passes `input_inject` again, with its
bindings, its filter and the old seamless mode, and reaches the guest that has
the keyboard, since either no key is held any more (`input_keyboard_reset` comes
first) or the mouse's guest is that same one (`Quiet`); `KInv` adds that numlock
is on only in guests whose light is followed (`OnlyLamps`). With
`numlock_restore` the light is meant to stay on, so that is the hypothesis.
`PvNumlockOff`, the same of a PV guest, TLC refutes (section 3).

### Pointer_proofs

For any mice, viewers and modes of a viewer, on top of `DomainFocus_proofs` and
from `PointerAssumption`, each with the hypothesis
`Undisturbed => (PointerSpec /\ []FewHeld => ...)`:

| Theorem | Statement |
|---|---|
| `PointerRoutes` | `Spec`: the path moves the routing only in steps of `DomainFocus` |
| `NothingStaysPressed` | `[]NothingStuck` |
| `ListIsExact` | `[]ListedAreHeld` |
| `GuestKept` | `HoldKeepsGuest` |
| `TouchComesToRest` | `[]TouchSettles` |
| `PointerInvariant` | `[]PInv`, from which the five follow |

The hypotheses say what the run of section 3 has in its constants. Each is
needed: TLC refutes one of the properties when it is dropped from
`MCPointer.cfg`.

* `~MayInterrupt`: diverts, switches, connections and deaths come while nothing
  is held, and the user drags nothing over an edge that switches.
  `set_mouse_domain` sends no key-up, so a request in the middle of a
  click leaves the button down in the guest that had it, and a death leaves
  entries in the list (`PressedAlive`, section 3).
* `ClonesHold`: a viewer with CLONEEVENTS has CLICKHOLDFOCUS too. Without it the
  pointer may leave the frame with a button down; the viewer keeps its clone of the
  press, since the release goes, by the list, to its guest alone.
* Viewers are HVM guests, for the touchscreen: outside the frame the touches are
  the viewer's, and through `demultitouch` if it is a PV guest; its state is then
  that viewer's and not that of `mouse_dest`, of which `TouchSettles` speaks.
* `FewHeld`: no more buttons are down than `mouse_pressed` has room for. A sixth
  is not noted (`input.c:1511`), and its release goes where the pointer is.

`PointerSpec` starts without guests, and those of `Mortal` connect; with
`Mortal = Domids` all of the run's states are among its behaviours. The slots
that `SwitchSlot` goes to are those of the run, 0 to 2.

The invariant is stated of a path state again, and of the hands (`PointerInv`).
For the mice it is `MouseOK(c, H)`: while the mouse is diverted the list has
exactly one entry per held button, with the viewer or its guest (`Exact`);
`buttons`, a set without devices, has nothing that no mouse holds; and *every
button a guest takes for held is explained* (`Explained`): an entry sends the
release there, or the guest is the viewer, clones, and the hold keeps the focus
with its guest until the release (`HoldsFocus`). The last case is why the three
are one invariant: an entry does not know of clones, and the hold knows of
buttons only by code, so that two mice with the same button down share one. A
release by the first leaves `buttons` without it although the second holds it;
what is told goes up at the same event, and that is all `NothingStuck` allows.

For the touchscreen it is `Settled`, of the state of `demultitouch`, the
button of the guest, the fingers and the slot the driver announced last. The
slot that `demultitouch` has may be 0 while the driver's is 1, after each report
(`input.c:206`), so that a finger that stays alone on slot 1 is taken for the
first. What remains true is that a press without a finger on slot 0 has one on
slot 1, which the driver does not announce again: its release is then taken for
that of the first and lifts the button. `Undrained` is
why the drain of the queue ends within one event.

`PointerRoutes` needs the invariant as well, since `input_inject` moves the
keyboard on a click only as `Click` of `DomainFocus` does when mouse and
keyboard are apart only while a click is awaited (`ApartWaits`, from the proof
of `ClickFetchesKeyboard`).

### Model-checked only

* Liveness (`EarlierArrives`, `TapClicks`, `LockedScreenReturns`): fairness and
  ENABLED are out of reach of the prover.

## 5. Plan

What would come next, most important first.

1. `SwitchGuard`: D-Bus requests that nest inside a switch and the static
   `switching` that refuses the inner one (`switch.c:80`); an abstract switcher
   with atomic switches, which it implements or not.
2. The shared ring of `xen_vkbd.c`: connection states, a ring that is written
   when it is full, and the abstract queue it implements or not.
3. `DeviceTable`: slots of devices under removal and discovery, with the type
   table that `PluginSocket` shares.
4. The request queue of the kernel gadget, `f_hid` in `superhid/`.

## 6. Not modelled

Components:

* The device table (`input_scan`, `consider_device`, udev, grabs): what plugins
  and guests are told of devices is in `PluginSocket`; finding them is kernel
  interfaces and file names.
* Keymaps, LEDs, mouse acceleration, the idle clock: output, or arithmetic on
  single events that nothing else reads.
* The D-Bus getters and setters of `bus.c`, except those that move the focus,
  sign in or set up a viewer or the touchpad.
* `pm.c` and `lid.c`: each forwards one event as one signal and keeps nothing.
* The superhid kernel gadget, which runs in another kernel than the daemon's.
* Start-up, database access, logging and pictures.
* Nested D-Bus dispatch (see the plan), and the memory of freed structures.
  Where the code uses one (a dmbus client of a freed record, the plugin's queue
  after a kill), the behaviour is undefined and not part of the modules.

Within the modules:

* Keyboard: no sleeping guests or PVMs, so the keys that wake a guest and the
  control key are no-ops; print-screen; LEDs; `KEY_SWITCHVIDEOMODE` is modelled
  (`Emulated`) but not among the keys of the run, since its two made-up keys do
  stay held after a switch (`input.c:1660`); without a guest that has the keyboard
  that line reads through NULL, and the model goes on. A PV guest's keys pass
  `demultitouch`, which drops them while a touchscreen reports a contact on
  another slot than 0 (`input.c:587`, 245): nobody touches one in `Keyboard`.
  In secure mode a guest gets a space for a character of another field than the
  user name (`input.c:2337`). No binding has a callback that asks for
  `input_keyboard_reset` (`input.c:1918`). The target of a mouse switch is any
  live guest.
* DomainFocus: `/switcher/self-switch-disabled` is at its default
  (`switch.c:49`). Who calls `input_daemon_stop_mouse_divert`, or stops the
  keyboard's, is a known domain: for any other the code goes on with NULL, which
  `set_mouse_domain` and `set_kbd_domain` dereference (`bus.c:885`, 895).
* Pointer: speed, scaling, the conversion of relative places and how far a mouse
  must move at the edge; more than five held buttons (`input.c:1511`); the
  backend's shared ring.
* SecureMode: of a password whether it is empty; a context has one kind flag;
  the UI domain runs throughout (`secure.c:285` does not ask whether it does); a
  status that `secure.h` does not have (`secure.c:709`), which is logged and
  removes the file.
* Touchpad: distances of movements and scrolls.
* UsbTablet: scaling; what would be read or written outside the arrays for a
  slot too high, or before a slot is named (`usb-tablet.c:60`), is dropped.

Smaller hazards that no property covers: `switcher_domain_gone` may leave
`current` on a freed record (`switch.c:166`), and `switcher_switch_left` and
`_right` follow it when it is NULL (`switch.c:572`); `domain_mouse_switch_config`
blocks on the database before the record is initialised (`domains.c:1320`);
`domain_read_slot` reads one byte of a slot and terminates nothing
(`domains.c:737`); `domain_command` leaks on an unknown domain
(`domains.c:620`); `wrapper_server_recv` goes on with records after one of them
has killed the connection (`socket.c:86`).
