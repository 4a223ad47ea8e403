------------------------------ MODULE Keyboard ------------------------------
(***************************************************************************)
(* Keys on their way to the guests: the half of input_inject (input.c)     *)
(* that is about keys, the key bindings and filters that take some of them *)
(* out, and what is done for the guest that loses the keyboard: key-ups    *)
(* for the keys that are down, and its numlock turned off.                 *)
(*                                                                         *)
(* DomainFocus gives the routing (sw).  kb holds the other statics of the  *)
(* path, told what each guest takes for held, numlock the guests whose     *)
(* numlock is on, and hands the keys that are down on the keyboards.  The  *)
(* screens are shown whenever surfman is asked, and no guest sleeps.       *)
(***************************************************************************)
EXTENDS DomainFocus, Vkbd, SequencesExt

CONSTANTS
    Keyboards,          \* keyboard slots, with the keys of each
    MaxHeld,            \* bound: keys down at a time
    Bindings,           \* the sequences that switch, in the order of input_init
    Shortcuts,          \* what a viewer's filter asks for
    Mortal,             \* viewers that may go
    Lamps,              \* bound: guests whose numlock is followed
    Receivers,          \* bound: whom a viewer diverts the keyboard to
    FORCE_TICKS,        \* 6 in the code
    numlock_restore     \* input_get_numlock_restore_on_switch

ASSUME KeyboardAssumption ==
    /\ MaxHeld \in Nat /\ FORCE_TICKS \in Nat /\ numlock_restore \in BOOLEAN
    /\ Bindings \in Seq([keys : Seq(STRING) \ {<<>>}, slot : FocusSlots])
    /\ Sleepers = {} /\ Pvms = {}

VARIABLES kb, told, numlock, hands, missed

Keys == UNION {Keyboards[b] : b \in DOMAIN Keyboards}
Modifiers == UNION {sc.mods : sc \in Shortcuts}
TextKeys == {"KEY_1", "KEY_F"}
UserModifiers == {"KEY_LEFTCTRL", "KEY_RIGHTCTRL", "KEY_LEFTALT", "KEY_RIGHTALT",
                  "KEY_LEFTSHIFT", "KEY_RIGHTSHIFT"}

\* key_status, keyb_modbits and the bindings of input_dev; lights, the guests
\* whose keyboard_led_code has the numlock bit; filter, the viewers with a
\* keylist; secure mode, with the lock of its context.
KeyboardState ==
    [key_status : SUBSET Keys, keyb_modbits : SUBSET Modifiers,
     matched : [DOMAIN Bindings -> Nat], down : SUBSET DOMAIN Bindings,
     force_ticks : [DOMAIN Bindings -> 0..FORCE_TICKS],
     lights : SUBSET Rec, filter : SUBSET Rec, secure : {"off", "open", "locked"}]

-----------------------------------------------------------------------------
(* Sending.  A path state c is [s, k, t, n]: routing, kb, told, numlock.   *)

is_pv_domain(s, d) == s.domains[d].domid \in PvDomains

\* A PV guest's lights are worked out with the event; a guest does not count
\* a repeat as another press of numlock.  That a PV guest's keys pass demultitouch,
\* which drops them while a touchscreen reports a contact on another slot than 0
\* (input.c:587, 245), is left out: nobody touches one here.
Send(c, d, e) ==
    LET lamp    == e.code = "KEY_NUMLOCK" /\ c.s.domains[d].domid \in Lamps
        pressed == lamp /\ e.value = 1
        lit     == lamp /\ is_pv_domain(c.s, d) /\ e.value # 0
    IN  [c EXCEPT !.t[d] = Told(@, e),
                  !.n = IF pressed THEN Toggle(@, d) ELSE @,
                  !.k.lights = IF lit THEN Toggle(@, d) ELSE @]

\* The code does not tell guest d of these releases: told no longer has them.
Leave_behind(c, d, K) == [c EXCEPT !.t[d] = @ \ K]

\* A release that secure mode keeps from the guests that would get it.
Withheld(c, e) ==
    IF e.value # 0 THEN c
    ELSE [c EXCEPT !.t = [r \in Rec |-> IF r \in {c.s.keyb_dest, c.s.mouse_dest}
                                       THEN c.t[r] \ {e.code} ELSE c.t[r]]]

\* Slip: only the keyboard's guest is told.
input_keyboard_reset_Slip(c, both) ==
    IF c.s.keyb_dest = NULL THEN c ELSE [c EXCEPT !.k.key_status = {}]

\* Key-ups for all keys that are down.
input_keyboard_reset(c, both) ==
    LET guests == {c.s.keyb_dest} \cup (IF both THEN {c.s.mouse_dest} \ {NULL} ELSE {})
    IN  IF c.s.keyb_dest = NULL THEN c
        ELSE [c EXCEPT !.k.key_status = {},
                       !.t = [r \in Rec |-> IF r \in guests THEN @[r] \ c.k.key_status
                                            ELSE @[r]]]

-----------------------------------------------------------------------------
(* input_inject, for a key.                                                *)

\* send_keypair: the viewer gets the shortcut as presses and releases.
send_keypair(c, d, sc) == [c EXCEPT !.t[d] = @ \ (sc.mods \cup {sc.key})]

\* A key that completes a shortcut is kept from the guest, its release too when
\* the modifiers are still down.
filter_keys(c, e) ==
    LET p    == c.s.keyb_parent
        bits == IF e.code \notin Modifiers THEN c.k.keyb_modbits
                ELSE Told(c.k.keyb_modbits, e)
        t    == [c EXCEPT !.k.keyb_modbits = bits]
        hits == {sc \in Shortcuts : sc.key = e.code /\ sc.mods = bits}
    IN  IF p = NULL \/ p \notin c.k.filter THEN [c |-> c, done |-> FALSE]
        ELSE IF hits = {} THEN [c |-> t, done |-> FALSE]
        ELSE [c |-> IF e.value # 0 THEN send_keypair(t, p, CHOOSE sc \in hits : TRUE)
                    ELSE Leave_behind(t, c.s.keyb_dest, {e.code}),
              done |-> TRUE]

Down(c, key) == key \in c.k.key_status

\* With a Windows key down the keyboard's guest gets nothing, nor with Alt a Tab
\* or with Ctrl an Esc.
input_inject_seamless_keyboard(c, e) ==
    /\ ~Down(c, "KEY_LEFTMETA") /\ ~Down(c, "KEY_RIGHTMETA")
    /\ ~(e.code = "KEY_TAB" /\ (Down(c, "KEY_LEFTALT") \/ Down(c, "KEY_RIGHTALT")))
    /\ ~(e.code = "KEY_ESC" /\ (Down(c, "KEY_LEFTCTRL") \/ Down(c, "KEY_RIGHTCTRL")))

MetaKeys == {"KEY_LEFTCTRL", "KEY_LEFTALT", "KEY_LEFTMETA", "KEY_RIGHTCTRL",
             "KEY_RIGHTALT", "KEY_RIGHTMETA", "KEY_SYSRQ"}

code_is_meta_key(c, code) == code \in MetaKeys \/ MetaKeys \cap c.k.key_status # {}

\* The mouse's guest gets the keys too while one of these is down, but not a
\* Ctrl-Alt-Del.
input_inject_seamless_mouse(c, e) ==
    /\ code_is_meta_key(c, e.code)
    /\ ~(/\ e.code = "KEY_DELETE"
         /\ Down(c, "KEY_LEFTCTRL") \/ Down(c, "KEY_RIGHTCTRL")
         /\ Down(c, "KEY_LEFTALT") \/ Down(c, "KEY_RIGHTALT"))

\* KEY_SWITCHVIDEOMODE is Windows and P for an HVM guest.  Without a guest that has
\* the keyboard the code reads through NULL (input.c:1660); the model goes on.
Emulated(c, e) ==
    LET d == c.s.keyb_dest IN
    IF e.code # "KEY_SWITCHVIDEOMODE" \/ d = NULL \/ is_pv_domain(c.s, d) THEN c
    ELSE Send(Send(c, d, Key("KEY_LEFTMETA", e.value)), d, Key("KEY_P", e.value))

SendOrNot(c, d, e, sends) ==
    IF sends THEN Send(c, d, e)
    ELSE IF e.value = 0 THEN Leave_behind(c, d, {e.code}) ELSE c

\* In the old seamless mode two guests get keys, and the mouse's gets them when
\* the keyboard has none; the mouse's is not told when that ends.
input_inject(c, e) ==
    LET f     == filter_keys(c, e)
        t     == Emulated(f.c, e)
        keyb  == c.s.keyb_dest
        mouse == c.s.mouse_dest
        d     == IF keyb # NULL THEN keyb ELSE mouse
        both  == NULL \notin {keyb, mouse} /\ keyb # mouse /\ ~c.s.keyb_waits_for_click
    IN  IF f.done THEN f.c
        ELSE IF d = NULL THEN t
        ELSE IF both
        THEN Leave_behind(
               SendOrNot(SendOrNot(t, keyb, e, input_inject_seamless_keyboard(t, e)),
                         mouse, e, input_inject_seamless_mouse(t, e)),
               mouse, {e.code})
        ELSE IF keyb = NULL THEN Leave_behind(Send(t, d, e), d, {e.code})
        ELSE Send(t, d, e)

-----------------------------------------------------------------------------
(* The keyboard moves: the functions of DomainFocus with what they do for  *)
(* the guest that loses it.                                                *)

turn_numlock_off(c) ==
    LET d == c.s.keyb_dest
        t == [c EXCEPT !.k.lights = @ \ {d}]
    IN  IF numlock_restore \/ d = NULL \/ d \notin c.k.lights THEN c
        ELSE input_inject(input_inject(t, Key("KEY_NUMLOCK", 1)), Key("KEY_NUMLOCK", 0))

Leaving(c, both) == turn_numlock_off(input_keyboard_reset(c, both))

\* Slips: the keys of the new guest are released; the modifiers of the last
\* viewer stay.
Routed_Late(c, s, both) == Leaving([c EXCEPT !.s = s, !.k.keyb_modbits = {}], both)
Routed_Modbits(c, s, both) == [Leaving(c, both) EXCEPT !.s = s]

Routed(c, s, both) == [Leaving(c, both) EXCEPT !.s = s, !.k.keyb_modbits = {}]

SetKeyb(c, d) == Routed(c, input_set_keyb(c.s, d), FALSE)
SetAll(c, d) == Routed(c, input_set(c.s, d), TRUE)
SyncKeyb(c, d) == IF d \in {c.s.keyb_parent, c.s.keyb_dest} THEN SetKeyb(c, d) ELSE c

\* A seamless guest takes the keyboard or gives it back: key-ups only if it was
\* away from the mouse already, and none for the mouse's guest.
Seamlessly(c, s) ==
    LET left == Leave_behind(c, c.s.mouse_dest, Keys)
        t    == IF c.s.mouse_dest = NULL THEN c ELSE left
        u    == IF c.s.keyb_dest = c.s.mouse_dest THEN t
                ELSE input_keyboard_reset(t, FALSE)
    IN  [turn_numlock_off(u) EXCEPT !.s = s, !.k.keyb_modbits = {}]

Give(c, d) ==
    IF d = c.s.keyb_dest THEN c ELSE Seamlessly(c, input_give_keyboard(c.s, d))
Return(c, d) ==
    IF d # c.s.keyb_dest THEN c ELSE Seamlessly(c, input_return_keyboard(c.s, d))

\* switcher_switch to a record whose surface is shown.
Switch(c, d, mouse_switch) ==
    LET saved == IF c.s.keyb_waits_for_click THEN c.s
                 ELSE save_prev_keyb_domain(c.s, c.s.current)
        t     == [c EXCEPT !.s = [switcher_switch_graphic(saved, d, {d})
                                     EXCEPT !.current = d]]
        set   == SetAll(t, d)
    IN  IF d = NULL THEN c
        ELSE IF mouse_switch /\ ~KeyboardFollowsMouse
        THEN [t EXCEPT !.s = input_set_mouse(@, d)]
        ELSE IF ~t.s.domains[d].has_divert /\ PrevUsable(set.s, d)
        THEN Give(set, set.s.domains[d].prev_ptr)
        ELSE set

-----------------------------------------------------------------------------
(* Bindings (input_exec_bindings, check_for_force_binding).                *)

\* Slip: a key-up ends what has matched, not what is half-way.
Released_Slip(k) == [k EXCEPT !.down = {}]

Released(k) == [k EXCEPT !.down = {}, !.matched = [b \in DOMAIN Bindings |-> 0]]

\* How far each binding is after a press; -1 stands for a complete one.
Advanced(k, code) ==
    [b \in DOMAIN Bindings |->
        LET n == k.matched[b] + 1 IN
        IF Bindings[b].keys[n] # code THEN 0
        ELSE IF n = Len(Bindings[b].keys) THEN -1 ELSE n]

\* The last binding that is complete is the one that is called; go_to_slot then
\* returns 0.  A callback that does not has the guest's keys released
\* (input.c:1918): none of those is among the Bindings.
input_exec_bindings(c, e) ==
    LET next  == Advanced(c.k, e.code)
        fired == {b \in DOMAIN Bindings : next[b] = -1}
        last  == CHOOSE b \in fired : \A x \in fired : x <= b
        t     == [c EXCEPT !.k.matched = [b \in DOMAIN Bindings |->
                                             IF next[b] = -1 THEN 0 ELSE next[b]]]
    IN  CASE e.value = 0 -> [c |-> [c EXCEPT !.k = Released(@)], done |-> FALSE]
          [] e.value = 2 -> [c |-> c, done |-> FALSE]
          [] e.value = 1 /\ fired = {} -> [c |-> t, done |-> FALSE]
          [] e.value = 1 /\ fired # {} ->
               [c |-> Switch([t EXCEPT !.k.down = @ \cup {last}],
                             domain_with_slot(c.s, Bindings[last].slot), FALSE),
                done |-> TRUE]

\* Every second: a binding that is held long enough is called with force, which
\* is refused while there is an authentication context.
Forced(c, b) ==
    LET ticks == c.k.force_ticks[b] + 1
        over  == [c EXCEPT !.k.force_ticks[b] = 0, !.k.down = @ \ {b}]
    IN  IF b \notin c.k.down THEN [c EXCEPT !.k.force_ticks[b] = 0]
        ELSE IF ticks <= FORCE_TICKS THEN [c EXCEPT !.k.force_ticks[b] = ticks]
        ELSE IF c.k.secure # "off" THEN over
        ELSE LET t == Switch(c, domain_with_slot(c.s, Bindings[b].slot), FALSE)
             IN  [t EXCEPT !.k.force_ticks[b] = 0, !.k.down = @ \ {b}]

-----------------------------------------------------------------------------
(* Secure mode, as far as it keeps keys from the guests (SecureMode says   *)
(* what it does with them).                                                *)

input_check_secure_mode(c) ==
    LET uivm == domain_uivm(c.s) IN
    /\ c.k.secure # "off"
    /\ uivm # NULL => uivm = c.s.current

\* A character is pressed and released at once; modifiers go through while the
\* user name is typed.  That a guest gets a space for each character of another
\* field (input.c:2337) is left out: it too is released at once.
input_secure_mode(c, e, name) ==
    IF e.code \in TextKeys /\ e.value = 1
    THEN input_inject(input_inject(c, e), [e EXCEPT !.value = 0])
    ELSE IF e.code \in UserModifiers /\ name THEN input_inject(c, e)
    ELSE Withheld(c, e)

-----------------------------------------------------------------------------
(* The steps.                                                              *)

vars == <<sw, kb, told, numlock, hands, missed>>
Path == [s |-> sw, k |-> kb, t |-> told, n |-> numlock]

Follows(c) == sw' = c.s /\ kb' = c.k /\ told' = c.t /\ numlock' = c.n

HeldOn(h) == {key \in Keys : \E b \in DOMAIN Keyboards : <<b, key>> \in h}

\* input_read, for one event of a keyboard.
input_read(b, e) ==
    LET c      == [Path EXCEPT !.k.key_status = Told(@, e)]
        secure == input_check_secure_mode(c)
        hotkey == ~secure \/ kb.secure # "locked"
        tried  == IF hotkey THEN input_exec_bindings(c, e) ELSE [c |-> c, done |-> FALSE]
        unseen == secure /\ e.value = 0
    IN  /\ \E name \in (IF secure THEN BOOLEAN ELSE {FALSE}) :
              Follows(IF tried.done THEN tried.c
                      ELSE IF secure THEN input_secure_mode(tried.c, e, name)
                      ELSE input_inject(tried.c, e))
        /\ missed' = IF unseen THEN missed \cup {e.code} ELSE missed \ {e.code}

KeyDown(b, key) ==
    /\ key \in Keyboards[b] /\ <<b, key>> \notin hands /\ Cardinality(hands) < MaxHeld
    /\ hands' = hands \cup {<<b, key>>}
    /\ input_read(b, Key(key, 1))

KeyRepeats(b, key) ==
    /\ <<b, key>> \in hands
    /\ input_read(b, Key(key, 2))
    /\ UNCHANGED hands

KeyUp(b, key) ==
    /\ <<b, key>> \in hands
    /\ hands' = hands \ {<<b, key>>}
    /\ input_read(b, Key(key, 0))

\* A keyboard is pulled out with keys down: their releases are not read.
Unplug(b) ==
    LET on == {h \in hands : h[1] = b} IN
    /\ on # {}
    /\ hands' = hands \ on
    /\ Follows(Path)
    /\ missed' = missed \cup {h[2] : h \in on}

Only(c) == Follows(c) /\ UNCHANGED <<hands, missed>>

\* Every binding is looked at in turn.
ForcedInTurn(c) ==
    LET after[b \in 0..Len(Bindings)] ==
          IF b = 0 THEN c ELSE Forced(after[b - 1], b)
    IN  after[Len(Bindings)]

check_for_force_binding ==
    /\ kb.down # {}
    /\ Only(ForcedInTurn(Path))

\* The guest reports its lights.
handle_switcher_leds(d) ==
    /\ d \in Live(sw) /\ ~is_pv_domain(sw, d)
    /\ Only([Path EXCEPT !.k.lights = IF d \in numlock THEN @ \cup {d} ELSE @ \ {d}])

SwitchFocus(d) == d \in Live(sw) /\ Only(Switch(Path, d, FALSE))

\* The pointer leaves the screen; a click brings the keyboard after it.
MouseSwitch(d) ==
    /\ d \in Live(sw) /\ sw.current # NULL /\ sw.mouse_dest # NULL
    /\ Only(Switch(Path, d, TRUE))

ClickForKeyboard ==
    /\ sw.keyb_waits_for_click /\ sw.mouse_dest # NULL /\ sw.mouse_parent = NULL
    /\ Only(SetKeyb(Path, sw.mouse_dest))

DivertKeyboard(d, td) ==
    /\ Sender(d) /\ Target(td) /\ sw.domains[td].domid \in Receivers
    /\ Only(SyncKeyb([Path EXCEPT !.s.domains[d] =
                         [@ EXCEPT !.has_divert = TRUE, !.key_domain = td]], d))

StopDivert(d) ==
    /\ Sender(d)
    /\ Only(SyncKeyb([Path EXCEPT !.s.domains[d].key_domain = NULL], d))

\* "Don't set filter, while filter in use!"
input_daemon_set_divert_keyboard_filter(d) ==
    /\ Sender(d) /\ sw.domains[d].key_domain = NULL
    /\ Only([Path EXCEPT !.s.domains[d].has_divert = TRUE, !.k.filter = @ \cup {d}])

Take(d) == Commander(d) /\ Only(Give(Path, d))
Release(d) == Commander(d) /\ Only(Return(Path, d))

\* Secure mode begins and ends as SecureMode says.
input_secure(mode) ==
    /\ kb.secure # mode
    /\ Only([Path EXCEPT !.k.secure = mode])

\* The connection of a viewer closes: domain_gone, where the keyboard's guest is
\* not told that its viewer is gone.
ViewerGone(d) ==
    LET gone == [Path EXCEPT
                    !.s = input_domain_gone(FreeRecord(@, d), d),
                    !.k.filter = @ \ {d}, !.t[d] = {}, !.n = @ \ {d}]
        told_not == IF sw.keyb_parent = d /\ sw.keyb_dest # NULL
                    THEN Leave_behind(gone, sw.keyb_dest, Keys) ELSE gone
        after == IF sw.surface_current # d THEN told_not
                 ELSE Switch([told_not EXCEPT !.s.surface_current = NULL],
                             domain_uivm(told_not.s), FALSE)
    IN  /\ d \in Live(sw) /\ sw.domains[d].domid \in Mortal
        /\ Only([after EXCEPT !.s = check_diverts_for_the_dead(@, d)])

KeyEvents ==
    \E b \in DOMAIN Keyboards :
        \/ Unplug(b)
        \/ \E key \in Keys : KeyDown(b, key) \/ KeyRepeats(b, key) \/ KeyUp(b, key)

KeyRequests ==
    \/ check_for_force_binding
    \/ ClickForKeyboard
    \/ \E mode \in {"off", "open", "locked"} : input_secure(mode)
    \/ \E d \in Rec : \/ handle_switcher_leds(d)
                      \/ SwitchFocus(d)
                      \/ MouseSwitch(d)
                      \/ StopDivert(d)
                      \/ input_daemon_set_divert_keyboard_filter(d)
                      \/ Take(d)
                      \/ Release(d)
                      \/ ViewerGone(d)
                      \/ \E td \in Rec : DivertKeyboard(d, td)

\* No key down, no filter, and every guest's numlock off.
AtRest ==
    /\ kb = [key_status |-> {}, keyb_modbits |-> {},
             matched |-> [b \in DOMAIN Bindings |-> 0], down |-> {},
             force_ticks |-> [b \in DOMAIN Bindings |-> 0],
             lights |-> {}, filter |-> {}, secure |-> "off"]
    /\ told = [r \in Rec |-> {}]
    /\ numlock = {}
    /\ hands = {}
    /\ missed = {}

\* Guests are connected, in any routing that DomainFocus may have come to.
KeyboardInit ==
    /\ TypeOK /\ ParentHasDivert
    /\ \A r \in Rec :
          {sw.domains[r].key_domain, sw.domains[r].mouse_domain} # {NULL} =>
              r \in Live(sw) /\ sw.domains[r].has_divert
    /\ AtRest

KeyboardNext == KeyEvents \/ KeyRequests

KeyboardSpec == KeyboardInit /\ [][KeyboardNext]_vars

-----------------------------------------------------------------------------
(* Properties.                                                             *)

KeyboardTypeOK ==
    /\ kb \in KeyboardState
    /\ \A b \in DOMAIN Bindings : kb.matched[b] < Len(Bindings[b].keys)
    /\ told \in [Rec -> SUBSET Keys] /\ numlock \subseteq Rec
    /\ missed \subseteq Keys

\* "Reset the keyboard of the previous domain before changing the keyboard and
\* mouse destination" (input_set, input_set_keyb): whatever moved the keyboard,
\* the guest that has it takes no key for held that key_status has not, and the
\* others take none, but for the keys that filters, secure mode, seamless guests
\* and dead viewers leave behind.
NoKeyStuck ==
    \A r \in Live(sw) :
        told[r] \subseteq IF r = sw.keyb_dest THEN kb.key_status ELSE {}

\* A binding fires, or goes on towards its force, only on keys that are held
\* (input_exec_bindings, check_for_force_binding): "back of the line" for every
\* binding when a key goes up.
MatchIsHeld ==
    \A b \in DOMAIN Bindings :
        LET keys == Bindings[b].keys
        IN  /\ \A i \in 1..kb.matched[b] : keys[i] \in HeldOn(hands) \cup missed
            /\ b \in kb.down => ToSet(keys) \subseteq HeldOn(hands) \cup missed

\* The modifiers that filter_keys has seen are those of the viewer that is the
\* parent now, and are held: no bit is left from another viewer's keyboard.
ModbitsHeld ==
    sw.keyb_parent # NULL => kb.keyb_modbits \subseteq HeldOn(hands) \cup missed

\* The keyboard leaves a guest that had it without a divert and has reported its
\* light.
Leaves(d) ==
    /\ d = sw.keyb_dest /\ sw.keyb_parent = NULL /\ sw'.keyb_dest # d
    /\ d \in Live(sw) /\ sw'.domains[d].initialised
    /\ d \in kb.lights <=> d \in numlock

\* "Turn numlock off before switching to another domain" (input_set): an HVM guest
\* that the keyboard leaves is left with numlock off.
NumlockOff ==
    [][\A d \in Rec : Leaves(d) /\ ~is_pv_domain(sw, d) => d \notin numlock']_vars

\* And a PV guest, whose light the daemon works out itself.
PvNumlockOff ==
    [][\A d \in Rec : Leaves(d) /\ is_pv_domain(sw, d) => d \notin numlock']_vars

=============================================================================
