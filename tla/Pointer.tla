------------------------------ MODULE Pointer ------------------------------
(***************************************************************************)
(* Buttons and contacts on their way to the guests: the half of            *)
(* input_inject (input.c) that is not about keys.  A viewer's frame        *)
(* decides, event by event, whether the viewer or the guest it diverts the *)
(* mouse to gets an event; a list remembers where a button went down.      *)
(*                                                                         *)
(* DomainFocus gives the routing (sw) and the requests that change it,     *)
(* Vkbd the last step to a PV guest.  pt holds the other statics of the    *)
(* path, told what each guest takes for held, and hw the hands: what the   *)
(* user holds on the mice and on the touchscreen.                          *)
(***************************************************************************)
EXTENDS DomainFocus, Vkbd

CONSTANTS
    Mice,               \* mouse slots, with the buttons of each
    Modes,              \* focus modes a viewer sets, KEYFOLLOWMOUSE apart
    Mortal,             \* domains that go and come back
    MAX_NUM_PRESSED,    \* 5 in the code
    MayInterrupt        \* may the routing change while something is held?

\* check_mouse_keys takes codes from BTN_MISC to BTN_JOYSTICK; BTN_TOUCH is not one.
ASSUME PointerAssumption ==
    /\ MAX_NUM_PRESSED \in Nat
    /\ \A m \in DOMAIN Mice : "BTN_TOUCH" \notin Mice[m]
    /\ Mortal \subseteq Domids
    /\ Modes \subseteq SUBSET {"CLICKHOLDFOCUS", "CLONEEVENTS"}
    /\ MayInterrupt \in BOOLEAN

VARIABLES pt, told, hw

Buttons == UNION {Mice[m] : m \in DOMAIN Mice}
Contacts == 0..MaxSlot

\* mouse_pressed: where a button went down, and where the pointer was.
Pressed == [code : Buttons, slot : DOMAIN Mice, domain : Rec, at : {"in", "out"}]

\* mouse_x and mouse_y only as in or out of the viewer's frame; "buttons" is
\* the bit map, mouse_button says whether a word of it is not 0.
PointerState ==
    [mode : [Rec -> Modes \cup {{}}], at : {"in", "out"},
     buttons : SUBSET Buttons, button_holding : 0..2, last_d : Ptr,
     mouse_pressed : Seq(Pressed), mt : MtState]

-----------------------------------------------------------------------------
(* Sending.  A path state c is [s, p, t]: the statics of DomainFocus, those *)
(* of this module, and what the guests have been told.                     *)

is_pv_domain(s, d) == s.domains[d].domid \in PvDomains

Carried(c, d, o) == [c EXCEPT !.p.mt = o.mt, !.t[d] = o.told]

Send(c, d, e) ==
    IF d = NULL THEN c
    ELSE IF is_pv_domain(c.s, d)
    THEN Carried(c, d, input_send(c.p.mt, c.t[d], e))
    ELSE [c EXCEPT !.t[d] = Told(@, e)]

-----------------------------------------------------------------------------
(* The list of pressed buttons.                                            *)

\* Slip: only the last entry can be taken off.
Without_Slip(list, i) ==
    IF i = Len(list) THEN SubSeq(list, 1, i - 1) ELSE list

Without(list, i) ==
    SubSeq(list, 1, i - 1) \o SubSeq(list, i + 1, Len(list))

\* The first entry a release matches, 0 when there is none.
Matching(list, slot, code) ==
    First({i \in DOMAIN list : list[i].code = code /\ list[i].slot = slot})

\* Slip: the key-up goes where the pointer is now.
check_mouse_keys_Slip(c, d, slot, e) ==
    LET i == Matching(c.p.mouse_pressed, slot, e.code) IN
    IF e.value # 0
    THEN [c |-> [c EXCEPT !.p.mouse_pressed =
                    Append(@, [code |-> e.code, slot |-> slot, domain |-> d,
                               at |-> c.p.at])],
          done |-> FALSE]
    ELSE [c |-> IF i = 0 THEN c
                ELSE [c EXCEPT !.p.mouse_pressed = Without(@, i)],
          done |-> FALSE]

\* A press is noted, if there is room; a release goes to the guest the press
\* went to, and is then done unless that is d.
check_mouse_keys(c, d, slot, e) ==
    LET list == c.p.mouse_pressed
        i    == Matching(list, slot, e.code)
        out  == [c EXCEPT !.p.mouse_pressed = Without(list, i)]
    IN  IF e.value # 0
        THEN [c |-> IF Len(list) < MAX_NUM_PRESSED
                    THEN [c EXCEPT !.p.mouse_pressed = Append(list,
                            [code |-> e.code, slot |-> slot, domain |-> d,
                             at |-> c.p.at])]
                    ELSE c,
              done |-> FALSE]
        ELSE IF i = 0 THEN [c |-> c, done |-> FALSE]
        ELSE IF list[i].domain = d THEN [c |-> out, done |-> FALSE]
        ELSE [c |-> Send(out, list[i].domain, e), done |-> TRUE]

\* input_domain_gone: once an entry has been removed the loop is over.
DropPressed(list, d) ==
    LET i == First({k \in DOMAIN list : list[k].domain = d})
    IN  IF i = 0 THEN list ELSE Without(list, i)

\* dup_mouse_clicks wants a click inside the frame, and asks for a y above
\* sframe_y1 and below it (input.c:1490).
Height == [in |-> 2, out |-> 0]
sframe_y1 == 1
ClickedInFrame(mb) ==
    mb.at = "in" /\ Height[mb.at] > sframe_y1 /\ Height[mb.at] < sframe_y1

Repeatable(c, d) ==
    {i \in DOMAIN c.p.mouse_pressed :
        LET mb == c.p.mouse_pressed[i] IN
        /\ mb.domain # d
        /\ ~\E k \in DOMAIN c.p.mouse_pressed :
               /\ c.p.mouse_pressed[k].domain = d
               /\ c.p.mouse_pressed[k].code = mb.code
        /\ ClickedInFrame(mb)}

\* The entry i once more, for d, while there is room.
RepeatFor(c, d, i) ==
    LET mb == [c.p.mouse_pressed[i] EXCEPT !.domain = d] IN
    IF Len(c.p.mouse_pressed) >= MAX_NUM_PRESSED THEN c
    ELSE Send([c EXCEPT !.p.mouse_pressed = Append(@, mb)], d, Key(mb.code, 1))

Repeat(c, d, I) ==
    LET after[J \in SUBSET I] ==
            IF J = {} THEN c
            ELSE LET i == CHOOSE k \in J : \A j \in J : j <= k
                 IN  RepeatFor(after[J \ {i}], d, i)
    IN  after[I]

dup_mouse_clicks(c, d) ==
    IF c.s.mouse_parent = NULL THEN c ELSE Repeat(c, d, Repeatable(c, d))

-----------------------------------------------------------------------------
(* input_inject, for an event that is not a key.                           *)

\* input_track_mouse_position: "MOVE" and "REL" carry the new place.
input_track_mouse_position(p, e) ==
    CASE e.kind = "REL" -> [p EXCEPT !.at = e.code]
      [] e.kind = "KEY" /\ e.code \in Buttons ->
            [p EXCEPT !.buttons = Told(@, e)]
      [] OTHER -> p

\* Slip: a report ends the hold although the button is still down.
Holding_Slip(p, mode, e) ==
    IF e.kind = "SYN" THEN 0
    ELSE IF "CLICKHOLDFOCUS" \in mode /\ p.buttons # {} THEN 1
    ELSE IF p.button_holding # 0 THEN 2 ELSE 0

\* button_holding: 1 while a button is down, 2 from its release to the end of
\* that report.
Holding(p, mode, e) ==
    LET over == e.kind = "SYN" /\ p.button_holding = 2 IN
    IF "CLICKHOLDFOCUS" \in mode /\ p.buttons # {} THEN 1
    ELSE IF p.button_holding # 0 /\ ~over THEN 2
    ELSE 0

\* Who gets the event while a viewer diverts the mouse: while a button holds
\* the focus, whoever got the last one; otherwise the frame decides.
Receiver(s, p) ==
    IF p.button_holding # 0 /\ p.last_d \in {s.mouse_parent, s.mouse_dest}
    THEN p.last_d
    ELSE IF p.at = "in" THEN s.mouse_dest ELSE s.mouse_parent

IsClick(s, e) ==
    e.kind = "KEY" /\ e.code \in Buttons /\ s.keyb_waits_for_click

\* The last lines: in the old seamless mode the event goes to mouse_dest,
\* whoever was chosen, and a report to the keyboard's guest too.
Dispatch(c, d, e) ==
    IF /\ NULL \notin {c.s.keyb_dest, c.s.mouse_dest}
       /\ c.s.keyb_dest # c.s.mouse_dest
       /\ ~c.s.keyb_waits_for_click
    THEN Send(IF e.kind = "SYN" THEN Send(c, c.s.keyb_dest, e) ELSE c,
              c.s.mouse_dest, e)
    ELSE Send(c, d, e)

\* A viewer diverts the mouse.  A click inside the frame may bring it the
\* keyboard; a clone goes to the viewer first.
Diverted(c, slot, e) ==
    LET s     == c.s
        mode  == c.p.mode[s.mouse_parent]
        held  == [c EXCEPT !.p.button_holding = Holding(c.p, mode, e)]
        d     == Receiver(s, held.p)
        child == d # s.mouse_parent
        keys  == IF IsClick(s, e) /\ child /\ s.domains[s.mouse_parent].key_follows
                 THEN [held EXCEPT !.s = sync_kbd_domain(
                          [@ EXCEPT !.domains[s.mouse_parent].key_domain = d],
                          s.mouse_parent)]
                 ELSE held
        list  == IF e.kind = "KEY" /\ e.code \in Buttons
                 THEN check_mouse_keys(keys, d, slot, e)
                 ELSE [c |-> keys, done |-> FALSE]
        last  == [list.c EXCEPT !.p.last_d = d]
        clone == IF child /\ "CLONEEVENTS" \in mode
                 THEN Send(last, s.mouse_parent, e) ELSE last
    IN  IF list.done THEN list.c ELSE Dispatch(clone, d, e)

\* Otherwise the displayed guest gets it, with the keyboard when that waited
\* for a click: "If your keyboard is in another castle, get it back on click".
Direct(c, e) ==
    LET d == c.s.mouse_dest
        t == IF IsClick(c.s, e) THEN [c EXCEPT !.s = input_set_keyb(@, d)] ELSE c
    IN  Dispatch(t, d, e)

input_inject(c, slot, e) ==
    LET t == [c EXCEPT !.p = input_track_mouse_position(@, e)] IN
    IF t.s.mouse_dest = NULL THEN t
    ELSE IF t.s.mouse_parent # NULL THEN Diverted(t, slot, e)
    ELSE Direct(t, e)

-----------------------------------------------------------------------------
(* The hands.  touch: the user works with a touchscreen, not with mice.    *)
(* held: the buttons down on each mouse.  contacts: those on the           *)
(* touchscreen; kslot: the slot its driver last announced, which it        *)
(* announces again only when it changes; open: a report has begun.         *)

Hands == [touch : BOOLEAN, held : SUBSET {<<m, b>> : m \in DOMAIN Mice, b \in Buttons},
          contacts : SUBSET Contacts, kslot : Contacts, open : BOOLEAN]

vars == <<sw, pt, told, hw>>
Path == [s |-> sw, p |-> pt, t |-> told]

Follows(c) == sw' = c.s /\ pt' = c.p /\ told' = c.t

MouseButton(m, b) ==
    LET down == <<m, b>> \notin hw.held
        now  == IF down THEN hw.held \cup {<<m, b>>} ELSE hw.held \ {<<m, b>>}
    IN  /\ b \in Mice[m]
        /\ Follows(input_inject(Path, m, Key(b, IF down THEN 1 ELSE 0)))
        /\ hw' = [hw EXCEPT !.held = now]

MouseMoves(m) ==
    /\ \E at \in {"in", "out"} : Follows(input_inject(Path, m, Event("REL", at, 0)))
    /\ UNCHANGED hw

MouseReport(m) ==
    /\ Follows(input_inject(Path, m, SYN))
    /\ UNCHANGED hw

TouchSlot == 0   \* the touchscreen's device slot; it is not in the list

\* The events of one contact, after the slot when that is another's.
ContactEvent(n, e) ==
    LET c == IF n = hw.kslot THEN Path
             ELSE input_inject(Path, TouchSlot, Event("SLOT", "none", n))
    IN  Follows(input_inject(c, TouchSlot, e))

FingerDown(n) ==
    /\ n \in Contacts \ hw.contacts
    /\ ContactEvent(n, Event("TRACK", "none", 1))
    /\ hw' = [hw EXCEPT !.contacts = @ \cup {n}, !.kslot = n, !.open = TRUE]

FingerUp(n) ==
    /\ n \in hw.contacts
    /\ ContactEvent(n, Event("TRACK", "none", -1))
    /\ hw' = [hw EXCEPT !.contacts = @ \ {n}, !.kslot = n, !.open = TRUE]

FingerMoves(n) ==
    /\ n \in hw.contacts
    /\ \E kind \in {"MOVE", "SHAPE"} : ContactEvent(n, Event(kind, "none", 0))
    /\ hw' = [hw EXCEPT !.kslot = n, !.open = TRUE]

\* The driver's pointer emulation ends a report: BTN_TOUCH, and a place.
TouchReport ==
    LET c == input_inject(Path, TouchSlot,
                 Key("BTN_TOUCH", IF hw.contacts = {} THEN 0 ELSE 1))
    IN  /\ hw.open
        /\ \/ Follows(input_inject(c, TouchSlot, SYN))
           \/ Follows(input_inject(Path, TouchSlot, SYN))
        /\ hw' = [hw EXCEPT !.open = FALSE]

-----------------------------------------------------------------------------
(* What changes the routing, a mouse at the edge included; DomainFocus     *)
(* says how.                                                               *)

AtRest == hw.held = {} /\ hw.contacts = {} /\ ~hw.open

\* sync_mouse_domain ends with dup_mouse_clicks.
Divert(d, td) ==
    /\ input_daemon_divert_mouse_focus(d, td)
    /\ LET c == dup_mouse_clicks([Path EXCEPT !.s = sw'], d)
       IN  pt' = c.p /\ told' = c.t
    /\ UNCHANGED hw

StopDivert(d) ==
    /\ input_daemon_stop_mouse_divert(d)
    /\ LET c == dup_mouse_clicks([Path EXCEPT !.s = sw'], d)
       IN  pt' = c.p /\ told' = c.t
    /\ UNCHANGED hw

FocusMode(d) ==
    /\ input_daemon_focus_mode(d)
    /\ \E mode \in Modes : pt' = [pt EXCEPT !.mode[d] = mode]
    /\ UNCHANGED <<told, hw>>

SwitchSlot(slot) ==
    /\ go_to_slot(slot)
    /\ UNCHANGED <<pt, told, hw>>

\* The end of input_inject: a step of a mouse past the edge of the screen, that no
\* diverted guest gets, switches (switcher_switch_on_mouse) before it is sent, and
\* the pointer is put at the other side of the new screen.  A step and the reports
\* that tell both guests of the place tell of no button, so that it does not matter
\* which of them is sent first.
MouseEdge(m, slot) ==
    /\ ~hw.touch
    /\ \E at, side \in {"in", "out"} :
         LET c == input_inject(Path, m, Event("REL", at, 0)) IN
         /\ sw.mouse_parent # NULL => c.p.last_d = sw.mouse_parent
         /\ pt' = [c.p EXCEPT !.at = side] /\ told' = c.t
    /\ switcher_switch_on_mouse(slot)
    /\ UNCHANGED hw

GuestGone(d) ==
    /\ sw.domains[d].domid \in Mortal
    /\ rpc_disconnect(d)
    /\ pt' = [pt EXCEPT !.mode[d] = {},
                        !.mouse_pressed = DropPressed(@, d)]
    /\ told' = [told EXCEPT ![d] = {}]
    /\ UNCHANGED hw

GuestComes(id) ==
    /\ rpc_connect(id)
    /\ UNCHANGED <<pt, told, hw>>

Events ==
    IF hw.touch THEN \/ TouchReport
                  \/ \E n \in Contacts : FingerDown(n) \/ FingerUp(n) \/ FingerMoves(n)
    ELSE \E m \in DOMAIN Mice : \/ MouseMoves(m)
                                \/ MouseReport(m)
                                \/ \E b \in Mice[m] : MouseButton(m, b)

Requests ==
    /\ AtRest \/ MayInterrupt
    /\ \/ \E d \in Rec : \/ StopDivert(d)
                         \/ FocusMode(d)
                         \/ GuestGone(d)
                         \/ \E td \in Rec : Divert(d, td)
       \/ \E slot \in 0..2 : SwitchSlot(slot)
       \/ \E m \in DOMAIN Mice, slot \in {-2} \cup 0..2 : MouseEdge(m, slot)
       \/ \E id \in Mortal : GuestComes(id)

\* Nothing held and the pointer anywhere.
Rest ==
    /\ \E at \in {"in", "out"} :
         pt = [mode |-> [r \in Rec |-> {}], at |-> at, buttons |-> {},
               button_holding |-> 0, last_d |-> NULL, mouse_pressed |-> <<>>,
               mt |-> MtInit]
    /\ told = [r \in Rec |-> {}]
    /\ hw \in [touch : BOOLEAN, held : {{}}, contacts : {{}}, kslot : {0},
               open : {FALSE}]

PointerInit == Init /\ Rest

PointerNext == Events \/ Requests

PointerSpec == PointerInit /\ [][PointerNext]_vars

-----------------------------------------------------------------------------
(* Properties.                                                             *)

PointerTypeOK ==
    /\ pt \in PointerState
    /\ told \in [Rec -> SUBSET (Buttons \cup {"BTN_TOUCH", "BTN_LEFT"})]
    /\ hw \in Hands

\* "send keyup to domain that it lived in" (check_mouse_keys), the clones, the
\* hold and the frame together: no guest takes a button for held that nobody
\* holds, wherever the pointer has been since it went down.
NothingStuck ==
    ~hw.touch => \A r \in Live(sw) : \A b \in told[r] :
                    \E m \in DOMAIN Mice : <<m, b>> \in hw.held

\* The list of pressed buttons is exact while the mouse is diverted: an entry
\* for each held button, so that it is full only when that many are held, and
\* empty otherwise.
ListedAreHeld ==
    LET list     == pt.mouse_pressed
        listed   == {<<list[i].slot, list[i].code>> : i \in DOMAIN list}
        diverted == NULL \notin {sw.mouse_parent, sw.mouse_dest}
    IN  /\ listed = IF diverted THEN hw.held ELSE {}
        /\ Len(list) = Cardinality(listed)

\* CLICKHOLDFOCUS: from the press to the report after the release the guest
\* does not change, in whatever order the mice report.
HoldKeepsGuest ==
    [][/\ pt.buttons # {} /\ sw.mouse_parent # NULL
       /\ "CLICKHOLDFOCUS" \in pt.mode[sw.mouse_parent]
       /\ hw' # hw \/ pt' # pt
       => pt'.last_d = pt.last_d]_vars

\* Between two reports demultitouch holds nothing back, neither a button nor the
\* report that follows it, and has left its drain; a PV guest's left button is what
\* demultitouch believes; and although it takes its slot for 0 after each report
\* when the driver keeps its own (input.c:206), and so mistakes one finger for
\* another, the button is up once no finger is left.
TouchSettles ==
    hw.touch /\ ~hw.open =>
      /\ pt.mt.deferpressed = "nope" /\ ~pt.mt.draining
      /\ sw.mouse_dest # NULL /\ is_pv_domain(sw, sw.mouse_dest) =>
           ("BTN_LEFT" \in told[sw.mouse_dest]) = pt.mt.pressed
      /\ hw.contacts = {} => \A r \in Rec : "BTN_LEFT" \notin told[r]

\* "if mouse pressed, and click was within current frame, repeat click"
\* (sync_mouse_domain).
ClicksRepeated ==
    [][\A d \in Rec, i \in DOMAIN pt.mouse_pressed :
          /\ sw'.mouse_parent = d
          /\ sw'.domains[d].mouse_domain # sw.domains[d].mouse_domain
          /\ pt.mouse_pressed[i].at = "in"
          => pt.mouse_pressed[i].code \in told'[d]]_vars

\* "send keyup to domain that it lived in" (check_mouse_keys): the entries of
\* a guest that is gone go with it.
PressedAlive ==
    \A i \in DOMAIN pt.mouse_pressed : pt.mouse_pressed[i].domain \in Live(sw)

=============================================================================
