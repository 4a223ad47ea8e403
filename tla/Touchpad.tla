------------------------------ MODULE Touchpad ------------------------------
(***************************************************************************)
(* The touchpad filter (touchpad.c).  The packets of the pad are turned    *)
(* into button, movement and wheel events.  A tap becomes a click only     *)
(* when a timer of 180 ms expires without a second touch, so that a double *)
(* tap or a tap-and-drag is told apart; a finger resting in a corner       *)
(* scrolls on with the help of a second timer.  Both timers, the two keys  *)
(* that turn the pad off and on, and the D-Bus settings may come between   *)
(* any two packets.                                                        *)
(*                                                                         *)
(* How far the pointer moves and how often it scrolls is left open: a      *)
(* packet of a moving finger may move the pointer, and one of a scrolling  *)
(* finger may scroll.  Pressure is abstracted to what detect_finger makes  *)
(* of it with its hysteresis: "on", "off" or "keep".                       *)
(***************************************************************************)
EXTENDS Integers

CONSTANTS
    MinX, MaxX, RightEdge, LeftButtonMaxX,   \* what init_touchpad computes
    MinY, MaxY, TopEdge, BottomEdge,         \* from the ranges of the device
    TapMove,             \* how far a finger moves before it is no tap
    Xs, Ys,              \* the values the pad reports
    PadButtons,          \* and the buttons it has
    MinScrollPackets,    \* packets of scrolling before a corner counts (3)
    MaxDropped           \* bound on the taps that restarts drop

Buttons == {"left", "right"}

ASSUME TouchpadAssumption ==
    /\ {MinX, MaxX, RightEdge, LeftButtonMaxX} \subseteq Int
    /\ {MinY, MaxY, TopEdge, BottomEdge} \subseteq Int
    /\ Xs \subseteq Int /\ Ys \subseteq Int /\ PadButtons \subseteq Buttons
    /\ TapMove \in Nat \ {0} /\ MinScrollPackets \in Nat /\ MaxDropped \in Nat

NO_X == MinX - 1                       \* the packet has no x value
NO_Y == MinY - 1
NoButton == -1                         \* button_down_x before a press
TapStates == {"START", "TOUCH", "MOVE", "SINGLE_TAP_PENDING", "POSSIBLE_DRAG",
              "DRAG"}

VARIABLES
    tpad,        \* tstate, tlimits, tconfig and the statics of touchpad.c
    held,        \* the buttons of the device that are physically down
    pointer      \* history: what has become of taps, presses and the finger

touchpad_vars == <<tpad, held, pointer>>

\* down holds the buttons that a reader of the events believes to be down, told
\* those that the packet in work has sent an event of, clicks how many presses
\* among these a tap made, and moved says that the packet moved the pointer.
PadState ==
    [tapstate : TapStates, last_x : Int, last_y : Int, last_finger : BOOLEAN,
     off : BOOLEAN, vert_scroll_on : BOOLEAN, scroll_packets : Nat,
     corner : BOOLEAN,                    \* autoscroll_yspd # 0
     finger : BOOLEAN,                    \* static of detect_finger
     touch_x : Int, touch_y : Int,        \* statics of handle_gestures:
     touch_bottom : BOOLEAN,              \*   where the finger came down
     button_down_x : Int, clickpad : BOOLEAN, pressed : BOOLEAN,
     maxx : Int, right_edge : Int, maxy : Int, bottom_edge : Int,
     tap : BOOLEAN, scrolling : BOOLEAN,  \* tconfig
     click_timer : BOOLEAN, scroll_timer : BOOLEAN,
     down : SUBSET Buttons, told : SUBSET Buttons, clicks : Nat, moved : BOOLEAN]

\* owed, taps that have not been clicked; dropped, those among them that waited
\* when the pad was restarted; lost, buttons that the reader believes to be down
\* and whose release the code has swallowed; travelled, the finger has moved
\* since the filter saw it come down, which is again after a restart; loose, the
\* corner timer was running when packets or scrolling stopped being looked at.
Pointer == [owed : Int, dropped : Nat, lost : SUBSET Buttons, travelled : BOOLEAN,
            loose : BOOLEAN]

-----------------------------------------------------------------------------
(* Events and timers.                                                      *)

event_button_change(s, button, value) ==
    [s EXCEPT !.down = IF value = 1 THEN @ \cup {button} ELSE @ \ {button},
              !.told = @ \cup {button}]

TapPress(s) == [event_button_change(s, "left", 1) EXCEPT !.clicks = @ + 1]
TapClick(s) == event_button_change(TapPress(s), "left", 0)

set_left_click_timer(s) == [s EXCEPT !.click_timer = TRUE]
delete_left_click_timer(s) == [s EXCEPT !.click_timer = FALSE]
\* Mutant: the corner timer is freed only if it has scrolled: but its speed may
\* be zero.
FreeWhenScrolling(s) == IF s.corner THEN [s EXCEPT !.scroll_timer = FALSE] ELSE s

free_autoscroll_timer(s) == [s EXCEPT !.scroll_timer = FALSE]

\* The state of the pad starts afresh; the timers, the finger of
\* detect_finger and the packet history stay.
init_touchpad_state(s) ==
    [s EXCEPT !.last_x = 0, !.last_y = 0, !.last_finger = FALSE,
              !.tapstate = "START", !.vert_scroll_on = FALSE,
              !.scroll_packets = 0, !.corner = FALSE, !.moved = FALSE,
              !.off = FALSE]

-----------------------------------------------------------------------------
(* One packet.  p.x and p.y are NO_X and NO_Y when the packet has none.    *)

X(s, p) == IF p.x = NO_X THEN s.last_x ELSE p.x
Y(s, p) == IF p.y = NO_Y THEN s.last_y ELSE p.y

detect_edge(s, x, y) ==
    (IF x > s.right_edge THEN {"RIGHT"} ELSE {}) \cup
    (IF y > s.bottom_edge THEN {"BOTTOM"} ELSE IF y < TopEdge THEN {"TOP"} ELSE {})

detect_finger(s, p) == IF p.touch = "keep" THEN s.finger ELSE p.touch = "on"

\* A value is believed that is beyond the range by no more than a tenth of it.
adjust_overflow(s, p) ==
    LET xrange == s.maxx - MinX
        yrange == s.maxy - MinY
        grown(v, max, range) == v > max /\ v - (range \div 10) <= max
        wide == IF grown(p.x, s.maxx, xrange)
                  THEN [s EXCEPT !.right_edge = p.x - (xrange - s.right_edge),
                                 !.maxx = p.x]
                  ELSE s
    IN  IF grown(p.y, s.maxy, yrange)
          THEN [wide EXCEPT !.bottom_edge = p.y - (yrange - s.bottom_edge),
                            !.maxy = p.y]
          ELSE wide

\* The four events of the two buttons, in the order of the loop.
handle_button_clicks(s, mask) ==
    LET send(t, b, v) == IF <<b, v>> \in mask THEN event_button_change(t, b, v) ELSE t
    IN  send(send(send(send(s, "left", 1), "left", 0), "right", 1), "right", 0)

\* Mutant: the release counts for the button under the finger.
ReleasesUnderFinger(s, x) == x > LeftButtonMaxX

\* A release counts for the button that the press counted for.
ReleasesRight(s, x) == s.button_down_x > LeftButtonMaxX

\* A clickpad reports only the left button: one that goes down on the right of
\* the bottom edge is reported as the right one.  A mask of which one bit
\* stands for the other button loses all its other bits.
handle_clickpad(s, p, edge) ==
    LET x == X(s, p)
    IN  IF "BOTTOM" \notin edge THEN s
        ELSE IF <<"left", 1>> \in p.mask
        THEN handle_button_clicks(
               [s EXCEPT !.pressed = TRUE, !.button_down_x = x],
               IF x > LeftButtonMaxX THEN {<<"right", 1>>} ELSE p.mask)
        ELSE IF <<"left", 0>> \in p.mask
        THEN handle_button_clicks(
               [s EXCEPT !.pressed = FALSE, !.button_down_x = NoButton],
               IF ReleasesRight(s, x) THEN {<<"right", 0>>} ELSE p.mask)
        ELSE handle_button_clicks(s, p.mask)

Distance(a, b) == IF a < b THEN b - a ELSE a - b

\* TS_TOUCH, TS_SINGLE_TAP_PENDING, ...: what a touch, a release or a move does
\* to a tap that may become a click or a drag.
handle_gestures(s, p, finger) ==
    LET touch == finger /\ ~s.last_finger
        release == ~finger /\ s.last_finger
        move == /\ finger /\ ~touch
                /\ \/ p.x # NO_X /\ Distance(p.x, s.touch_x) >= TapMove
                   \/ p.y # NO_Y /\ Distance(p.y, s.touch_y) >= TapMove
        t == IF touch
               THEN [s EXCEPT !.touch_x = X(s, p), !.touch_y = Y(s, p),
                              !.touch_bottom = "BOTTOM" \in detect_edge(s, X(s, p), Y(s, p))]
               ELSE s
        taps == t.tap /\ ~(t.clickpad /\ t.touch_bottom)
        goto(u, state) == [u EXCEPT !.tapstate = state]
    IN  CASE s.tapstate = "START" /\ touch -> goto(t, "TOUCH")
          [] s.tapstate = "TOUCH" /\ move -> goto(t, "MOVE")
          [] s.tapstate = "TOUCH" /\ release /\ taps ->
               set_left_click_timer(goto(t, "SINGLE_TAP_PENDING"))
          [] s.tapstate = "TOUCH" /\ release /\ ~taps -> goto(t, "START")
          [] s.tapstate = "MOVE" /\ release -> goto(t, "START")
          [] s.tapstate = "SINGLE_TAP_PENDING" /\ touch /\ taps ->
               delete_left_click_timer(goto(t, "POSSIBLE_DRAG"))
          [] s.tapstate = "SINGLE_TAP_PENDING" /\ touch /\ ~taps ->
               TapClick(delete_left_click_timer(goto(t, "TOUCH")))
          [] s.tapstate = "POSSIBLE_DRAG" /\ move ->
               TapPress(goto(t, "DRAG"))
          [] s.tapstate = "POSSIBLE_DRAG" /\ release -> TapClick(TapClick(goto(t, "START")))
          [] s.tapstate = "DRAG" /\ release ->
               event_button_change(goto(t, "START"), "left", 0)
          [] OTHER -> t

stop_corner_scrolling(s) == [s EXCEPT !.corner = FALSE, !.scroll_packets = 0]

\* The speed that the packet history gives may be zero; the timer is set in
\* either case.
start_corner_scrolling(s) ==
    LET started == [s EXCEPT !.scroll_packets = 0]
    IN  IF s.scroll_packets > MinScrollPackets
          THEN {[started EXCEPT !.scroll_timer = TRUE, !.corner = speed] :
                  speed \in BOOLEAN}
          ELSE {started}

\* The states handle_scrolling may leave.
handle_scrolling(s, finger, edge) ==
    LET touch == finger /\ ~s.last_finger
        in_corner == "RIGHT" \in edge /\ edge \cap {"TOP", "BOTTOM"} # {}
        on == (s.vert_scroll_on \/ touch) /\ "RIGHT" \in edge /\ finger
        t == [(IF touch THEN stop_corner_scrolling(s) ELSE s)
                EXCEPT !.vert_scroll_on = on]
        u == IF t.corner /\ ~(finger /\ in_corner) THEN stop_corner_scrolling(t) ELSE t
        v == IF finger /\ in_corner THEN u ELSE free_autoscroll_timer(u)
        starts == on /\ in_corner /\ ~v.corner
        count(w) == [w EXCEPT !.scroll_packets =
                         IF @ > MinScrollPackets THEN @ ELSE @ + 1]
        counted(W) == IF on THEN {count(w) : w \in W} ELSE W
    IN  IF ~s.scrolling THEN {s}
        ELSE counted(IF starts THEN start_corner_scrolling(v) ELSE {v})

\* Mutant: a finger that has only touched moves the pointer.
MovesOnTouch(s, edge) ==
    IF s.tapstate \in {"TOUCH", "MOVE", "DRAG"} /\ ~s.vert_scroll_on
      THEN {[s EXCEPT !.moved = moves] : moves \in BOOLEAN}
      ELSE {[s EXCEPT !.moved = FALSE]}

\* A finger that moves or drags, and does not scroll, may move the pointer,
\* unless the clickpad is pressed on the bottom edge.
compute_deltas(s, edge) ==
    IF s.tapstate \in {"MOVE", "DRAG"} /\ ~s.vert_scroll_on
       /\ ~(s.pressed /\ "BOTTOM" \in edge)
      THEN {[s EXCEPT !.moved = moves] : moves \in BOOLEAN}
      ELSE {[s EXCEPT !.moved = FALSE]}

save_previous_packet_values(s, p, finger) ==
    [s EXCEPT !.last_finger = finger, !.last_x = X(s, p), !.last_y = Y(s, p)]

\* The states process_packet may leave.
process_packet(s, p) ==
    LET clicked == IF s.clickpad THEN s ELSE handle_button_clicks(s, p.mask)
        adjusted == adjust_overflow(clicked, p)
        edge == detect_edge(adjusted, X(s, p), Y(s, p))
        finger == detect_finger(s, p)
        felt == [adjusted EXCEPT !.finger = finger]
        pressed == IF s.clickpad THEN handle_clickpad(felt, p, edge) ELSE felt
        tapped == handle_gestures(pressed, p, finger)
    IN  IF s.off THEN {[clicked EXCEPT !.moved = FALSE]}
        ELSE {save_previous_packet_values(t, p, finger) :
                 t \in UNION {compute_deltas(u, edge) :
                                u \in handle_scrolling(tapped, finger, edge)}}

-----------------------------------------------------------------------------
(* The history, and the actions.                                           *)

Quiet(s) == [s EXCEPT !.told = {}, !.clicks = 0]

\* A tap that may still become a click or the click of a double tap.
Waits(s) == s.tapstate \in {"SINGLE_TAP_PENDING", "POSSIBLE_DRAG"}

\* A finger has come down and gone up again without moving, where a tap counts.
\* The second tap of a double tap is admitted when it begins.
Tapped(s, t) ==
    /\ ~s.off /\ s.last_finger /\ ~t.last_finger /\ ~pointer.travelled
    /\ \/ s.tapstate = "POSSIBLE_DRAG"
       \/ s.tap /\ ~(s.clickpad /\ s.touch_bottom)

Travels(s, t, p) ==
    /\ t.last_finger
    /\ s.last_finger
    /\ \/ pointer.travelled
       \/ p.x # NO_X /\ Distance(p.x, s.touch_x) >= TapMove
       \/ p.y # NO_Y /\ Distance(p.y, s.touch_y) >= TapMove

\* The button that a press of the clickpad counts for.
PressedAs(s) == IF s.button_down_x > LeftButtonMaxX THEN "right" ELSE "left"

\* handle_clickpad is not reached, or does not look at the buttons.
Overlooks(s, p) ==
    s.clickpad /\ (s.off \/ "BOTTOM" \notin detect_edge(adjust_overflow(s, p), X(s, p), Y(s, p)))

\* The press whose release the clickpad overlooks stays with the reader, unless
\* a drag is under way: the end of the drag releases it.
Swallows(s, t, p) ==
    IF Overlooks(s, p) /\ <<"left", 0>> \in p.mask
      THEN (t.down \cap {PressedAs(s)}) \ (IF t.tapstate = "DRAG" THEN {"left"} ELSE {})
      ELSE {}

\* What the kernel can report: a button changes at most once in a packet, and
\* only to the other state.
Reportable(s, mask) ==
    /\ \A e \in mask : (e[2] = 1) <=> (e[1] \notin held)
    /\ s.clickpad => \A e \in mask : e[1] = "left"

Masks == {{}} \cup {{<<b, v>>} : b \in PadButtons, v \in {0, 1}}

\* handle_touchpad_event, for all the events of one packet and its SYN_REPORT.
handle_touchpad_event ==
    \E x \in Xs \cup {NO_X}, y \in Ys \cup {NO_Y}, touch \in {"keep", "on", "off"}, mask \in Masks :
      LET p == [x |-> x, y |-> y, touch |-> touch, mask |-> mask]
      IN  /\ touch # (IF tpad.finger THEN "on" ELSE "off")       \* that is "keep"
          /\ Reportable(tpad, mask)
          /\ held' = (held \ {e[1] : e \in mask}) \cup {e[1] : e \in {f \in mask : f[2] = 1}}
          /\ \E t \in process_packet(tpad, p) :
               /\ tpad' = Quiet(t)
               /\ pointer' =
                    [pointer EXCEPT
                       !.owed = @ + (IF Tapped(tpad, t) THEN 1 ELSE 0) - t.clicks,
                       !.lost = (@ \ t.told) \cup Swallows(tpad, t, p),
                       !.travelled = ~tpad.off /\ Travels(tpad, t, p),
                       !.loose = @ /\ (tpad.off \/ ~tpad.scrolling)]

\* Mutant: the click timer does not look whether a tap is still pending.
ClickAlways ==
    /\ tpad.click_timer
    /\ LET t == TapClick([tpad EXCEPT !.tapstate = "START"])
       IN  /\ tpad' = Quiet(delete_left_click_timer(t))
           /\ pointer' = [pointer EXCEPT !.owed = @ - t.clicks, !.lost = @ \ t.told]
    /\ UNCHANGED held

\* Mutant: the click timer does not fire while the pad is off.
ClickWhenOn ==
    /\ tpad.click_timer /\ ~tpad.off
    /\ LET pending == tpad.tapstate = "SINGLE_TAP_PENDING"
           t == IF pending THEN TapClick([tpad EXCEPT !.tapstate = "START"]) ELSE tpad
       IN  /\ tpad' = Quiet(delete_left_click_timer(t))
           /\ pointer' = [pointer EXCEPT !.owed = @ - t.clicks, !.lost = @ \ t.told]
    /\ UNCHANGED held

\* send_left_click_event: the timer of a single tap.
send_left_click_event ==
    /\ tpad.click_timer
    /\ LET pending == tpad.tapstate = "SINGLE_TAP_PENDING"
           t == IF pending THEN TapClick([tpad EXCEPT !.tapstate = "START"]) ELSE tpad
       IN  /\ tpad' = Quiet(delete_left_click_timer(t))
           /\ pointer' = [pointer EXCEPT !.owed = @ - t.clicks, !.lost = @ \ t.told]
    /\ UNCHANGED held

\* send_autoscroll_event: it scrolls, and sets its timer again.
send_autoscroll_event ==
    /\ tpad.scroll_timer
    /\ UNCHANGED touchpad_vars

\* A key turns the pad off.
disable_touchpad ==
    /\ tpad' = [tpad EXCEPT !.off = TRUE]
    /\ pointer' = [pointer EXCEPT !.loose = @ \/ tpad.scroll_timer]
    /\ UNCHANGED held

\* The tap states start afresh: a tap that waits is dropped, and so is the drag.
\* lost: the presses that are no longer going to be released.
Restarts(lost) ==
    /\ Waits(tpad) => pointer.dropped < MaxDropped
    /\ pointer' = [pointer EXCEPT !.dropped = @ + (IF Waits(tpad) THEN 1 ELSE 0),
                                  !.lost = @ \cup (tpad.down \cap lost),
                                  !.travelled = FALSE,
                                  !.loose = @ \/ tpad.scroll_timer]

\* Another turns it on, whether it was off or not.
enable_touchpad ==
    /\ tpad' = init_touchpad_state(tpad)
    /\ Restarts(IF tpad.tapstate = "DRAG" THEN {"left"} ELSE {})
    /\ UNCHANGED held

\* The two settings of the D-Bus interface.
touchpad_reread_config ==
    \E tap, scrolling \in BOOLEAN :
      /\ tpad' = [tpad EXCEPT !.tap = tap, !.scrolling = scrolling]
      /\ pointer' = [pointer EXCEPT !.loose = @ \/ (tpad.scroll_timer /\ ~scrolling)]
      /\ UNCHANGED held

\* toggle_touchpad_status, for a D-Bus client.
toggle_touchpad_status == IF tpad.off THEN enable_touchpad ELSE disable_touchpad

\* The pad is opened: the limits and the state start afresh, the statics of the
\* functions and the timers stay.
init_touchpad(s, clickpad, tap, scrolling) ==
    [init_touchpad_state(s) EXCEPT
       !.clickpad = clickpad, !.pressed = FALSE,
       !.maxx = MaxX, !.right_edge = RightEdge,
       !.maxy = MaxY, !.bottom_edge = BottomEdge,
       !.tap = tap, !.scrolling = scrolling]

TouchpadInit ==
    /\ \E clickpad, tap, scrolling \in BOOLEAN :
         tpad = init_touchpad(
                  [tapstate |-> "START", last_x |-> 0, last_y |-> 0,
                   last_finger |-> FALSE, off |-> FALSE, vert_scroll_on |-> FALSE,
                   scroll_packets |-> 0, corner |-> FALSE, finger |-> FALSE,
                   touch_x |-> 0, touch_y |-> 0, touch_bottom |-> FALSE,
                   button_down_x |-> NoButton, clickpad |-> FALSE, pressed |-> FALSE,
                   maxx |-> 0, right_edge |-> 0, maxy |-> 0, bottom_edge |-> 0,
                   tap |-> FALSE, scrolling |-> FALSE,
                   click_timer |-> FALSE, scroll_timer |-> FALSE,
                   down |-> {}, told |-> {}, clicks |-> 0, moved |-> FALSE],
                  clickpad, tap, scrolling)
    /\ held = {}
    /\ pointer = [owed |-> 0, dropped |-> 0, lost |-> {}, travelled |-> FALSE,
                  loose |-> FALSE]

\* The pad, which may not have been in the machine for a while, is found again:
\* nothing tells of the buttons that were down when it went.
touchpad_added ==
    /\ tpad' = init_touchpad(tpad, tpad.clickpad, tpad.tap, tpad.scrolling)
    /\ held' = {}
    /\ Restarts(Buttons)

TouchpadNext ==
    \/ handle_touchpad_event
    \/ send_left_click_event
    \/ send_autoscroll_event
    \/ disable_touchpad
    \/ enable_touchpad
    \/ toggle_touchpad_status
    \/ touchpad_reread_config
    \/ touchpad_added

\* libevent runs a timer that has expired; nothing obliges a finger to move.
TouchpadSpec ==
    /\ TouchpadInit /\ [][TouchpadNext]_touchpad_vars
    /\ WF_touchpad_vars(send_left_click_event)

-----------------------------------------------------------------------------
(* Properties.                                                             *)

\* The variables have their types; no mark of a missing value is remembered as
\* a place.
TouchpadTypeOK ==
    /\ tpad.tapstate \in TapStates
    /\ tpad.scroll_packets \in 0..(MinScrollPackets + 1)
    /\ tpad.last_x # NO_X /\ tpad.last_y # NO_Y
    /\ tpad.told = {} /\ tpad.clicks = 0
    /\ tpad.down \subseteq Buttons /\ held \subseteq Buttons /\ pointer \in Pointer

\* No click is made without a tap, and every tap becomes one click but those that
\* waited when the pad was turned on or found again (init_touchpad_state): what is
\* owed is the tap of which handle_gestures waits to see what the second touch
\* will be, and the taps that were dropped so.
TapsMatchClicks == pointer.owed = pointer.dropped + (IF Waits(tpad) THEN 1 ELSE 0)

\* The corner timer scrolls only while the finger rests in a corner on the right
\* (handle_scrolling), unless the packets of the finger are not looked at.
AutoscrollHasFinger ==
    tpad.scroll_timer /\ ~pointer.loose =>
      /\ tpad.last_finger
      /\ LET edge == detect_edge(tpad, tpad.last_x, tpad.last_y)
         IN  "RIGHT" \in edge /\ edge \cap {"TOP", "BOTTOM"} # {}

\* A tap leaves the pointer where it is: a packet moves it only after the finger
\* has travelled since it came down (handle_gestures, compute_deltas).
MovesOnlyTravellers == tpad.moved => pointer.travelled

\* The device holds the button: a clickpad has one, and the place of the press says
\* which of the two it stands for.
Holds(b) == IF tpad.clickpad THEN "left" \in held /\ b = PressedAs(tpad) ELSE b \in held

\* No button hangs but for a release that is known to be swallowed: a button that the
\* reader believes to be down is held on the device as that button, wherever the
\* finger slid since (handle_clickpad), or is the left one of a drag
\* (handle_gestures, TS_DRAG), or is lost: its release came while the clickpad did not
\* look, or the pad was turned on or found again during a drag or a press.
DownButtonsAreHeld ==
    \A b \in tpad.down :
       Holds(b) \/ (b = "left" /\ tpad.tapstate = "DRAG") \/ b \in pointer.lost

\* A tap does not wait for ever for a second touch.
TapClicks == tpad.tapstate = "SINGLE_TAP_PENDING" ~> tpad.tapstate # "SINGLE_TAP_PENDING"

\* Not so: the tap that waits when the pad is turned on again gets no click.
NoTapDropped == pointer.dropped = 0

\* Nor this: a clickpad's release above the bottom edge, or while the pad is off, is
\* swallowed, and so is the end of a drag when the pad is turned on again.
NoReleaseLost == pointer.lost = {}

\* touchpad.c:133: "True when the clickpad is pressed on the bottom edge."
ClickpadPressedIsHeld == tpad.pressed => "left" \in held

\* touchpad.c:969: "Preserve the reported zone size": the scrolling zone stays as
\* wide as init_touchpad made it.
ZonesPreserved ==
    /\ tpad.maxx - tpad.right_edge = MaxX - RightEdge
    /\ tpad.maxy - tpad.bottom_edge = MaxY - BottomEdge
=============================================================================
