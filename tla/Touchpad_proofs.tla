--------------------------- MODULE Touchpad_proofs ---------------------------
(***************************************************************************)
(* Theorems about Touchpad: taps and clicks, the corner timer, movement     *)
(* and the buttons that hang, for any pad and any packets.                  *)
(***************************************************************************)
EXTENDS Touchpad, TLAPS

Events == Buttons \X {0, 1}

\* A packet tells of one event of a button at most.
Singles == {{}} \cup {{e} : e \in Events}

\* A finger rests on the pad, and one that has travelled.
Touching == {"TOUCH", "MOVE", "POSSIBLE_DRAG", "DRAG"}
Moving == {"MOVE", "DRAG"}

\* The taps that wait for what a second touch will be.
Waiting(tapstate) == IF tapstate \in {"SINGLE_TAP_PENDING", "POSSIBLE_DRAG"} THEN 1 ELSE 0

InCorner(edge) == "RIGHT" \in edge /\ edge \cap {"TOP", "BOTTOM"} # {}

Typed == /\ tpad \in PadState /\ tpad.told = {} /\ tpad.clicks = 0
         /\ pointer \in Pointer

\* The state of a tap tells whether a finger is on the pad and, while packets
\* are looked at, whether it has travelled.
Fingers == /\ tpad.last_finger <=> tpad.tapstate \in Touching
           /\ ~tpad.off => (pointer.travelled <=> tpad.tapstate \in Moving)
           /\ MovesOnlyTravellers

\* A corner timer that nobody frees is loose.
Corners == /\ tpad.scroll_timer /\ (tpad.off \/ ~tpad.scrolling) => pointer.loose
           /\ AutoscrollHasFinger

\* The inductive invariant.
IInv == Typed /\ Fingers /\ TapsMatchClicks /\ Corners /\ DownButtonsAreHeld

-----------------------------------------------------------------------------
(* What the stages of process_packet leave alone.                          *)

SameSettings(s, t) ==
    /\ t.off = s.off /\ t.tap = s.tap /\ t.scrolling = s.scrolling
    /\ t.clickpad = s.clickpad /\ t.last_finger = s.last_finger
    /\ t.last_x = s.last_x /\ t.last_y = s.last_y

SameTap(s, t) ==
    /\ t.tapstate = s.tapstate /\ t.clicks = s.clicks
    /\ t.touch_x = s.touch_x /\ t.touch_y = s.touch_y
    /\ t.touch_bottom = s.touch_bottom

SameEdges(s, t) == t.right_edge = s.right_edge /\ t.bottom_edge = s.bottom_edge

SameButtons(s, t) ==
    t.button_down_x = s.button_down_x /\ t.down = s.down /\ t.told = s.told

-----------------------------------------------------------------------------
(* The events of a packet.                                                 *)

LEMMA PadFields ==
  ASSUME NEW s \in PadState
  PROVE  /\ s.tapstate \in TapStates /\ s.last_x \in Int /\ s.last_y \in Int
         /\ s.last_finger \in BOOLEAN /\ s.off \in BOOLEAN
         /\ s.vert_scroll_on \in BOOLEAN /\ s.scroll_packets \in Nat
         /\ s.corner \in BOOLEAN /\ s.finger \in BOOLEAN
         /\ s.touch_x \in Int /\ s.touch_y \in Int /\ s.touch_bottom \in BOOLEAN
         /\ s.button_down_x \in Int /\ s.clickpad \in BOOLEAN /\ s.pressed \in BOOLEAN
         /\ s.maxx \in Int /\ s.right_edge \in Int /\ s.maxy \in Int
         /\ s.bottom_edge \in Int /\ s.tap \in BOOLEAN /\ s.scrolling \in BOOLEAN
         /\ s.click_timer \in BOOLEAN /\ s.scroll_timer \in BOOLEAN
         /\ s.down \in SUBSET Buttons /\ s.told \in SUBSET Buttons
         /\ s.clicks \in Nat /\ s.moved \in BOOLEAN
BY DEF PadState

\* What the reader believes after one more event.
After(down, b, v) == IF v = 1 THEN down \cup {b} ELSE down \ {b}

LEMMA ButtonChange ==
  \A s \in PadState, b \in Buttons, v \in {0, 1} :
     LET t == event_button_change(s, b, v) IN
     /\ t \in PadState /\ t.down = After(s.down, b, v) /\ t.told = s.told \cup {b}
     /\ SameSettings(s, t) /\ SameTap(s, t) /\ SameEdges(s, t)
     /\ t.button_down_x = s.button_down_x /\ t.scroll_timer = s.scroll_timer
     /\ t.moved = s.moved
<1> TAKE s \in PadState, b \in Buttons, v \in {0, 1}
<1> DEFINE d == After(s.down, b, v)
           o == s.told \cup {b}
           u == [s EXCEPT !.down = d]
           t == [u EXCEPT !.told = o]
           Same(w) == /\ SameSettings(s, w) /\ SameTap(s, w) /\ SameEdges(s, w)
                      /\ w.button_down_x = s.button_down_x
                      /\ w.scroll_timer = s.scroll_timer /\ w.moved = s.moved
<1>1. d \in SUBSET Buttons /\ o \in SUBSET Buttons
  BY PadFields DEF After
<1>2. event_button_change(s, b, v) = t
  BY DEF event_button_change, After
<1> HIDE DEF d, o
<1>3. u \in PadState /\ u.down = d /\ u.told = s.told /\ Same(u)
  BY <1>1 DEF PadState, SameSettings, SameTap, SameEdges
<1> HIDE DEF u
<1>4. t \in PadState /\ t.down = d /\ t.told = o /\ Same(t)
  BY <1>1, <1>3, ZenonT(40) DEF PadState, SameSettings, SameTap, SameEdges
<1> HIDE DEF t
<1> QED
  BY <1>2, <1>4 DEF d, o

LEMMA NoClick == \A s : handle_button_clicks(s, {}) = s
BY DEF handle_button_clicks

\* The button is reported, and nothing else changes.
Reports(s, t, b, v) ==
    /\ t \in PadState /\ t.down = After(s.down, b, v) /\ t.told = s.told \cup {b}
    /\ SameSettings(s, t) /\ SameTap(s, t) /\ SameEdges(s, t)
    /\ t.button_down_x = s.button_down_x /\ t.scroll_timer = s.scroll_timer

LEMMA OneClick ==
  \A s \in PadState, b \in Buttons, v \in {0, 1} :
     Reports(s, handle_button_clicks(s, {<<b, v>>}), b, v)
<1> TAKE s \in PadState, b \in Buttons, v \in {0, 1}
<1> DEFINE t == handle_button_clicks(s, {<<b, v>>})
<1>1. t = event_button_change(s, b, v)
  BY DEF handle_button_clicks, Buttons
<1> DEFINE u == event_button_change(s, b, v)
<1>2. /\ u \in PadState /\ u.down = After(s.down, b, v) /\ u.told = s.told \cup {b}
      /\ SameSettings(s, u) /\ SameTap(s, u) /\ SameEdges(s, u)
      /\ u.button_down_x = s.button_down_x /\ u.scroll_timer = s.scroll_timer
  BY ButtonChange, ZenonT(40)
<1> HIDE DEF u, t
<1>3. t = u
  BY <1>1 DEF u
<1>4. Reports(s, t, b, v)
  BY <1>2, <1>3 DEF Reports
<1> QED
  BY <1>4 DEF t

LEMMA ButtonClicks ==
  ASSUME NEW s \in PadState, NEW mask \in Singles,
         NEW t, t = handle_button_clicks(s, mask)
  PROVE  /\ t \in PadState
         /\ SameSettings(s, t) /\ SameTap(s, t) /\ SameEdges(s, t)
         /\ t.button_down_x = s.button_down_x /\ t.scroll_timer = s.scroll_timer
<1>1. CASE mask = {}
  <2>1. t = s
    BY <1>1, NoClick
  <2> QED
    BY <1>1, <2>1 DEF SameSettings, SameTap, SameEdges
<1>2. ASSUME NEW b \in Buttons, NEW v \in {0, 1}, mask = {<<b, v>>}
      PROVE  /\ t \in PadState
             /\ SameSettings(s, t) /\ SameTap(s, t) /\ SameEdges(s, t)
             /\ t.button_down_x = s.button_down_x /\ t.scroll_timer = s.scroll_timer
  <2>1. t = handle_button_clicks(s, {<<b, v>>})
    BY <1>2
  <2>2. Reports(s, t, b, v)
    BY <2>1, OneClick
  <2> QED
    BY <2>2 DEF Reports
<1> QED
  BY <1>1, <1>2 DEF Singles, Events

\* What most of the stages leave alone.
LEMMA SameItself ==
  \A s : SameSettings(s, s) /\ SameTap(s, s) /\ SameEdges(s, s) /\ SameButtons(s, s)
BY DEF SameSettings, SameTap, SameEdges, SameButtons

LEMMA Overflow ==
  ASSUME NEW s \in PadState, NEW p, p.x \in Int, p.y \in Int,
         NEW t, t = adjust_overflow(s, p)
  PROVE  /\ t \in PadState /\ SameSettings(s, t) /\ SameTap(s, t)
         /\ SameButtons(s, t) /\ t.scroll_timer = s.scroll_timer
<1> DEFINE right == p.x - ((s.maxx - MinX) - s.right_edge)
           bottom == p.y - ((s.maxy - MinY) - s.bottom_edge)
           wide == [s EXCEPT !.right_edge = right, !.maxx = p.x]
           higher(u) == [u EXCEPT !.bottom_edge = bottom, !.maxy = p.y]
           Stays(v) == /\ v \in PadState /\ SameSettings(s, v) /\ SameTap(s, v)
                       /\ SameButtons(s, v) /\ v.scroll_timer = s.scroll_timer
<1>1. right \in Int /\ bottom \in Int
  <2>1. MinX \in Int /\ MinY \in Int
    BY TouchpadAssumption
  <2>2. s.maxx \in Int /\ s.right_edge \in Int /\ s.maxy \in Int /\ s.bottom_edge \in Int
    BY PadFields
  <2> QED
    BY <2>1, <2>2
<1>2. t \in {s, wide, higher(s), higher(wide)}
  BY DEF adjust_overflow
<1> HIDE DEF right, bottom
<1>3. Stays(s)
  BY SameItself
<1>4. Stays(wide)
  BY <1>1 DEF PadState, SameSettings, SameTap, SameButtons
<1>5. ASSUME NEW u, Stays(u)
      PROVE  Stays(higher(u))
  <2> DEFINE v == [u EXCEPT !.bottom_edge = bottom]
  <2>1. Stays(v)
    BY <1>1, <1>5 DEF PadState, SameSettings, SameTap, SameButtons
  <2>2. higher(u) = [v EXCEPT !.maxy = p.y]
    OBVIOUS
  <2> HIDE DEF v, higher
  <2>3. Stays([v EXCEPT !.maxy = p.y])
    BY <2>1 DEF PadState, SameSettings, SameTap, SameButtons
  <2> QED
    BY <2>2, <2>3
<1> HIDE DEF wide, higher, Stays
<1>6. Stays(t)
  BY <1>2, <1>3, <1>4, <1>5
<1> QED
  BY <1>6 DEF Stays

\* The device holds a button: Holds, for a state of the pad and of the device.
HeldAs(s, h, b) == IF s.clickpad THEN "left" \in h /\ b = PressedAs(s) ELSE b \in h

\* What the device holds after a packet.
Later(h, mask) == (h \ {e[1] : e \in mask}) \cup {e[1] : e \in {f \in mask : f[2] = 1}}

\* What the stages that look at the buttons make of one that the reader believes
\* to be down: it is held, or it was not before, or its release is overlooked.
ButtonStep(s, t, h, mask, overlooks) ==
    \A b \in t.down :
       \/ HeldAs(t, Later(h, mask), b)
       \/ b \in s.down /\ b \notin t.told /\ ~HeldAs(s, h, b)
       \/ /\ overlooks /\ <<"left", 0>> \in mask
          /\ b \in s.down /\ b \notin t.told /\ b = PressedAs(s)

LEMMA LaterOne ==
  \A h : /\ Later(h, {}) = h
         /\ \A b : Later(h, {<<b, 1>>}) = h \cup {b} /\ Later(h, {<<b, 0>>}) = h \ {b}
BY DEF Later

LEMMA PlainButtons ==
  ASSUME NEW s \in PadState, ~s.clickpad, s.told = {}, NEW mask \in Singles, NEW h,
         NEW overlooks, NEW t, t = handle_button_clicks(s, mask)
  PROVE  ButtonStep(s, t, h, mask, overlooks)
<1>1. ~t.clickpad
  BY ButtonClicks DEF SameSettings
<1>2. CASE mask = {}
  <2>1. t = s /\ Later(h, mask) = h
    BY <1>2, NoClick, LaterOne
  <2> QED
    BY <1>1, <2>1 DEF ButtonStep, HeldAs
<1>3. ASSUME NEW b \in Buttons, mask = {<<b, 1>>}
      PROVE  ButtonStep(s, t, h, mask, overlooks)
  <2>1. t.down = After(s.down, b, 1) /\ t.told = s.told \cup {b}
    <3>1. t = handle_button_clicks(s, {<<b, 1>>}) /\ 1 \in {0, 1}
      BY <1>3
    <3>2. Reports(s, t, b, 1)
      BY <3>1, OneClick
    <3> QED
      BY <3>2 DEF Reports
  <2>2. t.down = s.down \cup {b} /\ t.told = {b} /\ Later(h, mask) = h \cup {b}
    BY <2>1, <1>3, LaterOne DEF After
  <2> QED
    BY <1>1, <2>2 DEF ButtonStep, HeldAs
<1>4. ASSUME NEW b \in Buttons, mask = {<<b, 0>>}
      PROVE  ButtonStep(s, t, h, mask, overlooks)
  <2>1. t.down = After(s.down, b, 0) /\ t.told = s.told \cup {b}
    <3>1. t = handle_button_clicks(s, {<<b, 0>>}) /\ 0 \in {0, 1}
      BY <1>4
    <3>2. Reports(s, t, b, 0)
      BY <3>1, OneClick
    <3> QED
      BY <3>2 DEF Reports
  <2>2. t.down = s.down \ {b} /\ t.told = {b}
    BY <2>1 DEF After
  <2>3. Later(h, mask) = h \ {b}
    BY <1>4, LaterOne
  <2> QED
    BY <1>1, <2>2, <2>3 DEF ButtonStep, HeldAs
<1>5. mask = {} \/ \E b \in Buttons : mask = {<<b, 1>>} \/ mask = {<<b, 0>>}
  BY DEF Singles, Events
<1> QED
  BY <1>2, <1>3, <1>4, <1>5

Clicked(s, pressed, x) == [s EXCEPT !.pressed = pressed, !.button_down_x = x]

LEMMA SetClick ==
  \A s \in PadState, pressed \in BOOLEAN, x \in Int :
     LET t == Clicked(s, pressed, x) IN
     /\ t \in PadState /\ t.button_down_x = x /\ t.down = s.down /\ t.told = s.told
     /\ SameSettings(s, t) /\ SameTap(s, t) /\ SameEdges(s, t)
     /\ t.scroll_timer = s.scroll_timer
<1> TAKE s \in PadState, pressed \in BOOLEAN, x \in Int
<1> DEFINE u == [s EXCEPT !.pressed = pressed]
           t == [u EXCEPT !.button_down_x = x]
<1>1. /\ u \in PadState /\ u.down = s.down /\ u.told = s.told
      /\ SameSettings(s, u) /\ SameTap(s, u) /\ SameEdges(s, u)
      /\ u.scroll_timer = s.scroll_timer
  BY DEF PadState, SameSettings, SameTap, SameEdges
<1>2. Clicked(s, pressed, x) = t
  BY DEF Clicked
<1> HIDE DEF u
<1>3. /\ t \in PadState /\ t.button_down_x = x /\ t.down = s.down /\ t.told = s.told
      /\ SameSettings(s, t) /\ SameTap(s, t) /\ SameEdges(s, t)
      /\ t.scroll_timer = s.scroll_timer
  BY <1>1 DEF PadState, SameSettings, SameTap, SameEdges
<1> QED
  BY <1>2, <1>3

\* What a clickpad can report in one packet.
OneButton(mask, h) ==
    /\ mask \in Singles
    /\ \A e \in mask : e[1] = "left" /\ ((e[2] = 1) <=> "left" \notin h)

LEMMA OneOfThree ==
  ASSUME NEW mask, NEW h, OneButton(mask, h)
  PROVE  \/ mask = {}
         \/ mask = {<<"left", 1>>} /\ "left" \notin h
         \/ mask = {<<"left", 0>>} /\ "left" \in h
BY DEF OneButton, Singles, Events

LEMMA Clickpad ==
  ASSUME NEW s \in PadState, s.clickpad, s.told = {},
         NEW p, p.x \in Int, NEW h, OneButton(p.mask, h),
         NEW edge, NEW t, t = handle_clickpad(s, p, edge)
  PROVE  /\ t \in PadState /\ t.scroll_timer = s.scroll_timer
         /\ SameSettings(s, t) /\ SameTap(s, t) /\ SameEdges(s, t)
         /\ ButtonStep(s, t, h, p.mask, "BOTTOM" \notin edge)
<1> DEFINE x == X(s, p)
           down == Clicked(s, TRUE, x)
           up == Clicked(s, FALSE, NoButton)
           m1 == IF x > LeftButtonMaxX THEN {<<"right", 1>>} ELSE p.mask
           m0 == IF ReleasesRight(s, x) THEN {<<"right", 0>>} ELSE p.mask
           Same(v) == /\ v \in PadState /\ v.scroll_timer = s.scroll_timer
                      /\ SameSettings(s, v) /\ SameTap(s, v) /\ SameEdges(s, v)
<1>1. x \in Int /\ NoButton \in Int
  BY PadFields DEF X, NoButton
<1>2. PressedAs(s) \in Buttons /\ PressedAs(s) = IF ReleasesRight(s, x) THEN "right" ELSE "left"
  BY DEF PressedAs, ReleasesRight, Buttons
<1>3. CASE "BOTTOM" \notin edge
  <2>1. t = s
    BY <1>3 DEF handle_clickpad
  <2>2. CASE p.mask = {}
    BY <2>1, <2>2, LaterOne DEF ButtonStep, HeldAs, SameSettings, SameTap, SameEdges
  <2>3. CASE p.mask = {<<"left", 1>>} /\ "left" \notin h
    BY <2>1, <2>3 DEF ButtonStep, HeldAs, SameSettings, SameTap, SameEdges
  <2>4. CASE p.mask = {<<"left", 0>>} /\ "left" \in h
    BY <1>3, <2>1, <2>4 DEF ButtonStep, HeldAs, SameSettings, SameTap, SameEdges
  <2> QED
    BY <2>2, <2>3, <2>4, OneOfThree
<1>4. CASE "BOTTOM" \in edge /\ p.mask = {<<"left", 1>>} /\ "left" \notin h
  <2>1. t = handle_button_clicks(down, m1)
    BY <1>4 DEF handle_clickpad, Clicked
  <2>2. /\ Same(down) /\ down.told = {} /\ down.down = s.down
        /\ down.button_down_x = x
    BY <1>1, SetClick
  <2> DEFINE c == IF x > LeftButtonMaxX THEN "right" ELSE "left"
  <2>3. m1 = {<<c, 1>>} /\ c \in Buttons
    BY <1>4 DEF Buttons
  <2> HIDE DEF down, m1, x, c
  <2>5. /\ t \in PadState /\ t.down = After(down.down, c, 1) /\ t.told = down.told \cup {c}
        /\ SameSettings(down, t) /\ SameTap(down, t) /\ SameEdges(down, t)
        /\ t.button_down_x = down.button_down_x /\ t.scroll_timer = down.scroll_timer
    <3>1. 1 \in {0, 1} /\ t = handle_button_clicks(down, {<<c, 1>>}) /\ down \in PadState
      BY <2>1, <2>2, <2>3
    <3>2. Reports(down, t, c, 1)
      BY <2>3, <3>1, OneClick
    <3> QED
      BY <3>2 DEF Reports
  <2>6. Same(t)
    BY <2>2, <2>5 DEF SameSettings, SameTap, SameEdges
  <2>7. /\ t.down = s.down \cup {c} /\ t.told = {c} /\ PressedAs(t) = c
        /\ t.clickpad
    BY <2>2, <2>5, <2>6 DEF After, PressedAs, c, SameSettings
  <2>8. Later(h, p.mask) = h \cup {"left"}
    BY <1>4, LaterOne
  <2>9. ButtonStep(s, t, h, p.mask, "BOTTOM" \notin edge)
    BY <1>4, <2>7, <2>8 DEF ButtonStep, HeldAs
  <2> QED
    BY <2>6, <2>9
<1>5. CASE "BOTTOM" \in edge /\ p.mask = {<<"left", 0>>} /\ "left" \in h
  <2>1. t = handle_button_clicks(up, m0)
    BY <1>5 DEF handle_clickpad, Clicked
  <2>2. Same(up) /\ up.told = {} /\ up.down = s.down
    BY <1>1, SetClick
  <2> DEFINE c == PressedAs(s)
  <2>3. m0 = {<<c, 0>>} /\ c \in Buttons
    BY <1>2, <1>5
  <2> HIDE DEF up, m0, c
  <2>5. /\ t \in PadState /\ t.down = After(up.down, c, 0) /\ t.told = up.told \cup {c}
        /\ SameSettings(up, t) /\ SameTap(up, t) /\ SameEdges(up, t)
        /\ t.scroll_timer = up.scroll_timer
    <3>1. 0 \in {0, 1} /\ t = handle_button_clicks(up, {<<c, 0>>}) /\ up \in PadState
      BY <2>1, <2>2, <2>3
    <3>2. Reports(up, t, c, 0)
      BY <2>3, <3>1, OneClick
    <3> QED
      BY <3>2 DEF Reports
  <2>6. Same(t)
    BY <2>2, <2>5 DEF SameSettings, SameTap, SameEdges
  <2>7. t.down = s.down \ {c} /\ t.told = {c}
    BY <2>2, <2>5 DEF After
  <2>8. ButtonStep(s, t, h, p.mask, "BOTTOM" \notin edge)
    BY <2>7 DEF ButtonStep, HeldAs, c
  <2> QED
    BY <2>6, <2>8
<1>6. CASE "BOTTOM" \in edge /\ p.mask = {}
  <2>1. t = handle_button_clicks(s, p.mask)
    BY <1>6 DEF handle_clickpad
  <2>2. t = s
    BY <1>6, <2>1, NoClick
  <2>3. /\ Same(t) /\ t.down = s.down /\ t.told = s.told
        /\ t.button_down_x = s.button_down_x
    BY <2>2, SameItself
  <2>4. ButtonStep(s, t, h, p.mask, "BOTTOM" \notin edge)
    BY <1>6, <2>3, LaterOne DEF ButtonStep, HeldAs, PressedAs, SameSettings
  <2> QED
    BY <2>3, <2>4
<1> QED
  BY <1>3, <1>4, <1>5, <1>6, OneOfThree

\* A stage of the gestures: it may send events of the left button.
Keeps(s, t) ==
    /\ t \in PadState /\ SameSettings(s, t) /\ SameEdges(s, t)
    /\ t.button_down_x = s.button_down_x /\ t.scroll_timer = s.scroll_timer
    /\ t.down \ {"left"} = s.down \ {"left"}
    /\ t.told \ {"left"} = s.told \ {"left"}
    /\ s.told \subseteq t.told

LEMMA KeepsMore ==
  \A s, t, u : Keeps(s, t) /\ Keeps(t, u) => Keeps(s, u)
BY DEF Keeps, SameSettings, SameEdges

LEMMA KeepsItself == \A s \in PadState : Keeps(s, s)
BY SameItself DEF Keeps

\* A stage that sends nothing.
NoEvent(s, t) == t.down = s.down /\ t.told = s.told

Goes(s, state) == [s EXCEPT !.tapstate = state]

LEMMA GoesKeeps ==
  \A s \in PadState, state \in TapStates :
     LET t == Goes(s, state) IN
     Keeps(s, t) /\ t.tapstate = state /\ t.clicks = s.clicks /\ NoEvent(s, t)
<1> TAKE s \in PadState, state \in TapStates
<1> DEFINE t == Goes(s, state)
<1>1. /\ t \in PadState /\ SameSettings(s, t) /\ SameEdges(s, t)
      /\ t.button_down_x = s.button_down_x /\ t.scroll_timer = s.scroll_timer
      /\ t.tapstate = state /\ t.clicks = s.clicks /\ NoEvent(s, t)
  BY DEF Goes, PadState, SameSettings, SameEdges, NoEvent
<1> HIDE DEF t
<1>2. Keeps(s, t)
  BY <1>1 DEF Keeps, NoEvent
<1> QED
  BY <1>1, <1>2 DEF t

LEMMA TimerKeeps ==
  \A s \in PadState :
     \A t \in {set_left_click_timer(s), delete_left_click_timer(s)} :
        /\ Keeps(s, t) /\ t.tapstate = s.tapstate /\ t.clicks = s.clicks
        /\ NoEvent(s, t)
<1> TAKE s \in PadState
<1> TAKE t \in {set_left_click_timer(s), delete_left_click_timer(s)}
<1>0. PICK on \in BOOLEAN : t = [s EXCEPT !.click_timer = on]
  BY DEF set_left_click_timer, delete_left_click_timer
<1>1. /\ t \in PadState /\ SameSettings(s, t) /\ SameEdges(s, t)
      /\ t.button_down_x = s.button_down_x /\ t.scroll_timer = s.scroll_timer
      /\ t.tapstate = s.tapstate /\ t.clicks = s.clicks /\ NoEvent(s, t)
  BY <1>0 DEF PadState, SameSettings, SameEdges, NoEvent
<1>2. Keeps(s, t)
  BY <1>1 DEF Keeps, NoEvent
<1> QED
  BY <1>1, <1>2

LEMMA LeftKeeps ==
  \A s \in PadState, v \in {0, 1} :
     LET t == event_button_change(s, "left", v) IN
     /\ Keeps(s, t) /\ t.tapstate = s.tapstate /\ t.clicks = s.clicks
     /\ v = 0 => "left" \notin t.down
<1> TAKE s \in PadState, v \in {0, 1}
<1> DEFINE t == event_button_change(s, "left", v)
<1> HIDE DEF t
<1>1. /\ t \in PadState /\ t.down = After(s.down, "left", v)
      /\ t.told = s.told \cup {"left"}
      /\ SameSettings(s, t) /\ SameTap(s, t) /\ SameEdges(s, t)
      /\ t.button_down_x = s.button_down_x /\ t.scroll_timer = s.scroll_timer
  BY ButtonChange DEF t, Buttons
<1>2. t.down \ {"left"} = s.down \ {"left"} /\ (v = 0 => "left" \notin t.down)
  BY <1>1 DEF After
<1>3. Keeps(s, t)
  BY <1>1, <1>2 DEF Keeps
<1> QED
  BY <1>1, <1>2, <1>3 DEF t, SameTap

LEMMA PressKeeps ==
  \A s \in PadState :
     Keeps(s, TapPress(s)) /\ TapPress(s).tapstate = s.tapstate
     /\ TapPress(s).clicks = s.clicks + 1
<1> TAKE s \in PadState
<1> DEFINE u == event_button_change(s, "left", 1)
           n == u.clicks + 1
           t == [u EXCEPT !.clicks = n]
<1>1. Keeps(s, u) /\ u.tapstate = s.tapstate /\ u.clicks = s.clicks
  BY LeftKeeps
<1>2. TapPress(s) = t
  BY DEF TapPress
<1> HIDE DEF u
<1>3. u \in PadState /\ n \in Nat /\ n = s.clicks + 1
  <2>1. u \in PadState
    BY <1>1 DEF Keeps
  <2>2. u.clicks \in Nat
    BY <2>1, PadFields
  <2> QED
    BY <1>1, <2>1, <2>2
<1> HIDE DEF n
<1>4. /\ t \in PadState /\ SameSettings(u, t) /\ SameEdges(u, t)
      /\ t.button_down_x = u.button_down_x /\ t.scroll_timer = u.scroll_timer
      /\ NoEvent(u, t) /\ t.tapstate = u.tapstate /\ t.clicks = n
  BY <1>3, ZenonT(40) DEF PadState, SameSettings, SameEdges, NoEvent
<1> HIDE DEF t
<1>5. Keeps(u, t)
  BY <1>4 DEF Keeps, NoEvent
<1> QED
  BY <1>1, <1>2, <1>3, <1>4, <1>5, KeepsMore

LEMMA ClickKeeps ==
  \A s \in PadState :
     /\ Keeps(s, TapClick(s)) /\ TapClick(s).tapstate = s.tapstate
     /\ TapClick(s).clicks = s.clicks + 1 /\ "left" \notin TapClick(s).down
<1> TAKE s \in PadState
<1> DEFINE u == TapPress(s)
<1>1. Keeps(s, u) /\ u.tapstate = s.tapstate /\ u.clicks = s.clicks + 1
  BY PressKeeps
<1>2. TapClick(s) = event_button_change(u, "left", 0)
  BY DEF TapClick
<1> HIDE DEF u
<1>3. u \in PadState
  BY <1>1 DEF Keeps
<1>4. /\ Keeps(u, TapClick(s)) /\ TapClick(s).tapstate = u.tapstate
      /\ TapClick(s).clicks = u.clicks /\ "left" \notin TapClick(s).down
  BY <1>2, <1>3, LeftKeeps
<1> QED
  BY <1>1, <1>4, KeepsMore

\* The finger is away from where it came down.
Far(s, p) ==
    \/ p.x # NO_X /\ Distance(p.x, s.touch_x) >= TapMove
    \/ p.y # NO_Y /\ Distance(p.y, s.touch_y) >= TapMove

\* A finger that has not travelled goes up where a tap counts.
Completes(s, finger) ==
    /\ ~finger /\ s.last_finger /\ s.tapstate \notin Moving
    /\ s.tapstate = "POSSIBLE_DRAG" \/ (s.tap /\ ~(s.clickpad /\ s.touch_bottom))

\* What it makes of the left button: the gestures leave it down only in a drag.
LeftStep(s, t) ==
    "left" \in t.down =>
      \/ t.tapstate = "DRAG"
      \/ /\ "left" \in s.down /\ s.tapstate # "DRAG"
         /\ "left" \in t.told => "left" \in s.told

\* What a packet makes of a tap.
TapStep(s, t, p, finger) ==
    /\ finger <=> t.tapstate \in Touching
    /\ t.tapstate \in Moving <=>
         finger /\ s.last_finger /\ (s.tapstate \in Moving \/ Far(s, p))
    /\ t.clicks + Waiting(t.tapstate) =
         s.clicks + Waiting(s.tapstate) + (IF Completes(s, finger) THEN 1 ELSE 0)

ComesDown(s, x, y, bottom) ==
    [s EXCEPT !.touch_x = x, !.touch_y = y, !.touch_bottom = bottom]

LEMMA Touched ==
  \A s \in PadState, x \in Int, y \in Int, bottom \in BOOLEAN :
     LET t == ComesDown(s, x, y, bottom) IN
     /\ Keeps(s, t) /\ t.tapstate = s.tapstate /\ t.clicks = s.clicks
     /\ NoEvent(s, t)
<1> TAKE s \in PadState, x \in Int, y \in Int, bottom \in BOOLEAN
<1> DEFINE Same(u) == /\ u \in PadState /\ SameSettings(s, u) /\ SameEdges(s, u)
                      /\ u.button_down_x = s.button_down_x
                      /\ u.scroll_timer = s.scroll_timer /\ NoEvent(s, u)
                      /\ u.tapstate = s.tapstate /\ u.clicks = s.clicks
           a == [s EXCEPT !.touch_x = x]
           b == [a EXCEPT !.touch_y = y]
           c == [b EXCEPT !.touch_bottom = bottom]
<1>1. ComesDown(s, x, y, bottom) = c
  BY DEF ComesDown
<1>2. Same(a)
  BY DEF PadState, SameSettings, SameEdges, NoEvent
<1> HIDE DEF a
<1>3. Same(b)
  BY <1>2 DEF PadState, SameSettings, SameEdges, NoEvent
<1> HIDE DEF b
<1>4. Same(c)
  BY <1>3, ZenonT(40) DEF PadState, SameSettings, SameEdges, NoEvent
<1> HIDE DEF c
<1>5. Keeps(s, c) /\ c.tapstate = s.tapstate /\ c.clicks = s.clicks /\ NoEvent(s, c)
  BY <1>4 DEF Keeps, NoEvent
<1> QED
  BY <1>1, <1>5

LEMMA Gestures ==
  ASSUME NEW s \in PadState, NEW p, p.x \in Int, p.y \in Int, NEW finger \in BOOLEAN,
         s.last_finger <=> s.tapstate \in Touching,
         NEW t, t = handle_gestures(s, p, finger)
  PROVE  Keeps(s, t) /\ TapStep(s, t, p, finger) /\ LeftStep(s, t)
<1> DEFINE touch == finger /\ ~s.last_finger
           release == ~finger /\ s.last_finger
           move == finger /\ ~touch /\ Far(s, p)
           bottom == "BOTTOM" \in detect_edge(s, X(s, p), Y(s, p))
           m == IF touch THEN ComesDown(s, X(s, p), Y(s, p), bottom) ELSE s
           taps == m.tap /\ ~(m.clickpad /\ m.touch_bottom)
           r == CASE s.tapstate = "START" /\ touch -> Goes(m, "TOUCH")
                  [] s.tapstate = "TOUCH" /\ move -> Goes(m, "MOVE")
                  [] s.tapstate = "TOUCH" /\ release /\ taps ->
                       set_left_click_timer(Goes(m, "SINGLE_TAP_PENDING"))
                  [] s.tapstate = "TOUCH" /\ release /\ ~taps -> Goes(m, "START")
                  [] s.tapstate = "MOVE" /\ release -> Goes(m, "START")
                  [] s.tapstate = "SINGLE_TAP_PENDING" /\ touch /\ taps ->
                       delete_left_click_timer(Goes(m, "POSSIBLE_DRAG"))
                  [] s.tapstate = "SINGLE_TAP_PENDING" /\ touch /\ ~taps ->
                       TapClick(delete_left_click_timer(Goes(m, "TOUCH")))
                  [] s.tapstate = "POSSIBLE_DRAG" /\ move -> TapPress(Goes(m, "DRAG"))
                  [] s.tapstate = "POSSIBLE_DRAG" /\ release ->
                       TapClick(TapClick(Goes(m, "START")))
                  [] s.tapstate = "DRAG" /\ release ->
                       event_button_change(Goes(m, "START"), "left", 0)
                  [] OTHER -> m
<1>1. t = r
  BY DEF handle_gestures, Goes, Far, ComesDown
<1>2. Keeps(s, m) /\ m.tapstate = s.tapstate /\ m.clicks = s.clicks /\ NoEvent(s, m)
  <2>1. X(s, p) \in Int /\ Y(s, p) \in Int /\ bottom \in BOOLEAN
    BY PadFields DEF X, Y
  <2>2. CASE touch
    <3> HIDE DEF bottom
    <3>1. m = ComesDown(s, X(s, p), Y(s, p), bottom)
      BY <2>2
    <3> HIDE DEF m
    <3> QED
      BY <2>1, <3>1, Touched
  <2>3. CASE ~touch
    <3>1. m = s
      BY <2>3
    <3> QED
      BY <3>1, KeepsItself DEF NoEvent
  <2> QED
    BY <2>2, <2>3
<1>3. ~touch => m = s
  OBVIOUS
<1> HIDE DEF m
<1>4. m \in PadState
  BY <1>2 DEF Keeps
<1>5. /\ s.last_finger \in BOOLEAN /\ s.tapstate \in TapStates /\ s.clicks \in Nat
      /\ s.tap \in BOOLEAN /\ s.clickpad \in BOOLEAN /\ s.touch_bottom \in BOOLEAN
  BY PadFields
<1>6. \A state \in TapStates :
         Keeps(s, Goes(m, state)) /\ Goes(m, state) \in PadState
         /\ Goes(m, state).tapstate = state /\ Goes(m, state).clicks = s.clicks
         /\ NoEvent(s, Goes(m, state))
  <2> TAKE state \in TapStates
  <2>1. Keeps(m, Goes(m, state)) /\ Goes(m, state).tapstate = state
        /\ Goes(m, state).clicks = m.clicks /\ NoEvent(m, Goes(m, state))
    BY <1>4, GoesKeeps
  <2>2. Goes(m, state) \in PadState
    BY <2>1 DEF Keeps
  <2> QED
    BY <1>2, <2>1, <2>2, KeepsMore DEF NoEvent
<1>7. CASE s.tapstate = "START"
  <2>1. CASE touch
    <3>1. t = Goes(m, "TOUCH")
      BY <1>1, <1>7, <2>1
    <3>2. Keeps(s, t) /\ t.tapstate = "TOUCH" /\ t.clicks = s.clicks /\ NoEvent(s, t)
      BY <1>6, <3>1 DEF TapStates
    <3> HIDE DEF r
    <3>3. /\ ~Completes(s, finger) /\ Waiting(t.tapstate) = 0
          /\ Waiting(s.tapstate) = 0
      BY <1>7, <2>1, <3>2 DEF Completes, Waiting
    <3>4. t.clicks + Waiting(t.tapstate) =
            s.clicks + Waiting(s.tapstate) + (IF Completes(s, finger) THEN 1 ELSE 0)
      BY <1>5, <3>2, <3>3
    <3> QED
      BY <1>7, <2>1, <3>2, <3>4 DEF TapStep, LeftStep, NoEvent, Touching, Moving
  <2>2. CASE ~touch
    <3>1. t = s
      BY <1>1, <1>3, <1>7, <2>2
    <3> HIDE DEF r
    <3> QED
      BY <1>5, <1>7, <2>2, <3>1, KeepsItself
      DEF TapStep, LeftStep, NoEvent, Completes, Waiting, Touching, Moving
  <2> QED
    BY <2>1, <2>2
<1>8. CASE s.tapstate = "TOUCH"
  <2>0. ~touch /\ m = s
    BY <1>3, <1>8 DEF Touching
  <2>1. CASE move
    <3>1. t = Goes(m, "MOVE")
      BY <1>1, <1>8, <2>1
    <3>2. Keeps(s, t) /\ t.tapstate = "MOVE" /\ t.clicks = s.clicks /\ NoEvent(s, t)
      BY <1>6, <3>1 DEF TapStates
    <3> HIDE DEF r
    <3>3. /\ ~Completes(s, finger) /\ Waiting(t.tapstate) = 0
          /\ Waiting(s.tapstate) = 0
      BY <1>8, <2>0, <2>1, <3>2 DEF Completes, Waiting
    <3>4. t.clicks + Waiting(t.tapstate) =
            s.clicks + Waiting(s.tapstate) + (IF Completes(s, finger) THEN 1 ELSE 0)
      BY <1>5, <3>2, <3>3
    <3> QED
      BY <1>8, <2>0, <2>1, <3>2, <3>4 DEF TapStep, LeftStep, NoEvent, Touching, Moving
  <2>2. CASE release /\ taps
    <3> DEFINE g == Goes(m, "SINGLE_TAP_PENDING")
    <3>1. t = set_left_click_timer(g)
      BY <1>1, <1>8, <2>2
    <3>2. /\ Keeps(s, g) /\ g \in PadState /\ g.tapstate = "SINGLE_TAP_PENDING"
          /\ g.clicks = s.clicks /\ NoEvent(s, g)
      BY <1>6 DEF TapStates
    <3> HIDE DEF r, g
    <3>3. Keeps(g, t) /\ t.tapstate = "SINGLE_TAP_PENDING" /\ t.clicks = s.clicks /\ NoEvent(s, t)
      BY <3>1, <3>2, TimerKeeps DEF NoEvent
    <3>4. Keeps(s, t)
      BY <3>2, <3>3, KeepsMore
    <3> QED
      BY <1>5, <1>8, <2>0, <2>2, <3>3, <3>4
      DEF TapStep, LeftStep, NoEvent, Completes, Waiting, Touching, Moving
  <2>3. CASE release /\ ~taps
    <3>1. t = Goes(m, "START")
      BY <1>1, <1>8, <2>3
    <3>2. Keeps(s, t) /\ t.tapstate = "START" /\ t.clicks = s.clicks /\ NoEvent(s, t)
      BY <1>6, <3>1 DEF TapStates
    <3> HIDE DEF r
    <3> QED
      BY <1>5, <1>8, <2>0, <2>3, <3>2
      DEF TapStep, LeftStep, NoEvent, Completes, Waiting, Touching, Moving
  <2>4. CASE ~move /\ ~release
    <3>1. t = s
      BY <1>1, <1>8, <2>0, <2>4
    <3> HIDE DEF r
    <3> QED
      BY <1>5, <1>8, <2>0, <2>4, <3>1, KeepsItself
      DEF TapStep, LeftStep, NoEvent, Completes, Waiting, Touching, Moving
  <2> QED
    BY <2>1, <2>2, <2>3, <2>4
<1>9. CASE s.tapstate = "MOVE"
  <2>0. ~touch /\ m = s
    BY <1>3, <1>9 DEF Touching
  <2>1. CASE release
    <3>1. t = Goes(m, "START")
      BY <1>1, <1>9, <2>1
    <3>2. Keeps(s, t) /\ t.tapstate = "START" /\ t.clicks = s.clicks /\ NoEvent(s, t)
      BY <1>6, <3>1 DEF TapStates
    <3> HIDE DEF r
    <3> QED
      BY <1>5, <1>9, <2>0, <2>1, <3>2
      DEF TapStep, LeftStep, NoEvent, Completes, Waiting, Touching, Moving
  <2>2. CASE ~release
    <3>1. t = s
      BY <1>1, <1>9, <2>0, <2>2
    <3> HIDE DEF r
    <3> QED
      BY <1>5, <1>9, <2>0, <2>2, <3>1, KeepsItself
      DEF TapStep, LeftStep, NoEvent, Completes, Waiting, Touching, Moving
  <2> QED
    BY <2>1, <2>2
<1>10. CASE s.tapstate = "SINGLE_TAP_PENDING"
  <2>0. ~release
    BY <1>10 DEF Touching
  <2>1. CASE touch /\ taps
    <3> DEFINE g == Goes(m, "POSSIBLE_DRAG")
    <3>1. t = delete_left_click_timer(g)
      BY <1>1, <1>10, <2>1
    <3>2. /\ Keeps(s, g) /\ g \in PadState /\ g.tapstate = "POSSIBLE_DRAG"
          /\ g.clicks = s.clicks /\ NoEvent(s, g)
      BY <1>6 DEF TapStates
    <3> HIDE DEF r, g
    <3>3. Keeps(g, t) /\ t.tapstate = "POSSIBLE_DRAG" /\ t.clicks = s.clicks /\ NoEvent(s, t)
      BY <3>1, <3>2, TimerKeeps DEF NoEvent
    <3>4. Keeps(s, t)
      BY <3>2, <3>3, KeepsMore
    <3>5. finger /\ ~s.last_finger
      BY <2>1
    <3> QED
      BY <1>5, <1>10, <3>3, <3>4, <3>5
      DEF TapStep, LeftStep, NoEvent, Completes, Waiting, Touching, Moving
  <2>2. CASE touch /\ ~taps
    <3> DEFINE g == Goes(m, "TOUCH")
               h == delete_left_click_timer(g)
    <3>1. t = TapClick(h)
      BY <1>1, <1>10, <2>2
    <3>2. /\ Keeps(s, g) /\ g \in PadState /\ g.tapstate = "TOUCH"
          /\ g.clicks = s.clicks /\ NoEvent(s, g)
      BY <1>6 DEF TapStates
    <3> HIDE DEF r, g
    <3>3. Keeps(g, h) /\ h.tapstate = "TOUCH" /\ h.clicks = s.clicks
      BY <3>2, TimerKeeps
    <3>4. Keeps(s, h) /\ h \in PadState
      BY <3>2, <3>3, KeepsMore DEF Keeps
    <3> HIDE DEF h
    <3>5. Keeps(h, t) /\ t.tapstate = "TOUCH" /\ t.clicks = s.clicks + 1 /\ "left" \notin t.down
      BY <3>1, <3>3, <3>4, ClickKeeps
    <3>6. Keeps(s, t)
      BY <3>4, <3>5, KeepsMore
    <3> QED
      BY <1>5, <1>10, <2>2, <3>5, <3>6
      DEF TapStep, LeftStep, NoEvent, Completes, Waiting, Touching, Moving
  <2>3. CASE ~touch
    <3>1. t = s
      BY <1>1, <1>3, <1>10, <2>0, <2>3
    <3> HIDE DEF r
    <3> QED
      BY <1>5, <1>10, <2>0, <2>3, <3>1, KeepsItself
      DEF TapStep, LeftStep, NoEvent, Completes, Waiting, Touching, Moving
  <2> QED
    BY <2>1, <2>2, <2>3
<1>11. CASE s.tapstate = "POSSIBLE_DRAG"
  <2>0. ~touch /\ m = s
    BY <1>3, <1>11 DEF Touching
  <2>1. CASE move
    <3> DEFINE g == Goes(m, "DRAG")
    <3>1. t = TapPress(g)
      BY <1>1, <1>11, <2>1
    <3>2. /\ Keeps(s, g) /\ g \in PadState /\ g.tapstate = "DRAG"
          /\ g.clicks = s.clicks /\ NoEvent(s, g)
      BY <1>6 DEF TapStates
    <3> HIDE DEF r, g
    <3>3. Keeps(g, t) /\ t.tapstate = "DRAG" /\ t.clicks = s.clicks + 1
      BY <3>1, <3>2, PressKeeps
    <3>4. Keeps(s, t)
      BY <3>2, <3>3, KeepsMore
    <3> QED
      BY <1>5, <1>11, <2>0, <2>1, <3>3, <3>4
      DEF TapStep, LeftStep, NoEvent, Completes, Waiting, Touching, Moving
  <2>2. CASE release
    <3> DEFINE g == Goes(m, "START")
               h == TapClick(g)
    <3>1. t = TapClick(h)
      BY <1>1, <1>11, <2>2
    <3>2. /\ Keeps(s, g) /\ g \in PadState /\ g.tapstate = "START"
          /\ g.clicks = s.clicks /\ NoEvent(s, g)
      BY <1>6 DEF TapStates
    <3> HIDE DEF r, g
    <3>3. Keeps(g, h) /\ h.tapstate = "START" /\ h.clicks = s.clicks + 1
      BY <3>2, ClickKeeps
    <3>4. Keeps(s, h) /\ h \in PadState
      BY <3>2, <3>3, KeepsMore DEF Keeps
    <3> HIDE DEF h
    <3>5. Keeps(h, t) /\ t.tapstate = "START" /\ t.clicks = s.clicks + 1 + 1 /\ "left" \notin t.down
      BY <3>1, <3>3, <3>4, ClickKeeps
    <3>6. Keeps(s, t)
      BY <3>4, <3>5, KeepsMore
    <3> QED
      BY <1>5, <1>11, <2>2, <3>5, <3>6
      DEF TapStep, LeftStep, NoEvent, Completes, Waiting, Touching, Moving
  <2>3. CASE ~move /\ ~release
    <3>1. t = s
      BY <1>1, <1>11, <2>0, <2>3
    <3> HIDE DEF r
    <3> QED
      BY <1>5, <1>11, <2>0, <2>3, <3>1, KeepsItself
      DEF TapStep, LeftStep, NoEvent, Completes, Waiting, Touching, Moving
  <2> QED
    BY <2>1, <2>2, <2>3
<1>12. CASE s.tapstate = "DRAG"
  <2>0. ~touch /\ m = s
    BY <1>3, <1>12 DEF Touching
  <2>1. CASE release
    <3> DEFINE g == Goes(m, "START")
    <3>1. t = event_button_change(g, "left", 0)
      BY <1>1, <1>12, <2>1
    <3>2. /\ Keeps(s, g) /\ g \in PadState /\ g.tapstate = "START"
          /\ g.clicks = s.clicks /\ NoEvent(s, g)
      BY <1>6 DEF TapStates
    <3> HIDE DEF r, g
    <3>3. /\ Keeps(g, t) /\ t.tapstate = "START" /\ t.clicks = s.clicks
          /\ "left" \notin t.down
      BY <3>1, <3>2, LeftKeeps
    <3>4. Keeps(s, t)
      BY <3>2, <3>3, KeepsMore
    <3> QED
      BY <1>5, <1>12, <2>0, <2>1, <3>3, <3>4
      DEF TapStep, LeftStep, NoEvent, Completes, Waiting, Touching, Moving
  <2>2. CASE ~release
    <3>1. t = s
      BY <1>1, <1>12, <2>0, <2>2
    <3> HIDE DEF r
    <3> QED
      BY <1>5, <1>12, <2>0, <2>2, <3>1, KeepsItself
      DEF TapStep, LeftStep, NoEvent, Completes, Waiting, Touching, Moving
  <2> QED
    BY <2>1, <2>2
<1> QED
  BY <1>5, <1>7, <1>8, <1>9, <1>10, <1>11, <1>12 DEF TapStates

\* A stage that is not about taps, buttons or edges.
Stays(s, t) == /\ t \in PadState /\ SameSettings(s, t) /\ SameTap(s, t)
               /\ SameEdges(s, t) /\ SameButtons(s, t)

LEMMA StaysMore == \A s, t, u : Stays(s, t) /\ Stays(t, u) => Stays(s, u)
BY DEF Stays, SameSettings, SameTap, SameEdges, SameButtons

LEMMA StaysItself == \A s \in PadState : Stays(s, s)
BY SameItself DEF Stays

LEMMA StopKeeps ==
  \A s \in PadState :
     /\ Stays(s, stop_corner_scrolling(s))
     /\ stop_corner_scrolling(s).scroll_timer = s.scroll_timer
<1> TAKE s \in PadState
<1> DEFINE u == [s EXCEPT !.corner = FALSE]
           t == [u EXCEPT !.scroll_packets = 0]
<1>1. Stays(s, u) /\ u.scroll_timer = s.scroll_timer
  BY DEF Stays, PadState, SameSettings, SameTap, SameEdges, SameButtons
<1>2. stop_corner_scrolling(s) = t
  BY DEF stop_corner_scrolling
<1> HIDE DEF u
<1>3. Stays(u, t) /\ t.scroll_timer = u.scroll_timer
  BY <1>1 DEF Stays, PadState, SameSettings, SameTap, SameEdges, SameButtons
<1> HIDE DEF t
<1> QED
  BY <1>1, <1>2, <1>3, StaysMore

LEMMA ScrollFields ==
  \A s \in PadState :
     /\ \A on \in BOOLEAN :
           LET t == [s EXCEPT !.vert_scroll_on = on] IN
           Stays(s, t) /\ t.scroll_timer = s.scroll_timer
     /\ \A k \in Nat :
           LET t == [s EXCEPT !.scroll_packets = k] IN
           Stays(s, t) /\ t.scroll_timer = s.scroll_timer
     /\ Stays(s, free_autoscroll_timer(s)) /\ ~free_autoscroll_timer(s).scroll_timer
<1> TAKE s \in PadState
<1>1. ASSUME NEW on \in BOOLEAN
      PROVE  LET t == [s EXCEPT !.vert_scroll_on = on] IN
             Stays(s, t) /\ t.scroll_timer = s.scroll_timer
  BY DEF Stays, PadState, SameSettings, SameTap, SameEdges, SameButtons
<1>2. ASSUME NEW k \in Nat
      PROVE  LET t == [s EXCEPT !.scroll_packets = k] IN
             Stays(s, t) /\ t.scroll_timer = s.scroll_timer
  BY DEF Stays, PadState, SameSettings, SameTap, SameEdges, SameButtons
<1>3. Stays(s, free_autoscroll_timer(s)) /\ ~free_autoscroll_timer(s).scroll_timer
  BY DEF Stays, PadState, SameSettings, SameTap, SameEdges, SameButtons,
         free_autoscroll_timer
<1> QED
  BY <1>1, <1>2, <1>3

LEMMA StartKeeps ==
  \A s \in PadState : \A t \in start_corner_scrolling(s) : Stays(s, t)
<1> TAKE s \in PadState
<1> TAKE t \in start_corner_scrolling(s)
<1> DEFINE u == [s EXCEPT !.scroll_packets = 0]
           v == [u EXCEPT !.scroll_timer = TRUE]
           w(speed) == [v EXCEPT !.corner = speed]
<1>1. t = u \/ \E speed \in BOOLEAN : t = w(speed)
  BY DEF start_corner_scrolling
<1>2. Stays(s, u)
  BY ScrollFields
<1> HIDE DEF u
<1>3. Stays(u, v)
  BY <1>2 DEF Stays, PadState, SameSettings, SameTap, SameEdges, SameButtons
<1> HIDE DEF v
<1>4. \A speed \in BOOLEAN : Stays(v, w(speed))
  BY <1>3, ZenonT(40) DEF Stays, PadState, SameSettings, SameTap, SameEdges, SameButtons
<1> HIDE DEF w
<1> QED
  BY <1>1, <1>2, <1>3, <1>4, StaysMore

LEMMA Scrolling ==
  ASSUME NEW s \in PadState, NEW finger \in BOOLEAN, NEW edge,
         NEW t \in handle_scrolling(s, finger, edge)
  PROVE  /\ Stays(s, t)
         /\ s.scrolling /\ t.scroll_timer => finger /\ InCorner(edge)
         /\ ~s.scrolling => t = s
<1> DEFINE touch == finger /\ ~s.last_finger
           corner == InCorner(edge)
           on == (s.vert_scroll_on \/ touch) /\ "RIGHT" \in edge /\ finger
           a == IF touch THEN stop_corner_scrolling(s) ELSE s
           b == [a EXCEPT !.vert_scroll_on = on]
           u == IF b.corner /\ ~(finger /\ corner) THEN stop_corner_scrolling(b) ELSE b
           v == IF finger /\ corner THEN u ELSE free_autoscroll_timer(u)
           starts == on /\ corner /\ ~v.corner
           count(w) == [w EXCEPT !.scroll_packets =
                           IF w.scroll_packets > MinScrollPackets
                             THEN w.scroll_packets ELSE w.scroll_packets + 1]
           counted(W) == IF on THEN {count(w) : w \in W} ELSE W
           W0 == IF starts THEN start_corner_scrolling(v) ELSE {v}
<1>1. t \in IF ~s.scrolling THEN {s} ELSE counted(W0)
  BY DEF handle_scrolling, InCorner
<1>2. on \in BOOLEAN /\ corner \in BOOLEAN
  BY PadFields DEF InCorner
<1>3. on => finger
  OBVIOUS
<1>4. Stays(s, a) /\ a \in PadState
  BY StopKeeps, StaysItself DEF Stays
<1> HIDE DEF a, corner, on
<1>5. Stays(s, b) /\ b \in PadState
  BY <1>2, <1>4, ScrollFields, StaysMore DEF Stays
<1> HIDE DEF b
<1>6. Stays(s, u) /\ u \in PadState
  <2>1. u \in {b, stop_corner_scrolling(b)}
    OBVIOUS
  <2>2. Stays(s, stop_corner_scrolling(b))
    BY <1>5, StopKeeps, StaysMore
  <2> QED
    BY <1>5, <2>1, <2>2 DEF Stays
<1> HIDE DEF u
<1>7. Stays(s, v) /\ v \in PadState /\ (v.scroll_timer => finger /\ corner)
  <2>1. Stays(u, free_autoscroll_timer(u)) /\ ~free_autoscroll_timer(u).scroll_timer
    BY <1>6, ScrollFields
  <2>2. Stays(s, free_autoscroll_timer(u))
    BY <1>6, <2>1, StaysMore
  <2> QED
    BY <1>6, <2>1, <2>2 DEF Stays
<1> HIDE DEF v
<1>8. ASSUME NEW w \in W0
      PROVE  Stays(s, w) /\ w \in PadState /\ (w.scroll_timer => finger /\ corner)
  <2>1. CASE starts
    <3>1. finger /\ corner
      BY <1>3, <2>1
    <3>2. Stays(v, w)
      BY <1>7, <1>8, <2>1, StartKeeps
    <3> QED
      BY <1>7, <3>1, <3>2, StaysMore DEF Stays
  <2>2. CASE ~starts
    BY <1>7, <1>8, <2>2
  <2> QED
    BY <2>1, <2>2
<1>9. ASSUME NEW w, Stays(s, w), w \in PadState, w.scroll_timer => finger /\ corner
      PROVE  Stays(s, count(w)) /\ (count(w).scroll_timer => finger /\ corner)
  <2> DEFINE k == IF w.scroll_packets > MinScrollPackets
                    THEN w.scroll_packets ELSE w.scroll_packets + 1
  <2>1. k \in Nat
    BY <1>9, PadFields
  <2> HIDE DEF k
  <2>2. Stays(w, [w EXCEPT !.scroll_packets = k])
        /\ [w EXCEPT !.scroll_packets = k].scroll_timer = w.scroll_timer
    BY <1>9, <2>1, ScrollFields
  <2>3. count(w) = [w EXCEPT !.scroll_packets = k]
    BY DEF k
  <2> HIDE DEF count
  <2> QED
    BY <1>9, <2>2, <2>3, StaysMore
<1> HIDE DEF W0, count
<1>10. CASE ~s.scrolling
  BY <1>1, <1>10, StaysItself
<1>11. CASE s.scrolling
  <2>1. t \in counted(W0)
    BY <1>1, <1>11
  <2>2. t \in W0 \/ \E w \in W0 : t = count(w)
    BY <2>1
  <2>3. Stays(s, t) /\ (t.scroll_timer => finger /\ corner)
    BY <1>8, <1>9, <2>2
  <2> QED
    BY <1>11, <2>3 DEF corner
<1> QED
  BY <1>10, <1>11

LEMMA Deltas ==
  ASSUME NEW s \in PadState, NEW edge, NEW t \in compute_deltas(s, edge)
  PROVE  /\ Stays(s, t) /\ t.scroll_timer = s.scroll_timer
         /\ t.moved => t.tapstate \in Moving
<1>1. PICK moves \in BOOLEAN : /\ t = [s EXCEPT !.moved = moves]
                               /\ moves => s.tapstate \in Moving
  BY DEF compute_deltas, Moving
<1>2. Stays(s, t) /\ t.scroll_timer = s.scroll_timer /\ t.moved = moves
  BY <1>1 DEF Stays, PadState, SameSettings, SameTap, SameEdges, SameButtons
<1> QED
  BY <1>1, <1>2 DEF Stays, SameTap

\* What save_previous_packet_values changes.
Saved(s, x, y, finger) == [s EXCEPT !.last_finger = finger, !.last_x = x, !.last_y = y]

LEMMA SaveKeeps ==
  \A s \in PadState, x \in Int, y \in Int, finger \in BOOLEAN :
     LET t == Saved(s, x, y, finger) IN
     /\ t \in PadState /\ SameTap(s, t) /\ SameEdges(s, t) /\ SameButtons(s, t)
     /\ t.last_finger = finger /\ t.last_x = x /\ t.last_y = y
     /\ t.off = s.off /\ t.tap = s.tap /\ t.scrolling = s.scrolling
     /\ t.clickpad = s.clickpad /\ t.scroll_timer = s.scroll_timer
     /\ t.moved = s.moved
<1> TAKE s \in PadState, x \in Int, y \in Int, finger \in BOOLEAN
<1> DEFINE Same(u) ==
             /\ u \in PadState /\ SameTap(s, u) /\ SameEdges(s, u) /\ SameButtons(s, u)
             /\ u.off = s.off /\ u.tap = s.tap /\ u.scrolling = s.scrolling
             /\ u.clickpad = s.clickpad /\ u.scroll_timer = s.scroll_timer
             /\ u.moved = s.moved
           a == [s EXCEPT !.last_finger = finger]
           b == [a EXCEPT !.last_x = x]
           c == [b EXCEPT !.last_y = y]
<1>1. Saved(s, x, y, finger) = c
  BY DEF Saved
<1>2. Same(a) /\ a.last_finger = finger
  BY DEF PadState, SameTap, SameEdges, SameButtons
<1> HIDE DEF a
<1>3. Same(b) /\ b.last_finger = finger /\ b.last_x = x
  BY <1>2 DEF PadState, SameTap, SameEdges, SameButtons
<1> HIDE DEF b
<1>4. Same(c) /\ c.last_finger = finger /\ c.last_x = x /\ c.last_y = y
  BY <1>3 DEF PadState, SameTap, SameEdges, SameButtons
<1> HIDE DEF c
<1> QED
  BY <1>1, <1>4

LEMMA SetFinger ==
  \A s \in PadState, finger \in BOOLEAN :
     LET t == [s EXCEPT !.finger = finger] IN
     Stays(s, t) /\ t.scroll_timer = s.scroll_timer
<1> TAKE s \in PadState, finger \in BOOLEAN
<1> DEFINE t == [s EXCEPT !.finger = finger]
<1>1. Stays(s, t) /\ t.scroll_timer = s.scroll_timer
  BY DEF Stays, PadState, SameSettings, SameTap, SameEdges, SameButtons
<1> QED
  BY <1>1

\* What a packet does while the pad is off.
Ignored(s, t) ==
    /\ SameSettings(s, t) /\ SameTap(s, t) /\ SameEdges(s, t) /\ ~t.moved
    /\ t.button_down_x = s.button_down_x /\ t.scroll_timer = s.scroll_timer

\* What it does while the pad is on.
Handled(s, t, p) ==
    /\ t.off = s.off /\ t.tap = s.tap /\ t.scrolling = s.scrolling
    /\ t.clickpad = s.clickpad
    /\ TapStep(s, t, p, t.last_finger)
    /\ t.moved => t.tapstate \in Moving
    /\ s.scrolling /\ t.scroll_timer =>
         t.last_finger /\ InCorner(detect_edge(t, t.last_x, t.last_y))
    /\ ~s.scrolling => t.scroll_timer = s.scroll_timer

LEMMA OffPacket ==
  ASSUME NEW s \in PadState, s.off, s.told = {},
         NEW p, p.mask \in Singles, NEW h, s.clickpad => OneButton(p.mask, h),
         NEW t \in process_packet(s, p)
  PROVE  /\ t \in PadState /\ Ignored(s, t)
         /\ ButtonStep(s, t, h, p.mask, s.clickpad)
<1> DEFINE c == IF s.clickpad THEN s ELSE handle_button_clicks(s, p.mask)
<1>1. t = [c EXCEPT !.moved = FALSE]
  BY DEF process_packet
<1>2. /\ c \in PadState /\ SameSettings(s, c) /\ SameTap(s, c) /\ SameEdges(s, c)
      /\ c.button_down_x = s.button_down_x /\ c.scroll_timer = s.scroll_timer
      /\ ButtonStep(s, c, h, p.mask, s.clickpad)
  <2>1. CASE s.clickpad
    <3>1. c = s
      BY <2>1
    <3> HIDE DEF c
    <3>2. p.mask = {} => ButtonStep(s, c, h, p.mask, s.clickpad)
      BY <3>1, LaterOne DEF ButtonStep, HeldAs
    <3>3. p.mask = {<<"left", 1>>} /\ "left" \notin h =>
            ButtonStep(s, c, h, p.mask, s.clickpad)
      BY <2>1, <3>1 DEF ButtonStep, HeldAs
    <3>4. p.mask = {<<"left", 0>>} /\ "left" \in h =>
            ButtonStep(s, c, h, p.mask, s.clickpad)
      BY <2>1, <3>1 DEF ButtonStep, HeldAs
    <3> QED
      BY <2>1, <3>1, <3>2, <3>3, <3>4, OneOfThree, SameItself
  <2>2. CASE ~s.clickpad
    <3>1. c = handle_button_clicks(s, p.mask)
      BY <2>2
    <3> HIDE DEF c
    <3>2. ButtonStep(s, c, h, p.mask, s.clickpad)
      BY <2>2, <3>1, PlainButtons
    <3> QED
      BY <2>2, <3>1, <3>2, ButtonClicks
  <2> QED
    BY <2>1, <2>2
<1> HIDE DEF c
<1>3. /\ t \in PadState /\ SameSettings(c, t) /\ SameTap(c, t) /\ SameEdges(c, t)
      /\ t.button_down_x = c.button_down_x /\ t.scroll_timer = c.scroll_timer
      /\ t.down = c.down /\ t.told = c.told /\ ~t.moved
  BY <1>1, <1>2, ZenonT(40) DEF PadState, SameSettings, SameTap, SameEdges
<1>4. ButtonStep(s, t, h, p.mask, s.clickpad)
  BY <1>2, <1>3 DEF ButtonStep, HeldAs, PressedAs, SameSettings
<1> QED
  BY <1>2, <1>3, <1>4 DEF Ignored, SameSettings, SameTap, SameEdges

\* The stages before handle_gestures.
Heard(s, p) == IF s.clickpad THEN s ELSE handle_button_clicks(s, p.mask)
Felt(s, p, finger) == [adjust_overflow(Heard(s, p), p) EXCEPT !.finger = finger]
Pressed(s, p, finger, edge) ==
    IF s.clickpad THEN handle_clickpad(Felt(s, p, finger), p, edge) ELSE Felt(s, p, finger)

LEMMA BeforeGestures ==
  ASSUME NEW s \in PadState, s.told = {},
         NEW p, p.x \in Int, p.y \in Int, p.mask \in Singles,
         NEW h, s.clickpad => OneButton(p.mask, h)
  PROVE  \A finger \in BOOLEAN : \A edge :
           LET r == Pressed(s, p, finger, edge) IN
           /\ r \in PadState /\ SameSettings(s, r) /\ SameTap(s, r)
           /\ SameEdges(adjust_overflow(Heard(s, p), p), r)
           /\ r.scroll_timer = s.scroll_timer
           /\ ButtonStep(s, r, h, p.mask, s.clickpad /\ "BOTTOM" \notin edge)
<1> TAKE finger \in BOOLEAN
<1> TAKE edge
<1> DEFINE c == Heard(s, p)
           a == adjust_overflow(c, p)
           f == Felt(s, p, finger)
           r == Pressed(s, p, finger, edge)
           over == s.clickpad /\ "BOTTOM" \notin edge
<1>0. f = [a EXCEPT !.finger = finger]
  BY DEF Felt
<1> HIDE DEF f, r
<1>1. /\ c \in PadState /\ SameSettings(s, c) /\ SameTap(s, c)
      /\ c.button_down_x = s.button_down_x /\ c.scroll_timer = s.scroll_timer
      /\ s.clickpad => c.told = {} /\ c.down = s.down
      /\ ~s.clickpad => ButtonStep(s, c, h, p.mask, over)
  <2>1. CASE s.clickpad
    <3>1. c = s
      BY <2>1 DEF Heard
    <3> HIDE DEF c
    <3> QED
      BY <2>1, <3>1, SameItself
  <2>2. CASE ~s.clickpad
    <3>1. c = handle_button_clicks(s, p.mask)
      BY <2>2 DEF Heard
    <3> HIDE DEF c, over
    <3>2. ButtonStep(s, c, h, p.mask, over)
      BY <2>2, <3>1, PlainButtons
    <3> QED
      BY <2>2, <3>1, <3>2, ButtonClicks
  <2> QED
    BY <2>1, <2>2
<1> HIDE DEF c
<1>2. /\ a \in PadState /\ SameSettings(c, a) /\ SameTap(c, a) /\ SameButtons(c, a)
      /\ a.scroll_timer = c.scroll_timer
  BY <1>1, Overflow
<1> HIDE DEF a
<1>3. Stays(a, f) /\ f.scroll_timer = a.scroll_timer
  BY <1>0, <1>2, SetFinger
<1>4. /\ f \in PadState /\ SameSettings(s, f) /\ SameTap(s, f) /\ SameEdges(a, f)
      /\ f.button_down_x = s.button_down_x /\ f.scroll_timer = s.scroll_timer
      /\ f.down = c.down /\ f.told = c.told
  BY <1>1, <1>2, <1>3 DEF Stays, SameSettings, SameTap, SameButtons
<1>5. CASE ~s.clickpad
  <2>1. r = f
    BY <1>5 DEF r, f, Pressed
  <2>2. ButtonStep(s, r, h, p.mask, over)
    <3>1. ButtonStep(s, c, h, p.mask, over) /\ c.clickpad = s.clickpad
      BY <1>1, <1>5 DEF SameSettings
    <3>2. r.down = c.down /\ r.told = c.told /\ r.clickpad = s.clickpad
      BY <1>4, <2>1 DEF SameSettings
    <3> QED
      BY <1>5, <3>1, <3>2 DEF ButtonStep, HeldAs
  <2> QED
    BY <1>4, <1>5, <2>1, <2>2 DEF r, a, c
<1>6. CASE s.clickpad
  <2>1. r = handle_clickpad(f, p, edge)
    BY <1>6 DEF r, f, Pressed
  <2>2. f.clickpad /\ f.told = {} /\ OneButton(p.mask, h)
    BY <1>1, <1>4, <1>6 DEF SameSettings
  <2>3. /\ r \in PadState /\ r.scroll_timer = f.scroll_timer
        /\ SameSettings(f, r) /\ SameTap(f, r) /\ SameEdges(f, r)
        /\ ButtonStep(f, r, h, p.mask, "BOTTOM" \notin edge)
    BY <1>4, <2>1, <2>2, Clickpad
  <2>4. /\ SameSettings(s, r) /\ SameTap(s, r) /\ SameEdges(a, r)
        /\ r.scroll_timer = s.scroll_timer
    BY <1>4, <2>3 DEF SameSettings, SameTap, SameEdges
  <2>5. ButtonStep(s, r, h, p.mask, over)
    <3>1. f.down = s.down /\ f.clickpad = s.clickpad /\ PressedAs(f) = PressedAs(s)
      BY <1>1, <1>4, <1>6 DEF PressedAs, SameSettings
    <3> QED
      BY <1>6, <2>3, <3>1 DEF ButtonStep, HeldAs
  <2> QED
    BY <2>3, <2>4, <2>5 DEF r, a, c
<1>7. /\ r \in PadState /\ SameSettings(s, r) /\ SameTap(s, r) /\ SameEdges(a, r)
      /\ r.scroll_timer = s.scroll_timer
      /\ ButtonStep(s, r, h, p.mask, over)
  BY <1>5, <1>6 DEF r, a, c
<1> QED
  BY <1>7 DEF r, a, c

LEMMA EdgesOnly ==
  ASSUME NEW s, NEW t, SameEdges(s, t), NEW x, NEW y
  PROVE  detect_edge(t, x, y) = detect_edge(s, x, y)
BY DEF SameEdges, detect_edge

\* What the gestures may add to what the stages before them make of a button.
FeltButtons(s, t, h, p) ==
    \A b \in t.down :
       \/ HeldAs(t, Later(h, p.mask), b)
       \/ b = "left" /\ t.tapstate = "DRAG"
       \/ /\ b \in s.down /\ b \notin t.told /\ ~HeldAs(s, h, b)
          /\ b = "left" => s.tapstate # "DRAG"
       \/ /\ Overlooks(s, p) /\ <<"left", 0>> \in p.mask
          /\ b = PressedAs(s) /\ b \notin t.told

LEMMA OnPacket ==
  ASSUME NEW s \in PadState, ~s.off, s.told = {},
         s.last_finger <=> s.tapstate \in Touching,
         NEW p, p.x \in Int, p.y \in Int, p.mask \in Singles,
         NEW h, s.clickpad => OneButton(p.mask, h),
         NEW t \in process_packet(s, p)
  PROVE  t \in PadState /\ Handled(s, t, p) /\ FeltButtons(s, t, h, p)
<1> DEFINE a == adjust_overflow(Heard(s, p), p)
           x == X(s, p)
           y == Y(s, p)
           edge == detect_edge(a, x, y)
           finger == detect_finger(s, p)
           r == Pressed(s, p, finger, edge)
           g == handle_gestures(r, p, finger)
           over == s.clickpad /\ "BOTTOM" \notin edge
<1>1. PICK u \in handle_scrolling(g, finger, edge) :
         \E v \in compute_deltas(u, edge) : t = save_previous_packet_values(v, p, finger)
  BY DEF process_packet, Pressed, Felt, Heard
<1>2. x \in Int /\ y \in Int /\ finger \in BOOLEAN
  BY PadFields DEF X, Y, detect_finger
<1> HIDE DEF finger
<1>3. /\ r \in PadState /\ SameSettings(s, r) /\ SameTap(s, r) /\ SameEdges(a, r)
      /\ r.scroll_timer = s.scroll_timer /\ ButtonStep(s, r, h, p.mask, over)
  <2> HIDE DEF edge
  <2> QED
    BY <1>2, BeforeGestures
<1>0. over => Overlooks(s, p)
  BY DEF Overlooks, Heard
<1> HIDE DEF x, y, a, r, edge, over
<1>4. Keeps(r, g) /\ TapStep(r, g, p, finger) /\ LeftStep(r, g) /\ g \in PadState
  <2>1. r.last_finger <=> r.tapstate \in Touching
    BY <1>3 DEF SameSettings, SameTap
  <2>2. Keeps(r, g) /\ TapStep(r, g, p, finger) /\ LeftStep(r, g)
    <3>1. r \in PadState /\ finger \in BOOLEAN
      BY <1>2, <1>3
    <3>2. PICK b : b = r
      OBVIOUS
    <3>3. PICK f : f = finger
      OBVIOUS
    <3>4. b \in PadState /\ f \in BOOLEAN /\ (b.last_finger <=> b.tapstate \in Touching)
      BY <2>1, <3>1, <3>2, <3>3
    <3>5. PICK h1 : h1 = handle_gestures(b, p, f)
      OBVIOUS
    <3>6. Keeps(b, h1) /\ TapStep(b, h1, p, f) /\ LeftStep(b, h1)
      BY <3>4, <3>5, Gestures
    <3>7. h1 = g
      BY <3>2, <3>3, <3>5
    <3> QED
      BY <3>2, <3>3, <3>6, <3>7
  <2> QED
    BY <2>2 DEF Keeps
<1> HIDE DEF g
<1>5. /\ Stays(g, u) /\ u \in PadState
      /\ g.scrolling /\ u.scroll_timer => finger /\ InCorner(edge)
      /\ ~g.scrolling => u = g
  BY <1>1, <1>2, <1>4, Scrolling DEF Stays
<1> PICK v \in compute_deltas(u, edge) : t = save_previous_packet_values(v, p, finger)
  BY <1>1
<1>6. /\ Stays(u, v) /\ v \in PadState /\ v.scroll_timer = u.scroll_timer
      /\ v.moved => v.tapstate \in Moving
  BY <1>5, Deltas DEF Stays
<1>7. Stays(g, v)
  BY <1>5, <1>6, StaysMore
<1>8. t = Saved(v, x, y, finger)
  <2>1. SameSettings(s, v)
    BY <1>3, <1>4, <1>7 DEF Keeps, Stays, SameSettings
  <2>2. X(v, p) = x /\ Y(v, p) = y
    BY <2>1 DEF X, Y, SameSettings, x, y
  <2> QED
    BY <2>2 DEF save_previous_packet_values, Saved
<1>9. /\ t \in PadState /\ SameTap(v, t) /\ SameEdges(v, t) /\ SameButtons(v, t)
      /\ t.last_finger = finger /\ t.last_x = x /\ t.last_y = y
      /\ t.off = v.off /\ t.tap = v.tap /\ t.scrolling = v.scrolling
      /\ t.clickpad = v.clickpad /\ t.scroll_timer = v.scroll_timer
      /\ t.moved = v.moved
  BY <1>2, <1>6, <1>8, SaveKeeps
<1>10. /\ t.off = s.off /\ t.tap = s.tap /\ t.scrolling = s.scrolling
       /\ t.clickpad = s.clickpad /\ g.scrolling = s.scrolling
  BY <1>3, <1>4, <1>7, <1>9 DEF Keeps, Stays, SameSettings
<1>11. TapStep(s, t, p, finger)
  <2>1. TapStep(s, g, p, finger)
    BY <1>3, <1>4 DEF TapStep, Completes, Far, SameTap, SameSettings
  <2>2. /\ t.tapstate = g.tapstate /\ t.clicks = g.clicks
        /\ t.down = g.down /\ t.told = g.told
    BY <1>7, <1>9 DEF Stays, SameTap, SameButtons
  <2> QED
    BY <2>1, <2>2 DEF TapStep
<1>12. t.moved => t.tapstate \in Moving
  BY <1>6, <1>9 DEF SameTap
<1>13. detect_edge(t, t.last_x, t.last_y) = edge
  <2>1. SameEdges(a, t)
    BY <1>3, <1>4, <1>7, <1>9 DEF Keeps, Stays, SameEdges
  <2>2. detect_edge(t, x, y) = detect_edge(a, x, y)
    BY <2>1, EdgesOnly
  <2> QED
    BY <1>9, <2>2 DEF edge
<1>14. s.scrolling /\ t.scroll_timer =>
          t.last_finger /\ InCorner(detect_edge(t, t.last_x, t.last_y))
  BY <1>5, <1>6, <1>9, <1>10, <1>13
<1>15. ~s.scrolling => t.scroll_timer = s.scroll_timer
  BY <1>3, <1>4, <1>5, <1>6, <1>9, <1>10 DEF Keeps
<1>16. FeltButtons(s, t, h, p)
  <2>1. /\ t.button_down_x = r.button_down_x /\ t.clickpad = r.clickpad
        /\ t.tapstate = g.tapstate /\ t.down = g.down /\ t.told = g.told
    BY <1>4, <1>7, <1>9 DEF Keeps, Stays, SameButtons, SameTap, SameSettings
  <2>2. /\ g.down \ {"left"} = r.down \ {"left"}
        /\ g.told \ {"left"} = r.told \ {"left"} /\ r.told \subseteq g.told
        /\ r.tapstate = s.tapstate
    BY <1>3, <1>4 DEF Keeps, SameTap
  <2>3. "left" \in g.down =>
           \/ g.tapstate = "DRAG"
           \/ /\ "left" \in r.down /\ s.tapstate # "DRAG"
              /\ "left" \in g.told => "left" \in r.told
    BY <1>4, <2>2 DEF LeftStep
  <2>4. \A b : HeldAs(t, Later(h, p.mask), b) <=> HeldAs(r, Later(h, p.mask), b)
    BY <2>1 DEF HeldAs, PressedAs
  <2> SUFFICES ASSUME NEW b \in t.down, ~(b = "left" /\ t.tapstate = "DRAG")
               PROVE  \/ HeldAs(t, Later(h, p.mask), b)
                      \/ /\ b \in s.down /\ b \notin t.told /\ ~HeldAs(s, h, b)
                         /\ b = "left" => s.tapstate # "DRAG"
                      \/ /\ Overlooks(s, p) /\ <<"left", 0>> \in p.mask
                         /\ b = PressedAs(s) /\ b \notin t.told
    BY DEF FeltButtons
  <2>5. b \in r.down /\ (b = "left" => s.tapstate # "DRAG") /\ (b \in t.told => b \in r.told)
    BY <2>1, <2>2, <2>3
  <2> QED
    BY <1>0, <1>3, <2>4, <2>5 DEF ButtonStep
<1> QED
  BY <1>9, <1>10, <1>11, <1>12, <1>14, <1>15, <1>16 DEF Handled

-----------------------------------------------------------------------------
(* The steps.                                                              *)

LEMMA QuietKeeps ==
  \A s \in PadState :
     LET t == Quiet(s) IN
     /\ t \in PadState /\ t.told = {} /\ t.clicks = 0 /\ t.down = s.down
     /\ SameSettings(s, t) /\ SameEdges(s, t)
     /\ t.tapstate = s.tapstate /\ t.button_down_x = s.button_down_x
     /\ t.scroll_timer = s.scroll_timer /\ t.moved = s.moved
<1> TAKE s \in PadState
<1> DEFINE u == [s EXCEPT !.told = {}]
           t == [u EXCEPT !.clicks = 0]
<1>1. /\ u \in PadState /\ u.told = {} /\ u.down = s.down
      /\ SameSettings(s, u) /\ SameEdges(s, u)
      /\ u.tapstate = s.tapstate /\ u.button_down_x = s.button_down_x
      /\ u.scroll_timer = s.scroll_timer /\ u.moved = s.moved
  BY DEF PadState, SameSettings, SameEdges
<1>2. Quiet(s) = t
  BY DEF Quiet
<1> HIDE DEF u
<1>3. /\ t \in PadState /\ t.told = u.told /\ t.clicks = 0 /\ t.down = u.down
      /\ SameSettings(u, t) /\ SameEdges(u, t)
      /\ t.tapstate = u.tapstate /\ t.button_down_x = u.button_down_x
      /\ t.scroll_timer = u.scroll_timer /\ t.moved = u.moved
  BY <1>1 DEF PadState, SameSettings, SameEdges
<1> HIDE DEF t
<1> QED
  BY <1>1, <1>2, <1>3 DEF SameSettings, SameEdges

LEMMA MaskEvents == \A mask \in Masks : mask \in Singles
<1> TAKE mask \in Masks
<1>1. CASE mask = {}
  BY <1>1 DEF Singles
<1>2. CASE mask # {}
  <2>1. PICK b \in PadButtons, v \in {0, 1} : mask = {<<b, v>>}
    BY <1>2 DEF Masks
  <2>2. <<b, v>> \in Events
    BY TouchpadAssumption DEF Events
  <2> QED
    BY <2>1, <2>2 DEF Singles
<1> QED
  BY <1>1, <1>2

LEMMA PacketValues ==
  ASSUME NEW x \in Xs \cup {NO_X}, NEW y \in Ys \cup {NO_Y}
  PROVE  x \in Int /\ y \in Int
BY TouchpadAssumption DEF NO_X, NO_Y

LEMMA PacketPreserves ==
  ASSUME IInv, handle_touchpad_event
  PROVE  IInv'
<1>1. PICK x \in Xs \cup {NO_X}, y \in Ys \cup {NO_Y}, touch \in {"keep", "on", "off"},
           mask \in Masks :
        LET p == [x |-> x, y |-> y, touch |-> touch, mask |-> mask]
        IN  /\ touch # (IF tpad.finger THEN "on" ELSE "off")
            /\ Reportable(tpad, mask)
            /\ held' = (held \ {e[1] : e \in mask}) \cup {e[1] : e \in {f \in mask : f[2] = 1}}
            /\ \E t \in process_packet(tpad, p) :
                 /\ tpad' = Quiet(t)
                 /\ pointer' =
                      [pointer EXCEPT
                         !.owed = @ + (IF Tapped(tpad, t) THEN 1 ELSE 0) - t.clicks,
                         !.lost = (@ \ t.told) \cup Swallows(tpad, t, p),
                         !.travelled = ~tpad.off /\ Travels(tpad, t, p),
                         !.loose = @ /\ (tpad.off \/ ~tpad.scrolling)]
  BY Zenon DEF handle_touchpad_event
<1> PICK p : p = [x |-> x, y |-> y, touch |-> touch, mask |-> mask]
  OBVIOUS
<1>2. p.x \in Int /\ p.y \in Int /\ p.mask \in Singles /\ p.mask = mask
  BY MaskEvents, PacketValues
<1>3. PICK t \in process_packet(tpad, p) :
        /\ tpad' = Quiet(t)
        /\ pointer' =
             [pointer EXCEPT
                !.owed = @ + (IF Tapped(tpad, t) THEN 1 ELSE 0) - t.clicks,
                !.lost = (@ \ t.told) \cup Swallows(tpad, t, p),
                !.travelled = ~tpad.off /\ Travels(tpad, t, p),
                !.loose = @ /\ (tpad.off \/ ~tpad.scrolling)]
  BY <1>1
<1> PICK s : s = tpad
  OBVIOUS
<1>4. /\ s \in PadState /\ s.told = {} /\ s.clicks = 0 /\ pointer \in Pointer
      /\ s.last_finger <=> s.tapstate \in Touching
  BY DEF IInv, Typed, Fingers
<1>5. /\ s.clickpad => OneButton(p.mask, held)
      /\ held' = Later(held, p.mask)
  BY <1>1, <1>2 DEF Reportable, OneButton, Later
<1>6. t \in PadState /\ t.clicks \in Nat
  <2>1. CASE s.off
    BY <1>2, <1>3, <1>4, <1>5, <2>1, OffPacket, PadFields
  <2>2. CASE ~s.off
    BY <1>2, <1>3, <1>4, <1>5, <2>2, OnPacket, PadFields
  <2> QED
    BY <2>1, <2>2
<1>7. /\ tpad' \in PadState /\ tpad'.told = {} /\ tpad'.clicks = 0
      /\ SameSettings(t, tpad') /\ SameEdges(t, tpad') /\ tpad'.down = t.down
      /\ tpad'.tapstate = t.tapstate /\ tpad'.button_down_x = t.button_down_x
      /\ tpad'.scroll_timer = t.scroll_timer /\ tpad'.moved = t.moved
  BY <1>3, <1>6, QuietKeeps
<1> DEFINE owed == pointer.owed + (IF Tapped(s, t) THEN 1 ELSE 0) - t.clicks
           lost == (pointer.lost \ t.told) \cup Swallows(s, t, p)
           travelled == ~s.off /\ Travels(s, t, p)
           loose == pointer.loose /\ (s.off \/ ~s.scrolling)
<1>8. /\ owed \in Int /\ travelled \in BOOLEAN /\ loose \in BOOLEAN
      /\ lost \in SUBSET Buttons
  <2>1. pointer.owed \in Int /\ pointer.lost \in SUBSET Buttons
    BY <1>4 DEF Pointer
  <2>2. t.down \in SUBSET Buttons
    BY <1>6, PadFields
  <2>3. Swallows(s, t, p) \in SUBSET Buttons
    BY <2>2 DEF Swallows
  <2> QED
    BY <1>6, <2>1, <2>3 DEF Travels
<1>9. pointer' = [pointer EXCEPT !.owed = owed, !.lost = lost, !.travelled = travelled,
                                 !.loose = loose]
  BY <1>3
<1> HIDE DEF owed, lost, travelled, loose
<1>10. /\ pointer' \in Pointer /\ pointer'.owed = owed /\ pointer'.travelled = travelled
       /\ pointer'.lost = lost /\ pointer'.loose = loose
       /\ pointer'.dropped = pointer.dropped
  <2>1. PICK q : q = pointer
    OBVIOUS
  <2>2. PICK r : r = pointer'
    OBVIOUS
  <2>3. PICK o, tr, l, lo : o = owed /\ tr = travelled /\ l = lost /\ lo = loose
    OBVIOUS
  <2>4. /\ q \in Pointer /\ o \in Int /\ tr \in BOOLEAN /\ l \in SUBSET Buttons
        /\ lo \in BOOLEAN
    BY <1>4, <1>8, <2>1, <2>3
  <2>5. r = [q EXCEPT !.owed = o, !.lost = l, !.travelled = tr, !.loose = lo]
    BY <1>9, <2>1, <2>2, <2>3
  <2>6. /\ r \in Pointer /\ r.owed = o /\ r.travelled = tr /\ r.lost = l
        /\ r.loose = lo /\ r.dropped = q.dropped
    BY <2>4, <2>5 DEF Pointer
  <2> QED
    BY <2>1, <2>2, <2>3, <2>6
<1>11. Typed'
  BY <1>7, <1>10 DEF Typed
<1>14. ASSUME \A b \in t.down :
                 \/ HeldAs(t, held', b)
                 \/ b = "left" /\ t.tapstate = "DRAG"
                 \/ b \in lost
       PROVE  DownButtonsAreHeld'
  BY <1>7, <1>10, <1>14 DEF DownButtonsAreHeld, Holds, HeldAs, PressedAs, SameSettings
<1>15. \A b \in s.down : \/ HeldAs(s, held, b)
                         \/ b = "left" /\ s.tapstate = "DRAG"
                         \/ b \in pointer.lost
  BY DEF IInv, DownButtonsAreHeld, Holds, HeldAs
<1>12. CASE s.off
  <2>1. Ignored(s, t) /\ ButtonStep(s, t, held, p.mask, s.clickpad)
    BY <1>2, <1>3, <1>4, <1>5, <1>12, OffPacket
  <2>2. Fingers'
    <3>1. /\ tpad'.last_finger = s.last_finger /\ tpad'.tapstate = s.tapstate
          /\ tpad'.off /\ ~tpad'.moved
      BY <1>7, <1>12, <2>1 DEF Ignored, SameSettings, SameTap
    <3> QED
      BY <1>10, <3>1 DEF IInv, Fingers, MovesOnlyTravellers
  <2>3. TapsMatchClicks'
    <3>1. t.clicks = 0 /\ ~Tapped(s, t)
      BY <1>4, <1>12, <2>1 DEF Ignored, SameTap, Tapped
    <3>2. owed = pointer.owed /\ tpad'.tapstate = s.tapstate
      <4>1. pointer.owed \in Int
        BY <1>4 DEF Pointer
      <4> QED
        BY <1>7, <2>1, <3>1, <4>1 DEF owed, Ignored, SameTap
    <3> QED
      BY <1>10, <3>2 DEF IInv, TapsMatchClicks, Waits
  <2>4. Corners'
    <3>1. loose <=> pointer.loose
      BY <1>12 DEF loose
    <3>2. tpad'.scroll_timer = s.scroll_timer
      BY <1>7, <2>1 DEF Ignored
    <3>3. tpad'.scroll_timer => pointer'.loose
      BY <1>10, <1>12, <3>1, <3>2 DEF IInv, Corners
    <3> QED
      BY <3>3 DEF Corners, AutoscrollHasFinger
  <2>5. DownButtonsAreHeld'
    <3>1. ASSUME NEW b \in t.down, ~HeldAs(t, held', b), ~(b = "left" /\ t.tapstate = "DRAG")
          PROVE  b \in lost
      <4>1. \/ b \in s.down /\ b \notin t.told /\ ~HeldAs(s, held, b)
            \/ s.clickpad /\ <<"left", 0>> \in p.mask /\ b = PressedAs(s)
        BY <1>5, <2>1, <3>1 DEF ButtonStep
      <4>2. CASE b \in s.down /\ b \notin t.told /\ ~HeldAs(s, held, b)
        <5>1. t.tapstate = s.tapstate
          BY <2>1 DEF Ignored, SameTap
        <5>2. b \in pointer.lost
          BY <1>15, <3>1, <4>2, <5>1
        <5> QED
          BY <4>2, <5>2 DEF lost
      <4>3. CASE s.clickpad /\ <<"left", 0>> \in p.mask /\ b = PressedAs(s)
        <5>1. Overlooks(s, p)
          BY <1>12, <4>3 DEF Overlooks
        <5>2. b \in Swallows(s, t, p)
          BY <3>1, <4>3, <5>1 DEF Swallows
        <5> QED
          BY <5>2 DEF lost
      <4> QED
        BY <4>1, <4>2, <4>3
    <3> QED
      BY <1>14, <3>1
  <2> QED
    BY <1>11, <2>2, <2>3, <2>4, <2>5 DEF IInv
<1>13. CASE ~s.off
  <2>1. Handled(s, t, p) /\ FeltButtons(s, t, held, p)
    BY <1>2, <1>3, <1>4, <1>5, <1>13, OnPacket
  <2>2. /\ t.last_finger <=> t.tapstate \in Touching
        /\ t.tapstate \in Moving <=>
             t.last_finger /\ s.last_finger /\ (s.tapstate \in Moving \/ Far(s, p))
        /\ t.clicks + Waiting(t.tapstate) =
             s.clicks + Waiting(s.tapstate) + (IF Completes(s, t.last_finger) THEN 1 ELSE 0)
    BY <2>1 DEF Handled, TapStep
  <2>3. pointer.travelled <=> s.tapstate \in Moving
    BY <1>13 DEF IInv, Fingers
  <2>4. Fingers'
    <3>1. travelled <=> t.tapstate \in Moving
      BY <1>13, <2>2, <2>3 DEF travelled, Travels, Far
    <3>2. t.moved => travelled
      BY <2>1, <3>1 DEF Handled
    <3> QED
      BY <1>7, <1>10, <2>2, <3>1, <3>2
      DEF Fingers, MovesOnlyTravellers, SameSettings
  <2>5. TapsMatchClicks'
    <3>1. Tapped(s, t) <=> Completes(s, t.last_finger)
      BY <1>13, <2>3 DEF Tapped, Completes
    <3>2. pointer.owed = pointer.dropped + Waiting(s.tapstate)
      BY DEF IInv, TapsMatchClicks, Waiting, Waits
    <3>3. Waiting(s.tapstate) \in Int /\ Waiting(t.tapstate) \in Int /\ pointer.dropped \in Int
      BY <1>4 DEF Waiting, Pointer
    <3>4. owed = pointer.dropped + Waiting(t.tapstate)
      BY <1>4, <1>6, <2>2, <3>1, <3>2, <3>3 DEF owed
    <3> QED
      BY <1>7, <1>10, <3>4 DEF TapsMatchClicks, Waiting, Waits
  <2>6. Corners'
    <3>1. tpad'.off = s.off /\ tpad'.scrolling = s.scrolling
      BY <1>7, <2>1 DEF Handled, SameSettings
    <3>2. CASE s.scrolling
      <4>1. tpad'.scroll_timer => t.last_finger /\ InCorner(detect_edge(t, t.last_x, t.last_y))
        BY <1>7, <2>1, <3>2 DEF Handled
      <4>2. detect_edge(tpad', t.last_x, t.last_y) = detect_edge(t, t.last_x, t.last_y)
        BY <1>7, EdgesOnly
      <4>3. /\ tpad'.last_finger = t.last_finger
            /\ tpad'.last_x = t.last_x /\ tpad'.last_y = t.last_y
        BY <1>7 DEF SameSettings
      <4>4. AutoscrollHasFinger'
        <5>1. detect_edge(tpad, tpad.last_x, tpad.last_y)' = detect_edge(t, t.last_x, t.last_y)
          BY <4>2, <4>3 DEF detect_edge
        <5> QED
          BY <4>1, <4>3, <5>1 DEF AutoscrollHasFinger, InCorner
      <4> QED
        BY <1>13, <3>1, <3>2, <4>4 DEF Corners
    <3>3. CASE ~s.scrolling
      <4>1. tpad'.scroll_timer = s.scroll_timer
        BY <1>7, <2>1, <3>3 DEF Handled
      <4>2. loose <=> pointer.loose
        BY <3>3 DEF loose
      <4>3. tpad'.scroll_timer => pointer'.loose
        BY <1>10, <3>3, <4>1, <4>2 DEF IInv, Corners
      <4> QED
        BY <4>3 DEF Corners, AutoscrollHasFinger
    <3> QED
      BY <3>2, <3>3
  <2>7. DownButtonsAreHeld'
    <3>1. ASSUME NEW b \in t.down, ~HeldAs(t, held', b), ~(b = "left" /\ t.tapstate = "DRAG")
          PROVE  b \in lost
      <4>1. \/ /\ b \in s.down /\ b \notin t.told /\ ~HeldAs(s, held, b)
               /\ b = "left" => s.tapstate # "DRAG"
            \/ /\ Overlooks(s, p) /\ <<"left", 0>> \in p.mask
               /\ b = PressedAs(s) /\ b \notin t.told
        BY <1>5, <2>1, <3>1 DEF FeltButtons
      <4>2. CASE /\ b \in s.down /\ b \notin t.told /\ ~HeldAs(s, held, b)
                 /\ b = "left" => s.tapstate # "DRAG"
        <5>1. b \in pointer.lost
          BY <1>15, <4>2
        <5> QED
          BY <4>2, <5>1 DEF lost
      <4>3. CASE Overlooks(s, p) /\ <<"left", 0>> \in p.mask /\ b = PressedAs(s)
        <5>1. b \in Swallows(s, t, p)
          BY <3>1, <4>3 DEF Swallows
        <5> QED
          BY <5>1 DEF lost
      <4> QED
        BY <4>1, <4>2, <4>3
    <3> QED
      BY <1>14, <3>1
  <2> QED
    BY <1>11, <2>4, <2>5, <2>6, <2>7 DEF IInv
<1> QED
  BY <1>12, <1>13

LEMMA Restarted ==
  \A s \in PadState :
     LET t == init_touchpad_state(s) IN
     /\ t \in PadState /\ t.tapstate = "START" /\ ~t.last_finger /\ ~t.moved
     /\ t.clickpad = s.clickpad /\ t.button_down_x = s.button_down_x
     /\ t.scroll_timer = s.scroll_timer /\ t.told = s.told /\ t.clicks = s.clicks /\ t.down = s.down
     /\ t.tap = s.tap /\ t.scrolling = s.scrolling
<1> TAKE s \in PadState
<1>0. PICK zero \in Int : zero = 0
  OBVIOUS
<1> DEFINE a == [s EXCEPT !.last_x = zero]
           b == [a EXCEPT !.last_y = zero]
           c == [b EXCEPT !.last_finger = FALSE]
           d == [c EXCEPT !.tapstate = "START"]
           e == [d EXCEPT !.vert_scroll_on = FALSE]
           f == [e EXCEPT !.scroll_packets = 0]
           g == [f EXCEPT !.corner = FALSE]
           h == [g EXCEPT !.moved = FALSE]
           t == [h EXCEPT !.off = FALSE]
           Kept(u) == /\ u.clickpad = s.clickpad /\ u.button_down_x = s.button_down_x
                      /\ u.scroll_timer = s.scroll_timer /\ u.told = s.told /\ u.down = s.down
                      /\ u.clicks = s.clicks
                      /\ u.tap = s.tap /\ u.scrolling = s.scrolling
<1>1. init_touchpad_state(s) = t
  BY <1>0 DEF init_touchpad_state
<1>2. d \in PadState /\ d.tapstate = "START" /\ ~d.last_finger /\ Kept(d)
  <2>1. c \in PadState /\ ~c.last_finger /\ Kept(c)
    <3>1. b \in PadState /\ Kept(b)
      <4>1. a \in PadState /\ Kept(a)
        BY DEF PadState
      <4> HIDE DEF a
      <4> QED
        BY <4>1 DEF PadState
    <3> HIDE DEF b
    <3> QED
      BY <3>1, ZenonT(40) DEF PadState
  <2> HIDE DEF c
  <2> QED
    BY <2>1 DEF PadState, TapStates
<1> HIDE DEF d
<1>3. f \in PadState /\ f.tapstate = "START" /\ ~f.last_finger /\ Kept(f)
  <2>1. e \in PadState /\ e.tapstate = "START" /\ ~e.last_finger /\ Kept(e)
    BY <1>2 DEF PadState
  <2> HIDE DEF e
  <2> QED
    BY <2>1 DEF PadState
<1> HIDE DEF f
<1>4. /\ h \in PadState /\ h.tapstate = "START" /\ ~h.last_finger /\ ~h.moved
      /\ Kept(h)
  <2>1. g \in PadState /\ g.tapstate = "START" /\ ~g.last_finger /\ Kept(g)
    BY <1>3 DEF PadState
  <2> HIDE DEF g
  <2> QED
    BY <2>1 DEF PadState
<1> HIDE DEF h
<1>5. /\ t \in PadState /\ t.tapstate = "START" /\ ~t.last_finger /\ ~t.moved
      /\ Kept(t)
  BY <1>4 DEF PadState
<1> QED
  BY <1>1, <1>5

\* The pad is opened, with settings read from the database.
Opens(s, t) ==
    \E clickpad, tap, scrolling \in BOOLEAN :
       t = init_touchpad(s, clickpad, tap, scrolling)

LEMMA Opened ==
  ASSUME NEW s \in PadState, NEW o, Opens(s, o)
  PROVE  /\ o \in PadState /\ o.tapstate = "START" /\ ~o.last_finger /\ ~o.moved
         /\ o.button_down_x = s.button_down_x
         /\ o.scroll_timer = s.scroll_timer /\ o.told = s.told /\ o.clicks = s.clicks /\ o.down = s.down
<1>0. PICK clickpad \in BOOLEAN, tap \in BOOLEAN, scrolling \in BOOLEAN :
         o = init_touchpad(s, clickpad, tap, scrolling)
  BY DEF Opens
<1> DEFINE i == init_touchpad_state(s)
           a == [i EXCEPT !.clickpad = clickpad]
           b == [a EXCEPT !.pressed = FALSE]
           c == [b EXCEPT !.maxx = MaxX]
           d == [c EXCEPT !.right_edge = RightEdge]
           e == [d EXCEPT !.maxy = MaxY]
           f == [e EXCEPT !.bottom_edge = BottomEdge]
           g == [f EXCEPT !.tap = tap]
           t == [g EXCEPT !.scrolling = scrolling]
           Kept(u) == /\ u.tapstate = "START" /\ ~u.last_finger /\ ~u.moved
                      /\ u.button_down_x = s.button_down_x
                      /\ u.scroll_timer = s.scroll_timer /\ u.told = s.told /\ u.down = s.down
                      /\ u.clicks = s.clicks
<1>1. o = t
  BY <1>0 DEF init_touchpad
<1>2. i \in PadState /\ Kept(i)
  BY Restarted, SMTT(30)
<1> HIDE DEF i
<1>3. a \in PadState /\ a.clickpad = clickpad /\ Kept(a)
  BY <1>2, ZenonT(40) DEF PadState
<1> HIDE DEF a
<1>4. b \in PadState /\ b.clickpad = clickpad /\ Kept(b)
  BY <1>3, ZenonT(40) DEF PadState
<1> HIDE DEF b
<1>5. c \in PadState /\ c.clickpad = clickpad /\ Kept(c)
  BY <1>4, TouchpadAssumption, ZenonT(40) DEF PadState
<1> HIDE DEF c
<1>6. d \in PadState /\ d.clickpad = clickpad /\ Kept(d)
  BY <1>5, TouchpadAssumption, ZenonT(40) DEF PadState
<1> HIDE DEF d
<1>7. e \in PadState /\ e.clickpad = clickpad /\ Kept(e)
  BY <1>6, TouchpadAssumption, ZenonT(40) DEF PadState
<1> HIDE DEF e
<1>8. f \in PadState /\ f.clickpad = clickpad /\ Kept(f)
  BY <1>7, TouchpadAssumption, ZenonT(40) DEF PadState
<1> HIDE DEF f
<1>9. g \in PadState /\ g.clickpad = clickpad /\ Kept(g)
  BY <1>8, ZenonT(40) DEF PadState
<1> HIDE DEF g
<1>10. t \in PadState /\ t.clickpad = clickpad /\ Kept(t)
  BY <1>9, ZenonT(40) DEF PadState
<1> QED
  BY <1>1, <1>10

LEMMA MovedStays ==
  \A s \in PadState :
     /\ TapClick(Goes(s, "START")).moved = s.moved
     /\ TapClick(Goes(s, "START")).scroll_timer = s.scroll_timer
BY DEF TapClick, TapPress, event_button_change, Goes, PadState

\* The facts of the invariant that the other steps need.
LEMMA FromInvariant ==
  ASSUME IInv
  PROVE  /\ tpad \in PadState /\ tpad.told = {} /\ tpad.clicks = 0
         /\ pointer \in Pointer /\ pointer.owed = pointer.dropped + Waiting(tpad.tapstate)
         /\ pointer.dropped \in Nat /\ pointer.lost \in SUBSET Buttons
         /\ tpad.off \in BOOLEAN /\ tpad.scrolling \in BOOLEAN
<1>1. tpad \in PadState /\ tpad.told = {} /\ tpad.clicks = 0 /\ pointer \in Pointer
  BY DEF IInv, Typed
<1>2. pointer.owed = pointer.dropped + Waiting(tpad.tapstate)
  BY DEF IInv, TapsMatchClicks, Waiting, Waits
<1>3. pointer.dropped \in Nat /\ pointer.lost \in SUBSET Buttons
  BY <1>1 DEF Pointer
<1> QED
  BY <1>1, <1>2, <1>3, PadFields

\* A step that sends nothing and leaves the tap, the press and the device alone.
LEMMA ButtonsStay ==
  ASSUME IInv, tpad'.down = tpad.down, tpad'.clickpad = tpad.clickpad,
         tpad'.button_down_x = tpad.button_down_x, held' = held,
         tpad'.tapstate = tpad.tapstate, pointer'.lost = pointer.lost
  PROVE  DownButtonsAreHeld'
BY DEF IInv, DownButtonsAreHeld, Holds, PressedAs

LEMMA ClickTimerPreserves ==
  ASSUME IInv, send_left_click_event
  PROVE  IInv'
<1> DEFINE g == Goes(tpad, "START")
           c == TapClick(g)
           pending == tpad.tapstate = "SINGLE_TAP_PENDING"
           t == IF pending THEN c ELSE tpad
           d == delete_left_click_timer(t)
<1>1. /\ tpad' = Quiet(d)
      /\ pointer' = [pointer EXCEPT !.owed = @ - t.clicks, !.lost = @ \ t.told]
      /\ held' = held
  BY DEF send_left_click_event, Goes
<1>2. /\ t \in PadState /\ SameSettings(tpad, t) /\ SameEdges(tpad, t)
      /\ t.button_down_x = tpad.button_down_x /\ t.scroll_timer = tpad.scroll_timer
      /\ t.moved = tpad.moved
      /\ t.tapstate = (IF pending THEN "START" ELSE tpad.tapstate)
      /\ t.clicks = (IF pending THEN 1 ELSE 0)
      /\ t.down = (IF pending THEN tpad.down \ {"left"} ELSE tpad.down)
      /\ t.told \subseteq {"left"} /\ (~pending => t.told = {})
  <2>1. CASE pending
    <3>1. Keeps(tpad, g) /\ g.tapstate = "START" /\ g.clicks = tpad.clicks
      BY FromInvariant, GoesKeeps DEF TapStates
    <3>2. c.moved = tpad.moved /\ c.scroll_timer = tpad.scroll_timer
      BY FromInvariant, MovedStays
    <3> HIDE DEF g
    <3>3. g \in PadState
      BY <3>1 DEF Keeps
    <3>4. /\ Keeps(g, c) /\ c.tapstate = "START" /\ c.clicks = g.clicks + 1
          /\ "left" \notin c.down
      BY <3>1, <3>3, ClickKeeps
    <3>5. t = c
      BY <2>1
    <3> HIDE DEF c, t
    <3>6. Keeps(tpad, c)
      BY <3>1, <3>4, KeepsMore
    <3>7. c.clicks = 1
      BY <3>1, <3>4, FromInvariant
    <3>8. c.down = tpad.down \ {"left"} /\ c.told \subseteq {"left"}
      BY <3>4, <3>6, FromInvariant DEF Keeps
    <3> QED
      BY <2>1, <3>2, <3>4, <3>5, <3>6, <3>7, <3>8 DEF Keeps
  <2>2. CASE ~pending
    <3>1. t = tpad
      BY <2>2
    <3> HIDE DEF t
    <3> QED
      BY <2>2, <3>1, FromInvariant, SameItself
  <2> QED
    BY <2>1, <2>2
<1> HIDE DEF t
<1>3. /\ Keeps(t, d) /\ d.tapstate = t.tapstate /\ d.moved = t.moved /\ NoEvent(t, d)
  BY <1>2, TimerKeeps DEF delete_left_click_timer, PadState
<1> HIDE DEF d
<1>4. /\ tpad' \in PadState /\ tpad'.told = {} /\ tpad'.clicks = 0 /\ tpad'.down = d.down
      /\ SameSettings(d, tpad') /\ SameEdges(d, tpad')
      /\ tpad'.tapstate = d.tapstate /\ tpad'.button_down_x = d.button_down_x
      /\ tpad'.scroll_timer = d.scroll_timer /\ tpad'.moved = d.moved
  <2>1. d \in PadState
    BY <1>3 DEF Keeps
  <2> QED
    BY <1>1, <2>1, QuietKeeps
<1>5. /\ SameSettings(tpad, tpad') /\ SameEdges(tpad, tpad')
      /\ tpad'.tapstate = t.tapstate /\ tpad'.down = t.down
      /\ tpad'.button_down_x = tpad.button_down_x
      /\ tpad'.scroll_timer = tpad.scroll_timer /\ tpad'.moved = tpad.moved
  BY <1>2, <1>3, <1>4 DEF Keeps, SameSettings, SameEdges, NoEvent
<1>6. /\ pointer' \in Pointer /\ pointer'.owed = pointer.owed - t.clicks
      /\ pointer'.lost = pointer.lost \ t.told /\ pointer'.dropped = pointer.dropped
      /\ pointer'.travelled = pointer.travelled /\ pointer'.loose = pointer.loose
  <2>1. PICK o \in Int : o = pointer.owed - t.clicks
    <3>1. pointer.owed \in Int /\ t.clicks \in Nat
      BY <1>2, FromInvariant, PadFields DEF Pointer
    <3> QED
      BY <3>1
  <2>2. PICK l \in SUBSET Buttons : l = pointer.lost \ t.told
    BY FromInvariant
  <2>3. pointer' = [pointer EXCEPT !.owed = o, !.lost = l]
    BY <1>1, <2>1, <2>2
  <2> QED
    BY <2>1, <2>2, <2>3, FromInvariant DEF Pointer
<1>7. Typed'
  BY <1>4, <1>6 DEF Typed
<1>8. Fingers'
  BY <1>2, <1>5, <1>6
  DEF IInv, Fingers, MovesOnlyTravellers, SameSettings, Touching, Moving
<1>9. TapsMatchClicks'
  <2>1. pointer'.owed = pointer.dropped + Waiting(t.tapstate)
    BY <1>2, <1>6, FromInvariant DEF Waiting
  <2> QED
    BY <1>5, <1>6, <2>1 DEF TapsMatchClicks, Waiting, Waits
<1>10. Corners'
  <2>1. detect_edge(tpad, tpad.last_x, tpad.last_y)'
          = detect_edge(tpad, tpad.last_x, tpad.last_y)
    BY <1>5 DEF SameEdges, SameSettings, detect_edge
  <2> QED
    BY <1>5, <1>6, <2>1 DEF IInv, Corners, AutoscrollHasFinger, SameSettings
<1>11. DownButtonsAreHeld'
  <2>1. CASE pending
    <3>1. \A b \in tpad'.down : b \in tpad.down /\ b # "left" /\ b \notin t.told
      BY <1>2, <1>5, <2>1
    <3> QED
      BY <1>1, <1>5, <1>6, <3>1
      DEF IInv, DownButtonsAreHeld, Holds, PressedAs, SameSettings
  <2>2. CASE ~pending
    BY <1>1, <1>2, <1>5, <1>6, <2>2, ButtonsStay DEF SameSettings
  <2> QED
    BY <2>1, <2>2
<1> QED
  BY <1>7, <1>8, <1>9, <1>10, <1>11 DEF IInv

LEMMA OffPreserves ==
  ASSUME IInv, disable_touchpad
  PROVE  IInv'
<1>1. /\ tpad' \in PadState /\ tpad'.told = {} /\ tpad'.clicks = 0 /\ tpad'.off
      /\ tpad'.down = tpad.down
      /\ tpad'.last_finger = tpad.last_finger /\ tpad'.clickpad = tpad.clickpad
      /\ tpad'.tapstate = tpad.tapstate /\ tpad'.button_down_x = tpad.button_down_x
      /\ tpad'.scroll_timer = tpad.scroll_timer /\ tpad'.moved = tpad.moved
  BY FromInvariant DEF disable_touchpad, PadState
<1>2. /\ pointer' \in Pointer /\ pointer'.owed = pointer.owed
      /\ pointer'.dropped = pointer.dropped /\ pointer'.lost = pointer.lost
      /\ pointer'.travelled = pointer.travelled
      /\ pointer'.loose <=> pointer.loose \/ tpad.scroll_timer
  <2>1. pointer.loose \/ tpad.scroll_timer \in BOOLEAN
    BY FromInvariant, PadFields DEF Pointer
  <2> QED
    BY <2>1, FromInvariant DEF disable_touchpad, Pointer
<1>3. Corners'
  BY <1>1, <1>2 DEF Corners, AutoscrollHasFinger
<1>4. Fingers'
  BY <1>1, <1>2 DEF IInv, Fingers, MovesOnlyTravellers
<1>5. DownButtonsAreHeld'
  BY <1>1, <1>2, ButtonsStay DEF disable_touchpad
<1>6. TapsMatchClicks'
  BY <1>1, <1>2 DEF IInv, TapsMatchClicks, Waits
<1> QED
  BY <1>1, <1>2, <1>3, <1>4, <1>5, <1>6 DEF IInv, Typed

\* The tap states start afresh; the presses in lost are not going to be released.
LEMMA AfreshPreserves ==
  ASSUME IInv, NEW lost \in SUBSET Buttons, Restarts(lost),
         tpad' \in PadState, tpad'.told = {}, tpad'.clicks = 0,
         tpad'.tapstate = "START", ~tpad'.last_finger, ~tpad'.moved,
         tpad'.clickpad = tpad.clickpad, tpad'.button_down_x = tpad.button_down_x,
         tpad'.scroll_timer = tpad.scroll_timer, tpad'.down = tpad.down,
         \/ lost = Buttons
         \/ held' = held /\ (tpad.tapstate = "DRAG" => "left" \in lost)
  PROVE  IInv'
<1>1. /\ pointer' \in Pointer /\ pointer'.owed = pointer.owed
      /\ pointer'.dropped = pointer.dropped + Waiting(tpad.tapstate)
      /\ pointer'.lost = pointer.lost \cup (tpad.down \cap lost)
      /\ ~pointer'.travelled
      /\ pointer'.loose <=> pointer.loose \/ tpad.scroll_timer
  <2>1. PICK n \in Nat : n = pointer.dropped + Waiting(tpad.tapstate)
    BY FromInvariant DEF Waiting
  <2>2. PICK l \in BOOLEAN : l = (pointer.loose \/ tpad.scroll_timer)
    BY FromInvariant, PadFields DEF Pointer
  <2>3. PICK d \in SUBSET Buttons : d = pointer.lost \cup (tpad.down \cap lost)
    BY FromInvariant, PadFields
  <2>4. pointer' = [pointer EXCEPT !.dropped = n, !.lost = d, !.travelled = FALSE,
                                   !.loose = l]
    BY <2>1, <2>2, <2>3 DEF Restarts, Waits, Waiting
  <2> QED
    BY <2>1, <2>2, <2>3, <2>4, FromInvariant DEF Pointer
<1>2. Corners'
  BY <1>1 DEF Corners, AutoscrollHasFinger
<1>3. Fingers'
  BY <1>1 DEF Fingers, MovesOnlyTravellers, Touching, Moving
<1>4. TapsMatchClicks'
  <2>1. pointer'.owed = pointer'.dropped /\ pointer'.dropped \in Nat
    BY <1>1, FromInvariant DEF Pointer
  <2>2. ~Waits(tpad)'
    BY DEF Waits
  <2> QED
    BY <2>1, <2>2 DEF TapsMatchClicks
<1>5. DownButtonsAreHeld'
  <2>1. CASE lost = Buttons
    <3>1. tpad.down \subseteq Buttons
      BY FromInvariant, PadFields
    <3> QED
      BY <1>1, <2>1, <3>1 DEF DownButtonsAreHeld
  <2>2. CASE held' = held /\ (tpad.tapstate = "DRAG" => "left" \in lost)
    BY <1>1, <2>2 DEF IInv, DownButtonsAreHeld, Holds, PressedAs
  <2> QED
    BY <2>1, <2>2
<1> QED
  BY <1>1, <1>2, <1>3, <1>4, <1>5 DEF IInv, Typed

LEMMA OnPreserves ==
  ASSUME IInv, enable_touchpad
  PROVE  IInv'
<1> DEFINE lost == IF tpad.tapstate = "DRAG" THEN {"left"} ELSE {}
<1>1. tpad' = init_touchpad_state(tpad) /\ Restarts(lost) /\ held' = held
  BY DEF enable_touchpad
<1>2. tpad \in PadState /\ tpad.told = {} /\ tpad.clicks = 0
  BY FromInvariant
<1>3. /\ tpad' \in PadState /\ tpad'.told = {} /\ tpad'.clicks = 0
      /\ tpad'.tapstate = "START" /\ ~tpad'.last_finger /\ ~tpad'.moved
      /\ tpad'.clickpad = tpad.clickpad /\ tpad'.button_down_x = tpad.button_down_x
      /\ tpad'.scroll_timer = tpad.scroll_timer /\ tpad'.down = tpad.down
  BY <1>1, <1>2, Restarted
<1>4. lost \in SUBSET Buttons /\ (tpad.tapstate = "DRAG" => "left" \in lost)
  BY DEF Buttons
<1> HIDE DEF lost
<1> QED
  BY <1>1, <1>3, <1>4, AfreshPreserves

LEMMA AddedPreserves ==
  ASSUME IInv, touchpad_added
  PROVE  IInv'
<1>1. /\ tpad' = init_touchpad(tpad, tpad.clickpad, tpad.tap, tpad.scrolling)
      /\ Restarts(Buttons)
  BY DEF touchpad_added
<1>2. /\ tpad \in PadState /\ tpad.told = {} /\ tpad.clicks = 0
      /\ tpad.clickpad \in BOOLEAN /\ tpad.tap \in BOOLEAN /\ tpad.scrolling \in BOOLEAN
  BY FromInvariant, PadFields
<1>3. /\ tpad' \in PadState /\ tpad'.told = {} /\ tpad'.clicks = 0
      /\ tpad'.tapstate = "START" /\ ~tpad'.last_finger /\ ~tpad'.moved
      /\ tpad'.clickpad = tpad.clickpad /\ tpad'.button_down_x = tpad.button_down_x
      /\ tpad'.scroll_timer = tpad.scroll_timer /\ tpad'.down = tpad.down
  <2>1. Opens(tpad, tpad')
    BY <1>1, <1>2, Zenon DEF Opens
  <2>2. tpad'.clickpad = tpad.clickpad
    BY <1>1, <1>2 DEF init_touchpad, init_touchpad_state, PadState
  <2>3. PICK s, t : s = tpad /\ t = tpad'
    OBVIOUS
  <2>4. s \in PadState /\ Opens(s, t)
    BY <1>2, <2>1, <2>3
  <2>5. /\ t \in PadState /\ t.tapstate = "START" /\ ~t.last_finger /\ ~t.moved
        /\ t.button_down_x = s.button_down_x
        /\ t.scroll_timer = s.scroll_timer /\ t.told = s.told /\ t.clicks = s.clicks
        /\ t.down = s.down
    BY <2>4, Opened
  <2> QED
    BY <1>2, <2>2, <2>3, <2>5
<1> QED
  BY <1>1, <1>3, AfreshPreserves

LEMMA ConfigPreserves ==
  ASSUME IInv, touchpad_reread_config
  PROVE  IInv'
<1>1. PICK tap \in BOOLEAN, scrolling \in BOOLEAN :
        /\ tpad' = [tpad EXCEPT !.tap = tap, !.scrolling = scrolling]
        /\ pointer' = [pointer EXCEPT !.loose = @ \/ (tpad.scroll_timer /\ ~scrolling)]
        /\ held' = held
  BY DEF touchpad_reread_config
<1> DEFINE u == [tpad EXCEPT !.tap = tap]
           Kept(s) == /\ s.told = {} /\ s.clicks = 0 /\ s.down = tpad.down
                      /\ s.off = tpad.off /\ s.clickpad = tpad.clickpad
                      /\ s.last_finger = tpad.last_finger /\ s.last_x = tpad.last_x
                      /\ s.last_y = tpad.last_y /\ SameEdges(tpad, s)
                      /\ s.tapstate = tpad.tapstate
                      /\ s.button_down_x = tpad.button_down_x
                      /\ s.scroll_timer = tpad.scroll_timer /\ s.moved = tpad.moved
<1>2. u \in PadState /\ Kept(u)
  BY FromInvariant DEF PadState, SameEdges
<1>3. tpad' = [u EXCEPT !.scrolling = scrolling]
  BY <1>1
<1> HIDE DEF u
<1>4. tpad' \in PadState /\ tpad'.scrolling = scrolling /\ Kept(tpad')
  BY <1>2, <1>3, ZenonT(40) DEF PadState, SameEdges
<1>5. /\ pointer' \in Pointer /\ pointer'.owed = pointer.owed
      /\ pointer'.dropped = pointer.dropped /\ pointer'.lost = pointer.lost
      /\ pointer'.travelled = pointer.travelled
      /\ pointer'.loose <=> pointer.loose \/ (tpad.scroll_timer /\ ~scrolling)
  <2>1. PICK l \in BOOLEAN : l = (pointer.loose \/ (tpad.scroll_timer /\ ~scrolling))
    BY FromInvariant, PadFields DEF Pointer
  <2> QED
    BY <1>1, <2>1, FromInvariant DEF Pointer
<1>6. Corners'
  <2>1. detect_edge(tpad, tpad.last_x, tpad.last_y)'
          = detect_edge(tpad, tpad.last_x, tpad.last_y)
    BY <1>4 DEF SameEdges, detect_edge
  <2> QED
    BY <1>4, <1>5, <2>1 DEF IInv, Corners, AutoscrollHasFinger
<1>7. Fingers'
  BY <1>4, <1>5 DEF IInv, Fingers, MovesOnlyTravellers
<1>8. DownButtonsAreHeld'
  BY <1>1, <1>4, <1>5, ButtonsStay
<1> QED
  BY <1>4, <1>5, <1>6, <1>7, <1>8 DEF IInv, Typed, TapsMatchClicks, Waits

LEMMA InitEstablishes ==
  ASSUME TouchpadInit
  PROVE  IInv
<1> DEFINE first == [tapstate |-> "START", last_x |-> 0, last_y |-> 0,
                     last_finger |-> FALSE, off |-> FALSE, vert_scroll_on |-> FALSE,
                     scroll_packets |-> 0, corner |-> FALSE, finger |-> FALSE,
                     touch_x |-> 0, touch_y |-> 0, touch_bottom |-> FALSE,
                     button_down_x |-> NoButton, clickpad |-> FALSE, pressed |-> FALSE,
                     maxx |-> 0, right_edge |-> 0, maxy |-> 0, bottom_edge |-> 0,
                     tap |-> FALSE, scrolling |-> FALSE,
                     click_timer |-> FALSE, scroll_timer |-> FALSE,
                     down |-> {}, told |-> {}, clicks |-> 0, moved |-> FALSE]
<1>1. \E clickpad, tap, scrolling \in BOOLEAN :
         tpad = init_touchpad(first, clickpad, tap, scrolling)
  BY Zenon DEF TouchpadInit
<1>2. /\ first \in PadState /\ ~first.scroll_timer
      /\ first.told = {} /\ first.clicks = 0 /\ first.down = {}
  <2>1. NoButton \in Int /\ 0 \in Int /\ 0 \in Nat
    BY DEF NoButton
  <2>2. "START" \in TapStates
    BY DEF TapStates
  <2> QED
    BY <2>1, <2>2 DEF PadState
<1> HIDE DEF first
<1>3. /\ tpad \in PadState /\ tpad.tapstate = "START" /\ ~tpad.last_finger
      /\ ~tpad.moved /\ ~tpad.scroll_timer
      /\ tpad.told = {} /\ tpad.clicks = 0 /\ tpad.down = {}
  <2>1. PICK s, t : s = first /\ t = tpad
    OBVIOUS
  <2>2. s \in PadState /\ Opens(s, t)
    BY <1>1, <1>2, <2>1 DEF Opens
  <2>3. /\ t \in PadState /\ t.tapstate = "START" /\ ~t.last_finger /\ ~t.moved
        /\ t.button_down_x = s.button_down_x
        /\ t.scroll_timer = s.scroll_timer /\ t.told = s.told /\ t.clicks = s.clicks
        /\ t.down = s.down
    BY <2>2, Opened
  <2> QED
    BY <1>2, <2>1, <2>3
<1>4. pointer = [owed |-> 0, dropped |-> 0, lost |-> {}, travelled |-> FALSE,
                 loose |-> FALSE]
  BY DEF TouchpadInit
<1>5. pointer \in Pointer
  BY <1>4 DEF Pointer
<1>6. Fingers
  BY <1>3, <1>4 DEF Fingers, MovesOnlyTravellers, Touching, Moving
<1>7. TapsMatchClicks
  BY <1>3, <1>4 DEF TapsMatchClicks, Waits
<1>8. Corners
  BY <1>3 DEF Corners, AutoscrollHasFinger
<1>9. DownButtonsAreHeld
  BY <1>3 DEF DownButtonsAreHeld
<1> QED
  BY <1>3, <1>5, <1>6, <1>7, <1>8, <1>9 DEF IInv, Typed

LEMMA StepPreserves ==
  ASSUME IInv, [TouchpadNext]_touchpad_vars
  PROVE  IInv'
<1>1. CASE handle_touchpad_event
  BY <1>1, PacketPreserves
<1>2. CASE send_left_click_event
  BY <1>2, ClickTimerPreserves
<1>3. CASE disable_touchpad
  BY <1>3, OffPreserves
<1>4. CASE enable_touchpad
  BY <1>4, OnPreserves
<1>5. CASE toggle_touchpad_status
  BY <1>5, OffPreserves, OnPreserves DEF toggle_touchpad_status
<1>6. CASE touchpad_reread_config
  BY <1>6, ConfigPreserves
<1>7. CASE touchpad_added
  BY <1>7, AddedPreserves
<1>8. CASE UNCHANGED touchpad_vars
  BY <1>8 DEF touchpad_vars, IInv, Typed, Fingers, MovesOnlyTravellers, TapsMatchClicks, Waits,
              Corners, AutoscrollHasFinger, detect_edge, DownButtonsAreHeld, Holds, PressedAs
<1>9. CASE send_autoscroll_event
  BY <1>8, <1>9 DEF send_autoscroll_event
<1> QED
  BY <1>1, <1>2, <1>3, <1>4, <1>5, <1>6, <1>7, <1>8, <1>9 DEF TouchpadNext

\* The inductive invariant holds for a pad of any size, whatever its packets,
\* keys, settings and timers do.
THEOREM PadInvariant == TouchpadSpec => []IInv
<1>1. TouchpadInit => IInv
  BY InitEstablishes
<1>2. IInv /\ [TouchpadNext]_touchpad_vars => IInv'
  BY StepPreserves
<1> QED
  BY <1>1, <1>2, PTL DEF TouchpadSpec

\* The click timer, double taps and drags make no click without a tap, and one of
\* every tap but those that init_touchpad_state forgets while they wait.
THEOREM TapsBecomeClicks == TouchpadSpec => []TapsMatchClicks
<1>1. IInv => TapsMatchClicks
  BY DEF IInv
<1> QED
  BY <1>1, PadInvariant, PTL

\* The corner timer that start_corner_scrolling sets outlives the finger in the
\* corner only when packets or scrolling stop being looked at.
THEOREM CornerNeedsFinger == TouchpadSpec => []AutoscrollHasFinger
<1>1. IInv => AutoscrollHasFinger
  BY DEF IInv, Corners
<1> QED
  BY <1>1, PadInvariant, PTL

\* compute_deltas moves the pointer only for a finger that has travelled since
\* it came down.
THEOREM TapsDoNotMove == TouchpadSpec => []MovesOnlyTravellers
<1>1. IInv => MovesOnlyTravellers
  BY DEF IInv, Fingers
<1> QED
  BY <1>1, PadInvariant, PTL

\* A button that the reader of the events believes to be down is held on the pad, as
\* the button that handle_clickpad took its press for, or belongs to a drag, or is one
\* of those whose release the filter swallows.
THEOREM NoOtherButtonHangs == TouchpadSpec => []DownButtonsAreHeld
<1>1. IInv => DownButtonsAreHeld
  BY DEF IInv
<1> QED
  BY <1>1, PadInvariant, PTL

=============================================================================
