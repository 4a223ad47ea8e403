------------------------------ MODULE UsbTablet ------------------------------
(***************************************************************************)
(* A USB touch screen (usb-tablet.c): the events of the device are scaled, *)
(* looked at for gestures, and passed to the guest.  A touch with a finger *)
(* is turned into the left button, which is pressed after the report of    *)
(* the packet so that the guest has seen the position first.  While a      *)
(* gesture is under way the guest is told nothing, and what the kernel     *)
(* dropped ends with the next packet.                                      *)
(*                                                                         *)
(* One action is one event of the device.  A position stands for its x and *)
(* its y event.  The statics slot, distance, x, y, ... of handle_gestures  *)
(* are shared by all tablets; there is one here.                           *)
(***************************************************************************)
EXTENDS Gesture

CONSTANTS
    Points,          \* places a finger is reported at, more than one unit apart
    Slots,           \* the slots the device uses: Fingers, and some above
    MONOTOUCH        \* the subtype of the tablet: does its pen silence it

ASSUME TabletAssumption ==
    /\ Points \subseteq Int \X Int
    /\ Fingers \subseteq Slots /\ Slots \subseteq Nat
    /\ MONOTOUCH \in BOOLEAN

NoSlot == -1
NoPoint == <<-1, -1>>

VARIABLES
    tscale,      \* btnleft, tool; pen_inrange and ignore_events
    touches,     \* the statics of handle_gestures, and the gestures
    device,      \* what the device is doing
    guest        \* what the guest has been told, and history

tablet_vars == <<tscale, touches, device, guest>>

Tools == {"none", "finger", "pen", "rubber"}

Tscale == [btnleft : {"up", "newlypressed", "down"}, tool : Tools,
           pen_inrange : BOOLEAN, ignore : BOOLEAN]

\* moved stands for distance > 1.
Touches == [slot : Slots \cup {NoSlot}, trackID : [Fingers -> BOOLEAN],
            xy : [Fingers -> (Int \X Int)], moved : BOOLEAN, track_change : BOOLEAN,
            goSilent : BOOLEAN, silence : BOOLEAN, gesture : GestureState]

\* left: the guest believes the left button down; lost: a release of it did not
\* reach the guest; drawing: a gesture was under way at the last report that was
\* looked at for gestures.
Guest == [left : BOOLEAN, lost : BOOLEAN, drawing : BOOLEAN]

-----------------------------------------------------------------------------
(* handle_gestures.  With no slot yet, the word before an array is changed: *)
(* the outcomes are those of the comparison with whatever it held.          *)

Changed(t, e) ==
    IF t.slot \notin Fingers \cup {NoSlot} THEN {t}
    ELSE CASE e.type = "position" /\ t.slot = NoSlot ->
                {[t EXCEPT !.moved = @ \/ far] : far \in BOOLEAN}
           [] e.type = "position" /\ t.slot # NoSlot ->
                {[t EXCEPT !.moved = @ \/ t.xy[t.slot] # e.value,
                           !.xy = [@ EXCEPT ![t.slot] = e.value]]}
           [] e.type = "track" /\ t.slot = NoSlot ->
                {[t EXCEPT !.track_change = @ \/ other] : other \in BOOLEAN}
           [] e.type = "track" /\ t.slot # NoSlot ->
                {[t EXCEPT !.track_change = @ \/ t.trackID[t.slot] # e.value,
                           !.trackID = [@ EXCEPT ![t.slot] = e.value]]}
           [] OTHER -> {t}

\* The push that gesture_handler is told.
Push(t) == IF ~t.track_change THEN "moved"
           ELSE IF t.trackID[t.slot] THEN "down" ELSE "up"

\* Mutant: only a contact that changed says whether to be silent.
CompletedOnContact(t, e) ==
    IF e.type \notin {"slot", "report"} \/ t.slot \notin Fingers \/ ~(t.track_change \/ t.moved)
      THEN t
      ELSE LET r == gesture_handler(t.gesture, t.slot, t.xy[t.slot], Push(t))
           IN  [t EXCEPT !.gesture = r.state,
                         !.goSilent = IF t.track_change THEN r.tracking > 0 ELSE @,
                         !.moved = FALSE, !.track_change = FALSE]

\* A new slot or a report ends what one finger did.
Completed(t, e) ==
    IF e.type \notin {"slot", "report"} \/ t.slot \notin Fingers
      THEN t
    ELSE IF ~t.track_change /\ ~t.moved
      THEN [t EXCEPT !.moved = FALSE, !.track_change = FALSE]
    ELSE LET r == gesture_handler(t.gesture, t.slot, t.xy[t.slot], Push(t))
         IN  [t EXCEPT !.gesture = r.state, !.goSilent = r.tracking > 0,
                       !.moved = FALSE, !.track_change = FALSE]

\* The states handle_gestures may leave; the guest is told of the event if it
\* leaves silence off.
handle_gestures(t, e) ==
    IF e.type = "dropped" THEN {[t EXCEPT !.moved = FALSE, !.track_change = FALSE]}
    ELSE {CASE e.type = "slot" -> [c EXCEPT !.slot = e.value]
            [] e.type = "report" -> [c EXCEPT !.silence = c.goSilent]
            [] OTHER -> c : c \in {Completed(u, e) : u \in Changed(t, e)}}

-----------------------------------------------------------------------------
(* handle_usb_tablet_event.                                                *)

\* Mutant: a touch of the pen presses the left button as a finger does.
AnyTouchPresses(s, e) ==
    CASE e.type \in {"pen", "rubber"} ->
           [s EXCEPT !.tool = IF e.value THEN e.type ELSE @, !.pen_inrange = e.value]
      [] e.type = "finger" -> [s EXCEPT !.tool = IF e.value THEN "finger" ELSE @]
      [] e.type = "touch" /\ e.value /\ s.btnleft = "up" -> [s EXCEPT !.btnleft = "newlypressed"]
      [] e.type = "touch" /\ s.tool = "finger" /\ ~e.value -> [s EXCEPT !.btnleft = "up"]
      [] OTHER -> s

\* What the event does to btnleft, tool and pen_inrange.
Switched(s, e) ==
    CASE e.type \in {"pen", "rubber"} ->
           [s EXCEPT !.tool = IF e.value THEN e.type ELSE @, !.pen_inrange = e.value]
      [] e.type = "finger" -> [s EXCEPT !.tool = IF e.value THEN "finger" ELSE @]
      [] e.type = "touch" /\ s.tool = "finger" /\ e.value /\ s.btnleft = "up"
         /\ ~s.pen_inrange -> [s EXCEPT !.btnleft = "newlypressed"]
      [] e.type = "touch" /\ s.tool = "finger" /\ ~e.value -> [s EXCEPT !.btnleft = "up"]
      [] OTHER -> s

\* A touch that is passed on as the left button: the release of a finger, and
\* both changes of a pen.  That of the rubber is the right one.
IsLeft(s, e) ==
    /\ e.type = "touch"
    /\ \/ s.tool = "pen"
       \/ s.tool = "finger" /\ ~e.value /\ s.btnleft # "up"

\* The pen of a monotouch tablet keeps every EV_ABS event away: slots, contacts
\* and places, those of the pen too.
PenHides(e) == e.type \in {"slot", "track", "position"} /\ tscale.pen_inrange /\ MONOTOUCH

Drawing(s) == \E g \in ToSet(glist(s)) : UnderWay(s, g)

handle_usb_tablet_event(e) ==
    IF PenHides(e) THEN UNCHANGED <<tscale, touches, guest>>
    ELSE LET s == Switched(tscale, e)
         IN  \/ \* the left button follows the report of its packet
                /\ e.type = "report" /\ s.btnleft = "newlypressed"
                /\ tscale' = [s EXCEPT !.btnleft = "down"]
                /\ guest' = [guest EXCEPT !.left = TRUE, !.lost = FALSE]
                /\ UNCHANGED touches
             \/ \* the rest of a dropped packet
                /\ e.type \notin {"report", "dropped"} /\ s.ignore
                /\ tscale' = s
                /\ guest' = [guest EXCEPT !.lost = @ \/ (IsLeft(tscale, e) /\ ~e.value)]
                /\ UNCHANGED touches
             \/ /\ ~(e.type = "report" /\ s.btnleft = "newlypressed")
                /\ ~(e.type \notin {"report", "dropped"} /\ s.ignore)
                /\ tscale' = [s EXCEPT !.ignore =
                                 e.type = "dropped" \/ (@ /\ e.type # "report")]
                /\ \E h \in handle_gestures(touches, e) :
                     LET left == IsLeft(tscale, e)
                         passes == e.type = "dropped" \/ ~h.silence
                     IN  /\ touches' = h
                         /\ guest' = [guest EXCEPT
                              !.left = IF left /\ passes THEN e.value ELSE @,
                              !.lost = @ \/ (left /\ ~e.value /\ ~passes),
                              !.drawing = IF e.type = "report" THEN Drawing(h.gesture) ELSE @]

-----------------------------------------------------------------------------
(* The device.  It names a slot only when another becomes current, and may *)
(* start in any: the daemon learns of it with the first change.            *)

Device == [slot : Slots, down : [Slots -> BOOLEAN], touch : BOOLEAN,
           finger : BOOLEAN, pen : BOOLEAN, rubber : BOOLEAN]

Reports(d) ==
    {<<[type |-> "slot", value |-> k], [d EXCEPT !.slot = k]>> : k \in Slots \ {d.slot}}
    \cup {<<[type |-> "track", value |-> ~d.down[d.slot]],
            [d EXCEPT !.down[d.slot] = ~@]>>}
    \cup {<<[type |-> "position", value |-> p], d>> : p \in Points}
    \cup {<<[type |-> "touch", value |-> ~d.touch], [d EXCEPT !.touch = ~@]>>}
    \cup {<<[type |-> "report"], d>>, <<[type |-> "dropped"], d>>}
    \cup (IF d.touch THEN {}
          ELSE {<<[type |-> "finger", value |-> ~d.finger], [d EXCEPT !.finger = ~@]>>}
               \cup (IF d.rubber THEN {}
                     ELSE {<<[type |-> "pen", value |-> ~d.pen], [d EXCEPT !.pen = ~@]>>})
               \cup (IF d.pen THEN {}
                     ELSE {<<[type |-> "rubber", value |-> ~d.rubber],
                             [d EXCEPT !.rubber = ~@]>>}))

tablet_event ==
    \E r \in Reports(device) :
      /\ device' = r[2]
      /\ handle_usb_tablet_event(r[1])

TabletInit ==
    /\ tscale = [btnleft |-> "up", tool |-> "none", pen_inrange |-> FALSE, ignore |-> FALSE]
    /\ \E past \in {"end", "twodrag"} :
         touches = [slot |-> NoSlot, trackID |-> [f \in Fingers |-> FALSE],
                    xy |-> [f \in Fingers |-> NoPoint], moved |-> FALSE,
                    track_change |-> FALSE, goSilent |-> FALSE, silence |-> FALSE,
                    gesture |-> eStartup(past)]
    /\ \E k \in Slots :
         device = [slot |-> k, down |-> [j \in Slots |-> FALSE], touch |-> FALSE,
                   finger |-> FALSE, pen |-> FALSE, rubber |-> FALSE]
    /\ guest = [left |-> FALSE, lost |-> FALSE, drawing |-> FALSE]

TabletNext == tablet_event

TabletSpec == TabletInit /\ [][TabletNext]_tablet_vars

-----------------------------------------------------------------------------
(* Properties.                                                             *)

\* The variables have their types, and each gesture is in a list of its own.
TabletTypeOK ==
    /\ tscale \in Tscale /\ device \in Device
    /\ touches.slot \in Slots \cup {NoSlot}
    /\ guest \in Guest
    /\ \A s \in {touches.gesture, gesturing} : \A g \in ToSet(glist(s)) :
           s.act[g] < Len(actionlist(g))

\* What the daemon keeps from the guest is kept for a gesture: goSilent says whether
\* one is under way, and from one report to the next the guest meets silence exactly
\* if one was under way at the first (handle_gestures).
SilentForAGesture ==
    /\ touches.goSilent <=> Drawing(touches.gesture)
    /\ touches.silence <=> guest.drawing

\* The button the daemon takes for pressed is pressed in the guest as well, and
\* one that it takes for released is pressed there only if the release was kept
\* from the guest (btnleft, BTN_TOUCH).
LeftFollowsTouch ==
    /\ tscale.btnleft = "down" => guest.left
    /\ guest.left /\ ~guest.lost /\ tscale.tool = "finger" => tscale.btnleft = "down"
=============================================================================
