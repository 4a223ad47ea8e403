------------------------------- MODULE Gesture -------------------------------
(***************************************************************************)
(* The gestures of a touch screen (gesture.c): three two-finger drags      *)
(* that switch the VM and two crosses, drawn with one finger, that make    *)
(* the daemon stand back.  Each gesture keeps how far it has been matched; *)
(* a change of contact either advances a gesture or puts it back, and a    *)
(* movement in the wrong direction puts it back.  The fingers that the     *)
(* tables name, and the time limits, are not looked at by the code.        *)
(***************************************************************************)
EXTENDS Integers, SequencesExt

CONSTANTS
    SCREEN,       \* SCREEN_X and SCREEN_Y
    MIN_DIST,     \* a movement below this is none
    Fingers       \* the slots of the touch screen that are looked at

ASSUME GestureAssumption ==
    SCREEN \in Nat /\ MIN_DIST \in Nat /\ Fingers \subseteq Nat

(* position_match: where a point <<x, y>> lies.                            *)
Middle(c) == c < SCREEN \div 2 + SCREEN \div 5 /\ c > SCREEN \div 2 - SCREEN \div 5
AtLeft(p) == p[1] < SCREEN \div 4
AtRight(p) == p[1] > (3 * SCREEN) \div 4
AtTop(p) == p[2] < SCREEN \div 3
AtBottom(p) == p[2] > (2 * SCREEN) \div 3

position_match(a, p) ==
    \/ a = "Left" /\ AtLeft(p) /\ Middle(p[2])
    \/ a = "Right" /\ AtRight(p) /\ Middle(p[2])
    \/ a = "Top" /\ AtTop(p) /\ Middle(p[1])
    \/ a = "Bottom" /\ AtBottom(p) /\ Middle(p[1])
    \/ a = "TopLeft" /\ AtTop(p) /\ AtLeft(p)
    \/ a = "TopRight" /\ AtTop(p) /\ AtRight(p)
    \/ a = "BottomLeft" /\ AtBottom(p) /\ AtLeft(p)
    \/ a = "BottomRight" /\ AtBottom(p) /\ AtRight(p)

(* The tables.  p1 is where the contacts of a drag are, p2 where its        *)
(* releases are, m1 how the fingers move between them.                      *)
eContact == [action |-> "contact", pos |-> "p1", pmove |-> "any"]
eRelease == [action |-> "release", pos |-> "p2", pmove |-> "m1"]
eEnd == [action |-> "end", pos |-> "none", pmove |-> "any"]

twodrag_actions == <<eContact, eContact, eRelease, eRelease, eEnd>>

\* singledrag_actions has no end of its own: what follows it in memory is the
\* zeroes that read as one, or the next table of the file.
singledrag_actions(past) ==
    <<eContact, eRelease>> \o (IF past = "end" THEN <<eEnd>> ELSE twodrag_actions)

Drag(fingers, p1, p2, m1) == [fingers |-> fingers, p1 |-> p1, p2 |-> p2, m1 |-> m1]
FallingDrag == Drag(1, "TopLeft", "BottomRight", "RightDown")
RisingDrag == Drag(1, "TopRight", "BottomLeft", "LeftDown")

actionlist(g) ==
    CASE g = "GoLeft" -> <<Drag(2, "Right", "Left", "left")>>
      [] g = "GoRight" -> <<Drag(2, "Left", "Right", "right")>>
      [] g = "GoUp" -> <<Drag(2, "Bottom", "Top", "up")>>
      [] g = "CrossL" -> <<FallingDrag, RisingDrag>>
      [] g = "CrossR" -> <<RisingDrag, FallingDrag>>

gestures == <<"GoLeft", "GoRight", "GoUp", "CrossL", "CrossR">>
standback_gestures == <<"CrossL", "CrossR">>
Gestures == ToSet(gestures)

RunStates == {"Startup", "Running", "StandBack"}

\* act and sub_act count the drags of a gesture, and the steps of the drag, that
\* have been matched.
GestureState ==
    [runstate : RunStates, act : [Gestures -> Nat], sub_act : [Gestures -> Nat],
     last : [Fingers -> Int \X Int], past : {"end", "twodrag"}]

glist(s) == IF s.runstate = "StandBack" THEN standback_gestures ELSE gestures

-----------------------------------------------------------------------------
(* Matching.  The outcome of one gesture: the new state, whether it was     *)
(* recognised, and whether it is under way (it adds to tracking).           *)

actions(s, drag) ==
    IF drag.fingers = 2 THEN twodrag_actions ELSE singledrag_actions(s.past)

current_list(s, g) == actionlist(g)[s.act[g] + 1]
current(s, g) == actions(s, current_list(s, g))[s.sub_act[g] + 1]

Progress(s, g, act, sub_act) ==
    [s EXCEPT !.act = [@ EXCEPT ![g] = act], !.sub_act = [@ EXCEPT ![g] = sub_act]]

UnderWay(s, g) == s.sub_act[g] > 1 \/ s.act[g] > 0

Undone(s, g) == [state |-> s, found |-> FALSE, tracked |-> UnderWay(s, g)]

\* Mutant: a failure leaves the gesture where it was.
FailStays(s, g) == Undone(s, g)

\* What does not fit puts the gesture back.
Failed(s, g) == Undone(Progress(s, g, 0, 0), g)

\* A list is through: the next one of the gesture begins, or it is recognised.
ListEnds(s, g) ==
    IF s.act[g] + 1 < Len(actionlist(g))
    THEN Undone(Progress(s, g, s.act[g] + 1, 0), g)
    ELSE [state |-> Progress(s, g, 0, 0), found |-> TRUE, tracked |-> FALSE]

\* A finger came down or went up.
gesture_match(s, g, finger, p, push) ==
    LET list == current_list(s, g)
        step == current(s, g)
        success == /\ step.action = (IF push THEN "contact" ELSE "release")
                   /\ position_match(IF step.pos = "p1" THEN list.p1 ELSE list.p2, p)
        next == s.sub_act[g] + 1
        ends == actions(s, list)[next + 1] = eEnd
        seen == [s EXCEPT !.last = [@ EXCEPT ![finger] = p]]
    IN  IF ~success THEN Failed(s, g)
        ELSE IF ~ends THEN Undone(Progress(seen, g, s.act[g], next), g)
        ELSE ListEnds(seen, g)

Size(d) == IF d < 0 THEN -d ELSE d

WrongWay(m, dx, dy) ==
    \/ m = "left" /\ (dx > 0 \/ -dx < Size(dy))
    \/ m = "right" /\ (dx < 0 \/ dx < Size(dy))
    \/ m = "up" /\ (dy > 0 \/ -dy < Size(dx))
    \/ m = "LeftDown" /\ (dx > 0 \/ dy < 0)
    \/ m = "RightDown" /\ (dx < 0 \/ dy < 0)

\* A finger moved.  The first gesture that looks at the movement takes it: the
\* place it stores is the one the next gestures measure from.
gesture_match_move(s, g, finger, p) ==
    LET dx == p[1] - s.last[finger][1]
        dy == p[2] - s.last[finger][2]
        idle == s.act[g] = 0 /\ s.sub_act[g] = 0
        unchecked == (Size(dx) < MIN_DIST /\ Size(dy) < MIN_DIST)
                     \/ current(s, g).pmove = "any"
    IN  IF idle \/ unchecked THEN Undone(s, g)
        ELSE IF WrongWay(current_list(s, g).m1, dx, dy) THEN Failed(s, g)
        ELSE Undone([s EXCEPT !.last = [@ EXCEPT ![finger] = p]], g)

gestures_clean(s) ==
    [s EXCEPT !.act = [g \in Gestures |-> 0], !.sub_act = [g \in Gestures |-> 0]]

standback(s) ==
    [s EXCEPT !.runstate = CASE @ = "Running" -> "StandBack"
                             [] @ = "StandBack" -> "Running"
                             [] OTHER -> @]

\* One gesture is tried, unless another has been recognised already.
Tried(r, g, finger, p, push) ==
    IF r.call # "none" THEN r
    ELSE LET m == IF push = "moved" THEN gesture_match_move(r.state, g, finger, p)
                  ELSE gesture_match(r.state, g, finger, p, push = "down")
         IN  [state |-> m.state, call |-> IF m.found THEN g ELSE "none",
              tracking |-> r.tracking + (IF m.tracked THEN 1 ELSE 0)]

Started(s) ==
    IF s.runstate = "Startup" THEN [gestures_clean(s) EXCEPT !.runstate = "Running"]
    ELSE s

\* gesture_handler: every gesture is tried until one is recognised.  push is
\* "moved" when no finger came down or went up.  It returns the new state, the
\* number of gestures under way and the gesture that was recognised, if any.
gesture_handler(s, finger, p, push) ==
    LET list == glist(Started(s))
        tried[k \in 0..Len(list)] ==
          IF k = 0 THEN [state |-> Started(s), call |-> "none", tracking |-> 0]
          ELSE Tried(tried[k - 1], list[k], finger, p, push)
        last == tried[Len(list)]
    IN  IF last.call = "none" THEN last
        ELSE [last EXCEPT !.tracking = 0,
                          !.state = gestures_clean(IF last.call \in {"CrossL", "CrossR"}
                                                     THEN standback(last.state)
                                                     ELSE last.state)]

eStartup(past) ==
    [runstate |-> "Startup", act |-> [g \in Gestures |-> 0],
     sub_act |-> [g \in Gestures |-> 0], last |-> [f \in Fingers |-> <<0, 0>>],
     past |-> past]

-----------------------------------------------------------------------------
(* The gestures on their own: a finger comes down, goes up or moves.       *)

CONSTANT GesturePoints       \* places a finger is reported at

ASSUME GesturePointsAssumption == GesturePoints \subseteq Int \X Int

VARIABLES
    gesturing,     \* the gestures
    drawn          \* history: the last four contacts that changed, and what
                   \* they were recognised as

gesture_vars == <<gesturing, drawn>>

Latest(seq) == SubSeq(seq, IF Len(seq) > 4 THEN Len(seq) - 3 ELSE 1, Len(seq))

gesture_event(finger, p, push) ==
    LET r == gesture_handler(gesturing, finger, p, push)
    IN  /\ gesturing' = r.state
        /\ drawn' = [contacts |-> IF push = "moved" THEN drawn.contacts
                                  ELSE Latest(Append(drawn.contacts, <<p, push>>)),
                     as |-> r.call]

GestureInit ==
    /\ \E past \in {"end", "twodrag"} : gesturing = eStartup(past)
    /\ drawn = [contacts |-> <<>>, as |-> "none"]

GestureNext ==
    \E finger \in Fingers, p \in GesturePoints, push \in {"down", "up", "moved"} :
      gesture_event(finger, p, push)

GestureSpec == GestureInit /\ [][GestureNext]_gesture_vars

\* Contact i was a finger coming down (or going up) at a place.
Was(i, push, place) ==
    drawn.contacts[i][2] = push /\ position_match(place, drawn.contacts[i][1])

\* A gesture that switches the VM was drawn: two contacts on one side of the
\* screen, then two releases on the other (twodrag_actions).
SwitchWasDrawn ==
    drawn.as \in {"GoLeft", "GoRight", "GoUp"} =>
      LET drag == actionlist(drawn.as)[1]
      IN  /\ Len(drawn.contacts) = 4
          /\ \A i \in 1..2 : Was(i, "down", drag.p1)
          /\ \A i \in 3..4 : Was(i, "up", drag.p2)

\* The daemon stands back, or forward again, only after a cross: two strokes from
\* corner to corner, one each way, where the table ends as it should.
CrossWasDrawn ==
    drawn.as \in {"CrossL", "CrossR"} /\ gesturing.past = "end" =>
      LET list == actionlist(drawn.as)
      IN  /\ Len(drawn.contacts) = 4
          /\ \A i \in 1..2 : /\ Was(2 * i - 1, "down", list[i].p1)
                             /\ Was(2 * i, "up", list[i].p2)

\* What is recognised was drawn, in all its strokes and by nothing else.
GestureWasDrawn == SwitchWasDrawn /\ CrossWasDrawn
=============================================================================
