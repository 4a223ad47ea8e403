------------------------- MODULE UsbTablet_proofs -------------------------
(***************************************************************************)
(* Theorems about UsbTablet and Gesture: the left button of the guest, the *)
(* silence during a gesture, and what a recognised gesture was drawn with. *)
(***************************************************************************)
EXTENDS UsbTablet, SequenceTheorems, WellFoundedInduction, TLAPS

-----------------------------------------------------------------------------
(* The left button.                                                        *)

\* A button that is pressed, or is about to be, has a finger on the screen:
\* the device changes its tool only while nothing touches.
PressTouches == tscale.btnleft # "up" => device.touch /\ tscale.tool = "finger"

\* A press in the guest that nobody has lost the release of is the daemon's, or
\* that of a pen on the screen.
LeftExplained ==
    guest.left /\ ~guest.lost =>
        \/ tscale.tool = "finger" /\ tscale.btnleft = "down"
        \/ tscale.tool = "pen" /\ device.touch

\* The inductive invariant of the button.
LeftInv ==
    /\ tscale \in Tscale /\ device \in Device /\ guest \in Guest
    /\ PressTouches /\ LeftExplained
    /\ tscale.btnleft = "down" => guest.left

\* What the device reports, and does with it.
LEMMA ReportCases ==
  ASSUME NEW d \in Device, NEW r \in Reports(d)
  PROVE  /\ r[2] \in Device
         /\ r[1].type \in {"slot", "track", "position", "touch", "report", "dropped",
                           "finger", "pen", "rubber"}
         /\ r[1].type = "touch" => r[1].value = ~d.touch /\ r[2].touch = ~d.touch
         /\ r[1].type # "touch" => r[2].touch = d.touch
         /\ r[1].type \in {"finger", "pen", "rubber"} => r[1].value \in BOOLEAN /\ ~d.touch
<1> USE DEF Device
<1>0. d.down[d.slot] \in BOOLEAN /\ d.slot \in Slots
  OBVIOUS
<1>1. CASE \E k \in Slots \ {d.slot} :
             r = <<[type |-> "slot", value |-> k], [d EXCEPT !.slot = k]>>
  BY <1>1
<1>2. CASE r = <<[type |-> "track", value |-> ~d.down[d.slot]],
                 [d EXCEPT !.down[d.slot] = ~@]>>
  <2> DEFINE downs == [d.down EXCEPT ![d.slot] = ~@]
  <2>1. downs \in [Slots -> BOOLEAN]
    BY <1>0
  <2>2. r = <<[type |-> "track", value |-> ~d.down[d.slot]], [d EXCEPT !.down = downs]>>
    BY <1>2
  <2> HIDE DEF downs
  <2> QED
    BY <2>1, <2>2
<1>3. CASE \E p \in Points : r = <<[type |-> "position", value |-> p], d>>
  BY <1>3
<1>4. CASE r = <<[type |-> "touch", value |-> ~d.touch], [d EXCEPT !.touch = ~@]>>
  BY <1>4
<1>5. CASE r \in {<<[type |-> "report"], d>>, <<[type |-> "dropped"], d>>}
  BY <1>5
<1>6. CASE /\ ~d.touch
           /\ r = <<[type |-> "finger", value |-> ~d.finger], [d EXCEPT !.finger = ~@]>>
  BY <1>6
<1>7. CASE /\ ~d.touch
           /\ r = <<[type |-> "pen", value |-> ~d.pen], [d EXCEPT !.pen = ~@]>>
  BY <1>7
<1>8. CASE /\ ~d.touch
           /\ r = <<[type |-> "rubber", value |-> ~d.rubber], [d EXCEPT !.rubber = ~@]>>
  BY <1>8
<1> QED
  BY <1>1, <1>2, <1>3, <1>4, <1>5, <1>6, <1>7, <1>8 DEF Reports

\* What an event does to btnleft and tool.
LEMMA SwitchedFields ==
  ASSUME NEW s \in Tscale, NEW e,
         e.type \in {"finger", "pen", "rubber"} => e.value \in BOOLEAN,
         e.type = "touch" => e.value \in BOOLEAN,
         NEW t, t = Switched(s, e)
  PROVE  /\ t \in Tscale /\ t.ignore = s.ignore
         /\ e.type \in {"finger", "pen", "rubber"} =>
              t.btnleft = s.btnleft /\ t.tool = (IF e.value THEN e.type ELSE s.tool)
         /\ e.type = "touch" =>
              /\ t.tool = s.tool
              /\ s.tool = "finger" /\ ~e.value => t.btnleft = "up"
              /\ e.value \/ s.tool # "finger" =>
                   \/ t.btnleft = s.btnleft
                   \/ /\ s.btnleft = "up" /\ t.btnleft = "newlypressed"
                      /\ s.tool = "finger" /\ e.value
         /\ e.type \notin {"finger", "pen", "rubber", "touch"} => t = s
<1> USE DEF Tscale, Tools
<1>1. CASE e.type \in {"pen", "rubber"}
  <2>1. PICK tool \in Tools : tool = (IF e.value THEN e.type ELSE s.tool)
    BY <1>1
  <2>2. t = [s EXCEPT !.tool = tool, !.pen_inrange = e.value]
    BY <1>1, <2>1 DEF Switched
  <2> QED
    BY <1>1, <2>1, <2>2
<1>2. CASE e.type = "finger"
  <2>1. PICK tool \in Tools : tool = (IF e.value THEN "finger" ELSE s.tool)
    OBVIOUS
  <2>2. t = [s EXCEPT !.tool = tool]
    BY <1>2, <2>1 DEF Switched
  <2> QED
    BY <1>2, <2>1, <2>2
<1>3. CASE e.type = "touch" /\ s.tool = "finger" /\ e.value /\ s.btnleft = "up"
           /\ ~s.pen_inrange
  BY <1>3 DEF Switched
<1>4. CASE e.type = "touch" /\ s.tool = "finger" /\ ~e.value
  BY <1>4 DEF Switched
<1>5. CASE /\ e.type \notin {"finger", "pen", "rubber"}
           /\ ~(e.type = "touch" /\ s.tool = "finger" /\ e.value /\ s.btnleft = "up"
                /\ ~s.pen_inrange)
           /\ ~(e.type = "touch" /\ s.tool = "finger" /\ ~e.value)
  <2>1. t = s
    BY <1>5 DEF Switched
  <2> QED
    BY <1>5, <2>1
<1> QED
  BY <1>1, <1>2, <1>3, <1>4, <1>5

LEMMA LeftKept ==
  ASSUME LeftInv, tablet_event
  PROVE  LeftInv'
<1>1. PICK r \in Reports(device) : device' = r[2] /\ handle_usb_tablet_event(r[1])
  BY DEF tablet_event
<1> DEFINE e == r[1]
           s == Switched(tscale, e)
           left == IsLeft(tscale, e)
<1>2. tscale \in Tscale /\ device \in Device /\ guest \in Guest
  BY DEF LeftInv
<1>3. /\ device' \in Device
      /\ e.type = "touch" => e.value = ~device.touch /\ device'.touch = ~device.touch
      /\ e.type # "touch" => device'.touch = device.touch
      /\ e.type \in {"finger", "pen", "rubber"} => e.value \in BOOLEAN /\ ~device.touch
  BY <1>1, <1>2, ReportCases
<1>4. handle_usb_tablet_event(e)
  BY <1>1
<1>5. /\ s \in Tscale /\ s.ignore = tscale.ignore
      /\ e.type \in {"finger", "pen", "rubber"} =>
           s.btnleft = tscale.btnleft /\ s.tool = (IF e.value THEN e.type ELSE tscale.tool)
      /\ e.type = "touch" =>
           /\ s.tool = tscale.tool
           /\ tscale.tool = "finger" /\ ~e.value => s.btnleft = "up"
           /\ e.value \/ tscale.tool # "finger" =>
                \/ s.btnleft = tscale.btnleft
                \/ /\ tscale.btnleft = "up" /\ s.btnleft = "newlypressed"
                   /\ tscale.tool = "finger" /\ e.value
      /\ e.type \notin {"finger", "pen", "rubber", "touch"} => s = tscale
  <2>1. device.touch \in BOOLEAN
    BY <1>2 DEF Device
  <2>2. PICK t, v : t = s /\ v = tscale /\ v \in Tscale
    BY <1>2
  <2>3. PICK f : f = e
    OBVIOUS
  <2>4. /\ f.type \in {"finger", "pen", "rubber"} => f.value \in BOOLEAN
        /\ f.type = "touch" => f.value \in BOOLEAN
        /\ t = Switched(v, f)
    BY <1>3, <2>1, <2>2, <2>3
  <2> HIDE DEF s, e
  <2> QED
    BY <2>2, <2>3, <2>4, SwitchedFields
\* The tool is a finger as long as the button is not up, and the pen's touch ends
\* before another tool comes.
<1>6. s.btnleft # "up" => device'.touch /\ s.tool = "finger"
  <2> HIDE DEF s, e
  <2> QED
    BY <1>2, <1>3, <1>5 DEF LeftInv, PressTouches, Device
<1>7. left <=> /\ e.type = "touch"
               /\ \/ tscale.tool = "pen"
                  \/ tscale.tool = "finger" /\ ~e.value /\ tscale.btnleft # "up"
  BY DEF IsLeft
<1> HIDE DEF s, e, left
<1>8. ASSUME tscale' = [s EXCEPT !.btnleft = "down"],
             guest' = [guest EXCEPT !.left = TRUE, !.lost = FALSE],
             e.type = "report", s.btnleft = "newlypressed"
      PROVE  LeftInv'
  <2>1. /\ tscale' \in Tscale /\ tscale'.btnleft = "down" /\ tscale'.tool = s.tool
        /\ guest' \in Guest /\ guest'.left
    BY <1>2, <1>5, <1>8 DEF Tscale, Guest
  <2> QED
    BY <1>3, <1>6, <1>8, <2>1 DEF LeftInv, PressTouches, LeftExplained
\* The guest's button and whether its release was lost, when the event is not the
\* report that presses it.
<1>9. ASSUME NEW passes \in BOOLEAN,
             tscale' \in Tscale, tscale'.btnleft = s.btnleft, tscale'.tool = s.tool,
             guest' \in Guest,
             guest'.left <=> IF left /\ passes THEN e.value ELSE guest.left,
             guest'.lost <=> guest.lost \/ (left /\ ~e.value /\ ~passes)
      PROVE  LeftInv'
  <2>1. LeftExplained'
    <3>1. CASE e.type = "touch"
      BY <1>2, <1>3, <1>5, <1>7, <1>9, <3>1
      DEF LeftInv, LeftExplained, PressTouches, Device, Tscale, Guest
    <3>2. CASE e.type # "touch"
      BY <1>2, <1>3, <1>5, <1>7, <1>9, <3>2
      DEF LeftInv, LeftExplained, PressTouches, Device, Tscale, Guest
    <3> QED
      BY <3>1, <3>2
  <2>2. tscale'.btnleft = "down" => guest'.left
    BY <1>2, <1>3, <1>5, <1>7, <1>9 DEF LeftInv, PressTouches, Tscale
  <2> QED
    BY <1>3, <1>6, <1>9, <2>1, <2>2 DEF LeftInv, PressTouches
<1>10. CASE PenHides(e)
  <2>1. e.type # "touch" /\ tscale' = tscale /\ guest' = guest
    BY <1>4, <1>10 DEF PenHides, handle_usb_tablet_event
  <2> QED
    BY <1>2, <1>3, <2>1 DEF LeftInv, PressTouches, LeftExplained
<1>11. CASE ~PenHides(e)
  <2>1. CASE /\ e.type = "report" /\ s.btnleft = "newlypressed"
             /\ tscale' = [s EXCEPT !.btnleft = "down"]
             /\ guest' = [guest EXCEPT !.left = TRUE, !.lost = FALSE]
    BY <1>8, <2>1
  <2>2. CASE /\ tscale' = s
             /\ guest' = [guest EXCEPT !.lost = @ \/ (left /\ ~e.value)]
    <3>1. PICK lost \in BOOLEAN : lost = (guest.lost \/ (left /\ ~e.value))
      OBVIOUS
    <3>2. guest' = [guest EXCEPT !.lost = lost]
      BY <2>2, <3>1
    <3>3. guest' \in Guest /\ guest'.left = guest.left /\ guest'.lost = lost
      BY <1>2, <3>2 DEF Guest
    <3> QED
      BY <1>5, <1>9, <2>2, <3>1, <3>3
  <2>3. CASE \E h \in handle_gestures(touches, e) :
               LET passes == e.type = "dropped" \/ ~h.silence
               IN  /\ tscale' = [s EXCEPT !.ignore =
                                   e.type = "dropped" \/ (@ /\ e.type # "report")]
                   /\ guest' = [guest EXCEPT
                        !.left = IF left /\ passes THEN e.value ELSE @,
                        !.lost = @ \/ (left /\ ~e.value /\ ~passes),
                        !.drawing = IF e.type = "report" THEN Drawing(h.gesture) ELSE @]
    <3>1. PICK h \in handle_gestures(touches, e) :
            LET passes == e.type = "dropped" \/ ~h.silence
            IN  /\ tscale' = [s EXCEPT !.ignore =
                                e.type = "dropped" \/ (@ /\ e.type # "report")]
                /\ guest' = [guest EXCEPT
                     !.left = IF left /\ passes THEN e.value ELSE @,
                     !.lost = @ \/ (left /\ ~e.value /\ ~passes),
                     !.drawing = IF e.type = "report" THEN Drawing(h.gesture) ELSE @]
      BY <2>3
    <3>2. PICK passes \in BOOLEAN : passes = (e.type = "dropped" \/ ~h.silence)
      OBVIOUS
    <3>3. PICK ignore \in BOOLEAN :
             ignore = (e.type = "dropped" \/ (s.ignore /\ e.type # "report"))
      OBVIOUS
    <3>4. PICK lost \in BOOLEAN :
             lost = (guest.lost \/ (left /\ ~e.value /\ ~passes))
      OBVIOUS
    <3>5. PICK l \in BOOLEAN : l = (IF left /\ passes THEN e.value ELSE guest.left)
      BY <1>2, <1>3, <1>7 DEF Guest, Device
    <3>d. PICK drawing \in BOOLEAN :
             drawing = (IF e.type = "report" THEN Drawing(h.gesture) ELSE guest.drawing)
      BY <1>2 DEF Guest, Drawing
    <3>6. /\ tscale' = [s EXCEPT !.ignore = ignore]
          /\ guest' = [guest EXCEPT !.left = l, !.lost = lost, !.drawing = drawing]
      BY <3>1, <3>2, <3>3, <3>4, <3>5, <3>d
    <3>7. /\ tscale' \in Tscale /\ tscale'.btnleft = s.btnleft /\ tscale'.tool = s.tool
          /\ guest' \in Guest /\ guest'.left = l /\ guest'.lost = lost
      BY <1>2, <1>5, <3>6 DEF Tscale, Guest
    <3> QED
      BY <1>9, <3>4, <3>5, <3>7
  <2> QED
    BY <1>4, <1>11, <2>1, <2>2, <2>3 DEF handle_usb_tablet_event, s, left
<1> QED
  BY <1>10, <1>11

LEMMA LeftAlways == TabletSpec => []LeftInv
<1>1. TabletInit => LeftInv
  BY DEF TabletInit, LeftInv, PressTouches, LeftExplained, Tscale, Tools, Device, Guest
<1>2. LeftInv /\ [TabletNext]_tablet_vars => LeftInv'
  <2>1. ASSUME LeftInv, UNCHANGED tablet_vars
        PROVE  LeftInv'
    BY <2>1 DEF tablet_vars, LeftInv, PressTouches, LeftExplained
  <2> QED
    BY <2>1, LeftKept DEF TabletNext
<1> QED
  BY <1>1, <1>2, PTL DEF TabletSpec

\* The button that the daemon takes for pressed is pressed in the guest, and the
\* guest holds it with a finger only while the daemon does, unless the release was
\* kept from it: for every order in which a tablet reports its pen, its finger,
\* its touches and what it dropped (btnleft, tool, ignore_events).
THEOREM LeftFollows == TabletSpec => []LeftFollowsTouch
<1>1. LeftInv => LeftFollowsTouch
  BY DEF LeftInv, LeftExplained, LeftFollowsTouch
<1> QED
  BY <1>1, LeftAlways, PTL

-----------------------------------------------------------------------------
(* Numbers.                                                                *)

Lt == {ss \in Nat \X Nat : ss[1] < ss[2]}

\* A set of numbers that is not empty has a least one.
LEMMA Least ==
  ASSUME NEW S \in SUBSET Nat, S # {}
  PROVE  \E n \in S : \A k \in S : n <= k
<1>1. IsWellFoundedOn(Lt, Nat)
  BY NatLessThanWellFounded, Zenon DEF OpToRel, Lt
<1>2. \E n \in S : \A k \in S : ~ (<<k, n>> \in Lt)
  BY <1>1, WFMin
<1>3. ASSUME NEW a \in Nat, NEW b \in Nat, ~ (<<a, b>> \in Lt)
      PROVE  b <= a
  <2>1. a < b => <<a, b>> \in Lt
    <3>1. <<a, b>> \in Nat \X Nat /\ <<a, b>>[1] = a /\ <<a, b>>[2] = b
      OBVIOUS
    <3> QED
      BY <3>1, Zenon DEF Lt
  <2> QED
    BY <1>3, <2>1
<1> QED
  BY <1>2, <1>3

-----------------------------------------------------------------------------
(* The gestures that are tried, one after the other.                       *)

LEMMA AllGestures == Gestures = {"GoLeft", "GoRight", "GoUp", "CrossL", "CrossR"}
<1>1. DOMAIN gestures = 1..5
  BY DEF gestures
<1>2. \A i \in 1..5 : i = 1 \/ i = 2 \/ i = 3 \/ i = 4 \/ i = 5
  OBVIOUS
<1>3. /\ gestures[1] = "GoLeft" /\ gestures[2] = "GoRight" /\ gestures[3] = "GoUp"
      /\ gestures[4] = "CrossL" /\ gestures[5] = "CrossR"
  BY DEF gestures
<1> QED
  BY <1>1, <1>2, <1>3 DEF Gestures, ToSet

\* The list of a state names gestures, and none twice.
LEMMA ListOf ==
  ASSUME NEW s, NEW L, L = glist(s)
  PROVE  /\ Len(L) \in Nat /\ ToSet(L) = {L[i] : i \in 1..Len(L)}
         /\ \A i \in 1..Len(L) : L[i] \in Gestures
         /\ \A i \in 1..Len(L), j \in 1..Len(L) : L[i] = L[j] => i = j
         /\ "CrossL" \in ToSet(L) /\ "CrossR" \in ToSet(L)
<1>1. CASE s.runstate = "StandBack"
  <2>1. L = standback_gestures
    BY <1>1 DEF glist
  <2>2. Len(L) = 2 /\ DOMAIN L = 1..2 /\ L[1] = "CrossL" /\ L[2] = "CrossR"
    BY <2>1 DEF standback_gestures
  <2>3. \A i \in 1..2 : i = 1 \/ i = 2
    OBVIOUS
  <2> QED
    BY <2>2, <2>3, AllGestures DEF ToSet
<1>2. CASE s.runstate # "StandBack"
  <2>1. L = gestures
    BY <1>2 DEF glist
  <2>2. /\ Len(L) = 5 /\ DOMAIN L = 1..5
        /\ L[1] = "GoLeft" /\ L[2] = "GoRight" /\ L[3] = "GoUp"
        /\ L[4] = "CrossL" /\ L[5] = "CrossR"
    BY <2>1 DEF gestures
  <2>3. \A i \in 1..5 : i = 1 \/ i = 2 \/ i = 3 \/ i = 4 \/ i = 5
    OBVIOUS
  <2> QED
    BY <2>2, <2>3, AllGestures DEF ToSet
<1> QED
  BY <1>1, <1>2

\* What is known after some of the gestures have been tried.
Results == [state : GestureState, call : Gestures \cup {"none"}, tracking : Nat]

Begun(s) == [state |-> Started(s), call |-> "none", tracking |-> 0]

\* f holds what is known after each of the first k gestures of L.
Tries(s, L, finger, p, push, k, f) ==
    f = [n \in 0..k |-> IF n = 0 THEN Begun(s) ELSE Tried(f[n - 1], L[n], finger, p, push)]

LEMMA TriesExist ==
  ASSUME NEW s, NEW L, NEW finger, NEW p, NEW push
  PROVE  \A k \in Nat : \E f : Tries(s, L, finger, p, push, k, f)
<1> DEFINE Bad == {k \in Nat : ~ \E f : Tries(s, L, finger, p, push, k, f)}
           Step(n, r) == IF n = 0 THEN Begun(s) ELSE Tried(r, L[n], finger, p, push)
<1> SUFFICES ASSUME Bad # {}
             PROVE  FALSE
  OBVIOUS
<1>1. PICK k \in Bad : \A i \in Bad : k <= i
  <2>1. Bad \in SUBSET Nat
    OBVIOUS
  <2> HIDE DEF Bad
  <2> QED
    BY <2>1, Least
<1>2. k \in Nat /\ ~ \E f : Tries(s, L, finger, p, push, k, f)
  OBVIOUS
<1>3. CASE k = 0
  <2> DEFINE f == [n \in 0..0 |-> Begun(s)]
  <2>1. f = [n \in 0..0 |-> Step(n, f[n - 1])]
    OBVIOUS
  <2>2. Tries(s, L, finger, p, push, k, f)
    BY <1>3, <2>1 DEF Tries
  <2> QED
    BY <1>2, <2>2
<1>4. CASE k # 0
  <2>1. k - 1 \in Nat /\ k - 1 \notin Bad
    BY <1>1, <1>2, <1>4
  <2>2. PICK g : Tries(s, L, finger, p, push, k - 1, g)
    BY <2>1
  <2> DEFINE f == [n \in 0..k |-> IF n = k THEN Step(k, g[k - 1]) ELSE g[n]]
  <2>3. g = [n \in 0..(k - 1) |-> Step(n, g[n - 1])]
    BY <2>2 DEF Tries
  <2> HIDE DEF Step
  <2>4. \A n \in 0..(k - 1) : f[n] = g[n]
    BY <1>2
  <2>5. \A n \in 0..k : f[n] = Step(n, f[n - 1])
    <3> TAKE n \in 0..k
    <3>1. CASE n = k
      <4>1. f[n - 1] = g[k - 1]
        BY <2>1, <2>4, <3>1
      <4> QED
        BY <3>1, <4>1
    <3>2. CASE n # k /\ n # 0
      <4>1. f[n] = g[n] /\ f[n - 1] = g[n - 1]
        BY <1>2, <2>4, <3>2
      <4>2. g[n] = Step(n, g[n - 1])
        BY <1>2, <2>3, <3>2
      <4> QED
        BY <4>1, <4>2
    <3>3. CASE n # k /\ n = 0
      <4>1. f[n] = g[n]
        BY <1>2, <2>4, <3>3
      <4>2. g[n] = Step(n, g[n - 1])
        BY <1>2, <2>3, <3>3
      <4>3. Step(n, g[n - 1]) = Step(n, f[n - 1])
        BY <3>3 DEF Step
      <4> QED
        BY <4>1, <4>2, <4>3
    <3> QED
      BY <3>1, <3>2, <3>3
  <2>6. f = [n \in 0..k |-> f[n]]
    OBVIOUS
  <2> HIDE DEF f
  <2>7. Tries(s, L, finger, p, push, k, f)
    BY <2>5, <2>6 DEF Tries, Step
  <2> QED
    BY <1>2, <2>7
<1> QED
  BY <1>3, <1>4

\* What gesture_handler does when the last gesture has been tried.
Concluded(last) ==
    IF last.call = "none" THEN last
    ELSE [last EXCEPT !.tracking = 0,
                      !.state = gestures_clean(IF last.call \in {"CrossL", "CrossR"}
                                                 THEN standback(last.state)
                                                 ELSE last.state)]

\* If every gesture that is tried takes one of R[k - 1] to one of R[k], the last is
\* one of R[Len(L)].
LEMMA HandlerEnds ==
  ASSUME NEW s, NEW finger, NEW p, NEW push, NEW L, L = glist(Started(s)),
         NEW R, Begun(s) \in R[0],
         \A k \in 1..Len(L) : \A r \in R[k - 1] : Tried(r, L[k], finger, p, push) \in R[k]
  PROVE  \E last \in R[Len(L)] : gesture_handler(s, finger, p, push) = Concluded(last)
<1> DEFINE f == CHOOSE f : Tries(s, L, finger, p, push, Len(L), f)
<1>1. Len(L) \in Nat
  BY ListOf
<1>2. Tries(s, L, finger, p, push, Len(L), f)
  BY <1>1, TriesExist
<1>3. gesture_handler(s, finger, p, push) = Concluded(f[Len(L)])
  BY DEF gesture_handler, Tries, Begun, Concluded
<1> HIDE DEF f
<1>4. \A n \in 0..Len(L) : f[n] = IF n = 0 THEN Begun(s)
                                  ELSE Tried(f[n - 1], L[n], finger, p, push)
  BY <1>2 DEF Tries
<1>5. f[Len(L)] \in R[Len(L)]
  <2> DEFINE Bad == {n \in 0..Len(L) : f[n] \notin R[n]}
  <2> SUFFICES ASSUME Bad # {}
               PROVE  FALSE
    BY <1>1
  <2>1. PICK n \in Bad : \A i \in Bad : n <= i
    <3>1. Bad \in SUBSET Nat
      BY <1>1
    <3> HIDE DEF Bad
    <3> QED
      BY <3>1, Least
  <2>2. n \in 0..Len(L) /\ f[n] \notin R[n]
    OBVIOUS
  <2>3. CASE n = 0
    BY <1>4, <2>2, <2>3
  <2>4. CASE n # 0
    <3>1. n \in 1..Len(L) /\ n - 1 \in 0..Len(L) /\ n - 1 \notin Bad
      BY <1>1, <2>1, <2>2, <2>4
    <3>2. f[n - 1] \in R[n - 1]
      BY <3>1
    <3>3. f[n] = Tried(f[n - 1], L[n], finger, p, push)
      BY <1>4, <2>2, <2>4
    <3> QED
      BY <2>2, <3>1, <3>2, <3>3
  <2> QED
    BY <2>3, <2>4
<1> QED
  BY <1>3, <1>5

-----------------------------------------------------------------------------
(* One gesture that is tried.                                              *)

\* t is s with the counts of the gesture g at a and b.
At(s, g, t, a, b) ==
    /\ t \in GestureState /\ t.runstate = s.runstate /\ t.past = s.past
    /\ t.act[g] = a /\ t.sub_act[g] = b
    /\ \A h \in Gestures \ {g} : t.act[h] = s.act[h] /\ t.sub_act[h] = s.sub_act[h]

LEMMA ProgressAt ==
  ASSUME NEW s \in GestureState, NEW g \in Gestures, NEW a \in Nat, NEW b \in Nat,
         NEW t, t = Progress(s, g, a, b)
  PROVE  At(s, g, t, a, b)
<1>1. PICK act \in [Gestures -> Nat] : act = [s.act EXCEPT ![g] = a]
  BY DEF GestureState
<1>2. PICK sub \in [Gestures -> Nat] : sub = [s.sub_act EXCEPT ![g] = b]
  BY DEF GestureState
<1>3. t = [s EXCEPT !.act = act, !.sub_act = sub]
  BY <1>1, <1>2 DEF Progress
<1>4. /\ t \in GestureState /\ t.runstate = s.runstate /\ t.past = s.past
      /\ t.act = act /\ t.sub_act = sub
  BY <1>3 DEF GestureState
<1> QED
  BY <1>1, <1>2, <1>4 DEF GestureState, At

LEMMA SeenFields ==
  ASSUME NEW s \in GestureState, NEW finger \in Fingers, NEW p \in Int \X Int,
         NEW t, t = [s EXCEPT !.last = [@ EXCEPT ![finger] = p]]
  PROVE  /\ t \in GestureState /\ t.runstate = s.runstate /\ t.past = s.past
         /\ t.act = s.act /\ t.sub_act = s.sub_act
<1>1. PICK last \in [Fingers -> Int \X Int] : last = [s.last EXCEPT ![finger] = p]
  BY DEF GestureState
<1>2. t = [s EXCEPT !.last = last]
  BY <1>1
<1> QED
  BY <1>2 DEF GestureState

\* The outcome m of trying g, if it leaves the counts at a and b.
Leaves(s, g, m, a, b) ==
    At(s, g, m.state, a, b) /\ ~m.found /\ (m.tracked <=> b > 1 \/ a > 0)

LEMMA UndoneLeaves ==
  ASSUME NEW s, NEW g, NEW t, NEW a, NEW b, At(s, g, t, a, b)
  PROVE  Leaves(s, g, Undone(t, g), a, b)
<1>1. PICK tracked : tracked = UnderWay(t, g)
  OBVIOUS
<1>2. Undone(t, g) = [state |-> t, found |-> FALSE, tracked |-> tracked]
  BY <1>1 DEF Undone
<1>3. tracked <=> b > 1 \/ a > 0
  BY <1>1 DEF UnderWay, At
<1> QED
  BY <1>2, <1>3 DEF Leaves

\* What a movement does to a gesture.
LEMMA MoveLeaves ==
  ASSUME NEW s \in GestureState, NEW g \in Gestures, NEW finger \in Fingers,
         NEW p \in Int \X Int, NEW m, m = gesture_match_move(s, g, finger, p)
  PROVE  Leaves(s, g, m, 0, 0) \/ Leaves(s, g, m, s.act[g], s.sub_act[g])
<1> DEFINE seen == [s EXCEPT !.last = [@ EXCEPT ![finger] = p]]
<1>1. m \in {Undone(s, g), Failed(s, g), Undone(seen, g)}
  BY DEF gesture_match_move
<1>2. At(s, g, s, s.act[g], s.sub_act[g])
  BY DEF At
<1>3. At(s, g, seen, s.act[g], s.sub_act[g])
  <2>1. PICK t : t = seen
    OBVIOUS
  <2> QED
    BY <2>1, SeenFields DEF At
<1>4. At(s, g, Progress(s, g, 0, 0), 0, 0)
  BY ProgressAt
<1> HIDE DEF seen
<1> QED
  BY <1>1, <1>2, <1>3, <1>4, UndoneLeaves DEF Failed

\* A finger that came down or went up.
Contacted(s, g, finger, p, push) == gesture_match(s, g, finger, p, push = "down")

\* What a contact does to a gesture: it fails, goes on by a step, begins its next
\* drag, or is recognised; it does the last three only if the contact fits.
ContactOutcome(s, g, p, push, m) ==
    LET list == current_list(s, g)
        step == current(s, g)
        next == s.sub_act[g] + 1
        fits == /\ step.action = (IF push = "down" THEN "contact" ELSE "release")
                /\ position_match(IF step.pos = "p1" THEN list.p1 ELSE list.p2, p)
        ends == actions(s, list)[next + 1] = eEnd
    IN  \/ Leaves(s, g, m, 0, 0)
        \/ fits /\ ~ends /\ Leaves(s, g, m, s.act[g], next)
        \/ /\ fits /\ ends /\ s.act[g] + 1 < Len(actionlist(g))
           /\ Leaves(s, g, m, s.act[g] + 1, 0)
        \/ /\ fits /\ ends /\ ~(s.act[g] + 1 < Len(actionlist(g)))
           /\ m.found /\ At(s, g, m.state, 0, 0)

LEMMA ContactLeaves ==
  ASSUME NEW s \in GestureState, NEW g \in Gestures, NEW finger \in Fingers,
         NEW p \in Int \X Int, NEW push, NEW m, m = Contacted(s, g, finger, p, push)
  PROVE  ContactOutcome(s, g, p, push, m)
<1> DEFINE list == current_list(s, g)
           step == current(s, g)
           next == s.sub_act[g] + 1
           fits == /\ step.action = (IF push = "down" THEN "contact" ELSE "release")
                   /\ position_match(IF step.pos = "p1" THEN list.p1 ELSE list.p2, p)
           ends == actions(s, list)[next + 1] = eEnd
           seen == [s EXCEPT !.last = [@ EXCEPT ![finger] = p]]
<1>1. m = IF ~fits THEN Failed(s, g)
          ELSE IF ~ends THEN Undone(Progress(seen, g, s.act[g], next), g)
          ELSE ListEnds(seen, g)
  BY DEF gesture_match, Contacted
<1>2. At(s, g, Progress(s, g, 0, 0), 0, 0)
  BY ProgressAt
<1>3. /\ seen \in GestureState /\ seen.runstate = s.runstate /\ seen.past = s.past
      /\ seen.act = s.act /\ seen.sub_act = s.sub_act
  <2>1. PICK t : t = seen
    OBVIOUS
  <2> QED
    BY <2>1, SeenFields
<1>4. s.act[g] \in Nat /\ next \in Nat
  BY DEF GestureState
<1> HIDE DEF seen, next, ends, fits
<1>5. \A a \in Nat, b \in Nat : At(s, g, Progress(seen, g, a, b), a, b)
  <2> TAKE a \in Nat, b \in Nat
  <2>1. PICK u \in GestureState : u = seen
    BY <1>3
  <2>2. PICK t : t = Progress(u, g, a, b)
    OBVIOUS
  <2>3. At(u, g, t, a, b)
    BY <2>2, ProgressAt
  <2>4. At(seen, g, Progress(seen, g, a, b), a, b)
    BY <2>1, <2>2, <2>3
  <2> QED
    BY <1>3, <2>4 DEF At
<1>6. CASE ~fits
  <2>1. m = Undone(Progress(s, g, 0, 0), g)
    BY <1>1, <1>6 DEF Failed
  <2>2. Leaves(s, g, m, 0, 0)
    BY <1>2, <2>1, UndoneLeaves
  <2> QED
    BY <2>2 DEF ContactOutcome
<1>7. CASE fits /\ ~ends
  <2>1. m = Undone(Progress(seen, g, s.act[g], next), g)
    BY <1>1, <1>7
  <2>2. Leaves(s, g, m, s.act[g], next)
    BY <1>4, <1>5, <2>1, UndoneLeaves
  <2> QED
    BY <1>7, <2>2 DEF ContactOutcome, fits, ends, next
<1>8. CASE fits /\ ends /\ s.act[g] + 1 < Len(actionlist(g))
  <2>1. m = Undone(Progress(seen, g, s.act[g] + 1, 0), g)
    BY <1>1, <1>3, <1>8 DEF ListEnds
  <2>2. Leaves(s, g, m, s.act[g] + 1, 0)
    BY <1>4, <1>5, <2>1, UndoneLeaves
  <2> QED
    BY <1>8, <2>2 DEF ContactOutcome, fits, ends, next
<1>9. CASE fits /\ ends /\ ~(s.act[g] + 1 < Len(actionlist(g)))
  <2>1. m = [state |-> Progress(seen, g, 0, 0), found |-> TRUE, tracked |-> FALSE]
    BY <1>1, <1>3, <1>9 DEF ListEnds
  <2>2. m.found /\ At(s, g, m.state, 0, 0)
    BY <1>5, <2>1
  <2> QED
    BY <1>9, <2>2 DEF ContactOutcome, fits, ends, next
<1> QED
  BY <1>6, <1>7, <1>8, <1>9

LEMMA CleanFields ==
  ASSUME NEW s \in GestureState, NEW t, t = gestures_clean(s)
  PROVE  /\ t \in GestureState /\ t.runstate = s.runstate /\ t.past = s.past
         /\ \A g \in Gestures : t.act[g] = 0 /\ t.sub_act[g] = 0
<1>1. PICK zeroes \in [Gestures -> Nat] : zeroes = [g \in Gestures |-> 0]
  OBVIOUS
<1>2. t = [s EXCEPT !.act = zeroes, !.sub_act = zeroes]
  BY <1>1 DEF gestures_clean
<1>3. /\ t \in GestureState /\ t.runstate = s.runstate /\ t.past = s.past
      /\ t.act = zeroes /\ t.sub_act = zeroes
  BY <1>2 DEF GestureState
<1> QED
  BY <1>1, <1>3

LEMMA StandbackFields ==
  ASSUME NEW s \in GestureState, NEW t, t = standback(s)
  PROVE  t \in GestureState /\ t.past = s.past
<1>1. PICK run \in RunStates : run = CASE s.runstate = "Running" -> "StandBack"
                                       [] s.runstate = "StandBack" -> "Running"
                                       [] OTHER -> s.runstate
  BY DEF GestureState, RunStates
<1>2. t = [s EXCEPT !.runstate = run]
  BY <1>1 DEF standback
<1> QED
  BY <1>2 DEF GestureState

LEMMA StartedFields ==
  ASSUME NEW s \in GestureState, NEW t, t = Started(s)
  PROVE  /\ t \in GestureState /\ t.past = s.past
         /\ \/ t = s
            \/ \A g \in Gestures : t.act[g] = 0 /\ t.sub_act[g] = 0
<1>1. CASE s.runstate # "Startup"
  BY <1>1 DEF Started
<1>2. CASE s.runstate = "Startup"
  <2>1. PICK c : c = gestures_clean(s)
    OBVIOUS
  <2>2. /\ c \in GestureState /\ c.past = s.past
        /\ \A g \in Gestures : c.act[g] = 0 /\ c.sub_act[g] = 0
    BY <2>1, CleanFields
  <2>3. t = [c EXCEPT !.runstate = "Running"]
    BY <1>2, <2>1 DEF Started
  <2> QED
    BY <2>2, <2>3 DEF GestureState, RunStates
<1> QED
  BY <1>1, <1>2

\* Trying a gesture, while none has been recognised.
LEMMA OneTried ==
  ASSUME NEW r \in Results, r.call = "none", NEW g \in Gestures,
         NEW finger \in Fingers, NEW p \in Int \X Int, NEW push,
         NEW t, t = Tried(r, g, finger, p, push)
  PROVE  /\ t \in Results
         /\ \E a \in Nat, b \in Nat :
              /\ At(r.state, g, t.state, a, b)
              /\ t.call = "none" =>
                   t.tracking = r.tracking + (IF b > 1 \/ a > 0 THEN 1 ELSE 0)
         /\ t.call \in {"none", g}
<1>1. PICK s \in GestureState : s = r.state
  BY DEF Results
<1>2. s.act[g] \in Nat /\ s.sub_act[g] \in Nat
  BY DEF GestureState
<1>3. PICK m : m = IF push = "moved" THEN gesture_match_move(s, g, finger, p)
                   ELSE gesture_match(s, g, finger, p, push = "down")
  OBVIOUS
<1>4. \E a \in Nat, b \in Nat : Leaves(s, g, m, a, b) \/ (m.found /\ At(s, g, m.state, a, b))
  <2>1. CASE push = "moved"
    <3>1. Leaves(s, g, m, 0, 0) \/ Leaves(s, g, m, s.act[g], s.sub_act[g])
      BY <1>3, <2>1, MoveLeaves
    <3> QED
      BY <1>2, <3>1
  <2>2. CASE push # "moved"
    <3>1. m = Contacted(s, g, finger, p, push)
      BY <1>3, <2>2 DEF Contacted
    <3>2. \/ Leaves(s, g, m, 0, 0)
          \/ Leaves(s, g, m, s.act[g], s.sub_act[g] + 1)
          \/ Leaves(s, g, m, s.act[g] + 1, 0)
          \/ m.found /\ At(s, g, m.state, 0, 0)
      BY <3>1, ContactLeaves, Zenon DEF ContactOutcome
    <3> QED
      BY <1>2, <3>2
  <2> QED
    BY <2>1, <2>2
<1>5. PICK a \in Nat, b \in Nat :
         Leaves(s, g, m, a, b) \/ (m.found /\ At(s, g, m.state, a, b))
  BY <1>4
<1>6. At(s, g, m.state, a, b) /\ m.state \in GestureState
  BY <1>5 DEF Leaves, At
<1>7. PICK call : call = IF m.found THEN g ELSE "none"
  OBVIOUS
<1>8. PICK tracking \in Nat : tracking = r.tracking + (IF m.tracked THEN 1 ELSE 0)
  BY DEF Results
<1>9. t = [state |-> m.state, call |-> call, tracking |-> tracking]
  BY <1>1, <1>3, <1>7, <1>8 DEF Tried
<1>10. call \in {"none", g}
  BY <1>7
<1>11. t \in Results
  BY <1>6, <1>9, <1>10 DEF Results
<1>12. call = "none" => tracking = r.tracking + (IF b > 1 \/ a > 0 THEN 1 ELSE 0)
  <2>1. g # "none"
    BY AllGestures
  <2>2. call = "none" => Leaves(s, g, m, a, b)
    BY <1>5, <1>7, <2>1
  <2> QED
    BY <1>8, <2>2 DEF Leaves
<1> QED
  BY <1>1, <1>6, <1>9, <1>10, <1>11, <1>12

-----------------------------------------------------------------------------
(* The silence.                                                            *)

\* After k of the gestures in L tracking counts, among them, those under way.
TrackedAfter(L, run, k) ==
    {r \in Results :
       r.call = "none" =>
         /\ r.state.runstate = run
         /\ r.tracking > 0 <=> \E i \in 1..k : UnderWay(r.state, L[i])}

LEMMA TriedTracks ==
  ASSUME NEW s, NEW L, L = glist(s), NEW run, NEW k \in 1..Len(L),
         NEW r \in TrackedAfter(L, run, k - 1),
         NEW finger \in Fingers, NEW p \in Int \X Int, NEW push
  PROVE  Tried(r, L[k], finger, p, push) \in TrackedAfter(L, run, k)
<1>1. r \in Results
  BY DEF TrackedAfter
<1>2. CASE r.call # "none"
  <2>1. Tried(r, L[k], finger, p, push) = r
    BY <1>2 DEF Tried
  <2> QED
    BY <1>1, <1>2, <2>1 DEF TrackedAfter
<1>3. CASE r.call = "none"
  <2>1. PICK t : t = Tried(r, L[k], finger, p, push)
    OBVIOUS
  <2>2. /\ Len(L) \in Nat
        /\ \A i \in 1..Len(L) : L[i] \in Gestures
        /\ \A i \in 1..Len(L), j \in 1..Len(L) : L[i] = L[j] => i = j
    BY ListOf
  <2>3. PICK g \in Gestures : g = L[k]
    BY <2>2
  <2>4. t = Tried(r, g, finger, p, push)
    BY <2>1, <2>3
  <2>5. /\ t \in Results
        /\ \E a \in Nat, b \in Nat :
             /\ At(r.state, g, t.state, a, b)
             /\ t.call = "none" =>
                  t.tracking = r.tracking + (IF b > 1 \/ a > 0 THEN 1 ELSE 0)
    BY <1>1, <1>3, <2>4, OneTried
  <2>6. PICK a \in Nat, b \in Nat :
          /\ At(r.state, g, t.state, a, b)
          /\ t.call = "none" =>
               t.tracking = r.tracking + (IF b > 1 \/ a > 0 THEN 1 ELSE 0)
    BY <2>5
  <2>7. /\ r.state.runstate = run
        /\ r.tracking > 0 <=> \E i \in 1..(k - 1) : UnderWay(r.state, L[i])
    BY <1>3 DEF TrackedAfter
  <2>8. UnderWay(t.state, L[k]) <=> b > 1 \/ a > 0
    BY <2>3, <2>6 DEF At, UnderWay
  <2>9. \A i \in 1..(k - 1) : UnderWay(t.state, L[i]) <=> UnderWay(r.state, L[i])
    <3> TAKE i \in 1..(k - 1)
    <3>1. L[i] \in Gestures \ {g}
      BY <2>2, <2>3
    <3> QED
      BY <2>6, <3>1 DEF At, UnderWay
  <2>10. (\E i \in 1..k : UnderWay(t.state, L[i]))
           <=> (\E i \in 1..(k - 1) : UnderWay(t.state, L[i])) \/ UnderWay(t.state, L[k])
    BY <2>2
  <2>11. r.tracking \in Nat
    BY <1>1 DEF Results
  <2>12. ASSUME t.call = "none"
         PROVE  /\ t.state.runstate = run
                /\ t.tracking > 0 <=> \E i \in 1..k : UnderWay(t.state, L[i])
    <3>1. t.tracking > 0 <=> r.tracking > 0 \/ (b > 1 \/ a > 0)
      BY <2>6, <2>11, <2>12
    <3>2. t.state.runstate = run
      BY <2>6, <2>7 DEF At
    <3> QED
      BY <2>7, <2>8, <2>9, <2>10, <3>1, <3>2
  <2> QED
    BY <2>1, <2>5, <2>12 DEF TrackedAfter
<1> QED
  BY <1>2, <1>3

LEMMA HandlerTracks ==
  ASSUME NEW s \in GestureState, NEW finger \in Fingers, NEW p \in Int \X Int, NEW push,
         NEW h, h = gesture_handler(s, finger, p, push)
  PROVE  /\ h.state \in GestureState
         /\ h.tracking > 0 <=> \E g \in ToSet(glist(h.state)) : UnderWay(h.state, g)
<1>1. PICK b : b = Started(s)
  OBVIOUS
<1>2. PICK L : L = glist(b)
  OBVIOUS
<1>3. Len(L) \in Nat /\ ToSet(L) = {L[i] : i \in 1..Len(L)}
  BY <1>2, ListOf
<1> DEFINE R == [k \in 0..Len(L) |-> TrackedAfter(L, b.runstate, k)]
<1>4. Begun(s) \in R[0]
  <2>1. Begun(s) = [state |-> b, call |-> "none", tracking |-> 0]
    BY <1>1 DEF Begun
  <2>2. b \in GestureState
    BY <1>1, StartedFields
  <2>3. Begun(s) \in Results
    BY <2>1, <2>2 DEF Results
  <2>4. Begun(s) \in TrackedAfter(L, b.runstate, 0)
    BY <2>1, <2>3 DEF TrackedAfter
  <2> QED
    BY <1>3, <2>4
<1>5. \A k \in 1..Len(L) : \A r \in R[k - 1] : Tried(r, L[k], finger, p, push) \in R[k]
  <2> TAKE k \in 1..Len(L)
  <2>1. R[k - 1] = TrackedAfter(L, b.runstate, k - 1) /\ R[k] = TrackedAfter(L, b.runstate, k)
    BY <1>3
  <2> HIDE DEF R
  <2> TAKE r \in R[k - 1]
  <2> QED
    BY <1>2, <2>1, TriedTracks
<1>6. R[Len(L)] = TrackedAfter(L, b.runstate, Len(L))
  BY <1>3
<1> HIDE DEF R
<1>7. PICK last \in TrackedAfter(L, b.runstate, Len(L)) : h = Concluded(last)
  <2>1. L = glist(Started(s))
    BY <1>1, <1>2
  <2>2. PICK Q : Q = R
    OBVIOUS
  <2>3. /\ Begun(s) \in Q[0]
        /\ \A k \in 1..Len(L) : \A r \in Q[k - 1] : Tried(r, L[k], finger, p, push) \in Q[k]
    BY <1>4, <1>5, <2>2
  <2>4. \E last \in Q[Len(L)] : gesture_handler(s, finger, p, push) = Concluded(last)
    BY <2>1, <2>3, HandlerEnds
  <2> QED
    BY <1>6, <2>2, <2>4
<1>8. last \in Results /\ last.state \in GestureState
  BY DEF TrackedAfter, Results
<1>9. CASE last.call = "none"
  <2>1. h = last /\ last.state.runstate = b.runstate
    BY <1>7, <1>9 DEF TrackedAfter, Concluded
  <2>2. glist(h.state) = L
    BY <1>2, <2>1 DEF glist
  <2>3. h.tracking > 0 <=> \E i \in 1..Len(L) : UnderWay(h.state, L[i])
    BY <1>9, <2>1 DEF TrackedAfter
  <2> QED
    BY <1>3, <1>8, <2>1, <2>2, <2>3
<1>10. CASE last.call # "none"
  <2>1. PICK u \in GestureState :
           u = IF last.call \in {"CrossL", "CrossR"} THEN standback(last.state) ELSE last.state
    BY <1>8, StandbackFields
  <2>2. PICK c : c = gestures_clean(u)
    OBVIOUS
  <2>3. c \in GestureState /\ \A g \in Gestures : c.act[g] = 0 /\ c.sub_act[g] = 0
    BY <2>2, CleanFields
  <2>4. h = [last EXCEPT !.tracking = 0, !.state = c]
    BY <1>7, <1>10, <2>1, <2>2 DEF Concluded
  <2>5. h.state = c /\ h.tracking = 0
    BY <1>8, <2>4 DEF Results
  <2>6. \A g \in ToSet(glist(c)) : g \in Gestures
    BY ListOf
  <2> QED
    BY <2>3, <2>5, <2>6 DEF UnderWay
<1> QED
  BY <1>9, <1>10

\* goSilent is what the gestures of t call for.
Silent(t) == t.goSilent <=> Drawing(t.gesture)

\* An event that the device may report.
Sound(e) ==
    /\ e.type = "slot" => e.value \in Slots
    /\ e.type = "track" => e.value \in BOOLEAN
    /\ e.type = "position" => e.value \in Int \X Int

LEMMA ReportSound ==
  ASSUME NEW d \in Device, NEW r \in Reports(d)
  PROVE  Sound(r[1])
<1>0. d.down[d.slot] \in BOOLEAN /\ Points \subseteq Int \X Int
  BY TabletAssumption DEF Device
<1>1. CASE \E k \in Slots \ {d.slot} :
             r = <<[type |-> "slot", value |-> k], [d EXCEPT !.slot = k]>>
  BY <1>1 DEF Sound
<1>2. CASE r = <<[type |-> "track", value |-> ~d.down[d.slot]],
                 [d EXCEPT !.down[d.slot] = ~@]>>
  <2>1. PICK b \in BOOLEAN : b = ~d.down[d.slot]
    OBVIOUS
  <2>2. r[1] = [type |-> "track", value |-> b]
    BY <1>2, <2>1
  <2> QED
    BY <2>2 DEF Sound
<1>3. CASE \E p \in Points : r = <<[type |-> "position", value |-> p], d>>
  BY <1>0, <1>3 DEF Sound
<1>4. CASE r[1].type \notin {"slot", "track", "position"}
  BY <1>4 DEF Sound
<1> QED
  BY <1>1, <1>2, <1>3, <1>4 DEF Reports

LEMMA ChangedFields ==
  ASSUME NEW t \in Touches, NEW e, Sound(e), NEW u \in Changed(t, e)
  PROVE  /\ u \in Touches /\ u.gesture = t.gesture /\ u.goSilent = t.goSilent
         /\ u.silence = t.silence
<1>1. CASE u = t
  BY <1>1
<1>2. CASE \E far \in BOOLEAN : u = [t EXCEPT !.moved = @ \/ far]
  <2>1. PICK moved \in BOOLEAN : u = [t EXCEPT !.moved = moved]
    BY <1>2
  <2> QED
    BY <2>1 DEF Touches
<1>3. CASE /\ e.type = "position" /\ t.slot \in Fingers
           /\ u = [t EXCEPT !.moved = @ \/ t.xy[t.slot] # e.value,
                            !.xy = [@ EXCEPT ![t.slot] = e.value]]
  <2>1. PICK moved \in BOOLEAN : moved = (t.moved \/ t.xy[t.slot] # e.value)
    OBVIOUS
  <2>2. PICK xy \in [Fingers -> Int \X Int] : xy = [t.xy EXCEPT ![t.slot] = e.value]
    BY <1>3 DEF Touches, Sound
  <2>3. u = [t EXCEPT !.moved = moved, !.xy = xy]
    BY <1>3, <2>1, <2>2
  <2> QED
    BY <2>3 DEF Touches
<1>4. CASE \E other \in BOOLEAN : u = [t EXCEPT !.track_change = @ \/ other]
  <2>1. PICK track_change \in BOOLEAN : u = [t EXCEPT !.track_change = track_change]
    BY <1>4
  <2> QED
    BY <2>1 DEF Touches
<1>5. CASE /\ e.type = "track" /\ t.slot \in Fingers
           /\ u = [t EXCEPT !.track_change = @ \/ t.trackID[t.slot] # e.value,
                            !.trackID = [@ EXCEPT ![t.slot] = e.value]]
  <2>1. PICK track_change \in BOOLEAN :
           track_change = (t.track_change \/ t.trackID[t.slot] # e.value)
    OBVIOUS
  <2>2. PICK trackID \in [Fingers -> BOOLEAN] : trackID = [t.trackID EXCEPT ![t.slot] = e.value]
    BY <1>5 DEF Touches, Sound
  <2>3. u = [t EXCEPT !.track_change = track_change, !.trackID = trackID]
    BY <1>5, <2>1, <2>2
  <2> QED
    BY <2>3 DEF Touches
<1> QED
  BY <1>1, <1>2, <1>3, <1>4, <1>5 DEF Changed

LEMMA CompletedFields ==
  ASSUME NEW t \in Touches, Silent(t), NEW e, NEW u, u = Completed(t, e)
  PROVE  u \in Touches /\ Silent(u) /\ u.silence = t.silence
<1>1. CASE u = t
  BY <1>1
<1>2. CASE u = [t EXCEPT !.moved = FALSE, !.track_change = FALSE]
  <2>1. /\ u \in Touches /\ u.gesture = t.gesture /\ u.goSilent = t.goSilent
        /\ u.silence = t.silence
    BY <1>2 DEF Touches
  <2> QED
    BY <2>1 DEF Silent
<1>3. CASE t.slot \in Fingers /\ u \notin {t, [t EXCEPT !.moved = FALSE, !.track_change = FALSE]}
  <2>1. PICK p \in Int \X Int : p = t.xy[t.slot]
    BY <1>3 DEF Touches
  <2>2. PICK r : r = gesture_handler(t.gesture, t.slot, p, Push(t))
    OBVIOUS
  <2>3. t.gesture \in GestureState
    BY DEF Touches
  <2>4. /\ r.state \in GestureState
        /\ r.tracking > 0 <=> Drawing(r.state)
    <3>1. PICK s \in GestureState, finger \in Fingers, push \in {Push(t)} :
             s = t.gesture /\ finger = t.slot /\ push = Push(t)
      BY <1>3, <2>3
    <3>2. r = gesture_handler(s, finger, p, push)
      BY <2>2, <3>1
    <3> QED
      BY <3>2, HandlerTracks DEF Drawing
  <2>5. PICK goSilent \in BOOLEAN : goSilent <=> r.tracking > 0
    OBVIOUS
  <2>6. goSilent = (r.tracking > 0)
    BY <2>5
  <2>7. u = [t EXCEPT !.gesture = r.state, !.goSilent = goSilent,
                      !.moved = FALSE, !.track_change = FALSE]
    BY <1>3, <2>1, <2>2, <2>6 DEF Completed
  <2>8. u \in Touches /\ u.gesture = r.state /\ u.goSilent = goSilent /\ u.silence = t.silence
    BY <2>4, <2>7 DEF Touches
  <2> QED
    BY <2>4, <2>5, <2>8 DEF Silent
<1>4. CASE t.slot \notin Fingers
  BY <1>1, <1>4 DEF Completed
<1> QED
  BY <1>1, <1>2, <1>3, <1>4

LEMMA HandledFields ==
  ASSUME NEW t \in Touches, Silent(t), NEW e, Sound(e), NEW h \in handle_gestures(t, e)
  PROVE  /\ h \in Touches /\ Silent(h)
         /\ h.silence = IF e.type = "report" THEN h.goSilent ELSE t.silence
<1>1. CASE e.type = "dropped"
  <2>1. h = [t EXCEPT !.moved = FALSE, !.track_change = FALSE]
    BY <1>1 DEF handle_gestures
  <2>2. /\ h \in Touches /\ h.gesture = t.gesture /\ h.goSilent = t.goSilent
        /\ h.silence = t.silence
    BY <2>1 DEF Touches
  <2> QED
    BY <1>1, <2>2 DEF Silent
<1>2. CASE e.type # "dropped"
  <2>1. PICK c \in {Completed(u, e) : u \in Changed(t, e)} :
          h = CASE e.type = "slot" -> [c EXCEPT !.slot = e.value]
                [] e.type = "report" -> [c EXCEPT !.silence = c.goSilent]
                [] OTHER -> c
    BY <1>2 DEF handle_gestures
  <2>2. PICK u \in Changed(t, e) : c = Completed(u, e)
    OBVIOUS
  <2>3. u \in Touches /\ Silent(u) /\ u.silence = t.silence
    BY ChangedFields DEF Silent
  <2>4. c \in Touches /\ Silent(c) /\ c.silence = t.silence
    BY <2>2, <2>3, CompletedFields
  <2>5. CASE e.type = "slot"
    <3>1. h = [c EXCEPT !.slot = e.value]
      BY <2>1, <2>5
    <3>2. /\ h \in Touches /\ h.gesture = c.gesture /\ h.goSilent = c.goSilent
          /\ h.silence = c.silence
      BY <2>4, <2>5, <3>1 DEF Touches, Sound
    <3> QED
      BY <2>4, <2>5, <3>2 DEF Silent
  <2>6. CASE e.type = "report"
    <3>1. h = [c EXCEPT !.silence = c.goSilent]
      BY <2>1, <2>6
    <3>2. /\ h \in Touches /\ h.gesture = c.gesture /\ h.goSilent = c.goSilent
          /\ h.silence = c.goSilent
      BY <2>4, <3>1 DEF Touches
    <3> QED
      BY <2>4, <2>6, <3>2 DEF Silent
  <2>7. CASE e.type \notin {"slot", "report"}
    BY <2>1, <2>4, <2>7
  <2> QED
    BY <2>5, <2>6, <2>7
<1> QED
  BY <1>1, <1>2

\* The inductive invariant of the silence, beside that of the button.
SilenceInv == touches \in Touches /\ SilentForAGesture

LEMMA SilenceKept ==
  ASSUME LeftInv, SilenceInv, tablet_event
  PROVE  SilenceInv'
<1>1. PICK r \in Reports(device) : device' = r[2] /\ handle_usb_tablet_event(r[1])
  BY DEF tablet_event
<1>2. /\ device \in Device /\ guest \in Guest
      /\ touches \in Touches /\ Silent(touches) /\ (touches.silence <=> guest.drawing)
  BY DEF LeftInv, SilenceInv, SilentForAGesture, Silent
<1>3. Sound(r[1])
  BY <1>1, <1>2, ReportSound
<1>4. \/ touches' = touches /\ guest'.drawing = guest.drawing
      \/ \E h \in handle_gestures(touches, r[1]) :
           /\ touches' = h
           /\ guest'.drawing = IF r[1].type = "report" THEN Drawing(h.gesture)
                                                       ELSE guest.drawing
  <2> DEFINE e == r[1]
             s == Switched(tscale, e)
             left == IsLeft(tscale, e)
  <2>0. handle_usb_tablet_event(e)
    BY <1>1
  <2>1. CASE touches' = touches /\ guest' = guest
    BY <2>1
  <2>2. CASE touches' = touches /\ guest' = [guest EXCEPT !.left = TRUE, !.lost = FALSE]
    BY <1>2, <2>2 DEF Guest
  <2>3. CASE touches' = touches /\ guest' = [guest EXCEPT !.lost = @ \/ (left /\ ~e.value)]
    <3> HIDE DEF left, e
    <3> QED
      BY <1>2, <2>3 DEF Guest
  <2>4. CASE \E h \in handle_gestures(touches, e) :
               LET passes == e.type = "dropped" \/ ~h.silence
               IN  /\ touches' = h
                   /\ guest' = [guest EXCEPT
                        !.left = IF left /\ passes THEN e.value ELSE @,
                        !.lost = @ \/ (left /\ ~e.value /\ ~passes),
                        !.drawing = IF e.type = "report" THEN Drawing(h.gesture) ELSE @]
    <3>1. PICK h \in handle_gestures(touches, e) :
            LET passes == e.type = "dropped" \/ ~h.silence
            IN  /\ touches' = h
                /\ guest' = [guest EXCEPT
                     !.left = IF left /\ passes THEN e.value ELSE @,
                     !.lost = @ \/ (left /\ ~e.value /\ ~passes),
                     !.drawing = IF e.type = "report" THEN Drawing(h.gesture) ELSE @]
      BY <2>4
    <3>2. PICK l, lost, drawing :
             /\ drawing = IF e.type = "report" THEN Drawing(h.gesture) ELSE guest.drawing
             /\ guest' = [guest EXCEPT !.left = l, !.lost = lost, !.drawing = drawing]
      <4> HIDE DEF left, e
      <4> QED
        BY <3>1
    <3>3. guest'.drawing = drawing
      BY <1>2, <3>2 DEF Guest
    <3> QED
      BY <3>1, <3>2, <3>3
  <2> HIDE DEF e, s, left
  <2> QED
    BY <2>0, <2>1, <2>2, <2>3, <2>4 DEF handle_usb_tablet_event, s, left, e
<1>5. CASE touches' = touches /\ guest'.drawing = guest.drawing
  BY <1>2, <1>5 DEF SilenceInv, SilentForAGesture, Silent
<1>6. CASE \E h \in handle_gestures(touches, r[1]) :
             /\ touches' = h
             /\ guest'.drawing = IF r[1].type = "report" THEN Drawing(h.gesture)
                                                         ELSE guest.drawing
  <2>1. PICK h, t, e :
           /\ h \in handle_gestures(t, e) /\ touches' = h /\ t = touches /\ e = r[1]
           /\ guest'.drawing = IF e.type = "report" THEN Drawing(h.gesture) ELSE guest.drawing
    BY <1>6
  <2>2. /\ h \in Touches /\ Silent(h)
        /\ h.silence = IF e.type = "report" THEN h.goSilent ELSE t.silence
    BY <1>2, <1>3, <2>1, HandledFields
  <2> QED
    BY <1>2, <2>1, <2>2 DEF SilenceInv, SilentForAGesture, Silent
<1> QED
  BY <1>4, <1>5, <1>6

\* Events are kept from the guest, from one report to the next, exactly while a
\* gesture is under way at the first, whatever the screen, the fingers and the places
\* are and in whatever order slots, places and contacts are reported, hidden by the
\* pen or dropped (goSilent, silence).
THEOREM SilenceIsForGestures == TabletSpec => []SilentForAGesture
<1>1. TabletInit => SilenceInv
  <2> SUFFICES ASSUME TabletInit
               PROVE  SilenceInv
    OBVIOUS
  <2>1. PICK past \in {"end", "twodrag"} :
           touches = [slot |-> NoSlot, trackID |-> [f \in Fingers |-> FALSE],
                      xy |-> [f \in Fingers |-> NoPoint], moved |-> FALSE,
                      track_change |-> FALSE, goSilent |-> FALSE, silence |-> FALSE,
                      gesture |-> eStartup(past)]
    BY DEF TabletInit
  <2>2. PICK s : s = eStartup(past)
    OBVIOUS
  <2>3. /\ s \in GestureState
        /\ \A g \in Gestures : s.act[g] = 0 /\ s.sub_act[g] = 0
    BY <2>2 DEF eStartup, GestureState, RunStates
  <2>4. touches \in Touches /\ touches.gesture = s /\ ~touches.goSilent /\ ~touches.silence
    BY <2>1, <2>2, <2>3 DEF Touches, NoSlot, NoPoint
  <2>5. \A g \in ToSet(glist(s)) : g \in Gestures
    BY ListOf
  <2>6. ~guest.drawing
    BY DEF TabletInit
  <2> QED
    BY <2>3, <2>4, <2>5, <2>6 DEF SilenceInv, SilentForAGesture, UnderWay, Drawing
<1>2. LeftInv /\ SilenceInv /\ [TabletNext]_tablet_vars => SilenceInv'
  <2>1. ASSUME SilenceInv, UNCHANGED tablet_vars
        PROVE  SilenceInv'
    BY <2>1 DEF tablet_vars, SilenceInv, SilentForAGesture
  <2> QED
    BY <2>1, SilenceKept DEF TabletNext
<1>3. SilenceInv => SilentForAGesture
  BY DEF SilenceInv
<1> QED
  BY <1>1, <1>2, <1>3, LeftAlways, PTL DEF TabletSpec

-----------------------------------------------------------------------------
(* What a recognised gesture was drawn with.                               *)

Drags == {"GoLeft", "GoRight", "GoUp"}
Contacts == (Int \X Int) \X {"down", "up"}

\* What the tables ask of the contact i of the gesture g.
Asked(g, i) ==
    LET list == actionlist(g)
    IN  IF g \in Drags
        THEN IF i \in 1..2 THEN <<"down", list[1].p1>> ELSE <<"up", list[1].p2>>
        ELSE CASE i = 1 -> <<"down", list[1].p1>>
               [] i = 2 -> <<"up", list[1].p2>>
               [] i = 3 -> <<"down", list[2].p1>>
               [] OTHER -> <<"up", list[2].p2>>

Fits(g, i, c) == c[2] = Asked(g, i)[1] /\ position_match(Asked(g, i)[2], c[1])

\* The last n of the contacts c are the first n of the gesture g, and no more.
Holds(g, n, c) == n <= Len(c) /\ \A i \in 1..n : Fits(g, i, c[Len(c) - n + i])

\* How many contacts of the gesture have been matched.  The crosses are not
\* claimed to have been drawn where their table has no end.
Counted(g, a, b) == IF g \in Drags THEN b ELSE 2 * a + b
Claimed(g, past) == g \in Drags \/ past = "end"

InTables(g, a, b) ==
    IF g \in Drags THEN a = 0 /\ b \in 0..3 ELSE a \in 0..1 /\ b \in 0..1

\* The counts a and b of the gesture g, after the contacts c.
Matched(g, past, a, b, c) ==
    Claimed(g, past) => InTables(g, a, b) /\ Holds(g, Counted(g, a, b), c)

LEMMA Zeroes ==
  ASSUME NEW g, NEW past, NEW c \in Seq(Contacts)
  PROVE  Matched(g, past, 0, 0, c)
BY DEF Matched, InTables, Holds, Counted

LEMMA LastFour ==
  ASSUME NEW l \in Nat, l <= 4
  PROVE  \E from \in Nat, k \in Nat :
           /\ from = (IF l + 1 > 4 THEN l + 1 - 3 ELSE 1) /\ from \in 1..(l + 1)
           /\ k = l + 1 - from + 1 /\ k <= 4
           /\ \A n \in 0..3 : n <= l => n + 1 <= k
<1>1. CASE l = 4
  <2>1. /\ 2 = (IF l + 1 > 4 THEN l + 1 - 3 ELSE 1) /\ 2 \in 1..(l + 1)
        /\ 4 = l + 1 - 2 + 1
    BY <1>1
  <2>2. \A n \in 0..3 : n <= l => n + 1 <= 4
    OBVIOUS
  <2> QED
    BY <2>1, <2>2
<1>2. CASE l < 4
  <2>1. /\ 1 = (IF l + 1 > 4 THEN l + 1 - 3 ELSE 1) /\ 1 \in 1..(l + 1)
        /\ l + 1 = l + 1 - 1 + 1 /\ l + 1 <= 4
    BY <1>2
  <2>2. \A n \in 0..3 : n <= l => n + 1 <= l + 1
    OBVIOUS
  <2> QED
    BY <2>1, <2>2
<1> QED
  BY <1>1, <1>2

\* The contacts after one more.
LEMMA Extended ==
  ASSUME NEW c \in Seq(Contacts), Len(c) <= 4, NEW x \in Contacts,
         NEW d, d = Latest(Append(c, x))
  PROVE  /\ d \in Seq(Contacts) /\ Len(d) <= 4
         /\ \A g \in Gestures, n \in 0..3 :
              Holds(g, n, c) /\ Fits(g, n + 1, x) => Holds(g, n + 1, d)
<1>1. PICK a \in Seq(Contacts) : a = Append(c, x)
  BY AppendProperties
<1>2. Len(a) = Len(c) + 1 /\ a[Len(a)] = x /\ \A i \in 1..Len(c) : a[i] = c[i]
  BY <1>1, AppendProperties
<1>3. PICK l \in Nat : l = Len(c)
  BY LenProperties
<1>4. PICK from \in Nat, k \in Nat :
        /\ from = (IF l + 1 > 4 THEN l + 1 - 3 ELSE 1) /\ from \in 1..(l + 1)
        /\ k = l + 1 - from + 1 /\ k <= 4
        /\ \A n \in 0..3 : n <= l => n + 1 <= k
  BY <1>3, LastFour
<1>5. d = SubSeq(a, from, l + 1)
  BY <1>1, <1>2, <1>3, <1>4 DEF Latest
<1>6. /\ d \in Seq(Contacts) /\ Len(d) = k
      /\ \A i \in 1..k : d[i] = a[from + i - 1]
  <2>1. PICK m \in Int, n \in Int : m = from /\ n = l + 1
    BY <1>4
  <2>2. \A i \in m..n : a[i] \in Contacts
    <3>1. \A i \in 1..Len(a) : a[i] \in Contacts
      BY ElementOfSeq
    <3> QED
      BY <1>2, <1>3, <1>4, <2>1, <3>1
  <2>3. /\ d \in Seq(Contacts)
        /\ Len(d) = IF m <= n THEN n - m + 1 ELSE 0
        /\ \A i \in 1..(n - m + 1) : d[i] = a[m + i - 1]
    BY <1>5, <2>1, <2>2, SubSeqProperties
  <2>4. m <= n /\ n - m + 1 = k
    BY <1>4, <2>1
  <2> QED
    BY <2>1, <2>3, <2>4
<1>7. ASSUME NEW g \in Gestures, NEW n \in 0..3, Holds(g, n, c), Fits(g, n + 1, x)
      PROVE  Holds(g, n + 1, d)
  <2>1. n <= l /\ \A i \in 1..n : Fits(g, i, c[l - n + i])
    BY <1>3, <1>7 DEF Holds
  <2>2. n + 1 <= k
    BY <1>4, <2>1
  <2>3. ASSUME NEW i \in 1..(n + 1)
        PROVE  Fits(g, i, d[k - (n + 1) + i])
    <3>1. d[k - (n + 1) + i] = a[l - n + i]
      <4>1. PICK j \in 1..k : j = k - (n + 1) + i
        BY <2>2
      <4>2. from + j - 1 = l - n + i
        BY <1>4, <4>1
      <4> QED
        BY <1>6, <4>1, <4>2
    <3>2. CASE i = n + 1
      <4>1. l - n + i = l + 1
        BY <3>2
      <4>2. a[l - n + i] = x
        BY <1>2, <1>3, <4>1
      <4> QED
        BY <1>7, <3>1, <3>2, <4>2
    <3>3. CASE i # n + 1
      <4>1. i \in 1..n /\ l - n + i \in 1..l
        BY <2>1, <3>3
      <4>2. a[l - n + i] = c[l - n + i]
        BY <1>2, <1>3, <4>1
      <4> QED
        BY <2>1, <3>1, <4>1, <4>2
    <3> QED
      BY <3>2, <3>3
  <2> QED
    BY <1>6, <2>2, <2>3 DEF Holds
<1> QED
  BY <1>4, <1>6, <1>7

LEMMA Tables ==
  /\ Len(twodrag_actions) = 5
  /\ twodrag_actions[1] = eContact /\ twodrag_actions[2] = eContact
  /\ twodrag_actions[3] = eRelease /\ twodrag_actions[4] = eRelease
  /\ twodrag_actions[5] = eEnd
  /\ singledrag_actions("end")[1] = eContact /\ singledrag_actions("end")[2] = eRelease
  /\ singledrag_actions("end")[3] = eEnd
  /\ eContact # eEnd /\ eRelease # eEnd
<1>1. singledrag_actions("end") = <<eContact, eRelease>> \o <<eEnd>>
  BY DEF singledrag_actions
<1>2. eContact # eEnd /\ eRelease # eEnd
  BY DEF eContact, eRelease, eEnd
<1>3. /\ (<<eContact, eRelease>> \o <<eEnd>>)[1] = eContact
      /\ (<<eContact, eRelease>> \o <<eEnd>>)[2] = eRelease
      /\ (<<eContact, eRelease>> \o <<eEnd>>)[3] = eEnd
  OBVIOUS
<1> QED
  BY <1>1, <1>2, <1>3 DEF twodrag_actions

LEMMA Lists ==
  /\ \A g \in Drags : Len(actionlist(g)) = 1 /\ actionlist(g)[1].fingers = 2
  /\ \A g \in Gestures \ Drags :
       /\ Len(actionlist(g)) = 2
       /\ actionlist(g)[1].fingers = 1 /\ actionlist(g)[2].fingers = 1
<1>1. \A g \in Drags : Len(actionlist(g)) = 1 /\ actionlist(g)[1].fingers = 2
  BY DEF Drags, actionlist, Drag
<1>2. \A g \in {"CrossL", "CrossR"} :
       /\ Len(actionlist(g)) = 2
       /\ actionlist(g)[1].fingers = 1 /\ actionlist(g)[2].fingers = 1
  BY DEF actionlist, Drag, FallingDrag, RisingDrag
<1> QED
  BY <1>1, <1>2, AllGestures DEF Drags

\* What the tables ask of the next contact, and whether it is the last of a drag.
NextAsked(s, g, b, asked) ==
    LET list == current_list(s, g)
        step == current(s, g)
    IN  /\ step.action = (IF asked[1] = "down" THEN "contact" ELSE "release")
        /\ asked[1] \in {"down", "up"}
        /\ (IF step.pos = "p1" THEN list.p1 ELSE list.p2) = asked[2]
        /\ actions(s, list)[b + 2] = eEnd <=> b = (IF g \in Drags THEN 3 ELSE 1)

LEMMA NextStep ==
  ASSUME NEW s \in GestureState, NEW g \in Gestures, Claimed(g, s.past),
         NEW a \in Nat, NEW b \in Nat, a = s.act[g], b = s.sub_act[g], InTables(g, a, b),
         NEW n, n = Counted(g, a, b), NEW asked, asked = Asked(g, n + 1)
  PROVE  n \in 0..3 /\ NextAsked(s, g, b, asked)
<1> DEFINE list == current_list(s, g)
<1>0. list = actionlist(g)[a + 1] /\ current(s, g) = actions(s, list)[b + 1]
  BY DEF current_list, current
<1>1. CASE g \in Drags
  <2>1. a = 0 /\ b \in {0, 1, 2, 3}
    BY <1>1 DEF InTables
  <2>2. list = actionlist(g)[1] /\ actions(s, list) = twodrag_actions
    BY <1>0, <1>1, <2>1, Lists DEF actions
  <2>3. n = b /\ n \in 0..3
    BY <1>1, <2>1 DEF Counted
  <2>4. Asked(g, b + 1) = IF b + 1 \in 1..2 THEN <<"down", list.p1>> ELSE <<"up", list.p2>>
    BY <1>1, <2>2 DEF Asked
  <2> HIDE DEF list
  <2>5. CASE b \in {0, 1}
    <3>1. asked = <<"down", list.p1>>
      BY <2>3, <2>4, <2>5
    <3>2. current(s, g) = eContact
      BY <1>0, <2>2, <2>5, Tables
    <3>3. actions(s, list)[b + 2] # eEnd
      BY <2>2, <2>5, Tables
    <3> QED
      BY <1>1, <2>3, <2>5, <3>1, <3>2, <3>3 DEF eContact, list, NextAsked
  <2>6. CASE b \in {2, 3}
    <3>1. asked = <<"up", list.p2>>
      BY <2>3, <2>4, <2>6
    <3>2. current(s, g) = eRelease
      BY <1>0, <2>2, <2>6, Tables
    <3>3. actions(s, list)[b + 2] = eEnd <=> b = 3
      BY <2>2, <2>6, Tables
    <3> QED
      BY <1>1, <2>3, <2>6, <3>1, <3>2, <3>3 DEF eRelease, list, NextAsked
  <2> QED
    BY <2>1, <2>5, <2>6
<1>2. CASE g \notin Drags
  <2>1. a \in {0, 1} /\ b \in {0, 1} /\ s.past = "end"
    BY <1>2 DEF InTables, Claimed
  <2>2. actions(s, list) = singledrag_actions("end")
    BY <1>0, <1>2, <2>1, Lists DEF actions
  <2>3. n = 2 * a + b /\ n \in 0..3
    BY <1>2, <2>1 DEF Counted
  <2>4. Asked(g, 2 * a + b + 1) =
          IF b = 0 THEN <<"down", list.p1>> ELSE <<"up", list.p2>>
    <3>1. /\ Asked(g, 1) = <<"down", actionlist(g)[1].p1>>
          /\ Asked(g, 2) = <<"up", actionlist(g)[1].p2>>
          /\ Asked(g, 3) = <<"down", actionlist(g)[2].p1>>
          /\ Asked(g, 4) = <<"up", actionlist(g)[2].p2>>
      BY <1>2 DEF Asked
    <3>2. list = actionlist(g)[a + 1]
      BY <1>0
    <3> HIDE DEF list
    <3>3. CASE a = 0 /\ b = 0
      BY <3>1, <3>2, <3>3
    <3>4. CASE a = 0 /\ b = 1
      BY <3>1, <3>2, <3>4
    <3>5. CASE a = 1 /\ b = 0
      BY <3>1, <3>2, <3>5
    <3>6. CASE a = 1 /\ b = 1
      BY <3>1, <3>2, <3>6
    <3> QED
      BY <2>1, <3>3, <3>4, <3>5, <3>6
  <2> HIDE DEF list
  <2>5. CASE b = 0
    <3>1. asked = <<"down", list.p1>>
      BY <2>3, <2>4, <2>5
    <3>2. current(s, g) = eContact
      BY <1>0, <2>2, <2>5, Tables
    <3>3. actions(s, list)[b + 2] # eEnd
      BY <2>2, <2>5, Tables
    <3> QED
      <4>1. /\ asked[1] = "down" /\ asked[2] = list.p1
            /\ current(s, g).action = "contact" /\ current(s, g).pos = "p1"
        BY <3>1, <3>2 DEF eContact
      <4>2. b # 1
        BY <2>5
      <4> QED
        BY <1>2, <2>3, <3>3, <4>1, <4>2 DEF list, NextAsked
  <2>6. CASE b = 1
    <3>1. asked = <<"up", list.p2>>
      BY <2>3, <2>4, <2>6
    <3>2. current(s, g) = eRelease
      BY <1>0, <2>2, <2>6, Tables
    <3>3. actions(s, list)[b + 2] = eEnd
      BY <2>2, <2>6, Tables
    <3> QED
      <4>1. /\ asked[1] = "up" /\ asked[2] = list.p2
            /\ current(s, g).action = "release" /\ current(s, g).pos = "p2"
        BY <3>1, <3>2 DEF eRelease
      <4> QED
        BY <1>2, <2>3, <2>6, <3>3, <4>1 DEF list, NextAsked
  <2> QED
    BY <2>1, <2>5, <2>6
<1> QED
  BY <1>1, <1>2

\* A gesture that a contact is tried against holds what it has matched of the
\* contacts, this one included, or is recognised and holds all four.
LEMMA ContactDraws ==
  ASSUME NEW s \in GestureState, NEW g \in Gestures, NEW finger \in Fingers,
         NEW p \in Int \X Int, NEW push \in {"down", "up"},
         NEW c \in Seq(Contacts), Len(c) <= 4, NEW d, d = Latest(Append(c, <<p, push>>)),
         Matched(g, s.past, s.act[g], s.sub_act[g], c),
         NEW m, m = Contacted(s, g, finger, p, push)
  PROVE  \/ \E a \in Nat, b \in Nat : Leaves(s, g, m, a, b) /\ Matched(g, s.past, a, b, d)
         \/ m.found /\ At(s, g, m.state, 0, 0) /\ (Claimed(g, s.past) => Holds(g, 4, d))
<1>1. PICK a \in Nat, b \in Nat : a = s.act[g] /\ b = s.sub_act[g]
  BY DEF GestureState
<1>2. PICK x \in Contacts : x = <<p, push>>
  BY DEF Contacts
<1>3. /\ d \in Seq(Contacts) /\ Len(d) <= 4
      /\ \A h \in Gestures, n \in 0..3 :
           Holds(h, n, c) /\ Fits(h, n + 1, x) => Holds(h, n + 1, d)
  BY <1>2, Extended
<1>4. PICK list, step, last :
        list = current_list(s, g) /\ step = current(s, g) /\ last = actions(s, list)[b + 2]
  OBVIOUS
<1> DEFINE fits == /\ step.action = (IF push = "down" THEN "contact" ELSE "release")
                   /\ position_match(IF step.pos = "p1" THEN list.p1 ELSE list.p2, p)
<1>5. \/ Leaves(s, g, m, 0, 0)
      \/ fits /\ last # eEnd /\ Leaves(s, g, m, a, b + 1)
      \/ /\ fits /\ last = eEnd /\ a + 1 < Len(actionlist(g))
         /\ Leaves(s, g, m, a + 1, 0)
      \/ /\ fits /\ last = eEnd /\ ~(a + 1 < Len(actionlist(g)))
         /\ m.found /\ At(s, g, m.state, 0, 0)
  <2>1. ContactOutcome(s, g, p, push, m)
    BY ContactLeaves
  <2>2. b + 1 + 1 = b + 2
    OBVIOUS
  <2> QED
    BY <1>1, <1>4, <2>1, <2>2 DEF ContactOutcome
<1>6. CASE Leaves(s, g, m, 0, 0)
  <2>1. Matched(g, s.past, 0, 0, d)
    BY <1>3, Zeroes
  <2> QED
    BY <1>6, <2>1
<1>7. CASE ~Claimed(g, s.past)
  <2>1. \A u \in Nat, v \in Nat : Matched(g, s.past, u, v, d)
    BY <1>7 DEF Matched
  <2>2. a + 1 \in Nat /\ b + 1 \in Nat /\ 0 \in Nat
    OBVIOUS
  <2> HIDE DEF fits
  <2> QED
    BY <1>5, <1>7, <2>1, <2>2
<1>8. ASSUME Claimed(g, s.past), ~Leaves(s, g, m, 0, 0)
      PROVE  \/ \E u \in Nat, v \in Nat : Leaves(s, g, m, u, v) /\ Matched(g, s.past, u, v, d)
             \/ m.found /\ At(s, g, m.state, 0, 0) /\ Holds(g, 4, d)
  <2>1. InTables(g, a, b) /\ Holds(g, Counted(g, a, b), c)
    BY <1>1, <1>8 DEF Matched
  <2>2. PICK n : n = Counted(g, a, b)
    OBVIOUS
  <2>3. PICK asked : asked = Asked(g, n + 1)
    OBVIOUS
  <2>4. /\ n \in 0..3
        /\ step.action = (IF asked[1] = "down" THEN "contact" ELSE "release")
        /\ asked[1] \in {"down", "up"}
        /\ (IF step.pos = "p1" THEN list.p1 ELSE list.p2) = asked[2]
        /\ last = eEnd <=> b = (IF g \in Drags THEN 3 ELSE 1)
    <3>1. n \in 0..3 /\ NextAsked(s, g, b, asked)
      BY <1>1, <1>8, <2>1, <2>2, <2>3, NextStep
    <3> QED
      BY <1>4, <3>1 DEF NextAsked
  <2>5. fits
    BY <1>5, <1>8
  <2>6. asked[1] = push /\ position_match(asked[2], p)
    BY <2>4, <2>5
  <2>7. Fits(g, n + 1, x)
    BY <1>2, <2>3, <2>6 DEF Fits
  <2>8. Holds(g, n + 1, d)
    BY <1>3, <2>1, <2>2, <2>4, <2>7
  <2> HIDE DEF fits
  <2>9. CASE last # eEnd /\ Leaves(s, g, m, a, b + 1)
    <3>1. InTables(g, a, b + 1) /\ Counted(g, a, b + 1) = n + 1
      BY <2>1, <2>2, <2>4, <2>9 DEF InTables, Counted
    <3>2. Matched(g, s.past, a, b + 1, d)
      BY <2>8, <3>1 DEF Matched
    <3>3. b + 1 \in Nat
      OBVIOUS
    <3> QED
      BY <2>9, <3>2, <3>3
  <2>10. CASE /\ last = eEnd /\ a + 1 < Len(actionlist(g))
              /\ Leaves(s, g, m, a + 1, 0)
    <3>1. g \notin Drags /\ a = 0 /\ b = 1
      <4>1. ASSUME g \in Drags
            PROVE  FALSE
        <5>1. Len(actionlist(g)) = 1
          BY <4>1, Lists
        <5> QED
          BY <2>10, <5>1
      <4>2. Len(actionlist(g)) = 2
        BY <4>1, Lists
      <4> QED
        BY <2>1, <2>4, <2>10, <4>1, <4>2 DEF InTables
    <3>2. InTables(g, a + 1, 0) /\ Counted(g, a + 1, 0) = n + 1
      BY <2>2, <3>1 DEF InTables, Counted
    <3>3. Matched(g, s.past, a + 1, 0, d)
      BY <2>8, <3>2 DEF Matched
    <3>4. a + 1 \in Nat /\ 0 \in Nat
      OBVIOUS
    <3> QED
      BY <2>10, <3>3, <3>4
  <2>11. CASE /\ last = eEnd /\ ~(a + 1 < Len(actionlist(g)))
              /\ m.found /\ At(s, g, m.state, 0, 0)
    <3>1. n = 3
      <4>1. CASE g \in Drags
        BY <2>1, <2>2, <2>4, <2>11, <4>1 DEF InTables, Counted
      <4>2. CASE g \notin Drags
        <5>1. Len(actionlist(g)) = 2
          BY <4>2, Lists
        <5>2. a = 1 /\ b = 1
          BY <2>1, <2>4, <2>11, <4>2, <5>1 DEF InTables
        <5> QED
          BY <2>2, <4>2, <5>2 DEF Counted
      <4> QED
        BY <4>1, <4>2
    <3>2. Holds(g, 4, d)
      BY <2>8, <3>1
    <3> QED
      BY <2>11, <3>2
  <2> QED
    BY <1>5, <1>8, <2>9, <2>10, <2>11
<1> QED
  BY <1>6, <1>7, <1>8

\* The contacts after an event: a movement is none.
Noted(c, p, push) == IF push = "moved" THEN c ELSE Latest(Append(c, <<p, push>>))

LEMMA OneDraws ==
  ASSUME NEW r \in Results, r.call = "none", NEW g \in Gestures, NEW finger \in Fingers,
         NEW p \in Int \X Int, NEW push \in {"down", "up", "moved"},
         NEW c \in Seq(Contacts), Len(c) <= 4, NEW d, d = Noted(c, p, push),
         NEW past, past = r.state.past,
         Matched(g, past, r.state.act[g], r.state.sub_act[g], c),
         NEW t, t = Tried(r, g, finger, p, push)
  PROVE  /\ t.call = "none" => Matched(g, past, t.state.act[g], t.state.sub_act[g], d)
         /\ t.call # "none" => (Claimed(t.call, past) => Holds(t.call, 4, d))
<1>1. PICK s \in GestureState : s = r.state
  BY DEF Results
<1>2. g # "none"
  BY AllGestures
<1>3. CASE push = "moved"
  <2>1. PICK m : m = gesture_match_move(s, g, finger, p)
    OBVIOUS
  <2>2. t.state = m.state /\ t.call = IF m.found THEN g ELSE "none"
    BY <1>1, <1>3, <2>1 DEF Tried
  <2>3. Leaves(s, g, m, 0, 0) \/ Leaves(s, g, m, s.act[g], s.sub_act[g])
    BY <2>1, MoveLeaves
  <2>4. d = c
    BY <1>3 DEF Noted
  <2>5. Matched(g, past, 0, 0, d)
    BY <2>4, Zeroes
  <2> QED
    BY <1>1, <2>2, <2>3, <2>4, <2>5 DEF Leaves, At
<1>4. CASE push # "moved"
  <2>1. PICK m : m = Contacted(s, g, finger, p, push)
    OBVIOUS
  <2>2. t.state = m.state /\ t.call = IF m.found THEN g ELSE "none"
    BY <1>1, <1>4, <2>1 DEF Tried, Contacted
  <2>3. push \in {"down", "up"} /\ d = Latest(Append(c, <<p, push>>))
    BY <1>4 DEF Noted
  <2>4. Matched(g, s.past, s.act[g], s.sub_act[g], c)
    BY <1>1
  <2>5. \/ \E a \in Nat, b \in Nat : Leaves(s, g, m, a, b) /\ Matched(g, s.past, a, b, d)
        \/ m.found /\ At(s, g, m.state, 0, 0) /\ (Claimed(g, s.past) => Holds(g, 4, d))
    BY <2>1, <2>3, <2>4, ContactDraws
  <2>6. CASE \E a \in Nat, b \in Nat : Leaves(s, g, m, a, b) /\ Matched(g, s.past, a, b, d)
    <3>1. PICK a \in Nat, b \in Nat : Leaves(s, g, m, a, b) /\ Matched(g, s.past, a, b, d)
      BY <2>6
    <3>2. ~m.found /\ m.state.act[g] = a /\ m.state.sub_act[g] = b
      BY <3>1 DEF Leaves, At
    <3> QED
      BY <1>1, <2>2, <3>1, <3>2
  <2>7. CASE m.found /\ (Claimed(g, s.past) => Holds(g, 4, d))
    BY <1>1, <1>2, <2>2, <2>7
  <2> QED
    BY <2>5, <2>6, <2>7
<1> QED
  BY <1>3, <1>4

\* After k of the gestures in L have been tried, from the state s0.
DrawnAfter(s0, L, d, k) ==
    {r \in Results :
       /\ r.state.past = s0.past
       /\ r.call = "none" =>
            /\ r.state.runstate = s0.runstate
            /\ \A i \in 1..k :
                 Matched(L[i], s0.past, r.state.act[L[i]], r.state.sub_act[L[i]], d)
            /\ \A g \in Gestures :
                 (\A i \in 1..k : L[i] # g) =>
                   r.state.act[g] = s0.act[g] /\ r.state.sub_act[g] = s0.sub_act[g]
       /\ r.call # "none" => (Claimed(r.call, s0.past) => Holds(r.call, 4, d))}

\* The gestures of s hold what they have matched of the contacts c; the drags that
\* are not looked at while the daemon stands back have matched nothing.
Kept(s, c) ==
    /\ s \in GestureState /\ c \in Seq(Contacts) /\ Len(c) <= 4
    /\ \A g \in Gestures : Matched(g, s.past, s.act[g], s.sub_act[g], c)
    /\ s.runstate = "StandBack" => \A g \in Drags : s.act[g] = 0 /\ s.sub_act[g] = 0

LEMMA TriedDraws ==
  ASSUME NEW s, NEW c, Kept(s, c), NEW L, L = glist(s), NEW k \in 1..Len(L),
         NEW finger \in Fingers, NEW p \in Int \X Int, NEW push \in {"down", "up", "moved"},
         NEW d, d = Noted(c, p, push), NEW r \in DrawnAfter(s, L, d, k - 1)
  PROVE  Tried(r, L[k], finger, p, push) \in DrawnAfter(s, L, d, k)
<1>1. r \in Results
  BY DEF DrawnAfter
<1>2. CASE r.call # "none"
  <2>1. Tried(r, L[k], finger, p, push) = r
    BY <1>2 DEF Tried
  <2> QED
    BY <1>1, <1>2, <2>1 DEF DrawnAfter
<1>3. CASE r.call = "none"
  <2>1. PICK t : t = Tried(r, L[k], finger, p, push)
    OBVIOUS
  <2>2. /\ Len(L) \in Nat
        /\ \A i \in 1..Len(L) : L[i] \in Gestures
        /\ \A i \in 1..Len(L), j \in 1..Len(L) : L[i] = L[j] => i = j
    BY ListOf
  <2>3. PICK g \in Gestures : g = L[k]
    BY <2>2
  <2>4. t = Tried(r, g, finger, p, push)
    BY <2>1, <2>3
  <2>5. t \in Results /\ \E a \in Nat, b \in Nat : At(r.state, g, t.state, a, b)
    BY <1>1, <1>3, <2>4, OneTried
  <2>6. PICK a \in Nat, b \in Nat : At(r.state, g, t.state, a, b)
    BY <2>5
  <2>7. /\ r.state.past = s.past /\ r.state.runstate = s.runstate
        /\ \A i \in 1..(k - 1) :
             Matched(L[i], s.past, r.state.act[L[i]], r.state.sub_act[L[i]], d)
        /\ \A h \in Gestures :
             (\A i \in 1..(k - 1) : L[i] # h) =>
               r.state.act[h] = s.act[h] /\ r.state.sub_act[h] = s.sub_act[h]
    BY <1>3 DEF DrawnAfter
  <2>8. \A i \in 1..(k - 1) : L[i] \in Gestures \ {g}
    BY <2>2, <2>3
  <2>9. r.state.act[g] = s.act[g] /\ r.state.sub_act[g] = s.sub_act[g]
    BY <2>7, <2>8
  <2>10. /\ t.call = "none" => Matched(g, s.past, t.state.act[g], t.state.sub_act[g], d)
         /\ t.call # "none" => (Claimed(t.call, s.past) => Holds(t.call, 4, d))
    <3>1. Matched(g, s.past, r.state.act[g], r.state.sub_act[g], c)
      BY <2>9 DEF Kept
    <3>2. c \in Seq(Contacts) /\ Len(c) <= 4
      BY DEF Kept
    <3>3. PICK past : past = s.past
      OBVIOUS
    <3> QED
      BY <1>1, <1>3, <2>4, <2>7, <3>1, <3>2, <3>3, OneDraws
  <2>11. t.state.past = s.past /\ t.state.runstate = s.runstate
    BY <2>6, <2>7 DEF At
  <2>12. \A i \in 1..k : t.call = "none" =>
           Matched(L[i], s.past, t.state.act[L[i]], t.state.sub_act[L[i]], d)
    <3> TAKE i \in 1..k
    <3>1. CASE i = k
      BY <2>3, <2>10, <3>1
    <3>2. CASE i # k
      <4>1. i \in 1..(k - 1)
        BY <2>2, <3>2
      <4>2. L[i] \in Gestures \ {g}
        BY <2>8, <4>1
      <4>3. t.state.act[L[i]] = r.state.act[L[i]] /\ t.state.sub_act[L[i]] = r.state.sub_act[L[i]]
        BY <2>6, <4>2 DEF At
      <4> QED
        BY <2>7, <4>1, <4>3
    <3> QED
      BY <3>1, <3>2
  <2>13. \A h \in Gestures :
           (\A i \in 1..k : L[i] # h) =>
             t.state.act[h] = s.act[h] /\ t.state.sub_act[h] = s.sub_act[h]
    <3> SUFFICES ASSUME NEW h \in Gestures, \A i \in 1..k : L[i] # h
                 PROVE  t.state.act[h] = s.act[h] /\ t.state.sub_act[h] = s.sub_act[h]
      OBVIOUS
    <3>1. h # g /\ \A i \in 1..(k - 1) : L[i] # h
      BY <2>2, <2>3
    <3>2. t.state.act[h] = r.state.act[h] /\ t.state.sub_act[h] = r.state.sub_act[h]
      BY <2>6, <3>1 DEF At
    <3> QED
      BY <2>7, <3>1, <3>2
  <2> QED
    BY <2>1, <2>5, <2>10, <2>11, <2>12, <2>13 DEF DrawnAfter
<1> QED
  BY <1>2, <1>3

LEMMA StartedKept ==
  ASSUME NEW s, NEW c, Kept(s, c), NEW b, b = Started(s)
  PROVE  Kept(b, c) /\ b.past = s.past
<1>1. s \in GestureState /\ c \in Seq(Contacts)
  BY DEF Kept
<1>2. /\ b \in GestureState /\ b.past = s.past
      /\ b = s \/ \A g \in Gestures : b.act[g] = 0 /\ b.sub_act[g] = 0
  BY <1>1, StartedFields
<1>3. CASE b = s
  BY <1>2, <1>3
<1>4. CASE \A g \in Gestures : b.act[g] = 0 /\ b.sub_act[g] = 0
  <2>1. \A g \in Gestures : Matched(g, b.past, b.act[g], b.sub_act[g], c)
    BY <1>1, <1>4, Zeroes
  <2>2. Drags \subseteq Gestures
    BY AllGestures DEF Drags
  <2> QED
    BY <1>2, <1>4, <2>1, <2>2 DEF Kept
<1> QED
  BY <1>2, <1>3, <1>4

LEMMA HandlerDraws ==
  ASSUME NEW s, NEW c, Kept(s, c),
         NEW finger \in Fingers, NEW p \in Int \X Int, NEW push \in {"down", "up", "moved"},
         NEW d, d = Noted(c, p, push),
         NEW h, h = gesture_handler(s, finger, p, push)
  PROVE  /\ Kept(h.state, d) /\ h.state.past = s.past
         /\ h.call # "none" => (Claimed(h.call, s.past) => Holds(h.call, 4, d))
<1>1. PICK b : b = Started(s)
  OBVIOUS
<1>2. Kept(b, c) /\ b.past = s.past
  BY <1>1, StartedKept
<1>3. PICK L : L = glist(b)
  OBVIOUS
<1>4. Len(L) \in Nat /\ ToSet(L) = {L[i] : i \in 1..Len(L)}
  BY <1>3, ListOf
<1> DEFINE R == [k \in 0..Len(L) |-> DrawnAfter(b, L, d, k)]
<1>5. Begun(s) \in R[0]
  <2>1. Begun(s) = [state |-> b, call |-> "none", tracking |-> 0]
    BY <1>1 DEF Begun
  <2>2. Begun(s) \in Results
    BY <1>2, <2>1 DEF Results, Kept
  <2>3. Begun(s) \in DrawnAfter(b, L, d, 0)
    BY <2>1, <2>2 DEF DrawnAfter
  <2> QED
    BY <1>4, <2>3
<1>6. \A k \in 1..Len(L) : \A r \in R[k - 1] : Tried(r, L[k], finger, p, push) \in R[k]
  <2> TAKE k \in 1..Len(L)
  <2>1. R[k - 1] = DrawnAfter(b, L, d, k - 1) /\ R[k] = DrawnAfter(b, L, d, k)
    BY <1>4
  <2> HIDE DEF R
  <2>2. \A r \in DrawnAfter(b, L, d, k - 1) :
          Tried(r, L[k], finger, p, push) \in DrawnAfter(b, L, d, k)
    BY <1>2, <1>3, TriedDraws, Zenon
  <2> QED
    BY <2>1, <2>2
<1>7. R[Len(L)] = DrawnAfter(b, L, d, Len(L))
  BY <1>4
<1> HIDE DEF R
<1>8. PICK last \in DrawnAfter(b, L, d, Len(L)) : h = Concluded(last)
  <2>1. L = glist(Started(s))
    BY <1>1, <1>3
  <2>2. PICK Q : Q = R
    OBVIOUS
  <2>3. /\ Begun(s) \in Q[0]
        /\ \A k \in 1..Len(L) : \A r \in Q[k - 1] : Tried(r, L[k], finger, p, push) \in Q[k]
    BY <1>5, <1>6, <2>2
  <2>4. \E last \in Q[Len(L)] : gesture_handler(s, finger, p, push) = Concluded(last)
    BY <2>1, <2>3, HandlerEnds
  <2> QED
    BY <1>7, <2>2, <2>4
<1>9. /\ last \in Results /\ last.state \in GestureState /\ last.state.past = s.past
  BY <1>2 DEF DrawnAfter, Results
<1>10. d \in Seq(Contacts) /\ Len(d) <= 4
  <2>1. c \in Seq(Contacts) /\ Len(c) <= 4
    BY DEF Kept
  <2>2. CASE push = "moved"
    BY <2>1, <2>2 DEF Noted
  <2>3. CASE push # "moved"
    <3>1. PICK x \in Contacts : x = <<p, push>>
      BY <2>3 DEF Contacts
    <3>2. d = Latest(Append(c, x))
      BY <2>3, <3>1 DEF Noted
    <3> QED
      BY <2>1, <3>2, Extended
  <2> QED
    BY <2>2, <2>3
<1>11. Drags \subseteq Gestures
  BY AllGestures DEF Drags
<1>12. CASE last.call = "none"
  <2>1. h = last
    BY <1>8, <1>12 DEF Concluded
  <2>2. /\ last.state.runstate = b.runstate
        /\ \A i \in 1..Len(L) :
             Matched(L[i], b.past, last.state.act[L[i]], last.state.sub_act[L[i]], d)
        /\ \A g \in Gestures :
             (\A i \in 1..Len(L) : L[i] # g) =>
               last.state.act[g] = b.act[g] /\ last.state.sub_act[g] = b.sub_act[g]
    BY <1>12 DEF DrawnAfter
  <2>3. \A g \in Gestures : g \notin ToSet(L) => b.runstate = "StandBack" /\ g \in Drags
    <3> TAKE g \in Gestures
    <3>1. CASE b.runstate # "StandBack"
      <4>1. L = gestures
        BY <1>3, <3>1 DEF glist
      <4> QED
        BY <4>1 DEF Gestures
    <3>2. CASE b.runstate = "StandBack"
      <4>1. "CrossL" \in ToSet(L) /\ "CrossR" \in ToSet(L)
        BY <1>3, ListOf
      <4> QED
        BY <3>2, <4>1, AllGestures DEF Drags
    <3> QED
      BY <3>1, <3>2
  <2>4. \A g \in Gestures \ ToSet(L) : last.state.act[g] = 0 /\ last.state.sub_act[g] = 0
    <3> TAKE g \in Gestures \ ToSet(L)
    <3>1. \A i \in 1..Len(L) : L[i] # g
      BY <1>4
    <3>2. b.act[g] = 0 /\ b.sub_act[g] = 0
      BY <1>2, <2>3 DEF Kept
    <3> QED
      BY <2>2, <3>1, <3>2
  <2>5. \A g \in Gestures :
          Matched(g, s.past, last.state.act[g], last.state.sub_act[g], d)
    <3> TAKE g \in Gestures
    <3>1. CASE g \in ToSet(L)
      BY <1>2, <1>4, <2>2, <3>1
    <3>2. CASE g \notin ToSet(L)
      BY <1>10, <2>4, <3>2, Zeroes
    <3> QED
      BY <3>1, <3>2
  <2>6. last.state.runstate = "StandBack" =>
          \A g \in Drags : last.state.act[g] = 0 /\ last.state.sub_act[g] = 0
    <3> SUFFICES ASSUME last.state.runstate = "StandBack", NEW g \in Drags
                 PROVE  last.state.act[g] = 0 /\ last.state.sub_act[g] = 0
      OBVIOUS
    <3>1. L = standback_gestures
      BY <1>3, <2>2 DEF glist
    <3>2. g \notin ToSet(L)
      <4>1. Len(L) = 2 /\ L[1] = "CrossL" /\ L[2] = "CrossR"
        BY <3>1 DEF standback_gestures
      <4>2. \A i \in 1..2 : i = 1 \/ i = 2
        OBVIOUS
      <4> QED
        BY <1>4, <4>1, <4>2 DEF Drags
    <3> QED
      BY <1>11, <2>4, <3>2
  <2> QED
    BY <1>9, <1>10, <1>12, <2>1, <2>5, <2>6 DEF Kept
<1>13. CASE last.call # "none"
  <2>1. PICK u \in GestureState :
           u = IF last.call \in {"CrossL", "CrossR"} THEN standback(last.state) ELSE last.state
    BY <1>9, StandbackFields
  <2>2. u.past = s.past
    BY <1>9, <2>1, StandbackFields
  <2>3. PICK e : e = gestures_clean(u)
    OBVIOUS
  <2>4. /\ e \in GestureState /\ e.past = s.past
        /\ \A g \in Gestures : e.act[g] = 0 /\ e.sub_act[g] = 0
    BY <2>2, <2>3, CleanFields
  <2>5. h = [last EXCEPT !.tracking = 0, !.state = e]
    BY <1>8, <1>13, <2>1, <2>3 DEF Concluded
  <2>6. h.state = e /\ h.call = last.call
    BY <1>9, <2>5 DEF Results
  <2>7. Claimed(last.call, s.past) => Holds(last.call, 4, d)
    BY <1>2, <1>13 DEF DrawnAfter
  <2>8. \A g \in Gestures : Matched(g, e.past, e.act[g], e.sub_act[g], d)
    BY <1>10, <2>4, Zeroes
  <2> QED
    BY <1>10, <1>11, <2>4, <2>6, <2>7, <2>8 DEF Kept
<1> QED
  BY <1>12, <1>13

\* The inductive invariant of the gestures on their own.
DrawnInv ==
    /\ Kept(gesturing, drawn.contacts)
    /\ drawn.as # "none" =>
         (Claimed(drawn.as, gesturing.past) => Holds(drawn.as, 4, drawn.contacts))

LEMMA WholeWasDrawn == DrawnInv => GestureWasDrawn
<1> SUFFICES ASSUME DrawnInv
             PROVE  GestureWasDrawn
  OBVIOUS
<1> DEFINE c == drawn.contacts
           g == drawn.as
<1>1. ASSUME g # "none", Claimed(g, gesturing.past)
      PROVE  Len(c) = 4 /\ \A i \in 1..4 : Fits(g, i, c[i])
  <2>1. PICK l \in 0..4 : l = Len(c)
    <3>1. c \in Seq(Contacts) /\ Len(c) <= 4
      BY DEF DrawnInv, Kept
    <3>2. PICK n \in Nat : n = Len(c)
      BY <3>1, LenProperties
    <3>3. n \in 0..4
      <4>1. n <= 4
        BY <3>1, <3>2
      <4> QED
        BY <4>1
    <3> QED
      BY <3>2, <3>3
  <2>2. 4 <= l /\ \A i \in 1..4 : Fits(g, i, c[l - 4 + i])
    BY <1>1, <2>1 DEF DrawnInv, Holds
  <2>3. l = 4
    <3>1. 4 <= l
      BY <2>2
    <3> QED
      BY <3>1
  <2>4. \A i \in 1..4 : l - 4 + i = i
    BY <2>3
  <2> QED
    BY <2>1, <2>2, <2>3, <2>4
<1>2. SwitchWasDrawn
  <2> SUFFICES ASSUME g \in Drags
               PROVE  LET drag == actionlist(g)[1]
                      IN  /\ Len(c) = 4
                          /\ \A i \in 1..2 : Was(i, "down", drag.p1)
                          /\ \A i \in 3..4 : Was(i, "up", drag.p2)
    BY DEF SwitchWasDrawn, Drags
  <2>1. Len(c) = 4 /\ \A i \in 1..4 : Fits(g, i, c[i])
    BY <1>1 DEF Drags, Claimed
  <2>2. /\ \A i \in 1..2 : Asked(g, i) = <<"down", actionlist(g)[1].p1>>
        /\ \A i \in 3..4 : Asked(g, i) = <<"up", actionlist(g)[1].p2>>
    BY DEF Asked
  <2>3. \A i \in 1..2 : Was(i, "down", actionlist(g)[1].p1)
    BY <2>1, <2>2 DEF Fits, Was
  <2>4. \A i \in 3..4 : Was(i, "up", actionlist(g)[1].p2)
    BY <2>1, <2>2 DEF Fits, Was
  <2> QED
    BY <2>1, <2>3, <2>4
<1>3. CrossWasDrawn
  <2> SUFFICES ASSUME g \in {"CrossL", "CrossR"}, gesturing.past = "end"
               PROVE  LET list == actionlist(g)
                      IN  /\ Len(c) = 4
                          /\ \A i \in 1..2 : /\ Was(2 * i - 1, "down", list[i].p1)
                                             /\ Was(2 * i, "up", list[i].p2)
    BY DEF CrossWasDrawn
  <2>1. Len(c) = 4 /\ \A i \in 1..4 : Fits(g, i, c[i])
    BY <1>1 DEF Claimed
  <2>2. /\ Asked(g, 1) = <<"down", actionlist(g)[1].p1>>
        /\ Asked(g, 2) = <<"up", actionlist(g)[1].p2>>
        /\ Asked(g, 3) = <<"down", actionlist(g)[2].p1>>
        /\ Asked(g, 4) = <<"up", actionlist(g)[2].p2>>
    BY DEF Asked, Drags
  <2>3. /\ Was(1, "down", actionlist(g)[1].p1) /\ Was(2, "up", actionlist(g)[1].p2)
        /\ Was(3, "down", actionlist(g)[2].p1) /\ Was(4, "up", actionlist(g)[2].p2)
    BY <2>1, <2>2 DEF Fits, Was
  <2>4. \A i \in 1..2 : /\ Was(2 * i - 1, "down", actionlist(g)[i].p1)
                        /\ Was(2 * i, "up", actionlist(g)[i].p2)
    <3> TAKE i \in 1..2
    <3>1. CASE i = 1
      BY <2>3, <3>1
    <3>2. CASE i = 2
      BY <2>3, <3>2
    <3> QED
      BY <3>1, <3>2
  <2> QED
    BY <2>1, <2>4
<1> QED
  BY <1>2, <1>3 DEF GestureWasDrawn

\* A guest is switched, or the daemon stands back, only for the four contacts that
\* its gesture is made of, whatever the size of the screen, the fingers and the
\* places, and whatever the other gestures have matched meanwhile (gesture_match).
THEOREM RecognisedWasDrawn == GestureSpec => []GestureWasDrawn
<1>1. GestureInit => DrawnInv
  <2> SUFFICES ASSUME GestureInit
               PROVE  DrawnInv
    OBVIOUS
  <2>1. PICK past \in {"end", "twodrag"} : gesturing = eStartup(past)
    BY DEF GestureInit
  <2>2. /\ gesturing \in GestureState /\ gesturing.runstate = "Startup"
        /\ \A g \in Gestures : gesturing.act[g] = 0 /\ gesturing.sub_act[g] = 0
    BY <2>1 DEF eStartup, GestureState, RunStates
  <2>3. PICK c \in Seq(Contacts) : c = drawn.contacts /\ Len(c) = 0 /\ drawn.as = "none"
    <3>1. << >> \in Seq(Contacts) /\ Len(<< >>) = 0
      OBVIOUS
    <3>2. drawn.contacts = << >> /\ drawn.as = "none"
      BY DEF GestureInit
    <3> QED
      BY <3>1, <3>2
  <2>4. \A g \in Gestures : Matched(g, gesturing.past, gesturing.act[g], gesturing.sub_act[g], c)
    BY <2>2, <2>3, Zeroes
  <2>5. Kept(gesturing, drawn.contacts)
    BY <2>2, <2>3, <2>4 DEF Kept
  <2> QED
    BY <2>3, <2>5 DEF DrawnInv
<1>2. DrawnInv /\ [GestureNext]_gesture_vars => DrawnInv'
  <2>1. ASSUME DrawnInv, UNCHANGED gesture_vars
        PROVE  DrawnInv'
    BY <2>1 DEF gesture_vars, DrawnInv
  <2>2. ASSUME DrawnInv, NEW finger \in Fingers, NEW p \in GesturePoints,
               NEW push \in {"down", "up", "moved"}, gesture_event(finger, p, push)
        PROVE  DrawnInv'
    <3>1. p \in Int \X Int
      BY GesturePointsAssumption
    <3>2. PICK s, c : s = gesturing /\ c = drawn.contacts
      OBVIOUS
    <3>3. Kept(s, c)
      BY <2>2, <3>2 DEF DrawnInv
    <3>4. PICK h, d : h = gesture_handler(s, finger, p, push) /\ d = Noted(c, p, push)
      OBVIOUS
    <3>5. /\ Kept(h.state, d) /\ h.state.past = s.past
          /\ h.call # "none" => (Claimed(h.call, s.past) => Holds(h.call, 4, d))
      BY <3>1, <3>3, <3>4, HandlerDraws
    <3>6. gesturing' = h.state /\ drawn' = [contacts |-> d, as |-> h.call]
      BY <2>2, <3>2, <3>4 DEF gesture_event, Noted
    <3>7. drawn'.contacts = d /\ drawn'.as = h.call
      BY <3>6
    <3>8. s.past = gesturing'.past
      BY <3>5, <3>6
    <3> QED
      BY <3>5, <3>6, <3>7, <3>8 DEF DrawnInv
  <2> QED
    BY <2>1, <2>2 DEF GestureNext
<1> QED
  BY <1>1, <1>2, WholeWasDrawn, PTL DEF GestureSpec

=============================================================================
