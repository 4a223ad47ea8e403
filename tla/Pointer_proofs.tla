--------------------------- MODULE Pointer_proofs ---------------------------
(***************************************************************************)
(* Theorems about Pointer: that it steers the routing as DomainFocus does, *)
(* that what the guests take for held is what the user holds, on the mice  *)
(* and on the touchscreen, and that a held button keeps its guest.         *)
(***************************************************************************)
EXTENDS Pointer, DomainFocus_proofs, SequenceTheorems, FiniteSetTheorems

USE DEF NULL, NoDomid, NoSlot, REBOOT, RUNNING

-----------------------------------------------------------------------------
(* Path states.                                                            *)

Codes == Buttons \cup {"BTN_TOUCH", "BTN_LEFT"}

Typed(c) ==
    /\ c = [s |-> c.s, p |-> c.p, t |-> c.t]
    /\ Calm(c.s)
    /\ c.p \in PointerState
    /\ c.t \in [Rec -> SUBSET Codes]

\* demultitouch follows no contact and holds nothing back.
Quiet(mt) ==
    mt.slot = 0 /\ mt.deferpressed = "nope" /\ ~mt.draining /\ ~mt.pressed

\* A mouse's events.
MouseEvent(e) ==
    \/ e.kind = "KEY" /\ e.code \in Buttons /\ e.value \in {0, 1}
    \/ e.kind = "REL" /\ e.code \in {"in", "out"}
    \/ e.kind = "SYN"

\* The fields that sending leaves alone.
SameHands(p, q) ==
    /\ q.mode = p.mode /\ q.at = p.at /\ q.buttons = p.buttons
    /\ q.button_holding = p.button_holding /\ q.last_d = p.last_d
    /\ q.mouse_pressed = p.mouse_pressed

\* From c to T only the guests in R have been told, of the event e.
Tells(c, T, R, e) ==
    /\ Typed(T) /\ T.s = c.s
    /\ SameHands(c.p, T.p) /\ Quiet(T.p.mt)
    /\ \A r \in Rec : T.t[r] = IF r \in R THEN Told(c.t[r], e) ELSE c.t[r]

LEMMA PathFields ==
  ASSUME NEW c, Typed(c), NEW x
  PROVE  /\ [c EXCEPT !.s = x] = [s |-> x, p |-> c.p, t |-> c.t]
         /\ [c EXCEPT !.p = x] = [s |-> c.s, p |-> x, t |-> c.t]
         /\ [c EXCEPT !.t = x] = [s |-> c.s, p |-> c.p, t |-> x]
  BY DEF Typed

LEMMA TypedPath ==
  ASSUME NEW s, Calm(s), NEW p \in PointerState, NEW t \in [Rec -> SUBSET Codes]
  PROVE  Typed([s |-> s, p |-> p, t |-> t])
  BY DEF Typed

LEMMA PtFields ==
  ASSUME NEW p \in PointerState
  PROVE  /\ p.mode \in [Rec -> Modes \cup {{}}]
         /\ p.at \in {"in", "out"}
         /\ p.buttons \in SUBSET Buttons
         /\ p.button_holding \in 0..2
         /\ p.last_d \in Ptr
         /\ p.mouse_pressed \in Seq(Pressed)
         /\ p.mt \in MtState
  BY DEF PointerState

LEMMA IdleSend ==
  ASSUME NEW mt \in MtState, Quiet(mt), NEW S, NEW e, e.kind \in {"KEY", "REL", "SYN"}
  PROVE  /\ input_send(mt, S, e).mt \in MtState
         /\ Quiet(input_send(mt, S, e).mt)
         /\ input_send(mt, S, e).told = Told(S, e)
<1> DEFINE t == [mt EXCEPT !.had_slot0 = IF e.kind = "SYN" THEN FALSE ELSE TRUE]
<1>1. t \in MtState /\ Quiet(t)
  BY DEF MtState, Quiet
<1>2. demultitouch(mt, e) = Outcome(t, e, "send")
  BY DEF demultitouch, EndFrame, Outcome, Quiet, MtState
<1> HIDE DEF t
<1>3. input_send(mt, S, e) = [mt |-> t, told |-> Told(S, e)]
  BY <1>2 DEF input_send, Outgoing, Outcome, Done, Sent
<1> QED
  BY <1>1, <1>3

LEMMA ToldCodes ==
  ASSUME NEW S \in SUBSET Codes, NEW e, e.kind = "KEY" => e.code \in Codes
  PROVE  Told(S, e) \in SUBSET Codes
  BY DEF Told

LEMMA SendTells ==
  ASSUME NEW c, Typed(c), Quiet(c.p.mt), NEW d \in Ptr, NEW e, MouseEvent(e)
  PROVE  Tells(c, Send(c, d, e), {d}, e)
<1>1. e.kind \in {"KEY", "REL", "SYN"} /\ (e.kind = "KEY" => e.code \in Codes)
  BY DEF MouseEvent, Codes
<1>2. /\ c = [s |-> c.s, p |-> c.p, t |-> c.t]
      /\ Calm(c.s) /\ c.p \in PointerState /\ c.p.mt \in MtState
      /\ c.t \in [Rec -> SUBSET Codes]
  BY PtFields DEF Typed
<1>3. CASE d = NULL
  <2>1. Send(c, d, e) = c /\ d \notin Rec
    BY <1>3, Pointers DEF Send
  <2> QED
    BY <2>1, <1>2 DEF Tells, SameHands
<1>4. CASE d # NULL
  <2> DEFINE t == [c.t EXCEPT ![d] = Told(c.t[d], e)]
  <2>1. d \in Rec
    BY <1>4 DEF Ptr
  <2>2. t \in [Rec -> SUBSET Codes]
    BY <1>1, <1>2, <2>1, ToldCodes
  <2>3. \A r \in Rec : t[r] = IF r \in {d} THEN Told(c.t[r], e) ELSE c.t[r]
    BY <1>2, <2>1
  <2>4. CASE ~is_pv_domain(c.s, d)
    <3>1. Send(c, d, e) = [s |-> c.s, p |-> c.p, t |-> t]
      BY <1>2, <1>4, <2>4 DEF Send
    <3> HIDE DEF t
    <3>2. Typed(Send(c, d, e))
      BY <1>2, <2>2, <3>1, TypedPath
    <3> QED
      BY <2>3, <3>1, <3>2 DEF Tells, SameHands
  <2>5. CASE is_pv_domain(c.s, d)
    <3> DEFINE mt == input_send(c.p.mt, c.t[d], e).mt
               p  == [c.p EXCEPT !.mt = mt]
    <3>1. mt \in MtState /\ Quiet(mt) /\ input_send(c.p.mt, c.t[d], e).told = Told(c.t[d], e)
      BY <1>1, <1>2, IdleSend
    <3>2. Send(c, d, e) = [s |-> c.s, p |-> p, t |-> t]
      <4>1. Send(c, d, e) = Carried(c, d, input_send(c.p.mt, c.t[d], e))
        BY <1>4, <2>5 DEF Send
      <4>2. ASSUME NEW o
            PROVE  Carried(c, d, o) = [s |-> c.s, p |-> [c.p EXCEPT !.mt = o.mt],
                                       t |-> [c.t EXCEPT ![d] = o.told]]
        <5> DEFINE q == [c.p EXCEPT !.mt = o.mt]
        <5>1. Carried(c, d, o) = [[c EXCEPT !.p = q] EXCEPT !.t[d] = o.told]
          BY DEF Carried
        <5> HIDE DEF q
        <5>2. [c EXCEPT !.p = q] = [s |-> c.s, p |-> q, t |-> c.t]
          BY PathFields
        <5>3. Carried(c, d, o) = [s |-> c.s, p |-> q, t |-> [c.t EXCEPT ![d] = o.told]]
          BY <5>1, <5>2
        <5> QED
          BY <5>3 DEF q
      <4> QED
        BY <3>1, <4>1, <4>2
    <3> HIDE DEF mt, t
    <3>3. p \in PointerState /\ SameHands(c.p, p) /\ p.mt = mt
      BY <1>2, <3>1 DEF PointerState, SameHands
    <3> HIDE DEF p
    <3>4. Typed(Send(c, d, e))
      BY <1>2, <2>2, <3>2, <3>3, TypedPath
    <3> QED
      BY <2>3, <3>1, <3>2, <3>3, <3>4 DEF Tells
  <2> QED
    BY <2>4, <2>5
<1> QED
  BY <1>3, <1>4

\* Mouse and keyboard are apart only while a click is awaited: the old seamless
\* mode does not come about.
LEMMA DispatchSends ==
  ASSUME NEW c, Typed(c), NEW d, NEW e
  PROVE  Dispatch(c, d, e) = Send(c, d, e)
  BY DEF Dispatch, Typed, Calm, ApartWaits

-----------------------------------------------------------------------------
(* The list of pressed buttons.                                            *)

\* The button an entry is about.
ButtonOf(mb) == <<mb.slot, mb.code>>

\* One entry for each button of H, with a guest of D.
Exact(list, H, D) ==
    /\ Len(list) = Cardinality(H)
    /\ \A i \in DOMAIN list : ButtonOf(list[i]) \in H /\ list[i].domain \in D
    /\ \A i, j \in DOMAIN list : ButtonOf(list[i]) = ButtonOf(list[j]) => i = j
    /\ \A h \in H : \E i \in DOMAIN list : ButtonOf(list[i]) = h

\* An entry sends the release of a button with that code to r.
Pointed(list, code, r) ==
    \E i \in DOMAIN list : list[i].code = code /\ list[i].domain = r

LEMMA FirstOf ==
  ASSUME NEW R \in SUBSET (Nat \ {0})
  PROVE  /\ R = {} => First(R) = 0
         /\ R # {} => First(R) \in R
<1>1. CASE R = {}
  BY <1>1 DEF First
<1>2. CASE R # {}
  <2>1. PICK x \in R : \A y \in R : ~ (<<y, x>> \in Lt)
    BY <1>2, LtWellFounded, WFMin
  <2>2. \A a, b \in Nat : a < b => <<a, b>> \in Lt
    BY LtHolds, Zenon
  <2>3. ASSUME NEW y \in R PROVE x <= y
    <3>1. ~ (y < x)
      BY <2>1, <2>2
    <3> QED
      BY <3>1
  <2> QED
    BY <1>2, <2>3 DEF First
<1> QED
  BY <1>1, <1>2

LEMMA MatchingEntry ==
  ASSUME NEW list \in Seq(Pressed), NEW H, NEW D, Exact(list, H, D), NEW slot, NEW code
  PROVE  LET i == Matching(list, slot, code) IN
         IF <<slot, code>> \in H
         THEN /\ i \in DOMAIN list /\ i # 0
              /\ list[i].code = code /\ list[i].slot = slot
         ELSE i = 0
<1> DEFINE R == {i \in DOMAIN list : list[i].code = code /\ list[i].slot = slot}
<1>1. R \in SUBSET (Nat \ {0})
  OBVIOUS
<1>2. R = {} <=> <<slot, code>> \notin H
  BY DEF Exact, ButtonOf
<1>3. Matching(list, slot, code) = First(R)
  BY DEF Matching
<1>4. \A i \in R : i \in DOMAIN list /\ i # 0 /\ list[i].code = code /\ list[i].slot = slot
  BY <1>1
<1> HIDE DEF R
<1> QED
  BY <1>1, <1>2, <1>3, <1>4, FirstOf

LEMMA AppendExact ==
  ASSUME NEW list \in Seq(Pressed), NEW H, NEW D, Exact(list, H, D), IsFiniteSet(H),
         NEW mb \in Pressed, ButtonOf(mb) \notin H, mb.domain \in D
  PROVE  /\ Append(list, mb) \in Seq(Pressed)
         /\ Exact(Append(list, mb), H \cup {ButtonOf(mb)}, D)
         /\ \A code, r : Pointed(list, code, r) \/ (mb.code = code /\ mb.domain = r)
                            => Pointed(Append(list, mb), code, r)
<1> DEFINE l == Append(list, mb)
           n == Len(list)
           K == H \cup {ButtonOf(mb)}
<1>1. /\ l \in Seq(Pressed) /\ Len(l) = n + 1 /\ n \in Nat
      /\ DOMAIN l = 1..(n + 1) /\ DOMAIN list = 1..n
      /\ l[n + 1] = mb /\ \A i \in 1..n : l[i] = list[i]
  OBVIOUS
<1>2. Len(l) = Cardinality(K)
  BY <1>1, FS_AddElement DEF Exact
<1> HIDE DEF l
<1>3. \A i \in DOMAIN l : ButtonOf(l[i]) \in K /\ l[i].domain \in D
  BY <1>1 DEF Exact
<1>4. ASSUME NEW i \in DOMAIN l, NEW j \in DOMAIN l, ButtonOf(l[i]) = ButtonOf(l[j])
      PROVE  i = j
  <2>1. \A k \in 1..n : ButtonOf(l[k]) \in H
    BY <1>1 DEF Exact
  <2>2. (i \in 1..n \/ i = n + 1) /\ (j \in 1..n \/ j = n + 1)
    BY <1>1
  <2> QED
    BY <1>1, <1>4, <2>1, <2>2 DEF Exact
<1>5. \A h \in K : \E i \in DOMAIN l : ButtonOf(l[i]) = h
  <2>1. \A h \in H : \E i \in 1..n : ButtonOf(l[i]) = h
    BY <1>1 DEF Exact
  <2>2. n + 1 \in DOMAIN l /\ 1..n \subseteq DOMAIN l
    BY <1>1
  <2> QED
    BY <1>1, <2>1, <2>2
<1>6. \A code, r : Pointed(list, code, r) \/ (mb.code = code /\ mb.domain = r)
                      => Pointed(l, code, r)
  BY <1>1 DEF Pointed
<1>7. Exact(l, K, D)
  BY <1>2, <1>3, <1>4, <1>5 DEF Exact
<1> QED
  BY <1>1, <1>6, <1>7 DEF l

LEMMA WithoutEntry ==
  ASSUME NEW list \in Seq(Pressed), NEW i \in DOMAIN list
  PROVE  /\ Without(list, i) \in Seq(Pressed)
         /\ Len(Without(list, i)) = Len(list) - 1
         /\ \A k \in 1..(Len(list) - 1) :
               Without(list, i)[k] = list[IF k < i THEN k ELSE k + 1]
<1> DEFINE n == Len(list)
           a == SubSeq(list, 1, i - 1)
           b == SubSeq(list, i + 1, n)
<1>1. n \in Nat /\ i \in 1..n /\ \A k \in 1..n : list[k] \in Pressed
  OBVIOUS
<1>2. /\ a \in Seq(Pressed) /\ Len(a) = i - 1
      /\ \A k \in 1..(i - 1) : a[k] = list[k]
  <2>1. \A k \in 1..(i - 1) : list[k] \in Pressed
    BY <1>1
  <2> QED
    BY <1>1, <2>1, SubSeqProperties
<1>3. /\ b \in Seq(Pressed) /\ Len(b) = n - i
      /\ \A k \in 1..(n - i) : b[k] = list[k + i]
  <2>1. \A k \in (i + 1)..n : list[k] \in Pressed
    BY <1>1
  <2>2. /\ b \in Seq(Pressed) /\ Len(b) = IF i + 1 <= n THEN n - (i + 1) + 1 ELSE 0
        /\ \A k \in 1..(n - (i + 1) + 1) : b[k] = list[i + 1 + k - 1]
    BY <1>1, <2>1, SubSeqProperties
  <2> QED
    BY <1>1, <2>2
<1>4. Without(list, i) = a \o b
  BY DEF Without
<1> HIDE DEF a, b
<1>5. /\ a \o b \in Seq(Pressed) /\ Len(a \o b) = n - 1
      /\ \A k \in 1..(n - 1) : (a \o b)[k] = IF k <= i - 1 THEN a[k] ELSE b[k - (i - 1)]
  <2>1. /\ a \o b \in Seq(Pressed) /\ Len(a \o b) = Len(a) + Len(b)
        /\ \A k \in 1..(Len(a) + Len(b)) :
              (a \o b)[k] = IF k <= Len(a) THEN a[k] ELSE b[k - Len(a)]
    BY <1>2, <1>3, ConcatProperties
  <2>2. Len(a) = i - 1 /\ Len(a) + Len(b) = n - 1
    BY <1>1, <1>2, <1>3
  <2> QED
    BY <2>1, <2>2
<1>6. ASSUME NEW k \in 1..(n - 1)
      PROVE  (a \o b)[k] = list[IF k < i THEN k ELSE k + 1]
  <2>1. CASE k < i
    BY <1>1, <1>2, <1>5, <2>1
  <2>2. CASE ~ (k < i)
    <3>1. k - (i - 1) \in 1..(n - i) /\ k - (i - 1) + i = k + 1 /\ ~ (k <= i - 1)
      BY <1>1, <2>2
    <3> QED
      BY <1>3, <1>5, <2>2, <3>1
  <2> QED
    BY <2>1, <2>2
<1> QED
  BY <1>4, <1>5, <1>6

LEMMA WithoutExact ==
  ASSUME NEW list \in Seq(Pressed), NEW H, NEW D, Exact(list, H, D), IsFiniteSet(H),
         NEW i \in DOMAIN list
  PROVE  /\ Without(list, i) \in Seq(Pressed)
         /\ Exact(Without(list, i), H \ {ButtonOf(list[i])}, D)
         /\ \A code, r : Pointed(list, code, r) /\ ~(list[i].code = code /\ list[i].domain = r)
                            => Pointed(Without(list, i), code, r)
<1> DEFINE l == Without(list, i)
           n == Len(list)
           K == H \ {ButtonOf(list[i])}
           from[k \in 1..(n - 1)] == IF k < i THEN k ELSE k + 1
<1>1. /\ l \in Seq(Pressed) /\ Len(l) = n - 1
      /\ \A k \in 1..(n - 1) : l[k] = list[IF k < i THEN k ELSE k + 1]
  BY WithoutEntry
<1>2. n \in Nat /\ i \in 1..n /\ DOMAIN list = 1..n /\ DOMAIN l = 1..(n - 1)
  BY <1>1
<1> HIDE DEF l
<1>3. ASSUME NEW k \in 1..(n - 1)
      PROVE  from[k] \in (1..n) \ {i} /\ l[k] = list[from[k]]
  BY <1>1, <1>2
<1>4. \A k, m \in 1..(n - 1) : from[k] = from[m] => k = m
  BY <1>2
<1>5. \A j \in (1..n) \ {i} : \E k \in 1..(n - 1) : from[k] = j
  <2>1. ASSUME NEW j \in (1..n) \ {i} PROVE \E k \in 1..(n - 1) : from[k] = j
    <3>1. CASE j < i
      <4>1. j \in 1..(n - 1) /\ from[j] = j
        BY <1>2, <3>1
      <4> QED
        BY <4>1
    <3>2. CASE j > i
      <4>1. j - 1 \in 1..(n - 1) /\ from[j - 1] = j
        BY <1>2, <3>2
      <4> QED
        BY <4>1
    <3> QED
      BY <1>2, <3>1, <3>2
  <2> QED
    BY <2>1
<1> HIDE DEF from
<1>6. \A j \in (1..n) \ {i} : ButtonOf(list[j]) # ButtonOf(list[i])
  BY <1>2 DEF Exact
<1>7. Len(l) = Cardinality(K)
  <2>1. ButtonOf(list[i]) \in H
    BY DEF Exact
  <2> QED
    BY <1>1, <2>1, FS_RemoveElement DEF Exact
<1>8. \A k \in DOMAIN l : ButtonOf(l[k]) \in K /\ l[k].domain \in D
  BY <1>2, <1>3, <1>6 DEF Exact
<1>9. \A k, m \in DOMAIN l : ButtonOf(l[k]) = ButtonOf(l[m]) => k = m
  BY <1>2, <1>3, <1>4 DEF Exact
<1>10. \A h \in K : \E k \in DOMAIN l : ButtonOf(l[k]) = h
  <2>1. ASSUME NEW h \in K PROVE \E k \in DOMAIN l : ButtonOf(l[k]) = h
    <3>1. PICK j \in DOMAIN list : ButtonOf(list[j]) = h
      BY DEF Exact
    <3>2. j \in (1..n) \ {i}
      BY <1>2, <3>1
    <3>3. PICK k \in 1..(n - 1) : from[k] = j
      BY <1>5, <3>2
    <3> QED
      BY <1>2, <1>3, <3>1, <3>3
  <2> QED
    BY <2>1
<1>11. \A code, r : Pointed(list, code, r) /\ ~(list[i].code = code /\ list[i].domain = r)
                      => Pointed(l, code, r)
  <2>1. ASSUME NEW code, NEW r, Pointed(list, code, r),
               ~(list[i].code = code /\ list[i].domain = r)
        PROVE  Pointed(l, code, r)
    <3>1. PICK j \in DOMAIN list : list[j].code = code /\ list[j].domain = r
      BY <2>1 DEF Pointed
    <3>2. j \in (1..n) \ {i}
      BY <1>2, <2>1, <3>1
    <3>3. PICK k \in 1..(n - 1) : from[k] = j
      BY <1>5, <3>2
    <3>4. k \in DOMAIN l /\ l[k] = list[j]
      BY <1>2, <1>3, <3>3
    <3> QED
      BY <3>1, <3>4 DEF Pointed
  <2> QED
    BY <2>1
<1>12. Exact(l, K, D)
  BY <1>7, <1>8, <1>9, <1>10 DEF Exact
<1> QED
  BY <1>1, <1>11, <1>12 DEF l

-----------------------------------------------------------------------------
(* A click may move the keyboard, as DomainFocus says; nothing here moves  *)
(* the mouse.                                                              *)

Clicks(s, t) ==
    \/ t = s
    \/ /\ s.keyb_waits_for_click /\ s.mouse_dest # NULL
       /\ IF s.mouse_parent = NULL
          THEN t = input_set_keyb(s, s.mouse_dest)
          ELSE /\ s.domains[s.mouse_parent].key_follows
               /\ t = sync_kbd_domain(
                         [s EXCEPT !.domains[s.mouse_parent].key_domain = s.mouse_dest],
                         s.mouse_parent)

SameMouse(s, t) ==
    /\ t.mouse_dest = s.mouse_dest /\ t.mouse_parent = s.mouse_parent
    /\ \A r \in Rec : t.domains[r].domid = s.domains[r].domid

LEMMA ClicksStep ==
  ASSUME Clicks(sw, sw')
  PROVE  [Next]_sw
  BY DEF Clicks, Click, Diverts, Next

LEMMA SetKeybSame ==
  ASSUME NEW s \in State, NEW d \in Rec
  PROVE  /\ input_set_keyb(s, d).mouse_dest = s.mouse_dest
         /\ input_set_keyb(s, d).mouse_parent = s.mouse_parent
         /\ input_set_keyb(s, d).domains = s.domains
<1> DEFINE u == [s EXCEPT !.keyb_waits_for_click = FALSE]
<1>1. /\ u \in State /\ u.domains = s.domains
      /\ u.mouse_dest = s.mouse_dest /\ u.mouse_parent = s.mouse_parent
  BY DEF State
<1>2. input_set_keyb(s, d) = set_kbd_domain(u, d)
  BY DEF input_set_keyb
<1> HIDE DEF u
<1> QED
  BY <1>1, <1>2, SetKbdWaits

LEMMA ClicksCalm ==
  ASSUME NEW s, Calm(s), NEW t, Clicks(s, t)
  PROVE  Calm(t) /\ SameMouse(s, t)
<1>1. s \in State /\ s.mouse_dest \in Ptr /\ s.mouse_parent \in Ptr
  BY StateFields DEF Calm
<1>2. CASE t = s
  BY <1>2 DEF SameMouse
<1>3. CASE t # s /\ s.mouse_parent = NULL
  <2>1. s.mouse_dest \in Rec /\ t = input_set_keyb(s, s.mouse_dest)
    BY <1>1, <1>3 DEF Clicks, Ptr
  <2> QED
    BY <1>1, <2>1, InputSetKeybCalm, SetKeybSame DEF SameMouse
<1>4. CASE t # s /\ s.mouse_parent # NULL
  <2> DEFINE p == s.mouse_parent
             d == s.mouse_dest
             x == [s.domains[p] EXCEPT !.key_domain = d]
  <2>1. /\ p \in Rec /\ d \in Rec
        /\ t = sync_kbd_domain([s EXCEPT !.domains[p].key_domain = d], p)
    BY <1>1, <1>4 DEF Clicks, Ptr
  <2>2. Calm(t)
    BY <2>1, ClickInFrameCalm
  <2>3. PICK u : u = [s EXCEPT !.domains[p].key_domain = d]
    OBVIOUS
  <2>4. u = Put(s, p, x)
    BY <2>3 DEF Put
  <2>5. s.domains[p] \in DomainRec /\ d \in Ptr
    BY <1>1, <2>1, DomainFields
  <2>6. x \in DomainRec /\ x.domid = s.domains[p].domid
    BY <2>5 DEF DomainRec
  <2> HIDE DEF x
  <2>7. /\ u \in State /\ \A r \in Rec : u.domains[r] = IF r = p THEN x ELSE s.domains[r]
        /\ u.mouse_dest = s.mouse_dest /\ u.mouse_parent = s.mouse_parent
    BY <1>1, <2>1, <2>4, <2>6, PutUpdates DEF Put, State
  <2>8. SameMouse(s, u)
    BY <2>6, <2>7 DEF SameMouse
  <2>9. t = u \/ t = input_set_keyb(u, p)
    BY <2>1, <2>3 DEF sync_kbd_domain
  <2>10. SameMouse(s, input_set_keyb(u, p))
    BY <2>1, <2>7, <2>8, SetKeybSame DEF SameMouse
  <2> QED
    BY <2>2, <2>8, <2>9, <2>10
<1> QED
  BY <1>2, <1>3, <1>4

-----------------------------------------------------------------------------
(* An event of a mouse that a viewer diverts.                              *)

Diverting(s) == NULL \notin {s.mouse_parent, s.mouse_dest}

\* The viewer gets what its guest gets.
Clones(s, p) == "CLONEEVENTS" \in p.mode[s.mouse_parent]

LEMMA SetHolding ==
  ASSUME NEW p \in PointerState, NEW x \in 0..2
  PROVE  LET q == [p EXCEPT !.button_holding = x] IN
         /\ q \in PointerState /\ q.button_holding = x
         /\ q.mode = p.mode /\ q.at = p.at /\ q.buttons = p.buttons
         /\ q.last_d = p.last_d /\ q.mouse_pressed = p.mouse_pressed /\ q.mt = p.mt
  BY DEF PointerState

LEMMA SetPressed ==
  ASSUME NEW p \in PointerState, NEW x \in Seq(Pressed)
  PROVE  LET q == [p EXCEPT !.mouse_pressed = x] IN
         /\ q \in PointerState /\ q.mouse_pressed = x
         /\ q.mode = p.mode /\ q.at = p.at /\ q.buttons = p.buttons
         /\ q.last_d = p.last_d /\ q.button_holding = p.button_holding /\ q.mt = p.mt
  BY DEF PointerState

LEMMA SetLast ==
  ASSUME NEW p \in PointerState, NEW x \in Ptr
  PROVE  LET q == [p EXCEPT !.last_d = x] IN
         /\ q \in PointerState /\ q.last_d = x
         /\ q.mode = p.mode /\ q.at = p.at /\ q.buttons = p.buttons
         /\ q.mouse_pressed = p.mouse_pressed /\ q.button_holding = p.button_holding
         /\ q.mt = p.mt
  BY DEF PointerState

LEMMA ReceiverIs ==
  ASSUME NEW s, Diverting(s), NEW p \in PointerState
  PROVE  /\ Receiver(s, p) \in {s.mouse_parent, s.mouse_dest}
         /\ p.button_holding # 0 /\ p.last_d \in {s.mouse_parent, s.mouse_dest}
               => Receiver(s, p) = p.last_d
  BY DEF Receiver

\* The entry a press leaves.
Entry(c, d, slot, e) == [code |-> e.code, slot |-> slot, domain |-> d, at |-> c.p.at]

\* What check_mouse_keys does to the list, whoever is told.
Relisted(list, mb, i, e) ==
    IF e.kind # "KEY" THEN list
    ELSE IF e.value # 0
    THEN IF Len(list) < MAX_NUM_PRESSED THEN Append(list, mb) ELSE list
    ELSE IF i = 0 THEN list ELSE Without(list, i)

\* The release of a button that went down elsewhere.
Elsewhere(list, d, i, e) ==
    e.kind = "KEY" /\ e.value = 0 /\ i # 0 /\ list[i].domain # d

\* The guests in R have been told of e, the others of nothing.
Tolds(t, u, R, e) == \A r \in Rec : u[r] = IF r \in R THEN Told(t[r], e) ELSE t[r]

\* What check_mouse_keys leaves.
Checked(c, d, slot, e, o) ==
    LET list == c.p.mouse_pressed
        i    == Matching(list, slot, e.code)
    IN  /\ Typed(o.c) /\ o.c.s = c.s /\ Quiet(o.c.p.mt)
        /\ SameHands([c.p EXCEPT !.mouse_pressed =
                         Relisted(list, Entry(c, d, slot, e), i, e)], o.c.p)
        /\ IF Elsewhere(list, d, i, e)
           THEN o.done = TRUE /\ Tolds(c.t, o.c.t, {list[i].domain}, e)
           ELSE o.done = FALSE /\ o.c.t = c.t

LEMMA ChecksMouse ==
  ASSUME NEW c, Typed(c), Quiet(c.p.mt), NEW d \in Rec, NEW slot \in DOMAIN Mice,
         NEW e, MouseEvent(e), e.kind = "KEY",
         Matching(c.p.mouse_pressed, slot, e.code) # 0 =>
            Matching(c.p.mouse_pressed, slot, e.code) \in DOMAIN c.p.mouse_pressed
  PROVE  Checked(c, d, slot, e, check_mouse_keys(c, d, slot, e))
<1>0. PICK o : o = check_mouse_keys(c, d, slot, e)
  OBVIOUS
<1> DEFINE list == c.p.mouse_pressed
           i == Matching(list, slot, e.code)
<1>a. i # 0 => i \in DOMAIN list
  OBVIOUS
<1>b. SUFFICES Checked(c, d, slot, e, o)
  BY <1>0
<1>c. /\ check_mouse_keys(c, d, slot, e) =
           LET mb == Entry(c, d, slot, e)
               out == [c EXCEPT !.p.mouse_pressed = Without(list, i)]
           IN  IF e.value # 0
               THEN [c |-> IF Len(list) < MAX_NUM_PRESSED
                           THEN [c EXCEPT !.p.mouse_pressed = Append(list, mb)]
                           ELSE c,
                     done |-> FALSE]
               ELSE IF i = 0 THEN [c |-> c, done |-> FALSE]
               ELSE IF list[i].domain = d THEN [c |-> out, done |-> FALSE]
               ELSE [c |-> Send(out, list[i].domain, e), done |-> TRUE]
      /\ Checked(c, d, slot, e, o) <=>
           /\ Typed(o.c) /\ o.c.s = c.s /\ Quiet(o.c.p.mt)
           /\ SameHands([c.p EXCEPT !.mouse_pressed =
                            Relisted(list, Entry(c, d, slot, e), i, e)], o.c.p)
           /\ IF Elsewhere(list, d, i, e)
              THEN o.done = TRUE /\ Tolds(c.t, o.c.t, {list[i].domain}, e)
              ELSE o.done = FALSE /\ o.c.t = c.t
  BY DEF check_mouse_keys, Entry, Checked
<1>1. /\ c = [s |-> c.s, p |-> c.p, t |-> c.t]
      /\ Calm(c.s) /\ c.p \in PointerState /\ c.p.at \in {"in", "out"}
      /\ c.t \in [Rec -> SUBSET Codes] /\ list \in Seq(Pressed)
  BY PtFields DEF Typed
<1>2. e.code \in Buttons /\ e.value \in {0, 1}
  BY DEF MouseEvent
<1> DEFINE mb == Entry(c, d, slot, e)
           l == Relisted(list, mb, i, e)
           p == [c.p EXCEPT !.mouse_pressed = l]
           out == [s |-> c.s, p |-> p, t |-> c.t]
<1> HIDE DEF list, i
<1>3. mb \in Pressed
  BY <1>1, <1>2 DEF Entry, Pressed
<1>4. i # 0 => Without(list, i) \in Seq(Pressed)
  BY <1>a, <1>1, WithoutEntry
<1>5. l \in Seq(Pressed)
  BY <1>1, <1>3, <1>4, AppendProperties DEF Relisted
<1>6. p \in PointerState /\ p.mt = c.p.mt /\ p.mouse_pressed = l
  BY <1>1, <1>5, SetPressed
<1>7. \A x : [c EXCEPT !.p.mouse_pressed = x]
                = [s |-> c.s, p |-> [c.p EXCEPT !.mouse_pressed = x], t |-> c.t]
  BY <1>1
<1>8. c.p = [c.p EXCEPT !.mouse_pressed = list]
  BY <1>1 DEF PointerState, list
<1>9. CASE Elsewhere(list, d, i, e)
  <2>1. l = Without(list, i) /\ i \in DOMAIN list
    BY <1>a, <1>9 DEF Elsewhere, Relisted
  <2>2. [c EXCEPT !.p.mouse_pressed = Without(list, i)] = out
    BY <1>7, <2>1
  <2>3. o = [c |-> Send(out, list[i].domain, e), done |-> TRUE]
    BY <1>0, <1>c, <1>9, <2>2 DEF Elsewhere
  <2>4. list[i].domain \in Rec /\ Rec \subseteq Ptr
    <3>1. list[i] \in Pressed
      BY <1>1, <2>1
    <3> QED
      BY <3>1 DEF Pressed, Ptr
  <2> HIDE DEF p, l
  <2>5. Typed(out) /\ Quiet(out.p.mt) /\ out.s = c.s /\ out.t = c.t /\ out.p = p
    BY <1>1, <1>6, TypedPath
  <2> HIDE DEF out
  <2>6. Tells(out, Send(out, list[i].domain, e), {list[i].domain}, e)
    BY <2>4, <2>5, SendTells
  <2>7. o.c = Send(out, list[i].domain, e) /\ o.done = TRUE
    BY <2>3
  <2>8. /\ Typed(o.c) /\ o.c.s = c.s /\ Quiet(o.c.p.mt) /\ SameHands(p, o.c.p)
        /\ o.done = TRUE /\ Tolds(c.t, o.c.t, {list[i].domain}, e)
    BY <2>5, <2>6, <2>7, Zenon DEF Tells, Tolds
  <2> QED
    BY <1>c, <1>9, <2>8 DEF p, l
<1>10. CASE ~ Elsewhere(list, d, i, e)
  <2>1. o.done = FALSE /\ (o.c = out \/ (o.c = c /\ l = list))
    <3>1. CASE e.value # 0
      <4>1. o = [c |-> IF Len(list) < MAX_NUM_PRESSED
                       THEN [c EXCEPT !.p.mouse_pressed = Append(list, mb)]
                       ELSE c,
                 done |-> FALSE]
        BY <1>0, <1>c, <3>1
      <4>2. l = IF Len(list) < MAX_NUM_PRESSED THEN Append(list, mb) ELSE list
        BY <3>1 DEF Relisted
      <4> HIDE DEF mb, l
      <4>3. CASE Len(list) < MAX_NUM_PRESSED
        <5>1. o.done = FALSE /\ o.c = [c EXCEPT !.p.mouse_pressed = Append(list, mb)]
          BY <4>1, <4>3
        <5>2. l = Append(list, mb)
          BY <4>2, <4>3
        <5> QED
          BY <5>1, <5>2, <1>7
      <4>4. CASE ~ (Len(list) < MAX_NUM_PRESSED)
        BY <4>1, <4>2, <4>4
      <4> QED
        BY <4>3, <4>4
    <3>2. CASE e.value = 0 /\ i = 0
      BY <1>0, <1>c, <3>2 DEF Relisted
    <3>3. CASE e.value = 0 /\ i # 0
      <4>1. list[i].domain = d
        BY <1>10, <3>3 DEF Elsewhere
      <4>2. o = [c |-> [c EXCEPT !.p.mouse_pressed = Without(list, i)], done |-> FALSE]
        BY <1>0, <1>c, <3>3, <4>1
      <4>3. l = Without(list, i)
        BY <3>3 DEF Relisted
      <4> QED
        BY <4>2, <4>3, <1>7
    <3> QED
      BY <3>1, <3>2, <3>3
  <2>2. o.c = out
    BY <1>1, <1>8, <2>1
  <2> HIDE DEF p, l
  <2>3. Typed(out) /\ Quiet(out.p.mt) /\ out.s = c.s /\ out.t = c.t /\ out.p = p
    BY <1>1, <1>6, TypedPath
  <2>4. Typed(o.c) /\ o.c.s = c.s /\ Quiet(o.c.p.mt) /\ SameHands(p, o.c.p) /\ o.c.t = c.t
    BY <2>2, <2>3 DEF SameHands
  <2> QED
    BY <1>c, <1>10, <2>1, <2>4 DEF p, l
<1> QED
  BY <1>9, <1>10

\* From c to T the event e has passed, on to the guest d.
Passed(c, d, slot, e, T) ==
    LET list == c.p.mouse_pressed
        i    == Matching(list, slot, e.code)
        P    == c.s.mouse_parent
    IN  /\ T.p.mouse_pressed = Relisted(list, Entry(c, d, slot, e), i, e)
        /\ IF Elsewhere(list, d, i, e)
           THEN T.p.last_d = c.p.last_d /\ Tolds(c.t, T.t, {list[i].domain}, e)
           ELSE /\ T.p.last_d = d
                /\ Tolds(c.t, T.t, {d} \cup IF Clones(c.s, c.p) THEN {P} ELSE {}, e)

\* The statics once the hold is decided.
HeldAs(p, P, e) == [p EXCEPT !.button_holding = Holding(p, p.mode[P], e)]

LEMMA HoldingType ==
  ASSUME NEW p, NEW mode, NEW e
  PROVE  Holding(p, mode, e) \in 0..2
  BY DEF Holding

\* Diverted once held and d are known.
DivertedTo(s, mode, held, d, slot, e) ==
    LET child == d # s.mouse_parent
        keys  == IF IsClick(s, e) /\ child /\ s.domains[s.mouse_parent].key_follows
                 THEN [held EXCEPT !.s = sync_kbd_domain(
                          [@ EXCEPT !.domains[s.mouse_parent].key_domain = d],
                          s.mouse_parent)]
                 ELSE held
        list  == IF e.kind = "KEY" /\ e.code \in Buttons
                 THEN check_mouse_keys(keys, d, slot, e)
                 ELSE [c |-> keys, done |-> FALSE]
        last  == [list.c EXCEPT !.p.last_d = d]
        clone == IF child /\ "CLONEEVENTS" \in mode
                 THEN Send(last, s.mouse_parent, e) ELSE last
    IN  IF list.done THEN list.c ELSE Dispatch(clone, d, e)

PassedOn(c, slot, e, T) ==
    LET q == HeldAs(c.p, c.s.mouse_parent, e) IN
    /\ Typed(T) /\ Quiet(T.p.mt) /\ Clicks(c.s, T.s)
    /\ T.p.mode = c.p.mode /\ T.p.at = c.p.at /\ T.p.buttons = c.p.buttons
    /\ T.p.button_holding = q.button_holding
    /\ Passed(c, Receiver(c.s, q), slot, e, T)

LEMMA DivertedPasses ==
  ASSUME NEW c, Typed(c), Quiet(c.p.mt), Diverting(c.s), NEW slot \in DOMAIN Mice,
         NEW e, MouseEvent(e),
         Matching(c.p.mouse_pressed, slot, e.code) # 0 =>
            Matching(c.p.mouse_pressed, slot, e.code) \in DOMAIN c.p.mouse_pressed
  PROVE  PassedOn(c, slot, e, Diverted(c, slot, e))
<1> SUFFICES ASSUME NEW q, q = HeldAs(c.p, c.s.mouse_parent, e),
                    NEW T, T = Diverted(c, slot, e)
             PROVE  /\ Typed(T) /\ Quiet(T.p.mt) /\ Clicks(c.s, T.s)
                    /\ T.p.mode = c.p.mode /\ T.p.at = c.p.at /\ T.p.buttons = c.p.buttons
                    /\ T.p.button_holding = q.button_holding
                    /\ Passed(c, Receiver(c.s, q), slot, e, T)
  BY DEF PassedOn
<1> DEFINE s == c.s
           P == s.mouse_parent
           mode == c.p.mode[P]
           d == Receiver(s, q)
           held == [c EXCEPT !.p.button_holding = Holding(c.p, mode, e)]
           follows == IsClick(s, e) /\ d # P /\ s.domains[P].key_follows
           t == sync_kbd_domain([s EXCEPT !.domains[P].key_domain = d], P)
           keys == IF follows THEN [held EXCEPT !.s = t] ELSE held
           o == IF e.kind = "KEY" /\ e.code \in Buttons
                THEN check_mouse_keys(keys, d, slot, e)
                ELSE [c |-> keys, done |-> FALSE]
           last == [o.c EXCEPT !.p.last_d = d]
           clone == IF d # P /\ "CLONEEVENTS" \in mode THEN Send(last, P, e) ELSE last
           list == c.p.mouse_pressed
           i == Matching(list, slot, e.code)
           l == Relisted(list, Entry(c, d, slot, e), i, e)
           there == Elsewhere(list, d, i, e)
<1>1. /\ c = [s |-> s, p |-> c.p, t |-> c.t] /\ Calm(s) /\ s \in State
      /\ c.p \in PointerState /\ c.t \in [Rec -> SUBSET Codes]
  BY DEF Typed, Calm
<1>2. P \in Rec /\ s.mouse_dest \in Rec /\ Rec \subseteq Ptr
  BY <1>1, StateFields DEF Diverting, Ptr
<1>3. /\ q \in PointerState /\ q.button_holding = Holding(c.p, mode, e)
      /\ q.mode = c.p.mode /\ q.at = c.p.at /\ q.buttons = c.p.buttons
      /\ q.last_d = c.p.last_d /\ q.mouse_pressed = list /\ q.mt = c.p.mt
  BY <1>1, HoldingType, SetHolding DEF HeldAs
<1>4. held = [s |-> s, p |-> q, t |-> c.t]
  BY <1>1 DEF HeldAs
<1>5. d \in {P, s.mouse_dest}
  BY <1>3, ReceiverIs
<1>6. T = IF o.done THEN o.c ELSE Dispatch(clone, d, e)
  <2>1. T = DivertedTo(s, mode, held, Receiver(s, held.p), slot, e)
    BY DEF Diverted, DivertedTo
  <2>2. held.p = q /\ held.s = s
    BY <1>4
  <2>3. T = DivertedTo(s, mode, held, d, slot, e)
    BY <2>1, <2>2
  <2> HIDE DEF d, held
  <2>4. t = sync_kbd_domain([held.s EXCEPT !.domains[P].key_domain = d], P)
    BY <2>2
  <2> HIDE DEF t
  <2> QED
    BY <2>3, <2>4 DEF DivertedTo
<1> HIDE DEF d, held
<1>7. PICK u : u = IF follows THEN t ELSE s
  OBVIOUS
<1>8. keys = [s |-> u, p |-> q, t |-> c.t]
  BY <1>4, <1>7
<1>9. Clicks(s, u)
  <2>1. CASE follows
    <3>1. d = s.mouse_dest /\ s.keyb_waits_for_click
      BY <1>5, <2>1 DEF IsClick
    <3> QED
      BY <1>2, <1>7, <2>1, <3>1, Pointers DEF Clicks
  <2>2. CASE ~follows
    BY <1>7, <2>2 DEF Clicks
  <2> QED
    BY <2>1, <2>2
<1>10. Calm(u) /\ SameMouse(s, u)
  BY <1>1, <1>9, ClicksCalm
<1> HIDE DEF keys
<1>11. /\ Typed(keys) /\ Quiet(keys.p.mt) /\ keys.s = u /\ keys.t = c.t /\ keys.p = q
  BY <1>1, <1>3, <1>8, <1>10, TypedPath
<1>12. /\ Typed(o.c) /\ o.c.s = u /\ Quiet(o.c.p.mt)
       /\ SameHands([q EXCEPT !.mouse_pressed = l], o.c.p)
       /\ IF there THEN o.done = TRUE /\ Tolds(c.t, o.c.t, {list[i].domain}, e)
          ELSE o.done = FALSE /\ o.c.t = c.t
  <2>1. Entry(keys, d, slot, e) = Entry(c, d, slot, e)
    BY <1>3, <1>11 DEF Entry
  <2>2. CASE e.kind = "KEY"
    <3>1. e.code \in Buttons
      BY <2>2 DEF MouseEvent
    <3>2. o = check_mouse_keys(keys, d, slot, e)
      BY <2>2, <3>1
    <3>3. d \in Rec /\ list = keys.p.mouse_pressed
      BY <1>2, <1>3, <1>5, <1>11
    <3>4. PICK oo : oo = o
      OBVIOUS
    <3> HIDE DEF o
    <3>5. Checked(keys, d, slot, e, oo)
      BY <1>3, <1>11, <2>2, <3>2, <3>3, <3>4, ChecksMouse
    <3> QED
      BY <1>3, <1>11, <2>1, <3>4, <3>5 DEF Checked
  <2>3. CASE e.kind # "KEY"
    <3>1. o = [c |-> keys, done |-> FALSE]
      BY <2>3
    <3>2. l = list /\ ~there
      BY <2>3 DEF Relisted, Elsewhere
    <3>3. [q EXCEPT !.mouse_pressed = list] = q
      BY <1>3 DEF PointerState
    <3> HIDE DEF o, l, list, there
    <3> QED
      BY <1>11, <3>1, <3>2, <3>3 DEF SameHands
  <2> QED
    BY <2>2, <2>3
<1>13. list \in Seq(Pressed) /\ (i # 0 => Without(list, i) \in Seq(Pressed))
  BY <1>1, PtFields, WithoutEntry
<1>14. /\ o.c.p.mode = c.p.mode /\ o.c.p.at = c.p.at /\ o.c.p.buttons = c.p.buttons
       /\ o.c.p.button_holding = q.button_holding /\ o.c.p.last_d = c.p.last_d
       /\ o.c.p.mouse_pressed = l
  <2> HIDE DEF o, l
  <2>1. LET m == [q EXCEPT !.mouse_pressed = l] IN
        /\ m.mouse_pressed = l /\ m.mode = q.mode /\ m.at = q.at /\ m.buttons = q.buttons
        /\ m.last_d = q.last_d /\ m.button_holding = q.button_holding
    BY <1>3 DEF PointerState
  <2> QED
    BY <1>3, <1>12, <2>1 DEF SameHands
<1> HIDE DEF o, l, list, i, there
<1>15. CASE there
  <2>1. T = o.c
    BY <1>6, <1>12, <1>15
  <2>2. Passed(c, d, slot, e, T)
    BY <1>12, <1>14, <1>15, <2>1 DEF Passed, l, list, i, there
  <2> QED
    BY <1>9, <1>12, <1>14, <2>1, <2>2 DEF d
<1>16. CASE ~there
  <2> DEFINE p == [o.c.p EXCEPT !.last_d = d]
  <2>1. T = Dispatch(clone, d, e)
    BY <1>6, <1>12, <1>16
  <2>2. /\ p \in PointerState /\ p.last_d = d /\ p.mt = o.c.p.mt
        /\ p.mode = c.p.mode /\ p.at = c.p.at /\ p.buttons = c.p.buttons
        /\ p.button_holding = q.button_holding /\ p.mouse_pressed = l
    BY <1>2, <1>5, <1>12, <1>14, SetLast DEF Typed
  <2>3. last = [s |-> u, p |-> p, t |-> c.t]
    BY <1>12, <1>16 DEF Typed
  <2> HIDE DEF p, last
  <2>4. Typed(last) /\ Quiet(last.p.mt) /\ last.s = u /\ last.p = p /\ last.t = c.t
    BY <1>1, <1>10, <1>12, <2>2, <2>3, TypedPath
  <2> DEFINE R == IF d # P /\ "CLONEEVENTS" \in mode THEN {P} ELSE {}
  <2>5. /\ Typed(clone) /\ Quiet(clone.p.mt) /\ clone.s = u
        /\ SameHands(p, clone.p) /\ Tolds(c.t, clone.t, R, e)
    <3>1. CASE d # P /\ "CLONEEVENTS" \in mode
      <4>1. Tells(last, Send(last, P, e), {P}, e)
        BY <1>2, <2>4, SendTells
      <4>2. clone = Send(last, P, e) /\ R = {P}
        BY <3>1
      <4> HIDE DEF clone, R
      <4> QED
        BY <2>4, <4>1, <4>2 DEF Tells, Tolds
    <3>2. CASE ~ (d # P /\ "CLONEEVENTS" \in mode)
      <4>1. clone = last /\ R = {}
        BY <3>2
      <4> HIDE DEF clone, R
      <4> QED
        BY <2>4, <4>1 DEF SameHands, Tolds
    <3> QED
      BY <3>1, <3>2
  <2> HIDE DEF clone
  <2>6. T = Send(clone, d, e)
    BY <2>1, <2>5, DispatchSends
  <2>7. Tells(clone, T, {d}, e)
    BY <1>2, <1>5, <2>5, <2>6, SendTells
  <2>8. Tolds(c.t, T.t, {d} \cup IF Clones(s, c.p) THEN {P} ELSE {}, e)
    <3>1. Clones(s, c.p) <=> "CLONEEVENTS" \in mode
      BY DEF Clones
    <3> QED
      BY <2>5, <2>7, <3>1 DEF Tells, Tolds
  <2>9. /\ Typed(T) /\ Quiet(T.p.mt) /\ T.s = u
        /\ T.p.mode = c.p.mode /\ T.p.at = c.p.at /\ T.p.buttons = c.p.buttons
        /\ T.p.button_holding = q.button_holding /\ T.p.mouse_pressed = l
        /\ T.p.last_d = d
    BY <2>2, <2>5, <2>7 DEF Tells, SameHands
  <2>10. Passed(c, d, slot, e, T)
    BY <1>16, <2>8, <2>9 DEF Passed, l, list, i, there
  <2> QED
    BY <1>9, <2>9, <2>10 DEF d
<1> QED
  BY <1>15, <1>16

-----------------------------------------------------------------------------
(* What a mouse's events keep.  H: the buttons that are held, each with    *)
(* its mouse.                                                              *)

\* Whoever clones the events of its guest holds the focus on a click, too.
ClonesHold == \A m \in Modes : "CLONEEVENTS" \in m => "CLICKHOLDFOCUS" \in m

Down(H) == {h[2] : h \in H}

\* Why r takes b for held: the list sends the release to r; or r is the viewer
\* that clones, and the button is seen to be down and keeps the guest.  Without
\* a divert the displayed guest gets all.
ExplainedTo(s, p, r, b) ==
    IF Diverting(s)
    THEN \/ Pointed(p.mouse_pressed, b, r)
         \/ /\ r = s.mouse_parent /\ Clones(s, p)
            /\ b \in p.buttons /\ p.last_d # r
    ELSE r = s.mouse_dest /\ b \in p.buttons

Explained(c) == \A r \in Rec : \A b \in c.t[r] : ExplainedTo(c.s, c.p, r, b)

\* A button that is down holds the focus.
HoldsFocus(s, p) ==
    /\ Diverting(s) /\ "CLICKHOLDFOCUS" \in p.mode[s.mouse_parent]
    /\ p.buttons # {}
    => p.button_holding # 0 /\ p.last_d \in {s.mouse_parent, s.mouse_dest}

Listed(s, p, H) ==
    IF Diverting(s) THEN Exact(p.mouse_pressed, H, {s.mouse_parent, s.mouse_dest})
    ELSE p.mouse_pressed = <<>>

MouseOK(c, H) ==
    /\ Typed(c) /\ Quiet(c.p.mt)
    /\ IsFiniteSet(H)
    /\ Listed(c.s, c.p, H)
    /\ c.p.buttons \subseteq Down(H)
    /\ Explained(c)
    /\ HoldsFocus(c.s, c.p)

\* The user holds H before the event of the mouse, and K after it.
Moved(H, slot, e, K) ==
    IF e.kind # "KEY" THEN K = H
    ELSE IF e.value = 1
    THEN /\ <<slot, e.code>> \notin H /\ K = H \cup {<<slot, e.code>>}
         /\ Cardinality(K) <= MAX_NUM_PRESSED
    ELSE <<slot, e.code>> \in H /\ K = H \ {<<slot, e.code>>}

LEMMA TracksMouse ==
  ASSUME NEW p \in PointerState, NEW e, MouseEvent(e),
         NEW q, q = input_track_mouse_position(p, e)
  PROVE  /\ q \in PointerState /\ q.buttons = Told(p.buttons, e)
         /\ q.mode = p.mode /\ q.button_holding = p.button_holding
         /\ q.last_d = p.last_d /\ q.mouse_pressed = p.mouse_pressed /\ q.mt = p.mt
<1>1. CASE e.kind = "KEY"
  <2>1. e.code \in Buttons
    BY <1>1 DEF MouseEvent
  <2>2. q = [p EXCEPT !.buttons = Told(p.buttons, e)]
    BY <1>1, <2>1 DEF input_track_mouse_position
  <2>3. p.buttons \in SUBSET Buttons
    BY PtFields
  <2>4. Told(p.buttons, e) \in SUBSET Buttons
    BY <2>1, <2>3 DEF Told
  <2> QED
    BY <2>2, <2>4 DEF PointerState
<1>2. CASE e.kind = "REL"
  <2>1. e.code \in {"in", "out"}
    BY <1>2 DEF MouseEvent
  <2>2. q = [p EXCEPT !.at = e.code] /\ Told(p.buttons, e) = p.buttons
    BY <1>2 DEF input_track_mouse_position, Told
  <2> QED
    BY <2>1, <2>2 DEF PointerState
<1>3. CASE e.kind = "SYN"
  <2>1. q = p /\ Told(p.buttons, e) = p.buttons
    BY <1>3 DEF input_track_mouse_position, Told
  <2> QED
    BY <2>1
<1> QED
  BY <1>1, <1>2, <1>3 DEF MouseEvent

LEMMA MovedDown ==
  ASSUME NEW H, IsFiniteSet(H), NEW B, B \subseteq Down(H), NEW slot,
         NEW e, MouseEvent(e), NEW K, Moved(H, slot, e, K)
  PROVE  IsFiniteSet(K) /\ Told(B, e) \subseteq Down(K)
<1>1. IsFiniteSet(K)
  BY FS_AddElement, FS_RemoveElement DEF Moved
<1>2. ASSUME NEW b \in Told(B, e) PROVE \E h \in K : h[2] = b
  <2>1. CASE b \in B /\ ~ (e.kind = "KEY" /\ b = e.code)
    <3>1. PICK h \in H : h[2] = b
      BY <2>1 DEF Down
    <3>2. h # <<slot, e.code>> \/ e.kind # "KEY"
      BY <2>1, <3>1
    <3> QED
      BY <3>1, <3>2 DEF Moved
  <2>2. CASE ~ (b \in B /\ ~ (e.kind = "KEY" /\ b = e.code))
    <3>1. e.kind = "KEY" /\ b = e.code /\ e.value = 1
      BY <1>2, <2>2 DEF Told, MouseEvent
    <3>2. <<slot, e.code>> \in K /\ <<slot, e.code>>[2] = b
      BY <3>1 DEF Moved
    <3> QED
      BY <3>2
  <2> QED
    BY <2>1, <2>2
<1> QED
  BY <1>1, <1>2 DEF Down

\* While the focus is held, the event goes where the last one went.
LEMMA HeldReceiver ==
  ASSUME NEW s, NEW p \in PointerState, Diverting(s), HoldsFocus(s, p),
         NEW e, MouseEvent(e), NEW r \in PointerState,
         r.buttons = Told(p.buttons, e), r.mode = p.mode,
         r.button_holding = p.button_holding, r.last_d = p.last_d,
         "CLICKHOLDFOCUS" \in p.mode[s.mouse_parent]
  PROVE  /\ p.buttons # {} => Receiver(s, HeldAs(r, s.mouse_parent, e)) = p.last_d
         /\ r.buttons # {} => HeldAs(r, s.mouse_parent, e).button_holding # 0
<1> DEFINE b == Holding(r, r.mode[s.mouse_parent], e)
           q == HeldAs(r, s.mouse_parent, e)
<1>1. b \in 0..2
  BY HoldingType
<1>2. q \in PointerState /\ q.button_holding = b /\ q.last_d = p.last_d
  BY <1>1, SetHolding DEF HeldAs
<1>3. r.buttons # {} => b = 1
  BY DEF Holding
<1>4. p.buttons # {} /\ r.buttons = {} => e.kind = "KEY"
  BY DEF Told
<1>5. p.buttons # {} /\ r.buttons = {} => b = 2
  BY <1>4 DEF Holding, HoldsFocus
<1> HIDE DEF b, q
<1>6. p.buttons # {} => b # 0 /\ p.last_d \in {s.mouse_parent, s.mouse_dest}
  BY <1>3, <1>5 DEF HoldsFocus
<1>7. q.button_holding # 0 /\ q.last_d \in {s.mouse_parent, s.mouse_dest}
         => Receiver(s, q) = q.last_d
  BY <1>2, ReceiverIs
<1> QED
  BY <1>2, <1>3, <1>6, <1>7 DEF q

\* An event on its way through the list keeps it exact.
RelistedOK(list, K, D, mb, i, e) ==
    LET l == Relisted(list, mb, i, e) IN
    /\ l \in Seq(Pressed) /\ Exact(l, K, D)
    /\ e.kind = "KEY" /\ e.value # 0 => Pointed(l, e.code, mb.domain)
    /\ e.kind = "KEY" /\ e.value = 0 =>
          i \in DOMAIN list /\ i # 0 /\ list[i].code = e.code
    /\ \A code, r : Pointed(list, code, r) =>
          \/ Pointed(l, code, r)
          \/ e.kind = "KEY" /\ e.value = 0 /\ code = e.code /\ r = list[i].domain

LEMMA RelistedExact ==
  ASSUME NEW list \in Seq(Pressed), NEW H, NEW D, Exact(list, H, D), IsFiniteSet(H),
         NEW slot, NEW e, MouseEvent(e), NEW K, Moved(H, slot, e, K),
         NEW mb, e.kind = "KEY" => mb \in Pressed,
         mb.code = e.code, mb.slot = slot, mb.domain \in D,
         NEW i, i = Matching(list, slot, e.code)
  PROVE  RelistedOK(list, K, D, mb, i, e)
<1> DEFINE l == Relisted(list, mb, i, e)
<1>0. SUFFICES
         /\ l \in Seq(Pressed) /\ Exact(l, K, D)
         /\ e.kind = "KEY" /\ e.value # 0 => Pointed(l, e.code, mb.domain)
         /\ e.kind = "KEY" /\ e.value = 0 =>
               i \in DOMAIN list /\ i # 0 /\ list[i].code = e.code
         /\ \A code, r : Pointed(list, code, r) =>
               \/ Pointed(l, code, r)
               \/ e.kind = "KEY" /\ e.value = 0 /\ code = e.code /\ r = list[i].domain
  BY DEF RelistedOK
<1>1. CASE e.kind # "KEY"
  BY <1>1 DEF Moved, Relisted
<1>2. CASE e.kind = "KEY" /\ e.value # 0
  <2>1. e.value = 1 /\ mb \in Pressed /\ ButtonOf(mb) = <<slot, e.code>>
    BY <1>2 DEF MouseEvent, ButtonOf
  <2>2. ButtonOf(mb) \notin H /\ K = H \cup {ButtonOf(mb)} /\ Cardinality(K) <= MAX_NUM_PRESSED
    BY <1>2, <2>1 DEF Moved
  <2>3. Cardinality(K) = Cardinality(H) + 1 /\ Cardinality(H) \in Nat
    BY <2>2, FS_AddElement, FS_CardinalityType
  <2>4. Len(list) < MAX_NUM_PRESSED
    BY <2>2, <2>3, PointerAssumption DEF Exact
  <2>5. l = Append(list, mb)
    BY <1>2, <2>4 DEF Relisted
  <2> HIDE DEF l
  <2>6. /\ l \in Seq(Pressed) /\ Exact(l, K, D)
        /\ \A code, r : Pointed(list, code, r) \/ (mb.code = code /\ mb.domain = r)
                            => Pointed(l, code, r)
    BY <2>1, <2>2, <2>5, AppendExact
  <2>7. /\ l \in Seq(Pressed) /\ Exact(l, K, D) /\ Pointed(l, e.code, mb.domain)
        /\ \A code, r : Pointed(list, code, r) => Pointed(l, code, r)
    BY <2>6
  <2> QED
    BY <1>2, <2>7 DEF l
<1>3. CASE e.kind = "KEY" /\ e.value = 0
  <2>1. <<slot, e.code>> \in H /\ K = H \ {<<slot, e.code>>}
    BY <1>3 DEF Moved
  <2>2. /\ i \in DOMAIN list /\ i # 0
        /\ list[i].code = e.code /\ list[i].slot = slot
    BY <2>1, MatchingEntry
  <2>3. l = Without(list, i) /\ ButtonOf(list[i]) = <<slot, e.code>>
    BY <1>3, <2>2 DEF Relisted, ButtonOf
  <2> HIDE DEF l
  <2>4. /\ l \in Seq(Pressed) /\ Exact(l, K, D)
        /\ \A code, r : Pointed(list, code, r) /\ ~(list[i].code = code /\ list[i].domain = r)
                            => Pointed(l, code, r)
    BY <2>1, <2>2, <2>3, WithoutExact
  <2>5. \A code, r : Pointed(list, code, r) =>
           Pointed(l, code, r) \/ (code = e.code /\ r = list[i].domain)
    BY <2>2, <2>4
  <2> QED
    BY <1>3, <2>2, <2>4, <2>5 DEF l
<1> QED
  BY <1>1, <1>2, <1>3

LEMMA DivertedKeeps ==
  ASSUME ClonesHold, NEW c, NEW H, MouseOK(c, H), Diverting(c.s),
         NEW slot \in DOMAIN Mice, NEW e, MouseEvent(e), NEW K, Moved(H, slot, e, K),
         NEW u, u = [c EXCEPT !.p = input_track_mouse_position(c.p, e)],
         NEW T, T = Diverted(u, slot, e)
  PROVE  /\ MouseOK(T, K) /\ Clicks(c.s, T.s)
         /\ "CLICKHOLDFOCUS" \in c.p.mode[c.s.mouse_parent] /\ c.p.buttons # {}
               => T.p.last_d = c.p.last_d
<1> DEFINE s == c.s
           P == s.mouse_parent
           D == s.mouse_dest
           mode == c.p.mode[P]
           B == c.p.buttons
           list == c.p.mouse_pressed
           i == Matching(list, slot, e.code)
           p == input_track_mouse_position(c.p, e)
           q == HeldAs(p, P, e)
           d == Receiver(s, q)
           mb == Entry(u, d, slot, e)
           l == Relisted(list, mb, i, e)
           release == e.kind = "KEY" /\ e.value = 0
           R == IF Elsewhere(list, d, i, e) THEN {list[i].domain}
                ELSE {d} \cup IF Clones(s, c.p) THEN {P} ELSE {}
<1>1. /\ Typed(c) /\ Quiet(c.p.mt) /\ c.p \in PointerState /\ IsFiniteSet(H)
      /\ c.t \in [Rec -> SUBSET Codes] /\ list \in Seq(Pressed)
      /\ Exact(list, H, {P, D}) /\ HoldsFocus(s, c.p) /\ Explained(c)
  BY PtFields DEF MouseOK, Typed, Listed
<1>2. P \in Rec /\ D \in Rec
  BY <1>1, StateFields DEF Diverting, Typed, Calm, Ptr
<1>3. /\ p \in PointerState /\ p.buttons = Told(B, e)
      /\ p.mode = c.p.mode /\ p.button_holding = c.p.button_holding
      /\ p.last_d = c.p.last_d /\ p.mouse_pressed = list /\ p.mt = c.p.mt
  BY <1>1, TracksMouse
<1>4. u = [s |-> s, p |-> p, t |-> c.t]
  BY <1>1, PathFields
<1>5. q \in PointerState /\ d \in {P, D}
  BY <1>3, HoldingType, SetHolding, ReceiverIs DEF HeldAs
<1>6. "CLICKHOLDFOCUS" \in mode =>
         /\ B # {} => d = c.p.last_d
         /\ p.buttons # {} => q.button_holding # 0
  <2> HIDE DEF p
  <2> QED
    BY <1>1, <1>3, HeldReceiver
<1> HIDE DEF p
<1>7. Typed(u) /\ Quiet(u.p.mt) /\ u.s = s /\ u.p = p /\ u.t = c.t
  BY <1>1, <1>3, <1>4, TypedPath DEF Typed
<1>8. /\ e.kind = "KEY" => mb \in Pressed
      /\ mb.code = e.code /\ mb.slot = slot /\ mb.domain = d
  <2>1. e.kind = "KEY" => e.code \in Buttons
    BY DEF MouseEvent
  <2>2. u.p.at \in {"in", "out"} /\ d \in Rec
    BY <1>2, <1>3, <1>5, <1>7, PtFields
  <2> HIDE DEF d
  <2> QED
    BY <2>1, <2>2 DEF Entry, Pressed
<1> HIDE DEF q, d, mb
<1>9. /\ l \in Seq(Pressed) /\ Exact(l, K, {P, D})
      /\ e.kind = "KEY" /\ e.value # 0 => Pointed(l, e.code, d)
      /\ release => i \in DOMAIN list /\ i # 0 /\ list[i].code = e.code
      /\ \A code, r : Pointed(list, code, r) =>
            Pointed(l, code, r) \/ (release /\ code = e.code /\ r = list[i].domain)
  <2>1. mb.domain \in {P, D}
    BY <1>5, <1>8
  <2>2. RelistedOK(list, K, {P, D}, mb, i, e)
    BY <1>1, <1>8, <2>1, RelistedExact
  <2> HIDE DEF i
  <2> QED
    BY <1>8, <2>2 DEF RelistedOK
<1>10. /\ Typed(T) /\ Quiet(T.p.mt) /\ Clicks(s, T.s)
       /\ T.p.mode = c.p.mode /\ T.p.buttons = Told(B, e)
       /\ T.p.button_holding = q.button_holding
       /\ Passed(u, d, slot, e, T)
  <2>1. Matching(u.p.mouse_pressed, slot, e.code) # 0 =>
           Matching(u.p.mouse_pressed, slot, e.code) \in DOMAIN u.p.mouse_pressed
    <3>1. i # 0 => i \in DOMAIN list
      BY <1>1, MatchingEntry
    <3> QED
      BY <1>3, <1>7, <3>1
  <2>2. q = HeldAs(u.p, u.s.mouse_parent, e)
    BY <1>7 DEF q
  <2>3. Diverting(u.s)
    BY <1>7
  <2>4. d = Receiver(u.s, q)
    BY <1>7 DEF d
  <2> HIDE DEF l, R
  <2>5. /\ Typed(T) /\ Quiet(T.p.mt) /\ Clicks(u.s, T.s)
        /\ T.p.mode = u.p.mode /\ T.p.buttons = u.p.buttons
        /\ T.p.button_holding = q.button_holding
        /\ Passed(u, Receiver(u.s, q), slot, e, T)
    <3>1. PassedOn(u, slot, e, T)
      BY <1>7, <2>1, <2>3, DivertedPasses
    <3> QED
      BY <2>2, <3>1 DEF PassedOn
  <2> QED
    BY <1>3, <1>7, <2>4, <2>5
<1>11. /\ T.p.mouse_pressed = l /\ Tolds(c.t, T.t, R, e)
       /\ T.p.last_d = IF Elsewhere(list, d, i, e) THEN c.p.last_d ELSE d
  <2>1. Clones(u.s, u.p) <=> Clones(s, c.p)
    BY <1>3, <1>7 DEF Clones
  <2> QED
    BY <1>3, <1>7, <1>10, <2>1 DEF Passed, mb
<1>12. SameMouse(s, T.s)
  BY <1>1, <1>10, ClicksCalm DEF Typed
<1>13. Clones(s, c.p) => "CLICKHOLDFOCUS" \in mode
  <2>1. mode \in Modes \cup {{}}
    BY <1>1, <1>2, PtFields
  <2> QED
    BY <2>1 DEF ClonesHold, Clones
<1>14. release => i # 0 /\ list[i].domain \in {P, D}
  BY <1>1, <1>9 DEF Exact
<1> HIDE DEF l, i, mode
<1>15. ASSUME NEW r \in Rec, NEW b \in T.t[r]
       PROVE  ExplainedTo(T.s, T.p, r, b)
  <2>1. SUFFICES Pointed(l, b, r) \/ (r = P /\ Clones(s, c.p) /\ b \in T.p.buttons /\ T.p.last_d # r)
    BY <1>10, <1>11, <1>12 DEF ExplainedTo, SameMouse, Diverting, Clones
  <2>2. CASE b \notin c.t[r]
    <3>1. r \in R /\ e.kind = "KEY" /\ e.value # 0 /\ b = e.code
      BY <1>11, <2>2 DEF Tolds, Told
    <3>2. ~ Elsewhere(list, d, i, e)
      BY <3>1 DEF Elsewhere
    <3>3. CASE r = d
      BY <1>9, <3>1, <3>3
    <3>4. CASE r # d
      <4>1. r = P /\ Clones(s, c.p) /\ T.p.last_d = d
        BY <1>11, <3>1, <3>2, <3>4
      <4>2. b \in T.p.buttons
        BY <1>10, <3>1 DEF Told
      <4> QED
        BY <3>4, <4>1, <4>2
    <3> QED
      BY <3>3, <3>4
  <2>3. CASE b \in c.t[r]
    <3>1. release /\ b = e.code => r \notin R
      BY <1>11 DEF Tolds, Told
    <3>2. ExplainedTo(s, c.p, r, b)
      BY <1>1, <2>3 DEF Explained
    <3>3. CASE Pointed(list, b, r)
      <4>1. release /\ b = e.code => r # list[i].domain
        BY <1>14, <3>1 DEF Elsewhere
      <4> QED
        BY <1>9, <3>3, <4>1
    <3>4. CASE ~ Pointed(list, b, r)
      <4>1. r = P /\ Clones(s, c.p) /\ b \in B /\ c.p.last_d # P
        BY <3>2, <3>4 DEF ExplainedTo
      <4>2. d = c.p.last_d /\ d = D /\ d # P
        BY <1>5, <1>6, <1>13, <4>1
      <4>3. T.p.last_d = c.p.last_d
        BY <1>11, <4>2
      <4>4. release /\ b = e.code => FALSE
        BY <1>14, <3>1, <4>1, <4>2 DEF Elsewhere
      <4>5. b \in T.p.buttons
        BY <1>10, <4>1, <4>4 DEF Told, MouseEvent
      <4> QED
        BY <4>1, <4>3, <4>5
    <3> QED
      BY <3>3, <3>4
  <2> QED
    BY <2>2, <2>3
<1>16. "CLICKHOLDFOCUS" \in mode /\ B # {} => T.p.last_d = c.p.last_d
  BY <1>6, <1>11
<1>17. HoldsFocus(T.s, T.p)
  <2>1. SUFFICES ASSUME "CLICKHOLDFOCUS" \in mode, T.p.buttons # {}
                 PROVE  T.p.button_holding # 0 /\ T.p.last_d \in {P, D}
    BY <1>10, <1>12 DEF HoldsFocus, SameMouse, mode
  <2>2. T.p.button_holding # 0
    BY <1>3, <1>6, <1>10, <2>1
  <2>3. CASE Elsewhere(list, d, i, e)
    <3>1. B # {}
      BY <1>10, <2>1, <2>3 DEF Elsewhere, Told
    <3>2. c.p.last_d \in {P, D}
      BY <1>1, <2>1, <3>1 DEF HoldsFocus, mode
    <3> QED
      BY <1>11, <2>2, <2>3, <3>2
  <2>4. CASE ~ Elsewhere(list, d, i, e)
    BY <1>5, <1>11, <2>2, <2>4
  <2> QED
    BY <2>3, <2>4
<1>18. IsFiniteSet(K) /\ T.p.buttons \subseteq Down(K)
  BY <1>10, MovedDown DEF MouseOK
<1>19. Listed(T.s, T.p, K)
  BY <1>9, <1>11, <1>12 DEF Listed, Diverting, SameMouse
<1> QED
  BY <1>10, <1>15, <1>16, <1>17, <1>18, <1>19 DEF MouseOK, Explained, mode

\* Without a divert.
LEMMA DirectKeeps ==
  ASSUME NEW c, NEW H, MouseOK(c, H), c.s.mouse_parent = NULL, c.s.mouse_dest # NULL,
         NEW slot, NEW e, MouseEvent(e), NEW K, Moved(H, slot, e, K),
         NEW u, u = [c EXCEPT !.p = input_track_mouse_position(c.p, e)],
         NEW T, T = Direct(u, e)
  PROVE  MouseOK(T, K) /\ Clicks(c.s, T.s)
<1> DEFINE s == c.s
           d == s.mouse_dest
           p == input_track_mouse_position(c.p, e)
           v == IF IsClick(s, e) THEN input_set_keyb(s, d) ELSE s
           m == [s |-> v, p |-> p, t |-> c.t]
<1>1. /\ Typed(c) /\ Quiet(c.p.mt) /\ c.p \in PointerState /\ IsFiniteSet(H)
      /\ c.t \in [Rec -> SUBSET Codes] /\ c.p.mouse_pressed = <<>>
      /\ Explained(c) /\ c.p.buttons \subseteq Down(H) /\ ~Diverting(s)
  BY DEF MouseOK, Typed, Listed, Diverting
<1>2. d \in Rec /\ d \in Ptr
  BY <1>1, StateFields DEF Typed, Calm, Ptr
<1>3. /\ p \in PointerState /\ p.buttons = Told(c.p.buttons, e)
      /\ p.mouse_pressed = <<>> /\ p.mt = c.p.mt
  BY <1>1, TracksMouse
<1>4. u = [s |-> s, p |-> p, t |-> c.t]
  BY <1>1, PathFields
<1> HIDE DEF p
<1>5. Clicks(s, v)
  BY DEF Clicks, IsClick
<1>6. Calm(v) /\ SameMouse(s, v)
  BY <1>1, <1>5, ClicksCalm DEF Typed
<1>7. T = Dispatch(m, d, e)
  <2>1. Direct(u, e) = Dispatch(IF IsClick(s, e) THEN [u EXCEPT !.s = input_set_keyb(s, d)]
                                ELSE u, d, e)
    BY <1>4 DEF Direct
  <2>2. CASE IsClick(s, e)
    <3>0. v = input_set_keyb(s, d)
      BY <2>2
    <3>1. m = [u EXCEPT !.s = v]
      <4> HIDE DEF v
      <4>1. Typed([s |-> s, p |-> p, t |-> c.t])
        BY <1>1, <1>3, TypedPath DEF Typed
      <4>2. u.p = p /\ u.t = c.t
        BY <1>4
      <4>3. Typed(u)
        BY <1>4, <4>1, Zenon
      <4> QED
        BY <4>2, <4>3, PathFields
    <3> HIDE DEF m, v
    <3> QED
      BY <2>1, <2>2, <3>0, <3>1
  <2>3. CASE ~ IsClick(s, e)
    <3>1. m = u
      BY <1>4, <2>3
    <3> HIDE DEF m
    <3> QED
      BY <2>1, <2>3, <3>1
  <2> QED
    BY <2>2, <2>3
<1> HIDE DEF v
<1>8. Typed(m) /\ Quiet(m.p.mt) /\ m.s = v /\ m.p = p /\ m.t = c.t
  BY <1>1, <1>3, <1>6, TypedPath
<1> HIDE DEF m
<1>9. Tells(m, T, {d}, e)
  BY <1>2, <1>7, <1>8, DispatchSends, SendTells
<1>10. /\ Typed(T) /\ Quiet(T.p.mt) /\ T.s = v /\ T.p.mouse_pressed = <<>>
       /\ T.p.buttons = Told(c.p.buttons, e)
       /\ Tolds(c.t, T.t, {d}, e)
  BY <1>3, <1>8, <1>9 DEF Tells, SameHands, Tolds
<1>11. ~Diverting(T.s) /\ T.s.mouse_dest = d
  BY <1>1, <1>6, <1>10 DEF Diverting, SameMouse
<1>12. ASSUME NEW r \in Rec, NEW b \in T.t[r] PROVE ExplainedTo(T.s, T.p, r, b)
  <2>1. \A x \in c.t[r] : r = d /\ x \in c.p.buttons
    BY <1>1 DEF Explained, ExplainedTo
  <2>2. r = d /\ b \in Told(c.p.buttons, e)
    BY <1>10, <2>1 DEF Tolds, Told
  <2> QED
    BY <1>10, <1>11, <2>2 DEF ExplainedTo
<1>13. HoldsFocus(T.s, T.p) /\ Listed(T.s, T.p, K)
  BY <1>10, <1>11 DEF HoldsFocus, Listed
<1>14. IsFiniteSet(K) /\ T.p.buttons \subseteq Down(K)
  BY <1>1, <1>10, MovedDown
<1> QED
  BY <1>5, <1>10, <1>12, <1>13, <1>14 DEF MouseOK, Explained

\* Nobody is there to get it.
LEMMA DroppedKeeps ==
  ASSUME NEW c, NEW H, MouseOK(c, H), c.s.mouse_dest = NULL,
         NEW slot, NEW e, MouseEvent(e), NEW K, Moved(H, slot, e, K),
         NEW u, u = [c EXCEPT !.p = input_track_mouse_position(c.p, e)]
  PROVE  MouseOK(u, K)
<1> DEFINE p == input_track_mouse_position(c.p, e)
<1>1. /\ Typed(c) /\ Quiet(c.p.mt) /\ c.p \in PointerState /\ IsFiniteSet(H)
      /\ c.t \in [Rec -> SUBSET Codes] /\ c.p.mouse_pressed = <<>>
      /\ Explained(c) /\ c.p.buttons \subseteq Down(H) /\ ~Diverting(c.s) /\ Calm(c.s)
  BY DEF MouseOK, Typed, Listed, Diverting
<1>2. /\ p \in PointerState /\ p.buttons = Told(c.p.buttons, e)
      /\ p.mouse_pressed = <<>> /\ p.mt = c.p.mt
  BY <1>1, TracksMouse
<1>3. u = [s |-> c.s, p |-> p, t |-> c.t]
  BY <1>1, PathFields
<1> HIDE DEF p
<1>4. Typed(u) /\ u.s = c.s /\ u.p = p /\ u.t = c.t
  <2>1. Typed([s |-> c.s, p |-> p, t |-> c.t])
    BY <1>1, <1>2, TypedPath
  <2>2. u.s = c.s /\ u.p = p /\ u.t = c.t
    BY <1>3
  <2> QED
    BY <1>3, <2>1, <2>2, Zenon
<1>5. Explained(u)
  BY <1>1, <1>4, Pointers DEF Explained, ExplainedTo
<1>6. HoldsFocus(u.s, u.p) /\ Listed(u.s, u.p, K)
  BY <1>1, <1>2, <1>4 DEF HoldsFocus, Listed
<1>7. IsFiniteSet(K) /\ u.p.buttons \subseteq Down(K)
  <2>1. IsFiniteSet(K) /\ Told(c.p.buttons, e) \subseteq Down(K)
    BY <1>1, MovedDown
  <2> QED
    BY <1>2, <1>4, <2>1
<1> QED
  BY <1>1, <1>2, <1>4, <1>5, <1>6, <1>7 DEF MouseOK

\* A button that is down keeps the guest that got the last event.
KeepsGuest(c, T) ==
    /\ c.p.buttons # {} /\ c.s.mouse_parent # NULL
    /\ "CLICKHOLDFOCUS" \in c.p.mode[c.s.mouse_parent]
    => T.p.last_d = c.p.last_d

LEMMA MouseKeeps ==
  ASSUME ClonesHold, NEW c, NEW H, MouseOK(c, H), NEW slot \in DOMAIN Mice,
         NEW e, MouseEvent(e), NEW K, Moved(H, slot, e, K),
         NEW T, T = input_inject(c, slot, e)
  PROVE  MouseOK(T, K) /\ Clicks(c.s, T.s) /\ KeepsGuest(c, T)
<1>1. PICK u : u = [c EXCEPT !.p = input_track_mouse_position(c.p, e)]
  OBVIOUS
<1>2. Typed(c) /\ c.p \in PointerState
  BY DEF MouseOK, Typed
<1>3. u = [s |-> c.s, p |-> input_track_mouse_position(c.p, e), t |-> c.t]
  BY <1>1, <1>2, PathFields
<1>4. u.s = c.s /\ u.p.last_d = c.p.last_d
  BY <1>2, <1>3, TracksMouse
<1>5. T = IF u.s.mouse_dest = NULL THEN u
          ELSE IF u.s.mouse_parent # NULL THEN Diverted(u, slot, e)
          ELSE Direct(u, e)
  BY <1>1 DEF input_inject
<1>6. CASE c.s.mouse_dest = NULL
  BY <1>1, <1>4, <1>5, <1>6, DroppedKeeps DEF Clicks, KeepsGuest
<1>7. CASE c.s.mouse_dest # NULL /\ c.s.mouse_parent # NULL
  <2>1. T = Diverted(u, slot, e)
    BY <1>4, <1>5, <1>7
  <2> QED
    BY <1>1, <1>7, <2>1, DivertedKeeps DEF KeepsGuest, Diverting
<1>8. CASE c.s.mouse_dest # NULL /\ c.s.mouse_parent = NULL
  <2>1. T = Direct(u, e)
    BY <1>4, <1>5, <1>8
  <2> QED
    BY <1>1, <1>8, <2>1, DirectKeeps DEF KeepsGuest
<1> QED
  BY <1>6, <1>7, <1>8

-----------------------------------------------------------------------------
(* What demultitouch makes of the touchscreen's events.                    *)

TouchEvent(e) ==
    \/ e.kind \in {"MOVE", "SHAPE", "SYN"}
    \/ e.kind = "SLOT" /\ e.value \in 0..MaxSlot
    \/ e.kind = "TRACK" /\ e.value \in {-1, 1}
    \/ e.kind = "KEY" /\ e.code = "BTN_TOUCH"

Pending == {"send_left", "send_left_up"}

\* One event, from mt to nt; l and m say whether the guest took the left button
\* for held before and after.
Tapped(mt, l, e, nt, m) ==
    LET f == mt.deferpressed IN
    IF mt.slot # 0
    THEN /\ nt.pressed = mt.pressed
         /\ nt.slot = IF e.kind = "SYN" THEN 0
                      ELSE IF e.kind = "SLOT" THEN e.value ELSE mt.slot
         /\ nt.deferpressed = IF f \in Pending THEN "send_sync" ELSE "nope"
         /\ m <=> IF f \in Pending THEN f = "send_left" ELSE l
    ELSE IF e.kind = "SYN"
    THEN /\ nt.pressed = mt.pressed /\ nt.slot = 0 /\ nt.deferpressed = "nope"
         /\ m <=> IF f \in Pending THEN f = "send_left" ELSE l
    ELSE IF e.kind = "TRACK"
    THEN /\ nt.pressed = (e.value # -1) /\ nt.slot = 0 /\ (m <=> l)
         /\ nt.deferpressed = IF nt.pressed = mt.pressed THEN f
                              ELSE IF nt.pressed THEN "send_left" ELSE "send_left_up"
    ELSE /\ nt.pressed = mt.pressed /\ nt.deferpressed = f /\ (m <=> l)
         /\ nt.slot = IF e.kind = "SLOT" THEN e.value ELSE 0

\* Between two events nothing is drained, and a report is held back only while
\* another contact's events are passing.
Undrained(mt) ==
    ~mt.draining /\ (mt.deferpressed = "send_sync" => mt.slot # 0)

LeftHeld(S) == "BTN_LEFT" \in S

TapOK(mt, S, e, o) ==
    /\ o.mt \in MtState /\ ~o.mt.draining /\ o.told \in SUBSET Codes
    /\ Tapped(mt, LeftHeld(S), e, o.mt, LeftHeld(o.told))

LEMMA AwayTaps ==
  ASSUME NEW mt \in MtState, Undrained(mt), mt.slot # 0,
         NEW S \in SUBSET Codes, NEW e, TouchEvent(e)
  PROVE  TapOK(mt, S, e, input_send(mt, S, e))
<1> DEFINE t == SlotFollows(mt, e)
           f == mt.deferpressed
           k == Key("BTN_LEFT", IF f = "send_left" THEN 1 ELSE 0)
<1>1. /\ t \in MtState /\ ~t.draining /\ t.pressed = mt.pressed
      /\ t.deferpressed = f
      /\ t.slot = IF e.kind = "SYN" THEN 0
                  ELSE IF e.kind = "SLOT" THEN e.value ELSE mt.slot
  <2>0. /\ ~mt.draining /\ mt.slot \in 0..MaxSlot /\ mt.had_slot0 \in BOOLEAN
        /\ mt.pressed \in BOOLEAN /\ f \in Deferred
    BY DEF Undrained, MtState
  <2>1. CASE e.kind = "SYN"
    <3>1. t = [mt EXCEPT !.slot = 0, !.had_slot0 = FALSE]
      BY <2>0, <2>1 DEF SlotFollows
    <3>2. 0 \in 0..MaxSlot
      BY DEF MaxSlot
    <3> QED
      BY <2>0, <2>1, <3>1, <3>2 DEF MtState
  <2>2. CASE e.kind = "SLOT"
    <3>1. t = [mt EXCEPT !.slot = e.value, !.had_slot0 = mt.had_slot0 \/ e.value = 0]
      BY <2>0, <2>2 DEF SlotFollows
    <3>2. e.value \in 0..MaxSlot
      BY <2>2 DEF TouchEvent
    <3> QED
      BY <2>0, <2>2, <3>1, <3>2 DEF MtState
  <2>3. CASE e.kind \notin {"SYN", "SLOT"}
    <3>1. t = mt
      BY <2>0, <2>3 DEF SlotFollows
    <3> QED
      BY <2>0, <2>3, <3>1
  <2> QED
    BY <2>1, <2>2, <2>3
<1>2. demultitouch(mt, e) = Replace(t, e)
  BY DEF demultitouch
<1> HIDE DEF t
<1>3. CASE f = "send_sync"
  <2> DEFINE nt == [t EXCEPT !.deferpressed = "nope", !.draining = FALSE]
  <2>1. /\ nt \in MtState /\ ~nt.draining /\ nt.pressed = t.pressed
        /\ nt.deferpressed = "nope" /\ nt.slot = t.slot
    BY <1>1 DEF MtState, Deferred
  <2>2. demultitouch(mt, e) = Outcome(nt, SYN, "send")
    BY <1>1, <1>2, <1>3 DEF Replace
  <2> HIDE DEF nt
  <2>3. input_send(mt, S, e) = [mt |-> nt, told |-> S]
    BY <2>2 DEF input_send, Outgoing, Done, Sent, Outcome, Told, SYN, Event
  <2> QED
    BY <1>1, <1>3, <2>1, <2>3 DEF TapOK, Tapped, Pending
<1>4. CASE f \in Pending
  <2> DEFINE nt == [t EXCEPT !.deferpressed = "send_sync"]
  <2>1. /\ nt \in MtState /\ ~nt.draining /\ nt.pressed = t.pressed
        /\ nt.deferpressed = "send_sync" /\ nt.slot = t.slot
    BY <1>1 DEF MtState, Deferred
  <2>2. demultitouch(mt, e) = Outcome(nt, k, "send")
    BY <1>1, <1>2, <1>4 DEF Replace, Pending
  <2> HIDE DEF nt
  <2>3. input_send(mt, S, e) = [mt |-> nt, told |-> Told(S, k)]
    BY <2>2 DEF input_send, Outgoing, Done, Sent, Outcome
  <2>4. /\ Told(S, k) \in SUBSET Codes
        /\ LeftHeld(Told(S, k)) <=> f = "send_left"
    BY DEF Told, Key, Event, Codes, LeftHeld
  <2> QED
    BY <1>1, <1>4, <2>1, <2>3, <2>4 DEF TapOK, Tapped
<1>5. CASE f = "nope"
  <2>1. demultitouch(mt, e) = Outcome(t, e, "discard")
    BY <1>1, <1>2, <1>5 DEF Replace
  <2>2. input_send(mt, S, e) = [mt |-> t, told |-> S]
    BY <2>1 DEF input_send, Outgoing, Done, Sent, Outcome
  <2> QED
    BY <1>1, <1>5, <2>2 DEF TapOK, Tapped, Pending
<1> QED
  BY <1>3, <1>4, <1>5 DEF MtState, Deferred, Pending

LEMMA HomeTaps ==
  ASSUME NEW mt \in MtState, Undrained(mt), mt.slot = 0,
         NEW S \in SUBSET Codes, NEW e, TouchEvent(e), e.kind # "SYN"
  PROVE  TapOK(mt, S, e, input_send(mt, S, e))
<1>0. ~mt.draining /\ mt.pressed \in BOOLEAN /\ mt.deferpressed \in Deferred
  BY DEF Undrained, MtState
<1>1. CASE e.kind = "TRACK"
  <2> DEFINE now == e.value # -1
             nt == [mt EXCEPT !.pressed = now, !.had_slot0 = TRUE,
                              !.deferpressed = IF now THEN "send_left" ELSE "send_left_up"]
  <2>1. demultitouch(mt, e) = Contact(mt, e)
    BY <1>0, <1>1 DEF demultitouch
  <2>2. CASE mt.pressed = now
    <3>1. demultitouch(mt, e) = Outcome(mt, e, "send")
      BY <2>1, <2>2 DEF Contact
    <3>2. input_send(mt, S, e) = [mt |-> mt, told |-> S]
      BY <1>1, <3>1 DEF input_send, Outgoing, Done, Sent, Outcome, Told
    <3> QED
      BY <1>0, <1>1, <2>2, <3>2 DEF TapOK, Tapped
  <2>3. CASE mt.pressed # now
    <3>1. /\ nt \in MtState /\ ~nt.draining /\ nt.pressed = now /\ nt.slot = 0
          /\ nt.deferpressed = IF now THEN "send_left" ELSE "send_left_up"
      BY <1>0 DEF MtState, Deferred
    <3>2. demultitouch(mt, e) = Outcome(nt, e, "discard")
      BY <2>1, <2>3 DEF Contact
    <3> HIDE DEF nt
    <3>3. input_send(mt, S, e) = [mt |-> nt, told |-> S]
      BY <3>2 DEF input_send, Outgoing, Done, Sent, Outcome
    <3>4. Tapped(mt, LeftHeld(S), e, nt, LeftHeld(S))
      BY <1>1, <2>3, <3>1 DEF Tapped
    <3> QED
      BY <3>1, <3>3, <3>4 DEF TapOK
  <2> QED
    BY <2>2, <2>3
<1>2. CASE e.kind = "SLOT"
  <2> DEFINE nt == [mt EXCEPT !.slot = e.value]
  <2>1. /\ nt \in MtState /\ ~nt.draining /\ nt.pressed = mt.pressed
        /\ nt.deferpressed = mt.deferpressed /\ nt.slot = e.value
    BY <1>0, <1>2 DEF MtState, TouchEvent
  <2>2. demultitouch(mt, e) = Leave(mt, e)
    BY <1>0, <1>2 DEF demultitouch
  <2> HIDE DEF nt
  <2>3. demultitouch(mt, e) \in {Outcome(nt, e, "send"), Outcome(nt, SYN, "send"),
                                 Outcome(nt, e, "discard")}
    BY <2>2 DEF Leave, nt
  <2>4. input_send(mt, S, e) = [mt |-> nt, told |-> S]
    BY <1>2, <2>3 DEF input_send, Outgoing, Done, Sent, Outcome, Told, SYN, Event
  <2> QED
    BY <1>0, <1>2, <2>1, <2>4 DEF TapOK, Tapped
<1>3. CASE e.kind \in {"MOVE", "SHAPE", "KEY"}
  <2> DEFINE nt == IF e.kind = "MOVE" THEN mt ELSE [mt EXCEPT !.had_slot0 = TRUE]
  <2>1. /\ nt \in MtState /\ ~nt.draining /\ nt.pressed = mt.pressed
        /\ nt.deferpressed = mt.deferpressed /\ nt.slot = 0
    BY <1>0 DEF MtState
  <2>2. demultitouch(mt, e) = Outcome(nt, e, IF e.kind = "SHAPE" THEN "discard" ELSE "send")
    BY <1>0, <1>3 DEF demultitouch
  <2> HIDE DEF nt
  <2>3. input_send(mt, S, e) = [mt |-> nt, told |-> Told(S, e)]
    BY <1>3, <2>2 DEF input_send, Outgoing, Done, Sent, Outcome, Told
  <2>4. Told(S, e) \in SUBSET Codes /\ (LeftHeld(Told(S, e)) <=> LeftHeld(S))
    BY <1>3 DEF Told, TouchEvent, Codes, LeftHeld
  <2> QED
    BY <1>0, <1>3, <2>1, <2>3, <2>4 DEF TapOK, Tapped
<1> QED
  BY <1>1, <1>2, <1>3 DEF TouchEvent

LEMMA ReportTaps ==
  ASSUME NEW mt \in MtState, Undrained(mt), mt.slot = 0,
         NEW S \in SUBSET Codes, NEW e, e.kind = "SYN"
  PROVE  TapOK(mt, S, e, input_send(mt, S, e))
<1> DEFINE t == [mt EXCEPT !.had_slot0 = FALSE]
           f == mt.deferpressed
           k == Key("BTN_LEFT", IF f = "send_left" THEN 1 ELSE 0)
<1>0. /\ ~mt.draining /\ f \in {"nope"} \cup Pending
      /\ t \in MtState /\ ~t.draining /\ t.pressed = mt.pressed
      /\ t.deferpressed = f /\ t.slot = 0
  BY DEF Undrained, MtState, Deferred, Pending
<1>1. demultitouch(mt, e) = EndFrame(mt, e)
  BY <1>0 DEF demultitouch
<1>2. CASE f = "nope"
  <2>1. demultitouch(mt, e) = Outcome(t, e, "send")
    BY <1>1, <1>2 DEF EndFrame
  <2> HIDE DEF t
  <2>2. input_send(mt, S, e) = [mt |-> t, told |-> S]
    BY <2>1 DEF input_send, Outgoing, Done, Sent, Outcome, Told
  <2> QED
    BY <1>0, <1>2, <2>2 DEF TapOK, Tapped, Pending
<1>3. CASE f \in Pending
  <2> DEFINE t1 == [t EXCEPT !.draining = TRUE]
             t2 == [t1 EXCEPT !.deferpressed = "send_sync"]
             t3 == [t2 EXCEPT !.deferpressed = "nope", !.draining = FALSE]
  <2>1. demultitouch(mt, e) = Outcome(t1, e, "queued")
    BY <1>1, <1>3 DEF EndFrame, Pending
  <2> HIDE DEF t
  <2>2. t1.draining /\ t1.deferpressed = f /\ t1 \in MtState
        /\ t1.slot = 0 /\ t1.pressed = mt.pressed
    BY <1>0 DEF MtState
  <2>3. demultitouch(t1, e) = Outcome(t2, k, "queued")
    <3> HIDE DEF t1
    <3>1. demultitouch(t1, e) = Replace(t1, e)
      BY <2>2 DEF demultitouch, SlotFollows
    <3> QED
      BY <1>3, <2>2, <3>1 DEF Replace, Pending
  <2> HIDE DEF t1
  <2>4. t2.draining /\ t2.deferpressed = "send_sync" /\ t2 \in MtState
        /\ t2.slot = 0 /\ t2.pressed = mt.pressed
    BY <2>2 DEF MtState, Deferred
  <2>5. demultitouch(t2, k) = Outcome(t3, SYN, "send")
    <3> HIDE DEF t2
    <3>1. demultitouch(t2, k) = Replace(t2, k)
      BY <2>4 DEF demultitouch, SlotFollows
    <3> QED
      BY <2>4, <3>1 DEF Replace
  <2> HIDE DEF t2
  <2>6. ~t3.draining /\ t3.deferpressed = "nope" /\ t3 \in MtState
        /\ t3.slot = 0 /\ t3.pressed = mt.pressed
    BY <2>4 DEF MtState, Deferred
  <2> HIDE DEF t3
  <2>7. input_send(mt, S, e) = [mt |-> t3, told |-> Told(S, k)]
    <3>1. input_send(mt, S, e) = Following(demultitouch(t1, e), S)
      BY <2>1 DEF input_send, Outgoing, Sent, Outcome, Told
    <3>2. Following(demultitouch(t1, e), S) = Done(demultitouch(t2, k), Told(S, k))
      BY <2>3 DEF Following, Sent, Outcome
    <3>3. Done(demultitouch(t2, k), Told(S, k)) = [mt |-> t3, told |-> Told(S, k)]
      BY <2>5 DEF Done, Sent, Outcome, Told, SYN, Event
    <3> QED
      BY <3>1, <3>2, <3>3
  <2>8. /\ Told(S, k) \in SUBSET Codes
        /\ LeftHeld(Told(S, k)) <=> f = "send_left"
    BY DEF Told, Key, Event, Codes, LeftHeld
  <2> QED
    BY <1>3, <2>6, <2>7, <2>8 DEF TapOK, Tapped
<1> QED
  BY <1>0, <1>2, <1>3

LEMMA Taps ==
  ASSUME NEW mt \in MtState, Undrained(mt), NEW S \in SUBSET Codes,
         NEW e, TouchEvent(e)
  PROVE  TapOK(mt, S, e, input_send(mt, S, e))
BY AwayTaps, HomeTaps, ReportTaps

Pv(s, d) == d # NULL /\ is_pv_domain(s, d)

\* From c to T the guest d has got e: only a PV guest meets demultitouch, and only
\* its left button may change.
Lands(c, d, e, T) ==
    /\ \A r \in Rec : (r = d /\ Pv(c.s, d)) \/ LeftHeld(T.t[r]) = LeftHeld(c.t[r])
    /\ IF Pv(c.s, d)
       THEN /\ ~T.p.mt.draining
            /\ Tapped(c.p.mt, LeftHeld(c.t[d]), e, T.p.mt, LeftHeld(T.t[d]))
       ELSE T.p.mt = c.p.mt

Touches(c, d, e, T) ==
    Typed(T) /\ T.s = c.s /\ SameHands(c.p, T.p) /\ Lands(c, d, e, T)

LEMMA SendTouches ==
  ASSUME NEW c, Typed(c), Undrained(c.p.mt), NEW d \in Ptr, NEW e, TouchEvent(e)
  PROVE  Touches(c, d, e, Send(c, d, e))
<1>1. /\ c = [s |-> c.s, p |-> c.p, t |-> c.t]
      /\ Calm(c.s) /\ c.p \in PointerState /\ c.p.mt \in MtState
      /\ c.t \in [Rec -> SUBSET Codes]
  BY PtFields DEF Typed
<1>2. CASE d = NULL
  <2>1. Send(c, d, e) = c
    BY <1>2 DEF Send
  <2> QED
    BY <2>1, <1>1, <1>2 DEF Touches, Lands, SameHands, Pv
<1>3. CASE d # NULL /\ ~is_pv_domain(c.s, d)
  <2> DEFINE t == [c.t EXCEPT ![d] = Told(c.t[d], e)]
  <2>1. d \in Rec
    BY <1>3 DEF Ptr
  <2>2. Told(c.t[d], e) \in SUBSET Codes /\ LeftHeld(Told(c.t[d], e)) = LeftHeld(c.t[d])
    BY <1>1, <2>1 DEF Told, TouchEvent, Codes, LeftHeld
  <2>3. t \in [Rec -> SUBSET Codes] /\ \A r \in Rec : LeftHeld(t[r]) = LeftHeld(c.t[r])
    BY <1>1, <2>1, <2>2
  <2>4. Send(c, d, e) = [s |-> c.s, p |-> c.p, t |-> t]
    BY <1>1, <1>3 DEF Send
  <2> HIDE DEF t
  <2>5. Typed(Send(c, d, e))
    BY <1>1, <2>3, <2>4, TypedPath
  <2> QED
    BY <1>3, <2>3, <2>4, <2>5 DEF Touches, Lands, SameHands, Pv
<1>4. CASE d # NULL /\ is_pv_domain(c.s, d)
  <2> DEFINE o == input_send(c.p.mt, c.t[d], e)
             p == [c.p EXCEPT !.mt = o.mt]
             t == [c.t EXCEPT ![d] = o.told]
  <2>1. d \in Rec /\ c.t[d] \in SUBSET Codes
    BY <1>1, <1>4 DEF Ptr
  <2>2. TapOK(c.p.mt, c.t[d], e, o)
    BY <1>1, <2>1, Taps
  <2>3. Send(c, d, e) = Carried(c, d, o)
    BY <1>4 DEF Send
  <2> HIDE DEF o
  <2>4. Send(c, d, e) = [s |-> c.s, p |-> p, t |-> t]
    <3>1. Carried(c, d, o) = [[c EXCEPT !.p = p] EXCEPT !.t[d] = o.told]
      BY DEF Carried
    <3> HIDE DEF p
    <3>2. [c EXCEPT !.p = p] = [s |-> c.s, p |-> p, t |-> c.t]
      BY PathFields
    <3> QED
      BY <2>3, <3>1, <3>2
  <2>5. /\ o.mt \in MtState /\ ~o.mt.draining /\ o.told \in SUBSET Codes
        /\ Tapped(c.p.mt, LeftHeld(c.t[d]), e, o.mt, LeftHeld(o.told))
    BY <2>2 DEF TapOK
  <2>6. p \in PointerState /\ SameHands(c.p, p) /\ p.mt = o.mt
    BY <1>1, <2>5 DEF PointerState, SameHands
  <2>7. /\ t \in [Rec -> SUBSET Codes] /\ t[d] = o.told
        /\ \A r \in Rec : r # d => t[r] = c.t[r]
    BY <1>1, <2>1, <2>5
  <2> HIDE DEF p, t
  <2>8. Typed(Send(c, d, e))
    BY <1>1, <2>4, <2>6, <2>7, TypedPath
  <2> QED
    BY <1>4, <2>4, <2>5, <2>6, <2>7, <2>8 DEF Touches, Lands, Pv
<1> QED
  BY <1>2, <1>3, <1>4

\* Who gets a touch: the frame decides, since no button holds the focus.
Receiving(s, p) ==
    IF s.mouse_dest = NULL THEN NULL
    ELSE IF s.mouse_parent = NULL \/ p.at = "in" THEN s.mouse_dest
    ELSE s.mouse_parent

NoButtons(p) == p.buttons = {} /\ p.button_holding = 0 /\ p.mouse_pressed = <<>>

\* A viewer is not a PV guest; touches leave the mice's statics alone.
TouchInjected(c, e, T) ==
    /\ Typed(T) /\ T.s = c.s /\ NoButtons(T.p) /\ T.p.at = c.p.at
    /\ Lands(c, Receiving(c.s, c.p), e, T)

LEMMA TouchDiverted ==
  ASSUME NEW c, Typed(c), Undrained(c.p.mt), NoButtons(c.p), Diverting(c.s),
         ~Pv(c.s, c.s.mouse_parent), NEW slot, NEW e, TouchEvent(e)
  PROVE  TouchInjected(c, e, Diverted(c, slot, e))
<1> DEFINE s == c.s
           v == s.mouse_parent
           d == Receiving(s, c.p)
           p == [c.p EXCEPT !.last_d = d]
           m == [s |-> s, p |-> p, t |-> c.t]
           clones == d # v /\ "CLONEEVENTS" \in c.p.mode[v]
           n == IF clones THEN Send(m, v, e) ELSE m
<1>1. /\ c = [s |-> c.s, p |-> c.p, t |-> c.t]
      /\ Calm(s) /\ c.p \in PointerState /\ c.t \in [Rec -> SUBSET Codes]
  BY DEF Typed
<1>2. v \in Ptr /\ d \in Ptr /\ v # NULL /\ s.mouse_dest # NULL
  BY <1>1, StateFields DEF Calm, Receiving, Diverting
<1>3. c = [c EXCEPT !.p.button_holding = 0]
  BY <1>1 DEF NoButtons, PointerState
<1>4. Holding(c.p, c.p.mode[v], e) = 0
  BY DEF Holding, NoButtons
<1>5. Receiver(s, c.p) = d
  BY <1>2 DEF Receiver, Receiving, NoButtons
<1>6. ~IsClick(s, e) /\ ~(e.kind = "KEY" /\ e.code \in Buttons)
  BY PointerAssumption DEF IsClick, TouchEvent, Buttons
<1>7. [c EXCEPT !.p.last_d = d] = m
  BY <1>1
<1>8. Diverted(c, slot, e) = Dispatch(n, d, e)
  BY <1>3, <1>4, <1>5, <1>6, <1>7 DEF Diverted
<1>9. /\ p \in PointerState /\ NoButtons(p) /\ p.at = c.p.at /\ p.mt = c.p.mt
  BY <1>1, <1>2, SetLast DEF NoButtons
<1> HIDE DEF p, d
<1>10. Typed(m) /\ m.s = s /\ m.p = p /\ m.t = c.t
  BY <1>1, <1>9, TypedPath
<1> HIDE DEF m
<1>11. /\ Typed(n) /\ n.s = s /\ NoButtons(n.p) /\ n.p.at = c.p.at /\ n.p.mt = c.p.mt
       /\ \A r \in Rec : LeftHeld(n.t[r]) = LeftHeld(c.t[r])
  <2>1. CASE clones
    <3>1. Touches(m, v, e, Send(m, v, e))
      BY <1>2, <1>9, <1>10, SendTouches
    <3>2. n = Send(m, v, e)
      BY <2>1
    <3> HIDE DEF n
    <3> QED
      BY <1>9, <1>10, <3>1, <3>2 DEF Touches, Lands, SameHands, NoButtons
  <2>2. CASE ~clones
    BY <1>9, <1>10, <2>2
  <2> QED
    BY <2>1, <2>2
<1> HIDE DEF n
<1>12. Touches(n, d, e, Diverted(c, slot, e))
  BY <1>2, <1>8, <1>11, DispatchSends, SendTouches
<1>13. Pv(s, d) => d \in Rec
  BY <1>2 DEF Pv, Ptr
<1> QED
  BY <1>11, <1>12, <1>13 DEF Touches, Lands, SameHands, NoButtons, TouchInjected, d

LEMMA TouchPasses ==
  ASSUME NEW c, Typed(c), Undrained(c.p.mt), NoButtons(c.p),
         ~Pv(c.s, c.s.mouse_parent), NEW slot, NEW e, TouchEvent(e)
  PROVE  TouchInjected(c, e, input_inject(c, slot, e))
<1>1. /\ c = [s |-> c.s, p |-> c.p, t |-> c.t] /\ c.p \in PointerState
      /\ c.s.mouse_dest \in Ptr
  BY StateFields DEF Typed, Calm
<1>2. ~IsClick(c.s, e) /\ ~(e.kind = "KEY" /\ e.code \in Buttons) /\ e.kind # "REL"
  BY PointerAssumption DEF IsClick, TouchEvent, Buttons
<1>3. [c EXCEPT !.p = input_track_mouse_position(c.p, e)] = c
  BY <1>1, <1>2 DEF input_track_mouse_position
<1>4. input_inject(c, slot, e) =
         IF c.s.mouse_dest = NULL THEN c
         ELSE IF c.s.mouse_parent # NULL THEN Diverted(c, slot, e)
         ELSE Direct(c, e)
  BY <1>3 DEF input_inject
<1>5. CASE c.s.mouse_dest = NULL
  BY <1>4, <1>5 DEF TouchInjected, Lands, Receiving, Pv
<1>6. CASE Diverting(c.s)
  BY <1>4, <1>6, TouchDiverted DEF Diverting
<1>7. CASE c.s.mouse_dest # NULL /\ c.s.mouse_parent = NULL
  <2>1. input_inject(c, slot, e) = Send(c, c.s.mouse_dest, e)
    BY <1>2, <1>4, <1>7, DispatchSends DEF Direct
  <2>2. Touches(c, c.s.mouse_dest, e, Send(c, c.s.mouse_dest, e))
    BY <1>1, SendTouches
  <2>3. Receiving(c.s, c.p) = c.s.mouse_dest
    BY <1>7 DEF Receiving
  <2> QED
    BY <2>1, <2>2, <2>3 DEF Touches, SameHands, NoButtons, TouchInjected
<1> QED
  BY <1>5, <1>6, <1>7 DEF Diverting

-----------------------------------------------------------------------------
(* The touchscreen's invariant.                                            *)

\* What demultitouch mt believes of the touchscreen, whose contacts are C and whose
\* driver last announced the slot k, while a guest takes the left button for held
\* or not (l).  Outside a report it holds nothing back; within one it may be
\* behind the fingers, and it may take a second finger for the first.
Settled(mt, l, C, k, open) ==
    /\ ~mt.draining
    /\ mt.slot # 0 => mt.deferpressed \in {"nope", "send_sync"}
    /\ mt.deferpressed = "send_sync" => mt.slot # 0
    /\ mt.deferpressed \in {"nope", "send_sync"} => (l <=> mt.pressed)
    /\ mt.deferpressed = "send_left" => mt.pressed
    /\ mt.deferpressed = "send_left_up" => ~mt.pressed
    /\ k = 0 => mt.slot = 0
    /\ mt.pressed /\ 0 \notin C => k = 1 /\ 1 \in C /\ mt.slot = 0
    /\ ~open => mt.deferpressed = "nope" /\ mt.slot = 0

\* One event of the contact n, from the contacts C to D.
Fingers(C, n, e, D) ==
    \/ e.kind = "TRACK" /\ e.value = 1 /\ n \notin C /\ D = C \cup {n}
    \/ e.kind = "TRACK" /\ e.value = -1 /\ n \in C /\ D = C \ {n}
    \/ e.kind \in {"MOVE", "SHAPE"} /\ n \in C /\ D = C

SlotEvent(n) == Event("SLOT", "none", n)

LEMMA SettledUndrained ==
  ASSUME NEW mt, NEW l, NEW C, NEW k, NEW open, Settled(mt, l, C, k, open)
  PROVE  Undrained(mt)
  BY DEF Settled, Undrained

\* Once the slot n has been announced where the driver announces it.
AtContact(mt, l, C, n) ==
    /\ ~mt.draining
    /\ mt.deferpressed = "send_sync" => mt.slot # 0
    /\ mt.deferpressed \in {"nope", "send_sync"} => (l <=> mt.pressed)
    /\ mt.deferpressed = "send_left" => mt.pressed
    /\ mt.deferpressed = "send_left_up" => ~mt.pressed
    /\ n = 0 => mt.slot = 0
    /\ mt.pressed /\ 0 \notin C => 1 \in C /\ mt.slot = 0

LEMMA SettledContact ==
  ASSUME NEW mt \in MtState, NEW l, NEW C, NEW k, NEW open, Settled(mt, l, C, k, open)
  PROVE  AtContact(mt, l, C, k)
  BY DEF Settled, AtContact

LEMMA SlotSettles ==
  ASSUME NEW mt \in MtState, NEW l \in BOOLEAN, NEW C \in SUBSET Contacts,
         NEW k \in Contacts, NEW open, Settled(mt, l, C, k, open),
         NEW n \in Contacts, n # k, NEW nt \in MtState, ~nt.draining,
         NEW m \in BOOLEAN, Tapped(mt, l, SlotEvent(n), nt, m)
  PROVE  AtContact(nt, m, C, n)
<1>1. /\ nt.slot = n /\ nt.pressed = mt.pressed /\ (m <=> l)
      /\ nt.deferpressed = IF mt.slot # 0 THEN "nope" ELSE mt.deferpressed
  BY DEF Settled, Tapped, SlotEvent, Event, Pending
<1>2. mt.pressed /\ 0 \notin C => 1 \in C /\ n = 0
  BY DEF Settled, Contacts, MaxSlot
<1> QED
  BY <1>1, <1>2 DEF Settled, AtContact

LEMMA AtContactUndrained ==
  ASSUME NEW mt, NEW l, NEW C, NEW n, AtContact(mt, l, C, n)
  PROVE  Undrained(mt)
  BY DEF AtContact, Undrained

LEMMA FingerSettles ==
  ASSUME NEW mt \in MtState, NEW l \in BOOLEAN, NEW C \in SUBSET Contacts,
         NEW n \in Contacts, AtContact(mt, l, C, n),
         NEW e, NEW D, Fingers(C, n, e, D), NEW nt \in MtState, ~nt.draining,
         NEW m \in BOOLEAN, Tapped(mt, l, e, nt, m)
  PROVE  Settled(nt, m, D, n, TRUE)
<1>0. /\ n \in {0, 1} /\ nt.deferpressed \in Deferred /\ mt.deferpressed \in Deferred
      /\ mt.pressed \in BOOLEAN /\ nt.pressed \in BOOLEAN /\ mt.slot \in {0, 1}
  BY DEF Contacts, MaxSlot, MtState
<1>1. CASE mt.slot # 0
  BY <1>0, <1>1 DEF AtContact, Fingers, Tapped, Settled, Pending, Deferred
<1>2. CASE mt.slot = 0 /\ e.kind = "TRACK"
  BY <1>0, <1>2 DEF AtContact, Fingers, Tapped, Settled, Pending, Deferred
<1>3. CASE mt.slot = 0 /\ e.kind # "TRACK"
  BY <1>0, <1>3 DEF AtContact, Fingers, Tapped, Settled, Pending, Deferred
<1> QED
  BY <1>1, <1>2, <1>3

\* The driver's pointer emulation, where it speaks.
LEMMA EmulationSettles ==
  ASSUME NEW mt \in MtState, NEW l \in BOOLEAN, NEW C, NEW k,
         Settled(mt, l, C, k, TRUE), NEW e, e.kind = "KEY",
         NEW nt \in MtState, ~nt.draining, NEW m \in BOOLEAN, Tapped(mt, l, e, nt, m)
  PROVE  Settled(nt, m, C, k, TRUE)
  BY DEF Settled, Tapped, Pending

LEMMA ReportSettles ==
  ASSUME NEW mt \in MtState, NEW l \in BOOLEAN, NEW C, NEW k, NEW open,
         Settled(mt, l, C, k, open), NEW e, e.kind = "SYN",
         NEW nt \in MtState, ~nt.draining, NEW m \in BOOLEAN, Tapped(mt, l, e, nt, m)
  PROVE  Settled(nt, m, C, k, FALSE)
<1>0. mt.deferpressed \in Deferred /\ mt.pressed \in BOOLEAN
  BY DEF MtState
<1> QED
  BY <1>0 DEF Settled, Tapped, Pending, Deferred

\* Only a PV guest that gets the touches has its left button down.
TouchBase(c) ==
    LET q == Receiving(c.s, c.p) IN
    /\ Typed(c) /\ NoButtons(c.p)
    /\ \A r \in Rec : LeftHeld(c.t[r]) => r = q /\ Pv(c.s, q)
    /\ ~Pv(c.s, q) => Quiet(c.p.mt)

TouchOK(c, C, k, open) ==
    LET q == Receiving(c.s, c.p) IN
    /\ TouchBase(c)
    /\ Pv(c.s, q) => Settled(c.p.mt, LeftHeld(c.t[q]), C, k, open)

LEMMA QuietUndrained ==
  ASSUME NEW mt, Quiet(mt)
  PROVE  Undrained(mt)
  BY DEF Quiet, Undrained

LEMMA LeftHeldBool ==
  ASSUME NEW S
  PROVE  LeftHeld(S) \in BOOLEAN
  BY DEF LeftHeld

LEMMA TouchGoesOn ==
  ASSUME NEW c, TouchBase(c), Undrained(c.p.mt), ~Pv(c.s, c.s.mouse_parent),
         NEW slot, NEW e, TouchEvent(e), NEW T, T = input_inject(c, slot, e),
         NEW q, q = Receiving(c.s, c.p)
  PROVE  /\ TouchBase(T) /\ T.s = c.s /\ Receiving(T.s, T.p) = q
         /\ Pv(c.s, q) =>
              /\ c.p.mt \in MtState /\ T.p.mt \in MtState /\ ~T.p.mt.draining
              /\ Tapped(c.p.mt, LeftHeld(c.t[q]), e, T.p.mt, LeftHeld(T.t[q]))
<1>1. Typed(c) /\ NoButtons(c.p)
  BY DEF TouchBase
<1>2. TouchInjected(c, e, T)
  BY <1>1, TouchPasses
<1>3. /\ Typed(T) /\ T.s = c.s /\ NoButtons(T.p) /\ T.p.at = c.p.at
      /\ Lands(c, q, e, T)
  BY <1>2 DEF TouchInjected
<1>4. Receiving(T.s, T.p) = q
  BY <1>3 DEF Receiving
<1>5. c.p.mt \in MtState /\ T.p.mt \in MtState
  BY <1>1, <1>3, PtFields DEF Typed
<1>6. ASSUME NEW r \in Rec, LeftHeld(T.t[r]) PROVE r = q /\ Pv(c.s, q)
  BY <1>3, <1>6 DEF Lands, TouchBase
<1>7. ~Pv(c.s, q) => Quiet(T.p.mt)
  BY <1>3 DEF Lands, TouchBase
<1>8. TouchBase(T)
  BY <1>3, <1>4, <1>6, <1>7 DEF TouchBase
<1> QED
  BY <1>3, <1>4, <1>5, <1>8 DEF Lands

\* The path once the slot n has been announced.
Announced(c, n, k) ==
    IF n = k THEN c ELSE input_inject(c, TouchSlot, SlotEvent(n))

LEMMA ContactKeeps ==
  ASSUME NEW c, NEW C \in SUBSET Contacts, NEW k \in Contacts, NEW open,
         TouchOK(c, C, k, open), ~Pv(c.s, c.s.mouse_parent),
         NEW n \in Contacts, NEW e, NEW D, Fingers(C, n, e, D),
         NEW b, b = Announced(c, n, k),
         NEW T, T = input_inject(b, TouchSlot, e)
  PROVE  T.s = c.s /\ TouchOK(T, D, n, TRUE)
<1> DEFINE q == Receiving(c.s, c.p)
<1>1. TouchEvent(SlotEvent(n)) /\ TouchEvent(e)
  BY DEF TouchEvent, SlotEvent, Event, Fingers, Contacts
<1>2. TouchBase(c) /\ Undrained(c.p.mt) /\ c.p.mt \in MtState
  <2>1. TouchBase(c) /\ c.p.mt \in MtState
    BY PtFields DEF TouchOK, TouchBase, Typed
  <2>2. CASE Pv(c.s, q)
    <3>1. Settled(c.p.mt, LeftHeld(c.t[q]), C, k, open)
      BY <2>2 DEF TouchOK
    <3> QED
      BY <2>1, <3>1, SettledUndrained
  <2>3. CASE ~Pv(c.s, q)
    BY <2>1, <2>3, QuietUndrained DEF TouchBase
  <2> QED
    BY <2>1, <2>2, <2>3
<1>3. Pv(c.s, q) => Settled(c.p.mt, LeftHeld(c.t[q]), C, k, open)
  BY DEF TouchOK
<1> HIDE DEF q
<1>4. /\ TouchBase(b) /\ b.s = c.s /\ Receiving(b.s, b.p) = q
      /\ Pv(c.s, q) => AtContact(b.p.mt, LeftHeld(b.t[q]), C, n)
  <2>1. CASE n = k
    BY <1>2, <1>3, <2>1, SettledContact DEF q, Announced
  <2>2. CASE n # k
    <3>1. b = input_inject(c, TouchSlot, SlotEvent(n))
      BY <2>2 DEF Announced
    <3>2. /\ TouchBase(b) /\ b.s = c.s /\ Receiving(b.s, b.p) = q
          /\ Pv(c.s, q) =>
              /\ c.p.mt \in MtState /\ b.p.mt \in MtState /\ ~b.p.mt.draining
              /\ Tapped(c.p.mt, LeftHeld(c.t[q]), SlotEvent(n), b.p.mt, LeftHeld(b.t[q]))
      BY <1>1, <1>2, <3>1, TouchGoesOn DEF q
    <3> QED
      BY <1>3, <2>2, <3>2, LeftHeldBool, SlotSettles
  <2> QED
    BY <2>1, <2>2
<1>5. Undrained(b.p.mt)
  <2>1. CASE Pv(c.s, q)
    BY <1>4, <2>1, AtContactUndrained
  <2>2. CASE ~Pv(c.s, q)
    BY <1>4, <2>2, QuietUndrained DEF TouchBase
  <2> QED
    BY <2>1, <2>2
<1>6. /\ TouchBase(T) /\ T.s = c.s /\ Receiving(T.s, T.p) = q
      /\ Pv(c.s, q) =>
          /\ b.p.mt \in MtState /\ T.p.mt \in MtState /\ ~T.p.mt.draining
          /\ Tapped(b.p.mt, LeftHeld(b.t[q]), e, T.p.mt, LeftHeld(T.t[q]))
  BY <1>1, <1>4, <1>5, TouchGoesOn
<1>7. Pv(c.s, q) => Settled(T.p.mt, LeftHeld(T.t[q]), D, n, TRUE)
  <2>1. SUFFICES ASSUME Pv(c.s, q) PROVE Settled(T.p.mt, LeftHeld(T.t[q]), D, n, TRUE)
    OBVIOUS
  <2> DEFINE l == LeftHeld(b.t[q])
             m == LeftHeld(T.t[q])
  <2>2. /\ l \in BOOLEAN /\ m \in BOOLEAN
        /\ AtContact(b.p.mt, l, C, n) /\ Tapped(b.p.mt, l, e, T.p.mt, m)
        /\ b.p.mt \in MtState /\ T.p.mt \in MtState /\ ~T.p.mt.draining
    BY <1>4, <1>6, <2>1, LeftHeldBool
  <2> HIDE DEF l, m
  <2>3. Settled(T.p.mt, m, D, n, TRUE)
    BY <2>2, FingerSettles
  <2> QED
    BY <2>3 DEF m
<1> QED
  BY <1>6, <1>7 DEF TouchOK

\* The path once the event e has followed.
AfterContact(c, n, k, e) == input_inject(Announced(c, n, k), TouchSlot, e)

ContactOK(c, T, D, n) == T.s = c.s /\ TouchOK(T, D, n, TRUE)

LEMMA ContactReaches ==
  ASSUME NEW c, NEW C \in SUBSET Contacts, NEW k \in Contacts, NEW open,
         TouchOK(c, C, k, open), ~Pv(c.s, c.s.mouse_parent),
         NEW n \in Contacts, NEW e, NEW D, Fingers(C, n, e, D)
  PROVE  ContactOK(c, AfterContact(c, n, k, e), D, n)
  BY ContactKeeps DEF ContactOK, AfterContact

\* One event of a report's end; rest: it is the last one.
LEMMA TouchEndKeeps ==
  ASSUME NEW c, NEW C, NEW k,
         TouchOK(c, C, k, TRUE), ~Pv(c.s, c.s.mouse_parent),
         NEW e, e.kind = "SYN" \/ (e.kind = "KEY" /\ e.code = "BTN_TOUCH"),
         NEW T, T = input_inject(c, TouchSlot, e)
  PROVE  T.s = c.s /\ TouchOK(T, C, k, e.kind # "SYN")
<1> DEFINE q == Receiving(c.s, c.p)
<1>1. TouchEvent(e)
  BY DEF TouchEvent
<1>2. TouchBase(c) /\ Undrained(c.p.mt)
  <2>1. CASE Pv(c.s, q)
    BY <2>1, SettledUndrained DEF TouchOK
  <2>2. CASE ~Pv(c.s, q)
    BY <2>2, QuietUndrained DEF TouchBase, TouchOK
  <2> QED
    BY <2>1, <2>2 DEF TouchOK
<1>3. Pv(c.s, q) => Settled(c.p.mt, LeftHeld(c.t[q]), C, k, TRUE)
  BY DEF TouchOK
<1>4. /\ TouchBase(T) /\ T.s = c.s /\ Receiving(T.s, T.p) = q
      /\ Pv(c.s, q) =>
          /\ c.p.mt \in MtState /\ T.p.mt \in MtState /\ ~T.p.mt.draining
          /\ Tapped(c.p.mt, LeftHeld(c.t[q]), e, T.p.mt, LeftHeld(T.t[q]))
  BY <1>1, <1>2, TouchGoesOn
<1> HIDE DEF q
<1>5. Pv(c.s, q) => Settled(T.p.mt, LeftHeld(T.t[q]), C, k, e.kind # "SYN")
  <2>1. CASE e.kind = "SYN"
    <3>1. Pv(c.s, q) => Settled(T.p.mt, LeftHeld(T.t[q]), C, k, FALSE)
      BY <1>3, <1>4, <2>1, LeftHeldBool, ReportSettles
    <3> QED
      BY <2>1, <3>1
  <2>2. CASE e.kind = "KEY"
    <3>1. ASSUME Pv(c.s, q) PROVE Settled(T.p.mt, LeftHeld(T.t[q]), C, k, TRUE)
      <4> DEFINE l == LeftHeld(c.t[q])
                 m == LeftHeld(T.t[q])
      <4>1. /\ l \in BOOLEAN /\ m \in BOOLEAN
            /\ Settled(c.p.mt, l, C, k, TRUE) /\ Tapped(c.p.mt, l, e, T.p.mt, m)
            /\ c.p.mt \in MtState /\ T.p.mt \in MtState /\ ~T.p.mt.draining
        BY <1>3, <1>4, <3>1, LeftHeldBool
      <4> HIDE DEF l, m
      <4>2. Settled(T.p.mt, m, C, k, TRUE)
        BY <2>2, <4>1, EmulationSettles
      <4> QED
        BY <4>2 DEF m
    <3> QED
      BY <2>2, <3>1
  <2> QED
    BY <2>1, <2>2
<1> QED
  BY <1>4, <1>5 DEF TouchOK

-----------------------------------------------------------------------------
(* The inductive invariant, of a path state c and the hands h.             *)

PointerInv(c, h) ==
    /\ Sound(c.s) /\ h \in Hands
    /\ IF h.touch THEN h.held = {} /\ TouchOK(c, h.contacts, h.kslot, h.open)
       ELSE MouseOK(c, h.held) /\ h.contacts = {} /\ ~h.open

PInv == PointerInv(Path, hw)

\* The user holds no more buttons than the list has room for.
FewHeld == Cardinality(hw.held) <= MAX_NUM_PRESSED

\* Diverts, switches and guests come and go between the user's actions; a viewer
\* that has its events cloned also has its clicks held; and a viewer is an HVM guest.
Undisturbed == ~MayInterrupt /\ ClonesHold /\ Viewers \cap PvDomains = {}

\* A step of the path: the routing moves as DomainFocus lets it, and a held button
\* keeps its guest.
PathStep == PInv' /\ [Next]_sw /\ KeepsGuest(Path, Path')

LEMMA PathIs ==
  ASSUME NEW T, Typed(T), Follows(T)
  PROVE  Path' = T
  BY DEF Typed, Follows, Path

\* The buttons a user may hold.
AllHeld == {<<m, b>> : m \in DOMAIN Mice, b \in Buttons}

LEMMA HeldIs ==
    /\ \A m \in DOMAIN Mice, b \in Buttons : <<m, b>> \in AllHeld
    /\ \A x \in AllHeld : \E m \in DOMAIN Mice, b \in Buttons : x = <<m, b>>
  BY DEF AllHeld

LEMMA HandsAre ==
    Hands = [touch : BOOLEAN, held : SUBSET AllHeld, contacts : SUBSET Contacts,
             kslot : Contacts, open : BOOLEAN]
  BY DEF Hands, AllHeld

LEMMA HandsFields ==
  ASSUME NEW h \in Hands
  PROVE  /\ h.held \in SUBSET AllHeld /\ h.touch \in BOOLEAN
         /\ h.contacts \in SUBSET Contacts /\ h.kslot \in Contacts /\ h.open \in BOOLEAN
  BY HandsAre

LEMMA SetHeld ==
  ASSUME NEW h \in Hands, NEW H \in SUBSET AllHeld, NEW k, k = [h EXCEPT !.held = H]
  PROVE  /\ k \in Hands /\ k.held = H /\ k.touch = h.touch
         /\ k.contacts = h.contacts /\ k.open = h.open
  BY HandsAre

LEMMA SetContacts ==
  ASSUME NEW h \in Hands, NEW C \in SUBSET Contacts, NEW n \in Contacts,
         NEW o \in BOOLEAN,
         NEW k, k = [h EXCEPT !.contacts = C, !.kslot = n, !.open = o]
  PROVE  /\ k \in Hands /\ k.held = h.held /\ k.touch = h.touch
         /\ k.contacts = C /\ k.kslot = n /\ k.open = o
  BY HandsAre

LEMMA MouseInjected ==
  ASSUME PInv, ClonesHold, ~hw.touch, NEW m \in DOMAIN Mice, NEW e, MouseEvent(e),
         Follows(input_inject(Path, m, e)), Moved(hw.held, m, e, hw'.held),
         hw' \in Hands, ~hw'.touch, hw'.contacts = {}, ~hw'.open
  PROVE  PathStep
<1> DEFINE T == input_inject(Path, m, e)
<1>1. MouseOK(Path, hw.held) /\ Sound(sw) /\ Path.s = sw
  BY DEF PInv, PointerInv, Path
<1>2. MouseOK(T, hw'.held) /\ Clicks(sw, T.s) /\ KeepsGuest(Path, T)
  BY <1>1, MouseKeeps
<1> HIDE DEF T
<1>3. Path' = T /\ T.s = sw'
  BY <1>2, PathIs DEF MouseOK, Follows, T
<1>4. [Next]_sw
  BY <1>2, <1>3, ClicksStep
<1>5. Sound(sw')
  BY <1>1, <1>4, NextSound DEF IInv
<1>6. PointerInv(Path', hw')
  BY <1>2, <1>3, <1>5 DEF PointerInv
<1>7. PInv'
  BY <1>6 DEF PInv
<1> QED
  BY <1>2, <1>3, <1>4, <1>7 DEF PathStep

LEMMA MouseButtonStep ==
  ASSUME PInv, ClonesHold, FewHeld', ~hw.touch,
         NEW m \in DOMAIN Mice, NEW b \in Mice[m], MouseButton(m, b)
  PROVE  PathStep
<1> DEFINE down == <<m, b>> \notin hw.held
           e == Key(b, IF down THEN 1 ELSE 0)
           H == IF down THEN hw.held \cup {<<m, b>>} ELSE hw.held \ {<<m, b>>}
<1>1. hw \in Hands /\ hw.contacts = {} /\ ~hw.open
  BY DEF PInv, PointerInv
<1>2. b \in Buttons
  BY DEF Buttons
<1>3. H \in SUBSET AllHeld
  BY <1>1, <1>2, HandsFields, HeldIs
<1>4. Follows(input_inject(Path, m, e)) /\ hw' = [hw EXCEPT !.held = H]
  BY DEF MouseButton
<1>5. /\ hw' \in Hands /\ hw'.held = H /\ ~hw'.touch /\ hw'.contacts = {} /\ ~hw'.open
  <2> HIDE DEF H
  <2> QED
    BY <1>1, <1>3, <1>4, SetHeld
<1>6. MouseEvent(e) /\ e.kind = "KEY" /\ e.code = b
      /\ e.value = IF down THEN 1 ELSE 0
  BY <1>2 DEF MouseEvent, Key, Event
<1>7. Cardinality(hw'.held) <= MAX_NUM_PRESSED
  BY DEF FewHeld
<1>8. Moved(hw.held, m, e, hw'.held)
  BY <1>5, <1>6, <1>7 DEF Moved
<1> HIDE DEF e
<1> QED
  BY <1>4, <1>5, <1>6, <1>8, MouseInjected

LEMMA MouseStep ==
  ASSUME PInv, ClonesHold, FewHeld', ~hw.touch, Events
  PROVE  PathStep
<1>1. /\ hw \in Hands /\ hw.contacts = {} /\ ~hw.open
  BY DEF PInv, PointerInv
<1>2. PICK m \in DOMAIN Mice : \/ MouseMoves(m) \/ MouseReport(m)
                               \/ \E b \in Mice[m] : MouseButton(m, b)
  BY DEF Events
<1>3. CASE MouseMoves(m)
  <2>1. PICK at \in {"in", "out"} : Follows(input_inject(Path, m, Event("REL", at, 0)))
    BY <1>3 DEF MouseMoves
  <2> DEFINE e == Event("REL", at, 0)
  <2>2. hw' = hw /\ MouseEvent(e) /\ Moved(hw.held, m, e, hw.held)
    BY <1>3 DEF MouseMoves, MouseEvent, Moved, Event
  <2> HIDE DEF e
  <2> QED
    BY <1>1, <2>1, <2>2, MouseInjected DEF e
<1>4. CASE MouseReport(m)
  <2>1. Follows(input_inject(Path, m, SYN)) /\ hw' = hw
    BY <1>4 DEF MouseReport
  <2>2. MouseEvent(SYN) /\ Moved(hw.held, m, SYN, hw.held)
    BY DEF MouseEvent, Moved, SYN, Event
  <2> QED
    BY <1>1, <2>1, <2>2, MouseInjected
<1>5. CASE \E b \in Mice[m] : MouseButton(m, b)
  BY <1>5, MouseButtonStep
<1> QED
  BY <1>2, <1>3, <1>4, <1>5

LEMMA ViewerIsHVM ==
  ASSUME Viewers \cap PvDomains = {}, NEW s, Sound(s), Calm(s)
  PROVE  ~Pv(s, s.mouse_parent)
<1>1. s.mouse_parent # NULL =>
         s.mouse_parent \in Rec /\ s.domains[s.mouse_parent].has_divert
  BY DEF Sound, Good, ParentsIn, ParentOf, Live
<1> QED
  BY <1>1 DEF Calm, CalmRecord, Pv, is_pv_domain

LEMMA TouchFollows ==
  ASSUME PInv, hw.touch, NEW T, T.s = sw, Follows(T),
         TouchOK(T, hw'.contacts, hw'.kslot, hw'.open),
         hw' \in Hands, hw'.held = {}, hw'.touch
  PROVE  PathStep
<1>1. Path' = T /\ sw' = sw
  BY PathIs DEF TouchOK, TouchBase, Follows
<1>2. Sound(sw) /\ Path.p.buttons = {}
  BY DEF PInv, PointerInv, Path, TouchOK, TouchBase, NoButtons
<1>3. PointerInv(Path', hw')
  BY <1>1, <1>2 DEF PointerInv
<1>4. PInv'
  BY <1>3 DEF PInv
<1> QED
  BY <1>1, <1>2, <1>4 DEF PathStep, KeepsGuest

LEMMA TouchState ==
  ASSUME PInv, hw.touch, Viewers \cap PvDomains = {}
  PROVE  /\ hw \in Hands /\ hw.held = {} /\ Path.s = sw
         /\ hw.contacts \in SUBSET Contacts /\ hw.kslot \in Contacts
         /\ TouchOK(Path, hw.contacts, hw.kslot, hw.open)
         /\ ~Pv(Path.s, Path.s.mouse_parent)
<1>1. /\ hw \in Hands /\ hw.held = {} /\ Path.s = sw /\ Sound(sw)
      /\ TouchOK(Path, hw.contacts, hw.kslot, hw.open)
  BY DEF PInv, PointerInv, Path
<1>2. Calm(sw)
  BY <1>1 DEF TouchOK, TouchBase, Typed
<1> QED
  BY <1>1, <1>2, HandsFields, ViewerIsHVM

LEMMA FingerStep ==
  ASSUME PInv, hw.touch, Viewers \cap PvDomains = {},
         NEW n \in Contacts, NEW e, NEW D, Fingers(hw.contacts, n, e, D),
         ContactEvent(n, e), D \in SUBSET Contacts,
         hw' = [hw EXCEPT !.contacts = D, !.kslot = n, !.open = TRUE]
  PROVE  PathStep
<1> DEFINE T == AfterContact(Path, n, hw.kslot, e)
<1>1. Follows(T)
  BY DEF ContactEvent, SlotEvent, Announced, AfterContact
<1>2. T.s = Path.s /\ TouchOK(T, D, n, TRUE)
  <2>1. /\ hw.contacts \in SUBSET Contacts /\ hw.kslot \in Contacts
        /\ TouchOK(Path, hw.contacts, hw.kslot, hw.open)
        /\ ~Pv(Path.s, Path.s.mouse_parent)
    BY TouchState
  <2>2. ContactOK(Path, T, D, n)
    BY <2>1, ContactReaches
  <2> QED
    BY <2>2 DEF ContactOK
<1>3. /\ hw' \in Hands /\ hw'.held = {} /\ hw'.touch
      /\ hw'.contacts = D /\ hw'.kslot = n /\ hw'.open = TRUE
  BY TouchState, HandsAre
<1> HIDE DEF T
<1> QED
  BY <1>1, <1>2, <1>3, TouchState, TouchFollows

LEMMA TouchReportStep ==
  ASSUME PInv, hw.touch, Viewers \cap PvDomains = {}, TouchReport
  PROVE  PathStep
<1> DEFINE C == hw.contacts
           k == hw.kslot
           e == Key("BTN_TOUCH", IF hw.contacts = {} THEN 0 ELSE 1)
           c == input_inject(Path, TouchSlot, e)
           T == input_inject(c, TouchSlot, SYN)
           U == input_inject(Path, TouchSlot, SYN)
<1>0. /\ e.kind = "KEY" /\ e.code = "BTN_TOUCH" /\ SYN.kind = "SYN"
  BY DEF Key, Event, SYN
<1> HIDE DEF e
<1>1. hw.open = TRUE /\ hw' = [hw EXCEPT !.open = FALSE] /\ (Follows(T) \/ Follows(U))
  BY HandsFields, TouchState DEF TouchReport, e
<1>2. TouchOK(Path, C, k, TRUE)
  BY <1>1, TouchState
<1>3. c.s = sw /\ TouchOK(c, C, k, TRUE)
  <2>1. c.s = Path.s /\ TouchOK(c, C, k, e.kind # "SYN")
    BY <1>0, <1>2, TouchState, TouchEndKeeps
  <2>2. (e.kind # "SYN") = TRUE
    BY <1>0
  <2> QED
    BY <2>1, <2>2, TouchState
<1>4. (SYN.kind # "SYN") = FALSE
  BY <1>0
<1> HIDE DEF c
<1>5. T.s = sw /\ TouchOK(T, C, k, FALSE)
  <2>1. ~Pv(c.s, c.s.mouse_parent)
    BY <1>3, TouchState
  <2>2. T.s = c.s /\ TouchOK(T, C, k, SYN.kind # "SYN")
    BY <1>0, <1>3, <2>1, TouchEndKeeps
  <2> QED
    BY <1>3, <1>4, <2>2
<1>6. U.s = sw /\ TouchOK(U, C, k, FALSE)
  <2>1. U.s = Path.s /\ TouchOK(U, C, k, SYN.kind # "SYN")
    BY <1>0, <1>2, TouchState, TouchEndKeeps
  <2> QED
    BY <1>4, <2>1, TouchState
<1>7. /\ hw' \in Hands /\ hw'.held = {} /\ hw'.touch
      /\ hw'.contacts = C /\ hw'.kslot = k /\ hw'.open = FALSE
  BY <1>1, TouchState, HandsAre
<1> HIDE DEF T, U
<1> QED
  BY <1>1, <1>5, <1>6, <1>7, TouchFollows

LEMMA TouchStep ==
  ASSUME PInv, hw.touch, Viewers \cap PvDomains = {}, Events
  PROVE  PathStep
<1>0. hw \in Hands /\ hw.contacts \in SUBSET Contacts
  BY TouchState
<1>1. CASE TouchReport
  BY <1>1, TouchReportStep
<1>2. ASSUME NEW n \in Contacts, FingerDown(n) PROVE PathStep
  <2> DEFINE e == Event("TRACK", "none", 1)
             D == hw.contacts \cup {n}
  <2>1. ContactEvent(n, e) /\ n \notin hw.contacts
        /\ hw' = [hw EXCEPT !.contacts = D, !.kslot = n, !.open = TRUE]
    BY <1>2 DEF FingerDown
  <2>2. Fingers(hw.contacts, n, e, D) /\ D \in SUBSET Contacts
    BY <1>0, <2>1 DEF Fingers, Event
  <2> HIDE DEF D, e
  <2> QED
    BY <2>1, <2>2, FingerStep
<1>3. ASSUME NEW n \in Contacts, FingerUp(n) PROVE PathStep
  <2> DEFINE e == Event("TRACK", "none", -1)
             D == hw.contacts \ {n}
  <2>1. ContactEvent(n, e) /\ n \in hw.contacts
        /\ hw' = [hw EXCEPT !.contacts = D, !.kslot = n, !.open = TRUE]
    BY <1>3 DEF FingerUp
  <2>2. Fingers(hw.contacts, n, e, D) /\ D \in SUBSET Contacts
    BY <1>0, <2>1 DEF Fingers, Event
  <2> HIDE DEF D, e
  <2> QED
    BY <2>1, <2>2, FingerStep
<1>4. ASSUME NEW n \in Contacts, FingerMoves(n) PROVE PathStep
  <2> DEFINE D == hw.contacts
  <2>1. PICK kind \in {"MOVE", "SHAPE"} : ContactEvent(n, Event(kind, "none", 0))
    BY <1>4 DEF FingerMoves
  <2>2. n \in D /\ hw' = [hw EXCEPT !.contacts = D, !.kslot = n, !.open = TRUE]
    BY <1>0, <1>4, HandsAre DEF FingerMoves
  <2>3. Fingers(hw.contacts, n, Event(kind, "none", 0), D)
    BY <2>2 DEF Fingers, Event
  <2> QED
    BY <1>0, <2>1, <2>2, <2>3, FingerStep
<1> QED
  BY <1>1, <1>2, <1>3, <1>4 DEF Events

-----------------------------------------------------------------------------
(* Requests, while nothing is held.                                        *)

Resting(c, touch) ==
    /\ Typed(c) /\ Quiet(c.p.mt)
    /\ c.p.buttons = {} /\ c.p.mouse_pressed = <<>>
    /\ IF touch
       THEN c.p.button_holding = 0 /\ \A r \in Rec : "BTN_LEFT" \notin c.t[r]
       ELSE \A r \in Rec : c.t[r] = {}

LEMMA SettledRests ==
  ASSUME NEW mt \in MtState, NEW l, NEW k, Settled(mt, l, {}, k, FALSE)
  PROVE  Quiet(mt) /\ ~l
  BY DEF Settled, Quiet

LEMMA RestSettles ==
  ASSUME NEW mt \in MtState, NEW k, NEW open, Quiet(mt)
  PROVE  Settled(mt, FALSE, {}, k, open)
  BY DEF Settled, Quiet

LEMMA MouseRests ==
  ASSUME NEW c, MouseOK(c, {})
  PROVE  Resting(c, FALSE)
<1>1. /\ Typed(c) /\ Quiet(c.p.mt) /\ Listed(c.s, c.p, {})
      /\ c.p.buttons = {} /\ Explained(c)
  BY DEF MouseOK, Down
<1>2. c.p.mouse_pressed \in Seq(Pressed) /\ c.t \in [Rec -> SUBSET Codes]
  BY <1>1, PtFields DEF Typed
<1>3. c.p.mouse_pressed = <<>>
  <2>1. CASE Diverting(c.s)
    <3>1. Len(c.p.mouse_pressed) = 0
      BY <1>1, <2>1, FS_EmptySet DEF Listed, Exact
    <3> QED
      BY <1>2, <3>1
  <2>2. CASE ~Diverting(c.s)
    BY <1>1, <2>2 DEF Listed
  <2> QED
    BY <2>1, <2>2
<1>4. ASSUME NEW r \in Rec PROVE c.t[r] = {}
  <2>1. \A b \in c.t[r] : ExplainedTo(c.s, c.p, r, b)
    BY <1>1 DEF Explained
  <2>2. \A b : ~Pointed(c.p.mouse_pressed, b, r)
    BY <1>3 DEF Pointed
  <2> QED
    BY <1>1, <2>1, <2>2 DEF ExplainedTo
<1> QED
  BY <1>1, <1>3, <1>4 DEF Resting

LEMMA RestsMouse ==
  ASSUME NEW c, Resting(c, FALSE)
  PROVE  MouseOK(c, {})
<1>1. /\ Typed(c) /\ Quiet(c.p.mt) /\ c.p.buttons = {} /\ c.p.mouse_pressed = <<>>
      /\ \A r \in Rec : c.t[r] = {}
  BY DEF Resting
<1>2. Exact(<<>>, {}, {c.s.mouse_parent, c.s.mouse_dest})
  BY FS_EmptySet DEF Exact
<1>3. Listed(c.s, c.p, {})
  BY <1>1, <1>2 DEF Listed
<1>4. Explained(c) /\ HoldsFocus(c.s, c.p)
  BY <1>1 DEF Explained, HoldsFocus
<1> QED
  BY <1>1, <1>3, <1>4, FS_EmptySet DEF MouseOK, Down

LEMMA TouchRests ==
  ASSUME NEW c, NEW k, TouchOK(c, {}, k, FALSE)
  PROVE  Resting(c, TRUE)
<1> DEFINE q == Receiving(c.s, c.p)
<1>1. /\ Typed(c) /\ NoButtons(c.p) /\ c.p.mt \in MtState
      /\ \A r \in Rec : LeftHeld(c.t[r]) => r = q /\ Pv(c.s, q)
  BY PtFields DEF TouchOK, TouchBase, Typed
<1>2. CASE Pv(c.s, q)
  <2>1. Settled(c.p.mt, LeftHeld(c.t[q]), {}, k, FALSE)
    BY <1>2 DEF TouchOK
  <2>2. Quiet(c.p.mt) /\ ~LeftHeld(c.t[q])
    BY <1>1, <2>1, SettledRests
  <2> QED
    BY <1>1, <2>2 DEF Resting, NoButtons, LeftHeld
<1>3. CASE ~Pv(c.s, q)
  BY <1>1, <1>3 DEF TouchOK, TouchBase, Resting, NoButtons, LeftHeld
<1> QED
  BY <1>2, <1>3

LEMMA RestsTouch ==
  ASSUME NEW c, NEW k, NEW open, Resting(c, TRUE)
  PROVE  TouchOK(c, {}, k, open)
<1> DEFINE q == Receiving(c.s, c.p)
<1>1. /\ Typed(c) /\ NoButtons(c.p) /\ c.p.mt \in MtState /\ Quiet(c.p.mt)
      /\ \A r \in Rec : ~LeftHeld(c.t[r])
  BY PtFields DEF Resting, Typed, NoButtons, LeftHeld
<1>2. q \in Ptr
  BY <1>1, StateFields, Pointers DEF Typed, Calm, Receiving, Ptr
<1>3. ASSUME Pv(c.s, q) PROVE Settled(c.p.mt, LeftHeld(c.t[q]), {}, k, open)
  <2>1. LeftHeld(c.t[q]) = FALSE
    <3>1. q \in Rec
      BY <1>2, <1>3 DEF Pv, Ptr
    <3> QED
      BY <1>1, <3>1, LeftHeldBool
  <2> QED
    BY <1>1, <2>1, RestSettles
<1> QED
  BY <1>1, <1>3 DEF TouchOK, TouchBase

LEMMA RestsOK ==
  ASSUME NEW c, NEW h \in Hands, Sound(c.s), h.held = {}, h.contacts = {}, ~h.open,
         Resting(c, h.touch)
  PROVE  PointerInv(c, h)
<1>1. CASE h.touch
  <2>1. Resting(c, TRUE)
    BY <1>1 DEF Resting
  <2> QED
    BY <1>1, <2>1, RestsTouch DEF PointerInv
<1>2. CASE ~h.touch
  <2>1. Resting(c, FALSE)
    BY <1>2 DEF Resting
  <2> QED
    BY <1>2, <2>1, RestsMouse DEF PointerInv
<1> QED
  BY <1>1, <1>2

LEMMA OKRests ==
  ASSUME NEW c, NEW h, PointerInv(c, h), h.held = {}, h.contacts = {}, ~h.open
  PROVE  Resting(c, h.touch)
<1>0. h.open = FALSE
  BY HandsFields DEF PointerInv
<1>1. CASE h.touch
  <2>1. Resting(c, TRUE)
    BY <1>0, <1>1, TouchRests DEF PointerInv
  <2> QED
    BY <1>1, <2>1 DEF Resting
<1>2. CASE ~h.touch
  <2>1. Resting(c, FALSE)
    BY <1>2, MouseRests DEF PointerInv
  <2> QED
    BY <1>2, <2>1 DEF Resting
<1> QED
  BY <1>1, <1>2

\* What a request may change of the path.
LEMMA Requested ==
  ASSUME PInv, AtRest, hw' = hw, Calm(sw'), [Next]_sw,
         pt' \in PointerState, pt'.buttons = pt.buttons,
         pt'.button_holding = pt.button_holding, pt'.mouse_pressed = pt.mouse_pressed,
         pt'.mt = pt.mt,
         told' \in [Rec -> SUBSET Codes], \A r \in Rec : told'[r] \subseteq told[r]
  PROVE  PathStep
<1>1. /\ hw \in Hands /\ hw.held = {} /\ hw.contacts = {} /\ ~hw.open /\ Sound(sw)
      /\ Path.s = sw /\ Path.p = pt /\ Path.t = told
  BY DEF AtRest, PInv, PointerInv, Path
<1>2. Resting(Path, hw.touch)
  BY <1>1, OKRests DEF PInv
<1>3. Sound(sw')
  BY <1>1, NextSound DEF IInv
<1> DEFINE T == [s |-> sw', p |-> pt', t |-> told']
<1>4. Typed(T) /\ T.s = sw' /\ T.p = pt' /\ T.t = told'
  BY TypedPath
<1>5. Path' = T
  BY DEF Path
<1> HIDE DEF T
<1>6. Resting(T, hw.touch)
  BY <1>1, <1>2, <1>4 DEF Resting
<1>7. PointerInv(T, hw)
  BY <1>1, <1>3, <1>4, <1>6, RestsOK
<1>8. PInv'
  BY <1>5, <1>7 DEF PInv
<1>9. KeepsGuest(Path, Path')
  BY <1>1, <1>2 DEF Resting, KeepsGuest
<1> QED
  BY <1>8, <1>9 DEF PathStep

\* Of nothing, nothing is repeated.
LEMMA RepeatNothing ==
  ASSUME NEW c, NEW d
  PROVE  Repeat(c, d, {}) = c
<1> DEFINE Lowest(J) == CHOOSE k \in J : \A j \in J : j <= k
           Body(g) == [J \in SUBSET {} |->
                          IF J = {} THEN c
                          ELSE LET i == Lowest(J) IN RepeatFor(g[J \ {i}], d, i)]
           f == CHOOSE g : g = Body(g)
<1>1. Repeat(c, d, {}) = f[{}]
  BY DEF Repeat
<1>2. \E g : g = Body(g)
  <2> DEFINE g == [J \in SUBSET {} |-> c]
  <2>1. g = Body(g)
    OBVIOUS
  <2> QED
    BY <2>1
<1>3. f = Body(f)
  BY <1>2
<1>4. Body(f)[{}] = c
  OBVIOUS
<1> QED
  BY <1>1, <1>3, <1>4

\* Nothing is in the list while nothing is held.
LEMMA AtRestPath ==
  ASSUME PInv, AtRest
  PROVE  /\ Calm(sw) /\ sw \in State /\ pt \in PointerState
         /\ told \in [Rec -> SUBSET Codes] /\ pt.mouse_pressed = <<>>
<1>1. Resting(Path, hw.touch)
  BY OKRests DEF PInv, PointerInv, AtRest
<1> QED
  BY <1>1 DEF Resting, Typed, Calm, Path

LEMMA NothingRepeated ==
  ASSUME PInv, AtRest, NEW d
  PROVE  /\ dup_mouse_clicks([Path EXCEPT !.s = sw'], d).p = pt
         /\ dup_mouse_clicks([Path EXCEPT !.s = sw'], d).t = told
<1> DEFINE c == [Path EXCEPT !.s = sw']
<1>1. c.p = pt /\ c.t = told
  BY DEF Path
<1>2. Repeatable(c, d) = {}
  <2> HIDE DEF c
  <2> QED
    BY <1>1, AtRestPath DEF Repeatable
<1> HIDE DEF c
<1>3. dup_mouse_clicks(c, d) = c
  BY <1>2, RepeatNothing DEF dup_mouse_clicks
<1> QED
  BY <1>1, <1>3 DEF c

LEMMA Rerouting ==
  ASSUME PInv, AtRest, hw' = hw, Calm(sw'), [Next]_sw, pt' = pt, told' = told
  PROVE  PathStep
  BY AtRestPath, Requested

LEMMA DivertStep ==
  ASSUME PInv, AtRest, NEW d \in Rec
  PROVE  /\ StopDivert(d) => PathStep
         /\ \A td \in Rec : Divert(d, td) => PathStep
<1>1. ASSUME StopDivert(d) PROVE PathStep
  <2>1. input_daemon_stop_mouse_divert(d) /\ hw' = hw
    BY <1>1 DEF StopDivert
  <2>2. pt' = pt /\ told' = told
    BY <1>1, NothingRepeated DEF StopDivert
  <2>3. Calm(sw') /\ [Next]_sw
    BY <2>1, AtRestPath, ViewerCalm DEF Next, Diverts
  <2> QED
    BY <2>1, <2>2, <2>3, Rerouting
<1>2. ASSUME NEW td \in Rec, Divert(d, td) PROVE PathStep
  <2>1. input_daemon_divert_mouse_focus(d, td) /\ hw' = hw
    BY <1>2 DEF Divert
  <2>2. pt' = pt /\ told' = told
    BY <1>2, NothingRepeated DEF Divert
  <2>3. Calm(sw') /\ [Next]_sw
    BY <2>1, AtRestPath, ViewerCalm DEF Next, Diverts
  <2> QED
    BY <2>1, <2>2, <2>3, Rerouting
<1> QED
  BY <1>1, <1>2

LEMMA FocusModeStep ==
  ASSUME PInv, AtRest, NEW d \in Rec, FocusMode(d)
  PROVE  PathStep
<1>1. /\ input_daemon_focus_mode(d) /\ hw' = hw /\ told' = told
  BY DEF FocusMode
<1>2. PICK mode \in Modes : pt' = [pt EXCEPT !.mode[d] = mode]
  BY DEF FocusMode
<1>3. Calm(sw') /\ [Next]_sw
  BY <1>1, AtRestPath, ViewerCalm DEF Next, Diverts
<1>4. /\ pt' \in PointerState /\ pt'.buttons = pt.buttons
      /\ pt'.button_holding = pt.button_holding /\ pt'.mouse_pressed = pt.mouse_pressed
      /\ pt'.mt = pt.mt
  BY <1>2, AtRestPath DEF PointerState
<1> QED
  BY <1>1, <1>3, <1>4, AtRestPath, Requested

LEMMA GuestGoneStep ==
  ASSUME PInv, AtRest, NEW d \in Rec, GuestGone(d)
  PROVE  PathStep
<1>1. /\ rpc_disconnect(d) /\ hw' = hw /\ told' = [told EXCEPT ![d] = {}]
      /\ pt' = [pt EXCEPT !.mode[d] = {}, !.mouse_pressed = DropPressed(pt.mouse_pressed, d)]
  BY DEF GuestGone
<1>2. Calm(sw') /\ [Next]_sw
  BY <1>1, AtRestPath, GoneCalm DEF Next, Connections, rpc_disconnect
<1>3. DropPressed(pt.mouse_pressed, d) = pt.mouse_pressed
  <2>1. First({}) = 0
    BY DEF First
  <2> QED
    BY <2>1, AtRestPath DEF DropPressed
<1>4. /\ pt' \in PointerState /\ pt'.buttons = pt.buttons
      /\ pt'.button_holding = pt.button_holding /\ pt'.mouse_pressed = pt.mouse_pressed
      /\ pt'.mt = pt.mt
  BY <1>1, <1>3, AtRestPath DEF PointerState
<1>5. told' \in [Rec -> SUBSET Codes] /\ \A r \in Rec : told'[r] \subseteq told[r]
  BY <1>1, AtRestPath
<1> QED
  BY <1>1, <1>2, <1>4, <1>5, Requested

\* A mouse at the edge: its step is harmless, and what rests may be switched.
LEMMA EdgeStep ==
  ASSUME PInv, ClonesHold, AtRest, NEW m \in DOMAIN Mice, NEW slot \in {-2} \cup 0..2,
         MouseEdge(m, slot)
  PROVE  PathStep
<1>1. PICK at \in {"in", "out"}, side \in {"in", "out"} :
         LET c == input_inject(Path, m, Event("REL", at, 0)) IN
         pt' = [c.p EXCEPT !.at = side] /\ told' = c.t
  BY DEF MouseEdge
<1> DEFINE e == Event("REL", at, 0)
           c == input_inject(Path, m, e)
<1>2. /\ ~hw.touch /\ hw' = hw /\ switcher_switch_on_mouse(slot)
      /\ pt' = [c.p EXCEPT !.at = side] /\ told' = c.t
      /\ MouseEvent(e) /\ Moved(hw.held, m, e, hw.held)
  BY <1>1 DEF MouseEdge, MouseEvent, Moved, Event
<1> HIDE DEF e
<1>3. /\ MouseOK(Path, hw.held) /\ hw \in Hands /\ hw.held = {} /\ hw.contacts = {}
      /\ ~hw.open /\ Sound(sw) /\ Path.p = pt
  BY <1>2 DEF AtRest, PInv, PointerInv, Path
<1>4. MouseOK(c, hw.held)
  BY <1>2, <1>3, MouseKeeps
<1> HIDE DEF c
<1>5. Resting(Path, FALSE) /\ Resting(c, FALSE)
  BY <1>3, <1>4, MouseRests
<1>6. Calm(sw') /\ [Next]_sw
  <2>1. slot \in {-2} \cup 0..9
    OBVIOUS
  <2>2. Switches
    BY <1>2, <2>1 DEF Switches
  <2> QED
    BY <2>2, AtRestPath, SwitchesCalm DEF Next
<1>7. Sound(sw')
  BY <1>3, <1>6, NextSound DEF IInv
<1> DEFINE T == [s |-> sw', p |-> pt', t |-> told']
<1>8. /\ pt' \in PointerState /\ pt'.mt = c.p.mt /\ pt'.buttons = c.p.buttons
      /\ pt'.mouse_pressed = c.p.mouse_pressed
      /\ told' \in [Rec -> SUBSET Codes]
  BY <1>2, <1>5 DEF Resting, Typed, PointerState
<1>9. Typed(T) /\ T.s = sw' /\ T.p = pt' /\ T.t = told' /\ Path' = T
  BY <1>6, <1>8, TypedPath DEF Path
<1> HIDE DEF T
<1>10. Resting(T, FALSE)
  BY <1>2, <1>5, <1>8, <1>9 DEF Resting
<1>11. PInv'
  <2>1. hw.touch = FALSE
    BY <1>2, <1>3, HandsFields
  <2>2. PointerInv(T, hw)
    BY <1>3, <1>7, <1>9, <1>10, <2>1, RestsOK
  <2> QED
    BY <1>2, <1>9, <2>2 DEF PInv
<1>12. KeepsGuest(Path, Path')
  BY <1>5 DEF Resting, KeepsGuest
<1> QED
  BY <1>6, <1>11, <1>12 DEF PathStep

LEMMA RequestStep ==
  ASSUME PInv, ClonesHold, ~MayInterrupt, Requests
  PROVE  PathStep
<1>1. AtRest
  BY DEF Requests
<1>2. ASSUME NEW slot \in 0..2, SwitchSlot(slot) PROVE PathStep
  <2>1. go_to_slot(slot) /\ pt' = pt /\ told' = told /\ hw' = hw /\ slot \in 0..9
    BY <1>2 DEF SwitchSlot
  <2>2. domain_with_slot(sw, slot) \in Ptr
    BY <1>1, AtRestPath, Lookups DEF Ptr
  <2>3. Calm(sw') /\ [Next]_sw
    BY <1>1, <2>1, <2>2, AtRestPath, SwitchToCalm DEF go_to_slot, Next, Switches
  <2> QED
    BY <1>1, <2>1, <2>3, Rerouting
<1>3. ASSUME NEW id \in Mortal, GuestComes(id) PROVE PathStep
  <2>1. rpc_connect(id) /\ pt' = pt /\ told' = told /\ hw' = hw /\ id \in Domids
    BY <1>3, PointerAssumption DEF GuestComes
  <2>2. Connections
    BY <2>1 DEF Connections
  <2>3. Calm(sw') /\ [Next]_sw
    BY <1>1, <2>2, AtRestPath, ConnectionsCalm DEF Next
  <2> QED
    BY <1>1, <2>1, <2>3, Rerouting
<1> QED
  BY <1>1, <1>2, <1>3, DivertStep, FocusModeStep, GuestGoneStep, EdgeStep DEF Requests

LEMMA PointerInitInv == PointerInit => PInv
<1> SUFFICES ASSUME Init, Rest PROVE PInv
  BY DEF PointerInit
<1>1. Calm(sw) /\ Sound(sw)
  BY InitCalm, InitSound
<1>2. PICK at \in {"in", "out"} :
         pt = [mode |-> [r \in Rec |-> {}], at |-> at, buttons |-> {},
               button_holding |-> 0, last_d |-> NULL, mouse_pressed |-> <<>>,
               mt |-> MtInit]
  BY DEF Rest
<1>3. MtInit \in MtState /\ Quiet(MtInit)
  BY DEF MtInit, MtState, MaxSlot, Deferred, Quiet
<1>4. pt \in PointerState /\ pt.mt = MtInit
  BY <1>2, <1>3 DEF PointerState, Ptr
<1>5. told = [r \in Rec |-> {}] /\ told \in [Rec -> SUBSET Codes]
  BY DEF Rest
<1>6. /\ hw \in Hands /\ hw.held = {} /\ hw.contacts = {} /\ ~hw.open
  <2>1. /\ hw = [touch |-> hw.touch, held |-> hw.held, contacts |-> hw.contacts,
                 kslot |-> hw.kslot, open |-> hw.open]
        /\ hw.touch \in BOOLEAN /\ hw.held = {} /\ hw.contacts = {}
        /\ hw.kslot = 0 /\ hw.open = FALSE
    BY DEF Rest
  <2>2. {} \in SUBSET AllHeld /\ {} \in SUBSET Contacts /\ 0 \in Contacts
    BY DEF Contacts, MaxSlot
  <2> QED
    BY <2>1, <2>2, HandsAre
<1>7. Typed(Path) /\ Path.s = sw /\ Path.p = pt /\ Path.t = told
  BY <1>1, <1>4, <1>5, TypedPath DEF Path
<1>8. Resting(Path, hw.touch)
  BY <1>2, <1>3, <1>4, <1>5, <1>7 DEF Resting
<1> QED
  BY <1>1, <1>6, <1>7, <1>8, RestsOK DEF PInv

LEMMA PointerStep ==
  ASSUME Undisturbed, PInv, FewHeld', PointerNext
  PROVE  PathStep
  BY MouseStep, TouchStep, RequestStep DEF Undisturbed, PointerNext

LEMMA PointerStays ==
  ASSUME PInv, UNCHANGED vars
  PROVE  PInv' /\ [Next]_sw
  BY DEF PInv, Path, vars

-----------------------------------------------------------------------------
(* The theorems.                                                           *)

\* What a user who works between the requests, and holds no more buttons than the
\* list of pressed buttons has room for, finds at every moment.
THEOREM PointerInvariant == Undisturbed => (PointerSpec /\ []FewHeld => []PInv)
<1> SUFFICES ASSUME Undisturbed PROVE PointerSpec /\ []FewHeld => []PInv
  OBVIOUS
<1>1. PInv /\ FewHeld' /\ [PointerNext]_vars => PInv'
  BY PointerStep, PointerStays DEF PathStep
<1> QED
  BY <1>1, PointerInitInv, PTL DEF PointerSpec

\* The pointer's events and requests move the routing only as DomainFocus does
\* (input_inject as its click, each request as itself): what is proved there holds
\* of the path as well.
THEOREM PointerRoutes == Undisturbed => (PointerSpec /\ []FewHeld => Spec)
<1> SUFFICES ASSUME Undisturbed PROVE PointerSpec /\ []FewHeld => Spec
  OBVIOUS
<1>1. PInv /\ FewHeld' /\ [PointerNext]_vars => [Next]_sw
  BY PointerStep, PointerStays DEF PathStep
<1>2. PointerInit => Init
  BY DEF PointerInit
<1> QED
  BY <1>1, <1>2, PointerInvariant, PTL DEF PointerSpec, Spec

\* However the user presses and releases the buttons of several mice, moves in and
\* out of a viewer's frame, and lets it clone or hold: a guest takes a button for
\* held only while the user holds it (check_mouse_keys sends the release after the
\* press).
THEOREM NothingStaysPressed ==
    Undisturbed => (PointerSpec /\ []FewHeld => []NothingStuck)
<1> SUFFICES ASSUME Undisturbed PROVE PointerSpec /\ []FewHeld => []NothingStuck
  OBVIOUS
<1>1. PInv => NothingStuck
  <2> SUFFICES ASSUME PInv, ~hw.touch, NEW r \in Live(sw), NEW b \in told[r]
               PROVE  \E m \in DOMAIN Mice : <<m, b>> \in hw.held
    BY DEF NothingStuck
  <2>1. /\ MouseOK(Path, hw.held) /\ hw \in Hands
        /\ Path.s = sw /\ Path.p = pt /\ Path.t = told /\ r \in Rec
    BY DEF PInv, PointerInv, Path, Live
  <2>2. /\ Listed(sw, pt, hw.held) /\ pt.buttons \subseteq Down(hw.held)
        /\ ExplainedTo(sw, pt, r, b)
    BY <2>1 DEF MouseOK, Explained
  <2>3. CASE b \in pt.buttons
    <3>1. PICK h \in hw.held : h[2] = b
      BY <2>2, <2>3 DEF Down
    <3>2. PICK m \in DOMAIN Mice, x \in Buttons : h = <<m, x>>
      BY <2>1, <3>1, HandsFields, HeldIs
    <3> QED
      BY <3>1, <3>2
  <2>4. CASE Diverting(sw) /\ Pointed(pt.mouse_pressed, b, r)
    <3>1. PICK i \in DOMAIN pt.mouse_pressed : pt.mouse_pressed[i].code = b
      BY <2>4 DEF Pointed
    <3>2. pt.mouse_pressed[i] \in Pressed
      BY <2>1, <3>1, PtFields DEF MouseOK, Typed
    <3>3. ButtonOf(pt.mouse_pressed[i]) \in hw.held
      BY <2>2, <2>4, <3>1 DEF Listed, Exact
    <3> QED
      BY <3>1, <3>2, <3>3 DEF ButtonOf, Pressed
  <2> QED
    BY <2>2, <2>3, <2>4 DEF ExplainedTo
<1> QED
  BY <1>1, PointerInvariant, PTL

\* mouse_pressed has an entry for each held button while the mouse is diverted and
\* none otherwise: no release is without the entry that says where it goes.
THEOREM ListIsExact ==
    Undisturbed => (PointerSpec /\ []FewHeld => []ListedAreHeld)
<1> SUFFICES ASSUME Undisturbed PROVE PointerSpec /\ []FewHeld => []ListedAreHeld
  OBVIOUS
<1>1. PInv => ListedAreHeld
  <2> DEFINE list == pt.mouse_pressed
             listed == {<<list[i].slot, list[i].code>> : i \in DOMAIN list}
  <2> SUFFICES ASSUME PInv
               PROVE  /\ listed = IF Diverting(sw) THEN hw.held ELSE {}
                      /\ Len(list) = Cardinality(listed)
    BY DEF ListedAreHeld, Diverting
  <2>0. Path.s = sw /\ Path.p = pt
    BY DEF Path
  <2>1. CASE list = <<>> /\ (Diverting(sw) => hw.held = {})
    <3>1. listed = {}
      BY <2>1
    <3> HIDE DEF listed
    <3> QED
      BY <2>1, <3>1, FS_EmptySet
  <2>2. CASE Diverting(sw) /\ Exact(list, hw.held, {sw.mouse_parent, sw.mouse_dest})
    <3>1. /\ Len(list) = Cardinality(hw.held)
          /\ \A i \in DOMAIN list : <<list[i].slot, list[i].code>> \in hw.held
          /\ \A h \in hw.held : \E i \in DOMAIN list : <<list[i].slot, list[i].code>> = h
      BY <2>2 DEF Exact, ButtonOf
    <3>2. listed = hw.held
      BY <3>1, Zenon
    <3> HIDE DEF listed
    <3> QED
      BY <2>2, <3>1, <3>2
  <2>3. CASE hw.touch
    BY <2>0, <2>1, <2>3 DEF PInv, PointerInv, TouchOK, TouchBase, NoButtons
  <2>4. CASE ~hw.touch
    <3>1. Listed(sw, pt, hw.held)
      BY <2>0, <2>4 DEF PInv, PointerInv, MouseOK
    <3> QED
      BY <2>1, <2>2, <3>1 DEF Listed
  <2> QED
    BY <2>3, <2>4
<1> QED
  BY <1>1, PointerInvariant, PTL

\* CLICKHOLDFOCUS: while a button is down, whatever the mice report, the guest that
\* got the last event gets the next one.
THEOREM GuestKept ==
    Undisturbed => (PointerSpec /\ []FewHeld => HoldKeepsGuest)
<1> SUFFICES ASSUME Undisturbed PROVE PointerSpec /\ []FewHeld => HoldKeepsGuest
  OBVIOUS
<1> DEFINE A == /\ pt.buttons # {} /\ sw.mouse_parent # NULL
                /\ "CLICKHOLDFOCUS" \in pt.mode[sw.mouse_parent]
                /\ hw' # hw \/ pt' # pt
                => pt'.last_d = pt.last_d
<1>1. PInv /\ FewHeld' /\ [PointerNext]_vars => [A]_vars
  <2>1. ASSUME PInv, FewHeld', PointerNext PROVE A
    <3>1. KeepsGuest(Path, Path')
      BY <2>1, PointerStep DEF PathStep
    <3>2. Path.p = pt /\ Path.s = sw /\ Path'.p = pt'
      BY DEF Path
    <3> QED
      BY <3>1, <3>2 DEF KeepsGuest
  <2> QED
    BY <2>1
<1> HIDE DEF A
<1>2. PointerSpec /\ []FewHeld => [][A]_vars
  BY <1>1, PointerInvariant, PTL DEF PointerSpec
<1> QED
  BY <1>2 DEF HoldKeepsGuest, A

\* Between two of the touchscreen's reports demultitouch owes the guest nothing, the
\* guest's left button is what demultitouch believes, and it is up once no finger
\* is left, although demultitouch may take one finger for another.
THEOREM TouchComesToRest ==
    Undisturbed => (PointerSpec /\ []FewHeld => []TouchSettles)
<1> SUFFICES ASSUME Undisturbed PROVE PointerSpec /\ []FewHeld => []TouchSettles
  OBVIOUS
<1>1. PInv => TouchSettles
  <2> SUFFICES ASSUME PInv, hw.touch, ~hw.open
               PROVE  /\ pt.mt.deferpressed = "nope" /\ ~pt.mt.draining
                      /\ sw.mouse_dest # NULL /\ is_pv_domain(sw, sw.mouse_dest) =>
                           ("BTN_LEFT" \in told[sw.mouse_dest]) = pt.mt.pressed
                      /\ hw.contacts = {} => \A r \in Rec : "BTN_LEFT" \notin told[r]
    BY DEF TouchSettles
  <2> DEFINE q == Receiving(sw, pt)
             d == sw.mouse_dest
  <2>1. /\ TouchOK(Path, hw.contacts, hw.kslot, FALSE) /\ hw.held = {} /\ hw \in Hands
        /\ Path.s = sw /\ Path.p = pt /\ Path.t = told
    <3>1. hw \in Hands /\ hw.open = FALSE
      BY HandsFields DEF PInv, PointerInv
    <3> QED
      BY <3>1 DEF PInv, PointerInv, Path
  <2>2. /\ Typed(Path) /\ pt.mt \in MtState /\ d \in Ptr
        /\ \A r \in Rec : LeftHeld(told[r]) => r = q /\ Pv(sw, q)
        /\ ~Pv(sw, q) => Quiet(pt.mt)
        /\ Pv(sw, q) => Settled(pt.mt, LeftHeld(told[q]), hw.contacts, hw.kslot, FALSE)
    BY <2>1, PtFields, StateFields DEF TouchOK, TouchBase, Typed, Calm
  <2>3. pt.mt.deferpressed = "nope" /\ ~pt.mt.draining
    BY <2>2 DEF Quiet, Settled
  <2>4. ASSUME d # NULL, is_pv_domain(sw, d)
        PROVE  ("BTN_LEFT" \in told[d]) = pt.mt.pressed
    <3>1. d \in Rec /\ Pv(sw, d) /\ pt.mt.pressed \in BOOLEAN
      BY <2>2, <2>4 DEF Ptr, Pv, MtState
    <3>2. CASE q = d
      <4>1. LeftHeld(told[d]) <=> pt.mt.pressed
        BY <2>2, <2>3, <3>1, <3>2 DEF Settled
      <4> QED
        BY <3>1, <4>1 DEF LeftHeld
    <3>3. CASE q # d
      <4>1. ~LeftHeld(told[d])
        BY <2>2, <3>1, <3>3
      <4>2. Sound(sw) /\ Calm(sw) /\ ~Pv(sw, sw.mouse_parent)
        BY <2>1, <2>2, ViewerIsHVM DEF PInv, PointerInv, Typed, Undisturbed
      <4>3. ~Pv(sw, q)
        BY <3>3, <4>2, <2>4 DEF Receiving
      <4> QED
        BY <2>2, <3>1, <4>1, <4>3 DEF LeftHeld, Quiet
    <3> QED
      BY <3>2, <3>3
  <2>5. ASSUME hw.contacts = {}, NEW r \in Rec PROVE "BTN_LEFT" \notin told[r]
    <3>1. Resting(Path, TRUE)
      BY <2>1, <2>5, TouchRests
    <3> QED
      BY <2>1, <3>1 DEF Resting
  <2> QED
    BY <2>3, <2>4, <2>5
<1> QED
  BY <1>1, PointerInvariant, PTL
=============================================================================
