-------------------------- MODULE Keyboard_proofs --------------------------
(***************************************************************************)
(* Theorems about Keyboard: what the guests take for held, how far the     *)
(* bindings have come and which modifiers a filter has seen all agree with *)
(* the keys that are down, whatever moves the keyboard and whenever.       *)
(***************************************************************************)
EXTENDS Keyboard, DomainFocus_proofs, SequenceTheorems

USE DEF NULL, NoDomid, NoSlot, REBOOT, RUNNING

-----------------------------------------------------------------------------
(* The inductive invariant, stated of a path state c so that the values    *)
(* within a handler can be related by it too.                              *)

\* KEY_SWITCHVIDEOMODE, which becomes two keys that key_status does not know, is
\* on none of the keyboards.
NoVideoKey == "KEY_SWITCHVIDEOMODE" \notin Keys

\* The keys a handler is given, or presses itself (turn_numlock_off).
InputKeys == Keys \cup {"KEY_NUMLOCK"}

\* The keys a guest may be told of.
AllKeys == InputKeys \cup {"KEY_LEFTMETA", "KEY_P"}

Typed(c) ==
    /\ c = [s |-> c.s, k |-> c.k, t |-> c.t, n |-> c.n]
    /\ Good(c.s)
    /\ c.k \in KeyboardState
    /\ c.t \in [Rec -> SUBSET AllKeys]
    /\ c.n \in SUBSET Rec

\* The keyboard's guest takes no key for held but those of S, the other guests
\* none at all.
HeldAmong(c, S) ==
    NoVideoKey =>
        \A r \in Rec : c.t[r] \subseteq IF r = c.s.keyb_dest THEN S ELSE {}

\* A viewer without a filter leaves no modifiers.
ModbitsIn(c, H) ==
    c.s.keyb_parent # NULL =>
        /\ c.k.keyb_modbits \subseteq H
        /\ c.s.keyb_parent \notin c.k.filter => c.k.keyb_modbits = {}

MatchedIn(c, H) ==
    \A b \in DOMAIN Bindings :
        /\ c.k.matched[b] < Len(Bindings[b].keys)
        /\ \A i \in 1..c.k.matched[b] : Bindings[b].keys[i] \in H
        /\ b \in c.k.down => ToSet(Bindings[b].keys) \subseteq H

LampsOf(s) == {r \in Rec : s.domains[r].domid \in Lamps}

\* Numlock is on only where it is followed.
OnlyLamps(c) == c.n \subseteq LampsOf(c.s)

\* H: the keys that are held, or whose release was not seen.
PathOK(c, H) ==
    /\ Typed(c)
    /\ HeldAmong(c, c.k.key_status)
    /\ OnlyLamps(c)
    /\ ModbitsIn(c, H)
    /\ MatchedIn(c, H)

HeldOrMissed == HeldOn(hands) \cup missed

KInv ==
    /\ PathOK(Path, HeldOrMissed)
    /\ hands \in SUBSET ((DOMAIN Keyboards) \X Keys)
    /\ missed \in SUBSET Keys

-----------------------------------------------------------------------------
(* The fields of a path state, and of kb.                                  *)

LEMMA PathFields ==
  ASSUME NEW c, Typed(c), NEW x
  PROVE  /\ [c EXCEPT !.s = x] = [s |-> x, k |-> c.k, t |-> c.t, n |-> c.n]
         /\ [c EXCEPT !.k = x] = [s |-> c.s, k |-> x, t |-> c.t, n |-> c.n]
         /\ [c EXCEPT !.t = x] = [s |-> c.s, k |-> c.k, t |-> x, n |-> c.n]
         /\ [c EXCEPT !.n = x] = [s |-> c.s, k |-> c.k, t |-> c.t, n |-> x]
  BY DEF Typed

LEMMA TypedPath ==
  ASSUME NEW s, Good(s), NEW k \in KeyboardState,
         NEW t \in [Rec -> SUBSET AllKeys], NEW n \in SUBSET Rec
  PROVE  Typed([s |-> s, k |-> k, t |-> t, n |-> n])
  BY DEF Typed

LEMMA KbFields ==
  ASSUME NEW k \in KeyboardState
  PROVE  /\ k.key_status \in SUBSET Keys
         /\ k.keyb_modbits \in SUBSET Modifiers
         /\ k.matched \in [DOMAIN Bindings -> Nat]
         /\ k.down \in SUBSET DOMAIN Bindings
         /\ k.force_ticks \in [DOMAIN Bindings -> 0..FORCE_TICKS]
         /\ k.lights \in SUBSET Rec
         /\ k.filter \in SUBSET Rec
         /\ k.secure \in {"off", "open", "locked"}
  BY DEF KeyboardState

\* The fields that only the bindings, the filters and secure mode write.
SameBindings(k, l) ==
    /\ l.matched = k.matched /\ l.down = k.down /\ l.force_ticks = k.force_ticks
    /\ l.filter = k.filter /\ l.secure = k.secure

SameKeys(k, l) == SameBindings(k, l) /\ l.key_status = k.key_status

LEMMA SetKeyStatus ==
  ASSUME NEW k \in KeyboardState, NEW x \in SUBSET Keys
  PROVE  /\ [k EXCEPT !.key_status = x] \in KeyboardState
         /\ SameBindings(k, [k EXCEPT !.key_status = x])
         /\ [k EXCEPT !.key_status = x].key_status = x
         /\ [k EXCEPT !.key_status = x].keyb_modbits = k.keyb_modbits
         /\ [k EXCEPT !.key_status = x].lights = k.lights
  BY DEF KeyboardState, SameBindings

LEMMA SetModbits ==
  ASSUME NEW k \in KeyboardState, NEW x \in SUBSET Modifiers
  PROVE  /\ [k EXCEPT !.keyb_modbits = x] \in KeyboardState
         /\ SameKeys(k, [k EXCEPT !.keyb_modbits = x])
         /\ [k EXCEPT !.keyb_modbits = x].keyb_modbits = x
         /\ [k EXCEPT !.keyb_modbits = x].lights = k.lights
  BY DEF KeyboardState, SameKeys, SameBindings

LEMMA SetLights ==
  ASSUME NEW k \in KeyboardState, NEW x \in SUBSET Rec
  PROVE  /\ [k EXCEPT !.lights = x] \in KeyboardState
         /\ SameKeys(k, [k EXCEPT !.lights = x])
         /\ [k EXCEPT !.lights = x].keyb_modbits = k.keyb_modbits
         /\ [k EXCEPT !.lights = x].lights = x
  BY DEF KeyboardState, SameKeys, SameBindings

-----------------------------------------------------------------------------
(* Sending.                                                                *)

Events(K) == [kind : {"KEY"}, code : K, value : 0..2]

LEMMA KeyIsEvent ==
  ASSUME NEW K, NEW code \in K, NEW value \in 0..2
  PROVE  /\ Key(code, value) \in Events(K)
         /\ Key(code, value).code = code /\ Key(code, value).value = value
  BY DEF Key, Event, Events

\* Told, for a key: what it takes for held.
LEMMA ToldOf ==
  ASSUME NEW K, NEW e \in Events(K), NEW S \in SUBSET K
  PROVE  /\ Told(S, e) = IF e.value = 0 THEN S \ {e.code} ELSE S \cup {e.code}
         /\ Told(S, e) \in SUBSET K
  BY DEF Told, Events

\* What sending may do: T has the routing and the bindings of c.
Keeps(c, T) == Typed(T) /\ T.s = c.s /\ SameKeys(c.k, T.k)

LEMMA KeepsItself == ASSUME NEW c, Typed(c) PROVE Keeps(c, c)
  BY DEF Keeps, SameKeys, SameBindings

LEMMA KeepsOn ==
  ASSUME NEW c, NEW T, NEW U, Keeps(c, T), Keeps(T, U)
  PROVE  Keeps(c, U)
  BY DEF Keeps, SameKeys, SameBindings

LEMMA SendKeeps ==
  ASSUME NEW c, Typed(c), NEW d \in Rec, NEW e \in Events(AllKeys),
         NEW T, T = Send(c, d, e)
  PROVE  /\ Keeps(c, T)
         /\ T.k.keyb_modbits = c.k.keyb_modbits
         /\ \A r \in Rec : T.t[r] = IF r = d THEN Told(c.t[d], e) ELSE c.t[r]
<1> DEFINE lamp    == e.code = "KEY_NUMLOCK" /\ c.s.domains[d].domid \in Lamps
           pressed == lamp /\ e.value = 1
           lit     == lamp /\ is_pv_domain(c.s, d) /\ e.value # 0
           tt      == [c.t EXCEPT ![d] = Told(c.t[d], e)]
           nn      == IF pressed THEN Toggle(c.n, d) ELSE c.n
           ll      == IF lit THEN Toggle(c.k.lights, d) ELSE c.k.lights
           kk      == [c.k EXCEPT !.lights = ll]
<1>1. /\ c = [s |-> c.s, k |-> c.k, t |-> c.t, n |-> c.n]
      /\ Good(c.s) /\ c.k \in KeyboardState /\ c.t \in [Rec -> SUBSET AllKeys]
      /\ c.n \in SUBSET Rec
  BY DEF Typed
<1>2. T = [s |-> c.s, k |-> kk, t |-> tt, n |-> nn]
  BY <1>1, Zenon DEF Send
<1>3. tt \in [Rec -> SUBSET AllKeys]
  <2>1. c.t[d] \in SUBSET AllKeys
    BY <1>1
  <2>2. Told(c.t[d], e) \in SUBSET AllKeys
    BY <2>1, ToldOf
  <2> QED
    BY <1>1, <2>2
<1>4. nn \in SUBSET Rec
  BY <1>1 DEF Toggle
<1>5. ll \in SUBSET Rec
  BY <1>1, KbFields DEF Toggle
<1>6. kk \in KeyboardState /\ SameKeys(c.k, kk) /\ kk.keyb_modbits = c.k.keyb_modbits
  <2> HIDE DEF ll
  <2> QED
    BY <1>1, <1>5, SetLights
<1>7. \A r \in Rec : tt[r] = IF r = d THEN Told(c.t[d], e) ELSE c.t[r]
  BY <1>1
<1> HIDE DEF tt, nn, kk
<1>8. Typed(T)
  BY <1>1, <1>2, <1>3, <1>4, <1>6, TypedPath
<1>9. T.s = c.s /\ T.k = kk /\ T.t = tt
  BY <1>2
<1> QED
  BY <1>6, <1>7, <1>8, <1>9 DEF Keeps

\* The releases that the code does not send; d may be nobody.
LEMMA LeaveBehindKeeps ==
  ASSUME NEW c, Typed(c), NEW d, NEW K, NEW T, T = Leave_behind(c, d, K)
  PROVE  /\ Keeps(c, T)
         /\ T.k = c.k /\ T.n = c.n
         /\ \A r \in Rec : T.t[r] = IF r = d THEN c.t[r] \ K ELSE c.t[r]
<1> DEFINE tt == [c.t EXCEPT ![d] = c.t[d] \ K]
<1>1. /\ c = [s |-> c.s, k |-> c.k, t |-> c.t, n |-> c.n]
      /\ Good(c.s) /\ c.k \in KeyboardState /\ c.t \in [Rec -> SUBSET AllKeys]
      /\ c.n \in SUBSET Rec
  BY DEF Typed
<1>2. T = [s |-> c.s, k |-> c.k, t |-> tt, n |-> c.n]
  BY <1>1, Zenon DEF Leave_behind
<1>3. \A r \in Rec : tt[r] = IF r = d THEN c.t[r] \ K ELSE c.t[r]
  BY <1>1
<1>4. tt \in [Rec -> SUBSET AllKeys]
  BY <1>1
<1> HIDE DEF tt
<1>5. Typed(T)
  BY <1>1, <1>2, <1>4, TypedPath
<1>6. T.s = c.s /\ T.k = c.k /\ T.t = tt /\ T.n = c.n
  BY <1>2
<1> QED
  BY <1>3, <1>5, <1>6 DEF Keeps, SameKeys, SameBindings

\* The modifiers a filter has seen after the event e.
BitsAfter(c, T, e) ==
    IF c.s.keyb_parent = NULL \/ c.s.keyb_parent \notin c.k.filter
    THEN T.k.keyb_modbits = c.k.keyb_modbits
    ELSE T.k.keyb_modbits \subseteq IF e.value = 0 THEN c.k.keyb_modbits \ {e.code}
                                    ELSE c.k.keyb_modbits \cup {e.code}

LEMMA FilterKeeps ==
  ASSUME NEW c, Typed(c), NEW e \in Events(InputKeys),
         NEW F, F = filter_keys(c, e)
  PROVE  /\ Keeps(c, F.c) /\ F.done \in BOOLEAN
         /\ \A r \in Rec : F.c.t[r] \subseteq c.t[r]
         /\ F.done /\ e.value = 0 =>
               \A r \in Rec : r = c.s.keyb_dest => e.code \notin F.c.t[r]
         /\ BitsAfter(c, F.c, e)
<1> DEFINE p    == c.s.keyb_parent
           bits == IF e.code \notin Modifiers THEN c.k.keyb_modbits
                   ELSE Told(c.k.keyb_modbits, e)
           t    == [c EXCEPT !.k.keyb_modbits = bits]
           hits == {sc \in Shortcuts : sc.key = e.code /\ sc.mods = bits}
           sc   == CHOOSE sc \in hits : TRUE
           sent == send_keypair(t, p, sc)
           kept == Leave_behind(t, c.s.keyb_dest, {e.code})
<1>1. /\ c = [s |-> c.s, k |-> c.k, t |-> c.t, n |-> c.n]
      /\ Good(c.s) /\ c.k \in KeyboardState /\ c.t \in [Rec -> SUBSET AllKeys]
      /\ c.n \in SUBSET Rec
  BY DEF Typed
<1>2. c.k.keyb_modbits \in SUBSET Modifiers
  BY <1>1, KbFields
<1>3. /\ bits \in SUBSET Modifiers
      /\ bits \subseteq IF e.value = 0 THEN c.k.keyb_modbits \ {e.code}
                        ELSE c.k.keyb_modbits \cup {e.code}
  <2>1. CASE e.code \notin Modifiers
    BY <1>2, <2>1
  <2>2. CASE e.code \in Modifiers
    <3>1. PICK K : K = Modifiers
      OBVIOUS
    <3>2. PICK S \in SUBSET K : S = c.k.keyb_modbits
      BY <1>2, <3>1
    <3>3. e \in Events(K)
      BY <2>2, <3>1 DEF Events
    <3>4. /\ Told(S, e) = IF e.value = 0 THEN S \ {e.code} ELSE S \cup {e.code}
          /\ Told(S, e) \in SUBSET K
      BY <3>3, ToldOf
    <3> QED
      BY <2>2, <3>1, <3>2, <3>4
  <2> QED
    BY <2>1, <2>2
<1> DEFINE kk == [c.k EXCEPT !.keyb_modbits = bits]
<1> HIDE DEF bits
<1>4. t = [s |-> c.s, k |-> kk, t |-> c.t, n |-> c.n]
  BY <1>1
<1>5. kk \in KeyboardState /\ SameKeys(c.k, kk) /\ kk.keyb_modbits = bits
  BY <1>1, <1>3, SetModbits
<1> HIDE DEF kk
<1>6. Typed(t)
  BY <1>1, <1>4, <1>5, TypedPath
<1>7. t.s = c.s /\ t.k = kk /\ t.t = c.t
  BY <1>4
<1> HIDE DEF t
<1>8. Keeps(c, t)
  BY <1>5, <1>6, <1>7 DEF Keeps
<1>9. CASE p = NULL \/ p \notin c.k.filter
  <2>1. F.c = c /\ F.done = FALSE
    BY <1>9, Zenon DEF filter_keys
  <2> QED
    BY <1>9, <2>1, KeepsItself DEF BitsAfter
<1>10. CASE ~ (p = NULL \/ p \notin c.k.filter) /\ hits = {}
  <2>1. F.c = t /\ F.done = FALSE
    BY <1>10, Zenon DEF filter_keys, bits, t
  <2> QED
    BY <1>3, <1>5, <1>7, <1>8, <1>10, <2>1 DEF BitsAfter
<1>11. CASE ~ (p = NULL \/ p \notin c.k.filter) /\ hits # {} /\ e.value # 0
  <2> DEFINE K == sc.mods \cup {sc.key}
  <2>1. F.c = sent /\ F.done = TRUE
    BY <1>11, Zenon DEF filter_keys, bits, t
  <2>2. sent = Leave_behind(t, p, K)
    BY DEF send_keypair, Leave_behind
  <2> HIDE DEF sc, sent, K
  <2>3. /\ Keeps(t, sent) /\ sent.k = t.k
        /\ \A r \in Rec : sent.t[r] = IF r = p THEN t.t[r] \ K ELSE t.t[r]
    BY <1>6, <2>2, LeaveBehindKeeps
  <2>4. Keeps(c, sent)
    BY <1>8, <2>3, KeepsOn
  <2> QED
    BY <1>3, <1>5, <1>7, <1>11, <2>1, <2>3, <2>4 DEF BitsAfter
<1>12. CASE ~ (p = NULL \/ p \notin c.k.filter) /\ hits # {} /\ e.value = 0
  <2>1. F.c = kept /\ F.done = TRUE
    BY <1>12, Zenon DEF filter_keys, bits, t
  <2> HIDE DEF kept
  <2>2. /\ Keeps(t, kept) /\ kept.k = t.k
        /\ \A r \in Rec : kept.t[r] = IF r = c.s.keyb_dest THEN t.t[r] \ {e.code}
                                      ELSE t.t[r]
    BY <1>6, LeaveBehindKeeps DEF kept
  <2>3. Keeps(c, kept)
    BY <1>8, <2>2, KeepsOn
  <2>4. \A r \in Rec : /\ kept.t[r] \subseteq c.t[r]
                       /\ r = c.s.keyb_dest => e.code \notin kept.t[r]
    BY <1>7, <2>2
  <2>5. BitsAfter(c, kept, e)
    BY <1>3, <1>5, <1>7, <1>12, <2>2 DEF BitsAfter
  <2> QED
    BY <2>1, <2>3, <2>4, <2>5
<1> QED
  BY <1>9, <1>10, <1>11, <1>12

LEMMA EmulatedKeeps ==
  ASSUME NEW c, Typed(c), NEW e \in Events(InputKeys), NEW T, T = Emulated(c, e)
  PROVE  /\ Keeps(c, T) /\ T.k.keyb_modbits = c.k.keyb_modbits
         /\ e.code # "KEY_SWITCHVIDEOMODE" => T = c
<1> DEFINE d == c.s.keyb_dest
           e1 == Key("KEY_LEFTMETA", e.value)
           e2 == Key("KEY_P", e.value)
<1>1. CASE e.code # "KEY_SWITCHVIDEOMODE" \/ d = NULL \/ is_pv_domain(c.s, d)
  <2>1. T = c
    BY <1>1, Zenon DEF Emulated
  <2> QED
    BY <2>1, KeepsItself
<1>2. CASE ~ (e.code # "KEY_SWITCHVIDEOMODE" \/ d = NULL \/ is_pv_domain(c.s, d))
  <2>1. T = Send(Send(c, d, e1), d, e2)
    BY <1>2, Zenon DEF Emulated
  <2>2. d \in Rec
    BY <1>2, StateFields, Pointers DEF Typed, Good
  <2>3. e1 \in Events(AllKeys) /\ e2 \in Events(AllKeys)
    <3>1. e.value \in 0..2
      BY DEF Events
    <3> QED
      BY <3>1, KeyIsEvent DEF AllKeys
  <2> HIDE DEF e1, e2, d
  <2>4. PICK t : t = Send(c, d, e1)
    OBVIOUS
  <2>5. Keeps(c, t) /\ t.k.keyb_modbits = c.k.keyb_modbits
    BY <2>2, <2>3, <2>4, SendKeeps
  <2>6. Typed(t)
    BY <2>5 DEF Keeps
  <2>7. Keeps(t, T) /\ T.k.keyb_modbits = t.k.keyb_modbits
    BY <2>1, <2>2, <2>3, <2>4, <2>6, SendKeeps
  <2> QED
    BY <1>2, <2>5, <2>7, KeepsOn
<1> QED
  BY <1>1, <1>2

-----------------------------------------------------------------------------
(* input_inject.                                                           *)

\* The keys S with those of the event e.
After(S, e) == IF e.value = 0 THEN S \ {e.code} ELSE S \cup {e.code}

\* What SendOrNot leaves.
Offered(c, d, e, T) ==
    \/ T = Send(c, d, e)
    \/ e.value = 0 /\ T = Leave_behind(c, d, {e.code})
    \/ e.value # 0 /\ T = c

LEMMA OfferedKeeps ==
  ASSUME NEW c, Typed(c), NEW d \in Rec, NEW e \in Events(AllKeys), NEW T,
         Offered(c, d, e, T)
  PROVE  /\ Keeps(c, T) /\ T.k.keyb_modbits = c.k.keyb_modbits
         /\ \A r \in Rec : T.t[r] \subseteq IF r = d THEN After(c.t[r], e) ELSE c.t[r]
<1>1. CASE T = Send(c, d, e)
  <2>1. c.t[d] \in SUBSET AllKeys
    BY DEF Typed
  <2>2. Told(c.t[d], e) = After(c.t[d], e)
    BY <2>1, ToldOf DEF After
  <2> QED
    BY <1>1, <2>2, SendKeeps
<1>2. CASE e.value = 0 /\ T = Leave_behind(c, d, {e.code})
  <2>1. PICK K : K = {e.code}
    OBVIOUS
  <2>2. /\ Keeps(c, T) /\ T.k = c.k
        /\ \A r \in Rec : T.t[r] = IF r = d THEN c.t[r] \ K ELSE c.t[r]
    BY <1>2, <2>1, LeaveBehindKeeps, SMTT(30)
  <2> QED
    BY <1>2, <2>1, <2>2 DEF After
<1>3. CASE e.value # 0 /\ T = c
  BY <1>3, KeepsItself DEF After
<1> QED
  BY <1>1, <1>2, <1>3 DEF Offered

\* The keyboard's guest follows the event, the others learn of no new key.
Follow(c, T, e) ==
    \A r \in Rec : T.t[r] \subseteq IF r = c.s.keyb_dest THEN After(c.t[r], e)
                                    ELSE c.t[r]

\* The old seamless mode: both guests are offered the key.
LEMMA BothKeep ==
  ASSUME NEW t, Typed(t), NEW e \in Events(AllKeys),
         NEW keyb \in Rec, keyb = t.s.keyb_dest, NEW mouse \in Rec, mouse # keyb,
         NEW u, Offered(t, keyb, e, u), NEW v, Offered(u, mouse, e, v),
         NEW T, T = Leave_behind(v, mouse, {e.code})
  PROVE  Keeps(t, T) /\ T.k.keyb_modbits = t.k.keyb_modbits /\ Follow(t, T, e)
<1>1. /\ Keeps(t, u) /\ u.k.keyb_modbits = t.k.keyb_modbits
      /\ \A r \in Rec : u.t[r] \subseteq IF r = keyb THEN After(t.t[r], e) ELSE t.t[r]
  BY OfferedKeeps
<1>2. Typed(u)
  BY <1>1 DEF Keeps
<1>3. /\ Keeps(u, v) /\ v.k.keyb_modbits = u.k.keyb_modbits
      /\ \A r \in Rec : v.t[r] \subseteq IF r = mouse THEN After(u.t[r], e) ELSE u.t[r]
  BY <1>2, OfferedKeeps
<1>4. Typed(v)
  BY <1>3 DEF Keeps
<1>5. /\ Keeps(v, T) /\ T.k = v.k
      /\ \A r \in Rec : T.t[r] = IF r = mouse THEN v.t[r] \ {e.code} ELSE v.t[r]
  BY <1>4, LeaveBehindKeeps
<1>6. Keeps(t, T)
  BY <1>1, <1>3, <1>5, KeepsOn
<1>7. \A r \in Rec : T.t[r] \subseteq IF r = keyb THEN After(t.t[r], e) ELSE t.t[r]
  <2> TAKE r \in Rec
  <2>1. CASE r = mouse
    BY <1>1, <1>3, <1>5, <2>1 DEF After
  <2>2. CASE r # mouse
    BY <1>1, <1>3, <1>5, <2>2
  <2> QED
    BY <2>1, <2>2
<1> QED
  BY <1>1, <1>3, <1>5, <1>6, <1>7 DEF Follow

LEMMA InjectKeeps ==
  ASSUME NEW c, Typed(c), NEW e \in Events(InputKeys), NEW T, T = input_inject(c, e)
  PROVE  /\ Keeps(c, T) /\ BitsAfter(c, T, e)
         /\ e.code # "KEY_SWITCHVIDEOMODE" => Follow(c, T, e)
<1> DEFINE keyb  == c.s.keyb_dest
           mouse == c.s.mouse_dest
           d     == IF keyb # NULL THEN keyb ELSE mouse
           both  == NULL \notin {keyb, mouse} /\ keyb # mouse /\ ~c.s.keyb_waits_for_click
<1>1. PICK f : f = filter_keys(c, e)
  OBVIOUS
<1>2. /\ Keeps(c, f.c) /\ f.done \in BOOLEAN /\ BitsAfter(c, f.c, e)
      /\ \A r \in Rec : f.c.t[r] \subseteq c.t[r]
      /\ f.done /\ e.value = 0 =>
            \A r \in Rec : r = c.s.keyb_dest => e.code \notin f.c.t[r]
  BY <1>1, FilterKeeps
<1>3. PICK g : g = f.c
  OBVIOUS
<1>4. Typed(g)
  BY <1>2, <1>3 DEF Keeps
<1>5. PICK t : t = Emulated(g, e)
  OBVIOUS
<1>6. /\ Keeps(g, t) /\ t.k.keyb_modbits = g.k.keyb_modbits
      /\ e.code # "KEY_SWITCHVIDEOMODE" => t = g
  BY <1>4, <1>5, EmulatedKeeps
<1>7. Keeps(c, t) /\ Typed(t) /\ t.s = c.s
  BY <1>2, <1>3, <1>6, KeepsOn DEF Keeps
<1>8. keyb \in Ptr /\ mouse \in Ptr /\ d \in Ptr
  BY StateFields DEF Typed, Good
<1>9. e \in Events(AllKeys)
  BY DEF Events, AllKeys
<1>10. \A r \in Rec : g.t[r] \subseteq c.t[r]
  BY <1>2, <1>3
\* The rest of the way leaves the modifiers alone.
<1>11. ASSUME Keeps(t, T), T.k.keyb_modbits = t.k.keyb_modbits, Follow(t, T, e)
       PROVE  /\ Keeps(c, T) /\ BitsAfter(c, T, e)
              /\ e.code # "KEY_SWITCHVIDEOMODE" => Follow(c, T, e)
  <2>1. Keeps(c, T)
    BY <1>7, <1>11, KeepsOn
  <2>2. BitsAfter(c, T, e)
    BY <1>2, <1>3, <1>6, <1>11 DEF BitsAfter
  <2>3. e.code # "KEY_SWITCHVIDEOMODE" => Follow(c, T, e)
    BY <1>6, <1>7, <1>10, <1>11 DEF Follow, After
  <2> QED
    BY <2>1, <2>2, <2>3
<1>12. CASE f.done
  <2>1. T = f.c
    BY <1>1, <1>12, Zenon DEF input_inject
  <2>2. Follow(c, T, e)
    BY <1>2, <1>12, <2>1 DEF Follow, After
  <2> QED
    BY <1>2, <2>1, <2>2
<1>13. CASE ~f.done /\ d = NULL
  <2>1. T = t
    BY <1>1, <1>3, <1>5, <1>13, Zenon DEF input_inject
  <2>2. keyb = NULL
    BY <1>13
  <2>3. Follow(t, T, e)
    BY <1>7, <2>1, <2>2, Pointers DEF Follow
  <2> QED
    BY <1>7, <1>11, <2>1, <2>3, KeepsItself
<1>14. CASE ~f.done /\ d # NULL /\ both
  <2> DEFINE u == SendOrNot(t, keyb, e, input_inject_seamless_keyboard(t, e))
             v == SendOrNot(u, mouse, e, input_inject_seamless_mouse(t, e))
  <2>1. T = Leave_behind(v, mouse, {e.code})
    BY <1>1, <1>3, <1>5, <1>14, Zenon DEF input_inject
  <2>2. keyb \in Rec /\ mouse \in Rec /\ mouse # keyb
    BY <1>8, <1>14 DEF Ptr
  <2>3. Offered(t, keyb, e, u)
    BY DEF SendOrNot, Offered
  <2> HIDE DEF u
  <2>4. Offered(u, mouse, e, v)
    BY DEF SendOrNot, Offered
  <2> HIDE DEF v
  <2>5. PICK x \in Rec : x = keyb
    BY <2>2
  <2>6. PICK y \in Rec : y = mouse
    BY <2>2
  <2>7. /\ x = t.s.keyb_dest /\ y # x /\ Offered(t, x, e, u) /\ Offered(u, y, e, v)
        /\ T = Leave_behind(v, y, {e.code})
    BY <1>7, <2>1, <2>2, <2>3, <2>4, <2>5, <2>6
  <2>8. Keeps(t, T) /\ T.k.keyb_modbits = t.k.keyb_modbits /\ Follow(t, T, e)
    BY <1>7, <1>9, <2>7, BothKeep
  <2> QED
    BY <1>11, <2>8
<1>15. CASE ~f.done /\ d # NULL /\ ~both /\ keyb = NULL
  <2>1. T = Leave_behind(Send(t, d, e), d, {e.code})
    BY <1>1, <1>3, <1>5, <1>15, Zenon DEF input_inject
  <2>2. PICK x \in Rec : x = d
    BY <1>8, <1>15 DEF Ptr
  <2>3. PICK u : u = Send(t, x, e)
    OBVIOUS
  <2>9. Offered(t, x, e, u)
    BY <2>3 DEF Offered
  <2>4. /\ Keeps(t, u) /\ u.k.keyb_modbits = t.k.keyb_modbits
        /\ \A r \in Rec : u.t[r] \subseteq IF r = x THEN After(t.t[r], e) ELSE t.t[r]
    BY <1>7, <1>9, <2>9, OfferedKeeps
  <2>5. Typed(u)
    BY <2>4 DEF Keeps
  <2>11. PICK K : K = {e.code}
    OBVIOUS
  <2>10. T = Leave_behind(u, x, K)
    BY <2>1, <2>2, <2>3, <2>11
  <2> HIDE DEF d
  <2>6. /\ Keeps(u, T) /\ T.k = u.k
        /\ \A r \in Rec : T.t[r] = IF r = x THEN u.t[r] \ K ELSE u.t[r]
    <3>1. \A K1, T1 : T1 = Leave_behind(u, x, K1) =>
             /\ Keeps(u, T1) /\ T1.k = u.k
             /\ \A r \in Rec : T1.t[r] = IF r = x THEN u.t[r] \ K1 ELSE u.t[r]
      BY <2>5, LeaveBehindKeeps, SMTT(30)
    <3> QED
      BY <2>10, <3>1
  <2>7. Follow(t, T, e)
    BY <1>7, <1>15, <2>4, <2>6, <2>11, Pointers DEF Follow, After
  <2>8. Keeps(t, T)
    BY <2>4, <2>6, KeepsOn
  <2> QED
    BY <1>11, <2>4, <2>6, <2>7, <2>8
<1>16. CASE ~f.done /\ d # NULL /\ ~both /\ keyb # NULL
  <2>1. T = Send(t, d, e)
    BY <1>1, <1>3, <1>5, <1>16, Zenon DEF input_inject
  <2>2. PICK x \in Rec : x = d /\ x = keyb
    BY <1>8, <1>16 DEF Ptr
  <2>5. Offered(t, x, e, T)
    BY <2>1, <2>2 DEF Offered
  <2>3. /\ Keeps(t, T) /\ T.k.keyb_modbits = t.k.keyb_modbits
        /\ \A r \in Rec : T.t[r] \subseteq IF r = x THEN After(t.t[r], e) ELSE t.t[r]
    BY <1>7, <1>9, <2>5, OfferedKeeps
  <2>4. Follow(t, T, e)
    BY <1>7, <2>2, <2>3 DEF Follow
  <2> QED
    BY <1>11, <2>3, <2>4
<1> QED
  BY <1>2, <1>12, <1>13, <1>14, <1>15, <1>16

\* An event that all keyboards may have: what the guests hold follows it.
LEMMA InjectHeld ==
  ASSUME NEW c, Typed(c), NEW e \in Events(InputKeys), NEW T, T = input_inject(c, e),
         NEW S, HeldAmong(c, S)
  PROVE  HeldAmong(T, After(S, e))
<1>1. NoVideoKey => e.code # "KEY_SWITCHVIDEOMODE"
  BY DEF NoVideoKey, Events, InputKeys
<1>2. NoVideoKey => Follow(c, T, e) /\ T.s = c.s
  BY <1>1, InjectKeeps DEF Keeps
<1> QED
  BY <1>2 DEF HeldAmong, Follow, After

-----------------------------------------------------------------------------
(* What is done for the guest that loses the keyboard.                     *)

LEMMA ResetKeeps ==
  ASSUME NEW c, Typed(c), NEW T,
         T = input_keyboard_reset(c, TRUE) \/ T = input_keyboard_reset(c, FALSE)
  PROVE  /\ Typed(T) /\ T.s = c.s /\ T.n = c.n
         /\ SameBindings(c.k, T.k) /\ T.k.lights = c.k.lights
         /\ c.s.keyb_dest # NULL => T.k.key_status = {}
         /\ HeldAmong(c, c.k.key_status) => HeldAmong(T, {})
<1>1. /\ c = [s |-> c.s, k |-> c.k, t |-> c.t, n |-> c.n]
      /\ Good(c.s) /\ c.k \in KeyboardState /\ c.t \in [Rec -> SUBSET AllKeys]
      /\ c.n \in SUBSET Rec
  BY DEF Typed
<1>2. CASE c.s.keyb_dest = NULL
  <2>1. T = c
    BY <1>2, Zenon DEF input_keyboard_reset
  <2> QED
    BY <1>2, <2>1, Pointers DEF SameBindings, HeldAmong
<1>3. CASE c.s.keyb_dest # NULL
  <2> DEFINE kk    == [c.k EXCEPT !.key_status = {}]
             tt(G) == [r \in Rec |-> IF r \in G THEN c.t[r] \ c.k.key_status ELSE c.t[r]]
             path(G) == [s |-> c.s, k |-> kk, t |-> tt(G), n |-> c.n]
  <2>1. \E G : c.s.keyb_dest \in G /\ T = path(G)
    <3>1. CASE T = input_keyboard_reset(c, TRUE)
      <4> DEFINE G == {c.s.keyb_dest} \cup ({c.s.mouse_dest} \ {NULL})
      <4>1. T = [c EXCEPT !.k.key_status = {}, !.t = tt(G)]
        BY <1>3, <3>1, Zenon DEF input_keyboard_reset
      <4>2. T = path(G)
        BY <1>1, <4>1
      <4> QED
        BY <4>2
    <3>2. CASE T = input_keyboard_reset(c, FALSE)
      <4> DEFINE G == {c.s.keyb_dest} \cup {}
      <4>1. T = [c EXCEPT !.k.key_status = {}, !.t = tt(G)]
        BY <1>3, <3>2, Zenon DEF input_keyboard_reset
      <4>2. T = path(G)
        BY <1>1, <4>1
      <4> QED
        BY <4>2
    <3> QED
      BY <3>1, <3>2
  <2>2. PICK G : c.s.keyb_dest \in G /\ T = path(G)
    BY <2>1
  <2>3. /\ kk \in KeyboardState /\ SameBindings(c.k, kk) /\ kk.key_status = {}
        /\ kk.lights = c.k.lights
    BY <1>1, SetKeyStatus
  <2>4. tt(G) \in [Rec -> SUBSET AllKeys]
    BY <1>1
  <2> HIDE DEF kk
  <2>5. HeldAmong(c, c.k.key_status) => HeldAmong(T, {})
    BY <2>2 DEF HeldAmong
  <2> HIDE DEF tt
  <2>6. Typed(T)
    BY <1>1, <2>2, <2>3, <2>4, TypedPath
  <2> QED
    BY <2>2, <2>3, <2>5, <2>6
<1> QED
  BY <1>2, <1>3

Presses == Key("KEY_NUMLOCK", 1)
Releases == Key("KEY_NUMLOCK", 0)

LEMMA NumlockEvents ==
  /\ Presses \in Events(InputKeys) /\ Releases \in Events(InputKeys)
  /\ Presses.code = "KEY_NUMLOCK" /\ Releases.code = "KEY_NUMLOCK"
  /\ Presses.value = 1 /\ Releases.value = 0
  BY KeyIsEvent DEF Presses, Releases, InputKeys

\* The guest's light goes out before numlock is pressed.
Dark(c, d) == [c EXCEPT !.k.lights = c.k.lights \ {d}]

LEMMA DarkPath ==
  ASSUME NEW c, Typed(c), NEW d, NEW t, t = Dark(c, d)
  PROVE  /\ Keeps(c, t) /\ t.t = c.t /\ t.n = c.n
         /\ t.k.lights = c.k.lights \ {d} /\ t.k.keyb_modbits = c.k.keyb_modbits
<1>1. /\ c = [s |-> c.s, k |-> c.k, t |-> c.t, n |-> c.n]
      /\ Good(c.s) /\ c.k \in KeyboardState /\ c.t \in [Rec -> SUBSET AllKeys]
      /\ c.n \in SUBSET Rec
  BY DEF Typed
<1> DEFINE ll == c.k.lights \ {d}
           kk == [c.k EXCEPT !.lights = ll]
<1>2. t = [s |-> c.s, k |-> kk, t |-> c.t, n |-> c.n]
  BY <1>1 DEF Dark
<1>3. ll \in SUBSET Rec
  BY <1>1, KbFields
<1> HIDE DEF ll
<1>4. /\ kk \in KeyboardState /\ SameKeys(c.k, kk) /\ kk.lights = ll
      /\ kk.keyb_modbits = c.k.keyb_modbits
  BY <1>1, <1>3, SetLights
<1> HIDE DEF kk
<1>5. Typed(t)
  BY <1>1, <1>2, <1>4, TypedPath
<1> QED
  BY <1>2, <1>4, <1>5 DEF Keeps, ll

\* Numlock is pressed and released: nothing more is held than before.
LEMMA NumlockKeeps ==
  ASSUME NEW c, Typed(c), NEW T, T = turn_numlock_off(c)
  PROVE  Keeps(c, T) /\ (HeldAmong(c, {}) => HeldAmong(T, {}))
<1>3. PICK d : d = c.s.keyb_dest
  OBVIOUS
<1>4. PICK t : t = Dark(c, d)
  OBVIOUS
<1>1. CASE numlock_restore \/ d = NULL \/ d \notin c.k.lights
  <2>1. T = c
    BY <1>1, <1>3, Zenon DEF turn_numlock_off
  <2> QED
    BY <2>1, KeepsItself
<1>2. CASE ~ (numlock_restore \/ d = NULL \/ d \notin c.k.lights)
  <2>1. T = input_inject(input_inject(t, Presses), Releases)
    BY <1>2, <1>3, <1>4, Zenon DEF turn_numlock_off, Presses, Releases, Dark
  <2>2. Keeps(c, t) /\ t.t = c.t
    BY <1>4, DarkPath
  <2>3. PICK u : u = input_inject(t, Presses)
    OBVIOUS
  <2>4. Typed(t) /\ t.s = c.s
    BY <2>2 DEF Keeps
  <2>5. Keeps(t, u)
    BY <2>3, <2>4, NumlockEvents, InjectKeeps
  <2>6. Typed(u)
    BY <2>5 DEF Keeps
  <2>7. Keeps(u, T)
    BY <2>1, <2>3, <2>6, NumlockEvents, InjectKeeps
  <2>8. Keeps(c, T)
    BY <2>2, <2>5, <2>7, KeepsOn
  <2>9. ASSUME HeldAmong(c, {})
        PROVE  HeldAmong(T, {})
    <3>1. HeldAmong(t, {})
      BY <2>2, <2>4, <2>9 DEF HeldAmong
    <3>2. PICK S : S = After({}, Presses)
      OBVIOUS
    <3>3. HeldAmong(u, S)
      BY <2>3, <2>4, <3>1, <3>2, NumlockEvents, InjectHeld
    <3>4. HeldAmong(T, After(S, Releases))
      BY <2>1, <2>3, <2>6, <3>3, NumlockEvents, InjectHeld
    <3>5. After(S, Releases) = {}
      BY <3>2, NumlockEvents DEF After
    <3> QED
      BY <3>4, <3>5
  <2> QED
    BY <2>8, <2>9
<1> QED
  BY <1>1, <1>2

-----------------------------------------------------------------------------
(* Numlock: whose light an event may change.                               *)

Presses_on(c, d, e) == e.code = "KEY_NUMLOCK" /\ d \in LampsOf(c.s) /\ e.value = 1

\* A PV guest's light is worked out with the event.
Works_out(c, d, e) ==
    /\ e.code = "KEY_NUMLOCK" /\ d \in LampsOf(c.s) /\ e.value # 0
    /\ is_pv_domain(c.s, d)

\* The event reaches the guest d, as far as numlock goes, and no other.
LampSent(c, d, e, T) ==
    /\ T.s = c.s /\ T.k.key_status = c.k.key_status
    /\ T.n = IF Presses_on(c, d, e) THEN Toggle(c.n, d) ELSE c.n
    /\ T.k.lights = IF Works_out(c, d, e) THEN Toggle(c.k.lights, d) ELSE c.k.lights

SameLamps(c, T) ==
    /\ T.s = c.s /\ T.k.key_status = c.k.key_status
    /\ T.n = c.n /\ T.k.lights = c.k.lights

\* Numlock comes on only where it is followed.
LampsKept(c, T) == T.s = c.s /\ T.n \subseteq c.n \cup LampsOf(c.s)

LEMMA LampsKeptOn ==
  ASSUME NEW c, NEW T, NEW U, LampsKept(c, T), LampsKept(T, U)
  PROVE  LampsKept(c, U)
  BY DEF LampsKept

LEMMA SameLampsKept == ASSUME NEW c, NEW T, SameLamps(c, T) PROVE LampsKept(c, T)
  BY DEF SameLamps, LampsKept

LEMMA SendLamps ==
  ASSUME NEW c, Typed(c), NEW d \in Rec, NEW e, NEW T, T = Send(c, d, e)
  PROVE  LampSent(c, d, e, T) /\ LampsKept(c, T)
<1>1. /\ c = [s |-> c.s, k |-> c.k, t |-> c.t, n |-> c.n]
      /\ c.k \in KeyboardState /\ c.n \in SUBSET Rec
  BY DEF Typed
<1> DEFINE nn == IF Presses_on(c, d, e) THEN Toggle(c.n, d) ELSE c.n
           ll == IF Works_out(c, d, e) THEN Toggle(c.k.lights, d) ELSE c.k.lights
           kk == [c.k EXCEPT !.lights = ll]
           tt == [c.t EXCEPT ![d] = Told(c.t[d], e)]
<1>2. d \in LampsOf(c.s) <=> c.s.domains[d].domid \in Lamps
  BY DEF LampsOf
<1>3. T = [c EXCEPT !.t = tt, !.n = nn, !.k = kk]
  <2> DEFINE lamp    == e.code = "KEY_NUMLOCK" /\ c.s.domains[d].domid \in Lamps
             pressed == lamp /\ e.value = 1
             lit     == lamp /\ is_pv_domain(c.s, d) /\ e.value # 0
  <2>1. pressed <=> Presses_on(c, d, e)
    BY <1>2 DEF Presses_on
  <2>2. lit <=> Works_out(c, d, e)
    BY <1>2 DEF Works_out
  <2>3. T = [c EXCEPT !.t[d] = Told(@, e),
                      !.n = IF pressed THEN Toggle(@, d) ELSE @,
                      !.k.lights = IF lit THEN Toggle(@, d) ELSE @]
    BY Zenon DEF Send
  <2> HIDE DEF pressed, lit
  <2> QED
    BY <1>1, <2>1, <2>2, <2>3
<1> HIDE DEF nn, ll, tt
<1>4. T = [s |-> c.s, k |-> kk, t |-> tt, n |-> nn]
  BY <1>1, <1>3
<1>5. kk.lights = ll /\ kk.key_status = c.k.key_status
  BY <1>1 DEF KeyboardState
<1> HIDE DEF kk
<1>6. LampSent(c, d, e, T)
  BY <1>4, <1>5 DEF LampSent, nn, ll
<1>7. LampsKept(c, T)
  BY <1>6 DEF LampSent, LampsKept, Presses_on, Toggle
<1> QED
  BY <1>6, <1>7

LEMMA LeaveBehindLamps ==
  ASSUME NEW c, Typed(c), NEW d, NEW K, NEW T, T = Leave_behind(c, d, K)
  PROVE  SameLamps(c, T)
  BY LeaveBehindKeeps DEF Keeps, SameLamps

\* A filter sends its viewer no numlock; without a viewer it does nothing.
LEMMA FilterLamps ==
  ASSUME NEW c, Typed(c), NEW e \in Events(InputKeys), NEW F, F = filter_keys(c, e)
  PROVE  /\ SameLamps(c, F.c)
         /\ c.s.keyb_parent = NULL => F.done = FALSE
<1> DEFINE p    == c.s.keyb_parent
           bits == IF e.code \notin Modifiers THEN c.k.keyb_modbits
                   ELSE Told(c.k.keyb_modbits, e)
           t    == [c EXCEPT !.k.keyb_modbits = bits]
           hits == {sc \in Shortcuts : sc.key = e.code /\ sc.mods = bits}
           sc   == CHOOSE sc \in hits : TRUE
<1>1. /\ c = [s |-> c.s, k |-> c.k, t |-> c.t, n |-> c.n]
      /\ c.k \in KeyboardState
  BY DEF Typed
<1> HIDE DEF bits
<1>2. SameLamps(c, t) /\ t = [s |-> t.s, k |-> t.k, t |-> t.t, n |-> t.n]
  BY <1>1 DEF SameLamps, KeyboardState
<1> HIDE DEF t
<1>3. \A d, K : SameLamps(c, Leave_behind(t, d, K))
  BY <1>2 DEF SameLamps, Leave_behind
<1>4. \/ F.c = c /\ F.done = FALSE
      \/ p # NULL /\ F.c = t
      \/ p # NULL /\ F.c = send_keypair(t, p, sc)
      \/ p # NULL /\ F.c = Leave_behind(t, c.s.keyb_dest, {e.code})
  BY Zenon DEF filter_keys, bits, t
<1>5. send_keypair(t, p, sc) = Leave_behind(t, p, sc.mods \cup {sc.key})
  BY DEF send_keypair, Leave_behind
<1>6. SameLamps(c, c)
  BY DEF SameLamps
<1> HIDE DEF sc
<1> QED
  BY <1>2, <1>3, <1>4, <1>5, <1>6

LEMMA OfferedLamps ==
  ASSUME NEW c, Typed(c), NEW d \in Rec, NEW e, NEW T, Offered(c, d, e, T)
  PROVE  LampsKept(c, T)
<1>1. CASE T = Send(c, d, e)
  BY <1>1, SendLamps
<1>2. CASE T = c
  BY <1>2 DEF LampsKept
<1>3. CASE T = Leave_behind(c, d, {e.code})
  <2>1. PICK K : K = {e.code}
    OBVIOUS
  <2> QED
    BY <1>3, <2>1, LeaveBehindLamps, SameLampsKept
<1> QED
  BY <1>1, <1>2, <1>3 DEF Offered

LEMMA EmulatedLamps ==
  ASSUME NEW c, Typed(c), NEW e \in Events(InputKeys), NEW T, T = Emulated(c, e)
  PROVE  LampsKept(c, T) /\ (e.code = "KEY_NUMLOCK" => T = c)
<1> DEFINE d  == c.s.keyb_dest
           e1 == Key("KEY_LEFTMETA", e.value)
           e2 == Key("KEY_P", e.value)
<1>1. CASE e.code # "KEY_SWITCHVIDEOMODE" \/ d = NULL \/ is_pv_domain(c.s, d)
  <2>1. T = c
    BY <1>1, Zenon DEF Emulated
  <2> QED
    BY <2>1 DEF LampsKept
<1>2. CASE ~ (e.code # "KEY_SWITCHVIDEOMODE" \/ d = NULL \/ is_pv_domain(c.s, d))
  <2>1. T = Send(Send(c, d, e1), d, e2)
    BY <1>2, Zenon DEF Emulated
  <2>2. d \in Rec
    BY <1>2, StateFields, Pointers DEF Typed, Good
  <2>3. e1 \in Events(AllKeys)
    <3>1. e.value \in 0..2
      BY DEF Events
    <3> QED
      BY <3>1, KeyIsEvent DEF AllKeys
  <2> HIDE DEF e1, e2, d
  <2>4. PICK t : t = Send(c, d, e1)
    OBVIOUS
  <2>5. Typed(t)
    BY <2>2, <2>3, <2>4, SendKeeps DEF Keeps
  <2>6. LampsKept(c, t) /\ LampsKept(t, T)
    BY <2>1, <2>2, <2>4, <2>5, SendLamps
  <2> QED
    BY <1>2, <2>6, LampsKeptOn
<1> QED
  BY <1>1, <1>2

\* The mouse's guest has the keyboard, or no key is down: numlock is for the
\* keyboard's guest alone (input_inject_seamless_mouse).
Quiet(c) ==
    /\ c.s.keyb_dest # NULL
    /\ c.s.mouse_dest = c.s.keyb_dest \/ c.k.key_status = {}

LEMMA QuietSends ==
  ASSUME NEW t, t.k.key_status = {}, NEW e, e.code = "KEY_NUMLOCK"
  PROVE  input_inject_seamless_keyboard(t, e) /\ ~input_inject_seamless_mouse(t, e)
  BY DEF input_inject_seamless_keyboard, input_inject_seamless_mouse, Down,
         code_is_meta_key, MetaKeys

LEMMA InjectLamps ==
  ASSUME NEW c, Typed(c), NEW e \in Events(InputKeys), NEW T, T = input_inject(c, e)
  PROVE  /\ LampsKept(c, T)
         /\ Quiet(c) /\ e.code = "KEY_NUMLOCK" =>
               \/ SameLamps(c, T) /\ c.s.keyb_parent # NULL
               \/ LampSent(c, c.s.keyb_dest, e, T)
<1> DEFINE keyb  == c.s.keyb_dest
           mouse == c.s.mouse_dest
           d     == IF keyb # NULL THEN keyb ELSE mouse
           both  == NULL \notin {keyb, mouse} /\ keyb # mouse /\ ~c.s.keyb_waits_for_click
           numl  == e.code = "KEY_NUMLOCK"
<1>1. PICK f : f = filter_keys(c, e)
  OBVIOUS
<1>2. /\ Keeps(c, f.c) /\ SameLamps(c, f.c) /\ f.done \in BOOLEAN
      /\ c.s.keyb_parent = NULL => f.done = FALSE
  BY <1>1, FilterKeeps, FilterLamps
<1>3. PICK g : g = f.c
  OBVIOUS
<1>4. Typed(g)
  BY <1>2, <1>3 DEF Keeps
<1>5. PICK t : t = Emulated(g, e)
  OBVIOUS
<1>6. /\ Keeps(g, t) /\ LampsKept(g, t)
      /\ numl => t = g
  BY <1>4, <1>5, EmulatedKeeps, EmulatedLamps
<1>7. Typed(t) /\ t.s = c.s /\ LampsKept(c, t) /\ (numl => SameLamps(c, t))
  BY <1>2, <1>3, <1>6, LampsKeptOn, SameLampsKept DEF Keeps
<1>8. keyb \in Ptr /\ mouse \in Ptr /\ d \in Ptr
  BY StateFields DEF Typed, Good
<1>9. e \in Events(AllKeys)
  BY DEF Events, AllKeys
<1>10. ASSUME NEW x \in Rec, numl, NEW U, LampSent(t, x, e, U)
       PROVE  LampSent(c, x, e, U)
  BY <1>7, <1>10 DEF LampSent, SameLamps, Presses_on, Works_out
<1>11. CASE f.done
  <2>1. T = f.c
    BY <1>1, <1>11, Zenon DEF input_inject
  <2> QED
    BY <1>2, <1>11, <2>1, SameLampsKept
<1>12. CASE ~f.done /\ d = NULL
  <2>1. T = t
    BY <1>1, <1>3, <1>5, <1>12, Zenon DEF input_inject
  <2> QED
    BY <1>7, <1>12, <2>1 DEF Quiet
<1>13. CASE ~f.done /\ d # NULL /\ both
  <2> DEFINE u == SendOrNot(t, keyb, e, input_inject_seamless_keyboard(t, e))
             v == SendOrNot(u, mouse, e, input_inject_seamless_mouse(t, e))
  <2>1. T = Leave_behind(v, mouse, {e.code})
    BY <1>1, <1>3, <1>5, <1>13, Zenon DEF input_inject
  <2>2. PICK x \in Rec : x = keyb
    BY <1>8, <1>13 DEF Ptr
  <2>3. PICK y \in Rec : y = mouse
    BY <1>8, <1>13 DEF Ptr
  <2>4. Offered(t, keyb, e, u)
    BY DEF SendOrNot, Offered
  <2>5. numl /\ Quiet(c) => u = Send(t, keyb, e)
    <3> SUFFICES ASSUME numl, Quiet(c)
                 PROVE  u = Send(t, keyb, e)
      OBVIOUS
    <3>1. t.k.key_status = {}
      BY <1>7, <1>13 DEF Quiet, SameLamps
    <3>2. input_inject_seamless_keyboard(t, e)
      BY <3>1, QuietSends
    <3> QED
      BY <3>2 DEF SendOrNot
  <2> HIDE DEF u
  <2>6. Offered(u, mouse, e, v)
    BY DEF SendOrNot, Offered
  <2>7. numl /\ Quiet(c) => v = u \/ v = Leave_behind(u, mouse, {e.code})
    <3> SUFFICES ASSUME numl, Quiet(c)
                 PROVE  v = u \/ v = Leave_behind(u, mouse, {e.code})
      OBVIOUS
    <3>1. t.k.key_status = {}
      BY <1>7, <1>13 DEF Quiet, SameLamps
    <3>2. ~input_inject_seamless_mouse(t, e)
      BY <3>1, QuietSends
    <3> QED
      BY <3>2 DEF SendOrNot
  <2> HIDE DEF v
  <2>8. PICK K : K = {e.code}
    OBVIOUS
  <2>9. /\ Offered(t, x, e, u) /\ Offered(u, y, e, v) /\ T = Leave_behind(v, y, K)
        /\ numl /\ Quiet(c) => u = Send(t, x, e) /\ (v = u \/ v = Leave_behind(u, y, K))
    BY <2>1, <2>2, <2>3, <2>4, <2>5, <2>6, <2>7, <2>8
  <2>10. Typed(u) /\ LampsKept(t, u)
    BY <1>7, <1>9, <2>9, OfferedKeeps, OfferedLamps DEF Keeps
  <2>11. Typed(v) /\ LampsKept(u, v)
    BY <1>9, <2>9, <2>10, OfferedKeeps, OfferedLamps DEF Keeps
  <2>12. SameLamps(v, T)
    BY <2>9, <2>11, LeaveBehindLamps
  <2>13. LampsKept(c, T)
    BY <1>7, <2>10, <2>11, <2>12, SameLampsKept, LampsKeptOn
  <2>14. numl /\ Quiet(c) => LampSent(c, x, e, T)
    <3> SUFFICES ASSUME numl, Quiet(c)
                 PROVE  LampSent(c, x, e, T)
      OBVIOUS
    <3>1. LampSent(t, x, e, u)
      BY <1>7, <2>9, SendLamps
    <3>2. SameLamps(u, v)
      BY <2>9, <2>10, LeaveBehindLamps DEF SameLamps
    <3>3. LampSent(t, x, e, T)
      BY <2>12, <3>1, <3>2 DEF LampSent, SameLamps
    <3> QED
      BY <1>10, <3>3
  <2> QED
    BY <2>2, <2>13, <2>14
<1>14. CASE ~f.done /\ d # NULL /\ ~both /\ keyb = NULL
  <2>1. T = Leave_behind(Send(t, d, e), d, {e.code})
    BY <1>1, <1>3, <1>5, <1>14, Zenon DEF input_inject
  <2>2. PICK x \in Rec : x = d
    BY <1>8, <1>14 DEF Ptr
  <2>3. PICK u : u = Send(t, x, e)
    OBVIOUS
  <2>4. Typed(u) /\ LampsKept(t, u)
    BY <1>7, <1>9, <2>3, SendKeeps, SendLamps DEF Keeps
  <2>5. PICK K : K = {e.code}
    OBVIOUS
  <2>6. T = Leave_behind(u, x, K)
    BY <2>1, <2>2, <2>3, <2>5
  <2>7. SameLamps(u, T)
    BY <2>4, <2>6, LeaveBehindLamps
  <2>8. LampsKept(c, T)
    BY <1>7, <2>4, <2>7, SameLampsKept, LampsKeptOn
  <2> QED
    BY <1>14, <2>8 DEF Quiet
<1>15. CASE ~f.done /\ d # NULL /\ ~both /\ keyb # NULL
  <2>1. T = Send(t, d, e)
    BY <1>1, <1>3, <1>5, <1>15, Zenon DEF input_inject
  <2>2. PICK x \in Rec : x = d /\ x = keyb
    BY <1>8, <1>15 DEF Ptr
  <2>3. LampSent(t, x, e, T) /\ LampsKept(t, T)
    BY <1>7, <2>1, <2>2, SendLamps
  <2>4. LampsKept(c, T)
    BY <1>7, <2>3, LampsKeptOn
  <2>5. numl => LampSent(c, x, e, T)
    BY <1>10, <2>3
  <2> QED
    BY <2>2, <2>4, <2>5
<1> QED
  BY <1>2, <1>11, <1>12, <1>13, <1>14, <1>15

\* Numlock and the light that the daemon knows of are off.
OffIn(c, d) == d \notin c.n /\ d \notin c.k.lights

\* The guest has the keyboard without a divert, and its light is known.
LitIn(c, d) ==
    /\ c.s.keyb_dest = d /\ c.s.keyb_parent = NULL
    /\ d \in c.k.lights <=> d \in c.n

Clean(c, d) == OnlyLamps(c) /\ ~is_pv_domain(c.s, d) /\ (LitIn(c, d) \/ OffIn(c, d))

LEMMA LampSentElsewhere ==
  ASSUME NEW c, NEW q, NEW e, NEW T, LampSent(c, q, e, T) \/ SameLamps(c, T),
         NEW d, d # q, OffIn(c, d)
  PROVE  OffIn(T, d)
  BY DEF LampSent, SameLamps, OffIn, Toggle

\* turn_numlock_off does what it says for an HVM guest whose light is known.
LEMMA NumlockLamps ==
  ASSUME NEW c, Typed(c), NEW T, T = turn_numlock_off(c)
  PROVE  /\ LampsKept(c, T)
         /\ ~numlock_restore /\ (c.s.keyb_dest # NULL => Quiet(c)) =>
               \A d \in Rec : Clean(c, d) => OffIn(T, d)
<1>1. PICK q : q = c.s.keyb_dest
  OBVIOUS
<1>2. CASE numlock_restore \/ q = NULL \/ q \notin c.k.lights
  <2>1. T = c
    BY <1>1, <1>2, Zenon DEF turn_numlock_off
  <2>2. ASSUME ~numlock_restore, NEW d \in Rec, Clean(c, d)
        PROVE  OffIn(c, d)
    BY <1>1, <1>2, <2>2, Pointers DEF Clean, LitIn, OffIn
  <2> QED
    BY <2>1, <2>2 DEF LampsKept
<1>3. CASE ~ (numlock_restore \/ q = NULL \/ q \notin c.k.lights)
  <2>1. PICK t : t = Dark(c, q)
    OBVIOUS
  <2>2. PICK u : u = input_inject(t, Presses)
    OBVIOUS
  <2>3. T = input_inject(u, Releases)
    BY <1>1, <1>3, <2>1, <2>2, Zenon DEF turn_numlock_off, Presses, Releases, Dark
  <2>4. /\ Typed(t) /\ t.s = c.s /\ t.n = c.n /\ t.k.lights = c.k.lights \ {q}
        /\ t.k.key_status = c.k.key_status
    BY <2>1, DarkPath DEF Keeps, SameKeys
  <2>5. Typed(u)
    BY <2>2, <2>4, NumlockEvents, InjectKeeps DEF Keeps
  <2>6. /\ LampsKept(t, u)
        /\ Quiet(t) => \/ SameLamps(t, u) /\ t.s.keyb_parent # NULL
                       \/ LampSent(t, q, Presses, u)
    BY <1>1, <2>2, <2>4, NumlockEvents, InjectLamps
  <2>7. /\ LampsKept(u, T)
        /\ Quiet(u) => \/ SameLamps(u, T) /\ u.s.keyb_parent # NULL
                       \/ LampSent(u, u.s.keyb_dest, Releases, T)
    BY <2>3, <2>5, NumlockEvents, InjectLamps
  <2>8. LampsKept(c, T)
    BY <2>4, <2>6, <2>7 DEF LampsKept
  <2>9. ASSUME Quiet(c), NEW d \in Rec, Clean(c, d)
        PROVE  OffIn(T, d)
    <3>1. Quiet(t)
      BY <2>4, <2>9 DEF Quiet
    <3>2. u.s = t.s /\ u.k.key_status = t.k.key_status
      BY <2>6, <3>1 DEF SameLamps, LampSent
    <3>3. Quiet(u) /\ u.s.keyb_dest = q
      BY <1>1, <2>4, <3>1, <3>2 DEF Quiet
    <3>4. CASE d = q
      <4>1. /\ c.s.keyb_parent = NULL /\ q \in c.n /\ q \in LampsOf(c.s)
            /\ ~is_pv_domain(c.s, q)
        BY <1>3, <2>9, <3>4 DEF Clean, LitIn, OffIn, OnlyLamps
      <4>2. LampSent(t, q, Presses, u) /\ LampSent(u, q, Releases, T)
        BY <2>4, <2>6, <2>7, <3>1, <3>2, <3>3, <4>1
      <4>3. Presses_on(t, q, Presses) /\ ~Works_out(t, q, Presses)
        BY <2>4, <4>1, NumlockEvents DEF Presses_on, Works_out
      <4>4. ~Presses_on(u, q, Releases) /\ ~Works_out(u, q, Releases)
        BY NumlockEvents DEF Presses_on, Works_out
      <4>5. u.n = Toggle(c.n, q) /\ u.k.lights = c.k.lights \ {q}
        BY <2>4, <4>2, <4>3 DEF LampSent
      <4>6. T.n = u.n /\ T.k.lights = u.k.lights
        BY <4>2, <4>4 DEF LampSent
      <4> QED
        BY <3>4, <4>1, <4>5, <4>6 DEF OffIn, Toggle
    <3>5. CASE d # q
      <4>1. OffIn(t, d)
        BY <1>1, <2>4, <2>9, <3>5 DEF Clean, LitIn, OffIn
      <4>2. OffIn(u, d)
        BY <2>6, <3>1, <3>5, <4>1, LampSentElsewhere
      <4> QED
        BY <2>7, <3>3, <3>5, <4>2, LampSentElsewhere
    <3> QED
      BY <3>4, <3>5
  <2> QED
    BY <1>1, <1>3, <2>8, <2>9
<1> QED
  BY <1>2, <1>3

\* The table of records, as far as numlock depends on it.
SameIds(s, t) ==
    \A r \in Rec : /\ t.domains[r].domid = s.domains[r].domid
                   /\ t.domains[r].initialised = s.domains[r].initialised

\* The keyboard moves, if at all, from a guest whose numlock is off by then.
Dims(c, T) ==
    /\ SameIds(c.s, T.s)
    /\ OnlyLamps(c) => OnlyLamps(T)
    /\ ~numlock_restore => \A d \in Rec : Clean(c, d) => Clean(T, d)

LEMMA DimsItself == ASSUME NEW c PROVE Dims(c, c)
  BY DEF Dims, SameIds

LEMMA DimsOn ==
  ASSUME NEW c, NEW T, NEW U, Dims(c, T), Dims(T, U)
  PROVE  Dims(c, U)
  BY DEF Dims, SameIds

LEMMA MovesIds == ASSUME NEW s, NEW t, Moves(s, t) PROVE SameIds(s, t)
  BY DEF Moves, SameRecord, SameFields, SameIds

LEMMA SameLampIds ==
  ASSUME NEW s, NEW t, SameIds(s, t)
  PROVE  /\ LampsOf(t) = LampsOf(s)
         /\ \A d \in Rec : is_pv_domain(t, d) <=> is_pv_domain(s, d)
  BY DEF SameIds, LampsOf, is_pv_domain

-----------------------------------------------------------------------------
(* The keyboard moves.                                                     *)

\* What any of these functions leaves: the guests hold what the keyboards do,
\* a filter starts afresh unless it is still that of the same viewer, and the
\* guest that is left has numlock off.
Carried(c, T) ==
    /\ Typed(T) /\ SameBindings(c.k, T.k)
    /\ HeldAmong(T, T.k.key_status)
    /\ \/ T.k.keyb_modbits = {}
       \/ T.k.keyb_modbits = c.k.keyb_modbits /\ T.s.keyb_parent = c.s.keyb_parent
    /\ Dims(c, T)

\* A path state before an event, or after.
Ready(c) == Typed(c) /\ HeldAmong(c, c.k.key_status)

LEMMA CarriedOn ==
  ASSUME NEW c, NEW T, NEW U, Carried(c, T), Carried(T, U)
  PROVE  Carried(c, U)
  BY DimsOn DEF Carried, SameBindings

LEMMA CarriedItself == ASSUME NEW c, Ready(c) PROVE Carried(c, c)
  BY DimsItself DEF Carried, Ready, SameBindings

LEMMA CarriedReady == ASSUME NEW c, NEW T, Carried(c, T) PROVE Ready(T)
  BY DEF Carried, Ready

\* The routing is set and the filter's modifiers are forgotten.
Landed(c, s) == [c EXCEPT !.s = s, !.k.keyb_modbits = {}]

LEMMA LandedPath ==
  ASSUME NEW c, Typed(c), NEW s, Good(s), NEW T, T = Landed(c, s)
  PROVE  /\ Typed(T) /\ T.s = s /\ T.t = c.t /\ T.n = c.n
         /\ SameKeys(c.k, T.k) /\ T.k.keyb_modbits = {} /\ T.k.lights = c.k.lights
<1>1. /\ c = [s |-> c.s, k |-> c.k, t |-> c.t, n |-> c.n]
      /\ Good(c.s) /\ c.k \in KeyboardState /\ c.t \in [Rec -> SUBSET AllKeys]
      /\ c.n \in SUBSET Rec
  BY DEF Typed
<1> DEFINE kk == [c.k EXCEPT !.keyb_modbits = {}]
<1>2. T = [s |-> s, k |-> kk, t |-> c.t, n |-> c.n]
  BY <1>1 DEF Landed
<1>3. /\ kk \in KeyboardState /\ SameKeys(c.k, kk) /\ kk.keyb_modbits = {}
      /\ kk.lights = c.k.lights
  BY <1>1, SetModbits
<1> HIDE DEF kk
<1>4. Typed(T)
  BY <1>1, <1>2, <1>3, TypedPath
<1> QED
  BY <1>2, <1>3, <1>4

\* Numlock is off already: the keyboard may go to anyone.
LEMMA LandedDims ==
  ASSUME NEW c, NEW u, Typed(u), LampsKept(c, u), NEW s, Good(s), SameIds(c.s, s),
         ~numlock_restore => \A d \in Rec : Clean(c, d) => OffIn(u, d),
         NEW T, T = Landed(u, s)
  PROVE  Dims(c, T)
<1>1. T.s = s /\ T.n = u.n /\ T.k.lights = u.k.lights
  BY LandedPath
<1>2. OnlyLamps(c) => OnlyLamps(T)
  BY <1>1, SameLampIds DEF OnlyLamps, LampsKept
<1>3. ASSUME ~numlock_restore, NEW d \in Rec, Clean(c, d)
      PROVE  Clean(T, d)
  <2>1. OffIn(T, d)
    BY <1>1, <1>3 DEF OffIn
  <2> QED
    BY <1>1, <1>2, <1>3, <2>1, SameLampIds DEF Clean
<1> QED
  BY <1>1, <1>2, <1>3 DEF Dims

\* All keys are up, and numlock is off.
AllOff(c, u) ==
    /\ Typed(u) /\ u.s = c.s /\ SameBindings(c.k, u.k) /\ HeldAmong(u, {})
    /\ LampsKept(c, u)
    /\ ~numlock_restore => \A d \in Rec : Clean(c, d) => OffIn(u, d)

\* Nobody holds a key: the keyboard may go to anyone.
LEMMA LandedCarried ==
  ASSUME NEW c, NEW u, AllOff(c, u), NEW s, Good(s), SameIds(c.s, s),
         NEW T, T = Landed(u, s)
  PROVE  Carried(c, T) /\ T.s = s
<1>0. Typed(u) /\ SameBindings(c.k, u.k) /\ HeldAmong(u, {})
  BY DEF AllOff
<1>1. /\ Typed(T) /\ T.s = s /\ T.t = u.t
      /\ SameKeys(u.k, T.k) /\ T.k.keyb_modbits = {}
  BY <1>0, LandedPath
<1>2. HeldAmong(T, T.k.key_status)
  BY <1>0, <1>1 DEF HeldAmong
<1>3. Dims(c, T)
  BY LandedDims DEF AllOff
<1> QED
  BY <1>0, <1>1, <1>2, <1>3 DEF Carried, SameKeys, SameBindings

\* turn_numlock_off, with all keys up and numlock the keyboard's guest's alone.
LEMMA TurnedOff ==
  ASSUME NEW c, NEW u, Typed(u), u.s = c.s, SameBindings(c.k, u.k), HeldAmong(u, {}),
         u.n = c.n, u.k.lights = c.k.lights, u.s.keyb_dest # NULL => Quiet(u),
         NEW T, T = turn_numlock_off(u)
  PROVE  AllOff(c, T)
<1>1. Keeps(u, T) /\ HeldAmong(T, {})
  BY NumlockKeeps
<1>2. LampsKept(u, T) /\ (~numlock_restore => \A d \in Rec : Clean(u, d) => OffIn(T, d))
  BY NumlockLamps
<1>3. \A d \in Rec : Clean(c, d) => Clean(u, d)
  BY DEF Clean, OnlyLamps, LitIn, OffIn
<1> QED
  BY <1>1, <1>2, <1>3 DEF AllOff, LampsKept, Keeps, SameKeys, SameBindings

LEMMA LeavingKeeps ==
  ASSUME NEW c, Ready(c), NEW T, T = Leaving(c, TRUE) \/ T = Leaving(c, FALSE)
  PROVE  AllOff(c, T)
<1>1. PICK u : /\ u = input_keyboard_reset(c, TRUE) \/ u = input_keyboard_reset(c, FALSE)
               /\ T = turn_numlock_off(u)
  BY Zenon DEF Leaving
<1>2. /\ Typed(u) /\ u.s = c.s /\ SameBindings(c.k, u.k) /\ HeldAmong(u, {})
      /\ u.n = c.n /\ u.k.lights = c.k.lights
      /\ c.s.keyb_dest # NULL => u.k.key_status = {}
  BY <1>1, ResetKeeps DEF Ready
<1>3. u.s.keyb_dest # NULL => Quiet(u)
  BY <1>2 DEF Quiet
<1> QED
  BY <1>1, <1>2, <1>3, TurnedOff

LEMMA RoutedCarries ==
  ASSUME NEW c, Ready(c), NEW s, Good(s), SameIds(c.s, s),
         NEW T, T = Routed(c, s, TRUE) \/ T = Routed(c, s, FALSE)
  PROVE  Carried(c, T) /\ T.s = s
<1>1. PICK u : /\ u = Leaving(c, TRUE) \/ u = Leaving(c, FALSE)
               /\ T = Landed(u, s)
  BY Zenon DEF Routed, Landed
<1>2. AllOff(c, u)
  BY <1>1, LeavingKeeps
<1> QED
  BY <1>1, <1>2, LandedCarried

LEMMA SeamlesslyCarries ==
  ASSUME NEW c, Ready(c), NEW s, Good(s), SameIds(c.s, s), NEW T, T = Seamlessly(c, s)
  PROVE  Carried(c, T) /\ T.s = s
<1>1. Typed(c) /\ HeldAmong(c, c.k.key_status) /\ c.k.key_status \in SUBSET Keys
  BY KbFields DEF Ready, Typed
\* What the mouse's guest was told is left behind.
<1>2. PICK t : t = IF c.s.mouse_dest = NULL THEN c ELSE Leave_behind(c, c.s.mouse_dest, Keys)
  OBVIOUS
<1>3. /\ Typed(t) /\ t.s = c.s /\ t.k = c.k /\ t.n = c.n /\ HeldAmong(t, t.k.key_status)
      /\ c.s.keyb_dest = c.s.mouse_dest => HeldAmong(t, {})
  <2>1. CASE c.s.mouse_dest = NULL
    <3>1. t = c
      BY <1>2, <2>1
    <3>2. c.s.keyb_dest = c.s.mouse_dest => HeldAmong(t, {})
      BY <1>1, <2>1, <3>1, Pointers DEF HeldAmong
    <3> QED
      BY <1>1, <3>1, <3>2
  <2>2. CASE c.s.mouse_dest # NULL
    <3>1. t = Leave_behind(c, c.s.mouse_dest, Keys)
      BY <1>2, <2>2
    <3>2. PICK d : d = c.s.mouse_dest
      OBVIOUS
    <3>3. /\ Keeps(c, t) /\ t.k = c.k /\ t.n = c.n
          /\ \A r \in Rec : t.t[r] = IF r = d THEN c.t[r] \ Keys ELSE c.t[r]
      BY <1>1, <3>1, <3>2, LeaveBehindKeeps
    <3>4. HeldAmong(t, t.k.key_status)
      BY <1>1, <3>3 DEF HeldAmong, Keeps
    <3>5. c.s.keyb_dest = d => HeldAmong(t, {})
      BY <1>1, <3>3 DEF HeldAmong, Keeps
    <3> QED
      BY <3>2, <3>3, <3>4, <3>5 DEF Keeps
  <2> QED
    BY <2>1, <2>2
<1>4. PICK u : u = IF c.s.keyb_dest = c.s.mouse_dest THEN t
                   ELSE input_keyboard_reset(t, FALSE)
  OBVIOUS
<1>5. /\ Typed(u) /\ u.s = c.s /\ SameBindings(c.k, u.k) /\ HeldAmong(u, {})
      /\ u.n = c.n /\ u.k.lights = c.k.lights
      /\ u.s.keyb_dest # NULL => Quiet(u)
  <2>1. CASE c.s.keyb_dest = c.s.mouse_dest
    BY <1>3, <1>4, <2>1 DEF SameBindings, Quiet
  <2>2. CASE c.s.keyb_dest # c.s.mouse_dest
    <3>1. u = input_keyboard_reset(t, FALSE)
      BY <1>4, <2>2
    <3>2. /\ Typed(u) /\ u.s = t.s /\ SameBindings(t.k, u.k) /\ HeldAmong(u, {})
          /\ u.n = t.n /\ u.k.lights = t.k.lights
          /\ t.s.keyb_dest # NULL => u.k.key_status = {}
      BY <1>3, <3>1, ResetKeeps
    <3> QED
      BY <1>3, <3>2 DEF Quiet
  <2> QED
    BY <2>1, <2>2
<1>6. T = Landed(turn_numlock_off(u), s)
  BY <1>2, <1>4, Zenon DEF Seamlessly, Landed
<1>7. PICK v : v = turn_numlock_off(u)
  OBVIOUS
<1>8. AllOff(c, v)
  BY <1>5, <1>7, TurnedOff
<1> QED
  BY <1>6, <1>7, <1>8, LandedCarried

\* A routing that leaves the keyboard where it is.
SameKeyboard(s, t) == t.keyb_dest = s.keyb_dest /\ t.keyb_parent = s.keyb_parent

LEMMA ReroutedPath ==
  ASSUME NEW c, Typed(c), NEW x, Good(x), NEW T, T = [c EXCEPT !.s = x]
  PROVE  /\ Typed(T) /\ T.s = x /\ T.k = c.k /\ T.t = c.t /\ T.n = c.n
         /\ Ready(c) /\ SameKeyboard(c.s, x) /\ SameIds(c.s, x) => Carried(c, T)
<1>1. T = [s |-> x, k |-> c.k, t |-> c.t, n |-> c.n]
  BY PathFields
<1>2. /\ c.k \in KeyboardState /\ c.t \in [Rec -> SUBSET AllKeys] /\ c.n \in SUBSET Rec
  BY DEF Typed
<1>3. Typed(T)
  BY <1>1, <1>2 DEF Typed
<1>4. T.s = x /\ T.k = c.k /\ T.t = c.t /\ T.n = c.n
  BY <1>1
<1>5. SameKeyboard(c.s, x) /\ SameIds(c.s, x) => Dims(c, T)
  BY <1>4, SameLampIds DEF Dims, OnlyLamps, Clean, LitIn, OffIn, SameKeyboard
<1> QED
  BY <1>3, <1>4, <1>5 DEF Carried, Ready, SameKeyboard, SameBindings, HeldAmong

LEMMA PrevKeepsKeyboard ==
  ASSUME NEW s, Good(s), NEW d \in Ptr
  PROVE  SameKeyboard(s, save_prev_keyb_domain(s, d))
<1> DEFINE p(k, id) == SetPrev(s, d, k, id)
<1>1. \A k, id : SameKeyboard(s, p(k, id))
  BY StateFields DEF Good, SetPrev, SameKeyboard, State
<1> HIDE DEF p
<1>2. \/ save_prev_keyb_domain(s, d) = s
      \/ \E k, id : save_prev_keyb_domain(s, d) = p(k, id)
  BY Zenon DEF save_prev_keyb_domain, p
<1> QED
  BY <1>1, <1>2 DEF SameKeyboard

LEMMA MouseKeepsKeyboard ==
  ASSUME NEW s, Good(s), NEW d \in Rec
  PROVE  SameKeyboard(s, input_set_mouse(s, d))
  BY DEF Good, State, input_set_mouse, set_mouse_domain, SameKeyboard

LEMMA SetsCarry ==
  ASSUME NEW c, Ready(c), NEW d \in Rec
  PROVE  /\ Carried(c, SetKeyb(c, d))
         /\ Carried(c, SetAll(c, d)) /\ SetAll(c, d).s = input_set(c.s, d)
         /\ Carried(c, SyncKeyb(c, d))
<1>1. Good(c.s)
  BY DEF Ready, Typed
<1>2. /\ Good(input_set_keyb(c.s, d)) /\ SameIds(c.s, input_set_keyb(c.s, d))
      /\ Good(input_set(c.s, d)) /\ SameIds(c.s, input_set(c.s, d))
  BY <1>1, InputSetMoves, MovesGood, MovesIds
<1>3. Carried(c, SetKeyb(c, d))
  <2>1. PICK s : s = input_set_keyb(c.s, d)
    OBVIOUS
  <2>2. PICK T : T = SetKeyb(c, d)
    OBVIOUS
  <2>3. T = Routed(c, s, FALSE)
    BY <2>1, <2>2 DEF SetKeyb
  <2> QED
    BY <1>2, <2>1, <2>2, <2>3, RoutedCarries
<1>4. Carried(c, SetAll(c, d)) /\ SetAll(c, d).s = input_set(c.s, d)
  <2>1. PICK s : s = input_set(c.s, d)
    OBVIOUS
  <2>2. PICK T : T = SetAll(c, d)
    OBVIOUS
  <2>3. T = Routed(c, s, TRUE)
    BY <2>1, <2>2 DEF SetAll
  <2> QED
    BY <1>2, <2>1, <2>2, <2>3, RoutedCarries
<1>5. Carried(c, SyncKeyb(c, d))
  BY <1>3, CarriedItself DEF SyncKeyb
<1> QED
  BY <1>3, <1>4, <1>5

LEMMA SeamlessCarry ==
  ASSUME NEW c, Ready(c), NEW d \in Rec
  PROVE  Carried(c, Give(c, d)) /\ Carried(c, Return(c, d))
<1>1. Good(c.s)
  BY DEF Ready, Typed
<1>2. PICK s : s = input_give_keyboard(c.s, d)
  OBVIOUS
<1>3. PICK r : r = input_return_keyboard(c.s, d)
  OBVIOUS
<1>4. Good(s) /\ SameIds(c.s, s) /\ Good(r) /\ SameIds(c.s, r)
  BY <1>1, <1>2, <1>3, GiveMoves, MovesGood, MovesIds
<1>5. Carried(c, Seamlessly(c, s)) /\ Carried(c, Seamlessly(c, r))
  BY <1>4, SeamlesslyCarries
<1> QED
  BY <1>2, <1>3, <1>5, CarriedItself DEF Give, Return

\* switcher_switch moves the focus, then the keyboard, in one of these ways.
Switched(t, d, T) ==
    \/ T = SetAll(t, d)
    \/ T = [t EXCEPT !.s = input_set_mouse(t.s, d)]
    \/ \E q \in Rec : T = Give(SetAll(t, d), q)

LEMMA SwitchSteps ==
  ASSUME NEW c, Ready(c), NEW d \in Rec,
         NEW T, T = Switch(c, d, FALSE) \/ T = Switch(c, d, TRUE)
  PROVE  \E x : /\ Moves(c.s, x) /\ SameKeyboard(c.s, x)
                /\ Switched([c EXCEPT !.s = x], d, T)
<1>1. d # NULL
  BY Pointers
<1>2. Typed(c) /\ Good(c.s) /\ c.s.current \in Ptr
  BY StateFields DEF Ready, Typed, Good
<1>3. PICK saved : saved = IF c.s.keyb_waits_for_click THEN c.s
                           ELSE save_prev_keyb_domain(c.s, c.s.current)
  OBVIOUS
<1>4. Moves(c.s, saved) /\ Good(saved) /\ SameKeyboard(c.s, saved)
  <2>1. Moves(c.s, save_prev_keyb_domain(c.s, c.s.current))
    BY <1>2, SaveRestoreMoves
  <2>2. Moves(c.s, saved)
    BY <1>2, <1>3, <2>1, MovesReflexive
  <2> QED
    BY <1>2, <1>3, <2>2, MovesGood, PrevKeepsKeyboard DEF SameKeyboard
<1>5. PICK shown : shown = [saved EXCEPT !.surface_current = d]
  OBVIOUS
<1>6. switcher_switch_graphic(saved, d, {d}) = shown
  BY <1>1, <1>5, Zenon DEF switcher_switch_graphic
<1>7. PICK x : x = [shown EXCEPT !.current = d]
  OBVIOUS
<1>8. Moves(c.s, x) /\ Good(x)
  <2>1. d \in Ptr
    BY Pointers
  <2>2. Moves(saved, shown) /\ Good(shown)
    BY <1>4, <1>5, <2>1, FocusFieldMoves, MovesGood
  <2>3. Moves(shown, x)
    BY <1>7, <2>1, <2>2, FocusFieldMoves
  <2> QED
    BY <1>4, <2>2, <2>3, MovesTransitive, MovesGood
<1>9. SameKeyboard(c.s, x)
  BY <1>4, <1>5, <1>7 DEF Good, State, SameKeyboard
<1>10. PICK t : t = [c EXCEPT !.s = x]
  OBVIOUS
<1>11. Ready(t)
  BY <1>2, <1>8, <1>9, <1>10, MovesIds, ReroutedPath, CarriedReady
<1>12. PICK set : set = SetAll(t, d)
  OBVIOUS
<1>13. Good(set.s)
  BY <1>11, <1>12, SetsCarry, CarriedReady DEF Ready, Typed
<1>14. PICK q : q = set.s.domains[d].prev_ptr
  OBVIOUS
<1>15. PrevUsable(set.s, d) => q \in Rec
  BY <1>13, <1>14, DomainFields DEF Good, PrevUsable, Ptr
<1>16. \/ T = set
       \/ T = [t EXCEPT !.s = input_set_mouse(t.s, d)]
       \/ PrevUsable(set.s, d) /\ T = Give(set, q)
  BY <1>1, <1>3, <1>6, <1>7, <1>10, <1>12, <1>14, Zenon DEF Switch
<1>17. Switched(t, d, T)
  BY <1>12, <1>15, <1>16, Zenon DEF Switched
<1> QED
  BY <1>8, <1>9, <1>10, <1>17

LEMMA SwitchCarries ==
  ASSUME NEW c, Ready(c), NEW d \in Ptr
  PROVE  /\ Carried(c, Switch(c, d, FALSE))
         /\ Carried(c, Switch(c, d, TRUE))
<1>1. CASE d = NULL
  <2>1. Switch(c, d, FALSE) = c /\ Switch(c, d, TRUE) = c
    BY <1>1, Zenon DEF Switch
  <2> QED
    BY <2>1, CarriedItself
<1>2. CASE d # NULL
  <2> SUFFICES ASSUME NEW T, T = Switch(c, d, FALSE) \/ T = Switch(c, d, TRUE)
               PROVE  Carried(c, T)
    OBVIOUS
  <2>1. PICK e \in Rec : e = d
    BY <1>2 DEF Ptr
  <2>2. PICK x : /\ Moves(c.s, x) /\ SameKeyboard(c.s, x)
                 /\ Switched([c EXCEPT !.s = x], e, T)
    BY <2>1, SwitchSteps
  <2>3. PICK t : t = [c EXCEPT !.s = x]
    OBVIOUS
  <2>4. Typed(t) /\ t.s = x /\ Good(x) /\ Carried(c, t) /\ Ready(t)
    BY <2>2, <2>3, MovesGood, MovesIds, ReroutedPath, CarriedReady DEF Ready
  <2>5. PICK set : set = SetAll(t, e)
    OBVIOUS
  <2>6. Carried(c, set) /\ Ready(set)
    BY <2>4, <2>5, SetsCarry, CarriedReady, CarriedOn
  <2>7. PICK m : m = input_set_mouse(t.s, e)
    OBVIOUS
  <2>8. PICK u : u = [t EXCEPT !.s = m]
    OBVIOUS
  <2>9. Carried(c, u)
    <3>1. Good(m) /\ SameKeyboard(t.s, m) /\ SameIds(t.s, m)
      BY <2>4, <2>7, InputSetMoves, MovesGood, MovesIds, MouseKeepsKeyboard
    <3>2. Carried(t, u)
      BY <2>4, <2>8, <3>1, ReroutedPath
    <3> QED
      BY <2>4, <3>2, CarriedOn
  <2>10. \A q \in Rec : Carried(c, Give(set, q))
    BY <2>6, SeamlessCarry, CarriedOn
  <2>11. T = set \/ T = u \/ \E q \in Rec : T = Give(set, q)
    BY <2>2, <2>3, <2>5, <2>7, <2>8, Zenon DEF Switched
  <2> QED
    BY <2>6, <2>9, <2>10, <2>11
<1> QED
  BY <1>1, <1>2

-----------------------------------------------------------------------------
(* The bindings.                                                           *)

\* A set of numbers that is not empty has a least one.
LEMMA Least ==
  ASSUME NEW S \in SUBSET Nat, S # {}
  PROVE  \E n \in S : \A k \in S : n <= k
<1>1. \E n \in S : \A k \in S : ~ (<<k, n>> \in Lt)
  BY LtWellFounded, WFMin
<1>2. \A a, b \in Nat : a < b => <<a, b>> \in Lt
  BY LtHolds, Zenon
<1>3. PICK n \in S : \A k \in S : ~ (<<k, n>> \in Lt)
  BY <1>1
<1>4. ASSUME NEW k \in S PROVE n <= k
  <2>1. ~ (k < n)
    BY <1>2, <1>3
  <2> QED
    BY <2>1
<1> QED
  BY <1>4

\* And one that is bounded has a greatest.
LEMMA Greatest ==
  ASSUME NEW m \in Nat, NEW S \in SUBSET (1..m), S # {}
  PROVE  \E n \in S : \A k \in S : k <= n
<1> DEFINE R == {m - k : k \in S}
<1>1. R \in SUBSET Nat /\ R # {}
  <2>1. \A k \in S : k \in 1..m /\ m - k \in Nat
    OBVIOUS
  <2> QED
    BY <2>1
<1>2. PICK n \in S : \A x \in R : m - n <= x
  <2>1. \E q \in R : \A x \in R : q <= x
    <3> HIDE DEF R
    <3> QED
      BY <1>1, Least
  <2> QED
    BY <2>1
<1>3. \A k \in S : m - n <= m - k
  BY <1>2
<1> QED
  BY <1>3

LEMMA BindingTypes ==
  /\ Len(Bindings) \in Nat /\ DOMAIN Bindings = 1..Len(Bindings)
  /\ \A b \in DOMAIN Bindings :
        /\ Bindings[b].keys \in Seq(STRING) /\ Len(Bindings[b].keys) \in Nat
        /\ Len(Bindings[b].keys) > 0
        /\ DOMAIN Bindings[b].keys = 1..Len(Bindings[b].keys)
<1> DEFINE B == [keys : Seq(STRING) \ {<<>>}, slot : FocusSlots]
<1>1. Bindings \in Seq(B)
  BY KeyboardAssumption
<1>2. Len(Bindings) \in Nat /\ DOMAIN Bindings = 1..Len(Bindings)
  <2> HIDE DEF B
  <2> QED
    BY <1>1, LenProperties
<1>3. ASSUME NEW b \in DOMAIN Bindings
      PROVE  /\ Bindings[b].keys \in Seq(STRING) /\ Len(Bindings[b].keys) \in Nat
             /\ Len(Bindings[b].keys) > 0
             /\ DOMAIN Bindings[b].keys = 1..Len(Bindings[b].keys)
  <2>1. Bindings[b] \in B
    <3> HIDE DEF B
    <3> QED
      BY <1>1, <1>2, <1>3, ElementOfSeq
  <2>2. PICK q : q = Bindings[b].keys
    OBVIOUS
  <2>3. q \in Seq(STRING) /\ q # <<>>
    BY <2>1, <2>2
  <2>4. Len(q) \in Nat /\ DOMAIN q = 1..Len(q)
    BY <2>3, LenProperties
  <2>5. Len(q) # 0
    BY <2>3, EmptySeq
  <2> QED
    BY <2>2, <2>3, <2>4, <2>5
<1> QED
  BY <1>2, <1>3

\* What is held of a binding that has come n keys far.
Reached(b, n, H) ==
    /\ n \in Nat /\ n < Len(Bindings[b].keys)
    /\ \A i \in 1..n : Bindings[b].keys[i] \in H

LEMMA MatchedReached ==
  ASSUME NEW c, c.k \in KeyboardState, NEW H
  PROVE  MatchedIn(c, H) <=>
            \A b \in DOMAIN Bindings :
               /\ Reached(b, c.k.matched[b], H)
               /\ b \in c.k.down => ToSet(Bindings[b].keys) \subseteq H
  BY KbFields DEF MatchedIn, Reached

LEMMA NothingReached ==
  ASSUME NEW b \in DOMAIN Bindings, NEW H
  PROVE  Reached(b, 0, H)
  BY BindingTypes DEF Reached

\* A press takes a binding one key further, to its end, or back to its start.
LEMMA AdvancedOne ==
  ASSUME NEW k \in KeyboardState, NEW code, NEW H, code \in H,
         NEW b \in DOMAIN Bindings, Reached(b, k.matched[b], H)
  PROVE  /\ Advanced(k, code)[b] = -1 => ToSet(Bindings[b].keys) \subseteq H
         /\ Advanced(k, code)[b] # -1 => Reached(b, Advanced(k, code)[b], H)
<1>1. PICK n : n = k.matched[b] + 1
  OBVIOUS
<1>2. PICK q : q = Bindings[b].keys
  OBVIOUS
<1>3. Len(q) \in Nat /\ Len(q) > 0 /\ DOMAIN q = 1..Len(q)
  BY <1>2, BindingTypes
<1>4. /\ k.matched[b] \in Nat /\ k.matched[b] < Len(q)
      /\ \A i \in 1..k.matched[b] : q[i] \in H
  BY <1>2 DEF Reached
<1>5. n \in Nat /\ n <= Len(q)
  BY <1>1, <1>3, <1>4
<1>6. PICK a : a = Advanced(k, code)[b]
  OBVIOUS
<1>7. a = IF q[n] # code THEN 0 ELSE IF n = Len(q) THEN -1 ELSE n
  BY <1>1, <1>2, <1>6 DEF Advanced
<1>8. CASE q[n] # code
  BY <1>6, <1>7, <1>8, NothingReached
<1>9. CASE q[n] = code
  <2>1. \A i \in 1..n : q[i] \in H
    BY <1>1, <1>4, <1>5, <1>9
  <2>2. CASE n = Len(q)
    <3>1. a = -1
      BY <1>7, <1>9, <2>2
    <3>2. ToSet(q) \subseteq H
      BY <1>3, <2>1, <2>2 DEF ToSet
    <3> QED
      BY <1>2, <1>6, <3>1, <3>2
  <2>3. CASE n # Len(q)
    <3>1. PICK l \in Nat : l = Len(q)
      BY <1>3
    <3>2. a = n
      BY <1>7, <1>9, <2>3
    <3>3. n < l /\ n # -1
      BY <1>5, <2>3, <3>1
    <3> QED
      BY <1>2, <1>5, <1>6, <2>1, <3>1, <3>2, <3>3 DEF Reached
  <2> QED
    BY <2>2, <2>3
<1> QED
  BY <1>8, <1>9

\* Only what the bindings keep has changed.
Rebound(c, T) ==
    /\ Typed(T) /\ T.s = c.s /\ T.t = c.t /\ T.n = c.n
    /\ T.k.key_status = c.k.key_status /\ T.k.keyb_modbits = c.k.keyb_modbits
    /\ T.k.filter = c.k.filter /\ T.k.lights = c.k.lights /\ T.k.secure = c.k.secure

WithBindings(c, m, w, f) ==
    [c EXCEPT !.k = [c.k EXCEPT !.matched = m, !.down = w, !.force_ticks = f]]

LEMMA SetBindings ==
  ASSUME NEW c, Typed(c), NEW m \in [DOMAIN Bindings -> Nat],
         NEW w \in SUBSET DOMAIN Bindings,
         NEW f \in [DOMAIN Bindings -> 0..FORCE_TICKS],
         NEW T, T = WithBindings(c, m, w, f)
  PROVE  /\ Rebound(c, T)
         /\ T.k.matched = m /\ T.k.down = w /\ T.k.force_ticks = f
<1>1. /\ c = [s |-> c.s, k |-> c.k, t |-> c.t, n |-> c.n]
      /\ Good(c.s) /\ c.k \in KeyboardState /\ c.t \in [Rec -> SUBSET AllKeys]
      /\ c.n \in SUBSET Rec
  BY DEF Typed
<1> DEFINE kk == [c.k EXCEPT !.matched = m, !.down = w, !.force_ticks = f]
<1>2. T = [s |-> c.s, k |-> kk, t |-> c.t, n |-> c.n]
  BY <1>1 DEF WithBindings
<1>3. /\ kk \in KeyboardState
      /\ kk.matched = m /\ kk.down = w /\ kk.force_ticks = f
      /\ kk.key_status = c.k.key_status /\ kk.keyb_modbits = c.k.keyb_modbits
      /\ kk.filter = c.k.filter /\ kk.lights = c.k.lights /\ kk.secure = c.k.secure
  BY <1>1 DEF KeyboardState
<1> HIDE DEF kk
<1>4. Typed(T)
  BY <1>1, <1>2, <1>3 DEF Typed
<1> QED
  BY <1>2, <1>3, <1>4 DEF Rebound

\* A field that is left alone is set to what it is.
LEMMA SomeBindings ==
  ASSUME NEW c, Typed(c), NEW x, NEW y
  PROVE  /\ [c EXCEPT !.k.matched = x] =
               WithBindings(c, x, c.k.down, c.k.force_ticks)
         /\ [c EXCEPT !.k.down = x] =
               WithBindings(c, c.k.matched, x, c.k.force_ticks)
         /\ [c EXCEPT !.k.force_ticks = x] =
               WithBindings(c, c.k.matched, c.k.down, x)
         /\ [c EXCEPT !.k.force_ticks = x, !.k.down = y] =
               WithBindings(c, c.k.matched, y, x)
         /\ [c EXCEPT !.k.matched = x, !.k.down = y] =
               WithBindings(c, x, y, c.k.force_ticks)
         /\ [c EXCEPT !.k = [c.k EXCEPT !.down = y, !.matched = x]] =
               WithBindings(c, x, y, c.k.force_ticks)
<1>1. /\ c = [s |-> c.s, k |-> c.k, t |-> c.t, n |-> c.n] /\ c.k \in KeyboardState
  BY DEF Typed
<1> QED
  BY <1>1 DEF WithBindings, KeyboardState

LEMMA ReboundReady ==
  ASSUME NEW c, NEW T, Rebound(c, T)
  PROVE  /\ Ready(c) => Ready(T)
         /\ \A H : ModbitsIn(c, H) => ModbitsIn(T, H)
         /\ \A S : HeldAmong(c, S) => HeldAmong(T, S)
         /\ OnlyLamps(c) => OnlyLamps(T)
         /\ Dims(c, T)
  BY DEF Rebound, Ready, HeldAmong, ModbitsIn, OnlyLamps, Dims, SameIds, Clean, LitIn,
         OffIn

LEMMA CarriedBits ==
  ASSUME NEW c, NEW T, Carried(c, T), NEW H, ModbitsIn(c, H)
  PROVE  ModbitsIn(T, H)
  BY DEF Carried, ModbitsIn, SameBindings

LEMMA SameMatches ==
  ASSUME NEW c, NEW T, SameBindings(c.k, T.k), NEW H, MatchedIn(c, H)
  PROVE  MatchedIn(T, H)
  BY DEF SameBindings, MatchedIn

LEMMA CarriedOK ==
  ASSUME NEW c, NEW T, NEW H, PathOK(c, H), Carried(c, T)
  PROVE  PathOK(T, H)
<1>1. ModbitsIn(T, H)
  BY CarriedBits DEF PathOK
<1>2. MatchedIn(T, H)
  BY SameMatches DEF PathOK, Carried
<1>3. OnlyLamps(T)
  BY DEF PathOK, Carried, Dims
<1> QED
  BY <1>1, <1>2, <1>3 DEF PathOK, Carried

\* More keys that are held change nothing.
LEMMA MoreHeld ==
  ASSUME NEW c, NEW H, NEW G, H \subseteq G
  PROVE  /\ MatchedIn(c, H) => MatchedIn(c, G)
         /\ ModbitsIn(c, H) => ModbitsIn(c, G)
  BY DEF MatchedIn, ModbitsIn

\* A key-up: back of the line for every binding.
LEMMA ExecReleases ==
  ASSUME NEW c, Typed(c), NEW e, e.value = 0, NEW E, E = input_exec_bindings(c, e)
  PROVE  /\ E.done = FALSE /\ Rebound(c, E.c)
         /\ \A H : MatchedIn(E.c, H)
<1>1. c.k \in KeyboardState
  BY DEF Typed
<1> DEFINE m == [b \in DOMAIN Bindings |-> 0]
<1>2. PICK T : T = [c EXCEPT !.k = Released(c.k)]
  OBVIOUS
<1>3. E = [c |-> T, done |-> FALSE]
  BY <1>2 DEF input_exec_bindings
<1>5. PICK f : f = c.k.force_ticks
  OBVIOUS
<1>6. f \in [DOMAIN Bindings -> 0..FORCE_TICKS]
  BY <1>1, <1>5, KbFields
<1>4. T = WithBindings(c, m, {}, f)
  BY <1>1, <1>2, <1>5, SomeBindings DEF Released
<1>9. PICK w \in SUBSET DOMAIN Bindings : w = {}
  OBVIOUS
<1>10. PICK z \in [DOMAIN Bindings -> Nat] : z = m
  OBVIOUS
<1>7. Rebound(c, T) /\ T.k.matched = m /\ T.k.down = {}
  BY <1>4, <1>6, <1>9, <1>10, SetBindings
<1>8. \A H : MatchedIn(T, H)
  BY <1>7, BindingTypes DEF MatchedIn
<1> QED
  BY <1>3, <1>7, <1>8

LEMMA ExecPresses ==
  ASSUME NEW c, NEW H, PathOK(c, H), NEW K, NEW e \in Events(K), e.value # 0, e.code \in H,
         NEW E, E = input_exec_bindings(c, e)
  PROVE  /\ PathOK(E.c, H) /\ E.done \in BOOLEAN
         /\ ~E.done => Rebound(c, E.c)
         /\ Dims(c, E.c)
<1>1. /\ Typed(c) /\ Ready(c) /\ c.k \in KeyboardState /\ c.s \in State
      /\ ModbitsIn(c, H) /\ MatchedIn(c, H) /\ OnlyLamps(c)
  BY DEF PathOK, Ready, Typed, Good
<1>2. e.value = 1 \/ e.value = 2
  BY DEF Events
<1>3. PICK next : next = Advanced(c.k, e.code)
  OBVIOUS
<1> DEFINE fired == {b \in DOMAIN Bindings : next[b] = -1}
           last  == CHOOSE b \in fired : \A x \in fired : x <= b
           mm    == [b \in DOMAIN Bindings |-> IF next[b] = -1 THEN 0 ELSE next[b]]
           t     == [c EXCEPT !.k.matched = mm]
<1>4. /\ \A b \in DOMAIN Bindings : Reached(b, mm[b], H)
      /\ \A b \in fired : ToSet(Bindings[b].keys) \subseteq H
  <2> SUFFICES ASSUME NEW b \in DOMAIN Bindings
               PROVE  /\ Reached(b, mm[b], H)
                      /\ next[b] = -1 => ToSet(Bindings[b].keys) \subseteq H
    OBVIOUS
  <2>1. Reached(b, c.k.matched[b], H)
    BY <1>1, MatchedReached
  <2>2. /\ next[b] = -1 => ToSet(Bindings[b].keys) \subseteq H
        /\ next[b] # -1 => Reached(b, next[b], H)
    <3>1. PICK code : code = e.code
      OBVIOUS
    <3> QED
      BY <1>1, <1>3, <2>1, <3>1, AdvancedOne
  <2> QED
    BY <2>2, NothingReached
<1>5. mm \in [DOMAIN Bindings -> Nat]
  BY <1>4 DEF Reached
<1>6. CASE e.value = 2
  <2>1. E = [c |-> c, done |-> FALSE]
    BY <1>6 DEF input_exec_bindings
  <2> QED
    BY <1>1, <2>1, DimsItself DEF Rebound
<1>7. CASE e.value = 1 /\ fired = {}
  <2>1. E = [c |-> t, done |-> FALSE]
    BY <1>3, <1>7 DEF input_exec_bindings
  <2>2. PICK m \in [DOMAIN Bindings -> Nat] : m = mm
    BY <1>5
  <2> HIDE DEF mm
  <2>3. PICK w \in SUBSET DOMAIN Bindings : w = c.k.down
    BY <1>1, KbFields
  <2>4. PICK f \in [DOMAIN Bindings -> 0..FORCE_TICKS] : f = c.k.force_ticks
    BY <1>1, KbFields
  <2>5. t = WithBindings(c, m, w, f)
    BY <1>1, <2>2, <2>3, <2>4, SomeBindings
  <2> HIDE DEF t
  <2>6. Rebound(c, t) /\ t.k.matched = m /\ t.k.down = w
    BY <1>1, <2>5, SetBindings
  <2>7. MatchedIn(t, H)
    <3>1. \A b \in DOMAIN Bindings :
             b \in c.k.down => ToSet(Bindings[b].keys) \subseteq H
      BY <1>1, MatchedReached
    <3>2. t.k \in KeyboardState
      BY <2>6 DEF Rebound, Typed
    <3> QED
      BY <1>4, <2>2, <2>3, <2>6, <3>1, <3>2, MatchedReached
  <2>8. PathOK(t, H)
    BY <1>1, <2>6, <2>7, ReboundReady DEF PathOK, Ready
  <2> QED
    BY <2>1, <2>6, <2>8, ReboundReady
<1>8. CASE e.value = 1 /\ fired # {}
  <2>1. PICK d : d = domain_with_slot(c.s, Bindings[last].slot)
    OBVIOUS
  <2>2. PICK u : u = WithBindings(c, mm, c.k.down \cup {last}, c.k.force_ticks)
    OBVIOUS
  <2>3. E = [c |-> Switch(u, d, FALSE), done |-> TRUE]
    <3>1. u = [t EXCEPT !.k.down = @ \cup {last}]
      <4>1. PICK l : l = last
        OBVIOUS
      <4>2. PICK m : m = mm
        OBVIOUS
      <4>3. /\ c = [s |-> c.s, k |-> c.k, t |-> c.t, n |-> c.n]
        BY <1>1 DEF Typed
      <4> HIDE DEF last, mm
      <4>4. u = [[c EXCEPT !.k.matched = m] EXCEPT !.k.down = c.k.down \cup {l}]
        BY <1>1, <2>2, <4>1, <4>2, <4>3 DEF WithBindings, KeyboardState
      <4>5. [c EXCEPT !.k.matched = m].k.down = c.k.down
        BY <1>1, <4>3 DEF KeyboardState
      <4> QED
        BY <4>1, <4>2, <4>4, <4>5
    <3>2. E = [c |-> Switch([t EXCEPT !.k.down = @ \cup {last}],
                            domain_with_slot(c.s, Bindings[last].slot), FALSE),
               done |-> TRUE]
      <4>1. e.value # 0 /\ e.value # 2
        BY <1>8
      <4> QED
        BY <1>3, <1>8, <4>1 DEF input_exec_bindings
    <3> QED
      BY <2>1, <3>1, <3>2, Zenon
  <2>4. last \in fired
    <3>1. fired \in SUBSET (1..Len(Bindings)) /\ Len(Bindings) \in Nat
      BY BindingTypes
    <3> HIDE DEF fired
    <3>2. \E b \in fired : \A x \in fired : x <= b
      BY <1>8, <3>1, Greatest
    <3> QED
      BY <3>2
  <2>5. PICK m \in [DOMAIN Bindings -> Nat] : m = mm
    BY <1>5
  <2> HIDE DEF mm
  <2>6. PICK w \in SUBSET DOMAIN Bindings : w = c.k.down \cup {last}
    BY <1>1, <2>4, KbFields
  <2>7. PICK f \in [DOMAIN Bindings -> 0..FORCE_TICKS] : f = c.k.force_ticks
    BY <1>1, KbFields
  <2>8. u = WithBindings(c, m, w, f)
    BY <2>2, <2>5, <2>6, <2>7
  <2>9. Rebound(c, u) /\ u.k.matched = m /\ u.k.down = w
    BY <1>1, <2>8, SetBindings
  <2>10. MatchedIn(u, H)
    <3>1. \A b \in DOMAIN Bindings :
             b \in c.k.down => ToSet(Bindings[b].keys) \subseteq H
      BY <1>1, MatchedReached
    <3>2. u.k \in KeyboardState
      BY <2>9 DEF Rebound, Typed
    <3>3. ToSet(Bindings[last].keys) \subseteq H
      BY <1>4, <2>4
    <3> HIDE DEF last
    <3> QED
      BY <1>4, <2>5, <2>6, <2>9, <3>1, <3>2, <3>3, MatchedReached
  <2>11. PathOK(u, H)
    BY <1>1, <2>9, <2>10, ReboundReady DEF PathOK, Ready
  <2>12. d \in Ptr
    <3>1. PICK n : n = Bindings[last].slot
      OBVIOUS
    <3>2. d = domain_with_slot(c.s, n)
      BY <2>1, <3>1
    <3>3. domain_with_slot(c.s, n) \in Ptr
      BY <1>1, Lookups, Pointers
    <3> QED
      BY <3>2, <3>3
  <2>13. PICK T : T = Switch(u, d, FALSE)
    OBVIOUS
  <2>14. Carried(u, T)
    <3>1. Ready(u)
      BY <2>11 DEF PathOK, Ready
    <3> QED
      BY <2>12, <2>13, <3>1, SwitchCarries
  <2>15. PathOK(T, H)
    BY <2>11, <2>14, CarriedOK
  <2>16. E.c = T /\ E.done = TRUE
    BY <2>3, <2>13
  <2>17. Dims(c, T)
    BY <2>9, <2>14, ReboundReady, DimsOn DEF Carried
  <2> QED
    BY <2>15, <2>16, <2>17
<1> QED
  BY <1>2, <1>6, <1>7, <1>8

\* A binding counts on, or lets go.
LEMMA LetGo ==
  ASSUME NEW c, NEW H, PathOK(c, H), NEW b \in DOMAIN Bindings,
         NEW x \in 0..FORCE_TICKS, NEW w \in SUBSET c.k.down,
         NEW T, T = WithBindings(c, c.k.matched, w, [c.k.force_ticks EXCEPT ![b] = x])
  PROVE  PathOK(T, H) /\ Dims(c, T)
<1>1. /\ Typed(c) /\ Ready(c) /\ c.k \in KeyboardState
      /\ ModbitsIn(c, H) /\ MatchedIn(c, H) /\ OnlyLamps(c)
  BY DEF PathOK, Ready, Typed, Good
<1>2. PICK m \in [DOMAIN Bindings -> Nat] : m = c.k.matched
  BY <1>1, KbFields
<1>3. PICK v \in SUBSET DOMAIN Bindings : v = w
  BY <1>1, KbFields
<1>4. PICK f \in [DOMAIN Bindings -> 0..FORCE_TICKS] : f = [c.k.force_ticks EXCEPT ![b] = x]
  <2>1. c.k.force_ticks \in [DOMAIN Bindings -> 0..FORCE_TICKS]
    BY <1>1, KbFields
  <2> QED
    BY <2>1
<1>5. T = WithBindings(c, m, v, f)
  BY <1>2, <1>3, <1>4
<1>6. Rebound(c, T) /\ T.k.matched = m /\ T.k.down = v
  BY <1>1, <1>5, SetBindings
<1>7. MatchedIn(T, H)
  BY <1>1, <1>2, <1>3, <1>6 DEF MatchedIn
<1> QED
  BY <1>1, <1>6, <1>7, ReboundReady DEF PathOK, Ready

LEMMA ForcedKeeps ==
  ASSUME NEW c, NEW H, PathOK(c, H), NEW b \in DOMAIN Bindings,
         NEW T, T = Forced(c, b)
  PROVE  PathOK(T, H) /\ Dims(c, T)
<1>1. Typed(c) /\ Ready(c) /\ c.k \in KeyboardState /\ c.s \in State
  BY DEF PathOK, Ready, Typed, Good
<1> DEFINE ticks  == c.k.force_ticks[b] + 1
           Off(t, w, x) == WithBindings(t, t.k.matched, w, [t.k.force_ticks EXCEPT ![b] = x])
<1>2. \A t : Typed(t) =>
         /\ \A x : [t EXCEPT !.k.force_ticks[b] = x] = Off(t, t.k.down, x)
         /\ [t EXCEPT !.k.force_ticks[b] = 0, !.k.down = t.k.down \ {b}]
               = Off(t, t.k.down \ {b}, 0)
  <2> SUFFICES ASSUME NEW t, Typed(t), NEW x
               PROVE  /\ [t EXCEPT !.k.force_ticks[b] = x] = Off(t, t.k.down, x)
                      /\ [t EXCEPT !.k.force_ticks[b] = 0, !.k.down = t.k.down \ {b}]
                            = Off(t, t.k.down \ {b}, 0)
    OBVIOUS
  <2>1. t = [s |-> t.s, k |-> t.k, t |-> t.t, n |-> t.n] /\ t.k \in KeyboardState
    BY DEF Typed
  <2> QED
    BY <2>1 DEF WithBindings, KeyboardState
<1>3. FORCE_TICKS \in Nat /\ c.k.force_ticks[b] \in 0..FORCE_TICKS
  BY <1>1, KbFields, KeyboardAssumption
<1>4. PICK d : d = domain_with_slot(c.s, Bindings[b].slot)
  OBVIOUS
<1>5. PICK u : u = Switch(c, d, FALSE)
  OBVIOUS
<1>6. PathOK(u, H) /\ Typed(u) /\ Dims(c, u)
  <2>1. d \in Ptr
    BY <1>1, <1>4, Lookups, Pointers
  <2>2. Carried(c, u)
    BY <1>1, <1>5, <2>1, SwitchCarries
  <2> QED
    BY <2>2, CarriedOK DEF PathOK, Carried
<1>7. \/ T = Off(c, c.k.down, 0)
      \/ ticks <= FORCE_TICKS /\ T = Off(c, c.k.down, ticks)
      \/ T = Off(c, c.k.down \ {b}, 0)
      \/ T = Off(u, u.k.down \ {b}, 0)
  <2> HIDE DEF Off
  <2>1. \/ T = [c EXCEPT !.k.force_ticks[b] = 0]
        \/ ticks <= FORCE_TICKS /\ T = [c EXCEPT !.k.force_ticks[b] = ticks]
        \/ T = [c EXCEPT !.k.force_ticks[b] = 0, !.k.down = c.k.down \ {b}]
        \/ T = [u EXCEPT !.k.force_ticks[b] = 0, !.k.down = u.k.down \ {b}]
    BY <1>1, <1>4, <1>5, <1>6 DEF Forced, Typed, KeyboardState
  <2> QED
    BY <1>1, <1>2, <1>6, <2>1
<1>8. 0 \in 0..FORCE_TICKS /\ (ticks <= FORCE_TICKS => ticks \in 0..FORCE_TICKS)
  BY <1>3
<1>9. \A t : PathOK(t, H) =>
         \A x \in 0..FORCE_TICKS, w \in SUBSET t.k.down :
            PathOK(Off(t, w, x), H) /\ Dims(t, Off(t, w, x))
  BY LetGo
<1> HIDE DEF Off
<1>10. \E t, w, x : /\ PathOK(t, H) /\ Dims(c, t)
                    /\ x \in 0..FORCE_TICKS /\ w \in SUBSET t.k.down
                    /\ T = Off(t, w, x)
  BY <1>6, <1>7, <1>8, DimsItself
<1> QED
  BY <1>9, <1>10, DimsOn

\* f holds what is left after each of the first m bindings.
Turns(c, m, f) == f = [b \in 0..m |-> IF b = 0 THEN c ELSE Forced(f[b - 1], b)]

LEMMA TurnsExist ==
  ASSUME NEW c
  PROVE  \A m \in Nat : \E f : Turns(c, m, f)
<1> DEFINE Bad == {m \in Nat : ~ \E f : Turns(c, m, f)}
           Step(b, r) == IF b = 0 THEN c ELSE Forced(r, b)
<1> SUFFICES ASSUME Bad # {}
             PROVE  FALSE
  OBVIOUS
<1>1. PICK m \in Bad : \A i \in Bad : m <= i
  <2>1. Bad \in SUBSET Nat
    OBVIOUS
  <2> HIDE DEF Bad
  <2> QED
    BY <2>1, Least
<1>2. m \in Nat /\ ~ \E f : Turns(c, m, f)
  OBVIOUS
<1>3. CASE m = 0
  <2> DEFINE f == [b \in 0..0 |-> c]
  <2>1. f = [b \in 0..0 |-> Step(b, f[b - 1])]
    OBVIOUS
  <2>2. Turns(c, m, f)
    BY <1>3, <2>1 DEF Turns
  <2> QED
    BY <1>2, <2>2
<1>4. CASE m # 0
  <2>1. m - 1 \in Nat /\ m - 1 \notin Bad
    BY <1>1, <1>2, <1>4
  <2>2. PICK g : Turns(c, m - 1, g)
    BY <2>1
  <2> DEFINE f == [b \in 0..m |-> IF b = m THEN Step(m, g[m - 1]) ELSE g[b]]
  <2>3. g = [b \in 0..(m - 1) |-> Step(b, g[b - 1])]
    BY <2>2 DEF Turns
  <2> HIDE DEF Step
  <2>4. \A b \in 0..(m - 1) : f[b] = g[b]
    BY <1>2
  <2>5. \A b \in 0..m : f[b] = Step(b, f[b - 1])
    <3> TAKE b \in 0..m
    <3>1. CASE b = m
      <4>1. f[b - 1] = g[m - 1]
        BY <2>1, <2>4, <3>1
      <4> QED
        BY <3>1, <4>1
    <3>2. CASE b # m /\ b # 0
      <4>1. f[b] = g[b] /\ f[b - 1] = g[b - 1]
        BY <1>2, <2>4, <3>2
      <4>2. g[b] = Step(b, g[b - 1])
        BY <1>2, <2>3, <3>2
      <4> QED
        BY <4>1, <4>2
    <3>3. CASE b # m /\ b = 0
      <4>1. f[b] = g[b]
        BY <1>2, <2>4, <3>3
      <4>2. g[b] = Step(b, g[b - 1])
        BY <1>2, <2>3, <3>3
      <4>3. Step(b, g[b - 1]) = Step(b, f[b - 1])
        BY <3>3 DEF Step
      <4> QED
        BY <4>1, <4>2, <4>3
    <3> QED
      BY <3>1, <3>2, <3>3
  <2>6. f = [b \in 0..m |-> f[b]]
    OBVIOUS
  <2> HIDE DEF f
  <2>7. Turns(c, m, f)
    BY <2>5, <2>6 DEF Turns, Step
  <2> QED
    BY <1>2, <2>7
<1> QED
  BY <1>3, <1>4

\* The states that looking at the bindings in turn goes through.
LEMMA TurnsTaken ==
  ASSUME NEW c
  PROVE  \E f : /\ f[0] = c
                /\ \A b \in 1..Len(Bindings) : f[b] = Forced(f[b - 1], b)
                /\ ForcedInTurn(c) = f[Len(Bindings)]
<1>1. PICK m \in Nat : m = Len(Bindings)
  BY BindingTypes
<1> DEFINE f == CHOOSE f : Turns(c, m, f)
<1>2. Turns(c, m, f)
  BY TurnsExist
<1>3. ForcedInTurn(c) = f[m]
  BY <1>1 DEF ForcedInTurn, Turns
<1> HIDE DEF f
<1>4. \A b \in 0..m : f[b] = IF b = 0 THEN c ELSE Forced(f[b - 1], b)
  BY <1>2 DEF Turns
<1>5. f[0] = c /\ \A b \in 1..m : f[b] = Forced(f[b - 1], b)
  BY <1>4
<1> QED
  BY <1>1, <1>3, <1>5

\* check_for_force_binding: what is left after every binding is in order.
LEMMA ForcedInTurnKeeps ==
  ASSUME NEW c, NEW H, PathOK(c, H)
  PROVE  PathOK(ForcedInTurn(c), H) /\ Dims(c, ForcedInTurn(c))
<1>1. PICK m \in Nat : m = Len(Bindings) /\ DOMAIN Bindings = 1..m
  BY BindingTypes
<1>2. PICK f : /\ f[0] = c
               /\ \A b \in 1..m : f[b] = Forced(f[b - 1], b)
               /\ ForcedInTurn(c) = f[m]
  BY <1>1, TurnsTaken
<1> DEFINE Fine(i) == PathOK(f[i], H) /\ Dims(c, f[i])
<1>3. Fine(m)
  <2> DEFINE Bad == {b \in 0..m : ~Fine(b)}
  <2> SUFFICES ASSUME Bad # {}
               PROVE  FALSE
    OBVIOUS
  <2>1. PICK b \in Bad : \A i \in Bad : b <= i
    <3>1. Bad \in SUBSET Nat
      OBVIOUS
    <3> HIDE DEF Bad
    <3> QED
      BY <3>1, Least
  <2>2. b \in 0..m /\ ~Fine(b)
    OBVIOUS
  <2>3. CASE b = 0
    BY <1>2, <2>2, <2>3, DimsItself
  <2>4. CASE b # 0
    <3>1. b \in DOMAIN Bindings /\ b \in 1..m /\ b - 1 \in 0..m /\ b - 1 \notin Bad
      BY <1>1, <2>1, <2>2, <2>4
    <3>2. PICK r : r = f[b - 1]
      OBVIOUS
    <3>3. PathOK(r, H) /\ Dims(c, r) /\ f[b] = Forced(r, b)
      BY <1>2, <3>1, <3>2
    <3>4. Fine(b)
      BY <3>1, <3>3, ForcedKeeps, DimsOn
    <3> QED
      BY <2>2, <3>4
  <2> QED
    BY <2>3, <2>4
<1> QED
  BY <1>2, <1>3

-----------------------------------------------------------------------------
(* An event of a keyboard.                                                 *)

\* What the event e makes of the guests and of the filter, bindings untouched.
Passed(c, T, e) ==
    /\ Typed(T) /\ T.s = c.s /\ SameKeys(c.k, T.k)
    /\ \A S : HeldAmong(c, S) => HeldAmong(T, After(S, e))
    /\ \A H : ModbitsIn(c, H) => ModbitsIn(T, H \cup {e.code})
    /\ LampsKept(c, T)

LEMMA InjectPasses ==
  ASSUME NEW c, Typed(c), NEW e \in Events(InputKeys), NEW T, T = input_inject(c, e)
  PROVE  /\ Passed(c, T, e)
         /\ \A H : ModbitsIn(c, H) => ModbitsIn(T, After(H, e))
<1>1. Keeps(c, T) /\ BitsAfter(c, T, e)
  BY InjectKeeps
<1>2. \A S : HeldAmong(c, S) => HeldAmong(T, After(S, e))
  BY InjectHeld
<1>3. \A H : ModbitsIn(c, H) => ModbitsIn(T, After(H, e)) /\ ModbitsIn(T, H \cup {e.code})
  <2> SUFFICES ASSUME NEW H, ModbitsIn(c, H)
               PROVE  ModbitsIn(T, After(H, e)) /\ ModbitsIn(T, H \cup {e.code})
    OBVIOUS
  <2>1. T.s = c.s /\ T.k.filter = c.k.filter
    BY <1>1 DEF Keeps, SameKeys, SameBindings
  <2>2. CASE c.s.keyb_parent = NULL
    BY <2>1, <2>2 DEF ModbitsIn
  <2>3. CASE c.s.keyb_parent # NULL /\ c.s.keyb_parent \notin c.k.filter
    <3>1. c.k.keyb_modbits = {} /\ T.k.keyb_modbits = c.k.keyb_modbits
      BY <1>1, <2>3 DEF ModbitsIn, BitsAfter
    <3> QED
      BY <2>1, <3>1 DEF ModbitsIn
  <2>4. CASE c.s.keyb_parent # NULL /\ c.s.keyb_parent \in c.k.filter
    <3>1. c.k.keyb_modbits \subseteq H
      BY <2>4 DEF ModbitsIn
    <3>2. T.k.keyb_modbits \subseteq After(H, e)
      BY <1>1, <2>4, <3>1 DEF BitsAfter, After
    <3>3. T.k.keyb_modbits \subseteq H \cup {e.code}
      BY <3>2 DEF After
    <3> QED
      BY <2>1, <2>4, <3>2, <3>3 DEF ModbitsIn
  <2> QED
    BY <2>2, <2>3, <2>4
<1>4. LampsKept(c, T)
  BY InjectLamps
<1> QED
  BY <1>1, <1>2, <1>3, <1>4 DEF Passed, Keeps

\* A release that secure mode keeps to itself.
LEMMA WithheldPasses ==
  ASSUME NEW c, Typed(c), NEW e, NEW T, T = Withheld(c, e)
  PROVE  Passed(c, T, e)
<1>1. /\ c = [s |-> c.s, k |-> c.k, t |-> c.t, n |-> c.n]
      /\ Good(c.s) /\ c.k \in KeyboardState /\ c.t \in [Rec -> SUBSET AllKeys]
      /\ c.n \in SUBSET Rec
  BY DEF Typed
<1> DEFINE tt == [r \in Rec |-> IF r \in {c.s.keyb_dest, c.s.mouse_dest}
                               THEN c.t[r] \ {e.code} ELSE c.t[r]]
<1>2. \A H : ModbitsIn(c, H) => H \subseteq H \cup {e.code} /\ ModbitsIn(c, H \cup {e.code})
  BY DEF ModbitsIn
<1>3. CASE e.value # 0
  <2>1. T = c
    BY <1>3, Zenon DEF Withheld
  <2>2. \A S : HeldAmong(c, S) => HeldAmong(c, After(S, e))
    BY <1>3 DEF HeldAmong, After
  <2> QED
    BY <1>2, <2>1, <2>2 DEF Passed, SameKeys, SameBindings, LampsKept
<1>4. CASE e.value = 0
  <2>1. T = [c EXCEPT !.t = tt]
    BY <1>4, Zenon DEF Withheld
  <2>2. /\ \A r \in Rec : tt[r] \subseteq c.t[r]
        /\ \A r \in Rec : r = c.s.keyb_dest => tt[r] = c.t[r] \ {e.code}
    OBVIOUS
  <2>3. tt \in [Rec -> SUBSET AllKeys]
    BY <1>1
  <2> HIDE DEF tt
  <2>4. T = [s |-> c.s, k |-> c.k, t |-> tt, n |-> c.n]
    BY <2>1, PathFields
  <2>5. Typed(T) /\ T.s = c.s /\ T.k = c.k /\ T.t = tt /\ T.n = c.n
    BY <1>1, <2>3, <2>4, TypedPath
  <2>6. \A S : HeldAmong(c, S) => HeldAmong(T, After(S, e))
    BY <1>4, <2>2, <2>5 DEF HeldAmong, After
  <2>7. \A H : ModbitsIn(c, H) => ModbitsIn(T, H \cup {e.code})
    BY <2>5 DEF ModbitsIn
  <2> QED
    BY <2>5, <2>6, <2>7 DEF Passed, SameKeys, SameBindings, LampsKept
<1> QED
  BY <1>3, <1>4

\* Secure mode: a character is pressed and released, a modifier goes through, and
\* everything else stays here.
LEMMA SecurePasses ==
  ASSUME NEW c, Typed(c), NEW e \in Events(Keys), NEW name,
         NEW T, T = input_secure_mode(c, e, name)
  PROVE  Passed(c, T, e)
<1> DEFINE r == [e EXCEPT !.value = 0]
<1>1. e \in Events(InputKeys) /\ r \in Events(InputKeys) /\ r.code = e.code /\ r.value = 0
  BY DEF Events, InputKeys
<1>2. PICK u : u = input_inject(c, e)
  OBVIOUS
<1>3. Passed(c, u, e) /\ Typed(u)
  BY <1>1, <1>2, InjectPasses DEF Passed
<1>4. PICK x \in Events(InputKeys) : x = r
  BY <1>1
<1>5. PICK v : v = input_inject(u, x)
  OBVIOUS
<1>6. Passed(u, v, x)
  BY <1>3, <1>5, InjectPasses
<1>7. CASE e.code \in TextKeys /\ e.value = 1
  <2>1. T = v
    BY <1>2, <1>4, <1>5, <1>7, Zenon DEF input_secure_mode
  <2>2. \A S : HeldAmong(c, S) => HeldAmong(v, After(S, e))
    <3> SUFFICES ASSUME NEW S, HeldAmong(c, S)
                 PROVE  HeldAmong(v, After(S, e))
      OBVIOUS
    <3>1. HeldAmong(v, After(After(S, e), x))
      BY <1>3, <1>6 DEF Passed
    <3>2. After(After(S, e), x) \subseteq After(S, e)
      BY <1>1, <1>4 DEF After
    <3> QED
      BY <3>1, <3>2 DEF HeldAmong
  <2>3. \A H : ModbitsIn(c, H) => ModbitsIn(v, H \cup {e.code})
    <3> SUFFICES ASSUME NEW H, ModbitsIn(c, H)
                 PROVE  ModbitsIn(v, H \cup {e.code})
      OBVIOUS
    <3>1. ModbitsIn(v, (H \cup {e.code}) \cup {x.code})
      BY <1>3, <1>6 DEF Passed
    <3>2. (H \cup {e.code}) \cup {x.code} = H \cup {e.code}
      BY <1>1, <1>4
    <3> QED
      BY <3>1, <3>2
  <2> QED
    BY <1>3, <1>6, <2>1, <2>2, <2>3, LampsKeptOn DEF Passed, SameKeys, SameBindings
<1>8. CASE ~(e.code \in TextKeys /\ e.value = 1) /\ e.code \in UserModifiers /\ name
  <2>1. T = u
    BY <1>2, <1>8, Zenon DEF input_secure_mode
  <2> QED
    BY <1>3, <2>1
<1>9. CASE ~(e.code \in TextKeys /\ e.value = 1) /\ ~(e.code \in UserModifiers /\ name)
  <2>1. T = Withheld(c, e)
    BY <1>9, Zenon DEF input_secure_mode
  <2> QED
    BY <2>1, WithheldPasses
<1> QED
  BY <1>7, <1>8, <1>9

\* input_read up to the key bindings: key_status has the event.
Noted(c, e) == [c EXCEPT !.k.key_status = Told(c.k.key_status, e)]

LEMMA NotedPath ==
  ASSUME NEW c, Ready(c), NEW e \in Events(Keys), NEW T, T = Noted(c, e)
  PROVE  /\ Typed(T) /\ T.s = c.s /\ T.t = c.t
         /\ SameBindings(c.k, T.k) /\ T.k.keyb_modbits = c.k.keyb_modbits
         /\ T.k.key_status = After(c.k.key_status, e)
         /\ HeldAmong(T, c.k.key_status)
         /\ OnlyLamps(c) => OnlyLamps(T)
         /\ Dims(c, T)
<1>1. /\ c = [s |-> c.s, k |-> c.k, t |-> c.t, n |-> c.n]
      /\ Good(c.s) /\ c.k \in KeyboardState /\ c.t \in [Rec -> SUBSET AllKeys]
      /\ c.n \in SUBSET Rec /\ HeldAmong(c, c.k.key_status)
  BY DEF Ready, Typed
<1>2. PICK x \in SUBSET Keys : x = Told(c.k.key_status, e) /\ x = After(c.k.key_status, e)
  BY <1>1, KbFields, ToldOf DEF After
<1> DEFINE kk == [c.k EXCEPT !.key_status = x]
<1>3. T = [s |-> c.s, k |-> kk, t |-> c.t, n |-> c.n]
  BY <1>1, <1>2 DEF Noted
<1>4. /\ kk \in KeyboardState /\ SameBindings(c.k, kk) /\ kk.key_status = x
      /\ kk.keyb_modbits = c.k.keyb_modbits /\ kk.lights = c.k.lights
  BY <1>1, SetKeyStatus
<1> HIDE DEF kk
<1>5. Typed(T) /\ T.s = c.s /\ T.t = c.t /\ T.k = kk /\ T.n = c.n
  BY <1>1, <1>3, <1>4, TypedPath
<1>6. (OnlyLamps(c) => OnlyLamps(T)) /\ Dims(c, T)
  BY <1>4, <1>5 DEF OnlyLamps, Dims, SameIds, Clean, LitIn, OffIn
<1> QED
  BY <1>1, <1>2, <1>4, <1>5, <1>6 DEF HeldAmong

\* What the guests get of an event that no binding takes.
Given(x, e, T) ==
    \/ T = input_inject(x, e)
    \/ \E name \in BOOLEAN : T = input_secure_mode(x, e, name)

LEMMA GivenPasses ==
  ASSUME NEW x, Typed(x), NEW e \in Events(Keys), NEW T, Given(x, e, T)
  PROVE  Passed(x, T, e)
<1>1. e \in Events(InputKeys)
  BY DEF Events, InputKeys
<1>2. CASE T = input_inject(x, e)
  BY <1>1, <1>2, InjectPasses
<1>3. ASSUME NEW name \in BOOLEAN, T = input_secure_mode(x, e, name)
      PROVE  Passed(x, T, e)
  BY <1>3, SecurePasses
<1> QED
  BY <1>2, <1>3 DEF Given

\* A press, or a repeat: the key is in key_status, and among the keys H.
LEMMA PressKeeps ==
  ASSUME NEW c, NEW H, PathOK(c, H), NEW e \in Events(Keys), e.value # 0, e.code \in H,
         NEW z, z = Noted(c, e),
         NEW x, PathOK(x, H), Rebound(z, x),
         NEW T, Given(x, e, T)
  PROVE  PathOK(T, H) /\ T.s = c.s
<1>1. Typed(x) /\ ModbitsIn(x, H) /\ MatchedIn(x, H) /\ HeldAmong(x, x.k.key_status)
  BY DEF PathOK
<1>2. Passed(x, T, e)
  BY <1>1, GivenPasses
<1>3. e.code \in x.k.key_status
  <2>1. e.code \in z.k.key_status
    <3>1. Ready(c)
      BY DEF PathOK, Ready
    <3>2. z.k.key_status = After(c.k.key_status, e)
      BY <3>1, NotedPath
    <3> QED
      BY <3>2 DEF After
  <2> QED
    BY <2>1 DEF Rebound
<1>4. HeldAmong(T, T.k.key_status)
  <2>1. After(x.k.key_status, e) = x.k.key_status
    BY <1>3 DEF After
  <2> QED
    BY <1>1, <1>2, <2>1 DEF Passed, SameKeys
<1>5. ModbitsIn(T, H)
  <2>1. ModbitsIn(T, H \cup {e.code})
    BY <1>1, <1>2 DEF Passed
  <2>2. H \cup {e.code} = H
    OBVIOUS
  <2> QED
    BY <2>1, <2>2
<1>6. MatchedIn(T, H)
  BY <1>1, <1>2, SameMatches DEF Passed, SameKeys
<1>7. OnlyLamps(T)
  BY <1>2 DEF PathOK, Passed, LampsKept, OnlyLamps
<1>8. T.s = c.s
  BY <1>2, NotedPath DEF PathOK, Ready, Passed, Rebound
<1> QED
  BY <1>2, <1>4, <1>5, <1>6, <1>7, <1>8 DEF PathOK, Passed

\* A press before the bindings have looked at it.
LEMMA PressNoted ==
  ASSUME NEW c, NEW H, PathOK(c, H), NEW e \in Events(Keys), e.value # 0,
         NEW z, z = Noted(c, e)
  PROVE  PathOK(z, H) /\ Rebound(z, z) /\ Dims(c, z)
<1>1. Ready(c)
  BY DEF PathOK, Ready
<1>2. /\ Typed(z) /\ z.s = c.s /\ z.t = c.t
      /\ SameBindings(c.k, z.k) /\ z.k.keyb_modbits = c.k.keyb_modbits
      /\ z.k.key_status = After(c.k.key_status, e)
      /\ HeldAmong(z, c.k.key_status) /\ OnlyLamps(z) /\ Dims(c, z)
  BY <1>1, NotedPath DEF PathOK
<1>3. HeldAmong(z, z.k.key_status)
  BY <1>2 DEF HeldAmong, After
<1>4. ModbitsIn(z, H)
  BY <1>2 DEF PathOK, ModbitsIn, SameBindings
<1>5. MatchedIn(z, H)
  BY <1>2, SameMatches DEF PathOK
<1> QED
  BY <1>2, <1>3, <1>4, <1>5 DEF PathOK, Rebound

\* A key-up: G are the keys that are held now, or missed.
LEMMA ReleaseKeeps ==
  ASSUME NEW c, NEW H, PathOK(c, H), NEW e \in Events(Keys), e.value = 0,
         NEW z, z = Noted(c, e),
         NEW x, Rebound(z, x), NEW G, MatchedIn(x, G),
         NEW T, \/ T = input_inject(x, e) /\ H \ {e.code} \subseteq G
                \/ Given(x, e, T) /\ H \cup {e.code} \subseteq G
  PROVE  PathOK(T, G) /\ T.s = c.s
<1>1. Ready(c)
  BY DEF PathOK, Ready
<1>2. /\ Typed(z) /\ z.s = c.s /\ SameBindings(c.k, z.k)
      /\ z.k.keyb_modbits = c.k.keyb_modbits
      /\ z.k.key_status = After(c.k.key_status, e)
      /\ HeldAmong(z, c.k.key_status) /\ OnlyLamps(z)
  BY <1>1, NotedPath DEF PathOK
<1>3. ModbitsIn(z, H)
  BY <1>2 DEF PathOK, ModbitsIn, SameBindings
<1>4. /\ Typed(x) /\ ModbitsIn(x, H) /\ HeldAmong(x, c.k.key_status)
      /\ x.k.key_status = After(c.k.key_status, e) /\ OnlyLamps(x)
  BY <1>2, <1>3, ReboundReady DEF Rebound
<1>5. e \in Events(InputKeys)
  BY DEF Events, InputKeys
<1>6. Passed(x, T, e)
  BY <1>4, GivenPasses DEF Given
<1>7. ModbitsIn(T, G)
  <2>1. CASE T = input_inject(x, e) /\ H \ {e.code} \subseteq G
    <3>1. ModbitsIn(T, After(H, e))
      BY <1>4, <1>5, <2>1, InjectPasses
    <3>2. After(H, e) \subseteq G
      BY <2>1 DEF After
    <3> QED
      BY <3>1, <3>2, MoreHeld
  <2>2. CASE H \cup {e.code} \subseteq G
    <3>1. ModbitsIn(T, H \cup {e.code})
      BY <1>4, <1>6 DEF Passed
    <3> QED
      BY <2>2, <3>1, MoreHeld
  <2> QED
    BY <2>1, <2>2
<1>8. HeldAmong(T, T.k.key_status)
  BY <1>4, <1>6 DEF Passed, SameKeys
<1>9. MatchedIn(T, G)
  BY <1>6, SameMatches DEF Passed, SameKeys
<1>10. OnlyLamps(T)
  BY <1>4, <1>6 DEF Passed, LampsKept, OnlyLamps
<1>11. T.s = c.s
  BY <1>2, <1>6 DEF Passed, Rebound
<1> QED
  BY <1>6, <1>7, <1>8, <1>9, <1>10, <1>11 DEF PathOK, Passed

-----------------------------------------------------------------------------
(* The steps of the keyboards.                                             *)

\* An HVM guest that the keyboard leaves, and whose light is known, has numlock
\* off.
StaysOff ==
    ~numlock_restore =>
        \A d \in Rec : Leaves(d) /\ ~is_pv_domain(sw, d) => d \notin numlock'

\* The keyboard stays where it is, or leaves a guest that is clean, or gone.
Quits(c, T) ==
    \/ T.s.keyb_dest = c.s.keyb_dest
    \/ ~numlock_restore =>
          \A d \in Rec : T.s.domains[d].initialised /\ Clean(c, d) => Clean(T, d)

LEMMA DimsQuits == ASSUME NEW c, NEW T, Dims(c, T) PROVE Quits(c, T)
  BY DEF Dims, Quits

LEMMA QuitsOff ==
  ASSUME NEW c, c = Path, NEW H, PathOK(c, H), NEW T, Follows(T), Quits(c, T)
  PROVE  StaysOff
<1> SUFFICES ASSUME ~numlock_restore, NEW d \in Rec, Leaves(d), ~is_pv_domain(sw, d)
             PROVE  d \notin numlock'
  BY DEF StaysOff
<1>1. c.s = sw /\ c.k = kb /\ c.n = numlock /\ OnlyLamps(c)
  BY DEF Path, PathOK
<1>2. sw' = T.s /\ numlock' = T.n
  BY DEF Follows
<1>3. LitIn(c, d) /\ T.s.keyb_dest # d /\ c.s.keyb_dest = d /\ T.s.domains[d].initialised
  BY <1>1, <1>2 DEF Leaves, LitIn
<1>4. Clean(c, d)
  BY <1>1, <1>3 DEF Clean
<1>5. Clean(T, d)
  BY <1>3, <1>4 DEF Quits
<1> QED
  BY <1>2, <1>3, <1>5 DEF Clean, LitIn, OffIn

\* What input_read makes of the path, and of the keys that are missed.
LEMMA ReadKeeps ==
  ASSUME KInv, NEW b, NEW e \in Events(Keys), input_read(b, e),
         hands' \in SUBSET ((DOMAIN Keyboards) \X Keys),
         IF e.value = 0 THEN HeldOn(hands) \ {e.code} \subseteq HeldOn(hands')
         ELSE HeldOn(hands) \cup {e.code} \subseteq HeldOn(hands')
  PROVE  KInv' /\ StaysOff
<1> DEFINE c0 == [Path EXCEPT !.k.key_status = Told(@, e)]
           H  == HeldOrMissed
           G  == HeldOn(hands') \cup missed'
<1>1. PICK p : p = Path
  OBVIOUS
<1>2. PathOK(p, H) /\ p.k = kb /\ Typed(p)
  BY <1>1 DEF KInv, Path, PathOK
<1>3. PICK z : z = Noted(p, e)
  OBVIOUS
<1>4. z = c0
  BY <1>1, <1>3 DEF Noted
<1> DEFINE secure == input_check_secure_mode(z)
           hotkey == ~secure \/ kb.secure # "locked"
           E      == input_exec_bindings(z, e)
           tried  == IF hotkey THEN E ELSE [c |-> z, done |-> FALSE]
           x      == tried.c
<1>5. PICK name \in BOOLEAN :
        Follows(IF tried.done THEN tried.c
                ELSE IF secure THEN input_secure_mode(tried.c, e, name)
                ELSE input_inject(tried.c, e))
  BY <1>4, Zenon DEF input_read
<1>6. missed' = IF secure /\ e.value = 0 THEN missed \cup {e.code} ELSE missed \ {e.code}
  BY <1>4, Zenon DEF input_read
<1> DEFINE T == IF tried.done THEN x
                ELSE IF secure THEN input_secure_mode(x, e, name)
                ELSE input_inject(x, e)
<1>7. PICK U : U = T
  OBVIOUS
<1>8. ~tried.done => \/ Given(x, e, U) /\ secure
                     \/ U = input_inject(x, e) /\ ~secure
  BY <1>7, Zenon DEF Given
<1>9. ~hotkey => secure
  OBVIOUS
<1>10. PathOK(U, G) /\ Quits(p, U)
  <2>1. CASE e.value # 0
    <3>1. H \subseteq G /\ e.code \in G
      BY <1>6, <2>1 DEF HeldOrMissed
    <3>2. PathOK(p, G)
      BY <1>2, <3>1, MoreHeld DEF PathOK
    <3>3. PathOK(z, G) /\ Rebound(z, z) /\ Dims(p, z)
      BY <1>3, <2>1, <3>2, PressNoted
    <3>4. CASE hotkey
      <4>1. tried = E
        BY <3>4, Zenon
      <4>2. PICK X : X = E.c
        OBVIOUS
      <4>3. /\ PathOK(X, G) /\ E.done \in BOOLEAN /\ (~E.done => Rebound(z, X))
            /\ Dims(z, X)
        <5>1. PICK F : F = E
          OBVIOUS
        <5>2. F = input_exec_bindings(z, e)
          BY <5>1
        <5>3. /\ PathOK(F.c, G) /\ F.done \in BOOLEAN /\ (~F.done => Rebound(z, F.c))
              /\ Dims(z, F.c)
          BY <2>1, <3>1, <3>3, <5>2, ExecPresses
        <5> QED
          BY <4>2, <5>1, <5>3
      <4>4. CASE E.done
        <5>1. U = X
          BY <1>7, <4>1, <4>2, <4>4, Zenon
        <5>2. Quits(p, U)
          BY <3>3, <4>3, <5>1, DimsOn, DimsQuits
        <5> QED
          BY <4>3, <5>1, <5>2
      <4>5. CASE ~E.done
        <5>1. Given(X, e, U)
          BY <1>8, <4>1, <4>2, <4>5, Zenon DEF Given
        <5> QED
          BY <1>3, <2>1, <3>1, <3>2, <4>3, <4>5, <5>1, PressKeeps DEF Quits
      <4> QED
        BY <4>3, <4>4, <4>5
    <3>5. CASE ~hotkey
      <4>1. tried.done = FALSE /\ tried.c = z
        BY <3>5
      <4>2. Given(z, e, U)
        BY <1>8, <4>1, Zenon DEF Given
      <4> QED
        BY <1>3, <2>1, <3>1, <3>2, <3>3, <4>2, PressKeeps DEF Quits
    <3> QED
      BY <3>4, <3>5
  <2>2. CASE e.value = 0
    <3>1. /\ secure => H \cup {e.code} \subseteq G
          /\ H \ {e.code} \subseteq G
      BY <1>6, <2>2 DEF HeldOrMissed
    <3>2. Ready(p)
      BY <1>2 DEF PathOK, Ready
    <3>3. Typed(z) /\ Rebound(z, z) /\ SameBindings(p.k, z.k)
      BY <1>3, <3>2, NotedPath DEF Rebound
    <3>4. PICK X : /\ X = tried.c /\ ~tried.done
                   /\ Rebound(z, X) /\ MatchedIn(X, G)
      <4>1. CASE hotkey
        <5>1. PICK F : F = E
          OBVIOUS
        <5>2. F.done = FALSE /\ Rebound(z, F.c) /\ MatchedIn(F.c, G)
          BY <2>2, <3>3, <5>1, ExecReleases
        <5>3. tried = F
          BY <4>1, <5>1, Zenon
        <5> QED
          BY <5>2, <5>3
      <4>2. CASE ~hotkey
        <5>1. tried.done = FALSE /\ tried.c = z
          BY <4>2
        <5>2. MatchedIn(z, H)
          BY <1>2, <3>3, SameMatches DEF PathOK
        <5>3. H \subseteq G
          BY <1>9, <3>1, <4>2
        <5>4. MatchedIn(z, G)
          BY <5>2, <5>3, MoreHeld
        <5> QED
          BY <3>3, <5>1, <5>4
      <4> QED
        BY <4>1, <4>2
    <3>5. \/ U = input_inject(X, e) /\ H \ {e.code} \subseteq G
          \/ Given(X, e, U) /\ H \cup {e.code} \subseteq G
      <4>1. (Given(X, e, U) /\ secure) \/ U = input_inject(X, e)
        BY <1>8, <3>4, Zenon
      <4> QED
        BY <3>1, <4>1
    <3> QED
      BY <1>2, <1>3, <2>2, <3>4, <3>5, ReleaseKeeps DEF Quits
  <2> QED
    BY <2>1, <2>2
<1>11. Path' = U
  <2>1. sw' = U.s /\ kb' = U.k /\ told' = U.t /\ numlock' = U.n
    BY <1>5, <1>7 DEF Follows
  <2> QED
    BY <1>10, <2>1 DEF Path, PathOK, Typed
<1>12. missed' \in SUBSET Keys
  BY <1>6 DEF KInv, Events
<1>13. StaysOff
  BY <1>1, <1>2, <1>5, <1>7, <1>10, QuitsOff
<1> QED
  BY <1>10, <1>11, <1>12, <1>13 DEF KInv, HeldOrMissed, HeldOn

LEMMA KeyDownKeeps ==
  ASSUME KInv, NEW b \in DOMAIN Keyboards, NEW key \in Keys, KeyDown(b, key)
  PROVE  KInv' /\ StaysOff
<1>1. /\ hands' = hands \cup {<<b, key>>} /\ input_read(b, Key(key, 1))
      /\ hands \in SUBSET ((DOMAIN Keyboards) \X Keys)
  BY DEF KeyDown, KInv
<1>2. PICK e \in Events(Keys) : e = Key(key, 1) /\ e.code = key /\ e.value = 1
  BY KeyIsEvent
<1>3. hands' \in SUBSET ((DOMAIN Keyboards) \X Keys)
  <2>1. <<b, key>> \in (DOMAIN Keyboards) \X Keys
    OBVIOUS
  <2> QED
    BY <1>1, <2>1, Zenon
<1>4. HeldOn(hands) \cup {e.code} \subseteq HeldOn(hands')
  BY <1>1, <1>2 DEF HeldOn
<1>5. input_read(b, e)
  BY <1>1, <1>2
<1> QED
  BY <1>2, <1>3, <1>4, <1>5, ReadKeeps

LEMMA KeyRepeatsKeeps ==
  ASSUME KInv, NEW b \in DOMAIN Keyboards, NEW key \in Keys, KeyRepeats(b, key)
  PROVE  KInv' /\ StaysOff
<1>1. /\ hands' = hands /\ input_read(b, Key(key, 2)) /\ <<b, key>> \in hands
      /\ hands \in SUBSET ((DOMAIN Keyboards) \X Keys)
  BY DEF KeyRepeats, KInv
<1>2. PICK e \in Events(Keys) : e = Key(key, 2) /\ e.code = key /\ e.value = 2
  BY KeyIsEvent
<1>3. HeldOn(hands) \cup {e.code} \subseteq HeldOn(hands')
  BY <1>1, <1>2 DEF HeldOn
<1>4. input_read(b, e)
  BY <1>1, <1>2
<1> QED
  BY <1>1, <1>2, <1>3, <1>4, ReadKeeps

LEMMA KeyUpKeeps ==
  ASSUME KInv, NEW b \in DOMAIN Keyboards, NEW key \in Keys, KeyUp(b, key)
  PROVE  KInv' /\ StaysOff
<1>1. /\ hands' = hands \ {<<b, key>>} /\ input_read(b, Key(key, 0))
      /\ hands \in SUBSET ((DOMAIN Keyboards) \X Keys)
  BY DEF KeyUp, KInv
<1>2. PICK e \in Events(Keys) : e = Key(key, 0) /\ e.code = key /\ e.value = 0
  BY KeyIsEvent
<1>3. HeldOn(hands) \ {e.code} \subseteq HeldOn(hands')
  BY <1>1, <1>2 DEF HeldOn
<1>4. input_read(b, e)
  BY <1>1, <1>2
<1> QED
  BY <1>1, <1>2, <1>3, <1>4, ReadKeeps

LEMMA PathIs ==
  ASSUME KInv
  PROVE  /\ PathOK(Path, HeldOrMissed) /\ Ready(Path) /\ Typed(Path) /\ Good(sw)
         /\ Path.s = sw /\ Path.k = kb /\ Path.t = told /\ Path.n = numlock
  BY DEF KInv, PathOK, Ready, Typed, Path

LEMMA FollowsPath ==
  ASSUME NEW T, NEW H, PathOK(T, H), Follows(T)
  PROVE  Path' = T
  BY DEF Follows, PathOK, Typed, Path

\* A keyboard is pulled out: the releases that are not read are missed.
LEMMA UnplugKeeps ==
  ASSUME KInv, NEW b, Unplug(b)
  PROVE  KInv' /\ StaysOff
<1>1. /\ hands' \subseteq hands /\ Follows(Path)
      /\ missed' = missed \cup {h[2] : h \in {h \in hands : h[1] = b}}
      /\ hands' = hands \ {h \in hands : h[1] = b}
  BY DEF Unplug
<1>2. hands \in SUBSET ((DOMAIN Keyboards) \X Keys) /\ missed \in SUBSET Keys
  BY DEF KInv
<1>3. hands' \in SUBSET ((DOMAIN Keyboards) \X Keys) /\ missed' \in SUBSET Keys
  <2>1. \A h \in (DOMAIN Keyboards) \X Keys : h[2] \in Keys
    OBVIOUS
  <2>2. \A h \in hands : h[2] \in Keys
    BY <1>2, <2>1, Zenon
  <2>3. hands' \in SUBSET ((DOMAIN Keyboards) \X Keys)
    BY <1>1, <1>2, Zenon
  <2> QED
    BY <1>1, <1>2, <2>2, <2>3
<1> DEFINE G == HeldOn(hands') \cup missed'
<1>4. HeldOrMissed \subseteq G
  <2> SUFFICES ASSUME NEW key \in Keys, NEW x \in DOMAIN Keyboards, <<x, key>> \in hands
               PROVE  key \in G
    BY <1>1 DEF HeldOrMissed, HeldOn
  <2>1. CASE x = b
    <3>1. <<x, key>>[1] = b /\ <<x, key>>[2] = key
      BY <2>1
    <3> QED
      BY <1>1, <3>1
  <2>2. CASE x # b
    <3>1. <<x, key>>[1] # b
      BY <2>2
    <3>2. <<x, key>> \in hands'
      BY <1>1, <3>1
    <3> QED
      BY <3>2 DEF HeldOn
  <2> QED
    BY <2>1, <2>2
<1>5. PICK T : T = Path
  OBVIOUS
<1>6. PathOK(T, G)
  BY <1>4, <1>5, PathIs, MoreHeld DEF PathOK
<1>7. Path' = T
  BY <1>1, <1>5, <1>6, FollowsPath
<1>8. StaysOff
  BY <1>1, <1>5, <1>6, QuitsOff DEF Quits
<1> QED
  BY <1>3, <1>6, <1>7, <1>8 DEF KInv, HeldOrMissed, HeldOn

\* A step that no key has part in.
LEMMA OnlyKeeps ==
  ASSUME KInv, NEW T, PathOK(T, HeldOrMissed), Quits(Path, T), Only(T)
  PROVE  KInv' /\ StaysOff
<1>1. Follows(T) /\ hands' = hands /\ missed' = missed
  BY DEF Only
<1>2. Path' = T
  BY <1>1, FollowsPath
<1>3. HeldOrMissed' = HeldOrMissed
  BY <1>1 DEF HeldOrMissed, HeldOn
<1>4. StaysOff
  BY <1>1, PathIs, QuitsOff
<1> QED
  BY <1>1, <1>2, <1>3, <1>4 DEF KInv

LEMMA OnlyCarries ==
  ASSUME KInv, NEW T, Carried(Path, T), Only(T)
  PROVE  KInv' /\ StaysOff
  BY PathIs, CarriedOK, DimsQuits, OnlyKeeps DEF Carried

-----------------------------------------------------------------------------
(* The steps of the requests.                                              *)

LEMMA ForceKeeps ==
  ASSUME KInv, check_for_force_binding
  PROVE  KInv' /\ StaysOff
<1>1. PICK T : T = ForcedInTurn(Path)
  OBVIOUS
<1>2. PathOK(T, HeldOrMissed) /\ Quits(Path, T)
  BY <1>1, PathIs, ForcedInTurnKeeps, DimsQuits
<1>3. Only(T)
  BY <1>1 DEF check_for_force_binding
<1> QED
  BY <1>2, <1>3, OnlyKeeps

LEMMA SwitchesKeep ==
  ASSUME KInv, NEW d \in Rec, SwitchFocus(d) \/ MouseSwitch(d)
  PROVE  KInv' /\ StaysOff
<1>1. PICK p : p = Path
  OBVIOUS
<1>2. Ready(p) /\ d \in Ptr
  BY <1>1, PathIs, Pointers
<1>3. Carried(p, Switch(p, d, FALSE)) /\ Carried(p, Switch(p, d, TRUE))
  BY <1>2, SwitchCarries
<1>4. Only(Switch(p, d, FALSE)) \/ Only(Switch(p, d, TRUE))
  BY <1>1 DEF SwitchFocus, MouseSwitch
<1> QED
  BY <1>1, <1>3, <1>4, OnlyCarries

LEMMA ClickKeeps ==
  ASSUME KInv, ClickForKeyboard
  PROVE  KInv' /\ StaysOff
<1>1. PICK p : p = Path
  OBVIOUS
<1>2. PICK d : d = sw.mouse_dest
  OBVIOUS
<1>3. d \in Rec
  <2>1. sw \in State /\ d # NULL
    BY <1>2, PathIs DEF Good, ClickForKeyboard
  <2> QED
    BY <1>2, <2>1, StateFields, Pointers
<1>4. Carried(p, SetKeyb(p, d))
  BY <1>1, <1>3, PathIs, SetsCarry
<1> QED
  BY <1>1, <1>2, <1>4, OnlyCarries DEF ClickForKeyboard

LEMMA CommandsKeep ==
  ASSUME KInv, NEW d \in Rec, Take(d) \/ Release(d)
  PROVE  KInv' /\ StaysOff
<1>1. PICK p : p = Path
  OBVIOUS
<1>2. Carried(p, Give(p, d)) /\ Carried(p, Return(p, d))
  BY <1>1, PathIs, SeamlessCarry
<1> QED
  BY <1>1, <1>2, OnlyCarries DEF Take, Release

\* A field of kb that is neither keys nor bindings.
LEMMA SetsOther ==
  ASSUME NEW c, NEW H, PathOK(c, H), NEW k \in KeyboardState,
         k.key_status = c.k.key_status, k.keyb_modbits = c.k.keyb_modbits,
         k.matched = c.k.matched, k.down = c.k.down, c.k.filter \subseteq k.filter,
         NEW T, T = [c EXCEPT !.k = k]
  PROVE  PathOK(T, H) /\ T.s = c.s
<1>1. T = [s |-> c.s, k |-> k, t |-> c.t, n |-> c.n]
  BY PathFields DEF PathOK
<1>2. Typed(T) /\ T.s = c.s /\ T.k = k /\ T.t = c.t /\ T.n = c.n
  BY <1>1, TypedPath DEF PathOK, Typed
<1> QED
  BY <1>2 DEF PathOK, HeldAmong, ModbitsIn, MatchedIn, OnlyLamps

LEMMA LedsKeep ==
  ASSUME KInv, NEW d \in Rec, handle_switcher_leds(d)
  PROVE  KInv' /\ StaysOff
<1>1. PICK p : p = Path
  OBVIOUS
<1>2. PathOK(p, HeldOrMissed) /\ p.k = kb /\ p.n = numlock /\ kb \in KeyboardState
  BY <1>1, PathIs DEF PathOK, Typed
<1> DEFINE l == IF d \in numlock THEN kb.lights \cup {d} ELSE kb.lights \ {d}
           k == [kb EXCEPT !.lights = l]
<1>3. /\ k \in KeyboardState /\ SameKeys(kb, k) /\ k.keyb_modbits = kb.keyb_modbits
  <2>1. l \in SUBSET Rec
    BY <1>2, KbFields
  <2> HIDE DEF l
  <2> QED
    BY <1>2, <2>1, SetLights
<1>4. PICK T : T = [p EXCEPT !.k = k]
  OBVIOUS
<1>5. Only(T)
  <2>1. [p EXCEPT !.k.lights = l] = T
    BY <1>2, <1>4
  <2> QED
    BY <1>1, <1>2, <2>1 DEF handle_switcher_leds
<1> HIDE DEF k
<1>6. PathOK(T, HeldOrMissed) /\ T.s = p.s
  <2>1. PICK q \in KeyboardState : q = k
    BY <1>3
  <2>2. /\ q.key_status = p.k.key_status /\ q.keyb_modbits = p.k.keyb_modbits
        /\ q.matched = p.k.matched /\ q.down = p.k.down /\ p.k.filter \subseteq q.filter
        /\ T = [p EXCEPT !.k = q]
    BY <1>2, <1>3, <1>4, <2>1 DEF SameKeys, SameBindings
  <2> QED
    BY <1>2, <2>2, SetsOther
<1> QED
  BY <1>1, <1>5, <1>6, OnlyKeeps DEF Quits

LEMMA SecureKeeps ==
  ASSUME KInv, NEW mode \in {"off", "open", "locked"}, input_secure(mode)
  PROVE  KInv' /\ StaysOff
<1>1. PICK p : p = Path
  OBVIOUS
<1>2. PathOK(p, HeldOrMissed) /\ p.k = kb /\ kb \in KeyboardState
  BY <1>1, PathIs DEF PathOK, Typed
<1>3. PICK k : k = [kb EXCEPT !.secure = mode]
  OBVIOUS
<1>4. /\ k \in KeyboardState
      /\ k.key_status = kb.key_status /\ k.keyb_modbits = kb.keyb_modbits
      /\ k.matched = kb.matched /\ k.down = kb.down /\ k.filter = kb.filter
  BY <1>2, <1>3 DEF KeyboardState
<1>5. PICK T : T = [p EXCEPT !.k = k]
  OBVIOUS
<1>6. Only(T)
  <2>1. [p EXCEPT !.k.secure = mode] = T
    BY <1>2, <1>3, <1>5
  <2> QED
    BY <1>1, <2>1 DEF input_secure
<1>7. PathOK(T, HeldOrMissed) /\ T.s = p.s
  BY <1>2, <1>4, <1>5, SetsOther
<1> QED
  BY <1>1, <1>6, <1>7, OnlyKeeps DEF Quits

\* Writing the divert_info of a record in use, which stays once it exists.
DivertKept(y, x) ==
    /\ x \in DomainRec
    /\ x.initialised = y.initialised /\ x.domid = y.domid
    /\ y.has_divert => x.has_divert
    /\ x.key_domain # NULL \/ x.mouse_domain # NULL => x.has_divert

LEMMA DivertGood ==
  ASSUME NEW s, Good(s), NEW d \in Live(s), NEW x, DivertKept(s.domains[d], x),
         NEW t, t = Put(s, d, x)
  PROVE  Good(t) /\ SameKeyboard(s, t) /\ SameIds(s, t)
<1>1. /\ s \in State /\ d \in Rec /\ s.domains[d].initialised
      /\ ParentsIn(s) /\ TargetsOwned(s)
  BY DEF Good, Live
<1>2. /\ t \in State /\ t.keyb_dest = s.keyb_dest
      /\ t.mouse_parent = s.mouse_parent /\ t.keyb_parent = s.keyb_parent
      /\ \A r \in Rec : t.domains[r] = IF r = d THEN x ELSE s.domains[r]
  BY <1>1, PutUpdates DEF DivertKept
<1>3. Live(t) = Live(s)
  BY <1>1, <1>2 DEF Live, DivertKept
<1>4. \A p : ParentOf(s, p) => ParentOf(t, p)
  BY <1>1, <1>2, <1>3 DEF ParentOf, Live, DivertKept
<1>5. TargetsOwned(t)
  BY <1>1, <1>2, <1>3, <1>4 DEF TargetsOwned, ParentOf, DivertKept
<1>6. SameIds(s, t)
  BY <1>2 DEF SameIds, DivertKept
<1> QED
  BY <1>1, <1>2, <1>4, <1>5, <1>6 DEF Good, ParentsIn, SameKeyboard

\* The divert of a path state.
LEMMA DivertCarries ==
  ASSUME NEW c, Ready(c), NEW d \in Live(c.s), NEW x, DivertKept(c.s.domains[d], x),
         NEW T, T = [c EXCEPT !.s = Put(c.s, d, x)]
  PROVE  Carried(c, T) /\ Carried(c, SyncKeyb(T, d)) /\ SameKeyboard(c.s, T.s)
<1>1. Typed(c) /\ Good(c.s) /\ d \in Rec
  BY DEF Ready, Typed, Live
<1>2. PICK t : t = Put(c.s, d, x)
  OBVIOUS
<1>3. Good(t) /\ SameKeyboard(c.s, t) /\ SameIds(c.s, t)
  BY <1>1, <1>2, DivertGood
<1>4. Carried(c, T) /\ T.s = t
  BY <1>1, <1>2, <1>3, ReroutedPath
<1>5. Carried(T, SyncKeyb(T, d))
  BY <1>1, <1>4, CarriedReady, SetsCarry
<1> QED
  BY <1>3, <1>4, <1>5, CarriedOn

LEMMA DivertsKeep ==
  ASSUME KInv, NEW d \in Rec, NEW td \in Rec, DivertKeyboard(d, td) \/ StopDivert(d)
  PROVE  KInv' /\ StaysOff
<1>1. PICK p : p = Path
  OBVIOUS
<1>2. p = [s |-> sw, k |-> kb, t |-> told, n |-> numlock] /\ Ready(p) /\ Good(p.s)
  BY <1>1, PathIs DEF Path
<1>3. d \in Live(p.s) /\ p.s \in State
  BY <1>2 DEF DivertKeyboard, StopDivert, Sender, Good
<1>4. PICK y : y = p.s.domains[d]
  OBVIOUS
<1>5. /\ y \in DomainRec
      /\ y.key_domain # NULL \/ y.mouse_domain # NULL => y.has_divert
  <2>1. y \in DomainRec
    BY <1>3, <1>4, DomainFields
  <2>2. d # NULL
    BY Pointers
  <2> QED
    BY <1>2, <1>4, <2>1, <2>2 DEF Good, TargetsOwned, ParentOf
<1>6. CASE DivertKeyboard(d, td)
  <2>1. PICK x : x = [y EXCEPT !.has_divert = TRUE, !.key_domain = td]
    OBVIOUS
  <2>2. DivertKept(y, x)
    BY <1>5, <2>1 DEF DivertKept, DomainRec, Ptr
  <2>3. PICK T : T = [p EXCEPT !.s = Put(p.s, d, x)]
    OBVIOUS
  <2>4. Carried(p, SyncKeyb(T, d))
    BY <1>2, <1>3, <1>4, <2>2, <2>3, DivertCarries
  <2>5. T = [Path EXCEPT !.s.domains[d] = [@ EXCEPT !.has_divert = TRUE, !.key_domain = td]]
    BY <1>2, <1>3, <1>4, <2>1, <2>3 DEF Put, State, Path
  <2>6. Only(SyncKeyb(T, d))
    BY <1>6, <2>5, Zenon DEF DivertKeyboard
  <2> QED
    BY <1>1, <2>4, <2>6, OnlyCarries
<1>7. CASE StopDivert(d)
  <2>1. PICK x : x = [y EXCEPT !.key_domain = NULL]
    OBVIOUS
  <2>2. DivertKept(y, x)
    BY <1>5, <2>1 DEF DivertKept, DomainRec, Ptr
  <2>3. PICK T : T = [p EXCEPT !.s = Put(p.s, d, x)]
    OBVIOUS
  <2>4. Carried(p, SyncKeyb(T, d))
    BY <1>2, <1>3, <1>4, <2>2, <2>3, DivertCarries
  <2>5. T = [Path EXCEPT !.s.domains[d].key_domain = NULL]
    BY <1>2, <1>3, <1>4, <2>1, <2>3 DEF Put, State, Path
  <2>6. Only(SyncKeyb(T, d))
    BY <1>7, <2>5, Zenon DEF StopDivert
  <2> QED
    BY <1>1, <2>4, <2>6, OnlyCarries
<1> QED
  BY <1>6, <1>7

LEMMA FilterSetKeeps ==
  ASSUME KInv, NEW d \in Rec, input_daemon_set_divert_keyboard_filter(d)
  PROVE  KInv' /\ StaysOff
<1>1. PICK p : p = Path
  OBVIOUS
<1>2. /\ p = [s |-> sw, k |-> kb, t |-> told, n |-> numlock] /\ Ready(p) /\ Good(p.s)
      /\ PathOK(p, HeldOrMissed) /\ kb \in KeyboardState
  BY <1>1, PathIs DEF Path, PathOK, Typed
<1>3. d \in Live(p.s) /\ p.s \in State
  BY <1>2 DEF input_daemon_set_divert_keyboard_filter, Sender, Good
<1>4. PICK y : y = p.s.domains[d]
  OBVIOUS
<1>5. y \in DomainRec
  BY <1>3, <1>4, DomainFields
<1>6. PICK x : x = [y EXCEPT !.has_divert = TRUE]
  OBVIOUS
<1>7. DivertKept(y, x)
  BY <1>5, <1>6 DEF DivertKept, DomainRec
<1>8. PICK U : U = [p EXCEPT !.s = Put(p.s, d, x)]
  OBVIOUS
<1>9. Carried(p, U) /\ SameKeyboard(p.s, U.s)
  BY <1>2, <1>3, <1>4, <1>7, <1>8, DivertCarries
<1>10. PathOK(U, HeldOrMissed) /\ U.k = kb
  BY <1>2, <1>8, <1>9, CarriedOK
<1>11. PICK k : k = [kb EXCEPT !.filter = kb.filter \cup {d}]
  OBVIOUS
<1>12. /\ k \in KeyboardState
       /\ k.key_status = kb.key_status /\ k.keyb_modbits = kb.keyb_modbits
       /\ k.matched = kb.matched /\ k.down = kb.down /\ k.filter = kb.filter \cup {d}
  BY <1>2, <1>11 DEF KeyboardState
<1>13. PICK T : T = [U EXCEPT !.k = k]
  OBVIOUS
<1>14. PathOK(T, HeldOrMissed) /\ T.s = U.s
  BY <1>10, <1>12, <1>13, SetsOther
<1>15. T = [Path EXCEPT !.s.domains[d].has_divert = TRUE, !.k.filter = @ \cup {d}]
  BY <1>1, <1>2, <1>3, <1>4, <1>6, <1>8, <1>11, <1>13 DEF Put, State
<1>16. Only(T)
  BY <1>15, Zenon DEF input_daemon_set_divert_keyboard_filter
<1> QED
  BY <1>1, <1>9, <1>14, <1>16, OnlyKeeps DEF Quits, SameKeyboard

-----------------------------------------------------------------------------
(* The connection of a viewer closes.                                      *)

\* input_domain_gone forgets the keyboard's guest when the record is its or its
\* viewer's.
LEMMA GoneKeyboard ==
  ASSUME NEW s, Good(s), NEW d \in Rec,
         NEW t, t = input_domain_gone(FreeRecord(s, d), d)
  PROVE  /\ Good(t)
         /\ t.keyb_dest = IF s.keyb_dest = d \/ s.keyb_parent = d THEN NULL
                          ELSE s.keyb_dest
         /\ t.keyb_parent = IF s.keyb_parent = d THEN NULL ELSE s.keyb_parent
         /\ LampsOf(t) = LampsOf(s)
         /\ \A r \in Rec : is_pv_domain(t, r) <=> is_pv_domain(s, r)
         /\ ~t.domains[d].initialised
<1>1. /\ Good(t)
      /\ \A r \in Rec : t.domains[r].domid = s.domains[r].domid
      /\ ~t.domains[d].initialised
  BY FreeRecordRemoves DEF Removes, Live
<1>2. PICK u : u = FreeRecord(s, d)
  OBVIOUS
<1>3. PICK q : q = reset_prev_keyb_domain(s, d)
  OBVIOUS
<1>4. s \in State
  BY DEF Good
<1>5. q \in State
  BY <1>3, ResetMoves DEF Moves, Good
<1>6. q.keyb_dest = s.keyb_dest /\ q.keyb_parent = s.keyb_parent
  <2>1. \A x : [s EXCEPT !.domains = x].keyb_dest = s.keyb_dest
               /\ [s EXCEPT !.domains = x].keyb_parent = s.keyb_parent
    BY <1>4 DEF State
  <2>2. q = s \/ \E x : q = [s EXCEPT !.domains = x]
    BY <1>3, Zenon DEF reset_prev_keyb_domain
  <2> QED
    BY <2>1, <2>2
<1>7. \E x : u = [q EXCEPT !.domains = x]
  BY <1>2, <1>3, Zenon DEF FreeRecord
<1>8. /\ u.keyb_dest = s.keyb_dest /\ u.keyb_parent = s.keyb_parent
      /\ DOMAIN u = DOMAIN q
  BY <1>5, <1>6, <1>7 DEF State
<1>9. /\ t.keyb_dest = IF u.keyb_dest = d \/ u.keyb_parent = d THEN NULL ELSE u.keyb_dest
      /\ t.keyb_parent = IF u.keyb_parent = d THEN NULL ELSE u.keyb_parent
  <2>1. "keyb_dest" \in DOMAIN u /\ "keyb_parent" \in DOMAIN u
    BY <1>5, <1>8 DEF State
  <2> QED
    BY <1>2, <2>1 DEF input_domain_gone
<1>10. /\ LampsOf(t) = LampsOf(s)
       /\ \A r \in Rec : is_pv_domain(t, r) <=> is_pv_domain(s, r)
  BY <1>1 DEF LampsOf, is_pv_domain
<1> QED
  BY <1>1, <1>8, <1>9, <1>10

LEMMA DeadKeepsKeyboard ==
  ASSUME NEW s, Good(s), NEW d \in Rec
  PROVE  /\ SameKeyboard(s, check_diverts_for_the_dead(s, d))
         /\ SameIds(s, check_diverts_for_the_dead(s, d))
<1>1. \A x : SameKeyboard(s, [s EXCEPT !.domains = x])
  BY DEF Good, State, SameKeyboard
<1>2. \E x : check_diverts_for_the_dead(s, d) = [s EXCEPT !.domains = x]
  BY Zenon DEF check_diverts_for_the_dead
<1>3. SameIds(s, check_diverts_for_the_dead(s, d))
  BY CheckDivertsKeeps DEF SameIds
<1> QED
  BY <1>1, <1>2, <1>3

\* The record, its filter and what is known of its guest are gone.
WithoutViewer(c, d) ==
    [c EXCEPT !.s = input_domain_gone(FreeRecord(c.s, d), d),
              !.k.filter = c.k.filter \ {d}, !.t[d] = {}, !.n = c.n \ {d}]

LEMMA WithoutViewerPath ==
  ASSUME NEW c, Typed(c), NEW d \in Rec, NEW T, T = WithoutViewer(c, d)
  PROVE  /\ Typed(T) /\ T.s = input_domain_gone(FreeRecord(c.s, d), d)
         /\ T.k.key_status = c.k.key_status /\ T.k.keyb_modbits = c.k.keyb_modbits
         /\ T.k.matched = c.k.matched /\ T.k.down = c.k.down
         /\ T.k.filter = c.k.filter \ {d}
         /\ \A r \in Rec : T.t[r] = IF r = d THEN {} ELSE c.t[r]
         /\ T.n = c.n \ {d} /\ T.k.lights = c.k.lights
<1>1. /\ c = [s |-> c.s, k |-> c.k, t |-> c.t, n |-> c.n]
      /\ Good(c.s) /\ c.k \in KeyboardState /\ c.t \in [Rec -> SUBSET AllKeys]
      /\ c.n \in SUBSET Rec
  BY DEF Typed
<1> DEFINE kk == [c.k EXCEPT !.filter = c.k.filter \ {d}]
           tt == [c.t EXCEPT ![d] = {}]
           nn == c.n \ {d}
<1>2. PICK s : s = input_domain_gone(FreeRecord(c.s, d), d)
  OBVIOUS
<1>3. Good(s)
  BY <1>1, <1>2, GoneKeyboard
<1>4. T = [s |-> s, k |-> kk, t |-> tt, n |-> nn]
  BY <1>1, <1>2 DEF WithoutViewer
<1>5. /\ kk \in KeyboardState
      /\ kk.key_status = c.k.key_status /\ kk.keyb_modbits = c.k.keyb_modbits
      /\ kk.matched = c.k.matched /\ kk.down = c.k.down
      /\ kk.filter = c.k.filter \ {d} /\ kk.lights = c.k.lights
  BY <1>1 DEF KeyboardState
<1>6. /\ tt \in [Rec -> SUBSET AllKeys] /\ nn \in SUBSET Rec
      /\ \A r \in Rec : tt[r] = IF r = d THEN {} ELSE c.t[r]
  BY <1>1
<1> HIDE DEF kk, tt, nn
<1>7. Typed(T) /\ T.s = s /\ T.k = kk /\ T.t = tt /\ T.n = nn
  BY <1>3, <1>4, <1>5, <1>6, TypedPath
<1> QED
  BY <1>2, <1>5, <1>6, <1>7 DEF nn

\* domain_gone up to the switcher: the keyboard's guest, if it was the viewer's,
\* is left with what it holds.
LEMMA ViewerLeaves ==
  ASSUME NEW c, NEW H, PathOK(c, H), NEW d \in Rec,
         NEW g, g = WithoutViewer(c, d),
         NEW T, T = IF c.s.keyb_parent = d /\ c.s.keyb_dest # NULL
                    THEN Leave_behind(g, c.s.keyb_dest, Keys) ELSE g
  PROVE  /\ PathOK(T, H)
         /\ \A r \in Rec : r # d /\ Clean(c, r) => Clean(T, r)
         /\ ~T.s.domains[d].initialised
<1>1. /\ Typed(c) /\ Good(c.s) /\ HeldAmong(c, c.k.key_status) /\ OnlyLamps(c)
      /\ c.k.key_status \in SUBSET Keys
  BY KbFields DEF PathOK, Typed
<1>2. /\ Typed(g) /\ g.s = input_domain_gone(FreeRecord(c.s, d), d)
      /\ g.k.key_status = c.k.key_status /\ g.k.keyb_modbits = c.k.keyb_modbits
      /\ g.k.matched = c.k.matched /\ g.k.down = c.k.down
      /\ g.k.filter = c.k.filter \ {d}
      /\ \A r \in Rec : g.t[r] = IF r = d THEN {} ELSE c.t[r]
      /\ g.n = c.n \ {d} /\ g.k.lights = c.k.lights
  BY <1>1, WithoutViewerPath
<1>3. /\ g.s.keyb_dest = IF c.s.keyb_dest = d \/ c.s.keyb_parent = d THEN NULL
                         ELSE c.s.keyb_dest
      /\ g.s.keyb_parent = IF c.s.keyb_parent = d THEN NULL ELSE c.s.keyb_parent
      /\ LampsOf(g.s) = LampsOf(c.s)
      /\ \A r \in Rec : is_pv_domain(g.s, r) <=> is_pv_domain(c.s, r)
      /\ ~g.s.domains[d].initialised
  BY <1>1, <1>2, GoneKeyboard
<1>4. ModbitsIn(g, H) /\ MatchedIn(g, H) /\ OnlyLamps(g)
  BY <1>1, <1>2, <1>3 DEF PathOK, ModbitsIn, MatchedIn, OnlyLamps
<1>7. \A r \in Rec : r # d /\ Clean(c, r) => Clean(g, r)
  <2> SUFFICES ASSUME NEW r \in Rec, r # d, Clean(c, r)
               PROVE  Clean(g, r)
    OBVIOUS
  <2>1. LitIn(c, r) => LitIn(g, r)
    BY <1>2, <1>3, Pointers DEF LitIn
  <2>2. OffIn(c, r) => OffIn(g, r)
    BY <1>2 DEF OffIn
  <2> QED
    BY <1>3, <1>4, <2>1, <2>2 DEF Clean
<1>5. CASE c.s.keyb_parent = d /\ c.s.keyb_dest # NULL
  <2>1. T = Leave_behind(g, c.s.keyb_dest, Keys)
    BY <1>5, Zenon
  <2>2. PICK x : x = c.s.keyb_dest
    OBVIOUS
  <2>3. /\ Keeps(g, T) /\ T.k = g.k /\ T.n = g.n
        /\ \A r \in Rec : T.t[r] = IF r = x THEN g.t[r] \ Keys ELSE g.t[r]
    <3>1. PICK K : K = Keys
      OBVIOUS
    <3>2. T = Leave_behind(g, x, K)
      BY <2>1, <2>2, <3>1
    <3>3. Typed(g)
      BY <1>2
    <3>4. /\ Keeps(g, T) /\ T.k = g.k /\ T.n = g.n
          /\ \A r \in Rec : T.t[r] = IF r = x THEN g.t[r] \ K ELSE g.t[r]
      BY <3>2, <3>3, LeaveBehindKeeps
    <3> QED
      BY <3>1, <3>4
  <2>4. NoVideoKey => \A r \in Rec : T.t[r] = {}
    BY <1>1, <1>2, <2>2, <2>3 DEF HeldAmong
  <2>5. PathOK(T, H)
    BY <1>4, <2>3, <2>4 DEF PathOK, Keeps, HeldAmong, ModbitsIn, MatchedIn, OnlyLamps
  <2>6. \A r \in Rec : Clean(g, r) => Clean(T, r)
    BY <2>3 DEF Keeps, Clean, OnlyLamps, LitIn, OffIn
  <2> QED
    BY <1>3, <1>7, <2>3, <2>5, <2>6 DEF Keeps
<1>6. CASE ~(c.s.keyb_parent = d /\ c.s.keyb_dest # NULL)
  <2>1. T = g
    BY <1>6, Zenon
  <2>2. HeldAmong(g, g.k.key_status)
    BY <1>1, <1>2, <1>3, <1>6, Pointers DEF HeldAmong
  <2> QED
    BY <1>2, <1>3, <1>4, <1>7, <2>1, <2>2 DEF PathOK
<1> QED
  BY <1>5, <1>6

LEMMA ViewerGoneKeeps ==
  ASSUME KInv, NEW d \in Rec, ViewerGone(d)
  PROVE  KInv' /\ StaysOff
<1>1. PICK p : p = Path
  OBVIOUS
<1>2. /\ p = [s |-> sw, k |-> kb, t |-> told, n |-> numlock]
      /\ PathOK(p, HeldOrMissed) /\ Typed(p)
  BY <1>1, PathIs DEF Path
<1>3. PICK g : g = WithoutViewer(p, d)
  OBVIOUS
<1>4. g = [Path EXCEPT !.s = input_domain_gone(FreeRecord(@, d), d),
                       !.k.filter = @ \ {d}, !.t[d] = {}, !.n = @ \ {d}]
  BY <1>1, <1>2, <1>3 DEF WithoutViewer
<1>5. PICK u : u = IF sw.keyb_parent = d /\ sw.keyb_dest # NULL
                   THEN Leave_behind(g, sw.keyb_dest, Keys) ELSE g
  OBVIOUS
<1>6. /\ PathOK(u, HeldOrMissed) /\ Ready(u) /\ Typed(u) /\ Good(u.s) /\ u.s \in State
      /\ \A r \in Rec : r # d /\ Clean(p, r) => Clean(u, r)
      /\ ~u.s.domains[d].initialised
  <2>1. u = IF p.s.keyb_parent = d /\ p.s.keyb_dest # NULL
            THEN Leave_behind(g, p.s.keyb_dest, Keys) ELSE g
    BY <1>2, <1>5
  <2>2. /\ PathOK(u, HeldOrMissed)
        /\ \A r \in Rec : r # d /\ Clean(p, r) => Clean(u, r)
        /\ ~u.s.domains[d].initialised
    BY <1>2, <1>3, <2>1, ViewerLeaves
  <2> QED
    BY <2>2 DEF PathOK, Ready, Typed, Good
<1>7. PICK y : y = [u.s EXCEPT !.surface_current = NULL]
  OBVIOUS
<1>8. Good(y) /\ SameKeyboard(u.s, y) /\ SameIds(u.s, y)
  <2>1. /\ y \in State /\ y.domains = u.s.domains
        /\ y.keyb_dest = u.s.keyb_dest /\ y.keyb_parent = u.s.keyb_parent
        /\ y.mouse_parent = u.s.mouse_parent
    BY <1>6, <1>7 DEF State, Ptr
  <2> QED
    BY <1>6, <2>1 DEF Good, ParentsIn, TargetsOwned, ParentOf, Live, SameKeyboard, SameIds
<1>9. PICK v : v = [u EXCEPT !.s = y]
  OBVIOUS
<1>10. Carried(u, v)
  BY <1>6, <1>8, <1>9, ReroutedPath
<1>11. PICK i : i = domain_uivm(u.s)
  OBVIOUS
<1>12. i \in Ptr
  BY <1>6, <1>11, Lookups, Pointers DEF domain_uivm
<1>13. PICK a : a = IF sw.surface_current # d THEN u ELSE Switch(v, i, FALSE)
  OBVIOUS
<1>14. Carried(u, a)
  <2>1. Carried(v, Switch(v, i, FALSE))
    BY <1>10, <1>12, CarriedReady, SwitchCarries
  <2>2. Carried(u, Switch(v, i, FALSE))
    BY <1>10, <2>1, CarriedOn
  <2> QED
    BY <1>6, <1>13, <2>2, CarriedItself
<1>15. Ready(a) /\ Typed(a) /\ Good(a.s)
  BY <1>14, CarriedReady DEF Ready, Typed
<1>16. PICK z : z = check_diverts_for_the_dead(a.s, d)
  OBVIOUS
<1>17. Good(z) /\ SameKeyboard(a.s, z) /\ SameIds(a.s, z)
  BY <1>15, <1>16, CheckDivertsKeeps, DeadKeepsKeyboard
<1>18. PICK T : T = [a EXCEPT !.s = z]
  OBVIOUS
<1>19. Carried(a, T)
  BY <1>15, <1>17, <1>18, ReroutedPath
<1>20. PathOK(T, HeldOrMissed)
  BY <1>6, <1>14, <1>19, CarriedOK
<1>22. Quits(p, T)
  <2>1. Dims(u, T)
    BY <1>14, <1>19, DimsOn DEF Carried
  <2>2. ~T.s.domains[d].initialised
    BY <1>6, <2>1 DEF Dims, SameIds
  <2> QED
    BY <1>6, <2>1, <2>2 DEF Quits, Dims
<1>21. Only(T)
  <2>1. v = [u EXCEPT !.s.surface_current = NULL]
    BY <1>6, <1>7, <1>9 DEF Typed
  <2>2. T = [a EXCEPT !.s = check_diverts_for_the_dead(@, d)]
    BY <1>15, <1>16, <1>18 DEF Typed
  <2> DEFINE gone == [Path EXCEPT
                        !.s = input_domain_gone(FreeRecord(@, d), d),
                        !.k.filter = @ \ {d}, !.t[d] = {}, !.n = @ \ {d}]
             told_not == IF sw.keyb_parent = d /\ sw.keyb_dest # NULL
                         THEN Leave_behind(gone, sw.keyb_dest, Keys) ELSE gone
             after == IF sw.surface_current # d THEN told_not
                      ELSE Switch([told_not EXCEPT !.s.surface_current = NULL],
                                  domain_uivm(told_not.s), FALSE)
  <2>3. Only([after EXCEPT !.s = check_diverts_for_the_dead(@, d)])
    BY Zenon DEF ViewerGone
  <2>4. gone = g
    BY <1>4
  <2> HIDE DEF gone
  <2>5. told_not = u
    BY <1>5, <2>4, Zenon
  <2> HIDE DEF told_not
  <2>6. after = a
    BY <1>11, <1>13, <2>1, <2>5, Zenon
  <2> HIDE DEF after
  <2> QED
    BY <2>2, <2>3, <2>6, Zenon
<1> QED
  BY <1>1, <1>20, <1>21, <1>22, OnlyKeeps

-----------------------------------------------------------------------------
(* The theorems.                                                           *)

\* Any routing that DomainFocus may have come to is one to start from.
LEMMA KeyboardInitRouting ==
  TypeOK /\ ParentHasDivert /\ TargetsOwned(sw) => Good(sw)
<1>1. TypeOK => sw \in State
  BY DEF TypeOK
<1>2. ParentHasDivert => ParentsIn(sw)
  BY DEF ParentHasDivert, ParentsIn, ParentOf
<1> QED
  BY <1>1, <1>2 DEF Good

LEMMA KeyboardInitSound == KeyboardInit => KInv
<1> SUFFICES ASSUME KeyboardInit
             PROVE  KInv
  OBVIOUS
<1>1. Good(sw)
  <2>1. TargetsOwned(sw)
    BY DEF KeyboardInit, TargetsOwned, ParentOf
  <2> QED
    BY <2>1, KeyboardInitRouting DEF KeyboardInit
<1>2. AtRest
  BY DEF KeyboardInit
<1>3. kb \in KeyboardState
  <2>1. FORCE_TICKS \in Nat
    BY KeyboardAssumption
  <2> QED
    BY <1>2, <2>1 DEF AtRest, KeyboardState
<1>4. PICK p : p = Path
  OBVIOUS
<1>5. Typed(p) /\ p.s = sw /\ p.k = kb /\ p.t = told /\ p.n = numlock
  <2>1. told \in [Rec -> SUBSET AllKeys] /\ numlock \in SUBSET Rec
    BY <1>2 DEF AtRest
  <2> QED
    BY <1>1, <1>3, <1>4, <2>1, TypedPath DEF Path
<1>6. PathOK(p, HeldOrMissed)
  BY <1>2, <1>5, BindingTypes DEF PathOK, AtRest, HeldAmong, ModbitsIn, MatchedIn, OnlyLamps
<1> QED
  BY <1>2, <1>4, <1>6 DEF KInv, AtRest

LEMMA KeyboardNextSound == KInv /\ [KeyboardNext]_vars => KInv' /\ StaysOff
<1> SUFFICES ASSUME KInv, [KeyboardNext]_vars
             PROVE  KInv' /\ StaysOff
  OBVIOUS
<1>1. CASE UNCHANGED vars
  <2>1. Path' = Path /\ HeldOrMissed' = HeldOrMissed /\ hands' = hands /\ missed' = missed
    BY <1>1 DEF vars, Path, HeldOrMissed, HeldOn
  <2>2. StaysOff
    BY <1>1 DEF vars, StaysOff, Leaves
  <2> QED
    BY <2>1, <2>2 DEF KInv
<1>2. CASE KeyEvents
  <2> SUFFICES ASSUME NEW b \in DOMAIN Keyboards,
                      \/ Unplug(b)
                      \/ \E key \in Keys :
                            KeyDown(b, key) \/ KeyRepeats(b, key) \/ KeyUp(b, key)
               PROVE  KInv' /\ StaysOff
    BY <1>2 DEF KeyEvents
  <2> QED
    BY UnplugKeeps, KeyDownKeeps, KeyRepeatsKeeps, KeyUpKeeps
<1>3. CASE KeyRequests
  <2>1. CASE check_for_force_binding
    BY <2>1, ForceKeeps
  <2>2. CASE ClickForKeyboard
    BY <2>2, ClickKeeps
  <2>3. ASSUME NEW mode \in {"off", "open", "locked"}, input_secure(mode)
        PROVE  KInv' /\ StaysOff
    BY <2>3, SecureKeeps
  <2>4. ASSUME NEW d \in Rec,
               \/ handle_switcher_leds(d) \/ SwitchFocus(d) \/ MouseSwitch(d)
               \/ StopDivert(d) \/ input_daemon_set_divert_keyboard_filter(d)
               \/ Take(d) \/ Release(d) \/ ViewerGone(d)
        PROVE  KInv' /\ StaysOff
    BY <2>4, LedsKeep, SwitchesKeep, DivertsKeep, FilterSetKeeps, CommandsKeep,
       ViewerGoneKeeps
  <2>5. ASSUME NEW d \in Rec, NEW td \in Rec, DivertKeyboard(d, td)
        PROVE  KInv' /\ StaysOff
    BY <2>5, DivertsKeep
  <2> QED
    BY <1>3, <2>1, <2>2, <2>3, <2>4, <2>5, Zenon DEF KeyRequests
<1> QED
  BY <1>1, <1>2, <1>3 DEF KeyboardNext

\* Every routing that the handlers of DomainFocus come to is one to start from.
THEOREM AnyRoutingStarts == Spec => [](AtRest => KeyboardInit)
<1>1. IInv => (AtRest => KeyboardInit)
  <2> SUFFICES ASSUME IInv, AtRest
               PROVE  KeyboardInit
    OBVIOUS
  <2>1. Good(sw) /\ sw \in State
    BY DEF IInv, Sound, Good
  <2>2. TypeOK /\ ParentHasDivert
    BY <2>1 DEF Good, TypeOK, ParentsIn, ParentOf, ParentHasDivert
  <2>3. \A r \in Rec :
           {sw.domains[r].key_domain, sw.domains[r].mouse_domain} # {NULL} =>
              r \in Live(sw) /\ sw.domains[r].has_divert
    <3> TAKE r \in Rec
    <3>1. r # NULL
      BY Pointers
    <3> QED
      BY <2>1, <3>1 DEF Good, TargetsOwned, ParentOf
  <2> QED
    BY <2>2, <2>3 DEF KeyboardInit
<1> QED
  BY <1>1, Soundness, PTL

\* The guests, the bindings and the filters agree with the keys that are held in
\* every state of the path (input.c, from input_read to input_inject, and every
\* function that moves the keyboard).
THEOREM KeyboardSoundness == KeyboardSpec => []KInv
<1>1. KeyboardInit => KInv
  BY KeyboardInitSound
<1>2. KInv /\ [KeyboardNext]_vars => KInv'
  BY KeyboardNextSound
<1> QED
  BY <1>1, <1>2, PTL DEF KeyboardSpec

\* The types, among them that no guest is told of a key that no keyboard has: so
\* unless KEY_SWITCHVIDEOMODE becomes Windows and P (input_inject).
THEOREM KeyboardTypeCorrect == KeyboardSpec => [](NoVideoKey => KeyboardTypeOK)
<1>1. KInv => (NoVideoKey => KeyboardTypeOK)
  <2> SUFFICES ASSUME NoVideoKey, KInv
               PROVE  KeyboardTypeOK
    OBVIOUS
  <2>1. /\ sw \in State /\ kb \in KeyboardState /\ kb.key_status \in SUBSET Keys
        /\ told \in [Rec -> SUBSET AllKeys] /\ numlock \in SUBSET Rec
        /\ \A r \in Rec : told[r] \subseteq kb.key_status
        /\ MatchedIn(Path, HeldOrMissed)
    <3>1. PICK p : p = Path
      OBVIOUS
    <3>2. PathOK(p, HeldOrMissed) /\ p.s = sw /\ p.k = kb /\ p.t = told /\ p.n = numlock
      BY <3>1, PathIs
    <3> QED
      BY <3>1, <3>2, KbFields DEF PathOK, Typed, Good, HeldAmong
  <2>2. \A b \in DOMAIN Bindings : kb.matched[b] < Len(Bindings[b].keys)
    BY <2>1, PathIs DEF MatchedIn
  <2>3. told \in [Rec -> SUBSET Keys]
    BY <2>1
  <2> QED
    BY <2>1, <2>2, <2>3 DEF KeyboardTypeOK, KInv
<1> QED
  BY <1>1, KeyboardSoundness, PTL

\* No key hangs in a guest that the keyboard has left, and the guest that has it
\* holds what key_status has (input_set, input_set_keyb, input_keyboard_reset).
THEOREM NoKeyHangs == KeyboardSpec => [](NoVideoKey => NoKeyStuck)
<1>1. KInv => (NoVideoKey => NoKeyStuck)
  <2> SUFFICES ASSUME NoVideoKey, KInv, NEW r \in Live(sw)
               PROVE  told[r] \subseteq IF r = sw.keyb_dest THEN kb.key_status ELSE {}
    BY DEF NoKeyStuck
  <2>1. PICK p : p = Path
    OBVIOUS
  <2>2. PathOK(p, HeldOrMissed) /\ p.s = sw /\ p.k = kb /\ p.t = told
    BY <2>1, PathIs
  <2> QED
    BY <2>2 DEF PathOK, HeldAmong, Live
<1> QED
  BY <1>1, KeyboardSoundness, PTL

\* A binding has come only as far as keys are held, or their release was missed
\* (input_exec_bindings, check_for_force_binding).
THEOREM MatchesAreHeld == KeyboardSpec => []MatchIsHeld
<1>1. KInv => MatchIsHeld
  <2> SUFFICES ASSUME KInv
               PROVE  MatchIsHeld
    OBVIOUS
  <2>1. PICK p : p = Path
    OBVIOUS
  <2>2. PathOK(p, HeldOrMissed) /\ p.k = kb
    BY <2>1, PathIs
  <2> QED
    BY <2>2 DEF PathOK, MatchedIn, MatchIsHeld, HeldOrMissed
<1> QED
  BY <1>1, KeyboardSoundness, PTL

\* The modifiers of a filter are held, and of the viewer that is the parent now
\* (filter_keys, and the resets of keyb_modbits in input_set and input_set_keyb).
THEOREM FilterModbitsHeld == KeyboardSpec => []ModbitsHeld
<1>1. KInv => ModbitsHeld
  <2> SUFFICES ASSUME KInv
               PROVE  ModbitsHeld
    OBVIOUS
  <2>1. PICK p : p = Path
    OBVIOUS
  <2>2. PathOK(p, HeldOrMissed) /\ p.s = sw /\ p.k = kb
    BY <2>1, PathIs
  <2> QED
    BY <2>2 DEF PathOK, ModbitsIn, ModbitsHeld, HeldOrMissed
<1> QED
  BY <1>1, KeyboardSoundness, PTL

\* An HVM guest that the keyboard leaves has numlock off, when nothing restores it
\* on a switch: turn_numlock_off undoes what the guest has on, before input_set,
\* input_set_keyb, input_give_keyboard and input_return_keyboard move the keyboard.
THEOREM NumlockGoesOff ==
  ASSUME ~numlock_restore
  PROVE  KeyboardSpec => NumlockOff
<1>1. KInv /\ [KeyboardNext]_vars =>
         [\A d \in Rec : Leaves(d) /\ ~is_pv_domain(sw, d) => d \notin numlock']_vars
  BY KeyboardNextSound DEF StaysOff
<1> QED
  BY <1>1, KeyboardSoundness, PTL DEF KeyboardSpec, NumlockOff

=============================================================================
