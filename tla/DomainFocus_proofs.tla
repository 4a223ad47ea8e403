------------------------ MODULE DomainFocus_proofs ------------------------
(***************************************************************************)
(* Theorems about DomainFocus.                                             *)
(***************************************************************************)
EXTENDS DomainFocus, WellFoundedInduction, TLAPS

USE DEF NULL, NoDomid, NoSlot, REBOOT, RUNNING

-----------------------------------------------------------------------------
(* The inductive invariant, stated of any value s of the statics so that   *)
(* the handlers' intermediate values can be related by it too.             *)

\* A value a parent pointer may have.
ParentOf(s, p) == p # NULL => p \in Live(s) /\ s.domains[p].has_divert

ParentsIn(s) == ParentOf(s, s.mouse_parent) /\ ParentOf(s, s.keyb_parent)

\* Only a record in use that has a divert_info names a target.
TargetsOwned(s) ==
    \A r \in Rec :
        s.domains[r].key_domain # NULL \/ s.domains[r].mouse_domain # NULL
            => ParentOf(s, r)

Good(s) == s \in State /\ ParentsIn(s) /\ TargetsOwned(s)

DomidsUniqueIn(s) ==
    \A d, e \in Live(s) :
        s.domains[d].domid = s.domains[e].domid /\ s.domains[d].domid # NoDomid
            => d = e

SlotsUniqueIn(s) ==
    \A d, e \in Live(s) :
        s.domains[d].slot = s.domains[e].slot /\ s.domains[d].slot # NoSlot
            => d = e

Sound(s) == Good(s) /\ DomidsUniqueIn(s) /\ SlotsUniqueIn(s)

-----------------------------------------------------------------------------
(* How a function may change the table of records.                         *)

\* The fields that the invariant is about.
SameFields(x, y) ==
    /\ y.initialised = x.initialised
    /\ y.domid = x.domid
    /\ y.slot = x.slot
    /\ y.has_divert = x.has_divert
    /\ y.key_domain = x.key_domain
    /\ y.mouse_domain = x.mouse_domain

SameRecord(s, t, r) == SameFields(s.domains[r], t.domains[r])

\* A function that routes and switches.
Moves(s, t) == Good(t) /\ \A r \in Rec : SameRecord(s, t, r)

\* A function that removes the record d.
Removes(s, d, t) ==
    /\ Good(t)
    /\ \A r \in Rec :
        /\ t.domains[r].domid = s.domains[r].domid
        /\ r \in Live(t) <=> r \in Live(s) /\ r # d
        /\ r # d => t.domains[r].slot = s.domains[r].slot

-----------------------------------------------------------------------------
(* Types and lookups.                                                      *)

LEMMA Pointers ==
  /\ Rec \subseteq Nat /\ NULL \notin Rec /\ Ptr = Rec \cup {NULL}
  /\ NoDomid \notin Domids
BY ConstantsAssumption DEF Rec, Ptr

LEMMA StateFields ==
  ASSUME NEW s \in State
  PROVE  /\ s.domains \in [Rec -> DomainRec]
         /\ s.mouse_dest \in Ptr /\ s.mouse_parent \in Ptr
         /\ s.keyb_dest \in Ptr /\ s.keyb_parent \in Ptr
         /\ s.keyb_waits_for_click \in BOOLEAN
         /\ s.current \in Ptr /\ s.surface_current \in Ptr
         /\ s.death_window \in SUBSET FocusSlots
BY DEF State

LEMMA DomainFields ==
  ASSUME NEW s \in State, NEW d \in Rec
  PROVE  /\ s.domains[d] \in DomainRec
         /\ s.domains[d].initialised \in BOOLEAN
         /\ s.domains[d].domid \in Domids \cup {NoDomid}
         /\ s.domains[d].slot \in Int
         /\ s.domains[d].prev_ptr \in Ptr
         /\ s.domains[d].prev_domid \in Domids \cup {NoDomid}
         /\ s.domains[d].has_divert \in BOOLEAN
         /\ s.domains[d].key_domain \in Ptr
         /\ s.domains[d].mouse_domain \in Ptr
BY DEF State, DomainRec

Lt == {ss \in Nat \X Nat : ss[1] < ss[2]}

LEMMA LtWellFounded == IsWellFoundedOn(Lt, Nat)
BY NatLessThanWellFounded, Zenon DEF OpToRel, Lt

LEMMA LtHolds ==
  ASSUME NEW a \in Nat, NEW b \in Nat, a < b
  PROVE  <<a, b>> \in Lt
<1>1. <<a, b>> \in Nat \X Nat
  OBVIOUS
<1>2. <<a, b>>[1] < <<a, b>>[2]
  OBVIOUS
<1> QED
  BY <1>1, <1>2, Zenon DEF Lt

LEMMA FirstIsMember ==
  ASSUME NEW R \in SUBSET Rec
  PROVE  /\ R = {} => First(R) = NULL
         /\ R # {} => First(R) \in R
<1>1. CASE R = {}
  BY <1>1 DEF First
<1>2. CASE R # {}
  <2>0. R \subseteq Nat
    BY Pointers
  <2>1. \E x \in R : \A y \in R : ~ (<<y, x>> \in Lt)
    BY <1>2, <2>0, LtWellFounded, WFMin
  <2>2. \A a, b \in Nat : a < b => <<a, b>> \in Lt
    BY LtHolds, Zenon
  <2>3. PICK x \in R : \A y \in R : ~ (<<y, x>> \in Lt)
    BY <2>1
  <2>4. ASSUME NEW y \in R PROVE x <= y
    <3>1. ~ (y < x)
      BY <2>0, <2>2, <2>3
    <3> QED
      BY <2>0, <3>1
  <2> QED
    BY <1>2, <2>4 DEF First
<1> QED
  BY <1>1, <1>2

LEMMA Lookups ==
  ASSUME NEW s \in State, NEW id, NEW n
  PROVE  /\ Live(s) \subseteq Rec
         /\ domain_with_domid(s, id) \in Live(s) \cup {NULL}
         /\ domain_with_domid(s, id) = NULL =>
               \A r \in Live(s) : s.domains[r].domid # id
         /\ domain_with_slot(s, n) \in Live(s) \cup {NULL}
         /\ domain_with_slot(s, n) = NULL =>
               \A r \in Live(s) : s.domains[r].slot # n
         /\ domain_with_slot(s, n) # NULL =>
               s.domains[domain_with_slot(s, n)].slot = n
         /\ domain_with_slot_and_not_domid(s, n, id) \in Live(s) \cup {NULL}
         /\ domain_uivm(s) \in Live(s) \cup {NULL}
         /\ domain_pvm(s) \in Live(s) \cup {NULL}
         /\ empty_domain(s) \in (Rec \ Live(s)) \cup {NULL}
<1>1. Live(s) \subseteq Rec
  BY DEF Live
<1>2. \A R \in SUBSET Rec :
         First(R) \in R \cup {NULL} /\ (First(R) = NULL => R = {})
  BY FirstIsMember, Pointers
<1>3. /\ domain_with_domid(s, id) \in Live(s) \cup {NULL}
      /\ domain_with_domid(s, id) = NULL =>
               \A r \in Live(s) : s.domains[r].domid # id
  BY <1>1, <1>2 DEF domain_with_domid
<1>4. /\ domain_with_slot(s, n) \in Live(s) \cup {NULL}
      /\ domain_with_slot(s, n) = NULL =>
               \A r \in Live(s) : s.domains[r].slot # n
      /\ domain_with_slot(s, n) # NULL =>
               s.domains[domain_with_slot(s, n)].slot = n
  BY <1>1, <1>2 DEF domain_with_slot
<1>5. domain_with_slot_and_not_domid(s, n, id) \in Live(s) \cup {NULL}
  BY <1>1, <1>2 DEF domain_with_slot_and_not_domid
<1>6. domain_uivm(s) \in Live(s) \cup {NULL}
  BY <1>1, <1>2 DEF domain_uivm, domain_with_slot
<1>7. domain_pvm(s) \in Live(s) \cup {NULL}
  BY <1>1, <1>2 DEF domain_pvm
<1>8. empty_domain(s) \in (Rec \ Live(s)) \cup {NULL}
  BY <1>1, <1>2 DEF empty_domain
<1> QED
  BY <1>1, <1>3, <1>4, <1>5, <1>6, <1>7, <1>8

-----------------------------------------------------------------------------
(* Routing and switching only move: one lemma for each function.           *)

Put(s, d, x) == [s EXCEPT !.domains[d] = x]

LEMMA PutUpdates ==
  ASSUME NEW s \in State, NEW d \in Rec, NEW x \in DomainRec
  PROVE  /\ Put(s, d, x) \in State
         /\ Put(s, d, x).mouse_dest = s.mouse_dest
         /\ Put(s, d, x).mouse_parent = s.mouse_parent
         /\ Put(s, d, x).keyb_dest = s.keyb_dest
         /\ Put(s, d, x).keyb_parent = s.keyb_parent
         /\ \A r \in Rec : Put(s, d, x).domains[r] =
                              IF r = d THEN x ELSE s.domains[r]
<1>1. Put(s, d, x) \in State
  BY DEF Put, State
<1>2. /\ Put(s, d, x).mouse_dest = s.mouse_dest
      /\ Put(s, d, x).mouse_parent = s.mouse_parent
      /\ Put(s, d, x).keyb_dest = s.keyb_dest
      /\ Put(s, d, x).keyb_parent = s.keyb_parent
  BY DEF Put, State
<1>3. \A r \in Rec : Put(s, d, x).domains[r] =
                              IF r = d THEN x ELSE s.domains[r]
  BY DEF Put, State
<1> QED
  BY <1>1, <1>2, <1>3

LEMMA MovesReflexive ==
  ASSUME NEW s, Good(s)
  PROVE  Moves(s, s)
BY DEF Moves, SameRecord, SameFields

LEMMA MovesGood ==
  ASSUME NEW s, NEW t, Moves(s, t)
  PROVE  Good(t)
BY DEF Moves

LEMMA MovesTransitive ==
  ASSUME NEW s, NEW t, NEW u, Moves(s, t), Moves(t, u)
  PROVE  Moves(s, u)
BY DEF Moves, SameRecord, SameFields

\* What is left to show of a function that keeps the table.
LEMMA Rerouted ==
  ASSUME NEW s, Good(s), NEW t \in State,
         \A r \in Rec : SameRecord(s, t, r),
         ParentOf(s, t.mouse_parent), ParentOf(s, t.keyb_parent)
  PROVE  Moves(s, t)
<1>1. Live(t) = Live(s)
  BY DEF Live, SameRecord, SameFields
<1>2. \A p : ParentOf(s, p) => ParentOf(t, p)
  BY <1>1 DEF ParentOf, SameRecord, SameFields, Live
<1>3. TargetsOwned(t)
  BY <1>2 DEF Good, TargetsOwned, SameRecord, SameFields
<1> QED
  BY <1>2, <1>3 DEF Moves, Good, ParentsIn

\* Writing a record of the table, its other fields apart.
LEMMA PutMoves ==
  ASSUME NEW s, Good(s), NEW d \in Rec, NEW x \in DomainRec,
         SameFields(s.domains[d], x)
  PROVE  Moves(s, Put(s, d, x))
<1>1. s \in State
  BY DEF Good
<1>2. \A r \in Rec : SameRecord(s, Put(s, d, x), r)
  BY <1>1, PutUpdates DEF SameRecord, SameFields
<1> QED
  BY <1>1, <1>2, PutUpdates, Rerouted DEF Good, ParentsIn

LEMMA SetPrevMoves ==
  ASSUME NEW s, Good(s), NEW d \in Rec,
         NEW k \in Ptr, NEW id \in Domids \cup {NoDomid}
  PROVE  Moves(s, SetPrev(s, d, k, id))
<1> DEFINE x == [s.domains[d] EXCEPT !.prev_ptr = k, !.prev_domid = id]
<1>1. s \in State /\ s.domains[d] \in DomainRec
  BY DomainFields DEF Good
<1>2. SetPrev(s, d, k, id) = Put(s, d, x)
  BY DEF SetPrev, Put
<1>3. x \in DomainRec /\ SameFields(s.domains[d], x)
  BY <1>1 DEF DomainRec, SameFields
<1> HIDE DEF x
<1> QED
  BY <1>1, <1>2, <1>3, PutMoves

LEMMA SetKbdMoves ==
  ASSUME NEW s, Good(s), NEW d \in Rec
  PROVE  Moves(s, set_kbd_domain(s, d))
<1> DEFINE t == set_kbd_domain(s, d)
<1>1. /\ s \in State /\ s.domains[d].key_domain \in Ptr
      /\ d \in Ptr /\ NULL \in Ptr /\ s.keyb_waits_for_click \in BOOLEAN
  BY DomainFields, StateFields DEF Good, Ptr
<1>2. /\ t \in State
      /\ t.domains = s.domains
      /\ t.mouse_parent = s.mouse_parent
      /\ t.keyb_parent # NULL =>
            t.keyb_parent = d /\ s.domains[d].key_domain # NULL
  <2>1. CASE s.domains[d].key_domain # NULL
    BY <1>1, <2>1 DEF set_kbd_domain, State
  <2>2. CASE s.domains[d].key_domain = NULL
    BY <1>1, <2>2 DEF set_kbd_domain, State
  <2> QED
    BY <2>1, <2>2
<1> HIDE DEF t
<1>3. ParentOf(s, t.keyb_parent) /\ ParentOf(s, t.mouse_parent)
  BY <1>2 DEF Good, ParentsIn, TargetsOwned, ParentOf
<1> QED
  BY <1>2, <1>3, Rerouted DEF SameRecord, SameFields, t

LEMMA SetMouseMoves ==
  ASSUME NEW s, Good(s), NEW d \in Rec
  PROVE  Moves(s, set_mouse_domain(s, d))
<1> DEFINE t == set_mouse_domain(s, d)
<1>1. /\ s \in State /\ s.domains[d].mouse_domain \in Ptr
      /\ d \in Ptr /\ NULL \in Ptr
  BY DomainFields DEF Good, Ptr
<1>2. /\ t \in State
      /\ t.domains = s.domains
      /\ t.keyb_parent = s.keyb_parent
      /\ t.mouse_parent # NULL =>
            t.mouse_parent = d /\ s.domains[d].mouse_domain # NULL
  <2>1. CASE s.domains[d].mouse_domain # NULL
    BY <1>1, <2>1 DEF set_mouse_domain, State
  <2>2. CASE s.domains[d].mouse_domain = NULL
    BY <1>1, <2>2 DEF set_mouse_domain, State
  <2> QED
    BY <2>1, <2>2
<1> HIDE DEF t
<1>3. ParentOf(s, t.keyb_parent) /\ ParentOf(s, t.mouse_parent)
  BY <1>2 DEF Good, ParentsIn, TargetsOwned, ParentOf
<1> QED
  BY <1>2, <1>3, Rerouted DEF SameRecord, SameFields, t

LEMMA WaitMoves ==
  ASSUME NEW s, Good(s), NEW b \in BOOLEAN
  PROVE  Moves(s, [s EXCEPT !.keyb_waits_for_click = b])
<1> DEFINE t == [s EXCEPT !.keyb_waits_for_click = b]
<1>1. /\ t \in State /\ t.domains = s.domains
      /\ t.mouse_parent = s.mouse_parent /\ t.keyb_parent = s.keyb_parent
  BY DEF Good, State
<1> HIDE DEF t
<1>2. Moves(s, t)
  BY <1>1, Rerouted DEF SameRecord, SameFields, Good, ParentsIn
<1> QED
  BY <1>2 DEF t

LEMMA InputSetMoves ==
  ASSUME NEW s, Good(s), NEW d \in Rec
  PROVE  /\ Moves(s, input_set_mouse(s, d))
         /\ Moves(s, input_set_keyb(s, d))
         /\ Moves(s, input_set(s, d))
         /\ Moves(s, sync_mouse_domain(s, d))
         /\ Moves(s, sync_kbd_domain(s, d))
<1>1. Moves(s, input_set_mouse(s, d))
  <2> DEFINE b == ~s.keyb_waits_for_click \/ s.keyb_dest # d
             t == [s EXCEPT !.keyb_waits_for_click = b]
  <2>1. Moves(s, t)
    BY WaitMoves
  <2>2. input_set_mouse(s, d) = set_mouse_domain(t, d)
    BY DEF input_set_mouse
  <2> HIDE DEF t
  <2> QED
    BY <2>1, <2>2, SetMouseMoves, MovesGood, MovesTransitive
<1> DEFINE t == [s EXCEPT !.keyb_waits_for_click = FALSE]
<1>2. Moves(s, t)
  BY WaitMoves
<1>3. input_set_keyb(s, d) = set_kbd_domain(t, d)
  BY DEF input_set_keyb
<1>4. input_set(s, d) = set_kbd_domain(set_mouse_domain(t, d), d)
  BY DEF input_set
<1> HIDE DEF t
<1>5. Moves(s, input_set_keyb(s, d))
  BY <1>2, <1>3, SetKbdMoves, MovesGood, MovesTransitive
<1>6. Moves(s, set_mouse_domain(t, d))
  BY <1>2, SetMouseMoves, MovesGood, MovesTransitive
<1>7. Moves(s, input_set(s, d))
  BY <1>4, <1>6, SetKbdMoves, MovesGood, MovesTransitive
<1> QED
  BY <1>1, <1>5, <1>7, MovesReflexive DEF sync_mouse_domain, sync_kbd_domain

LEMMA GiveMoves ==
  ASSUME NEW s, Good(s), NEW d \in Rec
  PROVE  /\ Moves(s, input_give_keyboard(s, d))
         /\ Moves(s, input_return_keyboard(s, d))
<1>1. ASSUME NEW k \in Ptr
      PROVE  Moves(s, [s EXCEPT !.keyb_dest = k, !.keyb_parent = NULL])
  <2> DEFINE t == [s EXCEPT !.keyb_dest = k, !.keyb_parent = NULL]
  <2>1. /\ t \in State /\ t.domains = s.domains
        /\ t.mouse_parent = s.mouse_parent /\ t.keyb_parent = NULL
    BY DEF Good, State, Ptr
  <2> HIDE DEF t
  <2>2. Moves(s, t)
    BY <2>1, Rerouted DEF SameRecord, SameFields, Good, ParentsIn, ParentOf
  <2> QED
    BY <2>2 DEF t
<1>2. d \in Ptr /\ s.mouse_dest \in Ptr
  BY StateFields DEF Good, Ptr
<1> QED
  BY <1>1, <1>2, MovesReflexive DEF input_give_keyboard, input_return_keyboard

LEMMA SeamlessMoves ==
  ASSUME NEW s, Good(s), NEW d \in Rec, NEW e \in Rec
  PROVE  /\ Moves(s, input_give_keyboard_from_domain(s, d, e))
         /\ Moves(s, input_return_keyboard_to_domain(s, d, e))
<1>1. /\ e \in Ptr /\ NULL \in Ptr
      /\ s.domains[e].domid \in Domids \cup {NoDomid}
  BY DomainFields DEF Good, Ptr
<1>2. /\ Moves(s, SetPrev(s, d, e, s.domains[e].domid))
      /\ Moves(s, SetPrev(s, d, NULL, NoDomid))
  BY <1>1, SetPrevMoves
<1> QED
  BY <1>2, GiveMoves, MovesReflexive
     DEF input_give_keyboard_from_domain, input_return_keyboard_to_domain

LEMMA SaveRestoreMoves ==
  ASSUME NEW s, Good(s), NEW d \in Ptr
  PROVE  /\ Moves(s, save_prev_keyb_domain(s, d))
         /\ d # NULL => Moves(s, restore_prev_keyb_domain(s, d))
<1>1. CASE d = NULL
  BY <1>1, MovesReflexive DEF save_prev_keyb_domain
<1>2. CASE d # NULL
  <2>1. d \in Rec
    BY <1>2 DEF Ptr
  <2>2. Moves(s, save_prev_keyb_domain(s, d))
    <3>1. CASE NULL \in {s.keyb_dest, s.mouse_dest, d}
      BY <3>1, MovesReflexive DEF save_prev_keyb_domain
    <3>2. CASE NULL \notin {s.keyb_dest, s.mouse_dest, d}
      <4>1. s.keyb_dest \in Rec
        BY <3>2, StateFields DEF Good, Ptr
      <4>2. s.domains[s.keyb_dest].domid \in Domids \cup {NoDomid}
        BY <4>1, DomainFields DEF Good
      <4>3. /\ Moves(s, SetPrev(s, d, s.keyb_dest, s.domains[s.keyb_dest].domid))
            /\ Moves(s, SetPrev(s, d, NULL, NoDomid))
        BY <2>1, <4>1, <4>2, SetPrevMoves DEF Ptr
      <4> QED
        BY <3>2, <4>3 DEF save_prev_keyb_domain
    <3> QED
      BY <3>1, <3>2
  <2>3. Moves(s, restore_prev_keyb_domain(s, d))
    <3>1. s.domains[d].prev_ptr \in Ptr
      BY <2>1, DomainFields DEF Good
    <3>2. PrevUsable(s, d) => s.domains[d].prev_ptr \in Rec
      BY <3>1 DEF PrevUsable, Ptr
    <3> QED
      BY <3>2, GiveMoves, MovesReflexive DEF restore_prev_keyb_domain
  <2> QED
    BY <2>2, <2>3
<1> QED
  BY <1>1, <1>2

LEMMA ResetMoves ==
  ASSUME NEW s, Good(s), NEW d \in Rec
  PROVE  Moves(s, reset_prev_keyb_domain(s, d))
<1> DEFINE Cleared(x) == [x EXCEPT !.prev_ptr = NULL, !.prev_domid = NoDomid]
           table == [r \in Rec |->
                        IF /\ s.domains[r].initialised
                           /\ s.domains[r].prev_domid = s.domains[d].domid
                        THEN Cleared(s.domains[r])
                        ELSE s.domains[r]]
           t == [s EXCEPT !.domains = table]
<1>1. s \in State /\ s.domains \in [Rec -> DomainRec]
  BY DEF Good, State
<1>2. \A x \in DomainRec :
         /\ Cleared(x) \in DomainRec
         /\ Cleared(x).initialised = x.initialised
         /\ Cleared(x).domid = x.domid
         /\ Cleared(x).slot = x.slot
         /\ Cleared(x).has_divert = x.has_divert
         /\ Cleared(x).key_domain = x.key_domain
         /\ Cleared(x).mouse_domain = x.mouse_domain
  BY DEF DomainRec, Ptr
<1>3. reset_prev_keyb_domain(s, d) = s \/ reset_prev_keyb_domain(s, d) = t
  BY DEF reset_prev_keyb_domain
<1> HIDE DEF Cleared
<1>4. /\ table \in [Rec -> DomainRec]
      /\ \A r \in Rec : table[r] \in {s.domains[r], Cleared(s.domains[r])}
  BY <1>1, <1>2
<1> HIDE DEF table
<1>5. /\ t \in State /\ t.domains = table
      /\ t.mouse_parent = s.mouse_parent /\ t.keyb_parent = s.keyb_parent
  BY <1>1, <1>4 DEF State
<1> HIDE DEF t
<1>6. \A r \in Rec : SameRecord(s, t, r)
  BY <1>1, <1>2, <1>4, <1>5 DEF SameRecord, SameFields
<1>7. Moves(s, t)
  BY <1>5, <1>6, Rerouted DEF Good, ParentsIn
<1> QED
  BY <1>3, <1>7, MovesReflexive

LEMMA FocusFieldMoves ==
  ASSUME NEW s, Good(s), NEW d \in Ptr
  PROVE  /\ Moves(s, [s EXCEPT !.current = d])
         /\ Moves(s, [s EXCEPT !.surface_current = d])
<1> DEFINE t == [s EXCEPT !.current = d]
           u == [s EXCEPT !.surface_current = d]
<1>1. /\ t \in State /\ t.domains = s.domains
      /\ t.mouse_parent = s.mouse_parent /\ t.keyb_parent = s.keyb_parent
  BY DEF Good, State
<1>2. /\ u \in State /\ u.domains = s.domains
      /\ u.mouse_parent = s.mouse_parent /\ u.keyb_parent = s.keyb_parent
  BY DEF Good, State
<1> HIDE DEF t, u
<1>3. Moves(s, t)
  BY <1>1, Rerouted DEF SameRecord, SameFields, Good, ParentsIn
<1>4. Moves(s, u)
  BY <1>2, Rerouted DEF SameRecord, SameFields, Good, ParentsIn
<1> QED
  BY <1>3, <1>4 DEF t, u

LEMMA SwitchMoves ==
  ASSUME NEW s, Good(s), NEW d \in Ptr, NEW mouse_switch, NEW shown
  PROVE  /\ Moves(s, switcher_switch_graphic(s, d, shown))
         /\ Moves(s, switcher_switch(s, d, mouse_switch, shown))
<1>1. ASSUME NEW t, Good(t)
      PROVE  Moves(t, switcher_switch_graphic(t, d, shown))
  BY <1>1, FocusFieldMoves, MovesReflexive DEF switcher_switch_graphic
<1>2. ASSUME NEW t, Good(t), NEW e \in Rec
      PROVE  Moves(t, TakeFocus(t, e, mouse_switch))
  <2> DEFINE u == [t EXCEPT !.current = e]
  <2>1. Moves(t, u)
    BY <1>2, FocusFieldMoves DEF Ptr
  <2>2. \/ TakeFocus(t, e, mouse_switch) = input_set_mouse(u, e)
        \/ TakeFocus(t, e, mouse_switch) = input_set(u, e)
        \/ TakeFocus(t, e, mouse_switch) =
              restore_prev_keyb_domain(input_set(u, e), e)
    BY DEF TakeFocus
  <2> HIDE DEF u
  <2>3. Moves(t, input_set_mouse(u, e)) /\ Moves(t, input_set(u, e))
    BY <2>1, InputSetMoves, MovesGood, MovesTransitive
  <2>4. Moves(t, restore_prev_keyb_domain(input_set(u, e), e))
    BY <2>3, SaveRestoreMoves, Pointers, MovesGood, MovesTransitive
  <2> QED
    BY <2>2, <2>3, <2>4
<1>3. Moves(s, switcher_switch(s, d, mouse_switch, shown))
  <2>1. CASE d = NULL
    BY <2>1, MovesReflexive DEF switcher_switch
  <2>2. CASE d # NULL
    <3> DEFINE saved == IF s.keyb_waits_for_click THEN s
                        ELSE save_prev_keyb_domain(s, s.current)
               graphic == IF s.domains[d].disabled_surface THEN saved
                          ELSE switcher_switch_graphic(saved, d, shown)
    <3>1. d \in Rec /\ s.current \in Ptr
      BY <2>2, StateFields DEF Good, Ptr
    <3>2. Moves(s, saved)
      BY <3>1, SaveRestoreMoves, MovesReflexive
    <3>3. Moves(s, graphic)
      BY <1>1, <3>2, MovesGood, MovesTransitive
    <3>4. \/ switcher_switch(s, d, mouse_switch, shown) = saved
          \/ switcher_switch(s, d, mouse_switch, shown) =
                TakeFocus(graphic, d, mouse_switch)
      BY <2>2 DEF switcher_switch
    <3> HIDE DEF saved, graphic
    <3>5. Moves(s, TakeFocus(graphic, d, mouse_switch))
      BY <1>2, <3>1, <3>3, MovesGood, MovesTransitive
    <3> QED
      BY <3>2, <3>4, <3>5
  <2> QED
    BY <2>1, <2>2
<1> QED
  BY <1>1, <1>3

LEMMA SwitchToUivmMoves ==
  ASSUME NEW s, Good(s), NEW shown
  PROVE  Moves(s, switcher_switch(s, domain_uivm(s), FALSE, shown))
<1>1. domain_uivm(s) \in Ptr
  BY Lookups DEF Good, Ptr
<1> QED
  BY <1>1, SwitchMoves

LEMMA SwitcherGoneMoves ==
  ASSUME NEW s, Good(s), NEW d \in Rec, NEW shown
  PROVE  /\ Moves(s, switcher_domain_gone(s, d, shown))
         /\ Moves(s, switcher_s3(s, d, shown))
<1>1. Moves(s, [s EXCEPT !.surface_current = NULL])
  BY FocusFieldMoves DEF Ptr
<1>2. Moves(s, [s EXCEPT !.current = NULL])
  BY FocusFieldMoves DEF Ptr
<1>3. ASSUME NEW t, Moves(s, t)
      PROVE  Moves(s, switcher_switch(t, domain_uivm(t), FALSE, shown))
  BY <1>3, SwitchToUivmMoves, MovesGood, MovesTransitive
<1>4. Moves(s, switcher_domain_gone(s, d, shown))
  BY <1>1, <1>2, <1>3, MovesReflexive DEF switcher_domain_gone
<1>5. Moves(s, switcher_s3(s, d, shown))
  BY SwitchToUivmMoves, MovesReflexive DEF switcher_s3
<1> QED
  BY <1>4, <1>5

LEMMA FocusMoves ==
  ASSUME NEW s, Good(s), NEW d \in Rec, NEW match, NEW shown
  PROVE  /\ Moves(s, focus_expect_death(s, d))
         /\ Moves(s, focus_dont_expect_death(s, d))
         /\ Moves(s, focus_update_domain(s, d, match, shown))
         /\ Moves(s, focus_domain_gone(s, d, shown))
<1>1. ASSUME NEW w \in SUBSET FocusSlots
      PROVE  Moves(s, [s EXCEPT !.death_window = w])
  <2> DEFINE t == [s EXCEPT !.death_window = w]
  <2>1. /\ t \in State /\ t.domains = s.domains
        /\ t.mouse_parent = s.mouse_parent /\ t.keyb_parent = s.keyb_parent
    BY DEF Good, State
  <2> HIDE DEF t
  <2>2. Moves(s, t)
    BY <2>1, Rerouted DEF SameRecord, SameFields, Good, ParentsIn
  <2> QED
    BY <2>2 DEF t
<1>2. s.death_window \in SUBSET FocusSlots
  BY StateFields DEF Good
<1>3. Moves(s, focus_expect_death(s, d))
  BY <1>1, <1>2, MovesReflexive DEF focus_expect_death
<1>4. Moves(s, focus_dont_expect_death(s, d))
  BY <1>1, <1>2 DEF focus_dont_expect_death
<1>5. Moves(s, focus_update_domain(s, d, match, shown))
  <2> DEFINE t == focus_dont_expect_death(s, d)
  <2>1. \/ focus_update_domain(s, d, match, shown) \in {s, t}
        \/ focus_update_domain(s, d, match, shown) =
              switcher_switch(t, d, FALSE, shown)
    BY DEF focus_update_domain
  <2> HIDE DEF t
  <2>2. Moves(s, t)
    BY <1>4 DEF t
  <2>3. d \in Ptr
    BY DEF Ptr
  <2> QED
    <3>1. Moves(s, switcher_switch(t, d, FALSE, shown))
      BY <2>2, <2>3, SwitchMoves, MovesGood, MovesTransitive
    <3>2. Moves(s, s)
      BY MovesReflexive
    <3> QED
      BY <2>1, <2>2, <3>1, <3>2
<1>6. Moves(s, focus_domain_gone(s, d, shown))
  BY SwitchToUivmMoves, MovesReflexive DEF focus_domain_gone
<1> QED
  BY <1>3, <1>4, <1>5, <1>6

-----------------------------------------------------------------------------
(* Removing a record removes that record alone.                            *)

LEMMA FreeRecordRemoves ==
  ASSUME NEW s, Good(s), NEW d \in Rec
  PROVE  Removes(s, d, input_domain_gone(FreeRecord(s, d), d))
<1> DEFINE q == reset_prev_keyb_domain(s, d)
           x == [q.domains[d] EXCEPT
                   !.initialised = FALSE, !.slot = NoSlot, !.is_pvm = FALSE,
                   !.client = FALSE, !.vkbd = FALSE, !.watched = FALSE,
                   !.prev_ptr = NULL, !.prev_domid = NoDomid,
                   !.has_divert = FALSE, !.key_domain = NULL,
                   !.mouse_domain = NULL, !.key_follows = FALSE]
           u == Put(q, d, x)
           t == input_domain_gone(u, d)
<1>1. Moves(s, q)
  BY ResetMoves
<1>2. FreeRecord(s, d) = u
  BY DEF FreeRecord, Put
<1> HIDE DEF q
<1>3. q \in State /\ q.domains[d] \in DomainRec
  BY <1>1, DomainFields DEF Moves, Good
<1>4. /\ x \in DomainRec
      /\ ~x.initialised /\ x.domid = q.domains[d].domid
      /\ x.key_domain = NULL /\ x.mouse_domain = NULL
  <2> DEFINE Z(y) == [y EXCEPT
                   !.initialised = FALSE, !.slot = NoSlot, !.is_pvm = FALSE,
                   !.client = FALSE, !.vkbd = FALSE, !.watched = FALSE,
                   !.prev_ptr = NULL, !.prev_domid = NoDomid,
                   !.has_divert = FALSE, !.key_domain = NULL,
                   !.mouse_domain = NULL, !.key_follows = FALSE]
  <2>1. ASSUME NEW y \in DomainRec
        PROVE  /\ Z(y) \in DomainRec
               /\ ~Z(y).initialised /\ Z(y).domid = y.domid
               /\ Z(y).key_domain = NULL /\ Z(y).mouse_domain = NULL
    <3>1. NULL \in Ptr /\ NoSlot \in Int
      BY DEF Ptr
    <3>2. Z(y) \in DomainRec
      BY <3>1, ZenonT(60) DEF DomainRec
    <3>3. ~Z(y).initialised
      BY DEF DomainRec
    <3>4. Z(y).domid = y.domid
      BY DEF DomainRec
    <3>5. Z(y).key_domain = NULL
      BY DEF DomainRec
    <3>6. Z(y).mouse_domain = NULL
      BY DEF DomainRec
    <3> QED
      BY <3>2, <3>3, <3>4, <3>5, <3>6
  <2>2. x = Z(q.domains[d])
    OBVIOUS
  <2> HIDE DEF x, Z
  <2> QED
    BY <1>3, <2>1, <2>2
<1> HIDE DEF x
<1>5. /\ u \in State
      /\ u.mouse_parent = q.mouse_parent /\ u.keyb_parent = q.keyb_parent
      /\ \A r \in Rec : u.domains[r] = IF r = d THEN x ELSE q.domains[r]
  BY <1>3, <1>4, PutUpdates
<1> HIDE DEF u
<1>6. /\ t \in State /\ t.domains = u.domains
      /\ t.mouse_parent = IF u.mouse_parent = d THEN NULL ELSE u.mouse_parent
      /\ t.keyb_parent = IF u.keyb_parent = d THEN NULL ELSE u.keyb_parent
  <2> DEFINE V(a, b, c, e) ==
               [u EXCEPT !.mouse_dest = a, !.keyb_dest = b,
                         !.keyb_parent = c, !.mouse_parent = e]
  <2>1. ASSUME NEW a \in Ptr, NEW b \in Ptr, NEW c \in Ptr, NEW e \in Ptr
        PROVE  /\ V(a, b, c, e) \in State /\ V(a, b, c, e).domains = u.domains
               /\ V(a, b, c, e).mouse_parent = e
               /\ V(a, b, c, e).keyb_parent = c
    BY <1>5 DEF State
  <2> DEFINE md == IF u.mouse_dest = d \/ u.mouse_parent = d THEN NULL
                   ELSE u.mouse_dest
             kd == IF u.keyb_dest = d \/ u.keyb_parent = d THEN NULL
                   ELSE u.keyb_dest
             kp == IF u.keyb_parent = d THEN NULL ELSE u.keyb_parent
             mp == IF u.mouse_parent = d THEN NULL ELSE u.mouse_parent
  <2>2. md \in Ptr /\ kd \in Ptr /\ kp \in Ptr /\ mp \in Ptr
    BY <1>5, StateFields DEF Ptr
  <2>3. t = V(md, kd, kp, mp)
    BY DEF input_domain_gone
  <2> HIDE DEF t
  <2>4. /\ t \in State /\ t.domains = u.domains
        /\ t.mouse_parent = mp /\ t.keyb_parent = kp
    <3> HIDE DEF md, kd, mp, kp, V
    <3> QED
      BY <2>1, <2>2, <2>3
  <2> QED
    BY <2>4
<1> HIDE DEF t
<1>7. \A r \in Rec : r # d => SameFields(s.domains[r], t.domains[r])
  BY <1>1, <1>5, <1>6 DEF Moves, SameRecord, SameFields
<1>8. \A p : p # d /\ ParentOf(q, p) => ParentOf(t, p)
  BY <1>5, <1>6 DEF ParentOf, Live
<1>9. Good(t)
  <2>1. ParentsIn(q) /\ TargetsOwned(q)
    BY <1>1 DEF Moves, Good
  <2>2. ParentsIn(t)
    BY <1>5, <1>6, <1>8, <2>1 DEF ParentsIn, ParentOf
  <2>3. TargetsOwned(t)
    BY <1>4, <1>5, <1>6, <1>8, <2>1 DEF TargetsOwned
  <2> QED
    BY <1>6, <2>2, <2>3 DEF Good
<1>10. t.domains[d].domid = s.domains[d].domid /\ ~t.domains[d].initialised
  BY <1>1, <1>4, <1>5, <1>6 DEF Moves, SameRecord, SameFields
<1>11. Removes(s, d, t)
  BY <1>7, <1>9, <1>10 DEF Removes, SameFields, Live
<1> QED
  BY <1>2, <1>11 DEF t

LEMMA CheckDivertsKeeps ==
  ASSUME NEW s, Good(s), NEW d \in Rec
  PROVE  /\ Good(check_diverts_for_the_dead(s, d))
         /\ \A r \in Rec :
              LET x == s.domains[r]
                  y == check_diverts_for_the_dead(s, d).domains[r]
              IN  /\ y.initialised = x.initialised
                  /\ y.domid = x.domid
                  /\ y.slot = x.slot
<1> DEFINE G(x) == divert_domain_gone(x, d)
           table == [r \in Rec |-> G(s.domains[r])]
           t == [s EXCEPT !.domains = table]
<1>1. check_diverts_for_the_dead(s, d) = t
  BY DEF check_diverts_for_the_dead
<1>2. s \in State /\ s.domains \in [Rec -> DomainRec]
  BY DEF Good, State
<1>3. \A x \in DomainRec :
         /\ G(x) \in DomainRec
         /\ G(x).initialised = x.initialised
         /\ G(x).domid = x.domid
         /\ G(x).slot = x.slot
         /\ G(x).has_divert = x.has_divert
         /\ G(x).key_domain \in {NULL, x.key_domain}
         /\ G(x).mouse_domain \in {NULL, x.mouse_domain}
  <2> DEFINE W(x, k, m) == [x EXCEPT !.key_domain = k, !.mouse_domain = m]
  <2>1. ASSUME NEW x \in DomainRec, NEW k \in Ptr, NEW m \in Ptr
        PROVE  /\ W(x, k, m) \in DomainRec
               /\ W(x, k, m).initialised = x.initialised
               /\ W(x, k, m).domid = x.domid
               /\ W(x, k, m).slot = x.slot
               /\ W(x, k, m).has_divert = x.has_divert
               /\ W(x, k, m).key_domain = k /\ W(x, k, m).mouse_domain = m
    BY DEF DomainRec
  <2>2. ASSUME NEW x \in DomainRec
        PROVE  \E k \in {NULL, x.key_domain}, m \in {NULL, x.mouse_domain} :
                  G(x) = W(x, k, m)
    BY DEF divert_domain_gone
  <2>3. \A x \in DomainRec : {NULL, x.key_domain, x.mouse_domain} \subseteq Ptr
    BY DEF DomainRec, Ptr
  <2> HIDE DEF G, W
  <2> SUFFICES ASSUME NEW x \in DomainRec
               PROVE  /\ G(x) \in DomainRec
                      /\ G(x).initialised = x.initialised
                      /\ G(x).domid = x.domid
                      /\ G(x).slot = x.slot
                      /\ G(x).has_divert = x.has_divert
                      /\ G(x).key_domain \in {NULL, x.key_domain}
                      /\ G(x).mouse_domain \in {NULL, x.mouse_domain}
    OBVIOUS
  <2>4. PICK k \in {NULL, x.key_domain}, m \in {NULL, x.mouse_domain} :
               G(x) = W(x, k, m)
    BY <2>2
  <2>5. k \in Ptr /\ m \in Ptr
    BY <2>3
  <2> QED
    BY <2>1, <2>4, <2>5
<1> HIDE DEF G
<1>4. /\ table \in [Rec -> DomainRec]
      /\ \A r \in Rec : table[r] = G(s.domains[r])
  BY <1>2, <1>3
<1> HIDE DEF table
<1>5. /\ t \in State /\ t.domains = table
      /\ t.mouse_parent = s.mouse_parent /\ t.keyb_parent = s.keyb_parent
  BY <1>2, <1>4 DEF State
<1> HIDE DEF t
<1>6. \A p : ParentOf(s, p) => ParentOf(t, p)
  BY <1>2, <1>3, <1>4, <1>5 DEF ParentOf, Live
<1>7. TargetsOwned(t)
  BY <1>2, <1>3, <1>4, <1>5, <1>6 DEF Good, TargetsOwned
<1>8. Good(t)
  BY <1>5, <1>6, <1>7 DEF Good, ParentsIn
<1> QED
  BY <1>1, <1>2, <1>3, <1>4, <1>5, <1>8

LEMMA RemovesMoves ==
  ASSUME NEW s, NEW d, NEW t, NEW u, Removes(s, d, t), Moves(t, u)
  PROVE  Removes(s, d, u)
BY DEF Removes, Moves, SameRecord, SameFields, Live

LEMMA MovesRemoves ==
  ASSUME NEW s, NEW d, NEW t, NEW u, Moves(s, t), Removes(t, d, u)
  PROVE  Removes(s, d, u)
BY DEF Removes, Moves, SameRecord, SameFields, Live

LEMMA GoneRemoves ==
  ASSUME NEW s, Good(s), NEW d \in Rec, NEW shown
  PROVE  /\ Removes(s, d, Forget(s, d, shown))
         /\ Removes(s, d, domain_gone(s, d, shown))
<1>1. ASSUME NEW z, Good(z)
      PROVE  Removes(z, d, Forget(z, d, shown))
  <2> DEFINE t == input_domain_gone(FreeRecord(z, d), d)
             u == switcher_domain_gone(t, d, shown)
             v == check_diverts_for_the_dead(u, d)
  <2>1. Removes(z, d, t)
    BY <1>1, FreeRecordRemoves
  <2>2. Forget(z, d, shown) = v
    BY DEF Forget
  <2> HIDE DEF t
  <2>3. Moves(t, u)
    BY <2>1, SwitcherGoneMoves DEF Removes
  <2> HIDE DEF u
  <2>4. Removes(z, d, u)
    BY <2>1, <2>3, RemovesMoves
  <2>5. /\ Good(v)
        /\ \A r \in Rec : /\ v.domains[r].initialised = u.domains[r].initialised
                          /\ v.domains[r].domid = u.domains[r].domid
                          /\ v.domains[r].slot = u.domains[r].slot
    BY <2>3, CheckDivertsKeeps, MovesGood
  <2> HIDE DEF v
  <2>6. Removes(z, d, v)
    BY <2>4, <2>5 DEF Removes, Live
  <2> QED
    BY <2>2, <2>6
<1>2. Moves(s, focus_domain_gone(s, d, shown))
  BY FocusMoves
<1>3. Removes(s, d, Forget(focus_domain_gone(s, d, shown), d, shown))
  BY <1>1, <1>2, MovesGood, MovesRemoves
<1> QED
  BY <1>1, <1>3 DEF domain_gone

-----------------------------------------------------------------------------
(* Domain ids and slots stay unique.                                       *)

LEMMA MovesSound ==
  ASSUME NEW s, NEW t, Sound(s), Moves(s, t)
  PROVE  Sound(t)
<1>1. Good(t) /\ Live(t) = Live(s) /\ Live(s) \subseteq Rec
  BY DEF Moves, Live, SameRecord, SameFields
<1>2. \A r \in Rec : /\ t.domains[r].domid = s.domains[r].domid
                     /\ t.domains[r].slot = s.domains[r].slot
  BY DEF Moves, SameRecord, SameFields
<1> QED
  BY <1>1, <1>2 DEF Sound, DomidsUniqueIn, SlotsUniqueIn

LEMMA RemovesSound ==
  ASSUME NEW s, NEW d, NEW t, Sound(s), Removes(s, d, t)
  PROVE  Sound(t)
<1>1. Good(t) /\ Live(t) \subseteq Live(s) /\ Live(t) \subseteq Rec
  BY DEF Removes, Live
<1>2. \A r \in Live(t) : /\ t.domains[r].domid = s.domains[r].domid
                         /\ t.domains[r].slot = s.domains[r].slot
  BY DEF Removes, Live
<1> QED
  BY <1>1, <1>2 DEF Sound, DomidsUniqueIn, SlotsUniqueIn

LEMMA SalvageRemoves ==
  ASSUME NEW s, Good(s), NEW slot, NEW id, NEW dead, NEW shown
  PROVE  \/ SalvageSlot(s, slot, id, dead, shown) = s
         \/ \E d \in Rec : Removes(s, d, SalvageSlot(s, slot, id, dead, shown))
<1> DEFINE d == domain_with_slot_and_not_domid(s, slot, id)
<1>1. d \in Rec \cup {NULL}
  BY Lookups DEF Good
<1>2. d # NULL => Removes(s, d, domain_gone(s, d, shown))
  BY <1>1, GoneRemoves
<1>3. SalvageSlot(s, slot, id, dead, shown) \in {s, domain_gone(s, d, shown)}
      /\ (SalvageSlot(s, slot, id, dead, shown) # s => d # NULL)
  BY DEF SalvageSlot
<1> HIDE DEF d
<1> QED
  BY <1>1, <1>2, <1>3

LEMMA SalvageSound ==
  ASSUME NEW s, Sound(s), NEW slot, NEW id, NEW dead, NEW shown,
         NEW t, t = SalvageSlot(s, slot, id, dead, shown)
  PROVE  /\ Sound(t)
         /\ Live(t) \subseteq Live(s)
         /\ \A r \in Rec : t.domains[r].domid = s.domains[r].domid
<1>1. t = s \/ \E d \in Rec : Removes(s, d, t)
  BY SalvageRemoves DEF Sound
<1>2. CASE t = s
  BY <1>2
<1>3. CASE \E d \in Rec : Removes(s, d, t)
  <2>1. PICK d \in Rec : Removes(s, d, t)
    BY <1>3
  <2>2. Sound(t)
    BY <2>1, RemovesSound
  <2>3. /\ Live(t) \subseteq Live(s)
        /\ \A r \in Rec : t.domains[r].domid = s.domains[r].domid
    BY <2>1 DEF Removes, Live
  <2> QED
    BY <2>2, <2>3
<1> QED
  BY <1>1, <1>2, <1>3

\* Writing a record whose divert_info stays, or whose targets are NULL.
LEMMA PutGood ==
  ASSUME NEW s, Good(s), NEW d \in Rec, NEW x \in DomainRec,
         d \in Live(s) => x.initialised /\ x.has_divert = s.domains[d].has_divert,
         x.key_domain = s.domains[d].key_domain \/ x.key_domain = NULL,
         x.mouse_domain = s.domains[d].mouse_domain \/ x.mouse_domain = NULL
  PROVE  Good(Put(s, d, x))
<1> DEFINE t == Put(s, d, x)
<1>1. s \in State /\ ParentsIn(s) /\ TargetsOwned(s)
  BY DEF Good
<1>2. /\ t \in State
      /\ t.mouse_parent = s.mouse_parent /\ t.keyb_parent = s.keyb_parent
      /\ \A r \in Rec : t.domains[r] = IF r = d THEN x ELSE s.domains[r]
  BY <1>1, PutUpdates
<1> HIDE DEF t
<1>3. \A p : ParentOf(s, p) => ParentOf(t, p)
  BY <1>2 DEF ParentOf, Live
<1>4. ParentsIn(t)
  BY <1>1, <1>2, <1>3 DEF ParentsIn
<1>5. TargetsOwned(t)
  BY <1>1, <1>2, <1>3 DEF TargetsOwned
<1>6. Good(t)
  BY <1>2, <1>4, <1>5 DEF Good
<1> QED
  BY <1>6 DEF t

\* The same, of a domid and a slot that no other record has.
LEMMA PutSound ==
  ASSUME NEW s, Sound(s), NEW d \in Rec, NEW x \in DomainRec,
         d \in Live(s) => x.initialised /\ x.has_divert = s.domains[d].has_divert,
         x.key_domain = s.domains[d].key_domain \/ x.key_domain = NULL,
         x.mouse_domain = s.domains[d].mouse_domain \/ x.mouse_domain = NULL,
         x.domid # NoDomid =>
            \A r \in Live(s) \ {d} : s.domains[r].domid # x.domid,
         x.slot # NoSlot =>
            \A r \in Live(s) \ {d} : s.domains[r].slot # x.slot
  PROVE  Sound(Put(s, d, x))
<1> DEFINE t == Put(s, d, x)
<1>1. s \in State /\ DomidsUniqueIn(s) /\ SlotsUniqueIn(s)
  BY DEF Sound, Good
<1>2. \A r \in Rec : t.domains[r] = IF r = d THEN x ELSE s.domains[r]
  BY <1>1, PutUpdates
<1>3. Good(t)
  BY PutGood DEF Sound
<1> HIDE DEF t
<1>6. Live(t) \subseteq Live(s) \cup {d} /\ Live(t) \subseteq Rec
  BY <1>2 DEF Live
<1>7. \A r \in Live(t) \ {d} : t.domains[r] = s.domains[r] /\ r \in Live(s)
  BY <1>2, <1>6
<1>8. DomidsUniqueIn(t)
  <2> SUFFICES ASSUME NEW q \in Live(t), NEW r \in Live(t),
                      t.domains[q].domid = t.domains[r].domid,
                      t.domains[q].domid # NoDomid
               PROVE  q = r
    BY DEF DomidsUniqueIn
  <2>1. t.domains[d].domid = x.domid
    BY <1>2
  <2> QED
    BY <1>1, <1>7, <2>1 DEF DomidsUniqueIn
<1>9. SlotsUniqueIn(t)
  <2> SUFFICES ASSUME NEW q \in Live(t), NEW r \in Live(t),
                      t.domains[q].slot = t.domains[r].slot,
                      t.domains[q].slot # NoSlot
               PROVE  q = r
    BY DEF SlotsUniqueIn
  <2>1. t.domains[d].slot = x.slot
    BY <1>2
  <2> QED
    BY <1>1, <1>7, <2>1 DEF SlotsUniqueIn
<1> QED
  BY <1>3, <1>8, <1>9 DEF Sound, t

LEMMA SlotOf ==
  ASSUME NEW id \in Domids
  PROVE  VmSlot[id] \in Int
BY ConstantsAssumption

LEMMA AdmitSound ==
  ASSUME NEW s, Sound(s), NEW d \in Rec, NEW slot \in Int, NEW gpu \in BOOLEAN,
         domain_with_slot(s, slot) = NULL,
         \A r \in Live(s) \ {d} : s.domains[r].domid # s.domains[d].domid
  PROVE  Sound(Admit(s, d, slot, gpu))
<1> DEFINE x == [s.domains[d] EXCEPT
                    !.slot = slot, !.is_pvm = FALSE, !.vkbd = TRUE,
                    !.watched = TRUE, !.has_secondary_gpu = gpu]
<1>1. s \in State /\ s.domains[d] \in DomainRec
  BY DomainFields DEF Sound, Good
<1>2. /\ x \in DomainRec /\ x.slot = slot
      /\ x.initialised = s.domains[d].initialised
      /\ x.domid = s.domains[d].domid
      /\ x.has_divert = s.domains[d].has_divert
      /\ x.key_domain = s.domains[d].key_domain
      /\ x.mouse_domain = s.domains[d].mouse_domain
  <2>1. x \in DomainRec
    BY <1>1, ZenonT(60) DEF DomainRec
  <2>2. x.slot = slot /\ x.initialised = s.domains[d].initialised
    BY <1>1 DEF DomainRec
  <2>3. /\ x.domid = s.domains[d].domid
        /\ x.has_divert = s.domains[d].has_divert
    BY <1>1 DEF DomainRec
  <2>4. /\ x.key_domain = s.domains[d].key_domain
        /\ x.mouse_domain = s.domains[d].mouse_domain
    BY <1>1 DEF DomainRec
  <2> QED
    BY <2>1, <2>2, <2>3, <2>4
<1>3. Admit(s, d, slot, gpu) = Put(s, d, x)
  BY DEF Admit, Put
<1> HIDE DEF x
<1>4. d \in Live(s) => x.initialised
  BY <1>2 DEF Live
<1>5. \A r \in Live(s) : s.domains[r].slot # x.slot
  BY <1>1, <1>2, Lookups
<1>6. Sound(Put(s, d, x))
  BY <1>2, <1>4, <1>5, PutSound
<1> QED
  BY <1>3, <1>6

LEMMA FocusUpdateSound ==
  ASSUME NEW s, Sound(s), NEW d \in Rec, NEW match, NEW shown
  PROVE  /\ Sound(focus_update_domain(s, d, match, shown))
         /\ \A m : Sound(switcher_switch(s, d, m, shown))
<1>1. d \in Ptr
  BY DEF Ptr
<1> QED
  BY <1>1, FocusMoves, SwitchMoves, MovesSound DEF Sound

LEMMA SwitcherDomidSound ==
  ASSUME NEW s, Sound(s), NEW d \in Live(s), NEW id \in Domids,
         NEW dead, NEW match, NEW shown
  PROVE  Sound(switcher_domid(s, d, id, dead, match, shown))
<1>1. CASE domain_with_domid(s, id) # NULL
  BY <1>1 DEF switcher_domid
<1>2. CASE domain_with_domid(s, id) = NULL
  <2> DEFINE slot == VmSlot[id]
             x == [s.domains[d] EXCEPT !.domid = id]
             u == Put(s, d, x)
             t == SalvageSlot(u, slot, id, dead, shown)
             gpu == id \in GpuDomains
             v == Admit(t, d, slot, gpu)
  <2>1. s \in State /\ d \in Rec /\ s.domains[d] \in DomainRec
    BY DomainFields DEF Sound, Good, Live
  <2>2. /\ x \in DomainRec /\ x.domid = id
        /\ x.initialised = s.domains[d].initialised
        /\ x.slot = s.domains[d].slot
        /\ x.has_divert = s.domains[d].has_divert
        /\ x.key_domain = s.domains[d].key_domain
        /\ x.mouse_domain = s.domains[d].mouse_domain
    BY <2>1 DEF DomainRec
  <2>3. \/ switcher_domid(s, d, id, dead, match, shown) = t
        \/ /\ domain_with_slot(t, slot) = NULL
           /\ switcher_domid(s, d, id, dead, match, shown) =
                 focus_update_domain(v, d, match, shown)
    BY <1>2 DEF switcher_domid, Put
  <2> HIDE DEF x
  <2>4. \A r \in Live(s) : s.domains[r].domid # id
    BY <1>2, <2>1, Lookups
  <2>5. x.slot # NoSlot => \A r \in Live(s) \ {d} : s.domains[r].slot # x.slot
    BY <2>2 DEF Sound, SlotsUniqueIn
  <2>6. x.initialised
    BY <2>2 DEF Live
  <2>7. Sound(u)
    BY <2>1, <2>2, <2>4, <2>5, <2>6, PutSound
  <2>8. \A r \in Rec : u.domains[r] = IF r = d THEN x ELSE s.domains[r]
    BY <2>1, <2>2, PutUpdates
  <2>9. \A r \in Live(u) \ {d} : u.domains[r].domid # id
    BY <2>4, <2>8 DEF Live
  <2> HIDE DEF u, slot
  <2>10. /\ Sound(t) /\ Live(t) \subseteq Live(u)
         /\ \A r \in Rec : t.domains[r].domid = u.domains[r].domid
    BY <2>7, SalvageSound
  <2>11. t.domains[d].domid = id
    BY <2>1, <2>2, <2>8, <2>10
  <2>12. \A r \in Live(t) \ {d} : t.domains[r].domid # t.domains[d].domid
    BY <2>9, <2>10, <2>11 DEF Live
  <2> HIDE DEF t
  <2>13. slot \in Int /\ gpu \in BOOLEAN
    BY SlotOf DEF slot
  <2> HIDE DEF gpu
  <2>14. domain_with_slot(t, slot) = NULL => Sound(v)
    BY <2>1, <2>10, <2>12, <2>13, AdmitSound
  <2> HIDE DEF v
  <2> QED
    BY <2>1, <2>3, <2>10, <2>14, FocusUpdateSound
<1> QED
  BY <1>1, <1>2

\* A field of a record that the invariant does not mention.
LEMMA PutKeepsSound ==
  ASSUME NEW s, Sound(s), NEW d \in Rec, NEW x \in DomainRec,
         SameFields(s.domains[d], x)
  PROVE  Sound(Put(s, d, x))
BY PutMoves, MovesSound DEF Sound

LEMMA CreateSound ==
  ASSUME NEW s, Sound(s), NEW d \in Rec \ Live(s), NEW id \in Domids,
         NEW dead, NEW match, NEW shown
  PROVE  Sound(domain_create(s, d, id, dead, match, shown))
<1> DEFINE x == [Blank(NoDomid) EXCEPT !.client = TRUE, !.initialised = TRUE]
           t == Put(s, d, x)
<1>1. /\ x \in DomainRec /\ x.initialised
      /\ x.domid = NoDomid /\ x.slot = NoSlot
      /\ x.key_domain = NULL /\ x.mouse_domain = NULL
  <2> DEFINE X(y) == [y EXCEPT !.client = TRUE, !.initialised = TRUE]
  <2>1. \A y \in DomainRec :
           /\ X(y) \in DomainRec /\ X(y).initialised
           /\ X(y).domid = y.domid /\ X(y).slot = y.slot
           /\ X(y).key_domain = y.key_domain
           /\ X(y).mouse_domain = y.mouse_domain
    BY DEF DomainRec
  <2>2. /\ Blank(NoDomid) \in DomainRec
        /\ Blank(NoDomid).domid = NoDomid /\ Blank(NoDomid).slot = NoSlot
        /\ Blank(NoDomid).key_domain = NULL
        /\ Blank(NoDomid).mouse_domain = NULL
    BY DEF Blank, DomainRec, Ptr
  <2>3. x = X(Blank(NoDomid))
    OBVIOUS
  <2> HIDE DEF x, X
  <2> QED
    BY <2>1, <2>2, <2>3
<1>2. \/ domain_create(s, d, id, dead, match, shown) =
            switcher_pvm_domid(t, d, id, dead, match, shown)
      \/ domain_create(s, d, id, dead, match, shown) =
            switcher_domid(t, d, id, dead, match, shown)
  BY DEF domain_create, Put
<1> HIDE DEF x
<1>3. Sound(t)
  BY <1>1, PutSound
<1>4. d \in Live(t)
  BY <1>1, PutUpdates DEF Live, Sound, Good
<1> HIDE DEF t
<1>5. Sound(switcher_domid(t, d, id, dead, match, shown))
  BY <1>3, <1>4, SwitcherDomidSound
<1>6. Sound(switcher_pvm_domid(t, d, id, dead, match, shown))
  <2> DEFINE u == switcher_domid(t, d, id, dead, match, shown)
             y == [u.domains[d] EXCEPT !.is_pvm = TRUE]
  <2>1. Sound(u)
    BY <1>5
  <2>2. switcher_pvm_domid(t, d, id, dead, match, shown) =
           switcher_switch(focus_update_domain(Put(u, d, y), d, match, shown),
                           d, FALSE, shown)
    BY DEF switcher_pvm_domid, Put
  <2> HIDE DEF u
  <2>3. u.domains[d] \in DomainRec
    BY <2>1, DomainFields DEF Sound, Good
  <2>4. y \in DomainRec /\ SameFields(u.domains[d], y)
    BY <2>3 DEF DomainRec, SameFields
  <2> HIDE DEF y
  <2>5. Sound(Put(u, d, y))
    BY <2>1, <2>4, PutKeepsSound
  <2> QED
    BY <2>2, <2>5, FocusUpdateSound
<1> QED
  BY <1>2, <1>5, <1>6

LEMMA SetupSound ==
  ASSUME NEW s, Sound(s), NEW d \in Rec \ Live(s), NEW id \in Domids,
         domain_with_domid(s, id) = NULL, NEW dead, NEW shown
  PROVE  Sound(SetupDomain(s, d, id, dead, shown))
<1> DEFINE slot == VmSlot[id]
           fresh == Put(s, d, Blank(id))
           t == SalvageSlot(fresh, slot, id, dead, shown)
           x == [t.domains[d] EXCEPT
                    !.slot = slot, !.watched = TRUE, !.initialised = TRUE]
<1>1. /\ Blank(id) \in DomainRec /\ ~Blank(id).initialised
      /\ Blank(id).domid = id /\ Blank(id).slot = NoSlot
      /\ Blank(id).key_domain = NULL /\ Blank(id).mouse_domain = NULL
  BY DEF Blank, DomainRec, Ptr
<1>2. s \in State
  BY DEF Sound, Good
<1>3. \A r \in Live(s) : s.domains[r].domid # id
  BY <1>2, Lookups
<1>4. \/ SetupDomain(s, d, id, dead, shown) = domain_release(fresh, d, shown)
      \/ SetupDomain(s, d, id, dead, shown) = domain_release(t, d, shown)
      \/ /\ domain_with_slot(t, slot) = NULL
         /\ SetupDomain(s, d, id, dead, shown) = Put(t, d, x)
  BY DEF SetupDomain, Put
<1>5. Sound(fresh)
  BY <1>1, <1>3, PutSound
<1>6. \A r \in Rec : fresh.domains[r] = IF r = d THEN Blank(id) ELSE s.domains[r]
  BY <1>1, <1>2, PutUpdates
<1> HIDE DEF fresh, slot
<1>7. /\ Sound(t) /\ Live(t) \subseteq Live(fresh)
      /\ \A r \in Rec : t.domains[r].domid = fresh.domains[r].domid
  BY <1>5, SalvageSound
<1>8. /\ d \notin Live(t) /\ t.domains[d].domid = id
      /\ \A r \in Live(t) : t.domains[r].domid # id
  BY <1>1, <1>3, <1>6, <1>7 DEF Live
<1> HIDE DEF t
<1>9. \A z : Sound(z) => Sound(domain_release(z, d, shown))
  BY GoneRemoves, RemovesSound DEF domain_release, Sound
<1>10. ASSUME domain_with_slot(t, slot) = NULL
       PROVE  Sound(Put(t, d, x))
  <2>1. t \in State /\ t.domains[d] \in DomainRec /\ slot \in Int
    BY <1>7, DomainFields, SlotOf DEF Sound, Good, slot
  <2>2. /\ x \in DomainRec /\ x.domid = id /\ x.slot = slot
        /\ x.key_domain = t.domains[d].key_domain
        /\ x.mouse_domain = t.domains[d].mouse_domain
    BY <1>8, <2>1 DEF DomainRec
  <2> HIDE DEF x
  <2>3. \A r \in Live(t) : t.domains[r].slot # slot
    BY <1>10, <2>1, Lookups
  <2> QED
    BY <1>7, <1>8, <2>2, <2>3, PutSound
<1> QED
  BY <1>4, <1>5, <1>7, <1>9, <1>10

LEMMA AttachSound ==
  ASSUME NEW s, Sound(s), NEW d \in Rec, NEW id, NEW match, NEW shown
  PROVE  Sound(AttachVkbd(s, d, id, match, shown))
<1> DEFINE x == [s.domains[d] EXCEPT !.vkbd = TRUE]
<1>1. s.domains[d] \in DomainRec
  BY DomainFields DEF Sound, Good
<1>2. x \in DomainRec /\ SameFields(s.domains[d], x)
  BY <1>1 DEF DomainRec, SameFields
<1>3. \/ AttachVkbd(s, d, id, match, shown) = s
      \/ AttachVkbd(s, d, id, match, shown) =
            focus_update_domain(Put(s, d, x), d, match, shown)
  BY DEF AttachVkbd, Put
<1> HIDE DEF x
<1> QED
  BY <1>2, <1>3, PutKeepsSound, FocusUpdateSound

-----------------------------------------------------------------------------
(* The steps, one lemma for each group of actions.                         *)

LEMMA InitSound == Init => Sound(sw)
<1> SUFFICES ASSUME Init PROVE Sound(sw)
  OBVIOUS
<1>1. Blank(NoDomid) \in DomainRec
  BY DEF Blank, DomainRec, Ptr
<1>2. sw \in State
  BY <1>1 DEF Init, State, Ptr
<1>3. Live(sw) = {}
  BY DEF Init, Live, Blank
<1>4. ParentsIn(sw)
  BY DEF Init, ParentsIn, ParentOf
<1>5. TargetsOwned(sw)
  BY DEF Init, TargetsOwned, Blank
<1> QED
  BY <1>2, <1>3, <1>4, <1>5 DEF Sound, Good, DomidsUniqueIn, SlotsUniqueIn

LEMMA SetSlotSound ==
  ASSUME Sound(sw), NEW d \in Rec, NEW slot \in SlotCalls,
         input_daemon_set_slot(d, slot)
  PROVE  Sound(sw')
<1> DEFINE e == domain_with_slot(sw, slot)
           old == sw.domains[d].slot
           X(s, r, n) == [s.domains[r] EXCEPT !.slot = n]
           u == Put(sw, e, X(sw, e, old))
<1>1. sw \in State /\ d \in Live(sw) /\ old \in Int /\ slot \in Int
  BY ConstantsAssumption, DomainFields DEF input_daemon_set_slot, Sound, Good
<1>2. \A s \in State, r \in Rec, n \in Int :
         /\ X(s, r, n) \in DomainRec /\ X(s, r, n).slot = n
         /\ X(s, r, n).initialised = s.domains[r].initialised
         /\ X(s, r, n).domid = s.domains[r].domid
         /\ X(s, r, n).has_divert = s.domains[r].has_divert
         /\ X(s, r, n).key_domain = s.domains[r].key_domain
         /\ X(s, r, n).mouse_domain = s.domains[r].mouse_domain
  <2> SUFFICES ASSUME NEW s \in State, NEW r \in Rec, NEW n \in Int,
                      NEW x \in DomainRec, x = s.domains[r]
               PROVE  LET y == [x EXCEPT !.slot = n]
                      IN  /\ y \in DomainRec /\ y.slot = n
                          /\ y.initialised = x.initialised
                          /\ y.domid = x.domid
                          /\ y.has_divert = x.has_divert
                          /\ y.key_domain = x.key_domain
                          /\ y.mouse_domain = x.mouse_domain
    BY DomainFields
  <2> QED
    BY DEF DomainRec
<1>3. \/ /\ slot < 0 \/ e = NULL
         /\ sw' = Put(sw, d, X(sw, d, slot))
      \/ /\ e # NULL
         /\ sw' = Put(u, d, X(u, d, slot))
  BY DEF input_daemon_set_slot, Put
<1> HIDE DEF X
<1>4. \A r \in Live(sw) \ {d} : sw.domains[r].domid # sw.domains[d].domid
                                  \/ sw.domains[d].domid = NoDomid
  BY <1>1 DEF Sound, DomidsUniqueIn
<1>5. CASE (slot < 0 \/ e = NULL) /\ sw' = Put(sw, d, X(sw, d, slot))
  <2>1. slot < 0 => slot = NoSlot
    BY ConstantsAssumption
  <2>2. e = NULL => \A r \in Live(sw) : sw.domains[r].slot # slot
    BY <1>1, Lookups
  <2>3. /\ X(sw, d, slot) \in DomainRec
        /\ X(sw, d, slot).initialised
        /\ X(sw, d, slot).has_divert = sw.domains[d].has_divert
        /\ X(sw, d, slot).key_domain = sw.domains[d].key_domain
        /\ X(sw, d, slot).mouse_domain = sw.domains[d].mouse_domain
        /\ X(sw, d, slot).domid = sw.domains[d].domid
        /\ X(sw, d, slot).slot = slot
    BY <1>1, <1>2 DEF Live
  <2> QED
    BY <1>1, <1>4, <1>5, <2>1, <2>2, <2>3, PutSound
<1>6. CASE e # NULL /\ sw' = Put(u, d, X(u, d, slot))
  <2>1. e \in Live(sw) /\ sw.domains[e].slot = slot /\ Live(sw) \subseteq Rec
    BY <1>1, <1>6, Lookups
  <2> HIDE DEF e
  <2>2. X(sw, e, old).initialised /\ X(sw, e, old) \in DomainRec
    BY <1>1, <1>2, <2>1 DEF Live
  <2>3. Good(u)
    BY <1>1, <1>2, <2>1, <2>2, PutGood DEF Sound
  <2>4. /\ u \in State
        /\ \A r \in Rec :
              u.domains[r] = IF r = e THEN X(sw, e, old) ELSE sw.domains[r]
    BY <1>1, <2>1, <2>2, PutUpdates
  <2> HIDE DEF u
  <2>5. X(u, d, slot).initialised /\ X(u, d, slot) \in DomainRec
    BY <1>1, <1>2, <2>2, <2>4 DEF Live
  <2>6. Good(sw')
    BY <1>1, <1>2, <1>6, <2>3, <2>4, <2>5, PutGood
  <2>7. \A r \in Rec :
           sw'.domains[r] = IF r = d THEN X(u, d, slot)
                            ELSE IF r = e THEN X(sw, e, old)
                            ELSE sw.domains[r]
    BY <1>6, <2>4, <2>5, PutUpdates
  <2>8. \A r \in Rec :
           /\ sw'.domains[r].initialised = sw.domains[r].initialised
           /\ sw'.domains[r].domid = sw.domains[r].domid
           /\ sw'.domains[r].slot = IF r = d THEN slot
                                    ELSE IF r = e THEN old
                                    ELSE sw.domains[r].slot
    BY <1>1, <1>2, <2>1, <2>4, <2>7
  <2>9. Live(sw') = Live(sw)
    BY <2>8 DEF Live
  <2>10. DomidsUniqueIn(sw')
    BY <2>1, <2>8, <2>9 DEF Sound, DomidsUniqueIn
  <2>11. SlotsUniqueIn(sw')
    <3> SUFFICES ASSUME NEW q \in Live(sw), NEW r \in Live(sw),
                        sw'.domains[q].slot = sw'.domains[r].slot,
                        sw'.domains[q].slot # NoSlot
                 PROVE  q = r
      BY <2>9 DEF SlotsUniqueIn
    <3>1. \A a, b \in Live(sw) :
             sw.domains[a].slot = sw.domains[b].slot
                /\ sw.domains[a].slot # NoSlot => a = b
      BY DEF Sound, SlotsUniqueIn
    <3> QED
      BY <1>1, <2>1, <2>8, <3>1
  <2> QED
    BY <2>6, <2>10, <2>11 DEF Sound
<1> QED
  BY <1>3, <1>5, <1>6

\* A handler that writes one field the invariant does not mention, then moves.
LEMMA FieldSound ==
  ASSUME NEW s, Sound(s), NEW d \in Rec
  PROVE  /\ \A r \in {REBOOT, RUNNING} : Sound([s EXCEPT !.domains[d].sstate = r])
         /\ \A b \in BOOLEAN :
               /\ Sound([s EXCEPT !.domains[d].is_in_s3 = b])
               /\ Sound([s EXCEPT !.domains[d].disabled_surface = b])
         /\ Sound([s EXCEPT !.domains[d] =
                      [@ EXCEPT !.is_in_s3 = FALSE, !.sstate = RUNNING]])
<1> DEFINE y == s.domains[d]
<1>1. y \in DomainRec
  BY DomainFields DEF Sound, Good
<1>2. ASSUME NEW r \in {REBOOT, RUNNING}
      PROVE  Sound(Put(s, d, [y EXCEPT !.sstate = r]))
  <2> DEFINE x == [y EXCEPT !.sstate = r]
  <2>1. x \in DomainRec /\ SameFields(y, x)
    BY <1>1 DEF DomainRec, SameFields
  <2> HIDE DEF x
  <2>2. Sound(Put(s, d, x))
    BY <2>1, PutKeepsSound
  <2> QED
    BY <2>2 DEF x
<1>3. ASSUME NEW b \in BOOLEAN
      PROVE  Sound(Put(s, d, [y EXCEPT !.is_in_s3 = b]))
  <2> DEFINE x == [y EXCEPT !.is_in_s3 = b]
  <2>1. x \in DomainRec /\ SameFields(y, x)
    BY <1>1 DEF DomainRec, SameFields
  <2> HIDE DEF x
  <2>2. Sound(Put(s, d, x))
    BY <2>1, PutKeepsSound
  <2> QED
    BY <2>2 DEF x
<1>4. ASSUME NEW b \in BOOLEAN
      PROVE  Sound(Put(s, d, [y EXCEPT !.disabled_surface = b]))
  <2> DEFINE x == [y EXCEPT !.disabled_surface = b]
  <2>1. x \in DomainRec /\ SameFields(y, x)
    BY <1>1 DEF DomainRec, SameFields
  <2> HIDE DEF x
  <2>2. Sound(Put(s, d, x))
    BY <2>1, PutKeepsSound
  <2> QED
    BY <2>2 DEF x
<1>5. Sound(Put(s, d, [y EXCEPT !.is_in_s3 = FALSE, !.sstate = RUNNING]))
  <2> DEFINE x == [y EXCEPT !.is_in_s3 = FALSE, !.sstate = RUNNING]
  <2>1. x \in DomainRec /\ SameFields(y, x)
    BY <1>1 DEF DomainRec, SameFields
  <2> HIDE DEF x
  <2>2. Sound(Put(s, d, x))
    BY <2>1, PutKeepsSound
  <2> QED
    BY <2>2 DEF x
<1> QED
  BY <1>2, <1>3, <1>4, <1>5 DEF Put

LEMMA ConnectionsSound ==
  ASSUME Sound(sw), Connections
  PROVE  Sound(sw')
<1>0. sw \in State
  BY DEF Sound, Good
<1>1. ASSUME NEW id \in Domids, rpc_connect(id)
      PROVE  Sound(sw')
  <2>1. empty_domain(sw) \in Rec \ Live(sw)
    BY <1>0, <1>1, Lookups DEF rpc_connect
  <2> QED
    BY <1>1, <2>1, CreateSound DEF rpc_connect
<1>2. ASSUME NEW id \in VkbdDomains, input_daemon_attach_vkbd(id)
      PROVE  Sound(sw')
  <2> DEFINE known == domain_with_domid(sw, id)
             d == IF known # NULL THEN known ELSE empty_domain(sw)
  <2>1. id \in Domids
    BY ConstantsAssumption
  <2>2. /\ d \in Rec
        /\ known = NULL => d \in Rec \ Live(sw)
    <3>1. d # NULL
      BY <1>2 DEF input_daemon_attach_vkbd
    <3>2. Live(sw) \subseteq Rec /\ known \in Live(sw) \cup {NULL}
          /\ empty_domain(sw) \in (Rec \ Live(sw)) \cup {NULL}
      BY <1>0, Lookups
    <3> QED
      BY <3>1, <3>2
  <2>3. PICK match \in BOOLEAN, dead \in BOOLEAN, shown \in Answers(d) :
           LET t == IF known # NULL THEN sw
                    ELSE SetupDomain(sw, d, id, dead, shown)
           IN  sw' = IF d \in Live(t) THEN AttachVkbd(t, d, id, match, shown)
                     ELSE t
    BY <1>2 DEF input_daemon_attach_vkbd
  <2> DEFINE t == IF known # NULL THEN sw
                  ELSE SetupDomain(sw, d, id, dead, shown)
  <2>4. sw' = t \/ sw' = AttachVkbd(t, d, id, match, shown)
    BY <2>3
  <2>5. Sound(t)
    BY <2>1, <2>2, SetupSound
  <2> HIDE DEF t, d
  <2> QED
    BY <2>2, <2>4, <2>5, AttachSound
<1>3. ASSUME NEW d \in Rec, rpc_disconnect(d)
      PROVE  Sound(sw')
  BY <1>3, GoneRemoves, RemovesSound DEF rpc_disconnect, Sound
<1>4. ASSUME NEW d \in Rec, input_daemon_detach_vkbd(d)
      PROVE  Sound(sw')
  BY <1>4, GoneRemoves, RemovesSound
     DEF input_daemon_detach_vkbd, domain_detach_vkbd, domain_release, Sound
<1>5. ASSUME NEW d \in Rec, handle_switcher_shutdown(d)
      PROVE  Sound(sw')
  <2>1. PICK reason \in {REBOOT, RUNNING} :
           LET t == [sw EXCEPT !.domains[d].sstate = reason] IN
           sw' = IF reason = REBOOT THEN focus_expect_death(t, d)
                 ELSE focus_dont_expect_death(t, d)
    BY <1>5 DEF handle_switcher_shutdown
  <2> DEFINE t == [sw EXCEPT !.domains[d].sstate = reason]
  <2>2. sw' \in {focus_expect_death(t, d), focus_dont_expect_death(t, d)}
    BY <2>1
  <2>3. Sound(t)
    BY FieldSound
  <2> HIDE DEF t
  <2> QED
    BY <2>2, <2>3, FocusMoves, MovesSound DEF Sound
<1>6. ASSUME NEW slot \in FocusSlots, DeathWindowCloses(slot)
      PROVE  Sound(sw')
  <2> DEFINE t == [sw EXCEPT !.death_window = @ \ {slot}]
  <2>1. sw' = t
    BY <1>6 DEF DeathWindowCloses
  <2>2. /\ t \in State /\ t.domains = sw.domains
        /\ t.mouse_parent = sw.mouse_parent /\ t.keyb_parent = sw.keyb_parent
    BY <1>0 DEF State
  <2> HIDE DEF t
  <2>3. Moves(sw, t)
    BY <2>2, Rerouted DEF SameRecord, SameFields, Sound, Good, ParentsIn
  <2> QED
    BY <2>1, <2>3, MovesSound
<1> QED
  BY <1>1, <1>2, <1>3, <1>4, <1>5, <1>6, SetSlotSound DEF Connections

LEMMA SwitchToSound ==
  ASSUME Sound(sw), NEW d \in Ptr, NEW m, SwitchTo(d, m)
  PROVE  Sound(sw')
BY SwitchMoves, MovesSound DEF SwitchTo, Sound

LEMMA SwitchesSound ==
  ASSUME Sound(sw), Switches
  PROVE  Sound(sw')
<1>0. sw \in State /\ Rec \subseteq Ptr
  BY DEF Sound, Good, Ptr
<1>1. \A n : domain_with_slot(sw, n) \in Ptr
  BY <1>0, Lookups DEF Ptr
<1>2. CASE switcher_unfocus_gpu
  BY <1>2, FocusFieldMoves, MovesSound DEF switcher_unfocus_gpu, Sound, Ptr
<1>3. CASE go_to_next
  BY <1>1, <1>3, SwitchToSound DEF go_to_next
<1>4. ASSUME NEW slot \in 0..9, go_to_slot(slot)
      PROVE  Sound(sw')
  BY <1>1, <1>4, SwitchToSound DEF go_to_slot
<1>5. ASSUME NEW slot \in {-2} \cup 0..9, switcher_switch_on_mouse(slot)
      PROVE  Sound(sw')
  BY <1>1, <1>5, SwitchToSound DEF switcher_switch_on_mouse
<1>6. ASSUME NEW d \in Rec, input_daemon_switch_focus(d)
      PROVE  Sound(sw')
  BY <1>0, <1>6, SwitchToSound DEF input_daemon_switch_focus
<1> QED
  BY <1>2, <1>3, <1>4, <1>5, <1>6 DEF Switches

LEMMA CommandsSound ==
  ASSUME Sound(sw), Commands
  PROVE  Sound(sw')
<1>0. Good(sw) /\ Rec \subseteq Ptr
  BY DEF Sound, Ptr
<1>1. ASSUME NEW d \in Rec, domain_command_take(d)
      PROVE  Sound(sw')
  BY <1>0, <1>1, GiveMoves, MovesSound DEF domain_command_take
<1>2. ASSUME NEW d \in Rec, domain_command_release(d)
      PROVE  Sound(sw')
  BY <1>0, <1>2, GiveMoves, MovesSound DEF domain_command_release
<1>3. ASSUME NEW d \in Rec, NEW e \in Rec, domain_command_switch(d, e)
      PROVE  Sound(sw')
  BY <1>0, <1>3, SwitchToSound DEF domain_command_switch
<1>4. ASSUME NEW d \in Rec, NEW e \in Rec, domain_command_take_from(d, e)
      PROVE  Sound(sw')
  BY <1>0, <1>4, SeamlessMoves, MovesSound DEF domain_command_take_from
<1>5. ASSUME NEW d \in Rec, NEW e \in Rec, domain_command_release_to(d, e)
      PROVE  Sound(sw')
  BY <1>0, <1>5, SeamlessMoves, MovesSound DEF domain_command_release_to
<1> QED
  BY <1>1, <1>2, <1>3, <1>4, <1>5 DEF Commands

\* Writing the divert_info of a record in use, which stays once it exists.
LEMMA DivertSound ==
  ASSUME NEW s, Sound(s), NEW d \in Live(s), NEW x \in DomainRec,
         x.initialised, x.domid = s.domains[d].domid, x.slot = s.domains[d].slot,
         s.domains[d].has_divert => x.has_divert,
         x.key_domain # NULL \/ x.mouse_domain # NULL => x.has_divert
  PROVE  /\ Sound(Put(s, d, x))
         /\ Sound(sync_mouse_domain(Put(s, d, x), d))
         /\ Sound(sync_kbd_domain(Put(s, d, x), d))
<1> DEFINE t == Put(s, d, x)
<1>1. /\ s \in State /\ d \in Rec
      /\ DomidsUniqueIn(s) /\ SlotsUniqueIn(s)
      /\ ParentsIn(s) /\ TargetsOwned(s)
  BY DEF Sound, Good, Live
<1>2. /\ t \in State
      /\ t.mouse_parent = s.mouse_parent /\ t.keyb_parent = s.keyb_parent
      /\ \A r \in Rec : t.domains[r] = IF r = d THEN x ELSE s.domains[r]
  BY <1>1, PutUpdates
<1> HIDE DEF t
<1>3. Live(t) = Live(s)
  BY <1>1, <1>2 DEF Live
<1>4. \A r \in Rec : /\ t.domains[r].domid = s.domains[r].domid
                     /\ t.domains[r].slot = s.domains[r].slot
  BY <1>2
<1>5. \A p : ParentOf(s, p) => ParentOf(t, p)
  BY <1>2, <1>3 DEF ParentOf, Live
<1>6. TargetsOwned(t)
  BY <1>1, <1>2, <1>3, <1>5 DEF TargetsOwned, ParentOf
<1>7. Live(t) \subseteq Rec
  BY DEF Live
<1>8. Sound(t)
  BY <1>1, <1>2, <1>3, <1>4, <1>5, <1>6, <1>7
     DEF Sound, Good, ParentsIn, DomidsUniqueIn, SlotsUniqueIn
<1>9. Moves(t, sync_mouse_domain(t, d)) /\ Moves(t, sync_kbd_domain(t, d))
  BY <1>1, <1>8, InputSetMoves DEF Sound
<1> QED
  BY <1>8, <1>9, MovesSound DEF t

LEMMA DivertsSound ==
  ASSUME Sound(sw), Diverts
  PROVE  Sound(sw')
<1>0. sw \in State /\ ParentsIn(sw) /\ TargetsOwned(sw)
  BY DEF Sound, Good
<1>1. \A d \in Rec :
         /\ sw.domains[d] \in DomainRec
         /\ d \in Live(sw) =>
              /\ sw.domains[d].initialised
              /\ sw.domains[d].key_domain # NULL
                    \/ sw.domains[d].mouse_domain # NULL
                       => sw.domains[d].has_divert
  BY <1>0, DomainFields, Pointers DEF TargetsOwned, ParentOf, Live
<1>2. ASSUME NEW d \in Rec, NEW td \in Rec, input_daemon_divert_mouse_focus(d, td)
      PROVE  Sound(sw')
  <2> DEFINE y == sw.domains[d]
             x == [y EXCEPT !.has_divert = TRUE, !.mouse_domain = td]
  <2>1. d \in Live(sw) /\ y \in DomainRec
    BY <1>1, <1>2 DEF input_daemon_divert_mouse_focus, Sender
  <2>2. x \in DomainRec /\ x.has_divert /\ x.initialised = y.initialised
        /\ x.domid = y.domid /\ x.slot = y.slot
    BY <2>1 DEF DomainRec, Ptr
  <2>3. sw' = sync_mouse_domain(Put(sw, d, x), d)
    BY <1>2 DEF input_daemon_divert_mouse_focus, Put
  <2> HIDE DEF x
  <2> QED
    BY <1>1, <2>1, <2>2, <2>3, DivertSound
<1>3. ASSUME NEW d \in Rec, NEW td \in Rec, input_daemon_divert_keyboard_focus(d, td)
      PROVE  Sound(sw')
  <2> DEFINE y == sw.domains[d]
             x == [y EXCEPT !.has_divert = TRUE, !.key_domain = td]
  <2>1. d \in Live(sw) /\ y \in DomainRec
    BY <1>1, <1>3 DEF input_daemon_divert_keyboard_focus, Sender
  <2>2. x \in DomainRec /\ x.has_divert /\ x.initialised = y.initialised
        /\ x.domid = y.domid /\ x.slot = y.slot
    BY <2>1 DEF DomainRec, Ptr
  <2>3. sw' = sync_kbd_domain(Put(sw, d, x), d)
    BY <1>3 DEF input_daemon_divert_keyboard_focus, Put
  <2> HIDE DEF x
  <2> QED
    BY <1>1, <2>1, <2>2, <2>3, DivertSound
<1>4. ASSUME NEW d \in Rec, input_daemon_stop_mouse_divert(d)
      PROVE  Sound(sw')
  <2> DEFINE y == sw.domains[d]
             x == [y EXCEPT !.mouse_domain = NULL]
  <2>1. d \in Live(sw) /\ y \in DomainRec
    BY <1>1, <1>4 DEF input_daemon_stop_mouse_divert, Sender
  <2>2. x \in DomainRec /\ x.has_divert = y.has_divert
        /\ x.initialised = y.initialised /\ x.domid = y.domid /\ x.slot = y.slot
        /\ x.key_domain = y.key_domain /\ x.mouse_domain = NULL
    BY <2>1 DEF DomainRec, Ptr
  <2>3. sw' = sync_mouse_domain(Put(sw, d, x), d)
    BY <1>4 DEF input_daemon_stop_mouse_divert, Put
  <2> HIDE DEF x
  <2> QED
    BY <1>1, <2>1, <2>2, <2>3, DivertSound
<1>5. ASSUME NEW d \in Rec, input_daemon_stop_keyboard_divert(d)
      PROVE  Sound(sw')
  <2> DEFINE y == sw.domains[d]
             x == [y EXCEPT !.key_domain = NULL]
  <2>1. d \in Live(sw) /\ y \in DomainRec
    BY <1>1, <1>5 DEF input_daemon_stop_keyboard_divert, Sender
  <2>2. x \in DomainRec /\ x.has_divert = y.has_divert
        /\ x.initialised = y.initialised /\ x.domid = y.domid /\ x.slot = y.slot
        /\ x.key_domain = NULL /\ x.mouse_domain = y.mouse_domain
    BY <2>1 DEF DomainRec, Ptr
  <2>3. sw' = sync_kbd_domain(Put(sw, d, x), d)
    BY <1>5 DEF input_daemon_stop_keyboard_divert, Put
  <2> HIDE DEF x
  <2> QED
    BY <1>1, <2>1, <2>2, <2>3, DivertSound
<1>6. ASSUME NEW d \in Rec, input_daemon_focus_mode(d)
      PROVE  Sound(sw')
  <2>1. PICK follows \in BOOLEAN :
           sw' = [sw EXCEPT !.domains[d] =
                     [@ EXCEPT !.has_divert = TRUE, !.key_follows = follows]]
    BY <1>6 DEF input_daemon_focus_mode
  <2> DEFINE y == sw.domains[d]
             x == [y EXCEPT !.has_divert = TRUE, !.key_follows = follows]
  <2>2. d \in Live(sw) /\ y \in DomainRec
    BY <1>1, <1>6 DEF input_daemon_focus_mode, Sender
  <2>3. x \in DomainRec /\ x.has_divert /\ x.initialised = y.initialised
        /\ x.domid = y.domid /\ x.slot = y.slot
    BY <2>2 DEF DomainRec
  <2>4. sw' = Put(sw, d, x)
    BY <2>1 DEF Put
  <2> HIDE DEF x
  <2> QED
    BY <1>1, <2>2, <2>3, <2>4, DivertSound
<1>7. CASE Click
  <2> DEFINE p == sw.mouse_parent
             d == sw.mouse_dest
             y == sw.domains[p]
             x == [y EXCEPT !.key_domain = d]
  <2>1. d \in Ptr /\ d # NULL /\ d \in Rec
    BY <1>0, <1>7, StateFields DEF Click, Ptr
  <2>2. CASE p = NULL
    BY <1>7, <2>1, <2>2, InputSetMoves, MovesSound DEF Click, Sound
  <2>3. CASE p # NULL
    <3>1. p \in Live(sw) /\ y.has_divert /\ p \in Rec /\ y \in DomainRec
      BY <1>0, <1>1, <2>3 DEF ParentsIn, ParentOf, Live
    <3>2. x \in DomainRec /\ x.has_divert = y.has_divert
          /\ x.initialised = y.initialised /\ x.domid = y.domid /\ x.slot = y.slot
      BY <2>1, <3>1 DEF DomainRec
    <3>3. sw' = sync_kbd_domain(Put(sw, p, x), p)
      BY <1>7, <2>3 DEF Click, Put
    <3> HIDE DEF x
    <3> QED
      BY <1>1, <3>1, <3>2, <3>3, DivertSound
  <2> QED
    BY <2>2, <2>3
<1> QED
  BY <1>2, <1>3, <1>4, <1>5, <1>6, <1>7 DEF Diverts

LEMMA PowerSound ==
  ASSUME Sound(sw), Power
  PROVE  Sound(sw')
<1>0. sw \in State
  BY DEF Sound, Good
<1>1. ASSUME NEW s, Sound(s), NEW d \in Ptr, NEW shown
      PROVE  Sound(domain_wake_from_s3(s, d, shown))
  <2>1. CASE d = NULL
    BY <1>1, <2>1 DEF domain_wake_from_s3
  <2>2. CASE d # NULL
    <3> DEFINE t == [s EXCEPT !.domains[d] =
                        [@ EXCEPT !.is_in_s3 = FALSE, !.sstate = RUNNING]]
    <3>1. d \in Rec
      BY <2>2 DEF Ptr
    <3>2. Sound(t)
      BY <1>1, <3>1, FieldSound
    <3>3. domain_wake_from_s3(s, d, shown)
             \in {s, t, switcher_switch(t, d, FALSE, shown)}
      BY DEF domain_wake_from_s3
    <3> HIDE DEF t
    <3> QED
      BY <1>1, <3>2, <3>3, SwitchMoves, MovesSound DEF Sound
  <2> QED
    BY <2>1, <2>2
<1>2. CASE WakeOnInput
  <2>1. PICK shown \in SUBSET Rec :
           LET mouse == domain_wake_from_s3(sw, sw.mouse_dest, shown)
               keyb  == domain_wake_from_s3(mouse, mouse.keyb_dest, shown)
           IN  sw' = domain_wake_from_s3(keyb, domain_pvm(keyb), shown)
    BY <1>2 DEF WakeOnInput
  <2> DEFINE mouse == domain_wake_from_s3(sw, sw.mouse_dest, shown)
             keyb  == domain_wake_from_s3(mouse, mouse.keyb_dest, shown)
  <2>2. sw' = domain_wake_from_s3(keyb, domain_pvm(keyb), shown)
    BY <2>1
  <2>3. Sound(mouse)
    BY <1>0, <1>1, StateFields
  <2> HIDE DEF mouse
  <2>4. Sound(keyb)
    BY <1>1, <2>3, StateFields DEF Sound, Good
  <2> HIDE DEF keyb
  <2>5. domain_pvm(keyb) \in Ptr
    BY <2>4, Lookups DEF Sound, Good, Ptr
  <2> QED
    BY <1>1, <2>2, <2>4, <2>5
<1>3. ASSUME NEW d \in Rec, domain_power_state(d)
      PROVE  Sound(sw')
  <2> DEFINE asleep == [sw EXCEPT !.domains[d].is_in_s3 = TRUE]
             cleared == SetPrev(asleep, d, NULL, NoDomid)
             reset == reset_prev_keyb_domain(cleared, d)
  <2>1. PICK shown \in Answers(d) : sw' = switcher_s3(reset, d, shown)
    BY <1>3 DEF domain_power_state
  <2>2. Sound(asleep)
    BY FieldSound
  <2> HIDE DEF asleep
  <2>3. Sound(cleared)
    BY <2>2, SetPrevMoves, MovesSound DEF Sound, Ptr
  <2> HIDE DEF cleared
  <2>4. Sound(reset)
    BY <2>3, ResetMoves, MovesSound DEF Sound
  <2> HIDE DEF reset
  <2> QED
    BY <2>1, <2>4, SwitcherGoneMoves, MovesSound DEF Sound
<1>4. ASSUME NEW d \in Rec, domain_active_adapter_node_watch(d)
      PROVE  Sound(sw')
  <2> DEFINE off == ~sw.domains[d].disabled_surface
             t   == [sw EXCEPT !.domains[d].disabled_surface = off]
  <2>1. PICK shown \in Answers(d) :
           sw' \in {t, switcher_switch_graphic(t, domain_uivm(t), shown)}
    BY <1>4 DEF domain_active_adapter_node_watch
  <2>2. Sound(t)
    BY FieldSound
  <2> HIDE DEF t
  <2>3. domain_uivm(t) \in Ptr
    BY <2>2, Lookups DEF Sound, Good, Ptr
  <2> QED
    BY <2>1, <2>2, <2>3, SwitchMoves, MovesSound DEF Sound
<1>5. ASSUME NEW d \in Rec, domain_active_adapter_watch(d)
      PROVE  Sound(sw')
  BY <1>5, SwitchMoves, MovesSound DEF domain_active_adapter_watch, Sound, Ptr
<1> QED
  BY <1>2, <1>3, <1>4, <1>5 DEF Power

-----------------------------------------------------------------------------

IInv == Sound(sw)

LEMMA NextSound == IInv /\ [Next]_sw => IInv'
<1>1. ASSUME Sound(sw), Next PROVE Sound(sw')
  BY <1>1, ConnectionsSound, SwitchesSound, CommandsSound, DivertsSound,
     PowerSound DEF Next
<1>2. ASSUME Sound(sw), UNCHANGED sw PROVE Sound(sw')
  BY <1>2
<1> QED
  BY <1>1, <1>2 DEF IInv

\* The inductive invariant holds throughout.
THEOREM Soundness == Spec => []IInv
<1>1. Init => IInv
  BY InitSound DEF IInv
<1> QED
  BY <1>1, NextSound, PTL DEF Spec

\* Whatever the number of records, the domains and the order of connections,
\* switches, diverts and deaths, every static keeps its type: a pointer is
\* NULL or one of domains[], a domid one that Xen hands out.
THEOREM TypeCorrect == Spec => []TypeOK
<1>1. IInv => TypeOK
  BY DEF IInv, Sound, Good, TypeOK
<1> QED
  BY <1>1, Soundness, PTL

\* input_inject and check_divert_keys may dereference the divert_info of a
\* parent: no handler leaves a parent that was removed or has none.
THEOREM ParentsSafe == Spec => []ParentHasDivert
<1>1. IInv => ParentHasDivert
  BY DEF IInv, Sound, Good, ParentsIn, ParentOf, ParentHasDivert
<1> QED
  BY <1>1, Soundness, PTL

\* A domid names one record, as domain_new and switcher_domid mean it to.
THEOREM DomidNamesOneRecord == Spec => []DomidsUnique
<1>1. IInv => DomidsUnique
  BY DEF IInv, Sound, DomidsUniqueIn, DomidsUnique
<1> QED
  BY <1>1, Soundness, PTL

\* A slot names one record, through every salvage and every swap.
THEOREM SlotNamesOneRecord == Spec => []SlotsUnique
<1>1. IInv => SlotsUnique
  BY DEF IInv, Sound, SlotsUniqueIn, SlotsUnique
<1> QED
  BY <1>1, Soundness, PTL

-----------------------------------------------------------------------------
(* Where DomainFocus sends events: the destinations, the targets of the    *)
(* diverts, the displayed record and the remembered keyboard domains are   *)
(* records in use, through every switch and death.                         *)

(* The inductive invariant, on top of Sound, of any value s of the         *)
(* statics.  g is a record that domain_gone or domain_release has freed    *)
(* and that diverts may still name, NULL when there is none.               *)

Alive(s) == Live(s) \cup {NULL}

\* What check_diverts_for_the_dead leaves of a target.
Left(k, g) == IF k = g THEN NULL ELSE k

TargetsIn(s, g) ==
    \A r \in Rec : /\ s.domains[r].key_domain \in Alive(s) \cup {g}
                   /\ s.domains[r].mouse_domain \in Alive(s) \cup {g}

MouseNames(s, g) ==
    s.mouse_parent # NULL =>
        s.mouse_dest = Left(s.domains[s.mouse_parent].mouse_domain, g)

KeybNames(s, g) ==
    s.keyb_parent # NULL =>
        s.keyb_dest = Left(s.domains[s.keyb_parent].key_domain, g)

\* A remembered keyboard domain is in use and is still the same domain.
PrevOf(s, y) ==
    y.prev_ptr # NULL /\ y.prev_domid # NoDomid =>
        y.prev_ptr \in Live(s) /\ s.domains[y.prev_ptr].domid = y.prev_domid

PrevLive(s) == \A r \in Live(s) : PrevOf(s, s.domains[r])

RoutesIn(s, g) ==
    /\ UivmHasNoDivert(s)
    /\ TargetsIn(s, g)
    /\ s.mouse_dest \in Alive(s)
    /\ MouseNames(s, g)
    /\ KeybNames(s, g)

Recalled(s) == s.keyb_dest \in Alive(s) /\ PrevLive(s)

\* While attach_vkbd sets a record up, the salvage of its slot may remove a
\* PVM, and the switch to the UIVM that precedes the removal may write into
\* that very record, which reset_prev_keyb_domain then passes over: it is
\* not initialised yet.
Orderly == ~UivmDiverts /\ (VkbdDomains = {} \/ Pvms = {})

\* Only a UIVM that diverts its input can lead the mouse to a freed record,
\* and only it or such a salvage the keyboard.
Tracked(s, g) ==
    /\ ~UivmDiverts => RoutesIn(s, g)
    /\ Orderly => Recalled(s)

\* A freed record has lost its kind and its watches.
Idle(s) ==
    \A r \in Rec :
        /\ s.domains[r].is_pvm => s.domains[r].initialised /\ Pvms # {}
        /\ s.domains[r].watched => s.domains[r].initialised

Fit(s, g) == Good(s) /\ Idle(s) /\ Tracked(s, g)

Shown(s) == s.surface_current \in Alive(s)

\* A function that routes and switches, and keeps all of it.
SameFlags(s, t) ==
    \A r \in Rec : /\ t.domains[r].is_pvm = s.domains[r].is_pvm
                   /\ t.domains[r].watched = s.domains[r].watched

\* What a record, in use or not, remembers is as good as it was.
PrevKept(s, t) ==
    \A r \in Rec : PrevOf(s, s.domains[r]) => PrevOf(t, t.domains[r])

Steers(s, t, g) ==
    /\ Moves(s, t)
    /\ SameFlags(s, t)
    /\ Orderly => PrevKept(s, t)
    /\ t.surface_current \in Alive(s) \cup {s.surface_current}
    /\ Tracked(t, g)

\* A record that may be switched to.
Aim(s, g, d) ==
    /\ d \in Live(s)
    /\ ~UivmDiverts => \/ g = NULL
                       \/ g \notin {s.domains[d].key_domain,
                                    s.domains[d].mouse_domain}

-----------------------------------------------------------------------------

LEMMA MovesLive ==
  ASSUME NEW s, NEW t, Moves(s, t)
  PROVE  Live(t) = Live(s) /\ Alive(t) = Alive(s)
BY DEF Moves, SameRecord, SameFields, Live, Alive

LEMMA SteersFit ==
  ASSUME NEW s, NEW t, NEW g, Fit(s, g), Steers(s, t, g)
  PROVE  Fit(t, g) /\ (Shown(s) => Shown(t))
<1>1. Live(t) = Live(s) /\ Alive(t) = Alive(s)
  BY MovesLive DEF Steers
<1>2. Idle(t)
  BY DEF Fit, Idle, Steers, SameFlags, Moves, SameRecord, SameFields
<1> QED
  BY <1>1, <1>2 DEF Fit, Steers, Moves, Shown

LEMMA SteersReflexive ==
  ASSUME NEW s, NEW g, Fit(s, g)
  PROVE  Steers(s, s, g)
BY MovesReflexive DEF Fit, Steers, SameFlags, PrevKept

LEMMA SteersTransitive ==
  ASSUME NEW s, NEW t, NEW u, NEW g, Steers(s, t, g), Steers(t, u, g)
  PROVE  Steers(s, u, g)
<1>1. Moves(s, u)
  BY MovesTransitive DEF Steers
<1>2. Alive(t) = Alive(s)
  BY MovesLive DEF Steers
<1> QED
  BY <1>1, <1>2 DEF Steers, SameFlags, PrevKept

LEMMA AimKept ==
  ASSUME NEW s, NEW t, NEW g, NEW d, Moves(s, t), Aim(s, g, d)
  PROVE  Aim(t, g, d)
<1>1. Live(t) = Live(s) /\ d \in Rec
  BY MovesLive DEF Aim, Live
<1> QED
  BY <1>1 DEF Moves, SameRecord, SameFields, Aim

\* What is left to show of a function that moves.
LEMMA Resteered ==
  ASSUME NEW s, NEW g, Fit(s, g), NEW t, Moves(s, t), SameFlags(s, t),
         t.surface_current \in Alive(s) \cup {s.surface_current},
         ~UivmDiverts => /\ t.mouse_dest \in Alive(s)
                         /\ MouseNames(t, g) /\ KeybNames(t, g),
         Orderly => t.keyb_dest \in Alive(s) /\ PrevKept(s, t)
  PROVE  Steers(s, t, g)
<1>1. Live(t) = Live(s) /\ Alive(t) = Alive(s)
  BY MovesLive
<1>2. ASSUME ~UivmDiverts PROVE UivmHasNoDivert(t) /\ TargetsIn(t, g)
  BY <1>1, <1>2 DEF Fit, Tracked, RoutesIn, UivmHasNoDivert, TargetsIn, Moves,
                    SameRecord, SameFields
<1>3. Orderly => Recalled(t)
  BY <1>1 DEF Fit, Tracked, Recalled, PrevLive, PrevKept, Live
<1> QED
  BY <1>1, <1>2, <1>3 DEF Steers, Tracked, RoutesIn

\* The same, of a function that keeps the table.
LEMMA Redirected ==
  ASSUME NEW s, NEW g, Fit(s, g), NEW t, Moves(s, t), t.domains = s.domains,
         t.surface_current \in Alive(s) \cup {s.surface_current},
         ~UivmDiverts => /\ t.mouse_dest \in Alive(s)
                         /\ MouseNames(t, g) /\ KeybNames(t, g),
         Orderly => t.keyb_dest \in Alive(s)
  PROVE  Steers(s, t, g)
<1>1. Live(t) = Live(s) /\ Alive(t) = Alive(s)
  BY MovesLive
<1>2. PrevKept(s, t)
  BY <1>1 DEF PrevKept, PrevOf
<1> QED
  BY <1>1, <1>2, Resteered DEF SameFlags

-----------------------------------------------------------------------------
(* What the routing functions leave in the statics.                        *)

\* The statics that only switch.c and the table of records change.
SameTable(s, t) ==
    /\ t.domains = s.domains
    /\ t.surface_current = s.surface_current

LEMMA SetKbdFields ==
  ASSUME NEW s \in State, NEW d \in Rec, NEW t, t = set_kbd_domain(s, d)
  PROVE  /\ SameTable(s, t)
         /\ t.mouse_dest = s.mouse_dest /\ t.mouse_parent = s.mouse_parent
         /\ \/ /\ s.domains[d].key_domain # NULL
               /\ t.keyb_dest = s.domains[d].key_domain /\ t.keyb_parent = d
            \/ /\ s.domains[d].key_domain = NULL
               /\ t.keyb_dest = d /\ t.keyb_parent = NULL
               /\ s.domains[d].mouse_domain = NULL =>
                     t.keyb_waits_for_click = s.keyb_waits_for_click
<1>1. CASE s.domains[d].key_domain # NULL
  BY <1>1 DEF set_kbd_domain, State, SameTable
<1>2. CASE s.domains[d].key_domain = NULL
  <2>1. s.domains[d].mouse_domain = NULL =>
           (s.keyb_waits_for_click \/ s.domains[d].mouse_domain \notin {NULL, d})
              = s.keyb_waits_for_click
    BY StateFields
  <2> QED
    BY <1>2, <2>1 DEF set_kbd_domain, State, SameTable
<1> QED
  BY <1>1, <1>2

LEMMA SetMouseFields ==
  ASSUME NEW s \in State, NEW d \in Rec, NEW t, t = set_mouse_domain(s, d)
  PROVE  /\ SameTable(s, t)
         /\ t.keyb_dest = s.keyb_dest /\ t.keyb_parent = s.keyb_parent
         /\ \/ /\ s.domains[d].mouse_domain # NULL
               /\ t.mouse_dest = s.domains[d].mouse_domain /\ t.mouse_parent = d
            \/ /\ s.domains[d].mouse_domain = NULL
               /\ t.mouse_dest = d /\ t.mouse_parent = NULL
               /\ t.keyb_waits_for_click = s.keyb_waits_for_click
<1>1. CASE s.domains[d].mouse_domain # NULL
  BY <1>1 DEF set_mouse_domain, State, SameTable
<1>2. CASE s.domains[d].mouse_domain = NULL
  BY <1>2 DEF set_mouse_domain, State, SameTable
<1> QED
  BY <1>1, <1>2

LEMMA WaitFields ==
  ASSUME NEW s \in State, NEW b \in BOOLEAN,
         NEW t, t = [s EXCEPT !.keyb_waits_for_click = b]
  PROVE  /\ SameTable(s, t) /\ t \in State
         /\ t.mouse_dest = s.mouse_dest /\ t.mouse_parent = s.mouse_parent
         /\ t.keyb_dest = s.keyb_dest /\ t.keyb_parent = s.keyb_parent
         /\ t.keyb_waits_for_click = b
BY DEF State, SameTable

\* The mouse goes to d, or to the target of its divert.
MouseAt(s, d) ==
    \/ /\ s.domains[d].mouse_domain # NULL
       /\ s.mouse_dest = s.domains[d].mouse_domain /\ s.mouse_parent = d
    \/ /\ s.domains[d].mouse_domain = NULL
       /\ s.mouse_dest = d /\ s.mouse_parent = NULL

KeybAt(s, d) ==
    \/ /\ s.domains[d].key_domain # NULL
       /\ s.keyb_dest = s.domains[d].key_domain /\ s.keyb_parent = d
    \/ /\ s.domains[d].key_domain = NULL
       /\ s.keyb_dest = d /\ s.keyb_parent = NULL

LEMMA InputSetMouseFields ==
  ASSUME NEW s, Good(s), NEW d \in Rec, NEW t, t = input_set_mouse(s, d)
  PROVE  /\ SameTable(s, t) /\ MouseAt(t, d)
         /\ t.keyb_dest = s.keyb_dest /\ t.keyb_parent = s.keyb_parent
         /\ s.domains[d].mouse_domain = NULL =>
               t.keyb_waits_for_click =
                  (~s.keyb_waits_for_click \/ s.keyb_dest # d)
<1> DEFINE b == ~s.keyb_waits_for_click \/ s.keyb_dest # d
           u == [s EXCEPT !.keyb_waits_for_click = b]
<1>1. s \in State
  BY DEF Good
<1>2. t = set_mouse_domain(u, d)
  BY DEF input_set_mouse
<1>b. b \in BOOLEAN
  OBVIOUS
<1> HIDE DEF b
<1>3. /\ SameTable(s, u) /\ u \in State
      /\ u.keyb_dest = s.keyb_dest /\ u.keyb_parent = s.keyb_parent
      /\ u.keyb_waits_for_click = b
  BY <1>1, <1>b, WaitFields
<1> HIDE DEF u
<1>4. /\ SameTable(u, t)
      /\ t.keyb_dest = u.keyb_dest /\ t.keyb_parent = u.keyb_parent
      /\ \/ /\ u.domains[d].mouse_domain # NULL
            /\ t.mouse_dest = u.domains[d].mouse_domain /\ t.mouse_parent = d
         \/ /\ u.domains[d].mouse_domain = NULL
            /\ t.mouse_dest = d /\ t.mouse_parent = NULL
            /\ t.keyb_waits_for_click = u.keyb_waits_for_click
  BY <1>2, <1>3, SetMouseFields
<1> QED
  BY <1>3, <1>4 DEF SameTable, MouseAt, b

LEMMA InputSetKeybFields ==
  ASSUME NEW s, Good(s), NEW d \in Rec, NEW t, t = input_set_keyb(s, d)
  PROVE  /\ SameTable(s, t) /\ KeybAt(t, d)
         /\ t.mouse_dest = s.mouse_dest /\ t.mouse_parent = s.mouse_parent
<1> DEFINE u == [s EXCEPT !.keyb_waits_for_click = FALSE]
<1>1. s \in State
  BY DEF Good
<1>2. t = set_kbd_domain(u, d)
  BY DEF input_set_keyb
<1>3. /\ SameTable(s, u) /\ u \in State
      /\ u.mouse_dest = s.mouse_dest /\ u.mouse_parent = s.mouse_parent
  BY <1>1, WaitFields
<1> HIDE DEF u
<1>4. /\ SameTable(u, t)
      /\ t.mouse_dest = u.mouse_dest /\ t.mouse_parent = u.mouse_parent
      /\ \/ /\ u.domains[d].key_domain # NULL
            /\ t.keyb_dest = u.domains[d].key_domain /\ t.keyb_parent = d
         \/ /\ u.domains[d].key_domain = NULL
            /\ t.keyb_dest = d /\ t.keyb_parent = NULL
  BY <1>2, <1>3, SetKbdFields
<1> QED
  BY <1>3, <1>4 DEF SameTable, KeybAt

LEMMA InputSetFields ==
  ASSUME NEW s, Good(s), NEW d \in Rec, NEW t, t = input_set(s, d)
  PROVE  SameTable(s, t) /\ MouseAt(t, d) /\ KeybAt(t, d)
<1> DEFINE u == [s EXCEPT !.keyb_waits_for_click = FALSE]
           v == set_mouse_domain(u, d)
<1>1. Moves(s, u)
  BY WaitMoves
<1>2. SameTable(s, u)
  BY WaitFields DEF Good
<1>3. t = set_kbd_domain(v, d)
  BY DEF input_set
<1> HIDE DEF u
<1>4. Moves(u, v) /\ u \in State
  BY <1>1, SetMouseMoves, MovesGood DEF Good
<1>5. /\ SameTable(u, v)
      /\ \/ /\ u.domains[d].mouse_domain # NULL
            /\ v.mouse_dest = u.domains[d].mouse_domain /\ v.mouse_parent = d
         \/ /\ u.domains[d].mouse_domain = NULL
            /\ v.mouse_dest = d /\ v.mouse_parent = NULL
  BY <1>4, SetMouseFields
<1> HIDE DEF v
<1>6. v \in State
  BY <1>4 DEF Moves, Good
<1>7. /\ SameTable(v, t)
      /\ t.mouse_dest = v.mouse_dest /\ t.mouse_parent = v.mouse_parent
      /\ \/ /\ v.domains[d].key_domain # NULL
            /\ t.keyb_dest = v.domains[d].key_domain /\ t.keyb_parent = d
         \/ /\ v.domains[d].key_domain = NULL
            /\ t.keyb_dest = d /\ t.keyb_parent = NULL
  BY <1>3, <1>6, SetKbdFields
<1> QED
  BY <1>2, <1>5, <1>7 DEF SameTable, MouseAt, KeybAt

\* A destination taken from a record that may be switched to.
LEMMA AtAim ==
  ASSUME NEW s, NEW g, Fit(s, g), NEW d, Aim(s, g, d), ~UivmDiverts,
         NEW t, SameTable(s, t)
  PROVE  /\ MouseAt(t, d) => t.mouse_dest \in Alive(s) /\ MouseNames(t, g)
         /\ KeybAt(t, d) => t.keyb_dest \in Alive(s) /\ KeybNames(t, g)
<1>1. d \in Rec /\ d # NULL /\ d \in Alive(s)
  BY Pointers DEF Aim, Live, Alive
<1>2. TargetsIn(s, g)
  BY DEF Fit, Tracked, RoutesIn
<1>3. MouseAt(t, d) => t.mouse_dest \in Alive(s) /\ MouseNames(t, g)
  BY <1>1, <1>2 DEF MouseAt, MouseNames, Left, TargetsIn, Aim, SameTable, Alive
<1>4. KeybAt(t, d) => t.keyb_dest \in Alive(s) /\ KeybNames(t, g)
  BY <1>1, <1>2 DEF KeybAt, KeybNames, Left, TargetsIn, Aim, SameTable, Alive
<1> QED
  BY <1>3, <1>4

LEMMA InputSetSteers ==
  ASSUME NEW s, NEW g, Fit(s, g), NEW d, Aim(s, g, d)
  PROVE  /\ Steers(s, input_set_mouse(s, d), g)
         /\ Steers(s, input_set_keyb(s, d), g)
         /\ Steers(s, input_set(s, d), g)
<1>1. Good(s) /\ d \in Rec
  BY DEF Fit, Aim, Live
<1>2. (~UivmDiverts => RoutesIn(s, g)) /\ (Orderly => Recalled(s))
  BY DEF Fit, Tracked
<1>3. Steers(s, input_set_mouse(s, d), g)
  <2> DEFINE t == input_set_mouse(s, d)
  <2>1. Moves(s, t)
    BY <1>1, InputSetMoves
  <2>2. /\ SameTable(s, t) /\ MouseAt(t, d)
        /\ t.keyb_dest = s.keyb_dest /\ t.keyb_parent = s.keyb_parent
    BY <1>1, InputSetMouseFields
  <2> HIDE DEF t
  <2>3. /\ ~UivmDiverts => /\ t.mouse_dest \in Alive(s)
                           /\ MouseNames(t, g) /\ KeybNames(t, g)
        /\ Orderly => t.keyb_dest \in Alive(s)
    BY <1>2, <2>2, AtAim DEF RoutesIn, Recalled, KeybNames, SameTable
  <2>4. Steers(s, t, g)
    BY <2>1, <2>2, <2>3, Redirected DEF SameTable
  <2> QED
    BY <2>4 DEF t
<1>4. Steers(s, input_set_keyb(s, d), g)
  <2> DEFINE t == input_set_keyb(s, d)
  <2>1. Moves(s, t)
    BY <1>1, InputSetMoves
  <2>2. /\ SameTable(s, t) /\ KeybAt(t, d)
        /\ t.mouse_dest = s.mouse_dest /\ t.mouse_parent = s.mouse_parent
    BY <1>1, InputSetKeybFields
  <2> HIDE DEF t
  <2>3. /\ ~UivmDiverts => /\ t.mouse_dest \in Alive(s)
                           /\ MouseNames(t, g) /\ KeybNames(t, g)
        /\ Orderly => t.keyb_dest \in Alive(s)
    BY <1>2, <2>2, AtAim DEF RoutesIn, MouseNames, SameTable, Orderly
  <2>4. Steers(s, t, g)
    BY <2>1, <2>2, <2>3, Redirected DEF SameTable
  <2> QED
    BY <2>4 DEF t
<1>5. Steers(s, input_set(s, d), g)
  <2> DEFINE t == input_set(s, d)
  <2>1. Moves(s, t)
    BY <1>1, InputSetMoves
  <2>2. SameTable(s, t) /\ MouseAt(t, d) /\ KeybAt(t, d)
    BY <1>1, InputSetFields
  <2> HIDE DEF t
  <2>3. /\ ~UivmDiverts => /\ t.mouse_dest \in Alive(s)
                           /\ MouseNames(t, g) /\ KeybNames(t, g)
        /\ Orderly => t.keyb_dest \in Alive(s)
    BY <2>2, AtAim DEF Orderly
  <2>4. Steers(s, t, g)
    BY <2>1, <2>2, <2>3, Redirected DEF SameTable
  <2> QED
    BY <2>4 DEF t
<1> QED
  BY <1>3, <1>4, <1>5

-----------------------------------------------------------------------------
(* The seamless commands and what they remember.                           *)

LEMMA GiveSteers ==
  ASSUME NEW s, NEW g, Fit(s, g), NEW d \in Rec, Orderly => d \in Live(s)
  PROVE  /\ Steers(s, input_give_keyboard(s, d), g)
         /\ Steers(s, input_return_keyboard(s, d), g)
<1>1. Good(s) /\ s \in State
  BY DEF Fit, Good
<1>2. (~UivmDiverts => RoutesIn(s, g)) /\ (Orderly => Recalled(s))
  BY DEF Fit, Tracked
<1>3. ASSUME NEW k \in Ptr, Orderly => k \in Alive(s),
             NEW t, t = [s EXCEPT !.keyb_dest = k, !.keyb_parent = NULL],
             Moves(s, t)
      PROVE  Steers(s, t, g)
  <2>1. /\ SameTable(s, t)
        /\ t.mouse_dest = s.mouse_dest /\ t.mouse_parent = s.mouse_parent
        /\ t.keyb_dest = k /\ t.keyb_parent = NULL
    BY <1>1, <1>3 DEF State, SameTable
  <2>2. /\ ~UivmDiverts => /\ t.mouse_dest \in Alive(s)
                           /\ MouseNames(t, g) /\ KeybNames(t, g)
        /\ Orderly => t.keyb_dest \in Alive(s)
    BY <1>2, <1>3, <2>1 DEF RoutesIn, MouseNames, KeybNames, SameTable
  <2> QED
    BY <1>3, <2>1, <2>2, Redirected DEF SameTable
<1>4. Moves(s, input_give_keyboard(s, d)) /\ Moves(s, input_return_keyboard(s, d))
  BY <1>1, GiveMoves
<1>5. /\ d \in Ptr /\ s.mouse_dest \in Ptr
      /\ Orderly => d \in Alive(s) /\ s.mouse_dest \in Alive(s)
  BY <1>1, <1>2, StateFields DEF Ptr, Alive, RoutesIn, Orderly
<1>6. Steers(s, input_give_keyboard(s, d), g)
  <2>1. CASE d = s.keyb_dest
    BY <2>1, SteersReflexive DEF input_give_keyboard
  <2>2. CASE d # s.keyb_dest
    BY <1>3, <1>4, <1>5, <2>2 DEF input_give_keyboard
  <2> QED
    BY <2>1, <2>2
<1>7. Steers(s, input_return_keyboard(s, d), g)
  <2>1. CASE d # s.keyb_dest
    BY <2>1, SteersReflexive DEF input_return_keyboard
  <2>2. CASE d = s.keyb_dest
    BY <1>3, <1>4, <1>5, <2>2 DEF input_return_keyboard
  <2> QED
    BY <2>1, <2>2
<1> QED
  BY <1>6, <1>7

\* Writing fields of one record that the table's part of Sound leaves out.
LEMMA PutSteers ==
  ASSUME NEW s, NEW g, Fit(s, g), NEW d \in Rec, NEW x \in DomainRec,
         SameFields(s.domains[d], x),
         x.is_pvm = s.domains[d].is_pvm, x.watched = s.domains[d].watched,
         Orderly /\ PrevOf(s, s.domains[d]) => PrevOf(s, x)
  PROVE  Steers(s, Put(s, d, x), g)
<1> DEFINE t == Put(s, d, x)
<1>1. Good(s) /\ s \in State
  BY DEF Fit, Good
<1>2. Moves(s, t)
  BY <1>1, PutMoves
<1>3. /\ t.mouse_dest = s.mouse_dest /\ t.mouse_parent = s.mouse_parent
      /\ t.keyb_dest = s.keyb_dest /\ t.keyb_parent = s.keyb_parent
      /\ \A r \in Rec : t.domains[r] = IF r = d THEN x ELSE s.domains[r]
  BY <1>1, PutUpdates
<1>4. t.surface_current = s.surface_current
  BY <1>1 DEF Put, State
<1> HIDE DEF t
<1>5. SameFlags(s, t)
  BY <1>3 DEF SameFlags
<1>6. /\ ~UivmDiverts => /\ t.mouse_dest \in Alive(s)
                         /\ MouseNames(t, g) /\ KeybNames(t, g)
      /\ Orderly => t.keyb_dest \in Alive(s) /\ PrevKept(s, t)
  <2>1. (~UivmDiverts => RoutesIn(s, g)) /\ (Orderly => Recalled(s))
    BY DEF Fit, Tracked
  <2>2. Live(t) = Live(s)
    BY <1>2, MovesLive
  <2>3. \A r \in Rec : /\ t.domains[r].domid = s.domains[r].domid
                       /\ t.domains[r].key_domain = s.domains[r].key_domain
                       /\ t.domains[r].mouse_domain = s.domains[r].mouse_domain
    BY <1>2 DEF Moves, SameRecord, SameFields
  <2>4. \A p \in {s.mouse_parent, s.keyb_parent} : p # NULL => p \in Rec
    BY <1>1 DEF Good, ParentsIn, ParentOf, Live
  <2>5. ~UivmDiverts => /\ t.mouse_dest \in Alive(s)
                        /\ MouseNames(t, g) /\ KeybNames(t, g)
    BY <1>3, <2>1, <2>3, <2>4 DEF RoutesIn, MouseNames, KeybNames
  <2>6. Orderly => \A r \in Rec : PrevOf(s, s.domains[r]) => PrevOf(s, t.domains[r])
    BY <1>3
  <2>7. Live(s) \subseteq Rec
    BY DEF Live
  <2>8. Orderly => PrevKept(s, t)
    BY <2>2, <2>3, <2>6, <2>7 DEF PrevKept, PrevOf
  <2> QED
    BY <1>3, <2>1, <2>5, <2>8 DEF Recalled
<1>7. Steers(s, t, g)
  BY <1>2, <1>4, <1>5, <1>6, Resteered
<1> QED
  BY <1>7 DEF t

LEMMA SetPrevSteers ==
  ASSUME NEW s, NEW g, Fit(s, g), NEW d \in Rec,
         NEW k \in Ptr, NEW id \in Domids \cup {NoDomid},
         Orderly /\ k # NULL /\ id # NoDomid =>
             k \in Live(s) /\ s.domains[k].domid = id
  PROVE  Steers(s, SetPrev(s, d, k, id), g)
<1> DEFINE x == [s.domains[d] EXCEPT !.prev_ptr = k, !.prev_domid = id]
<1>1. s \in State /\ s.domains[d] \in DomainRec
  BY DomainFields DEF Fit, Good
<1>2. SetPrev(s, d, k, id) = Put(s, d, x)
  BY DEF SetPrev, Put
<1>3. x \in DomainRec /\ SameFields(s.domains[d], x)
  BY <1>1 DEF DomainRec, SameFields
<1>4. /\ x.is_pvm = s.domains[d].is_pvm /\ x.watched = s.domains[d].watched
      /\ x.prev_ptr = k /\ x.prev_domid = id
  BY <1>1 DEF DomainRec
<1> HIDE DEF x
<1>5. Orderly => PrevOf(s, x)
  BY <1>4 DEF PrevOf
<1> QED
  BY <1>2, <1>3, <1>4, <1>5, PutSteers

LEMMA SeamlessSteers ==
  ASSUME NEW s, NEW g, Fit(s, g), NEW d \in Rec, NEW e \in Live(s)
  PROVE  /\ Steers(s, input_give_keyboard_from_domain(s, d, e), g)
         /\ Steers(s, input_return_keyboard_to_domain(s, d, e), g)
<1>1. /\ e \in Rec /\ e \in Ptr /\ NULL \in Ptr
      /\ s.domains[e].domid \in Domids \cup {NoDomid}
  BY DomainFields DEF Fit, Good, Ptr, Live
<1>2. /\ Steers(s, SetPrev(s, d, e, s.domains[e].domid), g)
      /\ Steers(s, SetPrev(s, d, NULL, NoDomid), g)
  BY <1>1, SetPrevSteers
<1>3. /\ Steers(s, input_give_keyboard(s, e), g)
      /\ Steers(s, input_return_keyboard(s, e), g)
      /\ Steers(s, s, g)
  BY <1>1, GiveSteers, SteersReflexive
<1> QED
  BY <1>2, <1>3
     DEF input_give_keyboard_from_domain, input_return_keyboard_to_domain

LEMMA SaveSteers ==
  ASSUME NEW s, NEW g, Fit(s, g), NEW d \in Ptr
  PROVE  Steers(s, save_prev_keyb_domain(s, d), g)
<1>1. CASE NULL \in {s.keyb_dest, s.mouse_dest, d}
  BY <1>1, SteersReflexive DEF save_prev_keyb_domain
<1>2. CASE NULL \notin {s.keyb_dest, s.mouse_dest, d}
  <2>1. s \in State /\ d \in Rec /\ s.keyb_dest \in Rec
    BY <1>2, StateFields DEF Fit, Good, Ptr
  <2>2. Orderly => s.keyb_dest \in Live(s)
    BY <1>2 DEF Fit, Tracked, Recalled, Alive
  <2>3. /\ s.domains[s.keyb_dest].domid \in Domids \cup {NoDomid}
        /\ s.keyb_dest \in Ptr /\ NULL \in Ptr
    BY <2>1, DomainFields DEF Ptr
  <2>4. /\ Steers(s, SetPrev(s, d, s.keyb_dest, s.domains[s.keyb_dest].domid), g)
        /\ Steers(s, SetPrev(s, d, NULL, NoDomid), g)
    BY <2>1, <2>2, <2>3, SetPrevSteers
  <2> QED
    BY <1>2, <2>4 DEF save_prev_keyb_domain
<1> QED
  BY <1>1, <1>2

LEMMA RestoreSteers ==
  ASSUME NEW s, NEW g, Fit(s, g), NEW d \in Live(s)
  PROVE  Steers(s, restore_prev_keyb_domain(s, d), g)
<1> DEFINE p == s.domains[d].prev_ptr
<1>1. d \in Rec /\ p \in Ptr
  BY DomainFields DEF Fit, Good, Live
<1>2. PrevUsable(s, d) => p \in Rec /\ (Orderly => p \in Live(s))
  BY <1>1 DEF PrevUsable, Ptr, Fit, Tracked, Recalled, PrevLive, PrevOf
<1>3. PrevUsable(s, d) => Steers(s, input_give_keyboard(s, p), g)
  BY <1>2, GiveSteers
<1> QED
  BY <1>3, SteersReflexive DEF restore_prev_keyb_domain

\* Besides, what is remembered of d's domain is forgotten.
LEMMA ResetSteers ==
  ASSUME NEW s, NEW g, Fit(s, g), NEW d \in Rec
  PROVE  /\ Steers(s, reset_prev_keyb_domain(s, d), g)
         /\ reset_prev_keyb_domain(s, d).surface_current = s.surface_current
         /\ reset_prev_keyb_domain(s, d).mouse_dest = s.mouse_dest
         /\ reset_prev_keyb_domain(s, d).keyb_dest = s.keyb_dest
         /\ reset_prev_keyb_domain(s, d).mouse_parent = s.mouse_parent
         /\ reset_prev_keyb_domain(s, d).keyb_parent = s.keyb_parent
         /\ s.domains[d].domid # NoDomid => \A r \in Live(s) :
              LET y == reset_prev_keyb_domain(s, d).domains[r]
              IN  y.prev_ptr # NULL => y.prev_domid # s.domains[d].domid
         /\ \A r \in Rec : s.domains[r].prev_ptr = NULL =>
               reset_prev_keyb_domain(s, d).domains[r].prev_ptr = NULL
<1> DEFINE id == s.domains[d].domid
           Cleared(x) == [x EXCEPT !.prev_ptr = NULL, !.prev_domid = NoDomid]
           table == [r \in Rec |->
                        IF /\ s.domains[r].initialised
                           /\ s.domains[r].prev_domid = id
                        THEN Cleared(s.domains[r])
                        ELSE s.domains[r]]
           t == reset_prev_keyb_domain(s, d)
<1>1. Good(s) /\ s \in State /\ s.domains \in [Rec -> DomainRec]
  BY DEF Fit, Good, State
<1>2. \A x \in DomainRec :
         /\ Cleared(x).is_pvm = x.is_pvm
         /\ Cleared(x).watched = x.watched
         /\ Cleared(x).prev_ptr = NULL
  BY DEF DomainRec
<1>3. Moves(s, t)
  BY <1>1, ResetMoves
<1>4. CASE id = NoDomid
  <2>1. t = s
    BY <1>4 DEF reset_prev_keyb_domain
  <2> QED
    BY <1>4, <2>1, SteersReflexive
<1>5. CASE id # NoDomid
  <2>1. t = [s EXCEPT !.domains = table]
    BY <1>5 DEF reset_prev_keyb_domain
  <2> HIDE DEF Cleared, t
  <2>2. \A r \in Rec : table[r] = IF /\ s.domains[r].initialised
                                     /\ s.domains[r].prev_domid = id
                                  THEN Cleared(s.domains[r])
                                  ELSE s.domains[r]
    OBVIOUS
  <2> HIDE DEF table, id
  <2>3. /\ t.domains = table /\ t.surface_current = s.surface_current
        /\ t.mouse_dest = s.mouse_dest /\ t.mouse_parent = s.mouse_parent
        /\ t.keyb_dest = s.keyb_dest /\ t.keyb_parent = s.keyb_parent
    BY <1>1, <2>1 DEF State
  <2>4. SameFlags(s, t)
    BY <1>1, <1>2, <2>2, <2>3 DEF SameFlags
  <2>5. ASSUME NEW r \in Rec
        PROVE  /\ t.domains[r].prev_ptr = NULL \/ t.domains[r] = s.domains[r]
               /\ r \in Live(s) /\ t.domains[r].prev_ptr # NULL
                     => t.domains[r].prev_domid # id
    <3>1. s.domains[r] \in DomainRec /\ (r \in Live(s) => s.domains[r].initialised)
      BY <1>1, <2>5 DEF Live
    <3> QED
      BY <1>2, <2>2, <2>3, <3>1
  <2>6. Live(t) = Live(s) /\ Alive(t) = Alive(s) /\ Live(s) \subseteq Rec
    BY <1>3, MovesLive DEF Live
  <2>7. /\ ~UivmDiverts => /\ t.mouse_dest \in Alive(s)
                           /\ MouseNames(t, g) /\ KeybNames(t, g)
        /\ Orderly => t.keyb_dest \in Alive(s) /\ PrevKept(s, t)
    <3>1. (~UivmDiverts => RoutesIn(s, g)) /\ (Orderly => Recalled(s))
      BY DEF Fit, Tracked
    <3>2. \A r \in Rec :
             /\ t.domains[r].domid = s.domains[r].domid
             /\ t.domains[r].key_domain = s.domains[r].key_domain
             /\ t.domains[r].mouse_domain = s.domains[r].mouse_domain
      BY <1>3 DEF Moves, SameRecord, SameFields
    <3>3. \A p \in {s.mouse_parent, s.keyb_parent} : p # NULL => p \in Rec
      BY <1>1 DEF Good, ParentsIn, ParentOf, Live
    <3>4. ~UivmDiverts => /\ t.mouse_dest \in Alive(s)
                          /\ MouseNames(t, g) /\ KeybNames(t, g)
      BY <2>3, <3>1, <3>2, <3>3 DEF RoutesIn, MouseNames, KeybNames
    <3>5. PrevKept(s, t)
      BY <2>5, <2>6, <3>2 DEF PrevKept, PrevOf
    <3> QED
      BY <2>3, <3>1, <3>4, <3>5 DEF Recalled
  <2>8. Steers(s, t, g)
    BY <1>3, <2>3, <2>4, <2>7, Resteered
  <2>9. Live(s) \subseteq Rec
    BY DEF Live
  <2> QED
    BY <2>3, <2>5, <2>8, <2>9 DEF t, id
<1> QED
  BY <1>4, <1>5

-----------------------------------------------------------------------------
(* Switching.                                                              *)

LEMMA FocusFieldSteers ==
  ASSUME NEW s, NEW g, Fit(s, g), NEW d \in Ptr
  PROVE  /\ Steers(s, [s EXCEPT !.current = d], g)
         /\ d \in Alive(s) => Steers(s, [s EXCEPT !.surface_current = d], g)
<1> DEFINE t == [s EXCEPT !.current = d]
           u == [s EXCEPT !.surface_current = d]
<1>1. Good(s) /\ s \in State
  BY DEF Fit, Good
<1>2. Moves(s, t) /\ Moves(s, u)
  BY <1>1, FocusFieldMoves
<1>3. /\ t.domains = s.domains /\ t.surface_current = s.surface_current
      /\ t.mouse_dest = s.mouse_dest /\ t.mouse_parent = s.mouse_parent
      /\ t.keyb_dest = s.keyb_dest /\ t.keyb_parent = s.keyb_parent
  BY <1>1 DEF State
<1>4. /\ u.domains = s.domains /\ u.surface_current = d
      /\ u.mouse_dest = s.mouse_dest /\ u.mouse_parent = s.mouse_parent
      /\ u.keyb_dest = s.keyb_dest /\ u.keyb_parent = s.keyb_parent
  BY <1>1 DEF State
<1> HIDE DEF t, u
<1>5. (~UivmDiverts => RoutesIn(s, g)) /\ (Orderly => Recalled(s))
  BY DEF Fit, Tracked
<1>6. Steers(s, t, g)
  BY <1>2, <1>3, <1>5, Redirected DEF RoutesIn, Recalled, MouseNames, KeybNames
<1>7. d \in Alive(s) => Steers(s, u, g)
  BY <1>2, <1>4, <1>5, Redirected DEF RoutesIn, Recalled, MouseNames, KeybNames
<1> QED
  BY <1>6, <1>7 DEF t, u

LEMMA GraphicSteers ==
  ASSUME NEW s, NEW g, Fit(s, g), NEW d \in Alive(s), NEW shown
  PROVE  Steers(s, switcher_switch_graphic(s, d, shown), g)
<1>1. d \in Ptr
  BY DEF Alive, Live, Ptr
<1> QED
  BY <1>1, FocusFieldSteers, SteersReflexive DEF switcher_switch_graphic

LEMMA TakeFocusSteers ==
  ASSUME NEW s, NEW g, Fit(s, g), NEW d, Aim(s, g, d), NEW mouse_switch
  PROVE  Steers(s, TakeFocus(s, d, mouse_switch), g)
<1> DEFINE t == [s EXCEPT !.current = d]
           u == input_set(t, d)
<1>1. d \in Ptr /\ d \in Live(s)
  BY DEF Aim, Live, Ptr
<1>2. Steers(s, t, g)
  BY <1>1, FocusFieldSteers
<1>3. TakeFocus(s, d, mouse_switch) \in
         {input_set_mouse(t, d), u, restore_prev_keyb_domain(u, d)}
  BY DEF TakeFocus
<1> HIDE DEF t
<1>4. Fit(t, g) /\ Aim(t, g, d)
  BY <1>2, SteersFit, AimKept DEF Steers
<1>5. Steers(t, input_set_mouse(t, d), g) /\ Steers(t, u, g)
  BY <1>4, InputSetSteers
<1> HIDE DEF u
<1>6. Fit(u, g) /\ d \in Live(u)
  BY <1>4, <1>5, SteersFit, AimKept DEF Steers, Aim
<1>7. Steers(u, restore_prev_keyb_domain(u, d), g)
  BY <1>6, RestoreSteers
<1> QED
  BY <1>2, <1>3, <1>5, <1>7, SteersTransitive

LEMMA SwitchSteers ==
  ASSUME NEW s, NEW g, Fit(s, g), NEW d, d = NULL \/ Aim(s, g, d),
         NEW mouse_switch, NEW shown
  PROVE  Steers(s, switcher_switch(s, d, mouse_switch, shown), g)
<1>1. CASE d = NULL
  BY <1>1, SteersReflexive DEF switcher_switch
<1>2. CASE d # NULL
  <2> DEFINE saved == IF s.keyb_waits_for_click THEN s
                      ELSE save_prev_keyb_domain(s, s.current)
             graphic == IF s.domains[d].disabled_surface THEN saved
                        ELSE switcher_switch_graphic(saved, d, shown)
  <2>1. Aim(s, g, d) /\ s.current \in Ptr
    BY <1>2, StateFields DEF Fit, Good
  <2>2. Steers(s, saved, g)
    BY <2>1, SaveSteers, SteersReflexive
  <2>3. switcher_switch(s, d, mouse_switch, shown)
           \in {saved, TakeFocus(graphic, d, mouse_switch)}
    BY <1>2 DEF switcher_switch
  <2> HIDE DEF saved
  <2>4. Fit(saved, g) /\ Aim(saved, g, d)
    BY <2>1, <2>2, SteersFit, AimKept DEF Steers
  <2>5. Steers(saved, graphic, g)
    BY <2>4, GraphicSteers, SteersReflexive DEF Aim, Alive
  <2> HIDE DEF graphic
  <2>6. Fit(graphic, g) /\ Aim(graphic, g, d)
    BY <2>4, <2>5, SteersFit, AimKept DEF Steers
  <2>7. Steers(graphic, TakeFocus(graphic, d, mouse_switch), g)
    BY <2>6, TakeFocusSteers
  <2> QED
    BY <2>2, <2>3, <2>5, <2>7, SteersTransitive
<1> QED
  BY <1>1, <1>2

\* The UIVM names no target, so that its divert cannot lead to g.
LEMMA UivmAim ==
  ASSUME NEW s, NEW g, Fit(s, g)
  PROVE  domain_uivm(s) = NULL \/ Aim(s, g, domain_uivm(s))
<1> DEFINE d == domain_uivm(s)
<1> SUFFICES ASSUME d # NULL PROVE Aim(s, g, d)
  OBVIOUS
<1>1. s \in State /\ Good(s)
  BY DEF Fit, Good
<1>2. d \in Live(s) /\ d \in Rec /\ s.domains[d].slot = 0
  BY <1>1, Lookups DEF domain_uivm
<1> HIDE DEF d
<1>3. ASSUME ~UivmDiverts
      PROVE  s.domains[d].key_domain = NULL /\ s.domains[d].mouse_domain = NULL
  <2>1. ~s.domains[d].has_divert
    BY <1>2, <1>3 DEF Fit, Tracked, RoutesIn, UivmHasNoDivert
  <2> QED
    BY <1>1, <1>2, <2>1, Pointers DEF Good, TargetsOwned, ParentOf
<1> QED
  BY <1>2, <1>3 DEF Aim

LEMMA ToUivmSteers ==
  ASSUME NEW s, NEW g, Fit(s, g), NEW shown
  PROVE  Steers(s, switcher_switch(s, domain_uivm(s), FALSE, shown), g)
BY UivmAim, SwitchSteers

\* The freed record leaves the screen, if it was on it.
LEMMA SwitcherGoneSteers ==
  ASSUME NEW s, NEW g, Fit(s, g), NEW d \in Rec, NEW shown,
         NEW t, t = switcher_domain_gone(s, d, shown)
  PROVE  /\ Steers(s, t, g)
         /\ s.surface_current \in Alive(s) \cup {d} => Shown(t)
<1> DEFINE cleared == [s EXCEPT !.surface_current = NULL]
           unfocused == [s EXCEPT !.current = NULL]
           To(u) == switcher_switch(u, domain_uivm(u), FALSE, shown)
<1>1. NULL \in Ptr /\ NULL \in Alive(s) /\ s \in State /\ NULL # d
  BY Pointers DEF Ptr, Alive, Fit, Good
<1>2. /\ Steers(s, cleared, g) /\ Steers(s, unfocused, g)
      /\ cleared.surface_current = NULL
      /\ unfocused.surface_current = s.surface_current
  BY <1>1, FocusFieldSteers DEF State
<1>3. \A u : Fit(u, g) => Steers(u, To(u), g)
  BY ToUivmSteers
<1>4. \/ t \in {cleared, To(cleared)}
      \/ s.surface_current # d /\ t \in {s, unfocused, To(unfocused)}
  BY <1>1 DEF switcher_domain_gone
<1> HIDE DEF cleared, unfocused, To
<1>5. CASE t \in {cleared, To(cleared)}
  <2>1. Fit(cleared, g) /\ Shown(cleared)
    BY <1>2, SteersFit DEF Shown, Alive
  <2>2. Steers(s, To(cleared), g) /\ Shown(To(cleared))
    BY <1>2, <1>3, <2>1, SteersFit, SteersTransitive
  <2> QED
    BY <1>2, <1>5, <2>1, <2>2
<1>6. CASE s.surface_current # d /\ t \in {s, unfocused, To(unfocused)}
  <2>1. Fit(unfocused, g) /\ (Shown(s) => Shown(unfocused))
    BY <1>2, SteersFit
  <2>2. /\ Steers(s, To(unfocused), g)
        /\ Shown(unfocused) => Shown(To(unfocused))
    BY <1>2, <1>3, <2>1, SteersFit, SteersTransitive
  <2>3. s.surface_current \in Alive(s) \cup {d} => Shown(s)
    BY <1>6 DEF Shown
  <2> QED
    BY <1>2, <1>6, <2>1, <2>2, <2>3, SteersReflexive
<1> QED
  BY <1>4, <1>5, <1>6

LEMMA SleepSteers ==
  ASSUME NEW s, NEW g, Fit(s, g), NEW d \in Rec, NEW shown
  PROVE  Steers(s, switcher_s3(s, d, shown), g)
BY ToUivmSteers, SteersReflexive DEF switcher_s3

LEMMA WindowSteers ==
  ASSUME NEW s, NEW g, Fit(s, g), NEW w,
         NEW t, t = [s EXCEPT !.death_window = w], Moves(s, t)
  PROVE  Steers(s, t, g)
<1>1. s \in State
  BY DEF Fit, Good
<1>2. /\ t.domains = s.domains /\ t.surface_current = s.surface_current
      /\ t.mouse_dest = s.mouse_dest /\ t.mouse_parent = s.mouse_parent
      /\ t.keyb_dest = s.keyb_dest /\ t.keyb_parent = s.keyb_parent
  BY <1>1 DEF State
<1>3. (~UivmDiverts => RoutesIn(s, g)) /\ (Orderly => Recalled(s))
  BY DEF Fit, Tracked
<1> QED
  BY <1>2, <1>3, Redirected DEF RoutesIn, Recalled, MouseNames, KeybNames

LEMMA FocusSteers ==
  ASSUME NEW s, NEW g, Fit(s, g), NEW d \in Rec, NEW match, NEW shown
  PROVE  /\ Steers(s, focus_expect_death(s, d), g)
         /\ Steers(s, focus_dont_expect_death(s, d), g)
         /\ Aim(s, g, d) => Steers(s, focus_update_domain(s, d, match, shown), g)
         /\ Steers(s, focus_domain_gone(s, d, shown), g)
<1>1. Good(s)
  BY DEF Fit
<1>2. /\ Moves(s, focus_expect_death(s, d))
      /\ Moves(s, focus_dont_expect_death(s, d))
  BY <1>1, FocusMoves
<1>3. Steers(s, focus_expect_death(s, d), g)
  BY <1>2, WindowSteers, SteersReflexive DEF focus_expect_death
<1>4. Steers(s, focus_dont_expect_death(s, d), g)
  BY <1>2, WindowSteers DEF focus_dont_expect_death
<1>5. ASSUME Aim(s, g, d)
      PROVE  Steers(s, focus_update_domain(s, d, match, shown), g)
  <2> DEFINE t == focus_dont_expect_death(s, d)
  <2>1. focus_update_domain(s, d, match, shown)
           \in {s, t, switcher_switch(t, d, FALSE, shown)}
    BY DEF focus_update_domain
  <2>2. Fit(t, g) /\ Aim(t, g, d)
    BY <1>4, <1>5, SteersFit, AimKept DEF Steers
  <2> HIDE DEF t
  <2>3. Steers(t, switcher_switch(t, d, FALSE, shown), g)
    BY <2>2, SwitchSteers
  <2>4. Steers(s, t, g) /\ Steers(s, s, g)
    BY <1>4, SteersReflexive DEF t
  <2>5. Steers(s, switcher_switch(t, d, FALSE, shown), g)
    BY <2>3, <2>4, SteersTransitive
  <2> QED
    BY <2>1, <2>4, <2>5
<1>6. Steers(s, focus_domain_gone(s, d, shown), g)
  BY ToUivmSteers, SteersReflexive DEF focus_domain_gone
<1> QED
  BY <1>3, <1>4, <1>5, <1>6

-----------------------------------------------------------------------------
(* Removing a record.                                                      *)

Freed(y) ==
    [y EXCEPT
        !.initialised = FALSE, !.slot = NoSlot, !.is_pvm = FALSE,
        !.client = FALSE, !.vkbd = FALSE, !.watched = FALSE,
        !.prev_ptr = NULL, !.prev_domid = NoDomid,
        !.has_divert = FALSE, !.key_domain = NULL, !.mouse_domain = NULL,
        !.key_follows = FALSE]

LEMMA FreedFields ==
  ASSUME NEW y \in DomainRec
  PROVE  /\ Freed(y) \in DomainRec
         /\ ~Freed(y).initialised /\ ~Freed(y).is_pvm /\ ~Freed(y).watched
         /\ ~Freed(y).has_divert /\ Freed(y).domid = y.domid
         /\ Freed(y).key_domain = NULL /\ Freed(y).mouse_domain = NULL
<1>1. NULL \in Ptr /\ NoSlot \in Int
  BY DEF Ptr
<1>2. Freed(y) \in DomainRec
  BY <1>1, ZenonT(60) DEF DomainRec, Freed
<1>3. ~Freed(y).initialised /\ ~Freed(y).is_pvm
  BY DEF DomainRec, Freed
<1>4. ~Freed(y).watched /\ ~Freed(y).has_divert
  BY DEF DomainRec, Freed
<1>5. Freed(y).domid = y.domid
  BY DEF DomainRec, Freed
<1>6. Freed(y).key_domain = NULL /\ Freed(y).mouse_domain = NULL
  BY DEF DomainRec, Freed
<1> QED
  BY <1>2, <1>3, <1>4, <1>5, <1>6

\* The pointers input_domain_gone leaves.
LEMMA DestsCleared ==
  ASSUME NEW u \in State, NEW d \in Rec, NEW t, t = input_domain_gone(u, d)
  PROVE  /\ SameTable(u, t)
         /\ t.mouse_parent = IF u.mouse_parent = d THEN NULL ELSE u.mouse_parent
         /\ t.keyb_parent = IF u.keyb_parent = d THEN NULL ELSE u.keyb_parent
         /\ t.mouse_dest = IF u.mouse_dest = d \/ u.mouse_parent = d THEN NULL
                           ELSE u.mouse_dest
         /\ t.keyb_dest = IF u.keyb_dest = d \/ u.keyb_parent = d THEN NULL
                          ELSE u.keyb_dest
<1> DEFINE md == IF u.mouse_dest = d \/ u.mouse_parent = d THEN NULL
                 ELSE u.mouse_dest
           kd == IF u.keyb_dest = d \/ u.keyb_parent = d THEN NULL
                 ELSE u.keyb_dest
           kp == IF u.keyb_parent = d THEN NULL ELSE u.keyb_parent
           mp == IF u.mouse_parent = d THEN NULL ELSE u.mouse_parent
<1>1. t = [u EXCEPT !.mouse_dest = md, !.keyb_dest = kd,
                    !.keyb_parent = kp, !.mouse_parent = mp]
  BY DEF input_domain_gone
<1> HIDE DEF md, kd, kp, mp
<1>2. /\ t.domains = u.domains /\ t.surface_current = u.surface_current
      /\ t.mouse_dest = md /\ t.keyb_dest = kd
      /\ t.keyb_parent = kp /\ t.mouse_parent = mp
  BY <1>1 DEF State
<1> QED
  BY <1>2 DEF SameTable, md, kd, kp, mp

\* The record is gone; diverts may still name it.
LEMMA FreeFit ==
  ASSUME NEW s, Fit(s, NULL), NEW d \in Rec,
         NEW t, t = input_domain_gone(FreeRecord(s, d), d)
  PROVE  /\ Removes(s, d, t) /\ Fit(t, d)
         /\ t.surface_current = s.surface_current
         /\ \A r \in Rec \ {d} :
               /\ t.domains[r].has_divert = s.domains[r].has_divert
               /\ s.domains[r].prev_ptr = NULL => t.domains[r].prev_ptr = NULL
<1> DEFINE q == reset_prev_keyb_domain(s, d)
           x == Freed(q.domains[d])
           u == Put(q, d, x)
<1>1. /\ Steers(s, q, NULL) /\ Fit(q, NULL)
      /\ q.surface_current = s.surface_current
      /\ s.domains[d].domid # NoDomid => \A r \in Live(s) :
            q.domains[r].prev_ptr # NULL =>
                q.domains[r].prev_domid # s.domains[d].domid
      /\ \A r \in Rec :
            s.domains[r].prev_ptr = NULL => q.domains[r].prev_ptr = NULL
  BY ResetSteers, SteersFit
<1>2. FreeRecord(s, d) = u
  BY DEF FreeRecord, Put, Freed
<1>3. Removes(s, d, t)
  BY FreeRecordRemoves DEF Fit
<1> HIDE DEF q
<1>4. q \in State /\ q.domains[d] \in DomainRec
  BY <1>1, DomainFields DEF Fit, Good
<1>5. /\ x \in DomainRec /\ ~x.initialised /\ ~x.is_pvm /\ ~x.watched
      /\ ~x.has_divert /\ x.domid = q.domains[d].domid
      /\ x.key_domain = NULL /\ x.mouse_domain = NULL
  BY <1>4, FreedFields
<1> HIDE DEF x
<1>6. /\ u \in State
      /\ u.mouse_dest = q.mouse_dest /\ u.mouse_parent = q.mouse_parent
      /\ u.keyb_dest = q.keyb_dest /\ u.keyb_parent = q.keyb_parent
      /\ \A r \in Rec : u.domains[r] = IF r = d THEN x ELSE q.domains[r]
  BY <1>4, <1>5, PutUpdates
<1>7. u.surface_current = q.surface_current
  BY <1>4 DEF Put, State
<1> HIDE DEF u
<1>8. /\ t.domains = u.domains /\ t.surface_current = u.surface_current
      /\ t.mouse_parent = IF u.mouse_parent = d THEN NULL ELSE u.mouse_parent
      /\ t.keyb_parent = IF u.keyb_parent = d THEN NULL ELSE u.keyb_parent
      /\ t.mouse_dest = IF u.mouse_dest = d \/ u.mouse_parent = d THEN NULL
                        ELSE u.mouse_dest
      /\ t.keyb_dest = IF u.keyb_dest = d \/ u.keyb_parent = d THEN NULL
                       ELSE u.keyb_dest
  BY <1>2, <1>6, DestsCleared DEF SameTable
<1>9. /\ Live(t) = Live(q) \ {d} /\ Alive(t) = Alive(q) \ {d}
      /\ Live(q) = Live(s) /\ d # NULL /\ Live(q) \subseteq Rec
  <2>1. Live(t) = Live(q) \ {d} /\ Live(q) = Live(s) /\ Live(q) \subseteq Rec
    BY <1>1, <1>5, <1>6, <1>8, MovesLive DEF Live, Steers
  <2> QED
    BY <2>1, Pointers DEF Alive
<1>10. \A r \in Rec \ {d} : t.domains[r] = q.domains[r]
  BY <1>6, <1>8
<1>11. t.domains[d] = x
  BY <1>6, <1>8
<1>12. Idle(t)
  BY <1>1, <1>5, <1>10, <1>11 DEF Fit, Idle
<1>13. ASSUME ~UivmDiverts PROVE RoutesIn(t, d)
  <2>1. RoutesIn(q, NULL)
    BY <1>1, <1>13 DEF Fit, Tracked
  <2>2. UivmHasNoDivert(t)
    BY <1>5, <1>10, <1>11, <2>1 DEF RoutesIn, UivmHasNoDivert
  <2>3. TargetsIn(t, d)
    BY <1>5, <1>9, <1>10, <1>11, <2>1 DEF RoutesIn, TargetsIn, Alive
  <2>4. t.mouse_dest \in Alive(t)
    BY <1>6, <1>8, <1>9, <2>1 DEF RoutesIn, Alive
  <2>5. MouseNames(t, d)
    <3> SUFFICES ASSUME t.mouse_parent # NULL
                 PROVE  t.mouse_dest = Left(t.domains[t.mouse_parent].mouse_domain, d)
      BY DEF MouseNames
    <3>1. /\ t.mouse_parent = q.mouse_parent /\ q.mouse_parent # d
          /\ q.mouse_parent # NULL
      BY <1>6, <1>8
    <3>2. q.mouse_parent \in Rec
      BY <1>1, <3>1 DEF Fit, Good, ParentsIn, ParentOf, Live
    <3>3. q.mouse_dest = q.domains[q.mouse_parent].mouse_domain
      BY <2>1, <3>1 DEF RoutesIn, MouseNames, Left
    <3> QED
      BY <1>6, <1>8, <1>10, <3>1, <3>2, <3>3 DEF Left
  <2>6. KeybNames(t, d)
    <3> SUFFICES ASSUME t.keyb_parent # NULL
                 PROVE  t.keyb_dest = Left(t.domains[t.keyb_parent].key_domain, d)
      BY DEF KeybNames
    <3>1. /\ t.keyb_parent = q.keyb_parent /\ q.keyb_parent # d
          /\ q.keyb_parent # NULL
      BY <1>6, <1>8
    <3>2. q.keyb_parent \in Rec
      BY <1>1, <3>1 DEF Fit, Good, ParentsIn, ParentOf, Live
    <3>3. q.keyb_dest = q.domains[q.keyb_parent].key_domain
      BY <2>1, <3>1 DEF RoutesIn, KeybNames, Left
    <3> QED
      BY <1>6, <1>8, <1>10, <3>1, <3>2, <3>3 DEF Left
  <2> QED
    BY <2>2, <2>3, <2>4, <2>5, <2>6 DEF RoutesIn
<1>16. ASSUME Orderly PROVE Recalled(t)
  <2>1. Recalled(q)
    BY <1>1, <1>16 DEF Fit, Tracked
  <2>2. t.keyb_dest \in Alive(t)
    BY <1>6, <1>8, <1>9, <2>1 DEF Recalled, Alive
  <2>3. PrevLive(t)
    <3> SUFFICES ASSUME NEW r \in Live(t),
                        t.domains[r].prev_ptr # NULL,
                        t.domains[r].prev_domid # NoDomid
                 PROVE  /\ t.domains[r].prev_ptr \in Live(t)
                        /\ t.domains[t.domains[r].prev_ptr].domid
                              = t.domains[r].prev_domid
      BY DEF PrevLive, PrevOf
    <3> DEFINE p == q.domains[r].prev_ptr
    <3>1. r \in Live(q) /\ r # d /\ r \in Rec /\ t.domains[r] = q.domains[r]
      BY <1>9, <1>10
    <3>2. p \in Live(q) /\ q.domains[p].domid = q.domains[r].prev_domid
      BY <2>1, <3>1 DEF Recalled, PrevLive, PrevOf
    <3>3. q.domains[d].domid = s.domains[d].domid
      BY <1>1 DEF Steers, Moves, SameRecord, SameFields
    <3>4. p # d
      BY <1>1, <1>9, <3>1, <3>2, <3>3
    <3> QED
      BY <1>9, <1>10, <3>1, <3>2, <3>4
  <2> QED
    BY <2>2, <2>3 DEF Recalled
<1>14. \A r \in Rec \ {d} :
          /\ t.domains[r].has_divert = s.domains[r].has_divert
          /\ s.domains[r].prev_ptr = NULL => t.domains[r].prev_ptr = NULL
  BY <1>1, <1>10 DEF Steers, Moves, SameRecord, SameFields
<1>15. Good(t)
  BY <1>3 DEF Removes
<1> QED
  BY <1>1, <1>3, <1>7, <1>8, <1>12, <1>13, <1>14, <1>15, <1>16 DEF Fit, Tracked

\* Last, the diverts forget it.
LEMMA CheckFit ==
  ASSUME NEW s, NEW d \in Rec, Fit(s, d), d \notin Live(s),
         NEW t, t = check_diverts_for_the_dead(s, d)
  PROVE  /\ Fit(t, NULL)
         /\ Shown(s) => Shown(t)
         /\ \A r \in Rec : /\ t.domains[r].initialised = s.domains[r].initialised
                           /\ t.domains[r].domid = s.domains[r].domid
                           /\ t.domains[r].slot = s.domains[r].slot
                           /\ t.domains[r].has_divert = s.domains[r].has_divert
         /\ PrevKept(s, t)
<1> DEFINE G(y) == divert_domain_gone(y, d)
           table == [r \in Rec |-> G(s.domains[r])]
<1>1. Good(s) /\ s \in State /\ s.domains \in [Rec -> DomainRec]
  BY DEF Fit, Good, State
<1>2. Good(t)
  BY <1>1, CheckDivertsKeeps
<1>3. t = [s EXCEPT !.domains = table]
  BY DEF check_diverts_for_the_dead
<1>4. ASSUME NEW y \in DomainRec
      PROVE  /\ G(y).initialised = y.initialised
             /\ G(y).domid = y.domid /\ G(y).slot = y.slot
             /\ G(y).has_divert = y.has_divert
             /\ G(y).is_pvm = y.is_pvm /\ G(y).watched = y.watched
             /\ G(y).prev_ptr = y.prev_ptr /\ G(y).prev_domid = y.prev_domid
             /\ G(y).key_domain = Left(y.key_domain, d)
             /\ G(y).mouse_domain = Left(y.mouse_domain, d)
  <2> DEFINE W(k, m) == [y EXCEPT !.key_domain = k, !.mouse_domain = m]
  <2>1. \A k, m :
           /\ W(k, m).initialised = y.initialised
           /\ W(k, m).domid = y.domid /\ W(k, m).slot = y.slot
           /\ W(k, m).has_divert = y.has_divert
           /\ W(k, m).is_pvm = y.is_pvm /\ W(k, m).watched = y.watched
           /\ W(k, m).prev_ptr = y.prev_ptr /\ W(k, m).prev_domid = y.prev_domid
           /\ W(k, m).key_domain = k /\ W(k, m).mouse_domain = m
    BY DEF DomainRec
  <2>2. G(y) = W(Left(y.key_domain, d), Left(y.mouse_domain, d))
    BY DEF divert_domain_gone, Left
  <2> HIDE DEF W, G
  <2> QED
    BY <2>1, <2>2
<1> HIDE DEF G
<1>5. \A r \in Rec : table[r] = G(s.domains[r])
  OBVIOUS
<1> HIDE DEF table
<1>6. /\ t.domains = table /\ t.surface_current = s.surface_current
      /\ t.mouse_dest = s.mouse_dest /\ t.mouse_parent = s.mouse_parent
      /\ t.keyb_dest = s.keyb_dest /\ t.keyb_parent = s.keyb_parent
  BY <1>1, <1>3 DEF State
<1>7. \A r \in Rec :
         /\ t.domains[r].initialised = s.domains[r].initialised
         /\ t.domains[r].domid = s.domains[r].domid
         /\ t.domains[r].slot = s.domains[r].slot
         /\ t.domains[r].has_divert = s.domains[r].has_divert
         /\ t.domains[r].is_pvm = s.domains[r].is_pvm
         /\ t.domains[r].watched = s.domains[r].watched
         /\ t.domains[r].prev_ptr = s.domains[r].prev_ptr
         /\ t.domains[r].prev_domid = s.domains[r].prev_domid
         /\ t.domains[r].key_domain = Left(s.domains[r].key_domain, d)
         /\ t.domains[r].mouse_domain = Left(s.domains[r].mouse_domain, d)
  BY <1>1, <1>4, <1>5, <1>6
<1>8. Live(t) = Live(s) /\ Alive(t) = Alive(s) /\ Live(s) \subseteq Rec
  BY <1>7 DEF Live, Alive
<1>9. Idle(t)
  BY <1>7 DEF Fit, Idle
<1>10. ASSUME ~UivmDiverts PROVE RoutesIn(t, NULL)
  <2>1. RoutesIn(s, d)
    BY <1>10 DEF Fit, Tracked
  <2>2. UivmHasNoDivert(t)
    BY <1>7, <2>1 DEF RoutesIn, UivmHasNoDivert
  <2>3. TargetsIn(t, NULL)
    BY <1>7, <1>8, <2>1 DEF RoutesIn, TargetsIn, Alive, Left
  <2>4. t.mouse_dest \in Alive(t)
    BY <1>6, <1>8, <2>1 DEF RoutesIn
  <2>5. \A p \in {s.mouse_parent, s.keyb_parent} : p # NULL => p \in Rec
    BY <1>1 DEF Good, ParentsIn, ParentOf, Live
  <2>6. MouseNames(t, NULL) /\ KeybNames(t, NULL)
    BY <1>6, <1>7, <2>1, <2>5 DEF RoutesIn, MouseNames, KeybNames, Left
  <2> QED
    BY <2>2, <2>3, <2>4, <2>6 DEF RoutesIn
<1>11. PrevKept(s, t)
  BY <1>7, <1>8 DEF PrevKept, PrevOf
<1>12. Orderly => Recalled(t)
  BY <1>6, <1>8, <1>11 DEF Fit, Tracked, Recalled, PrevLive, PrevKept
<1> QED
  BY <1>2, <1>6, <1>7, <1>8, <1>9, <1>10, <1>11, <1>12 DEF Fit, Tracked, Shown

\* A function that removes the record d and leaves nothing that names it.
Drops(s, d, t) ==
    /\ Removes(s, d, t) /\ Fit(t, NULL) /\ Shown(t)
    /\ \A r \in Rec \ {d} : t.domains[r].has_divert = s.domains[r].has_divert

\* What a record that remembered nothing remembers after it.
Untainted(s, d, t) ==
    \A r \in Rec \ {d} :
        s.domains[r].prev_ptr = NULL => PrevOf(t, t.domains[r])

LEMMA GoneDrops ==
  ASSUME NEW s, Fit(s, NULL), Shown(s), NEW d \in Rec, NEW shown
  PROVE  /\ Drops(s, d, Forget(s, d, shown))
         /\ Drops(s, d, domain_gone(s, d, shown))
         /\ Orderly => Untainted(s, d, Forget(s, d, shown))
<1>1. ASSUME NEW z, Fit(z, NULL), Shown(z)
      PROVE  /\ Drops(z, d, Forget(z, d, shown))
             /\ Orderly => Untainted(z, d, Forget(z, d, shown))
  <2> DEFINE t == input_domain_gone(FreeRecord(z, d), d)
             u == switcher_domain_gone(t, d, shown)
             v == check_diverts_for_the_dead(u, d)
  <2>1. Forget(z, d, shown) = v
    BY DEF Forget
  <2>2. Removes(z, d, v)
    BY <1>1, <2>1, GoneRemoves DEF Fit
  <2>3. /\ Removes(z, d, t) /\ Fit(t, d)
        /\ t.surface_current = z.surface_current
        /\ \A r \in Rec \ {d} :
              /\ t.domains[r].has_divert = z.domains[r].has_divert
              /\ z.domains[r].prev_ptr = NULL => t.domains[r].prev_ptr = NULL
    BY <1>1, FreeFit
  <2> HIDE DEF t
  <2>4. t.surface_current \in Alive(t) \cup {d}
    <3>1. Live(z) \subseteq Live(t) \cup {d}
      BY <2>3 DEF Removes, Live
    <3> QED
      BY <1>1, <2>3, <3>1 DEF Shown, Alive
  <2>5. Steers(t, u, d) /\ Shown(u)
    BY <2>3, <2>4, SwitcherGoneSteers
  <2> HIDE DEF u
  <2>6. Fit(u, d) /\ d \notin Live(u)
    <3>1. Live(u) = Live(t)
      BY <2>5, MovesLive DEF Steers
    <3> QED
      BY <2>3, <2>5, <3>1, SteersFit DEF Removes
  <2>7. /\ Fit(v, NULL) /\ Shown(v)
        /\ \A r \in Rec : v.domains[r].has_divert = u.domains[r].has_divert
        /\ PrevKept(u, v)
    BY <2>5, <2>6, CheckFit
  <2> HIDE DEF v
  <2>8. \A r \in Rec \ {d} : v.domains[r].has_divert = z.domains[r].has_divert
    BY <2>3, <2>5, <2>7 DEF Steers, Moves, SameRecord, SameFields
  <2>9. Orderly => Untainted(z, d, v)
    BY <2>3, <2>5, <2>7 DEF Untainted, Steers, PrevKept, PrevOf
  <2> QED
    BY <2>1, <2>2, <2>7, <2>8, <2>9 DEF Drops
<1>2. Drops(s, d, domain_gone(s, d, shown))
  <2> DEFINE t == focus_domain_gone(s, d, shown)
  <2>1. Steers(s, t, NULL) /\ Fit(t, NULL) /\ Shown(t)
    BY FocusSteers, SteersFit
  <2>2. domain_gone(s, d, shown) \in {Forget(t, d, shown), Forget(s, d, shown)}
    BY DEF domain_gone
  <2> HIDE DEF t
  <2>3. Drops(t, d, Forget(t, d, shown)) /\ Drops(s, d, Forget(s, d, shown))
    BY <1>1, <2>1
  <2>4. Drops(s, d, Forget(t, d, shown))
    BY <2>1, <2>3, MovesRemoves
       DEF Drops, Steers, Moves, SameRecord, SameFields
  <2> QED
    BY <2>2, <2>3, <2>4
<1> QED
  BY <1>1, <1>2

-----------------------------------------------------------------------------
(* Writing and adding a record.                                            *)

\* What holds between two handlers.
Kept(s) == Fit(s, NULL) /\ Shown(s)

LEMMA SteersKept ==
  ASSUME NEW s, NEW t, Kept(s), Steers(s, t, NULL)
  PROVE  Kept(t) /\ Live(t) = Live(s)
BY SteersFit, MovesLive DEF Kept, Steers

LEMMA PutKept ==
  ASSUME NEW s, Kept(s), NEW d \in Rec, NEW x \in DomainRec, Good(Put(s, d, x)),
         d \in Live(s) => /\ x.initialised
                          /\ s.domains[d].domid \in {x.domid, NoDomid},
         x.is_pvm => x.initialised /\ Pvms # {},
         x.watched => x.initialised,
         ~UivmDiverts => /\ x.has_divert => x.slot # 0
                         /\ x.key_domain \in Alive(s)
                         /\ x.mouse_domain \in Alive(s),
         ~UivmDiverts /\ d \in Live(s) =>
                         /\ x.key_domain = s.domains[d].key_domain
                         /\ x.mouse_domain = s.domains[d].mouse_domain,
         Orderly /\ x.initialised => PrevOf(s, x)
  PROVE  Kept(Put(s, d, x))
<1> DEFINE t == Put(s, d, x)
<1>1. Good(s) /\ s \in State /\ Idle(s)
  BY DEF Kept, Fit, Good
<1>2. /\ t.mouse_dest = s.mouse_dest /\ t.mouse_parent = s.mouse_parent
      /\ t.keyb_dest = s.keyb_dest /\ t.keyb_parent = s.keyb_parent
      /\ \A r \in Rec : t.domains[r] = IF r = d THEN x ELSE s.domains[r]
  BY <1>1, PutUpdates
<1>3. t.surface_current = s.surface_current
  BY <1>1 DEF Put, State
<1>4. Good(t)
  OBVIOUS
<1> HIDE DEF t
<1>5. /\ Live(s) \subseteq Live(t) /\ Live(t) \subseteq Live(s) \cup {d}
      /\ Alive(s) \subseteq Alive(t) /\ Live(s) \subseteq Rec
      /\ d \in Live(t) => x.initialised
  BY <1>2 DEF Live, Alive
<1>6. Idle(t)
  BY <1>1, <1>2 DEF Idle
<1>7. ASSUME ~UivmDiverts PROVE RoutesIn(t, NULL)
  <2>1. RoutesIn(s, NULL)
    BY <1>7 DEF Kept, Fit, Tracked
  <2>2. UivmHasNoDivert(t)
    BY <1>2, <1>7, <2>1 DEF RoutesIn, UivmHasNoDivert
  <2>3. TargetsIn(t, NULL)
    BY <1>2, <1>5, <1>7, <2>1 DEF RoutesIn, TargetsIn, Alive
  <2>4. t.mouse_dest \in Alive(t)
    BY <1>2, <1>5, <2>1 DEF RoutesIn
  <2>5. \A p \in {s.mouse_parent, s.keyb_parent} : p # NULL => p \in Live(s)
    BY <1>1 DEF Good, ParentsIn, ParentOf
  <2>6. \A p \in Live(s) : /\ t.domains[p].key_domain = s.domains[p].key_domain
                           /\ t.domains[p].mouse_domain = s.domains[p].mouse_domain
    BY <1>2, <1>5, <1>7
  <2>7. MouseNames(t, NULL) /\ KeybNames(t, NULL)
    BY <1>2, <2>1, <2>5, <2>6 DEF RoutesIn, MouseNames, KeybNames
  <2> QED
    BY <2>2, <2>3, <2>4, <2>7 DEF RoutesIn
<1>8. ASSUME Orderly PROVE Recalled(t)
  <2>1. Recalled(s)
    BY <1>8 DEF Kept, Fit, Tracked
  <2>2. \A y : PrevOf(s, y) => PrevOf(t, y)
    <3>1. \A p \in Live(s) : s.domains[p].domid \in {t.domains[p].domid, NoDomid}
      BY <1>2, <1>5
    <3> QED
      BY <1>5, <3>1 DEF PrevOf
  <2>3. \A r \in Live(t) : PrevOf(s, t.domains[r])
    BY <1>2, <1>5, <1>8, <2>1 DEF Recalled, PrevLive
  <2>4. PrevLive(t)
    BY <2>2, <2>3 DEF PrevLive
  <2> QED
    BY <1>2, <1>5, <2>1, <2>4 DEF Recalled
<1>9. Kept(t)
  BY <1>3, <1>4, <1>5, <1>6, <1>7, <1>8 DEF Kept, Fit, Tracked, Shown
<1> QED
  BY <1>9 DEF t

\* A record without a divert_info has no targets.
LEMMA NoTargets ==
  ASSUME NEW s, Good(s), NEW d \in Rec, ~s.domains[d].has_divert
  PROVE  s.domains[d].key_domain = NULL /\ s.domains[d].mouse_domain = NULL
BY Pointers DEF Good, TargetsOwned, ParentOf

LEMMA PutIntoKept ==
  ASSUME NEW s, Kept(s), NEW d \in Live(s), NEW x \in DomainRec,
         x.initialised, x.has_divert = s.domains[d].has_divert,
         s.domains[d].domid \in {x.domid, NoDomid},
         x.key_domain = s.domains[d].key_domain,
         x.mouse_domain = s.domains[d].mouse_domain,
         x.prev_ptr = s.domains[d].prev_ptr,
         x.prev_domid = s.domains[d].prev_domid,
         x.is_pvm => Pvms # {},
         ~UivmDiverts /\ x.has_divert => x.slot # 0
  PROVE  Kept(Put(s, d, x))
<1>1. Good(s) /\ d \in Rec
  BY DEF Kept, Fit, Live
<1>2. Good(Put(s, d, x))
  BY <1>1, PutGood
<1>3. ~UivmDiverts => x.key_domain \in Alive(s) /\ x.mouse_domain \in Alive(s)
  BY <1>1, Pointers DEF Kept, Fit, Tracked, RoutesIn, TargetsIn, Alive
<1>4. Orderly => PrevOf(s, x)
  BY DEF Kept, Fit, Tracked, Recalled, PrevLive, PrevOf
<1> QED
  BY <1>1, <1>2, <1>3, <1>4, PutKept

LEMMA Salvageable ==
  ASSUME NEW s \in State, NEW n, NEW id
  PROVE  LET e == domain_with_slot_and_not_domid(s, n, id)
         IN  e # NULL => e \in Live(s) /\ s.domains[e].domid # id
<1>1. Live(s) \subseteq Rec
  BY DEF Live
<1> QED
  BY <1>1, FirstIsMember DEF domain_with_slot_and_not_domid

\* The salvage spares the record that wants the slot.
LEMMA SalvageKept ==
  ASSUME NEW s, Kept(s), NEW d \in Rec, NEW id, s.domains[d].domid = id,
         NEW slot, NEW dead, NEW shown,
         NEW t, t = SalvageSlot(s, slot, id, dead, shown)
  PROVE  /\ Kept(t)
         /\ d \in Live(t) <=> d \in Live(s)
         /\ t.domains[d].domid = id
         /\ t.domains[d].has_divert = s.domains[d].has_divert
         /\ Orderly /\ Pvms = {} /\ s.domains[d].prev_ptr = NULL =>
               PrevOf(t, t.domains[d])
<1> DEFINE e == domain_with_slot_and_not_domid(s, slot, id)
<1>1. s \in State /\ Good(s) /\ Idle(s)
  BY DEF Kept, Fit, Good
<1>2. e # NULL => e \in Live(s) /\ s.domains[e].domid # id
  BY <1>1, Salvageable
<1>3. t = s \/ (e # NULL /\ t = domain_gone(s, e, shown))
  BY DEF SalvageSlot
<1> HIDE DEF e
<1>4. CASE t = s
  BY <1>4 DEF PrevOf
<1>5. CASE e # NULL /\ t = domain_gone(s, e, shown)
  <2>1. e \in Rec /\ e # d
    BY <1>2, <1>5 DEF Live
  <2>2. Drops(s, e, t) /\ (Orderly => Untainted(s, e, Forget(s, e, shown)))
    BY <1>5, <2>1, GoneDrops DEF Kept
  <2>3. Pvms = {} => t = Forget(s, e, shown)
    BY <1>1, <1>5, <2>1 DEF domain_gone, Idle
  <2>4. /\ d \in Live(t) <=> d \in Live(s)
        /\ t.domains[d].domid = id
        /\ t.domains[d].has_divert = s.domains[d].has_divert
    BY <2>1, <2>2 DEF Drops, Removes
  <2>5. Orderly /\ Pvms = {} /\ s.domains[d].prev_ptr = NULL =>
           PrevOf(t, t.domains[d])
    BY <2>1, <2>2, <2>3 DEF Untainted
  <2> QED
    BY <2>2, <2>4, <2>5 DEF Drops, Kept
<1> QED
  BY <1>3, <1>4, <1>5

LEMMA UpdateKept ==
  ASSUME NEW s, Kept(s), NEW d \in Live(s), NEW match, NEW shown
  PROVE  /\ Kept(focus_update_domain(s, d, match, shown))
         /\ d \in Live(focus_update_domain(s, d, match, shown))
         /\ \A m : Kept(switcher_switch(s, d, m, shown))
<1>1. Fit(s, NULL) /\ d \in Rec
  BY DEF Kept, Live
<1>2. Aim(s, NULL, d)
  BY DEF Aim
<1> QED
  BY <1>1, <1>2, FocusSteers, SwitchSteers, SteersKept

LEMMA SwitcherDomidKept ==
  ASSUME NEW s, Kept(s), NEW d \in Live(s), NEW id \in Domids,
         s.domains[d].domid = NoDomid, ~s.domains[d].has_divert,
         NEW dead, NEW match, NEW shown
  PROVE  LET u == switcher_domid(s, d, id, dead, match, shown)
         IN  Kept(u) /\ d \in Live(u)
<1>1. CASE domain_with_domid(s, id) # NULL
  BY <1>1 DEF switcher_domid
<1>2. CASE domain_with_domid(s, id) = NULL
  <2> DEFINE slot == VmSlot[id]
             x == [s.domains[d] EXCEPT !.domid = id]
             u == Put(s, d, x)
             t == SalvageSlot(u, slot, id, dead, shown)
             gpu == id \in GpuDomains
             y == [t.domains[d] EXCEPT
                      !.slot = slot, !.is_pvm = FALSE, !.vkbd = TRUE,
                      !.watched = TRUE, !.has_secondary_gpu = gpu]
             v == Admit(t, d, slot, gpu)
  <2>1. /\ s \in State /\ d \in Rec /\ s.domains[d] \in DomainRec
        /\ s.domains[d].initialised
    BY DomainFields DEF Kept, Fit, Good, Live
  <2>2. /\ x \in DomainRec /\ x.domid = id
        /\ x.initialised = s.domains[d].initialised
        /\ x.slot = s.domains[d].slot
        /\ x.has_divert = s.domains[d].has_divert
    BY <2>1 DEF DomainRec
  <2>3. /\ x.key_domain = s.domains[d].key_domain
        /\ x.mouse_domain = s.domains[d].mouse_domain
        /\ x.prev_ptr = s.domains[d].prev_ptr
        /\ x.prev_domid = s.domains[d].prev_domid
        /\ x.is_pvm = s.domains[d].is_pvm
    BY <2>1 DEF DomainRec
  <2>4. \/ switcher_domid(s, d, id, dead, match, shown) = t
        \/ switcher_domid(s, d, id, dead, match, shown) =
              focus_update_domain(v, d, match, shown)
    BY <1>2 DEF switcher_domid, Put
  <2>5. v = Put(t, d, y)
    BY DEF Admit, Put
  <2> HIDE DEF x, v
  <2>6. s.domains[d].is_pvm => Pvms # {}
    BY <2>1 DEF Kept, Fit, Idle
  <2>7. Kept(u)
    BY <2>1, <2>2, <2>3, <2>6, PutIntoKept
  <2>8. u.domains[d] = x
    BY <2>1, <2>2, PutUpdates
  <2> HIDE DEF u, slot
  <2>9. d \in Live(u) /\ u.domains[d].domid = id /\ ~u.domains[d].has_divert
    BY <2>1, <2>2, <2>8 DEF Live
  <2>10. Kept(t) /\ d \in Live(t) /\ ~t.domains[d].has_divert
    BY <2>1, <2>7, <2>9, SalvageKept
  <2> HIDE DEF t
  <2>11. t.domains[d] \in DomainRec /\ slot \in Int /\ gpu \in BOOLEAN
    BY <2>1, <2>10, DomainFields, SlotOf DEF Kept, Fit, Good, slot
  <2> HIDE DEF gpu
  <2>12. y \in DomainRec
    BY <2>11, ZenonT(60) DEF DomainRec
  <2>13. /\ y.initialised = t.domains[d].initialised
         /\ y.has_divert = t.domains[d].has_divert
         /\ y.domid = t.domains[d].domid
    BY <2>11 DEF DomainRec
  <2>14. /\ y.key_domain = t.domains[d].key_domain
         /\ y.mouse_domain = t.domains[d].mouse_domain
         /\ ~y.is_pvm
    BY <2>11 DEF DomainRec
  <2>15. /\ y.prev_ptr = t.domains[d].prev_ptr
         /\ y.prev_domid = t.domains[d].prev_domid
    BY <2>11 DEF DomainRec
  <2> HIDE DEF y
  <2>16. y.initialised /\ ~y.has_divert
    BY <2>10, <2>13 DEF Live
  <2>17. Kept(v)
    BY <2>5, <2>10, <2>12, <2>13, <2>14, <2>15, <2>16, PutIntoKept
  <2>18. d \in Live(v)
    BY <2>1, <2>5, <2>10, <2>12, <2>16, PutUpdates DEF Live, Kept, Fit, Good
  <2> QED
    BY <2>4, <2>10, <2>17, <2>18, UpdateKept
<1> QED
  BY <1>1, <1>2

LEMMA BlankFields ==
  ASSUME NEW id \in Domids \cup {NoDomid}
  PROVE  /\ Blank(id) \in DomainRec /\ Blank(id).domid = id
         /\ ~Blank(id).initialised /\ ~Blank(id).is_pvm /\ ~Blank(id).watched
         /\ ~Blank(id).has_divert /\ Blank(id).prev_ptr = NULL
         /\ Blank(id).key_domain = NULL /\ Blank(id).mouse_domain = NULL
BY DEF Blank, DomainRec, Ptr

\* A new record, in the place of one that is not in use.
LEMMA PutNewKept ==
  ASSUME NEW s, Kept(s), NEW d \in Rec \ Live(s), NEW x \in DomainRec,
         ~x.is_pvm, x.watched => x.initialised, ~x.has_divert,
         x.key_domain = NULL, x.mouse_domain = NULL,
         Orderly /\ x.initialised => PrevOf(s, x)
  PROVE  Kept(Put(s, d, x)) /\ (d \in Live(Put(s, d, x)) <=> x.initialised)
<1>1. Good(s) /\ NULL \in Alive(s) /\ s \in State
  BY DEF Kept, Fit, Good, Alive
<1>2. Good(Put(s, d, x))
  BY <1>1, PutGood
<1>3. Kept(Put(s, d, x))
  BY <1>1, <1>2, PutKept
<1> QED
  BY <1>1, <1>3, PutUpdates DEF Live

LEMMA CreateKept ==
  ASSUME NEW s, Kept(s), NEW d \in Rec \ Live(s), NEW id \in Domids,
         NEW dead, NEW match, NEW shown
  PROVE  Kept(domain_create(s, d, id, dead, match, shown))
<1> DEFINE x == [Blank(NoDomid) EXCEPT !.client = TRUE, !.initialised = TRUE]
           t == Put(s, d, x)
           u == switcher_domid(t, d, id, dead, match, shown)
           y == [u.domains[d] EXCEPT !.is_pvm = TRUE]
           v == focus_update_domain(Put(u, d, y), d, match, shown)
<1>1. /\ x \in DomainRec /\ x.initialised /\ x.domid = NoDomid
      /\ ~x.is_pvm /\ ~x.has_divert
      /\ x.key_domain = NULL /\ x.mouse_domain = NULL /\ x.prev_ptr = NULL
  <2> DEFINE X(z) == [z EXCEPT !.client = TRUE, !.initialised = TRUE]
  <2>1. \A z \in DomainRec :
           /\ X(z) \in DomainRec /\ X(z).initialised
           /\ X(z).domid = z.domid /\ X(z).is_pvm = z.is_pvm
           /\ X(z).has_divert = z.has_divert /\ X(z).prev_ptr = z.prev_ptr
           /\ X(z).key_domain = z.key_domain
           /\ X(z).mouse_domain = z.mouse_domain
    BY DEF DomainRec
  <2>2. x = X(Blank(NoDomid))
    OBVIOUS
  <2> HIDE DEF x, X
  <2> QED
    BY <2>1, <2>2, BlankFields
<1>2. domain_create(s, d, id, dead, match, shown) =
         IF id \in Pvms THEN switcher_switch(v, d, FALSE, shown) ELSE u
  BY DEF domain_create, switcher_pvm_domid, Put
<1> HIDE DEF x
<1>3. Kept(t) /\ d \in Live(t)
  BY <1>1, PutNewKept DEF PrevOf
<1>4. t.domains[d] = x
  BY <1>1, PutUpdates DEF Kept, Fit, Good
<1> HIDE DEF t
<1>5. Kept(u) /\ d \in Live(u)
  BY <1>1, <1>3, <1>4, SwitcherDomidKept
<1> HIDE DEF u
<1>6. ASSUME id \in Pvms PROVE Kept(switcher_switch(v, d, FALSE, shown))
  <2>1. d \in Rec /\ u \in State /\ u.domains[d] \in DomainRec
    BY <1>5, DomainFields DEF Kept, Fit, Good
  <2>2. /\ y \in DomainRec /\ SameFields(u.domains[d], y)
        /\ y.prev_ptr = u.domains[d].prev_ptr
        /\ y.prev_domid = u.domains[d].prev_domid
    BY <2>1 DEF DomainRec, SameFields
  <2> HIDE DEF y
  <2>3. y.initialised /\ (~UivmDiverts /\ y.has_divert => y.slot # 0)
    BY <1>5, <2>1, <2>2
       DEF Live, SameFields, Kept, Fit, Tracked, RoutesIn, UivmHasNoDivert
  <2>4. Kept(Put(u, d, y))
    BY <1>5, <1>6, <2>2, <2>3, PutIntoKept DEF SameFields
  <2>5. d \in Live(Put(u, d, y))
    BY <2>1, <2>2, <2>3, PutUpdates DEF Live
  <2> QED
    BY <2>4, <2>5, UpdateKept
<1> QED
  BY <1>2, <1>5, <1>6

LEMMA ReleaseKept ==
  ASSUME NEW s, Kept(s), NEW d \in Rec, NEW shown
  PROVE  Kept(domain_release(s, d, shown)) /\ Kept(domain_gone(s, d, shown))
BY GoneDrops DEF domain_release, Drops, Kept

LEMMA SetupKept ==
  ASSUME NEW s, Kept(s), NEW d \in Rec \ Live(s), NEW id \in VkbdDomains,
         NEW dead, NEW shown
  PROVE  Kept(SetupDomain(s, d, id, dead, shown))
<1> DEFINE slot == VmSlot[id]
           fresh == Put(s, d, Blank(id))
           t == SalvageSlot(fresh, slot, id, dead, shown)
           x == [t.domains[d] EXCEPT
                    !.slot = slot, !.watched = TRUE, !.initialised = TRUE]
<1>1. id \in Domids /\ slot \in Int
  BY ConstantsAssumption
<1>2. SetupDomain(s, d, id, dead, shown) \in
         {domain_release(fresh, d, shown), domain_release(t, d, shown),
          Put(t, d, x)}
  BY DEF SetupDomain, Put
<1>3. Kept(fresh) /\ d \notin Live(fresh)
  BY <1>1, BlankFields, PutNewKept
<1>4. fresh.domains[d] = Blank(id)
  BY <1>1, BlankFields, PutUpdates DEF Kept, Fit, Good
<1> HIDE DEF fresh, slot
<1>5. /\ Kept(t) /\ d \notin Live(t)
      /\ ~t.domains[d].has_divert
      /\ Orderly => PrevOf(t, t.domains[d])
  BY <1>1, <1>3, <1>4, BlankFields, SalvageKept DEF Orderly
<1> HIDE DEF t
<1>6. /\ t.domains[d] \in DomainRec /\ ~t.domains[d].initialised
      /\ Good(t) /\ Idle(t)
  BY <1>5, DomainFields DEF Kept, Fit, Good, Live
<1>7. x \in DomainRec /\ x.initialised
  BY <1>1, <1>6 DEF DomainRec
<1>8. /\ x.is_pvm = t.domains[d].is_pvm /\ x.has_divert = t.domains[d].has_divert
      /\ x.key_domain = t.domains[d].key_domain
      /\ x.mouse_domain = t.domains[d].mouse_domain
      /\ x.prev_ptr = t.domains[d].prev_ptr
      /\ x.prev_domid = t.domains[d].prev_domid
  BY <1>6 DEF DomainRec
<1> HIDE DEF x
<1>9. ~x.is_pvm /\ ~x.has_divert /\ x.key_domain = NULL /\ x.mouse_domain = NULL
  BY <1>5, <1>6, <1>8, NoTargets DEF Idle
<1>10. Orderly => PrevOf(t, x)
  BY <1>5, <1>8 DEF PrevOf
<1>11. Kept(Put(t, d, x))
  BY <1>5, <1>7, <1>9, <1>10, PutNewKept
<1> QED
  BY <1>2, <1>3, <1>5, <1>11, ReleaseKept

\* Writing a field of a record that Kept does not mention.
LEMMA FieldKept ==
  ASSUME NEW s, Kept(s), NEW d \in Rec, NEW x \in DomainRec,
         SameFields(s.domains[d], x),
         x.is_pvm = s.domains[d].is_pvm, x.watched = s.domains[d].watched,
         x.prev_ptr = s.domains[d].prev_ptr,
         x.prev_domid = s.domains[d].prev_domid
  PROVE  Kept(Put(s, d, x)) /\ Live(Put(s, d, x)) = Live(s)
<1>1. Steers(s, Put(s, d, x), NULL)
  BY PutSteers DEF Kept, PrevOf
<1> QED
  BY <1>1, SteersKept

LEMMA AttachKept ==
  ASSUME NEW s, Kept(s), NEW d \in Live(s), NEW id, NEW match, NEW shown
  PROVE  Kept(AttachVkbd(s, d, id, match, shown))
<1> DEFINE x == [s.domains[d] EXCEPT !.vkbd = TRUE]
<1>1. d \in Rec /\ s.domains[d] \in DomainRec
  BY DomainFields DEF Kept, Fit, Good, Live
<1>2. x \in DomainRec /\ SameFields(s.domains[d], x)
  BY <1>1 DEF DomainRec, SameFields
<1>3. /\ x.is_pvm = s.domains[d].is_pvm /\ x.watched = s.domains[d].watched
      /\ x.prev_ptr = s.domains[d].prev_ptr
      /\ x.prev_domid = s.domains[d].prev_domid
  BY <1>1 DEF DomainRec
<1>4. \/ AttachVkbd(s, d, id, match, shown) = s
      \/ AttachVkbd(s, d, id, match, shown) =
            focus_update_domain(Put(s, d, x), d, match, shown)
  BY DEF AttachVkbd, Put
<1> HIDE DEF x
<1>5. Kept(Put(s, d, x)) /\ d \in Live(Put(s, d, x))
  BY <1>1, <1>2, <1>3, FieldKept
<1> QED
  BY <1>4, <1>5, UpdateKept

-----------------------------------------------------------------------------
(* The steps, one lemma for each group of actions.                         *)

LEMMA InitKept == Init => Kept(sw)
<1> SUFFICES ASSUME Init PROVE Kept(sw)
  OBVIOUS
<1>1. Good(sw)
  BY InitSound DEF Sound
<1>2. Live(sw) = {} /\ Idle(sw) /\ Shown(sw)
  BY DEF Init, Live, Blank, Idle, Shown, Alive
<1>3. RoutesIn(sw, NULL)
  <2>1. UivmHasNoDivert(sw) /\ TargetsIn(sw, NULL)
    BY DEF Init, Blank, UivmHasNoDivert, TargetsIn, Alive
  <2>2. sw.mouse_dest \in Alive(sw) /\ MouseNames(sw, NULL) /\ KeybNames(sw, NULL)
    BY DEF Init, Alive, MouseNames, KeybNames
  <2> QED
    BY <2>1, <2>2 DEF RoutesIn
<1>4. Recalled(sw)
  BY <1>2 DEF Init, Recalled, PrevLive, Alive
<1> QED
  BY <1>1, <1>2, <1>3, <1>4 DEF Kept, Fit, Tracked

LEMMA SetSlotKept ==
  ASSUME Kept(sw), NEW d \in Rec, NEW slot \in SlotCalls,
         input_daemon_set_slot(d, slot)
  PROVE  Kept(sw')
<1> DEFINE e == domain_with_slot(sw, slot)
           old == sw.domains[d].slot
           X(s, r, n) == [s.domains[r] EXCEPT !.slot = n]
           u == Put(sw, e, X(sw, e, old))
<1>1. /\ sw \in State /\ d \in Live(sw) /\ old \in Int /\ slot \in Int
      /\ Idle(sw)
  BY ConstantsAssumption, DomainFields
     DEF input_daemon_set_slot, Kept, Fit, Good
<1>2. \A s \in State, r \in Rec, n \in Int :
         /\ X(s, r, n) \in DomainRec
         /\ X(s, r, n).slot = n
         /\ X(s, r, n).initialised = s.domains[r].initialised
         /\ X(s, r, n).domid = s.domains[r].domid
         /\ X(s, r, n).has_divert = s.domains[r].has_divert
         /\ X(s, r, n).key_domain = s.domains[r].key_domain
         /\ X(s, r, n).mouse_domain = s.domains[r].mouse_domain
         /\ X(s, r, n).prev_ptr = s.domains[r].prev_ptr
         /\ X(s, r, n).prev_domid = s.domains[r].prev_domid
         /\ X(s, r, n).is_pvm = s.domains[r].is_pvm
  <2> SUFFICES ASSUME NEW s \in State, NEW r \in Rec, NEW n \in Int,
                      NEW x \in DomainRec, x = s.domains[r]
               PROVE  LET y == [x EXCEPT !.slot = n]
                      IN  /\ y \in DomainRec
                          /\ y.slot = n
                          /\ y.initialised = x.initialised
                          /\ y.domid = x.domid
                          /\ y.has_divert = x.has_divert
                          /\ y.key_domain = x.key_domain
                          /\ y.mouse_domain = x.mouse_domain
                          /\ y.prev_ptr = x.prev_ptr
                          /\ y.prev_domid = x.prev_domid
                          /\ y.is_pvm = x.is_pvm
    BY DomainFields
  <2> QED
    BY DEF DomainRec
<1>3. /\ \/ sw' = Put(sw, d, X(sw, d, slot))
         \/ e # NULL /\ sw' = Put(u, d, X(u, d, slot))
      /\ UivmDiverts \/ UivmHasNoDivert(sw')
  BY DEF input_daemon_set_slot, Put
<1> HIDE DEF X
<1>4. ASSUME NEW s, Kept(s), NEW r \in Live(s), NEW n \in Int,
             ~UivmDiverts /\ s.domains[r].has_divert => n # 0
      PROVE  Kept(Put(s, r, X(s, r, n)))
  <2>1. s \in State /\ r \in Rec /\ s.domains[r].initialised
        /\ (s.domains[r].is_pvm => Pvms # {})
    BY <1>4 DEF Kept, Fit, Good, Idle, Live
  <2> QED
    BY <1>2, <1>4, <2>1, PutIntoKept
<1>5. CASE sw' = Put(sw, d, X(sw, d, slot))
  <2>1. d \in Rec /\ sw'.domains[d] = X(sw, d, slot)
    BY <1>1, <1>2, <1>5, PutUpdates DEF Live
  <2>2. ~UivmDiverts /\ sw.domains[d].has_divert => slot # 0
    BY <1>1, <1>2, <1>3, <2>1 DEF UivmHasNoDivert
  <2> QED
    BY <1>1, <1>4, <1>5, <2>2
<1>6. CASE e # NULL /\ sw' = Put(u, d, X(u, d, slot))
  <2>1. e \in Live(sw) /\ sw.domains[e].slot = slot /\ Live(sw) \subseteq Rec
    BY <1>1, <1>6, Lookups
  <2> HIDE DEF e
  <2> DEFINE y == X(sw, e, old)
  <2>a. e \in Rec /\ y \in DomainRec
    BY <1>1, <1>2, <2>1
  <2>2. /\ u \in State
        /\ \A r \in Rec : u.domains[r] = IF r = e THEN y ELSE sw.domains[r]
    BY <1>1, <2>a, PutUpdates
  <2>3. d \in Rec /\ X(u, d, slot) \in DomainRec
    BY <1>1, <1>2, <2>1, <2>2
  <2>4. \A r \in Rec :
           sw'.domains[r] = IF r = d THEN X(u, d, slot) ELSE u.domains[r]
    BY <1>6, <2>2, <2>3, PutUpdates
  <2>5. ~UivmDiverts /\ sw.domains[e].has_divert => old # 0
    <3>1. CASE e = d
      BY <2>1, <3>1 DEF Kept, Fit, Tracked, RoutesIn, UivmHasNoDivert
    <3>2. CASE e # d
      <4>1. sw'.domains[e] = X(sw, e, old)
        BY <2>1, <2>2, <2>4, <3>2
      <4> QED
        BY <1>1, <1>2, <1>3, <2>1, <4>1 DEF UivmHasNoDivert
    <3> QED
      BY <3>1, <3>2
  <2>6. Kept(u)
    BY <1>1, <1>4, <2>1, <2>5
  <2>7. d \in Live(u) /\ u.domains[d].has_divert = sw.domains[d].has_divert
    BY <1>1, <1>2, <2>1, <2>2, <2>3 DEF Live
  <2>8. ~UivmDiverts /\ u.domains[d].has_divert => slot # 0
    BY <1>1, <1>2, <1>3, <2>2, <2>3, <2>4, <2>7 DEF UivmHasNoDivert
  <2> HIDE DEF u
  <2> QED
    BY <1>1, <1>4, <1>6, <2>6, <2>7, <2>8
<1> QED
  BY <1>3, <1>5, <1>6

\* The fields of power and of adapters.
LEMMA PowerFields ==
  ASSUME NEW s, Kept(s), NEW d \in Rec
  PROVE  /\ \A r \in {REBOOT, RUNNING} :
               LET t == [s EXCEPT !.domains[d].sstate = r]
               IN  Kept(t) /\ Live(t) = Live(s)
         /\ \A b \in BOOLEAN :
               LET t == [s EXCEPT !.domains[d].is_in_s3 = b]
                   u == [s EXCEPT !.domains[d].disabled_surface = b]
               IN  Kept(t) /\ Kept(u) /\ Live(t) = Live(s)
         /\ LET t == [s EXCEPT !.domains[d] =
                        [@ EXCEPT !.is_in_s3 = FALSE, !.sstate = RUNNING]]
            IN  Kept(t) /\ Live(t) = Live(s)
<1> DEFINE y == s.domains[d]
           Same(x) == /\ x \in DomainRec /\ SameFields(y, x)
                      /\ x.is_pvm = y.is_pvm /\ x.watched = y.watched
                      /\ x.prev_ptr = y.prev_ptr /\ x.prev_domid = y.prev_domid
<1>1. y \in DomainRec
  BY DomainFields DEF Kept, Fit, Good
<1>2. \A x : Same(x) => Kept(Put(s, d, x)) /\ Live(Put(s, d, x)) = Live(s)
  BY FieldKept
<1>3. \A r \in {REBOOT, RUNNING} : Same([y EXCEPT !.sstate = r])
  BY <1>1 DEF DomainRec, SameFields
<1>4. \A b \in BOOLEAN : /\ Same([y EXCEPT !.is_in_s3 = b])
                         /\ Same([y EXCEPT !.disabled_surface = b])
  BY <1>1 DEF DomainRec, SameFields
<1>5. Same([y EXCEPT !.is_in_s3 = FALSE, !.sstate = RUNNING])
  BY <1>1 DEF DomainRec, SameFields
<1> HIDE DEF Same
<1> QED
  BY <1>2, <1>3, <1>4, <1>5 DEF Put

LEMMA ConnectionsKept ==
  ASSUME Kept(sw), Connections
  PROVE  Kept(sw')
<1>0. sw \in State /\ Good(sw) /\ Fit(sw, NULL)
  BY DEF Kept, Fit, Good
<1>1. ASSUME NEW id \in Domids, rpc_connect(id)
      PROVE  Kept(sw')
  <2>1. empty_domain(sw) \in Rec \ Live(sw)
    BY <1>0, <1>1, Lookups DEF rpc_connect
  <2> QED
    BY <1>1, <2>1, CreateKept DEF rpc_connect
<1>2. ASSUME NEW id \in VkbdDomains, input_daemon_attach_vkbd(id)
      PROVE  Kept(sw')
  <2> DEFINE known == domain_with_domid(sw, id)
             d == IF known # NULL THEN known ELSE empty_domain(sw)
  <2>1. known = NULL => d \in Rec \ Live(sw)
    <3>1. d # NULL
      BY <1>2 DEF input_daemon_attach_vkbd
    <3>2. empty_domain(sw) \in (Rec \ Live(sw)) \cup {NULL}
      BY <1>0, Lookups
    <3> QED
      BY <3>1, <3>2
  <2>2. PICK match \in BOOLEAN, dead \in BOOLEAN, shown \in Answers(d) :
           LET t == IF known # NULL THEN sw
                    ELSE SetupDomain(sw, d, id, dead, shown)
           IN  sw' = IF d \in Live(t) THEN AttachVkbd(t, d, id, match, shown)
                     ELSE t
    BY <1>2 DEF input_daemon_attach_vkbd
  <2> DEFINE t == IF known # NULL THEN sw
                  ELSE SetupDomain(sw, d, id, dead, shown)
  <2>3. sw' = IF d \in Live(t) THEN AttachVkbd(t, d, id, match, shown) ELSE t
    BY <2>2
  <2>4. Kept(t)
    BY <2>1, SetupKept
  <2> HIDE DEF t, d
  <2> QED
    BY <2>3, <2>4, AttachKept
<1>3. ASSUME NEW d \in Rec, rpc_disconnect(d)
      PROVE  Kept(sw')
  BY <1>3, ReleaseKept DEF rpc_disconnect
<1>4. ASSUME NEW d \in Rec, input_daemon_detach_vkbd(d)
      PROVE  Kept(sw')
  BY <1>4, ReleaseKept DEF input_daemon_detach_vkbd, domain_detach_vkbd
<1>5. ASSUME NEW d \in Rec, handle_switcher_shutdown(d)
      PROVE  Kept(sw')
  <2>1. PICK reason \in {REBOOT, RUNNING} :
           LET t == [sw EXCEPT !.domains[d].sstate = reason] IN
           sw' = IF reason = REBOOT THEN focus_expect_death(t, d)
                 ELSE focus_dont_expect_death(t, d)
    BY <1>5 DEF handle_switcher_shutdown
  <2> DEFINE t == [sw EXCEPT !.domains[d].sstate = reason]
  <2>2. sw' \in {focus_expect_death(t, d), focus_dont_expect_death(t, d)}
    BY <2>1
  <2>3. Kept(t)
    BY PowerFields
  <2> HIDE DEF t
  <2> QED
    BY <2>2, <2>3, FocusSteers, SteersKept DEF Kept
<1>6. ASSUME NEW slot \in FocusSlots, DeathWindowCloses(slot)
      PROVE  Kept(sw')
  <2> DEFINE t == [sw EXCEPT !.death_window = @ \ {slot}]
  <2>1. sw' = t
    BY <1>6 DEF DeathWindowCloses
  <2>2. /\ t \in State /\ t.domains = sw.domains
        /\ t.mouse_parent = sw.mouse_parent /\ t.keyb_parent = sw.keyb_parent
    BY <1>0 DEF State
  <2>3. Moves(sw, t)
    BY <1>0, <2>2, Rerouted DEF SameRecord, SameFields, Good, ParentsIn
  <2>4. Steers(sw, t, NULL)
    BY <1>0, <2>3, WindowSteers
  <2> HIDE DEF t
  <2> QED
    BY <2>1, <2>4, SteersKept
<1> QED
  BY <1>1, <1>2, <1>3, <1>4, <1>5, <1>6, SetSlotKept DEF Connections

LEMMA SwitchToKept ==
  ASSUME Kept(sw), NEW d \in Alive(sw), NEW m, SwitchTo(d, m)
  PROVE  Kept(sw')
<1>1. PICK shown \in SUBSET {d} :
         sw' = switcher_switch(sw, d, m, shown)
  BY DEF SwitchTo
<1>2. d = NULL \/ Aim(sw, NULL, d)
  BY DEF Aim, Alive
<1> QED
  BY <1>1, <1>2, SwitchSteers, SteersKept DEF Kept

LEMMA SwitchesKept ==
  ASSUME Kept(sw), Switches
  PROVE  Kept(sw')
<1>0. sw \in State /\ Fit(sw, NULL)
  BY DEF Kept, Fit, Good
<1>1. \A n : domain_with_slot(sw, n) \in Alive(sw)
  BY <1>0, Lookups DEF Alive
<1>2. CASE switcher_unfocus_gpu
  <2>1. NULL \in Ptr /\ NULL \in Alive(sw)
    BY DEF Ptr, Alive
  <2> QED
    BY <1>0, <1>2, <2>1, FocusFieldSteers, SteersKept DEF switcher_unfocus_gpu
<1>3. CASE go_to_next
  BY <1>1, <1>3, SwitchToKept DEF go_to_next
<1>4. ASSUME NEW slot \in 0..9, go_to_slot(slot)
      PROVE  Kept(sw')
  BY <1>1, <1>4, SwitchToKept DEF go_to_slot
<1>5. ASSUME NEW slot \in {-2} \cup 0..9, switcher_switch_on_mouse(slot)
      PROVE  Kept(sw')
  BY <1>1, <1>5, SwitchToKept DEF switcher_switch_on_mouse
<1>6. ASSUME NEW d \in Rec, input_daemon_switch_focus(d)
      PROVE  Kept(sw')
  BY <1>6, SwitchToKept DEF input_daemon_switch_focus, Alive
<1> QED
  BY <1>2, <1>3, <1>4, <1>5, <1>6 DEF Switches

LEMMA CommandsKept ==
  ASSUME Kept(sw), Commands
  PROVE  Kept(sw')
<1>0. Fit(sw, NULL) /\ \A d \in Rec : Commander(d) => d \in Live(sw)
  BY DEF Kept, Fit, Idle, Commander, Live
<1>1. ASSUME NEW d \in Rec, domain_command_take(d)
      PROVE  Kept(sw')
  BY <1>0, <1>1, GiveSteers, SteersKept DEF domain_command_take
<1>2. ASSUME NEW d \in Rec, domain_command_release(d)
      PROVE  Kept(sw')
  BY <1>0, <1>2, GiveSteers, SteersKept DEF domain_command_release
<1>3. ASSUME NEW d \in Rec, NEW e \in Rec, domain_command_switch(d, e)
      PROVE  Kept(sw')
  BY <1>3, SwitchToKept DEF domain_command_switch, Alive
<1>4. ASSUME NEW d \in Rec, NEW e \in Rec, domain_command_take_from(d, e)
      PROVE  Kept(sw')
  BY <1>0, <1>4, SeamlessSteers, SteersKept DEF domain_command_take_from
<1>5. ASSUME NEW d \in Rec, NEW e \in Rec, domain_command_release_to(d, e)
      PROVE  Kept(sw')
  BY <1>0, <1>5, SeamlessSteers, SteersKept DEF domain_command_release_to
<1> QED
  BY <1>1, <1>2, <1>3, <1>4, <1>5 DEF Commands

\* A click takes the keyboard where the mouse is; d may be a freed record
\* when the UIVM diverts its mouse.
LEMMA ClickKept ==
  ASSUME NEW s, Kept(s), NEW d \in Rec, ~UivmDiverts => d \in Alive(s)
  PROVE  Kept(input_set_keyb(s, d))
<1> DEFINE t == input_set_keyb(s, d)
<1>1. Good(s) /\ Fit(s, NULL) /\ (~UivmDiverts => RoutesIn(s, NULL))
  BY DEF Kept, Fit, Tracked
<1>2. Moves(s, t)
  BY <1>1, InputSetMoves
<1>3. /\ SameTable(s, t) /\ KeybAt(t, d)
      /\ t.mouse_dest = s.mouse_dest /\ t.mouse_parent = s.mouse_parent
  BY <1>1, InputSetKeybFields
<1> HIDE DEF t
<1>4. ~UivmDiverts => Aim(s, NULL, d)
  BY Pointers DEF Aim, Alive
<1>5. ~UivmDiverts => t.keyb_dest \in Alive(s) /\ KeybNames(t, NULL)
  BY <1>1, <1>3, <1>4, AtAim
<1>6. ~UivmDiverts => t.mouse_dest \in Alive(s) /\ MouseNames(t, NULL)
  BY <1>1, <1>3 DEF RoutesIn, MouseNames, SameTable
<1>7. Steers(s, t, NULL)
  BY <1>1, <1>2, <1>3, <1>5, <1>6, Redirected DEF SameTable, Orderly
<1>8. Kept(t)
  BY <1>7, SteersKept
<1> QED
  BY <1>8 DEF t

\* The divert_info x of d and the destinations that follow it.
LEMMA RedivertedKept ==
  ASSUME NEW s, Kept(s), NEW d \in Live(s), NEW x \in DomainRec,
         SameFlags(s, Put(s, d, x)),
         x.initialised, x.domid = s.domains[d].domid,
         x.prev_ptr = s.domains[d].prev_ptr,
         x.prev_domid = s.domains[d].prev_domid,
         ~UivmDiverts => /\ x.has_divert => x.slot # 0
                         /\ x.key_domain \in Alive(s)
                         /\ x.mouse_domain \in Alive(s),
         NEW t, Good(t), SameTable(Put(s, d, x), t),
         ~UivmDiverts => /\ t.mouse_dest \in Alive(s)
                         /\ MouseNames(t, NULL) /\ KeybNames(t, NULL),
         Orderly => t.keyb_dest \in Alive(s)
  PROVE  Kept(t)
<1>1. s \in State /\ Idle(s) /\ d \in Rec
  BY DEF Kept, Fit, Good, Live
<1>2. \A r \in Rec : t.domains[r] = IF r = d THEN x ELSE s.domains[r]
  BY <1>1, PutUpdates DEF SameTable
<1>3. t.surface_current = s.surface_current
  BY <1>1 DEF Put, State, SameTable
<1>4. Live(t) = Live(s) /\ Alive(t) = Alive(s) /\ Live(s) \subseteq Rec
  BY <1>1, <1>2 DEF Live, Alive
<1>5. Idle(t)
  BY <1>1, <1>2 DEF Idle, SameFlags, SameTable
<1>6. ASSUME ~UivmDiverts PROVE RoutesIn(t, NULL)
  <2>1. RoutesIn(s, NULL)
    BY <1>6 DEF Kept, Fit, Tracked
  <2>2. UivmHasNoDivert(t) /\ TargetsIn(t, NULL)
    BY <1>2, <1>4, <1>6, <2>1 DEF RoutesIn, UivmHasNoDivert, TargetsIn
  <2> QED
    BY <1>4, <1>6, <2>2 DEF RoutesIn
<1>7. ASSUME Orderly PROVE Recalled(t)
  <2>1. \A r \in Rec : /\ t.domains[r].domid = s.domains[r].domid
                       /\ t.domains[r].prev_ptr = s.domains[r].prev_ptr
                       /\ t.domains[r].prev_domid = s.domains[r].prev_domid
    BY <1>2
  <2>2. PrevLive(t)
    BY <1>4, <1>7, <2>1 DEF Kept, Fit, Tracked, Recalled, PrevLive, PrevOf
  <2> QED
    BY <1>4, <1>7, <2>2 DEF Recalled
<1> QED
  BY <1>3, <1>4, <1>5, <1>6, <1>7 DEF Kept, Fit, Tracked, Shown

\* A divert_info that a handler may write: one half of it keeps its target.
Rewrites(s, d, x) ==
    /\ x \in DomainRec /\ x.initialised
    /\ x.domid = s.domains[d].domid /\ x.slot = s.domains[d].slot
    /\ x.is_pvm = s.domains[d].is_pvm /\ x.watched = s.domains[d].watched
    /\ x.prev_ptr = s.domains[d].prev_ptr
    /\ x.prev_domid = s.domains[d].prev_domid
    /\ s.domains[d].has_divert => x.has_divert
    /\ x.key_domain # NULL \/ x.mouse_domain # NULL => x.has_divert
    /\ ~UivmDiverts => /\ x.slot # 0
                       /\ x.key_domain \in Alive(s)
                       /\ x.mouse_domain \in Alive(s)

LEMMA DivertedKept ==
  ASSUME NEW s, Sound(s), Kept(s), NEW d \in Live(s), NEW x, Rewrites(s, d, x)
  PROVE  /\ x.key_domain = s.domains[d].key_domain =>
               Kept(sync_mouse_domain(Put(s, d, x), d))
         /\ x.mouse_domain = s.domains[d].mouse_domain =>
               Kept(sync_kbd_domain(Put(s, d, x), d))
         /\ /\ x.key_domain = s.domains[d].key_domain
            /\ x.mouse_domain = s.domains[d].mouse_domain
            => Kept(Put(s, d, x))
<1> DEFINE u == Put(s, d, x)
           m == input_set_mouse(u, d)
           k == input_set_keyb(u, d)
<1>1. s \in State /\ Good(s) /\ d \in Rec /\ d # NULL /\ x \in DomainRec
  BY Pointers DEF Kept, Fit, Good, Live, Rewrites
<1>2. /\ u.mouse_dest = s.mouse_dest /\ u.mouse_parent = s.mouse_parent
      /\ u.keyb_dest = s.keyb_dest /\ u.keyb_parent = s.keyb_parent
      /\ \A r \in Rec : u.domains[r] = IF r = d THEN x ELSE s.domains[r]
  BY <1>1, PutUpdates
<1>3. /\ Good(u) /\ Good(sync_mouse_domain(u, d)) /\ Good(sync_kbd_domain(u, d))
  BY DivertSound DEF Rewrites, Sound
<1>4. SameFlags(s, u)
  BY <1>2 DEF SameFlags, Rewrites
<1>5. ASSUME NEW t, Good(t), SameTable(u, t),
             ~UivmDiverts => /\ t.mouse_dest \in Alive(s)
                             /\ MouseNames(t, NULL) /\ KeybNames(t, NULL),
             Orderly => t.keyb_dest \in Alive(s)
      PROVE  Kept(t)
  BY <1>1, <1>4, <1>5, RedivertedKept DEF Rewrites
<1> HIDE DEF u
<1>6. /\ SameTable(u, m) /\ MouseAt(m, d)
      /\ m.keyb_dest = u.keyb_dest /\ m.keyb_parent = u.keyb_parent
  BY <1>1, <1>3, InputSetMouseFields
<1>7. /\ SameTable(u, k) /\ KeybAt(k, d)
      /\ k.mouse_dest = u.mouse_dest /\ k.mouse_parent = u.mouse_parent
  BY <1>1, <1>3, InputSetKeybFields
<1>8. /\ sync_mouse_domain(u, d) = IF d \in {u.mouse_parent, u.mouse_dest}
                                   THEN m ELSE u
      /\ sync_kbd_domain(u, d) = IF d \in {u.keyb_parent, u.keyb_dest}
                                 THEN k ELSE u
  BY DEF sync_mouse_domain, sync_kbd_domain
<1> HIDE DEF m, k
<1>9. /\ ~UivmDiverts => RoutesIn(s, NULL)
      /\ Orderly => Recalled(s)
      /\ d \in Alive(s)
      /\ \A p \in {s.mouse_parent, s.keyb_parent} : p # NULL => p \in Rec
      /\ SameTable(u, u)
  BY <1>1 DEF Kept, Fit, Tracked, Good, ParentsIn, ParentOf, Live, Alive, SameTable
\* The half of the destinations whose targets no record changes.
<1>10. ASSUME x.key_domain = s.domains[d].key_domain,
              NEW t, SameTable(u, t),
              t.keyb_dest = s.keyb_dest, t.keyb_parent = s.keyb_parent
       PROVE  (~UivmDiverts => KeybNames(t, NULL))
              /\ (Orderly => t.keyb_dest \in Alive(s))
  <2>1. \A r \in Rec : t.domains[r].key_domain = s.domains[r].key_domain
    BY <1>2, <1>10 DEF SameTable
  <2> QED
    BY <1>9, <1>10, <2>1 DEF RoutesIn, Recalled, KeybNames
<1>11. ASSUME x.mouse_domain = s.domains[d].mouse_domain,
              NEW t, SameTable(u, t),
              t.mouse_dest = s.mouse_dest, t.mouse_parent = s.mouse_parent
       PROVE  ~UivmDiverts => t.mouse_dest \in Alive(s) /\ MouseNames(t, NULL)
  <2>1. \A r \in Rec : t.domains[r].mouse_domain = s.domains[r].mouse_domain
    BY <1>2, <1>11 DEF SameTable
  <2> QED
    BY <1>9, <1>11, <2>1 DEF RoutesIn, MouseNames
\* The half that follows d, or has nothing to do with it.
<1>12. ~UivmDiverts => m.mouse_dest \in Alive(s) /\ MouseNames(m, NULL)
  <2>1. m.domains[d] = x
    BY <1>1, <1>2, <1>6 DEF SameTable
  <2> QED
    BY <1>1, <1>6, <1>9, <2>1 DEF MouseAt, MouseNames, Left, Rewrites
<1>13. ~UivmDiverts => KeybNames(k, NULL)
  <2>1. k.domains[d] = x
    BY <1>1, <1>2, <1>7 DEF SameTable
  <2> QED
    BY <1>1, <1>7, <2>1 DEF KeybAt, KeybNames, Left
<1>14. Orderly => k.keyb_dest \in Alive(s)
  <2>1. k.domains[d] = x
    BY <1>1, <1>2, <1>7 DEF SameTable
  <2> QED
    BY <1>7, <1>9, <2>1 DEF KeybAt, Rewrites, Orderly
<1>15. d \notin {u.mouse_parent, u.mouse_dest} /\ ~UivmDiverts =>
          u.mouse_dest \in Alive(s) /\ MouseNames(u, NULL)
  BY <1>2, <1>9 DEF RoutesIn, MouseNames
<1>16. d \notin {u.keyb_parent, u.keyb_dest} =>
          /\ ~UivmDiverts => KeybNames(u, NULL)
          /\ Orderly => u.keyb_dest \in Alive(s)
  BY <1>2, <1>9 DEF RoutesIn, Recalled, KeybNames
<1>17. ASSUME x.key_domain = s.domains[d].key_domain
       PROVE  Kept(sync_mouse_domain(u, d))
  <2>1. CASE d \in {u.mouse_parent, u.mouse_dest}
    BY <1>2, <1>3, <1>5, <1>6, <1>8, <1>10, <1>12, <1>17, <2>1
  <2>2. CASE d \notin {u.mouse_parent, u.mouse_dest}
    BY <1>2, <1>3, <1>5, <1>8, <1>9, <1>10, <1>15, <1>17, <2>2
  <2> QED
    BY <2>1, <2>2
<1>18. ASSUME x.mouse_domain = s.domains[d].mouse_domain
       PROVE  Kept(sync_kbd_domain(u, d))
  <2>1. CASE d \in {u.keyb_parent, u.keyb_dest}
    BY <1>2, <1>3, <1>5, <1>7, <1>8, <1>11, <1>13, <1>14, <1>18, <2>1
  <2>2. CASE d \notin {u.keyb_parent, u.keyb_dest}
    BY <1>2, <1>3, <1>5, <1>8, <1>9, <1>11, <1>16, <1>18, <2>2
  <2> QED
    BY <2>1, <2>2
<1>19. ASSUME x.key_domain = s.domains[d].key_domain,
              x.mouse_domain = s.domains[d].mouse_domain
       PROVE  Kept(u)
  BY <1>2, <1>3, <1>5, <1>9, <1>10, <1>11, <1>19
<1> QED
  BY <1>17, <1>18, <1>19 DEF u

LEMMA DivertsKept ==
  ASSUME Sound(sw), Kept(sw), Diverts
  PROVE  Kept(sw')
<1>0. sw \in State /\ Good(sw) /\ ParentsIn(sw) /\ TargetsOwned(sw)
  BY DEF Sound, Good
<1>1. \A d \in Rec :
         /\ sw.domains[d] \in DomainRec
         /\ d \in Live(sw) =>
              /\ sw.domains[d].initialised
              /\ sw.domains[d].key_domain # NULL
                    \/ sw.domains[d].mouse_domain # NULL
                       => sw.domains[d].has_divert
         /\ ~UivmDiverts => /\ sw.domains[d].key_domain \in Alive(sw)
                            /\ sw.domains[d].mouse_domain \in Alive(sw)
                            /\ sw.domains[d].has_divert => sw.domains[d].slot # 0
  <2>1. NULL \in Alive(sw)
    BY DEF Alive
  <2> QED
    BY <1>0, <2>1, DomainFields, Pointers
       DEF TargetsOwned, ParentOf, Live, Kept, Fit, Tracked, RoutesIn, TargetsIn,
           UivmHasNoDivert
<1>2. ASSUME NEW d \in Rec, NEW td \in Rec, input_daemon_divert_mouse_focus(d, td)
      PROVE  Kept(sw')
  <2> DEFINE y == sw.domains[d]
             x == [y EXCEPT !.has_divert = TRUE, !.mouse_domain = td]
  <2>1. /\ d \in Live(sw) /\ y \in DomainRec /\ td \in Alive(sw)
        /\ ~UivmDiverts => y.slot # 0
    BY <1>1, <1>2 DEF input_daemon_divert_mouse_focus, Sender, Target, Alive
  <2>2. x \in DomainRec /\ x.has_divert /\ x.initialised = y.initialised
        /\ x.domid = y.domid /\ x.slot = y.slot /\ x.mouse_domain = td
    BY <2>1 DEF DomainRec, Ptr
  <2>3. /\ x.is_pvm = y.is_pvm /\ x.watched = y.watched
        /\ x.prev_ptr = y.prev_ptr /\ x.prev_domid = y.prev_domid
        /\ x.key_domain = y.key_domain
    BY <2>1 DEF DomainRec
  <2>4. sw' = sync_mouse_domain(Put(sw, d, x), d)
    BY <1>2 DEF input_daemon_divert_mouse_focus, Put
  <2> HIDE DEF x
  <2>5. Rewrites(sw, d, x)
    BY <1>1, <2>1, <2>2, <2>3 DEF Rewrites
  <2> QED
    BY <2>1, <2>3, <2>4, <2>5, DivertedKept
<1>3. ASSUME NEW d \in Rec, NEW td \in Rec, input_daemon_divert_keyboard_focus(d, td)
      PROVE  Kept(sw')
  <2> DEFINE y == sw.domains[d]
             x == [y EXCEPT !.has_divert = TRUE, !.key_domain = td]
  <2>1. /\ d \in Live(sw) /\ y \in DomainRec /\ td \in Alive(sw)
        /\ ~UivmDiverts => y.slot # 0
    BY <1>1, <1>3 DEF input_daemon_divert_keyboard_focus, Sender, Target, Alive
  <2>2. x \in DomainRec /\ x.has_divert /\ x.initialised = y.initialised
        /\ x.domid = y.domid /\ x.slot = y.slot /\ x.key_domain = td
    BY <2>1 DEF DomainRec, Ptr
  <2>3. /\ x.is_pvm = y.is_pvm /\ x.watched = y.watched
        /\ x.prev_ptr = y.prev_ptr /\ x.prev_domid = y.prev_domid
        /\ x.mouse_domain = y.mouse_domain
    BY <2>1 DEF DomainRec
  <2>4. sw' = sync_kbd_domain(Put(sw, d, x), d)
    BY <1>3 DEF input_daemon_divert_keyboard_focus, Put
  <2> HIDE DEF x
  <2>5. Rewrites(sw, d, x)
    BY <1>1, <2>1, <2>2, <2>3 DEF Rewrites
  <2> QED
    BY <2>1, <2>3, <2>4, <2>5, DivertedKept
<1>4. ASSUME NEW d \in Rec, input_daemon_stop_mouse_divert(d)
      PROVE  Kept(sw')
  <2> DEFINE y == sw.domains[d]
             x == [y EXCEPT !.mouse_domain = NULL]
  <2>1. /\ d \in Live(sw) /\ y \in DomainRec /\ NULL \in Alive(sw)
        /\ ~UivmDiverts => y.slot # 0
    BY <1>1, <1>4 DEF input_daemon_stop_mouse_divert, Sender, Alive
  <2>2. x \in DomainRec /\ x.has_divert = y.has_divert
        /\ x.initialised = y.initialised
        /\ x.domid = y.domid /\ x.slot = y.slot /\ x.mouse_domain = NULL
    BY <2>1 DEF DomainRec, Ptr
  <2>3. /\ x.is_pvm = y.is_pvm /\ x.watched = y.watched
        /\ x.prev_ptr = y.prev_ptr /\ x.prev_domid = y.prev_domid
        /\ x.key_domain = y.key_domain
    BY <2>1 DEF DomainRec
  <2>4. sw' = sync_mouse_domain(Put(sw, d, x), d)
    BY <1>4 DEF input_daemon_stop_mouse_divert, Put
  <2> HIDE DEF x
  <2>5. Rewrites(sw, d, x)
    BY <1>1, <2>1, <2>2, <2>3 DEF Rewrites
  <2> QED
    BY <2>1, <2>3, <2>4, <2>5, DivertedKept
<1>5. ASSUME NEW d \in Rec, input_daemon_stop_keyboard_divert(d)
      PROVE  Kept(sw')
  <2> DEFINE y == sw.domains[d]
             x == [y EXCEPT !.key_domain = NULL]
  <2>1. /\ d \in Live(sw) /\ y \in DomainRec /\ NULL \in Alive(sw)
        /\ ~UivmDiverts => y.slot # 0
    BY <1>1, <1>5 DEF input_daemon_stop_keyboard_divert, Sender, Alive
  <2>2. x \in DomainRec /\ x.has_divert = y.has_divert
        /\ x.initialised = y.initialised
        /\ x.domid = y.domid /\ x.slot = y.slot /\ x.key_domain = NULL
    BY <2>1 DEF DomainRec, Ptr
  <2>3. /\ x.is_pvm = y.is_pvm /\ x.watched = y.watched
        /\ x.prev_ptr = y.prev_ptr /\ x.prev_domid = y.prev_domid
        /\ x.mouse_domain = y.mouse_domain
    BY <2>1 DEF DomainRec
  <2>4. sw' = sync_kbd_domain(Put(sw, d, x), d)
    BY <1>5 DEF input_daemon_stop_keyboard_divert, Put
  <2> HIDE DEF x
  <2>5. Rewrites(sw, d, x)
    BY <1>1, <2>1, <2>2, <2>3 DEF Rewrites
  <2> QED
    BY <2>1, <2>3, <2>4, <2>5, DivertedKept
<1>6. ASSUME NEW d \in Rec, input_daemon_focus_mode(d)
      PROVE  Kept(sw')
  <2>1. PICK follows \in BOOLEAN :
           sw' = [sw EXCEPT !.domains[d] =
                     [@ EXCEPT !.has_divert = TRUE, !.key_follows = follows]]
    BY <1>6 DEF input_daemon_focus_mode
  <2> DEFINE y == sw.domains[d]
             x == [y EXCEPT !.has_divert = TRUE, !.key_follows = follows]
  <2>2. /\ d \in Live(sw) /\ y \in DomainRec
        /\ ~UivmDiverts => y.slot # 0
    BY <1>1, <1>6 DEF input_daemon_focus_mode, Sender
  <2>3. x \in DomainRec /\ x.has_divert /\ x.initialised = y.initialised
        /\ x.domid = y.domid /\ x.slot = y.slot
    BY <2>2 DEF DomainRec
  <2>4. /\ x.is_pvm = y.is_pvm /\ x.watched = y.watched
        /\ x.prev_ptr = y.prev_ptr /\ x.prev_domid = y.prev_domid
        /\ x.key_domain = y.key_domain /\ x.mouse_domain = y.mouse_domain
    BY <2>2 DEF DomainRec
  <2>5. sw' = Put(sw, d, x)
    BY <2>1 DEF Put
  <2> HIDE DEF x
  <2>6. Rewrites(sw, d, x)
    BY <1>1, <2>2, <2>3, <2>4 DEF Rewrites
  <2> QED
    BY <2>2, <2>4, <2>5, <2>6, DivertedKept
<1>7. CASE Click
  <2> DEFINE p == sw.mouse_parent
             d == sw.mouse_dest
             y == sw.domains[p]
             x == [y EXCEPT !.key_domain = d]
  <2>1. d \in Ptr /\ d \in Rec /\ d # NULL /\ (~UivmDiverts => d \in Alive(sw))
    BY <1>0, <1>7, StateFields DEF Click, Ptr, Kept, Fit, Tracked, RoutesIn
  <2>2. CASE p = NULL
    <3>1. sw' = input_set_keyb(sw, d)
      BY <1>7, <2>2 DEF Click
    <3> QED
      BY <2>1, <3>1, ClickKept
  <2>3. CASE p # NULL
    <3>1. p \in Live(sw) /\ y.has_divert /\ p \in Rec /\ y \in DomainRec
          /\ (~UivmDiverts => y.slot # 0)
      BY <1>0, <1>1, <2>3 DEF ParentsIn, ParentOf, Live
    <3>2. x \in DomainRec /\ x.has_divert = y.has_divert
          /\ x.initialised = y.initialised
          /\ x.domid = y.domid /\ x.slot = y.slot /\ x.key_domain = d
      BY <2>1, <3>1 DEF DomainRec
    <3>3. /\ x.is_pvm = y.is_pvm /\ x.watched = y.watched
          /\ x.prev_ptr = y.prev_ptr /\ x.prev_domid = y.prev_domid
          /\ x.mouse_domain = y.mouse_domain
      BY <3>1 DEF DomainRec
    <3>4. sw' = sync_kbd_domain(Put(sw, p, x), p)
      BY <1>7, <2>3 DEF Click, Put
    <3> HIDE DEF x
    <3>5. Rewrites(sw, p, x)
      BY <1>1, <2>1, <3>1, <3>2, <3>3 DEF Rewrites
    <3> QED
      BY <3>1, <3>3, <3>4, <3>5, DivertedKept
  <2> QED
    BY <2>2, <2>3
<1> QED
  BY <1>2, <1>3, <1>4, <1>5, <1>6, <1>7 DEF Diverts

LEMMA WakeKept ==
  ASSUME NEW s, Kept(s), NEW d \in Ptr, NEW shown
  PROVE  Kept(domain_wake_from_s3(s, d, shown))
<1>1. CASE d = NULL
  BY <1>1 DEF domain_wake_from_s3
<1>2. CASE d # NULL
  <2> DEFINE t == [s EXCEPT !.domains[d] =
                      [@ EXCEPT !.is_in_s3 = FALSE, !.sstate = RUNNING]]
  <2>1. d \in Rec
    BY <1>2 DEF Ptr
  <2>2. Kept(t) /\ Live(t) = Live(s)
    BY <2>1, PowerFields
  <2>3. s.domains[d].is_pvm => d \in Live(s)
    BY <2>1 DEF Kept, Fit, Idle, Live
  <2>4. \/ domain_wake_from_s3(s, d, shown) \in {s, t}
        \/ /\ s.domains[d].is_pvm
           /\ domain_wake_from_s3(s, d, shown) = switcher_switch(t, d, FALSE, shown)
    BY DEF domain_wake_from_s3
  <2> HIDE DEF t
  <2> QED
    BY <2>2, <2>3, <2>4, UpdateKept
<1> QED
  BY <1>1, <1>2

LEMMA PowerKept ==
  ASSUME Kept(sw), Power
  PROVE  Kept(sw')
<1>0. sw \in State /\ \A d \in Rec : sw.domains[d].watched => d \in Live(sw)
  BY DEF Kept, Fit, Good, Idle, Live
<1>1. CASE WakeOnInput
  <2>1. PICK shown \in SUBSET Rec :
           LET mouse == domain_wake_from_s3(sw, sw.mouse_dest, shown)
               keyb  == domain_wake_from_s3(mouse, mouse.keyb_dest, shown)
           IN  sw' = domain_wake_from_s3(keyb, domain_pvm(keyb), shown)
    BY <1>1 DEF WakeOnInput
  <2> DEFINE mouse == domain_wake_from_s3(sw, sw.mouse_dest, shown)
             keyb  == domain_wake_from_s3(mouse, mouse.keyb_dest, shown)
  <2>2. sw' = domain_wake_from_s3(keyb, domain_pvm(keyb), shown)
    BY <2>1
  <2>3. Kept(mouse)
    BY <1>0, WakeKept, StateFields
  <2> HIDE DEF mouse
  <2>4. Kept(keyb)
    BY <2>3, WakeKept, StateFields DEF Kept, Fit, Good
  <2> HIDE DEF keyb
  <2>5. domain_pvm(keyb) \in Ptr
    BY <2>4, Lookups DEF Kept, Fit, Good, Ptr
  <2> QED
    BY <2>2, <2>4, <2>5, WakeKept
<1>2. ASSUME NEW d \in Rec, domain_power_state(d)
      PROVE  Kept(sw')
  <2> DEFINE asleep == [sw EXCEPT !.domains[d].is_in_s3 = TRUE]
             cleared == SetPrev(asleep, d, NULL, NoDomid)
             reset == reset_prev_keyb_domain(cleared, d)
  <2>1. PICK shown \in Answers(d) : sw' = switcher_s3(reset, d, shown)
    BY <1>2 DEF domain_power_state
  <2>2. Kept(asleep)
    BY PowerFields
  <2> HIDE DEF asleep
  <2>3. Kept(cleared)
    BY <2>2, SetPrevSteers, SteersKept DEF Kept, Ptr
  <2> HIDE DEF cleared
  <2>4. Kept(reset)
    BY <2>3, ResetSteers, SteersKept DEF Kept
  <2> HIDE DEF reset
  <2> QED
    BY <2>1, <2>4, SleepSteers, SteersKept DEF Kept
<1>3. ASSUME NEW d \in Rec, domain_active_adapter_node_watch(d)
      PROVE  Kept(sw')
  <2> DEFINE off == ~sw.domains[d].disabled_surface
             t   == [sw EXCEPT !.domains[d].disabled_surface = off]
  <2>1. PICK shown \in Answers(d) :
           sw' \in {t, switcher_switch_graphic(t, domain_uivm(t), shown)}
    BY <1>3 DEF domain_active_adapter_node_watch
  <2>2. Kept(t)
    BY PowerFields
  <2> HIDE DEF t
  <2>3. domain_uivm(t) \in Alive(t)
    BY <2>2, Lookups DEF Kept, Fit, Good, Alive
  <2> QED
    BY <2>1, <2>2, <2>3, GraphicSteers, SteersKept DEF Kept
<1>4. ASSUME NEW d \in Rec, domain_active_adapter_watch(d)
      PROVE  Kept(sw')
  <2>1. d \in Alive(sw)
    BY <1>0, <1>4 DEF domain_active_adapter_watch, Alive
  <2> QED
    BY <1>4, <2>1, GraphicSteers, SteersKept DEF domain_active_adapter_watch, Kept
<1> QED
  BY <1>1, <1>2, <1>3, <1>4 DEF Power

-----------------------------------------------------------------------------

RInv == Sound(sw) /\ Kept(sw)

LEMMA NextKept == RInv /\ [Next]_sw => RInv'
<1>1. ASSUME Sound(sw), Kept(sw), Next PROVE Kept(sw')
  BY <1>1, ConnectionsKept, SwitchesKept, CommandsKept, DivertsKept, PowerKept
     DEF Next
<1>2. ASSUME Kept(sw), UNCHANGED sw PROVE Kept(sw')
  BY <1>2
<1> QED
  BY <1>1, <1>2, NextSound DEF RInv, IInv

\* The inductive invariant holds throughout.
THEOREM RoutesKept == Spec => []RInv
<1>1. Init => RInv
  BY InitSound, InitKept DEF RInv
<1> QED
  BY <1>1, NextKept, PTL DEF Spec

\* switcher_switch_graphic never takes a freed record for the one on screen,
\* whatever the domains divert, command and attach.
THEOREM SurfaceInUse == Spec => []SurfaceAlive
<1>1. RInv => SurfaceAlive
  BY DEF RInv, Kept, Shown, Alive, SurfaceAlive
<1> QED
  BY <1>1, RoutesKept, PTL

\* set_mouse_domain and set_kbd_domain follow diverts to records in use only,
\* unless the UIVM, which domain_gone switches to before it clears the
\* diverts, has one.
THEOREM TargetsInUse == ~UivmDiverts => (Spec => []DivertTargetsAlive)
<1> SUFFICES ASSUME ~UivmDiverts PROVE Spec => []DivertTargetsAlive
  OBVIOUS
<1>1. RInv => DivertTargetsAlive
  <2>1. RInv => TargetsIn(sw, NULL)
    BY DEF RInv, Kept, Fit, Tracked, RoutesIn
  <2> QED
    BY <2>1 DEF TargetsIn, Alive, DivertTargetsAlive
<1> QED
  BY <1>1, RoutesKept, PTL

\* A destination that has a parent is what the parent's divert_info names
\* now: no handler changes one without the other.
THEOREM DivertNamesDestination == ~UivmDiverts => (Spec => []ParentNamesDestination)
<1> SUFFICES ASSUME ~UivmDiverts PROVE Spec => []ParentNamesDestination
  OBVIOUS
<1>1. RInv => ParentNamesDestination
  <2>1. RInv => MouseNames(sw, NULL) /\ KeybNames(sw, NULL)
    BY DEF RInv, Kept, Fit, Tracked, RoutesIn
  <2> QED
    BY <2>1 DEF MouseNames, KeybNames, Left, ParentNamesDestination
<1> QED
  BY <1>1, RoutesKept, PTL

\* input_send writes to a record in use, or to none, through every switch,
\* divert, command, death and salvage.
THEOREM DestinationsInUse == Orderly => (Spec => []DestinationsAlive)
<1> SUFFICES ASSUME Orderly PROVE Spec => []DestinationsAlive
  OBVIOUS
<1>1. RInv => DestinationsAlive
  <2>1. RInv => sw.mouse_dest \in Alive(sw) /\ sw.keyb_dest \in Alive(sw)
    BY DEF RInv, Kept, Fit, Tracked, RoutesIn, Recalled, Orderly
  <2> QED
    BY <2>1 DEF Alive, DestinationsAlive
<1> QED
  BY <1>1, RoutesKept, PTL

\* What restore_prev_keyb_domain accepts is a record in use: a domain that
\* dies is forgotten by every record that remembered it.
THEOREM RestoresTheLiving == Orderly => (Spec => []RestoreIsSafe)
<1> SUFFICES ASSUME Orderly PROVE Spec => []RestoreIsSafe
  OBVIOUS
<1>1. RInv => RestoreIsSafe
  <2>1. RInv => PrevLive(sw)
    BY DEF RInv, Kept, Fit, Tracked, Recalled
  <2> QED
    BY <2>1 DEF PrevLive, PrevOf, PrevUsable, RestoreIsSafe
<1> QED
  BY <1>1, RoutesKept, PTL

-----------------------------------------------------------------------------
(* Where nobody takes the keyboard and no viewer stops a divert of it,     *)
(* mouse and keyboard are apart only while a click is awaited that brings  *)
(* them together again.                                                    *)
(*                                                                         *)
(* The inductive invariant, of any value s of the statics: no record       *)
(* remembers a keyboard domain, and only viewers have a divert.            *)

CalmRecord(y) ==
    /\ y.prev_ptr = NULL
    /\ y.has_divert => y.domid \in Viewers

ApartWaits(s) ==
    NULL \notin {s.mouse_dest, s.keyb_dest} /\ s.mouse_dest # s.keyb_dest
        => s.keyb_waits_for_click

Calm(s) ==
    /\ s \in State
    /\ \A r \in Rec : CalmRecord(s.domains[r])
    /\ ApartWaits(s)

\* The destinations are as they were, and so is the wait.
SameAim(s, t) ==
    /\ t.mouse_dest = s.mouse_dest /\ t.keyb_dest = s.keyb_dest
    /\ t.keyb_waits_for_click = s.keyb_waits_for_click

\* A function that writes the table alone.
LEMMA TableCalm ==
  ASSUME NEW s, Calm(s), NEW t \in State, SameAim(s, t),
         \A r \in Rec : CalmRecord(t.domains[r])
  PROVE  Calm(t)
BY DEF Calm, SameAim, ApartWaits

\* A function that leaves the table alone.
LEMMA AimCalm ==
  ASSUME NEW s, Calm(s), NEW t \in State, t.domains = s.domains, ApartWaits(t)
  PROVE  Calm(t)
BY DEF Calm

LEMMA PutCalm ==
  ASSUME NEW s, Calm(s), NEW d \in Rec, NEW x \in DomainRec, CalmRecord(x)
  PROVE  Calm(Put(s, d, x))
<1>1. s \in State
  BY DEF Calm
<1>2. /\ Put(s, d, x) \in State
      /\ \A r \in Rec : Put(s, d, x).domains[r] =
                           IF r = d THEN x ELSE s.domains[r]
  BY <1>1, PutUpdates
<1>3. SameAim(s, Put(s, d, x))
  BY <1>1 DEF SameAim, Put, State
<1>4. \A r \in Rec : CalmRecord(Put(s, d, x).domains[r])
  BY <1>2 DEF Calm
<1> QED
  BY <1>2, <1>3, <1>4, TableCalm

-----------------------------------------------------------------------------
(* Routing: a divert that is followed starts a wait.                       *)

LEMMA SetMouseWaits ==
  ASSUME NEW s \in State, NEW d \in Rec, NEW t, t = set_mouse_domain(s, d)
  PROVE  /\ t \in State /\ t.domains = s.domains /\ t.keyb_dest = s.keyb_dest
         /\ \/ t.keyb_waits_for_click
            \/ /\ t.mouse_dest = d
               /\ t.keyb_waits_for_click = s.keyb_waits_for_click
<1>1. s.domains[d].mouse_domain \in Ptr /\ d \in Ptr /\ NULL \in Ptr
  BY DomainFields DEF Ptr
<1>2. CASE s.domains[d].mouse_domain # NULL
  BY <1>1, <1>2 DEF set_mouse_domain, State
<1>3. CASE s.domains[d].mouse_domain = NULL
  BY <1>1, <1>3 DEF set_mouse_domain, State
<1> QED
  BY <1>2, <1>3

LEMMA SetKbdWaits ==
  ASSUME NEW s \in State, NEW d \in Rec, NEW t, t = set_kbd_domain(s, d)
  PROVE  /\ t \in State /\ t.domains = s.domains /\ t.mouse_dest = s.mouse_dest
         /\ t.mouse_parent = s.mouse_parent
         /\ s.keyb_waits_for_click => t.keyb_waits_for_click
         /\ \/ t.keyb_waits_for_click
            \/ s.domains[d].key_domain = NULL /\ t.keyb_dest = d
<1>1. /\ s.domains[d].key_domain \in Ptr /\ d \in Ptr /\ NULL \in Ptr
      /\ s.keyb_waits_for_click \in BOOLEAN
  BY DomainFields, StateFields DEF Ptr
<1>2. CASE s.domains[d].key_domain # NULL
  BY <1>1, <1>2 DEF set_kbd_domain, State
<1>3. CASE s.domains[d].key_domain = NULL
  BY <1>1, <1>3 DEF set_kbd_domain, State
<1> QED
  BY <1>2, <1>3

LEMMA InputSetMouseCalm ==
  ASSUME NEW s, Calm(s), NEW d \in Rec
  PROVE  Calm(input_set_mouse(s, d))
<1> DEFINE b == ~s.keyb_waits_for_click \/ s.keyb_dest # d
           u == [s EXCEPT !.keyb_waits_for_click = b]
           t == input_set_mouse(s, d)
<1>1. t = set_mouse_domain(u, d) /\ b \in BOOLEAN /\ s \in State
  BY DEF input_set_mouse, Calm
<1>2. b = FALSE => s.keyb_dest = d
  OBVIOUS
<1> HIDE DEF b, t
<1>3. /\ u \in State /\ u.domains = s.domains /\ u.keyb_dest = s.keyb_dest
      /\ u.keyb_waits_for_click = b
  BY <1>1, WaitFields DEF SameTable
<1> HIDE DEF u
<1>4. /\ t \in State /\ t.domains = u.domains /\ t.keyb_dest = u.keyb_dest
      /\ \/ t.keyb_waits_for_click
         \/ t.mouse_dest = d /\ t.keyb_waits_for_click = u.keyb_waits_for_click
  BY <1>1, <1>3, SetMouseWaits
<1>5. ApartWaits(t)
  BY <1>1, <1>2, <1>3, <1>4 DEF ApartWaits
<1>6. Calm(t)
  BY <1>3, <1>4, <1>5, AimCalm
<1> QED
  BY <1>6 DEF t

\* A click sends the keyboard where the mouse is, or into a divert.
LEMMA InputSetKeybCalm ==
  ASSUME NEW s, Calm(s), NEW d \in Rec,
         d = s.mouse_dest \/ s.domains[d].key_domain # NULL
  PROVE  Calm(input_set_keyb(s, d))
<1> DEFINE u == [s EXCEPT !.keyb_waits_for_click = FALSE]
           t == input_set_keyb(s, d)
<1>1. t = set_kbd_domain(u, d) /\ s \in State
  BY DEF input_set_keyb, Calm
<1> HIDE DEF t
<1>2. u \in State /\ u.domains = s.domains /\ u.mouse_dest = s.mouse_dest
  BY <1>1, WaitFields DEF SameTable
<1> HIDE DEF u
<1>3. /\ t \in State /\ t.domains = u.domains /\ t.mouse_dest = u.mouse_dest
      /\ \/ t.keyb_waits_for_click
         \/ u.domains[d].key_domain = NULL /\ t.keyb_dest = d
  BY <1>1, <1>2, SetKbdWaits
<1>4. ApartWaits(t)
  BY <1>2, <1>3 DEF ApartWaits
<1>5. Calm(t)
  BY <1>2, <1>3, <1>4, AimCalm
<1> QED
  BY <1>5 DEF t

LEMMA InputSetCalm ==
  ASSUME NEW s, Calm(s), NEW d \in Rec
  PROVE  Calm(input_set(s, d))
<1> DEFINE u == [s EXCEPT !.keyb_waits_for_click = FALSE]
           v == set_mouse_domain(u, d)
           t == input_set(s, d)
<1>1. t = set_kbd_domain(v, d) /\ s \in State
  BY DEF input_set, Calm
<1> HIDE DEF t
<1>2. u \in State /\ u.domains = s.domains
  BY <1>1, WaitFields DEF SameTable
<1> HIDE DEF u
<1>3. /\ v \in State /\ v.domains = u.domains
      /\ v.keyb_waits_for_click \/ v.mouse_dest = d
  BY <1>2, SetMouseWaits
<1> HIDE DEF v
<1>4. /\ t \in State /\ t.domains = v.domains /\ t.mouse_dest = v.mouse_dest
      /\ v.keyb_waits_for_click => t.keyb_waits_for_click
      /\ t.keyb_waits_for_click \/ t.keyb_dest = d
  BY <1>1, <1>3, SetKbdWaits
<1>5. ApartWaits(t)
  BY <1>3, <1>4 DEF ApartWaits
<1>6. Calm(t)
  BY <1>2, <1>3, <1>4, <1>5, AimCalm
<1> QED
  BY <1>6 DEF t

LEMMA SetPrevCalm ==
  ASSUME NEW s, Calm(s), NEW d \in Rec
  PROVE  Calm(SetPrev(s, d, NULL, NoDomid))
<1> DEFINE x == [s.domains[d] EXCEPT !.prev_ptr = NULL, !.prev_domid = NoDomid]
<1>1. s.domains[d] \in DomainRec /\ CalmRecord(s.domains[d]) /\ NULL \in Ptr
  BY DomainFields DEF Calm, Ptr
<1>2. x \in DomainRec /\ CalmRecord(x)
  BY <1>1 DEF DomainRec, CalmRecord
<1>3. SetPrev(s, d, NULL, NoDomid) = Put(s, d, x)
  BY DEF SetPrev, Put
<1> HIDE DEF x
<1> QED
  BY <1>2, <1>3, PutCalm

\* A switch remembers a keyboard domain only if it is not that of the mouse,
\* and it asks only while no click is awaited.
LEMMA SaveCalm ==
  ASSUME NEW s, Calm(s), NEW d \in Ptr, ~s.keyb_waits_for_click
  PROVE  Calm(save_prev_keyb_domain(s, d))
<1>1. CASE NULL \in {s.keyb_dest, s.mouse_dest, d}
  BY <1>1 DEF save_prev_keyb_domain
<1>2. CASE NULL \notin {s.keyb_dest, s.mouse_dest, d}
  <2>1. d \in Rec /\ s.keyb_dest = s.mouse_dest
    BY <1>2 DEF Calm, ApartWaits, Ptr
  <2>2. save_prev_keyb_domain(s, d) = SetPrev(s, d, NULL, NoDomid)
    BY <1>2, <2>1 DEF save_prev_keyb_domain
  <2> QED
    BY <2>1, <2>2, SetPrevCalm
<1> QED
  BY <1>1, <1>2

LEMMA RestoreCalm ==
  ASSUME NEW s, Calm(s), NEW d \in Rec
  PROVE  restore_prev_keyb_domain(s, d) = s
BY DEF restore_prev_keyb_domain, PrevUsable, Calm, CalmRecord

LEMMA ResetCalm ==
  ASSUME NEW s, Calm(s), NEW d \in Rec
  PROVE  Calm(reset_prev_keyb_domain(s, d))
<1> DEFINE Cleared(x) == [x EXCEPT !.prev_ptr = NULL, !.prev_domid = NoDomid]
           table == [r \in Rec |->
                        IF /\ s.domains[r].initialised
                           /\ s.domains[r].prev_domid = s.domains[d].domid
                        THEN Cleared(s.domains[r])
                        ELSE s.domains[r]]
           t == [s EXCEPT !.domains = table]
<1>1. s \in State /\ s.domains \in [Rec -> DomainRec] /\ NULL \in Ptr
  BY DEF Calm, State, Ptr
<1>2. \A x \in DomainRec :
         Cleared(x) \in DomainRec /\ (CalmRecord(x) => CalmRecord(Cleared(x)))
  BY <1>1 DEF DomainRec, CalmRecord
<1>3. reset_prev_keyb_domain(s, d) = s \/ reset_prev_keyb_domain(s, d) = t
  BY DEF reset_prev_keyb_domain
<1> HIDE DEF Cleared
<1>4. /\ table \in [Rec -> DomainRec]
      /\ \A r \in Rec : table[r] \in {s.domains[r], Cleared(s.domains[r])}
  BY <1>1, <1>2
<1> HIDE DEF table
<1>5. t \in State /\ t.domains = table /\ SameAim(s, t)
  BY <1>1, <1>4 DEF State, SameAim
<1> HIDE DEF t
<1>6. \A r \in Rec : CalmRecord(t.domains[r])
  BY <1>1, <1>2, <1>4, <1>5 DEF Calm
<1> QED
  BY <1>3, <1>5, <1>6, TableCalm

-----------------------------------------------------------------------------
(* Switching.                                                              *)

LEMMA FocusFieldCalm ==
  ASSUME NEW s, Calm(s), NEW d \in Ptr
  PROVE  /\ Calm([s EXCEPT !.current = d])
         /\ Calm([s EXCEPT !.surface_current = d])
<1> DEFINE t == [s EXCEPT !.current = d]
           u == [s EXCEPT !.surface_current = d]
<1>1. s \in State
  BY DEF Calm
<1>2. /\ t \in State /\ t.domains = s.domains /\ SameAim(s, t)
      /\ u \in State /\ u.domains = s.domains /\ SameAim(s, u)
  BY <1>1 DEF State, SameAim
<1> HIDE DEF t, u
<1>3. Calm(t) /\ Calm(u)
  BY <1>2, TableCalm DEF Calm
<1> QED
  BY <1>3 DEF t, u

LEMMA WindowCalm ==
  ASSUME NEW s, Calm(s), NEW w \in SUBSET FocusSlots,
         NEW t, t = [s EXCEPT !.death_window = w]
  PROVE  Calm(t)
<1>1. t \in State /\ t.domains = s.domains /\ SameAim(s, t)
  BY DEF Calm, State, SameAim
<1> QED
  BY <1>1, TableCalm DEF Calm

LEMMA GraphicCalm ==
  ASSUME NEW s, Calm(s), NEW d \in Ptr, NEW shown
  PROVE  Calm(switcher_switch_graphic(s, d, shown))
BY FocusFieldCalm DEF switcher_switch_graphic

LEMMA TakeFocusCalm ==
  ASSUME NEW s, Calm(s), NEW d \in Rec, NEW m
  PROVE  Calm(TakeFocus(s, d, m))
<1> DEFINE t == [s EXCEPT !.current = d]
<1>1. Calm(t)
  BY FocusFieldCalm DEF Ptr
<1>2. \/ TakeFocus(s, d, m) = input_set_mouse(t, d)
      \/ TakeFocus(s, d, m) = input_set(t, d)
      \/ TakeFocus(s, d, m) = restore_prev_keyb_domain(input_set(t, d), d)
  BY DEF TakeFocus
<1> HIDE DEF t
<1>3. Calm(input_set_mouse(t, d)) /\ Calm(input_set(t, d))
  BY <1>1, InputSetMouseCalm, InputSetCalm
<1> QED
  BY <1>2, <1>3, RestoreCalm

LEMMA SwitchCalm ==
  ASSUME NEW s, Calm(s), NEW d \in Ptr, NEW m, NEW shown
  PROVE  Calm(switcher_switch(s, d, m, shown))
<1>1. CASE d = NULL
  BY <1>1 DEF switcher_switch
<1>2. CASE d # NULL
  <2> DEFINE saved   == IF s.keyb_waits_for_click THEN s
                        ELSE save_prev_keyb_domain(s, s.current)
             graphic == IF s.domains[d].disabled_surface THEN saved
                        ELSE switcher_switch_graphic(saved, d, shown)
  <2>1. d \in Rec /\ s.current \in Ptr
    BY <1>2, StateFields DEF Ptr, Calm
  <2>2. switcher_switch(s, d, m, shown) \in {saved, TakeFocus(graphic, d, m)}
    BY <1>2 DEF switcher_switch
  <2>3. Calm(saved)
    BY <2>1, SaveCalm
  <2> HIDE DEF saved
  <2>4. Calm(graphic)
    BY <2>3, GraphicCalm
  <2> HIDE DEF graphic
  <2>5. Calm(TakeFocus(graphic, d, m))
    BY <2>1, <2>4, TakeFocusCalm
  <2> QED
    BY <2>2, <2>3, <2>5
<1> QED
  BY <1>1, <1>2

LEMMA UivmCalm ==
  ASSUME NEW s, Calm(s)
  PROVE  domain_uivm(s) \in Ptr /\ domain_pvm(s) \in Ptr
BY Lookups DEF Calm, Ptr

LEMMA SwitcherGoneCalm ==
  ASSUME NEW s, Calm(s), NEW d \in Rec, NEW shown
  PROVE  /\ Calm(switcher_domain_gone(s, d, shown))
         /\ Calm(switcher_s3(s, d, shown))
<1> DEFINE Fallback(t) ==
               IF s.domains[d].sstate = REBOOT THEN t
               ELSE switcher_switch(t, domain_uivm(t), FALSE, shown)
           u == [s EXCEPT !.surface_current = NULL]
           v == [s EXCEPT !.current = NULL]
<1>1. \A t : Calm(t) => Calm(switcher_switch(t, domain_uivm(t), FALSE, shown))
  BY UivmCalm, SwitchCalm
<1>2. Calm(u) /\ Calm(v)
  BY FocusFieldCalm DEF Ptr
<1>3. switcher_domain_gone(s, d, shown) \in {s, Fallback(u), Fallback(v)}
  BY DEF switcher_domain_gone
<1> HIDE DEF u, v
<1>4. Calm(Fallback(u)) /\ Calm(Fallback(v))
  BY <1>1, <1>2
<1> HIDE DEF Fallback
<1>5. Calm(switcher_domain_gone(s, d, shown))
  BY <1>3, <1>4
<1>6. Calm(switcher_s3(s, d, shown))
  BY <1>1 DEF switcher_s3
<1> QED
  BY <1>5, <1>6

LEMMA FocusCalm ==
  ASSUME NEW s, Calm(s), NEW d \in Rec, NEW match, NEW shown
  PROVE  /\ Calm(focus_expect_death(s, d))
         /\ Calm(focus_dont_expect_death(s, d))
         /\ Calm(focus_update_domain(s, d, match, shown))
         /\ Calm(focus_domain_gone(s, d, shown))
<1>1. s.death_window \in SUBSET FocusSlots /\ d \in Ptr
  BY StateFields DEF Calm, Ptr
<1>2. Calm(focus_expect_death(s, d))
  <2> DEFINE w == s.death_window \cup {s.domains[d].slot}
  <2>1. CASE s.domains[d].slot \in FocusSlots
    <3>1. w \in SUBSET FocusSlots
      BY <1>1, <2>1
    <3>2. focus_expect_death(s, d) = [s EXCEPT !.death_window = w]
      BY <2>1 DEF focus_expect_death
    <3> HIDE DEF w
    <3> QED
      BY <3>1, <3>2, WindowCalm
  <2>2. CASE s.domains[d].slot \notin FocusSlots
    BY <2>2 DEF focus_expect_death
  <2> QED
    BY <2>1, <2>2
<1>3. Calm(focus_dont_expect_death(s, d))
  <2> DEFINE w == s.death_window \ {s.domains[d].slot}
  <2>1. w \in SUBSET FocusSlots
    BY <1>1
  <2>2. focus_dont_expect_death(s, d) = [s EXCEPT !.death_window = w]
    BY DEF focus_dont_expect_death
  <2> HIDE DEF w
  <2> QED
    BY <2>1, <2>2, WindowCalm
<1>4. Calm(focus_update_domain(s, d, match, shown))
  <2> DEFINE t == focus_dont_expect_death(s, d)
  <2>1. focus_update_domain(s, d, match, shown)
           \in {s, t, switcher_switch(t, d, FALSE, shown)}
    BY DEF focus_update_domain
  <2>2. Calm(t)
    BY <1>3
  <2> HIDE DEF t
  <2> QED
    BY <1>1, <2>1, <2>2, SwitchCalm
<1>5. Calm(focus_domain_gone(s, d, shown))
  BY UivmCalm, SwitchCalm DEF focus_domain_gone
<1> QED
  BY <1>2, <1>3, <1>4, <1>5

-----------------------------------------------------------------------------
(* Removing a record.                                                      *)

LEMMA FreeCalm ==
  ASSUME NEW s, Calm(s), NEW d \in Rec
  PROVE  Calm(FreeRecord(s, d))
<1> DEFINE q == reset_prev_keyb_domain(s, d)
           x == Freed(q.domains[d])
<1>1. Calm(q)
  BY ResetCalm
<1>2. FreeRecord(s, d) = Put(q, d, x)
  BY DEF FreeRecord, Put, Freed
<1> HIDE DEF q
<1>3. q.domains[d] \in DomainRec
  BY <1>1, DomainFields DEF Calm
<1>4. \A y \in DomainRec : Freed(y).prev_ptr = NULL
  BY DEF DomainRec, Freed
<1>5. x \in DomainRec /\ CalmRecord(x)
  BY <1>3, <1>4, FreedFields DEF CalmRecord
<1> HIDE DEF x
<1> QED
  BY <1>1, <1>2, <1>5, PutCalm

LEMMA InputGoneCalm ==
  ASSUME NEW s, Calm(s), NEW d \in Rec
  PROVE  Calm(input_domain_gone(s, d))
<1> DEFINE V(a, b, c, e) ==
               [s EXCEPT !.mouse_dest = a, !.keyb_dest = b,
                         !.keyb_parent = c, !.mouse_parent = e]
           md == IF s.mouse_dest = d \/ s.mouse_parent = d THEN NULL
                 ELSE s.mouse_dest
           kd == IF s.keyb_dest = d \/ s.keyb_parent = d THEN NULL
                 ELSE s.keyb_dest
           kp == IF s.keyb_parent = d THEN NULL ELSE s.keyb_parent
           mp == IF s.mouse_parent = d THEN NULL ELSE s.mouse_parent
           t == input_domain_gone(s, d)
<1>1. s \in State
  BY DEF Calm
<1>2. ASSUME NEW a \in Ptr, NEW b \in Ptr, NEW c \in Ptr, NEW e \in Ptr
      PROVE  /\ V(a, b, c, e) \in State /\ V(a, b, c, e).domains = s.domains
             /\ V(a, b, c, e).mouse_dest = a /\ V(a, b, c, e).keyb_dest = b
             /\ V(a, b, c, e).keyb_waits_for_click = s.keyb_waits_for_click
  BY <1>1 DEF State
<1>3. /\ md \in {NULL, s.mouse_dest} /\ md \in Ptr
      /\ kd \in {NULL, s.keyb_dest} /\ kd \in Ptr
      /\ kp \in Ptr /\ mp \in Ptr
  BY <1>1, StateFields DEF Ptr
<1>4. t = V(md, kd, kp, mp)
  BY DEF input_domain_gone
<1> HIDE DEF t, V, md, kd, kp, mp
<1>5. /\ t \in State /\ t.domains = s.domains
      /\ t.mouse_dest = md /\ t.keyb_dest = kd
      /\ t.keyb_waits_for_click = s.keyb_waits_for_click
  BY <1>2, <1>3, <1>4
<1>6. Calm(t)
  BY <1>3, <1>5 DEF Calm, ApartWaits
<1> QED
  BY <1>6 DEF t

LEMMA CheckCalm ==
  ASSUME NEW s, Calm(s), NEW d \in Rec
  PROVE  Calm(check_diverts_for_the_dead(s, d))
<1> DEFINE table == [r \in Rec |-> divert_domain_gone(s.domains[r], d)]
           t == [s EXCEPT !.domains = table]
<1>1. s \in State /\ s.domains \in [Rec -> DomainRec] /\ NULL \in Ptr
  BY DEF Calm, State, Ptr
<1>2. ASSUME NEW y \in DomainRec, CalmRecord(y)
      PROVE  /\ divert_domain_gone(y, d) \in DomainRec
             /\ CalmRecord(divert_domain_gone(y, d))
  <2> DEFINE k == IF y.key_domain = d THEN NULL ELSE y.key_domain
             m == IF y.mouse_domain = d THEN NULL ELSE y.mouse_domain
             z == [y EXCEPT !.key_domain = k, !.mouse_domain = m]
  <2>1. divert_domain_gone(y, d) = z
    BY DEF divert_domain_gone
  <2>2. k \in Ptr /\ m \in Ptr
    BY <1>1, <1>2 DEF DomainRec
  <2> HIDE DEF k, m
  <2>3. z \in DomainRec /\ CalmRecord(z)
    BY <1>1, <1>2, <2>2 DEF DomainRec, CalmRecord
  <2> QED
    BY <2>1, <2>3
<1>3. check_diverts_for_the_dead(s, d) = t
  BY DEF check_diverts_for_the_dead
<1>4. /\ table \in [Rec -> DomainRec]
      /\ \A r \in Rec : CalmRecord(table[r])
  BY <1>1, <1>2 DEF Calm
<1> HIDE DEF table
<1>5. t \in State /\ t.domains = table /\ SameAim(s, t)
  BY <1>1, <1>4 DEF State, SameAim
<1> HIDE DEF t
<1> QED
  BY <1>3, <1>4, <1>5, TableCalm

LEMMA GoneCalm ==
  ASSUME NEW s, Calm(s), NEW d \in Rec, NEW shown
  PROVE  /\ Calm(domain_release(s, d, shown))
         /\ Calm(domain_gone(s, d, shown))
         /\ Calm(domain_detach_vkbd(s, d, shown))
<1>1. ASSUME NEW q, Calm(q) PROVE Calm(Forget(q, d, shown))
  <2> DEFINE a == FreeRecord(q, d)
             b == input_domain_gone(a, d)
             c == switcher_domain_gone(b, d, shown)
  <2>1. Forget(q, d, shown) = check_diverts_for_the_dead(c, d)
    BY DEF Forget
  <2>2. Calm(a)
    BY <1>1, FreeCalm
  <2> HIDE DEF a
  <2>3. Calm(b)
    BY <2>2, InputGoneCalm
  <2> HIDE DEF b
  <2>4. Calm(c)
    BY <2>3, SwitcherGoneCalm
  <2> HIDE DEF c
  <2> QED
    BY <2>1, <2>4, CheckCalm
<1>2. Calm(focus_domain_gone(s, d, shown))
  BY FocusCalm
<1>3. Calm(domain_release(s, d, shown)) /\ Calm(domain_gone(s, d, shown))
  BY <1>1, <1>2 DEF domain_release, domain_gone
<1> QED
  BY <1>3 DEF domain_detach_vkbd

-----------------------------------------------------------------------------
(* Adding a record.                                                        *)

LEMMA SalvageCalm ==
  ASSUME NEW s, Calm(s), NEW slot, NEW id, NEW dead, NEW shown
  PROVE  Calm(SalvageSlot(s, slot, id, dead, shown))
<1> DEFINE d == domain_with_slot_and_not_domid(s, slot, id)
<1>1. d \in Rec \cup {NULL}
  BY Lookups DEF Calm
<1>2. d # NULL => Calm(domain_gone(s, d, shown))
  BY <1>1, GoneCalm
<1>3. \/ SalvageSlot(s, slot, id, dead, shown) = s
      \/ d # NULL /\ SalvageSlot(s, slot, id, dead, shown) = domain_gone(s, d, shown)
  BY DEF SalvageSlot
<1> HIDE DEF d
<1> QED
  BY <1>2, <1>3

\* Fields of a record that the invariant does not mention.
LEMMA BlankCalm ==
  /\ \A id \in Domids \cup {NoDomid} :
        Blank(id) \in DomainRec /\ CalmRecord(Blank(id))
  /\ \A y \in DomainRec : CalmRecord(y) =>
        LET z == [y EXCEPT !.client = TRUE, !.initialised = TRUE]
        IN  z \in DomainRec /\ CalmRecord(z)
<1>1. ASSUME NEW id \in Domids \cup {NoDomid}
      PROVE  Blank(id) \in DomainRec /\ CalmRecord(Blank(id))
  BY DEF Blank, DomainRec, Ptr, CalmRecord
<1>2. ASSUME NEW y \in DomainRec, CalmRecord(y)
      PROVE  LET z == [y EXCEPT !.client = TRUE, !.initialised = TRUE]
             IN  z \in DomainRec /\ CalmRecord(z)
  BY <1>2 DEF DomainRec, CalmRecord
<1> QED
  BY <1>1, <1>2

LEMMA AdmitCalm ==
  ASSUME NEW s, Calm(s), NEW d \in Rec, NEW slot \in Int, NEW gpu \in BOOLEAN
  PROVE  Calm(Admit(s, d, slot, gpu))
<1> DEFINE Z(y) == [y EXCEPT !.slot = slot, !.is_pvm = FALSE, !.vkbd = TRUE,
                             !.watched = TRUE, !.has_secondary_gpu = gpu]
           x == Z(s.domains[d])
<1>1. s.domains[d] \in DomainRec /\ CalmRecord(s.domains[d])
  BY DomainFields DEF Calm
<1>2. ASSUME NEW y \in DomainRec, CalmRecord(y)
      PROVE  Z(y) \in DomainRec /\ CalmRecord(Z(y))
  <2>1. Z(y) \in DomainRec
    BY ZenonT(60) DEF DomainRec
  <2>2. CalmRecord(Z(y))
    BY <1>2 DEF DomainRec, CalmRecord
  <2> QED
    BY <2>1, <2>2
<1>3. Admit(s, d, slot, gpu) = Put(s, d, x)
  BY DEF Admit, Put
<1> HIDE DEF Z
<1>4. x \in DomainRec /\ CalmRecord(x)
  BY <1>1, <1>2
<1> HIDE DEF x
<1> QED
  BY <1>3, <1>4, PutCalm

LEMMA SwitcherDomidCalm ==
  ASSUME NEW s, Calm(s), NEW d \in Rec, ~s.domains[d].has_divert,
         NEW id \in Domids, NEW dead, NEW match, NEW shown
  PROVE  Calm(switcher_domid(s, d, id, dead, match, shown))
<1> DEFINE slot == VmSlot[id]
           x == [s.domains[d] EXCEPT !.domid = id]
           t == SalvageSlot(Put(s, d, x), slot, id, dead, shown)
           gpu == id \in GpuDomains
           v == Admit(t, d, slot, gpu)
<1>1. s.domains[d] \in DomainRec /\ CalmRecord(s.domains[d])
  BY DomainFields DEF Calm
<1>2. x \in DomainRec /\ CalmRecord(x)
  BY <1>1 DEF DomainRec, CalmRecord
<1>3. switcher_domid(s, d, id, dead, match, shown)
         \in {s, t, focus_update_domain(v, d, match, shown)}
  BY DEF switcher_domid, Put
<1> HIDE DEF x
<1>4. slot \in Int /\ gpu \in BOOLEAN
  BY SlotOf
<1> HIDE DEF slot, gpu
<1>5. Calm(t)
  BY <1>2, PutCalm, SalvageCalm
<1> HIDE DEF t
<1>6. Calm(v)
  BY <1>4, <1>5, AdmitCalm
<1> HIDE DEF v
<1>7. Calm(focus_update_domain(v, d, match, shown))
  BY <1>6, FocusCalm
<1> QED
  BY <1>3, <1>5, <1>7

LEMMA CreateCalm ==
  ASSUME NEW s, Calm(s), NEW d \in Rec, NEW id \in Domids,
         NEW dead, NEW match, NEW shown
  PROVE  Calm(domain_create(s, d, id, dead, match, shown))
<1> DEFINE x == [Blank(NoDomid) EXCEPT !.client = TRUE, !.initialised = TRUE]
           t == Put(s, d, x)
           u == switcher_domid(t, d, id, dead, match, shown)
           y == [u.domains[d] EXCEPT !.is_pvm = TRUE]
           v == focus_update_domain(Put(u, d, y), d, match, shown)
<1>1. domain_create(s, d, id, dead, match, shown)
         \in {u, switcher_switch(v, d, FALSE, shown)}
  BY DEF domain_create, switcher_pvm_domid, Put
<1>2. x \in DomainRec /\ CalmRecord(x) /\ ~x.has_divert
  BY BlankCalm DEF Blank
<1> HIDE DEF x
<1>3. Calm(t) /\ ~t.domains[d].has_divert
  BY <1>2, PutCalm, PutUpdates DEF Calm
<1> HIDE DEF t
<1>4. Calm(u)
  BY <1>3, SwitcherDomidCalm
<1> HIDE DEF u
<1>5. u.domains[d] \in DomainRec /\ CalmRecord(u.domains[d])
  BY <1>4, DomainFields DEF Calm
<1>6. y \in DomainRec /\ CalmRecord(y)
  BY <1>5 DEF DomainRec, CalmRecord
<1> HIDE DEF y
<1>7. Calm(Put(u, d, y))
  BY <1>4, <1>6, PutCalm
<1>8. Calm(v)
  BY <1>7, FocusCalm
<1> HIDE DEF v
<1>9. Calm(switcher_switch(v, d, FALSE, shown))
  BY <1>8, SwitchCalm DEF Ptr
<1> QED
  BY <1>1, <1>4, <1>9

LEMMA SetupCalm ==
  ASSUME NEW s, Calm(s), NEW d \in Rec, NEW id \in Domids, NEW dead, NEW shown
  PROVE  Calm(SetupDomain(s, d, id, dead, shown))
<1> DEFINE slot == VmSlot[id]
           fresh == Put(s, d, Blank(id))
           t == SalvageSlot(fresh, slot, id, dead, shown)
           x == [t.domains[d] EXCEPT
                    !.slot = slot, !.watched = TRUE, !.initialised = TRUE]
<1>1. SetupDomain(s, d, id, dead, shown)
         \in {domain_release(fresh, d, shown), domain_release(t, d, shown),
              Put(t, d, x)}
  BY DEF SetupDomain, Put
<1>2. Calm(fresh)
  BY BlankCalm, PutCalm
<1> HIDE DEF fresh
<1>3. slot \in Int
  BY SlotOf
<1> HIDE DEF slot
<1>4. Calm(t)
  BY <1>2, SalvageCalm
<1> HIDE DEF t
<1>5. t.domains[d] \in DomainRec /\ CalmRecord(t.domains[d])
  BY <1>4, DomainFields DEF Calm
<1>6. x \in DomainRec /\ CalmRecord(x)
  BY <1>3, <1>5 DEF DomainRec, CalmRecord
<1> HIDE DEF x
<1>7. Calm(Put(t, d, x))
  BY <1>4, <1>6, PutCalm
<1> QED
  BY <1>1, <1>2, <1>4, <1>7, GoneCalm

LEMMA AttachCalm ==
  ASSUME NEW s, Calm(s), NEW d \in Rec, NEW id, NEW match, NEW shown
  PROVE  Calm(AttachVkbd(s, d, id, match, shown))
<1> DEFINE x == [s.domains[d] EXCEPT !.vkbd = TRUE]
<1>1. s.domains[d] \in DomainRec /\ CalmRecord(s.domains[d])
  BY DomainFields DEF Calm
<1>2. x \in DomainRec /\ CalmRecord(x)
  BY <1>1 DEF DomainRec, CalmRecord
<1>3. \/ AttachVkbd(s, d, id, match, shown) = s
      \/ AttachVkbd(s, d, id, match, shown) =
            focus_update_domain(Put(s, d, x), d, match, shown)
  BY DEF AttachVkbd, Put
<1> HIDE DEF x
<1> QED
  BY <1>2, <1>3, PutCalm, FocusCalm

-----------------------------------------------------------------------------
(* The steps.                                                              *)

LEMMA InitCalm == Init => Calm(sw)
<1> SUFFICES ASSUME Init PROVE Calm(sw)
  OBVIOUS
<1>1. Blank(NoDomid) \in DomainRec /\ CalmRecord(Blank(NoDomid))
  BY BlankCalm
<1>2. sw \in State
  BY <1>1 DEF Init, State, Ptr
<1> QED
  BY <1>1, <1>2 DEF Init, Calm, ApartWaits

\* One field of a record that the invariant does not mention.
LEMMA FieldCalm ==
  ASSUME NEW s, Calm(s), NEW d \in Rec
  PROVE  /\ \A r \in {REBOOT, RUNNING} : Calm([s EXCEPT !.domains[d].sstate = r])
         /\ \A n \in Int : Calm([s EXCEPT !.domains[d].slot = n])
         /\ \A b \in BOOLEAN :
               /\ Calm([s EXCEPT !.domains[d].is_in_s3 = b])
               /\ Calm([s EXCEPT !.domains[d].disabled_surface = b])
         /\ Calm([s EXCEPT !.domains[d] =
                      [@ EXCEPT !.is_in_s3 = FALSE, !.sstate = RUNNING]])
<1> DEFINE y == s.domains[d]
<1>1. y \in DomainRec /\ CalmRecord(y)
  BY DomainFields DEF Calm
<1>2. ASSUME NEW r \in {REBOOT, RUNNING}
      PROVE  Calm(Put(s, d, [y EXCEPT !.sstate = r]))
  <2> DEFINE x == [y EXCEPT !.sstate = r]
  <2>1. x \in DomainRec /\ CalmRecord(x)
    BY <1>1 DEF DomainRec, CalmRecord
  <2> HIDE DEF x
  <2>2. Calm(Put(s, d, x))
    BY <2>1, PutCalm
  <2> QED
    BY <2>2 DEF x
<1>3. ASSUME NEW n \in Int
      PROVE  Calm(Put(s, d, [y EXCEPT !.slot = n]))
  <2> DEFINE x == [y EXCEPT !.slot = n]
  <2>1. x \in DomainRec /\ CalmRecord(x)
    BY <1>1 DEF DomainRec, CalmRecord
  <2> HIDE DEF x
  <2>2. Calm(Put(s, d, x))
    BY <2>1, PutCalm
  <2> QED
    BY <2>2 DEF x
<1>4. ASSUME NEW b \in BOOLEAN
      PROVE  Calm(Put(s, d, [y EXCEPT !.is_in_s3 = b]))
  <2> DEFINE x == [y EXCEPT !.is_in_s3 = b]
  <2>1. x \in DomainRec /\ CalmRecord(x)
    BY <1>1 DEF DomainRec, CalmRecord
  <2> HIDE DEF x
  <2>2. Calm(Put(s, d, x))
    BY <2>1, PutCalm
  <2> QED
    BY <2>2 DEF x
<1>5. ASSUME NEW b \in BOOLEAN
      PROVE  Calm(Put(s, d, [y EXCEPT !.disabled_surface = b]))
  <2> DEFINE x == [y EXCEPT !.disabled_surface = b]
  <2>1. x \in DomainRec /\ CalmRecord(x)
    BY <1>1 DEF DomainRec, CalmRecord
  <2> HIDE DEF x
  <2>2. Calm(Put(s, d, x))
    BY <2>1, PutCalm
  <2> QED
    BY <2>2 DEF x
<1>6. Calm(Put(s, d, [y EXCEPT !.is_in_s3 = FALSE, !.sstate = RUNNING]))
  <2> DEFINE x == [y EXCEPT !.is_in_s3 = FALSE, !.sstate = RUNNING]
  <2>1. x \in DomainRec /\ CalmRecord(x)
    BY <1>1 DEF DomainRec, CalmRecord
  <2> HIDE DEF x
  <2>2. Calm(Put(s, d, x))
    BY <2>1, PutCalm
  <2> QED
    BY <2>2 DEF x
<1> QED
  BY <1>2, <1>3, <1>4, <1>5, <1>6 DEF Put

LEMMA SlotCalm ==
  ASSUME NEW s, Calm(s), NEW d \in Rec, NEW n \in Int,
         NEW t, t = [s EXCEPT !.domains[d].slot = n]
  PROVE  Calm(t)
BY FieldCalm

LEMMA SetSlotCalm ==
  ASSUME Calm(sw), NEW d \in Rec, NEW slot \in SlotCalls,
         input_daemon_set_slot(d, slot)
  PROVE  Calm(sw')
<1> DEFINE e == domain_with_slot(sw, slot)
           old == sw.domains[d].slot
           u == [sw EXCEPT !.domains[e].slot = old]
<1>1. old \in Int /\ slot \in Int /\ e \in Rec \cup {NULL}
  BY ConstantsAssumption, DomainFields, Lookups DEF Calm
<1>2. \/ sw' = [sw EXCEPT !.domains[d].slot = slot]
      \/ e # NULL /\ sw' = [u EXCEPT !.domains[d].slot = slot]
  BY DEF input_daemon_set_slot
<1> HIDE DEF e, old
<1>3. ASSUME e # NULL PROVE Calm(u)
  BY <1>1, <1>3, SlotCalm
<1> HIDE DEF u
<1>4. CASE sw' = [sw EXCEPT !.domains[d].slot = slot]
  BY <1>1, <1>4, SlotCalm
<1>5. CASE e # NULL /\ sw' = [u EXCEPT !.domains[d].slot = slot]
  BY <1>1, <1>3, <1>5, SlotCalm
<1> QED
  BY <1>2, <1>4, <1>5

LEMMA ConnectionsCalm ==
  ASSUME Calm(sw), Connections
  PROVE  Calm(sw')
<1>0. sw \in State
  BY DEF Calm
<1>1. ASSUME NEW id \in Domids, rpc_connect(id)
      PROVE  Calm(sw')
  <2>1. empty_domain(sw) \in Rec
    BY <1>0, <1>1, Lookups DEF rpc_connect
  <2> QED
    BY <1>1, <2>1, CreateCalm DEF rpc_connect
<1>2. ASSUME NEW id \in VkbdDomains, input_daemon_attach_vkbd(id)
      PROVE  Calm(sw')
  <2> DEFINE known == domain_with_domid(sw, id)
             d == IF known # NULL THEN known ELSE empty_domain(sw)
  <2>1. id \in Domids
    BY ConstantsAssumption
  <2>2. d \in Rec
    <3>1. d # NULL
      BY <1>2 DEF input_daemon_attach_vkbd
    <3>2. Live(sw) \subseteq Rec /\ known \in Live(sw) \cup {NULL}
          /\ empty_domain(sw) \in (Rec \ Live(sw)) \cup {NULL}
      BY <1>0, Lookups
    <3> QED
      BY <3>1, <3>2
  <2>3. PICK match \in BOOLEAN, dead \in BOOLEAN, shown \in Answers(d) :
           LET t == IF known # NULL THEN sw
                    ELSE SetupDomain(sw, d, id, dead, shown)
           IN  sw' = IF d \in Live(t) THEN AttachVkbd(t, d, id, match, shown)
                     ELSE t
    BY <1>2 DEF input_daemon_attach_vkbd
  <2> DEFINE t == IF known # NULL THEN sw
                  ELSE SetupDomain(sw, d, id, dead, shown)
  <2>4. sw' = t \/ sw' = AttachVkbd(t, d, id, match, shown)
    BY <2>3
  <2>5. Calm(t)
    BY <2>1, <2>2, SetupCalm
  <2> HIDE DEF t, d
  <2> QED
    BY <2>2, <2>4, <2>5, AttachCalm
<1>3. ASSUME NEW d \in Rec, rpc_disconnect(d)
      PROVE  Calm(sw')
  BY <1>3, GoneCalm DEF rpc_disconnect
<1>4. ASSUME NEW d \in Rec, input_daemon_detach_vkbd(d)
      PROVE  Calm(sw')
  BY <1>4, GoneCalm DEF input_daemon_detach_vkbd
<1>5. ASSUME NEW d \in Rec, handle_switcher_shutdown(d)
      PROVE  Calm(sw')
  <2>1. PICK reason \in {REBOOT, RUNNING} :
           LET t == [sw EXCEPT !.domains[d].sstate = reason] IN
           sw' = IF reason = REBOOT THEN focus_expect_death(t, d)
                 ELSE focus_dont_expect_death(t, d)
    BY <1>5 DEF handle_switcher_shutdown
  <2> DEFINE t == [sw EXCEPT !.domains[d].sstate = reason]
  <2>2. sw' \in {focus_expect_death(t, d), focus_dont_expect_death(t, d)}
    BY <2>1
  <2>3. Calm(t)
    BY FieldCalm
  <2> HIDE DEF t
  <2> QED
    BY <2>2, <2>3, FocusCalm
<1>6. ASSUME NEW slot \in FocusSlots, DeathWindowCloses(slot)
      PROVE  Calm(sw')
  <2> DEFINE w == sw.death_window \ {slot}
  <2>1. sw' = [sw EXCEPT !.death_window = w]
    BY <1>6 DEF DeathWindowCloses
  <2>2. w \in SUBSET FocusSlots
    BY <1>0, StateFields
  <2> HIDE DEF w
  <2> QED
    BY <2>1, <2>2, WindowCalm
<1> QED
  BY <1>1, <1>2, <1>3, <1>4, <1>5, <1>6, SetSlotCalm DEF Connections


LEMMA SwitchToCalm ==
  ASSUME Calm(sw), NEW d \in Ptr, NEW m, SwitchTo(d, m)
  PROVE  Calm(sw')
BY SwitchCalm DEF SwitchTo

LEMMA SwitchesCalm ==
  ASSUME Calm(sw), Switches
  PROVE  Calm(sw')
<1>0. sw \in State /\ Rec \subseteq Ptr
  BY DEF Calm, Ptr
<1>1. \A n : domain_with_slot(sw, n) \in Ptr
  BY <1>0, Lookups DEF Ptr
<1>2. CASE switcher_unfocus_gpu
  <2>1. NULL \in Ptr
    BY DEF Ptr
  <2> QED
    BY <1>2, <2>1, FocusFieldCalm DEF switcher_unfocus_gpu
<1>3. CASE go_to_next
  BY <1>1, <1>3, SwitchToCalm DEF go_to_next
<1>4. ASSUME NEW slot \in 0..9, go_to_slot(slot)
      PROVE  Calm(sw')
  BY <1>1, <1>4, SwitchToCalm DEF go_to_slot
<1>5. ASSUME NEW slot \in {-2} \cup 0..9, switcher_switch_on_mouse(slot)
      PROVE  Calm(sw')
  BY <1>1, <1>5, SwitchToCalm DEF switcher_switch_on_mouse
<1>6. ASSUME NEW d \in Rec, input_daemon_switch_focus(d)
      PROVE  Calm(sw')
  BY <1>0, <1>6, SwitchToCalm DEF input_daemon_switch_focus
<1> QED
  BY <1>2, <1>3, <1>4, <1>5, <1>6 DEF Switches

\* Nobody sends switcher/command.
LEMMA NoCommands ==
  ASSUME Seamless = {}
  PROVE  ~Commands
BY DEF Commands, Commander, domain_command_take, domain_command_release,
       domain_command_switch, domain_command_take_from, domain_command_release_to

\* A click inside the frame of p diverts the keyboard of p as well, if it has it.
LEMMA ClickInFrameCalm ==
  ASSUME NEW s, Calm(s), NEW p \in Rec, NEW d \in Rec,
         NEW t, t = [s EXCEPT !.domains[p].key_domain = d]
  PROVE  Calm(sync_kbd_domain(t, p))
<1> DEFINE x == [s.domains[p] EXCEPT !.key_domain = d]
<1>1. s \in State /\ s.domains[p] \in DomainRec /\ CalmRecord(s.domains[p])
  BY DomainFields DEF Calm
<1>2. x \in DomainRec /\ CalmRecord(x) /\ x.key_domain # NULL
  BY <1>1 DEF DomainRec, CalmRecord, Ptr, Rec
<1>3. t = Put(s, p, x)
  BY DEF Put
<1> HIDE DEF x
<1>4. PICK u : u = Put(s, p, x)
  OBVIOUS
<1>5. Calm(u) /\ u.domains[p] = x
  BY <1>1, <1>2, <1>4, PutCalm, PutUpdates
<1>6. Calm(input_set_keyb(u, p))
  BY <1>2, <1>5, InputSetKeybCalm
<1>7. Calm(sync_kbd_domain(u, p))
  BY <1>5, <1>6 DEF sync_kbd_domain
<1> QED
  BY <1>3, <1>4, <1>7

\* The requests of a viewer about its mouse.
LEMMA ViewerCalm ==
  ASSUME Calm(sw), NEW d \in Rec
  PROVE  /\ input_daemon_stop_mouse_divert(d) => Calm(sw')
         /\ input_daemon_focus_mode(d) => Calm(sw')
         /\ \A td \in Rec : input_daemon_divert_mouse_focus(d, td) => Calm(sw')
<1> DEFINE y == sw.domains[d]
<1>1. /\ sw \in State /\ y \in DomainRec /\ CalmRecord(y)
      /\ NULL \in Ptr /\ Rec \subseteq Ptr
  BY DomainFields DEF Calm, Ptr
<1>2. \A s : Calm(s) => Calm(sync_mouse_domain(s, d))
  BY InputSetMouseCalm DEF sync_mouse_domain
<1>3. ASSUME input_daemon_stop_mouse_divert(d) PROVE Calm(sw')
  <2> DEFINE x == [y EXCEPT !.mouse_domain = NULL]
  <2>1. x \in DomainRec /\ CalmRecord(x)
    BY <1>1 DEF DomainRec, CalmRecord
  <2>2. sw' = sync_mouse_domain(Put(sw, d, x), d)
    BY <1>3 DEF input_daemon_stop_mouse_divert, Put
  <2> HIDE DEF x
  <2> QED
    BY <1>2, <2>1, <2>2, PutCalm
<1>4. ASSUME input_daemon_focus_mode(d) PROVE Calm(sw')
  <2>1. y.domid \in Viewers
    BY <1>4 DEF input_daemon_focus_mode, Sender
  <2>2. PICK follows \in BOOLEAN :
           sw' = Put(sw, d, [y EXCEPT !.has_divert = TRUE, !.key_follows = follows])
    BY <1>4 DEF input_daemon_focus_mode, Put
  <2> DEFINE x == [y EXCEPT !.has_divert = TRUE, !.key_follows = follows]
  <2>3. x \in DomainRec /\ CalmRecord(x)
    BY <1>1, <2>1 DEF DomainRec, CalmRecord
  <2> HIDE DEF x
  <2>4. Calm(Put(sw, d, x))
    BY <2>3, PutCalm
  <2> QED
    BY <2>2, <2>4 DEF x
<1>5. ASSUME NEW td \in Rec, input_daemon_divert_mouse_focus(d, td)
      PROVE  Calm(sw')
  <2> DEFINE x == [y EXCEPT !.has_divert = TRUE, !.mouse_domain = td]
  <2>1. y.domid \in Viewers
    BY <1>5 DEF input_daemon_divert_mouse_focus, Sender
  <2>2. x \in DomainRec /\ CalmRecord(x)
    BY <1>1, <2>1 DEF DomainRec, CalmRecord
  <2>3. sw' = sync_mouse_domain(Put(sw, d, x), d)
    BY <1>5 DEF input_daemon_divert_mouse_focus, Put
  <2> HIDE DEF x
  <2> QED
    BY <1>2, <2>2, <2>3, PutCalm
<1> QED
  BY <1>3, <1>4, <1>5

\* Nobody diverts: a click is all there is.
LEMMA DivertsCalm ==
  ASSUME Viewers = {}, Calm(sw), Good(sw), Diverts
  PROVE  Calm(sw')
<1>1. \A d \in Rec : ~Sender(d)
  BY DEF Sender
<1>2. Click
  BY <1>1 DEF Diverts, input_daemon_stop_mouse_divert,
     input_daemon_stop_keyboard_divert, input_daemon_focus_mode,
     input_daemon_divert_mouse_focus, input_daemon_divert_keyboard_focus
<1>3. sw.mouse_parent = NULL /\ sw.mouse_dest \in Ptr
  <2>1. \A r \in Rec : ~sw.domains[r].has_divert
    BY DEF Calm, CalmRecord
  <2> QED
    BY <2>1, StateFields DEF Calm, Good, ParentsIn, ParentOf, Live
<1>4. sw.mouse_dest \in Rec /\ sw' = input_set_keyb(sw, sw.mouse_dest)
  BY <1>2, <1>3 DEF Click, Ptr
<1> QED
  BY <1>4, InputSetKeybCalm

LEMMA WakeCalm ==
  ASSUME NEW s, Calm(s), NEW d \in Ptr, NEW shown
  PROVE  Calm(domain_wake_from_s3(s, d, shown))
<1>1. CASE d = NULL
  BY <1>1 DEF domain_wake_from_s3
<1>2. CASE d # NULL
  <2> DEFINE t == [s EXCEPT !.domains[d] =
                      [@ EXCEPT !.is_in_s3 = FALSE, !.sstate = RUNNING]]
  <2>1. d \in Rec
    BY <1>2 DEF Ptr
  <2>2. Calm(t)
    BY <2>1, FieldCalm
  <2>3. domain_wake_from_s3(s, d, shown)
           \in {s, t, switcher_switch(t, d, FALSE, shown)}
    BY DEF domain_wake_from_s3
  <2> HIDE DEF t
  <2> QED
    BY <2>2, <2>3, SwitchCalm
<1> QED
  BY <1>1, <1>2

LEMMA PowerCalm ==
  ASSUME Calm(sw), Power
  PROVE  Calm(sw')
<1>0. sw \in State /\ \A s : Calm(s) => s.mouse_dest \in Ptr /\ s.keyb_dest \in Ptr
  BY StateFields DEF Calm
<1>1. CASE WakeOnInput
  <2>1. PICK shown \in SUBSET Rec :
           LET mouse == domain_wake_from_s3(sw, sw.mouse_dest, shown)
               keyb  == domain_wake_from_s3(mouse, mouse.keyb_dest, shown)
           IN  sw' = domain_wake_from_s3(keyb, domain_pvm(keyb), shown)
    BY <1>1 DEF WakeOnInput
  <2> DEFINE mouse == domain_wake_from_s3(sw, sw.mouse_dest, shown)
             keyb  == domain_wake_from_s3(mouse, mouse.keyb_dest, shown)
  <2>2. sw' = domain_wake_from_s3(keyb, domain_pvm(keyb), shown)
    BY <2>1
  <2>3. Calm(mouse)
    BY <1>0, WakeCalm
  <2> HIDE DEF mouse
  <2>4. Calm(keyb)
    BY <1>0, <2>3, WakeCalm
  <2> HIDE DEF keyb
  <2> QED
    BY <2>2, <2>4, UivmCalm, WakeCalm
<1>2. ASSUME NEW d \in Rec, domain_power_state(d)
      PROVE  Calm(sw')
  <2> DEFINE asleep == [sw EXCEPT !.domains[d].is_in_s3 = TRUE]
             cleared == SetPrev(asleep, d, NULL, NoDomid)
             reset == reset_prev_keyb_domain(cleared, d)
  <2>1. PICK shown \in Answers(d) : sw' = switcher_s3(reset, d, shown)
    BY <1>2 DEF domain_power_state
  <2>2. Calm(asleep)
    BY FieldCalm
  <2> HIDE DEF asleep
  <2>3. Calm(cleared)
    BY <2>2, SetPrevCalm
  <2> HIDE DEF cleared
  <2>4. Calm(reset)
    BY <2>3, ResetCalm
  <2> HIDE DEF reset
  <2> QED
    BY <2>1, <2>4, SwitcherGoneCalm
<1>3. ASSUME NEW d \in Rec, domain_active_adapter_node_watch(d)
      PROVE  Calm(sw')
  <2> DEFINE off == ~sw.domains[d].disabled_surface
             t   == [sw EXCEPT !.domains[d].disabled_surface = off]
  <2>1. PICK shown \in Answers(d) :
           sw' \in {t, switcher_switch_graphic(t, domain_uivm(t), shown)}
    BY <1>3 DEF domain_active_adapter_node_watch
  <2>2. Calm(t)
    BY FieldCalm
  <2> HIDE DEF t
  <2> QED
    BY <2>1, <2>2, UivmCalm, GraphicCalm
<1>4. ASSUME NEW d \in Rec, domain_active_adapter_watch(d)
      PROVE  Calm(sw')
  <2>1. d \in Ptr
    BY DEF Ptr
  <2> QED
    BY <1>4, <2>1, GraphicCalm DEF domain_active_adapter_watch
<1> QED
  BY <1>1, <1>2, <1>3, <1>4 DEF Power

-----------------------------------------------------------------------------

\* Without a viewer and a seamless guest the keyboard comes back on a click:
\* whenever a mouse switch has left it behind, the wait for the click is on.
\* A viewer may end a divert it never made, and the wait with it, and a
\* seamless guest takes the keyboard on purpose.
THEOREM ClickFetchesKeyboard ==
    Seamless = {} /\ Viewers = {} => (Spec => []ClickBringsKeyboard)
<1> SUFFICES ASSUME Seamless = {}, Viewers = {}
             PROVE  Spec => []ClickBringsKeyboard
  OBVIOUS
<1> DEFINE CInv == Calm(sw)
<1>1. Init => CInv
  BY InitCalm
<1>2. CInv /\ IInv /\ [Next]_sw => CInv'
  <2>1. ASSUME Calm(sw), Good(sw), Next PROVE Calm(sw')
    BY <2>1, ConnectionsCalm, SwitchesCalm, NoCommands, DivertsCalm,
       PowerCalm DEF Next
  <2>2. ASSUME Calm(sw), UNCHANGED sw PROVE Calm(sw')
    BY <2>2
  <2> QED
    BY <2>1, <2>2 DEF IInv, Sound
<1>3. CInv => ClickBringsKeyboard
  BY DEF Calm, ApartWaits, ClickBringsKeyboard
<1> HIDE DEF CInv
<1> QED
  BY <1>1, <1>2, <1>3, Soundness, PTL DEF Spec
=============================================================================
