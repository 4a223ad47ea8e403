---------------------------- MODULE DomainFocus ----------------------------
(***************************************************************************)
(* Which guest the keyboard and the mouse go to.                           *)
(*                                                                         *)
(* The daemon keeps a fixed table domains[] of records and, in several C   *)
(* files, static pointers into it: where mouse and keyboard events go      *)
(* (input.c), which record has the focus and which one surfman displays    *)
(* (switch.c).  Guests come and go over dmbus (server.c, domains.c) and    *)
(* over the vkbd calls of D-Bus (bus.c); guests, the toolstack, hot keys   *)
(* and mouse clicks move the destinations.                                 *)
(*                                                                         *)
(* The daemon is one thread around libevent and each handler below runs to *)
(* completion, so a handler is one step: a function from the statics to    *)
(* the statics.  Every operator that stands for a C function takes those   *)
(* statics as its first argument s and has the function's name.            *)
(***************************************************************************)
EXTENDS Integers, FiniteSets

CONSTANTS
    NDOMAIN_MAX,          \* records in domains[] (20 in the code)
    Domids,               \* domain ids Xen may hand out
    VmSlot,               \* /vm/<uuid>/slot of each domain, -1 when absent
    Pvms,                 \* domains that connect as DEVICE_TYPE_INPUT_PVM
    PvDomains,            \* domains Xen reports as PV or PVH
    VkbdDomains,          \* domains the toolstack attaches a vkbd to
    GpuDomains,           \* domains with a secondary GPU, whose adapter
                          \* can disable their surface
    Viewers,              \* domains that call the divert methods
    Seamless,             \* domains that write switcher/command
    Sleepers,             \* domains that suspend to S3
    Rebooters,            \* domains that report a shutdown reason
    SlotCalls,            \* slots the toolstack passes to set_slot
    KeyboardFollowsMouse, \* /switcher/keyboard_follows_mouse
    UivmDiverts           \* may the domain in slot 0 divert its own input?

ASSUME ConstantsAssumption ==
    /\ NDOMAIN_MAX \in Nat
    /\ Domids \subseteq Nat
    /\ VkbdDomains \subseteq Domids
    /\ VmSlot \in [Domids -> Nat \cup {-1}]
    /\ SlotCalls \subseteq Nat \cup {-1}
    /\ KeyboardFollowsMouse \in BOOLEAN
    /\ UivmDiverts \in BOOLEAN

NULL == 0
Rec == 1..NDOMAIN_MAX           \* the records of domains[]
Ptr == Rec \cup {NULL}          \* a struct domain pointer
NoDomid == -1
NoSlot == -1
REBOOT == 0                     \* SWITCHER_SHUTDOWN_REBOOT
RUNNING == 5                    \* the initial sstate, and the other reasons
NSLOTS == 11                    \* slots[] of focus.c
FocusSlots == 0..(NSLOTS - 1)

VARIABLE sw     \* the statics: see State

\* struct domain, restricted to what the focus depends on.  client, vkbd and
\* watched say that the dmbus client, the vkbd backend and the xenstore
\* watches of the record exist; divert_info is the flag has_divert and the
\* three fields of it that are read here.
DomainRec ==
    [initialised      : BOOLEAN,
     domid            : Domids \cup {NoDomid},
     slot             : Int,
     is_pvm           : BOOLEAN,
     sstate           : {REBOOT, RUNNING},
     is_in_s3         : BOOLEAN,
     has_secondary_gpu: BOOLEAN,
     disabled_surface : BOOLEAN,
     client           : BOOLEAN,
     vkbd             : BOOLEAN,
     watched          : BOOLEAN,
     prev_ptr         : Ptr,
     prev_domid       : Domids \cup {NoDomid},
     has_divert       : BOOLEAN,
     key_domain       : Ptr,
     mouse_domain     : Ptr,
     key_follows      : BOOLEAN]

\* The file-scope variables of domains.c, input.c, encapsulate.c, switch.c
\* and focus.c; death_window is the set of slots a reboot is expected in.
State ==
    [domains             : [Rec -> DomainRec],
     mouse_dest          : Ptr,
     mouse_parent        : Ptr,
     keyb_dest           : Ptr,
     keyb_parent         : Ptr,
     keyb_waits_for_click: BOOLEAN,
     current             : Ptr,
     surface_current     : Ptr,
     death_window        : SUBSET FocusSlots]

Blank(id) ==
    [initialised |-> FALSE, domid |-> id, slot |-> NoSlot, is_pvm |-> FALSE,
     sstate |-> RUNNING, is_in_s3 |-> FALSE, has_secondary_gpu |-> FALSE,
     disabled_surface |-> FALSE, client |-> FALSE, vkbd |-> FALSE,
     watched |-> FALSE, prev_ptr |-> NULL, prev_domid |-> NoDomid, has_divert |-> FALSE,
     key_domain |-> NULL, mouse_domain |-> NULL, key_follows |-> FALSE]

-----------------------------------------------------------------------------
(* Looking records up: every search walks domains[] from its start and     *)
(* returns the first initialised match.                                    *)

Live(s) == {r \in Rec : s.domains[r].initialised}

First(R) == IF R = {} THEN NULL ELSE CHOOSE r \in R : \A q \in R : r <= q

\* Slip: a record without a dmbus client does not count.
domain_with_domid_Slip(s, id) ==
    First({r \in Live(s) : s.domains[r].client /\ s.domains[r].domid = id})

domain_with_domid(s, id) == First({r \in Live(s) : s.domains[r].domid = id})
domain_with_slot(s, n)   == First({r \in Live(s) : s.domains[r].slot = n})
domain_with_slot_and_not_domid(s, n, id) ==
    First({r \in Live(s) : /\ s.domains[r].slot = n
                           /\ s.domains[r].domid # id})
domain_uivm(s)           == domain_with_slot(s, 0)
domain_pvm(s)            == First({r \in Live(s) : s.domains[r].is_pvm})
empty_domain(s)          == First(Rec \ Live(s))

-----------------------------------------------------------------------------
(* Routing (input.c): mouse_dest and keyb_dest are where events go; a      *)
(* parent is the viewer whose divert_info chose that destination.          *)

set_kbd_domain(s, d) ==
    LET dv == s.domains[d] IN
    IF dv.key_domain # NULL
    THEN [s EXCEPT !.keyb_parent = d,
                   !.keyb_dest = dv.key_domain,
                   !.keyb_waits_for_click = TRUE]
    ELSE [s EXCEPT !.keyb_parent = NULL,
                   !.keyb_dest = d,
                   !.keyb_waits_for_click =
                       @ \/ dv.mouse_domain \notin {NULL, d}]

set_mouse_domain(s, d) ==
    LET dv == s.domains[d] IN
    IF dv.mouse_domain # NULL
    THEN [s EXCEPT !.mouse_parent = d,
                   !.mouse_dest = dv.mouse_domain,
                   !.keyb_waits_for_click = TRUE]
    ELSE [s EXCEPT !.mouse_parent = NULL,
                   !.mouse_dest = d]

\* Slip: moving the mouse does not start the wait for a click.
input_set_mouse_Slip(s, d) == set_mouse_domain(s, d)

input_set_mouse(s, d) ==
    LET waits == ~s.keyb_waits_for_click \/ s.keyb_dest # d
    IN  set_mouse_domain([s EXCEPT !.keyb_waits_for_click = waits], d)

input_set_keyb(s, d) ==
    set_kbd_domain([s EXCEPT !.keyb_waits_for_click = FALSE], d)

input_set(s, d) ==
    set_kbd_domain(
        set_mouse_domain([s EXCEPT !.keyb_waits_for_click = FALSE], d), d)

sync_mouse_domain(s, d) ==
    IF d \in {s.mouse_parent, s.mouse_dest} THEN input_set_mouse(s, d) ELSE s

\* Slip: a viewer whose keyboard is diverted already is not noticed.
sync_kbd_domain_Slip(s, d) ==
    IF d = s.keyb_dest THEN input_set_keyb(s, d) ELSE s

sync_kbd_domain(s, d) ==
    IF d \in {s.keyb_parent, s.keyb_dest} THEN input_set_keyb(s, d) ELSE s

-----------------------------------------------------------------------------
(* The old seamless mode: a domain takes the keyboard from the one that    *)
(* has the mouse, now or when that one is next switched to.                *)

SetPrev(s, d, k, id) ==
    [s EXCEPT !.domains[d] = [@ EXCEPT !.prev_ptr = k, !.prev_domid = id]]

\* The test both restore_prev_keyb_domain and the LED update make.
PrevUsable(s, d) ==
    LET p == s.domains[d].prev_ptr
        id == s.domains[d].prev_domid
    IN  p # NULL /\ id # NoDomid /\ s.domains[p].domid = id

input_give_keyboard(s, d) ==
    IF d = s.keyb_dest THEN s
    ELSE [s EXCEPT !.keyb_dest = d, !.keyb_parent = NULL]

input_return_keyboard(s, d) ==
    IF d # s.keyb_dest THEN s
    ELSE [s EXCEPT !.keyb_dest = s.mouse_dest, !.keyb_parent = NULL]

input_give_keyboard_from_domain(s, d, new_keyb_dest) ==
    IF d = new_keyb_dest THEN s
    ELSE IF s.mouse_dest = d THEN input_give_keyboard(s, new_keyb_dest)
    ELSE SetPrev(s, d, new_keyb_dest, s.domains[new_keyb_dest].domid)

input_return_keyboard_to_domain(s, d, prev_keyb_dest) ==
    LET rec == s.domains[d] IN
    IF d = prev_keyb_dest THEN s
    ELSE IF s.mouse_dest = d THEN input_return_keyboard(s, prev_keyb_dest)
    ELSE IF /\ rec.prev_ptr = prev_keyb_dest
            /\ rec.prev_domid = s.domains[prev_keyb_dest].domid
         THEN SetPrev(s, d, NULL, NoDomid)
         ELSE s

save_prev_keyb_domain(s, d) ==
    IF NULL \in {s.keyb_dest, s.mouse_dest, d} THEN s
    ELSE IF s.keyb_dest # s.mouse_dest
         THEN SetPrev(s, d, s.keyb_dest, s.domains[s.keyb_dest].domid)
         ELSE SetPrev(s, d, NULL, NoDomid)

restore_prev_keyb_domain(s, d) ==
    IF PrevUsable(s, d) THEN input_give_keyboard(s, s.domains[d].prev_ptr)
    ELSE s

\* Slip: the record forgets, those that remember it do not.
reset_prev_keyb_domain_Slip(s, d) == SetPrev(s, d, NULL, NoDomid)

reset_prev_keyb_domain(s, d) ==
    LET id == s.domains[d].domid IN
    IF id = NoDomid THEN s
    ELSE [s EXCEPT !.domains = [r \in Rec |->
            IF @[r].initialised /\ @[r].prev_domid = id
            THEN [@[r] EXCEPT !.prev_ptr = NULL, !.prev_domid = NoDomid]
            ELSE @[r]]]

-----------------------------------------------------------------------------
(* Switching (switch.c).  "shown" is the set of records surfman agrees to  *)
(* display while the handler runs; d = NULL is a request for an absent     *)
(* UIVM.  /switcher/self-switch-disabled is as by default: surfman is      *)
(* asked for the displayed domain again (switch.c:49).                     *)

switcher_switch_graphic(s, d, shown) ==
    IF d # NULL /\ d \in shown THEN [s EXCEPT !.surface_current = d] ELSE s

\* The part of switcher_switch that runs once the surface is granted.
TakeFocus(s, d, mouse_switch) ==
    LET t == [s EXCEPT !.current = d] IN
    IF mouse_switch /\ ~KeyboardFollowsMouse THEN input_set_mouse(t, d)
    ELSE IF s.domains[d].has_divert THEN input_set(t, d)
    ELSE restore_prev_keyb_domain(input_set(t, d), d)

switcher_switch(s, d, mouse_switch, shown) ==
    IF d = NULL THEN s
    ELSE LET rec     == s.domains[d]
             saved   == IF s.keyb_waits_for_click THEN s
                        ELSE save_prev_keyb_domain(s, s.current)
             graphic == IF rec.disabled_surface THEN saved
                        ELSE switcher_switch_graphic(saved, d, shown)
         IN  IF \/ rec.disabled_surface
                \/ d \in shown \cup {s.surface_current}
                \/ rec.is_pvm
             THEN TakeFocus(graphic, d, mouse_switch)
             ELSE saved

\* Slip: the focus is checked, the surface is not.
switcher_domain_gone_Slip(s, d, shown) ==
    IF s.current = d THEN switcher_switch(s, domain_uivm(s), FALSE, shown)
    ELSE s

switcher_domain_gone(s, d, shown) ==
    LET Is(p) == p # NULL /\ s.domains[p].domid = s.domains[d].domid
        Fallback(t) ==
            IF s.domains[d].sstate = REBOOT THEN t
            ELSE switcher_switch(t, domain_uivm(t), FALSE, shown)
    IN  IF Is(s.surface_current)
        THEN Fallback([s EXCEPT !.surface_current = NULL])
        ELSE IF Is(s.current) /\ s.domains[d].has_secondary_gpu
        THEN Fallback([s EXCEPT !.current = NULL])
        ELSE s

switcher_s3(s, d, shown) ==
    IF d = domain_pvm(s) \/ d # s.current THEN s
    ELSE switcher_switch(s, domain_uivm(s), FALSE, shown)

-----------------------------------------------------------------------------
(* Focus on connection and disconnection (focus.c).                        *)

focus_expect_death(s, d) ==
    IF s.domains[d].slot \in FocusSlots
    THEN [s EXCEPT !.death_window = @ \cup {s.domains[d].slot}] ELSE s

focus_dont_expect_death(s, d) ==
    [s EXCEPT !.death_window = @ \ {s.domains[d].slot}]

\* match: the xenstore node switcher/focus-uuid names this domain's VM.
focus_update_domain(s, d, match, shown) ==
    IF s.domains[d].slot \notin FocusSlots THEN s
    ELSE LET t == focus_dont_expect_death(s, d) IN
         IF s.domains[d].is_pvm \/ match
         THEN switcher_switch(t, d, FALSE, shown) ELSE t

focus_domain_gone(s, d, shown) ==
    IF \/ s.domains[d].slot \notin FocusSlots
       \/ s.domains[d].slot \in s.death_window
    THEN s
    ELSE switcher_switch(s, domain_uivm(s), FALSE, shown)

-----------------------------------------------------------------------------
(* Removing a record (domains.c).                                          *)

\* The assignments domain_gone and domain_release share.  domid, is_in_s3
\* and the GPU flags keep their values.
FreeRecord(s, d) ==
    LET t == reset_prev_keyb_domain(s, d) IN
    [t EXCEPT !.domains[d] = [@ EXCEPT
        !.initialised = FALSE, !.slot = NoSlot, !.is_pvm = FALSE,
        !.client = FALSE, !.vkbd = FALSE, !.watched = FALSE,
        !.prev_ptr = NULL, !.prev_domid = NoDomid,
        !.has_divert = FALSE, !.key_domain = NULL, !.mouse_domain = NULL,
        !.key_follows = FALSE]]

\* Slip: the parents are forgotten.
input_domain_gone_Slip(s, d) ==
    [s EXCEPT !.mouse_dest = IF @ = d THEN NULL ELSE @,
              !.keyb_dest  = IF @ = d THEN NULL ELSE @]

input_domain_gone(s, d) ==
    LET kparent == s.keyb_parent = d
        mparent == s.mouse_parent = d
    IN  [s EXCEPT
            !.mouse_dest   = IF @ = d \/ mparent THEN NULL ELSE @,
            !.keyb_dest    = IF @ = d \/ kparent THEN NULL ELSE @,
            !.keyb_parent  = IF kparent THEN NULL ELSE @,
            !.mouse_parent = IF mparent THEN NULL ELSE @]

\* Slip: only the keyboard's divert is looked at.
divert_domain_gone_Slip(rec, d) ==
    [rec EXCEPT !.key_domain = IF @ = d THEN NULL ELSE @]

divert_domain_gone(rec, d) ==
    [rec EXCEPT !.key_domain   = IF @ = d THEN NULL ELSE @,
                !.mouse_domain = IF @ = d THEN NULL ELSE @]

check_diverts_for_the_dead(s, d) ==
    [s EXCEPT !.domains = [r \in Rec |-> divert_domain_gone(@[r], d)]]

\* What follows the release of the backend and of the watches in both.
Forget(s, d, shown) ==
    check_diverts_for_the_dead(
        switcher_domain_gone(input_domain_gone(FreeRecord(s, d), d), d, shown),
        d)

domain_release(s, d, shown) == Forget(s, d, shown)

domain_gone(s, d, shown) ==
    IF s.domains[d].is_pvm /\ s.domains[d].sstate # REBOOT
    THEN Forget(focus_domain_gone(s, d, shown), d, shown)
    ELSE Forget(s, d, shown)

domain_detach_vkbd(s, d, shown) ==
    IF s.domains[d].vkbd THEN domain_release(s, d, shown) ELSE s

-----------------------------------------------------------------------------
(* Adding a record (domains.c).                                            *)

\* slot_occupied_by_dead_domain and the domain_gone its callers answer with;
\* dead: Xen no longer knows the record's domain, or only as dying.
SalvageSlot(s, slot, id, dead, shown) ==
    LET d == domain_with_slot_and_not_domid(s, slot, id) IN
    IF slot # NoSlot /\ d # NULL /\ dead THEN domain_gone(s, d, shown) ELSE s

\* The fields switcher_domid sets on a record that has got its slot; the
\* vkbd backend is created for every domain that connects.
Admit(s, d, slot, gpu) ==
    [s EXCEPT !.domains[d] = [@ EXCEPT
        !.slot = slot, !.is_pvm = FALSE, !.vkbd = TRUE, !.watched = TRUE,
        !.has_secondary_gpu = gpu]]

\* Both early returns leave the record initialised and without a slot.
switcher_domid(s, d, id, dead, match, shown) ==
    IF domain_with_domid(s, id) # NULL THEN s
    ELSE LET slot == VmSlot[id]
             t == SalvageSlot([s EXCEPT !.domains[d].domid = id],
                              slot, id, dead, shown)
         IN  IF slot = NoSlot \/ domain_with_slot(t, slot) # NULL THEN t
             ELSE focus_update_domain(Admit(t, d, slot, id \in GpuDomains),
                                      d, match, shown)

switcher_pvm_domid(s, d, id, dead, match, shown) ==
    LET t == [switcher_domid(s, d, id, dead, match, shown)
                 EXCEPT !.domains[d].is_pvm = TRUE]
    IN  switcher_switch(focus_update_domain(t, d, match, shown),
                        d, FALSE, shown)

domain_create(s, d, id, dead, match, shown) ==
    LET t == [s EXCEPT !.domains[d] =
                 [Blank(NoDomid) EXCEPT !.client = TRUE, !.initialised = TRUE]]
    IN  IF id \in Pvms
        THEN switcher_pvm_domid(t, d, id, dead, match, shown)
        ELSE switcher_domid(t, d, id, dead, match, shown)

\* domain_new, domain_setup and domain_set_pvm for a domid without a record:
\* the record is initialised last, and released again when it gets no slot.
SetupDomain(s, d, id, dead, shown) ==
    LET slot  == VmSlot[id]
        fresh == [s EXCEPT !.domains[d] = Blank(id)]
        t     == SalvageSlot(fresh, slot, id, dead, shown)
    IN  IF slot \notin 0..(NDOMAIN_MAX - 1) THEN domain_release(fresh, d, shown)
        ELSE IF domain_with_slot(t, slot) # NULL
        THEN domain_release(t, d, shown)
        ELSE [t EXCEPT !.domains[d] = [@ EXCEPT
                 !.slot = slot, !.watched = TRUE, !.initialised = TRUE]]

\* domain_attach_vkbd fails for an HVM domain and for a second backend; the
\* record domain_setup has just made then stays.
AttachVkbd(s, d, id, match, shown) ==
    IF id \notin PvDomains \/ s.domains[d].vkbd THEN s
    ELSE focus_update_domain([s EXCEPT !.domains[d].vkbd = TRUE],
                             d, match, shown)
-----------------------------------------------------------------------------
(* The handlers.  A handler asks surfman for its own record d or for the   *)
(* UIVM, and surfman may agree to either.                                  *)

Answers(d) == SUBSET ({d, domain_uivm(sw)} \ {NULL})

Init ==
    sw = [domains |-> [r \in Rec |-> Blank(NoDomid)],
          mouse_dest |-> NULL, mouse_parent |-> NULL,
          keyb_dest |-> NULL, keyb_parent |-> NULL,
          keyb_waits_for_click |-> FALSE,
          current |-> NULL, surface_current |-> NULL, death_window |-> {}]

\* A dmbus client connects (server.c); refused when the table is full.  A
\* domain has one input device, and so one connection, at a time.
rpc_connect(id) ==
    LET d == empty_domain(sw) IN
    /\ d # NULL
    /\ \A r \in Live(sw) : sw.domains[r].client => sw.domains[r].domid # id
    /\ \E dead, match \in BOOLEAN, shown \in Answers(d) :
           sw' = domain_create(sw, d, id, dead, match, shown)

\* A dmbus connection closes.
rpc_disconnect(d) ==
    /\ sw.domains[d].client
    /\ \E shown \in Answers(d) : sw' = domain_gone(sw, d, shown)

\* A guest announces why it is about to stop.
handle_switcher_shutdown(d) ==
    /\ sw.domains[d].client /\ sw.domains[d].domid \in Rebooters
    /\ \E reason \in {REBOOT, RUNNING} :
         LET t == [sw EXCEPT !.domains[d].sstate = reason] IN
         sw' = IF reason = REBOOT THEN focus_expect_death(t, d)
               ELSE focus_dont_expect_death(t, d)

\* DEATH_WINDOW_LENGTH seconds after the announcement.
DeathWindowCloses(slot) ==
    /\ slot \in sw.death_window
    /\ sw' = [sw EXCEPT !.death_window = @ \ {slot}]

\* The toolstack adds a vkbd to a domain, and its record when it has none.
input_daemon_attach_vkbd(id) ==
    LET known == domain_with_domid(sw, id)
        d     == IF known # NULL THEN known ELSE empty_domain(sw)
    IN  /\ d # NULL
        /\ \E match, dead \in BOOLEAN, shown \in Answers(d) :
             LET t == IF known # NULL THEN sw
                      ELSE SetupDomain(sw, d, id, dead, shown)
             IN  sw' = IF d \in Live(t) THEN AttachVkbd(t, d, id, match, shown)
                       ELSE t

input_daemon_detach_vkbd(d) ==
    /\ d \in Live(sw) /\ sw.domains[d].domid \in Domids
    /\ \E shown \in Answers(d) : sw' = domain_detach_vkbd(sw, d, shown)

\* The environment's promise when ~UivmDiverts.
UivmHasNoDivert(s) ==
    \A r \in Rec : s.domains[r].has_divert => s.domains[r].slot # 0

\* Slip: the other domain keeps the slot.
input_daemon_set_slot_Slip(d, slot) ==
    /\ d \in Live(sw) /\ sw.domains[d].domid \in Domids
    /\ sw' = [sw EXCEPT !.domains[d].slot = slot]

\* The toolstack swaps the slots of two domains, or takes one away.
input_daemon_set_slot(d, slot) ==
    LET d_slot == domain_with_slot(sw, slot)
        Put(s, r, n) == [s EXCEPT !.domains[r].slot = n]
    IN  /\ d \in Live(sw) /\ sw.domains[d].domid \in Domids
        /\ sw' = IF slot < 0 \/ d_slot = NULL THEN Put(sw, d, slot)
                 ELSE Put(Put(sw, d_slot, sw.domains[d].slot), d, slot)
        /\ UivmDiverts \/ UivmHasNoDivert(sw')

-----------------------------------------------------------------------------
(* Requests to switch.                                                     *)

\* The outcomes of switcher_switch to d: surfman is asked for d alone, and a
\* request for a slot that no domain has does nothing.
SwitchTo(d, mouse_switch) ==
    /\ d # NULL
    /\ \E shown \in SUBSET {d} :
           sw' = switcher_switch(sw, d, mouse_switch, shown)

\* D-Bus: switch to a domain, or take the focus off the GPU.
input_daemon_switch_focus(d) ==
    /\ d \in Live(sw) /\ sw.domains[d].domid \in Domids
    /\ SwitchTo(d, FALSE)

\* Slip: a domid where a record belongs.
switcher_unfocus_gpu_Slip ==
    sw' = [sw EXCEPT !.surface_current = NoDomid]

switcher_unfocus_gpu ==
    sw' = [sw EXCEPT !.surface_current = NULL]

\* Ctrl and a digit; the UIVM too, which the authentication screens and the
\* Slate's main button also switch to.
go_to_slot(slot) ==
    SwitchTo(domain_with_slot(sw, slot), FALSE)

\* Windows and Alt: the next of the slots 0..9, round from the current one,
\* whose domain is not the UIVM.
go_to_next ==
    LET cur      == sw.current
        n        == sw.domains[cur].slot
        After(k) == domain_with_slot(sw, (n + k) % 10)
        Found    == {k \in 1..10 : /\ (n + k) % 10 # n
                                   /\ After(k) \notin {NULL, domain_uivm(sw)}}
    IN  /\ cur \notin {NULL, domain_uivm(sw)}
        /\ Found # {}
        /\ SwitchTo(After(First(Found)), FALSE)

\* The pointer leaves the screen of the current domain, towards the slot its
\* configuration names or, for MOUSE_SWITCH_PREV, the displayed domain.
switcher_switch_on_mouse(slot) ==
    LET prev == sw.surface_current # NULL
        to == IF slot = -2 /\ prev
              THEN sw.domains[sw.surface_current].slot ELSE slot
    IN  /\ sw.current # NULL /\ sw.mouse_dest # NULL
        /\ slot = -2 => prev
        /\ to >= 0
        /\ SwitchTo(domain_with_slot(sw, to), TRUE)

\* switcher/command: a watch gives the record that was set up with it.
Commander(d) == sw.domains[d].watched /\ sw.domains[d].domid \in Seamless

domain_command_switch(d, to) ==
    /\ Commander(d) /\ to \in Live(sw)
    /\ SwitchTo(to, FALSE)

domain_command_take(d) ==
    Commander(d) /\ sw' = input_give_keyboard(sw, d)

domain_command_take_from(d, src) ==
    /\ Commander(d) /\ src \in Live(sw)
    /\ sw' = input_give_keyboard_from_domain(sw, src, d)

domain_command_release(d) ==
    Commander(d) /\ sw' = input_return_keyboard(sw, d)

domain_command_release_to(d, dest) ==
    /\ Commander(d) /\ dest \in Live(sw)
    /\ sw' = input_return_keyboard_to_domain(sw, dest, d)

-----------------------------------------------------------------------------
(* Diverting input: a viewer sends its keyboard, or its mouse within a     *)
(* frame, to another domain (bus.c).                                       *)

Sender(d) ==
    /\ d \in Live(sw) /\ sw.domains[d].domid \in Viewers
    /\ UivmDiverts \/ sw.domains[d].slot # 0

Target(td) == td \in Live(sw) /\ sw.domains[td].domid \in Domids

input_daemon_divert_mouse_focus(d, td) ==
    /\ Sender(d) /\ Target(td)
    /\ sw' = sync_mouse_domain(
                [sw EXCEPT !.domains[d] =
                    [@ EXCEPT !.has_divert = TRUE, !.mouse_domain = td]], d)

input_daemon_divert_keyboard_focus(d, td) ==
    /\ Sender(d) /\ Target(td)
    /\ sw' = sync_kbd_domain(
                [sw EXCEPT !.domains[d] =
                    [@ EXCEPT !.has_divert = TRUE, !.key_domain = td]], d)

\* Of a known sender.  For any other the code goes on with a NULL domain, which
\* input_set_mouse dereferences unless a viewer diverts the mouse (bus.c:885,
\* input.c:791, 807); the keyboard's likewise (bus.c:895).
input_daemon_stop_mouse_divert(d) ==
    /\ Sender(d)
    /\ sw' = sync_mouse_domain([sw EXCEPT !.domains[d].mouse_domain = NULL], d)

input_daemon_stop_keyboard_divert(d) ==
    /\ Sender(d)
    /\ sw' = sync_kbd_domain([sw EXCEPT !.domains[d].key_domain = NULL], d)

\* Only the KEYFOLLOWMOUSE bit of the mode moves a destination.
input_daemon_focus_mode(d) ==
    /\ Sender(d)
    /\ \E follows \in BOOLEAN :
         sw' = [sw EXCEPT !.domains[d] =
                   [@ EXCEPT !.has_divert = TRUE, !.key_follows = follows]]

\* input_inject: a button goes down while the keyboard waits for a click.
\* Outside the frame of a diverted mouse the viewer gets the event.
Click ==
    LET p == sw.mouse_parent
        d == sw.mouse_dest
    IN  /\ sw.keyb_waits_for_click /\ d # NULL
        /\ \/ /\ p = NULL
              /\ sw' = input_set_keyb(sw, d)
           \/ /\ p # NULL /\ sw.domains[p].key_follows
              /\ sw' = sync_kbd_domain(
                          [sw EXCEPT !.domains[p].key_domain = d], p)

-----------------------------------------------------------------------------
(* Power states and adapters.                                              *)

\* The guest's power-state node becomes 3.
domain_power_state(d) ==
    /\ sw.domains[d].watched /\ sw.domains[d].domid \in Sleepers
    /\ \E shown \in Answers(d) :
         LET asleep == [sw EXCEPT !.domains[d].is_in_s3 = TRUE]
             reset  == reset_prev_keyb_domain(
                           SetPrev(asleep, d, NULL, NoDomid), d)
         IN  sw' = switcher_s3(reset, d, shown)

domain_wake_from_s3(s, d, shown) ==
    IF d = NULL \/ ~s.domains[d].is_in_s3 THEN s
    ELSE LET t == [s EXCEPT !.domains[d] =
                      [@ EXCEPT !.is_in_s3 = FALSE, !.sstate = RUNNING]]
         IN  IF s.domains[d].is_pvm THEN switcher_switch(t, d, FALSE, shown)
             ELSE t

\* input_inject: the first event after a pause wakes the focused domains and
\* the PVM, unless the host itself is suspending.
WakeOnInput ==
    /\ \E d \in Live(sw) : sw.domains[d].is_in_s3
    /\ \E shown \in SUBSET Rec :
         LET mouse == domain_wake_from_s3(sw, sw.mouse_dest, shown)
             keyb  == domain_wake_from_s3(mouse, mouse.keyb_dest, shown)
         IN  sw' = domain_wake_from_s3(keyb, domain_pvm(keyb), shown)

\* A guest's graphics driver changes: an adapter surfman cannot show
\* disables the surface and puts the UIVM on the screen.
domain_active_adapter_node_watch(d) ==
    /\ sw.domains[d].client /\ sw.domains[d].watched
    /\ sw.domains[d].domid \in GpuDomains /\ ~sw.domains[d].is_pvm
    /\ \E shown \in Answers(d) :
         LET off == ~sw.domains[d].disabled_surface
             t   == [sw EXCEPT !.domains[d].disabled_surface = off]
         IN  sw' = IF off THEN switcher_switch_graphic(t, domain_uivm(t), shown)
                   ELSE t

\* The driver of a secondary GPU is unloaded.
domain_active_adapter_watch(d) ==
    /\ sw.domains[d].watched /\ sw.domains[d].has_secondary_gpu
    /\ \E shown \in Answers(d) : sw' = switcher_switch_graphic(sw, d, shown)

-----------------------------------------------------------------------------

Connections ==
    \/ \E id \in Domids : rpc_connect(id)
    \/ \E id \in VkbdDomains : input_daemon_attach_vkbd(id)
    \/ \E d \in Rec : \/ rpc_disconnect(d)
                      \/ input_daemon_detach_vkbd(d)
                      \/ handle_switcher_shutdown(d)
                      \/ \E slot \in SlotCalls : input_daemon_set_slot(d, slot)
    \/ \E slot \in FocusSlots : DeathWindowCloses(slot)

Switches ==
    \/ switcher_unfocus_gpu
    \/ go_to_next
    \/ \E slot \in 0..9 : go_to_slot(slot)
    \/ \E slot \in {-2} \cup 0..9 : switcher_switch_on_mouse(slot)
    \/ \E d \in Rec : input_daemon_switch_focus(d)

Commands ==
    \E d \in Rec : \/ domain_command_take(d)
                  \/ domain_command_release(d)
                  \/ \E e \in Rec : \/ domain_command_switch(d, e)
                                    \/ domain_command_take_from(d, e)
                                    \/ domain_command_release_to(d, e)

Diverts ==
    \/ \E d \in Rec : \/ input_daemon_stop_mouse_divert(d)
                      \/ input_daemon_stop_keyboard_divert(d)
                      \/ input_daemon_focus_mode(d)
                      \/ \E td \in Rec :
                            \/ input_daemon_divert_mouse_focus(d, td)
                            \/ input_daemon_divert_keyboard_focus(d, td)
    \/ Click

Power ==
    \/ WakeOnInput
    \/ \E d \in Rec : \/ domain_power_state(d)
                      \/ domain_active_adapter_node_watch(d)
                      \/ domain_active_adapter_watch(d)

Next == Connections \/ Switches \/ Commands \/ Diverts \/ Power

Spec == Init /\ [][Next]_sw

-----------------------------------------------------------------------------
(* Properties.                                                             *)

TypeOK == sw \in State

\* input_inject, mouse_outside_frame and scale_pointer_event dereference
\* mouse_parent->divert_info, and check_divert_keys keyb_parent->divert_info,
\* long after set_mouse_domain or set_kbd_domain stored the parent: a parent
\* is always a record in use whose divert_info has not been freed.
ParentHasDivert ==
    \A p \in {sw.mouse_parent, sw.keyb_parent} \ {NULL} :
        p \in Live(sw) /\ sw.domains[p].has_divert

\* input_send writes to whatever record a destination points at: it is never
\* one that domain_gone or domain_release has already cleaned up.
DestinationsAlive ==
    {sw.mouse_dest, sw.keyb_dest} \subseteq Live(sw) \cup {NULL}

\* While a viewer is the parent of a destination, the destination is the
\* domain its divert_info names now, whoever was diverted, stopped, clicked
\* or died since: no handler changes one without the other.
ParentNamesDestination ==
    /\ sw.mouse_parent # NULL =>
          sw.mouse_dest = sw.domains[sw.mouse_parent].mouse_domain
    /\ sw.keyb_parent # NULL =>
          sw.keyb_dest = sw.domains[sw.keyb_parent].key_domain

\* set_mouse_domain and set_kbd_domain follow a divert without asking whether
\* its target still exists; check_diverts_for_the_dead runs last in
\* domain_gone, after the switch to the UIVM has followed the diverts once.
DivertTargetsAlive ==
    \A d \in Rec : {sw.domains[d].key_domain, sw.domains[d].mouse_domain}
                    \subseteq Live(sw) \cup {NULL}

\* "If your keyboard is in another castle, get it back on click"
\* (input_inject): when the mouse has left the domain that has the keyboard
\* and no seamless command asked for it, the wait for a click is on.
ClickBringsKeyboard ==
    /\ sw.mouse_parent = NULL /\ sw.keyb_parent = NULL
    /\ NULL \notin {sw.mouse_dest, sw.keyb_dest}
    /\ sw.mouse_dest # sw.keyb_dest
    => sw.keyb_waits_for_click

\* restore_prev_keyb_domain compares a remembered domid with that of the
\* remembered record, which keeps its domid when it is freed: the record it
\* accepts is still that domain's.
RestoreIsSafe ==
    \A d \in Live(sw) :
        PrevUsable(sw, d) => sw.domains[d].prev_ptr \in Live(sw)

\* "Domain<->Slot has to be unique" (domain_assign_slot): hot keys, set_slot
\* and domain_uivm find a domain by its slot.
SlotsUnique ==
    \A d, e \in Live(sw) :
        sw.domains[d].slot = sw.domains[e].slot /\ sw.domains[d].slot # NoSlot
            => d = e

\* "Enforce domain unicity" (domain_new): reset_prev_keyb_domain,
\* switcher_domain_gone and the D-Bus calls find a domain by its domid.
DomidsUnique ==
    \A d, e \in Live(sw) :
        sw.domains[d].domid = sw.domains[e].domid /\ sw.domains[d].domid # NoDomid
            => d = e

\* switcher_switch_graphic skips surfman for the record that already has the
\* surface: that record is never a freed one, about to be reused.
SurfaceAlive == sw.surface_current \in Live(sw) \cup {NULL}

\* domain_power_state resets the previous keyboard domain "so that on
\* wakeup, the domain itself will have the keyboard".
SleepResetsPrevious ==
    [][\A d \in Live(sw) :
          /\ ~sw.domains[d].is_in_s3 /\ sw'.domains[d].is_in_s3
          => sw'.domains[d].prev_ptr = NULL]_sw

=============================================================================
